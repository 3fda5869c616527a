----------------------------- MODULE RunLedger -----------------------------
(***************************************************************************)
(* What the research workflow promises about its runs: a ledger.  A run is *)
(* opened once, given to at most one execution and ended once; a success   *)
(* of a public run makes the result of the execution it was given to       *)
(* available in the same step, and for good.  A failed or private run      *)
(* never shows anything.                                                   *)
(***************************************************************************)
CONSTANTS Runs, Executions, Times, Codes, None

VARIABLES
    stage,      \* "absent", "PENDING", "RUNNING", "SUCCEEDED" or "FAILED"
    visible,    \* runs opened with PUBLIC visibility
    given,      \* for each run the executions it was given to
    failure,    \* why it failed, or None
    ended,      \* when it ended, or None
    shown       \* for each run the executions whose result anybody can read

vars == <<stage, visible, given, failure, ended, shown>>

Init ==
    /\ stage = [r \in Runs |-> "absent"]
    /\ visible = {}
    /\ given = [r \in Runs |-> {}]
    /\ failure = [r \in Runs |-> None]
    /\ ended = [r \in Runs |-> None]
    /\ shown = [r \in Runs |-> {}]

Open(r) ==
    /\ stage[r] = "absent"
    /\ stage' = [stage EXCEPT ![r] = "PENDING"]
    /\ visible' \in {visible, visible \cup {r}}
    /\ UNCHANGED <<given, failure, ended, shown>>

\* An execution that never learns that the run is its own does not execute it.
Begin(r) ==
    /\ stage[r] = "PENDING"
    /\ stage' = [stage EXCEPT ![r] = "RUNNING"]
    /\ \/ UNCHANGED given
       \/ \E e \in Executions :
            /\ \A q \in Runs : e \notin given[q]
            /\ given' = [given EXCEPT ![r] = {e}]
    /\ UNCHANGED <<visible, failure, ended, shown>>

\* Only a run that somebody has executed succeeds.
Succeed(r) ==
    /\ stage[r] = "RUNNING" /\ given[r] # {}
    /\ stage' = [stage EXCEPT ![r] = "SUCCEEDED"]
    /\ \E t \in Times : ended' = [ended EXCEPT ![r] = t]
    /\ shown' = [shown EXCEPT ![r] = IF r \in visible THEN given[r] ELSE {}]
    /\ UNCHANGED <<visible, given, failure>>

Fail(r) ==
    /\ stage[r] \in {"PENDING", "RUNNING"}
    /\ stage' = [stage EXCEPT ![r] = "FAILED"]
    /\ \E t \in Times : ended' = [ended EXCEPT ![r] = t]
    /\ \E k \in Codes : failure' = [failure EXCEPT ![r] = k]
    /\ UNCHANGED <<visible, given, shown>>

Next == \E r \in Runs : Open(r) \/ Begin(r) \/ Succeed(r) \/ Fail(r)

Spec == Init /\ [][Next]_vars

=============================================================================
