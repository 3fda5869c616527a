------------------------------ MODULE JobLife ------------------------------
(***************************************************************************)
(* What the API promises about a permutation job to the client that posts  *)
(* and polls it.  A job goes from pending to running to one outcome, and   *)
(* only starts once its client has been told that it is pending.  Outcomes *)
(* may be forgotten, several at once and even the newest; a job that is    *)
(* still worked on is forgotten only if the service as a whole forgets.    *)
(* A poll is answered with what the job is at that moment.                 *)
(***************************************************************************)
CONSTANT Jobs

VARIABLES
    life,   \* what each job is
    told    \* what the client was last told

Outcomes == {"done", "error"}
Stages == {"unknown", "pending", "running", "gone"} \cup Outcomes

Init ==
    /\ life = [j \in Jobs |-> "unknown"]
    /\ told = [j \in Jobs |-> "nothing"]

\* What is left of the jobs when some outcomes are forgotten.
Kept(jobs) ==
    {left \in [Jobs -> Stages] :
       \A j \in Jobs : left[j] = jobs[j] \/ (jobs[j] \in Outcomes /\ left[j] = "gone")}

Post(j) ==
    /\ life[j] = "unknown"
    /\ life' \in Kept([life EXCEPT ![j] = "pending"])
    /\ UNCHANGED told

Start(j) ==
    /\ life[j] = "pending" /\ told[j] = "pending"
    /\ life' \in Kept([life EXCEPT ![j] = "running"])
    /\ UNCHANGED told

End(j) ==
    /\ life[j] = "running"
    /\ \E outcome \in Outcomes : life' \in Kept([life EXCEPT ![j] = outcome])
    /\ UNCHANGED told

\* The first answer is that the job is pending, unless it is lost by then.
Tell(j) ==
    /\ life[j] # "unknown"
    /\ life' \in Kept(life)
    /\ told[j] = "nothing" => life'[j] \in {"pending", "gone"}
    /\ told' = [told EXCEPT ![j] = IF life'[j] = "gone" THEN "404" ELSE life'[j]]

\* The service forgets every job it was given.
Lose ==
    /\ life' = [j \in Jobs |-> IF life[j] = "unknown" THEN "unknown" ELSE "gone"]
    /\ UNCHANGED told

Next ==
    \/ \E j \in Jobs : Post(j) \/ Start(j) \/ End(j) \/ Tell(j)
    \/ Lose

Spec == Init /\ [][Next]_<<life, told>>

=============================================================================
