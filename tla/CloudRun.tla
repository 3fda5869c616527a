------------------------------ MODULE CloudRun ------------------------------
(***************************************************************************)
(* One execution of the AWS research workflow: the Step Functions state    *)
(* machine (src/infra/step_functions.tf), the preparation and finalization *)
(* Lambdas, the Fargate worker and the public results handler              *)
(* (src/src/cloud), over conditional DynamoDB records and immutable S3     *)
(* objects (src/src/cloud/storage.py).                                     *)
(*                                                                         *)
(* A Lambda invocation is a process of its own: the state machine may lose *)
(* its answer, retry or move on while it still runs.  So may a worker.     *)
(***************************************************************************)
EXTENDS Naturals, Sequences, FiniteSets

CONSTANTS
    Runs,           \* run identifiers, one for each uuid drawn
    Workers,        \* ECS tasks
    Calls,          \* Lambda invocations that may be in flight at once
    Times,          \* clock readings that completed_at may record
    MaxAttempts,    \* retries of a state, 3 in the state machine
    Faults,         \* what may go wrong
    None

\* "aws": an S3 or DynamoDB request raises; "service": the Lambda or ECS
\* service fails a request; "timeout": a TimeoutSeconds elapses; "worker": the
\* backtest raises; "kill": a task is stopped; "acquire": the acquisition fails.
FaultKinds == {"aws", "service", "timeout", "worker", "kill", "acquire"}

FailureCodes == {"WORKER_FAILED", "ARTIFACT_VERIFICATION_FAILED", "WORKFLOW_TIMED_OUT"}

ASSUME CloudAssumption ==
    /\ None \notin Runs /\ None \notin Workers /\ None \notin Calls /\ None \notin Times
    /\ None \notin FailureCodes
    /\ Faults \subseteq FaultKinds
    /\ MaxAttempts \in Nat

VARIABLES
    \* DynamoDB: the run records.
    status,     \* "absent", "PENDING", "RUNNING", "SUCCEEDED" or "FAILED"
    code,       \* failure_code, or None
    completed,  \* completed_at, or None
    started,    \* runs whose record has started_at
    public,     \* runs requested with PUBLIC visibility
    \* S3.
    specs,      \* runs whose run-spec.json exists
    objects,    \* for each run and output, the worker whose body is stored, or None
    \* The workers.
    wpc,        \* where each one is
    wrun,       \* the run it was started for
    puts,       \* outputs it has published
    ran,        \* history: workers that have executed their run
    \* The Lambda invocations.
    calls,
    \* The state machine.
    wf,         \* its state
    wfRun,      \* $.run_id
    wfCode,     \* $.FailureCode
    attempts,   \* retries of this state so far
    waiting,    \* the invocation it waits for, or None
    worker      \* the task it waits for, or None

recordVars == <<status, code, completed, started, public>>
storageVars == <<specs, objects>>
workerVars == <<wpc, wrun, puts, ran>>
flowVars == <<wf, wfRun, wfCode, attempts, waiting, worker>>
vars == <<recordVars, storageVars, workerVars, calls, flowVars>>

\* What the worker publishes, in this order, the manifest last.
Outputs == <<"result", "trades", "equity-curve", "report", "checksums">>

Names == {"result", "trades", "equity-curve", "report", "checksums"}

IdleCall == [pc |-> "idle", kind |-> "prepare", run |-> None, code |-> None]

Init ==
    /\ status = [r \in Runs |-> "absent"]
    /\ code = [r \in Runs |-> None]
    /\ completed = [r \in Runs |-> None]
    /\ started = {}
    /\ public = {}
    /\ specs = {}
    /\ objects = [r \in Runs |-> [n \in Names |-> None]]
    /\ wpc = [w \in Workers |-> "idle"]
    /\ wrun = [w \in Workers |-> None]
    /\ puts = [w \in Workers |-> 0]
    /\ ran = {}
    /\ calls = [c \in Calls |-> IdleCall]
    /\ wf = "AcquireData"
    /\ wfRun = None
    /\ wfCode = None
    /\ attempts = 0
    /\ waiting = None
    /\ worker = None

Terminal(r) == status[r] \in {"SUCCEEDED", "FAILED"}

CallGoto(c, to) == calls' = [calls EXCEPT ![c].pc = to]

-----------------------------------------------------------------------------
(* The preparation Lambda.                                                 *)

\* prepare_run publishes the specification of a fresh run,
PutSpec(c) ==
    /\ calls[c].pc = "start" /\ calls[c].kind = "prepare"
    /\ \/ specs' = specs \cup {calls[c].run} /\ CallGoto(c, "create")
       \/ /\ "aws" \in Faults
          /\ specs' \in {specs, specs \cup {calls[c].run}}
          /\ CallGoto(c, "broken")
    /\ UNCHANGED <<recordVars, objects, workerVars, flowVars>>

\* then creates its PENDING record.
CreatePending(c) ==
    LET r == calls[c].run
    IN  /\ calls[c].pc = "create"
        /\ \/ /\ status[r] = "absent"
              /\ status' = [status EXCEPT ![r] = "PENDING"]
              /\ public' \in {public, public \cup {r}}
              /\ CallGoto(c, "ok") \/ ("aws" \in Faults /\ CallGoto(c, "broken"))
           \/ /\ \/ status[r] # "absent" /\ CallGoto(c, "error")
                 \/ "aws" \in Faults /\ CallGoto(c, "broken")
              /\ UNCHANGED <<status, public>>
        /\ UNCHANGED <<code, completed, started, storageVars, workerVars, flowVars>>

-----------------------------------------------------------------------------
(* The worker.                                                             *)

Alive(w) == wpc[w] \in {"started", "running", "publishing"}

WorkerGoto(w, to) == wpc' = [wpc EXCEPT ![w] = to]

\* Mutant: any worker may take the run.
MarkRunningAlways(w) ==
    LET r == wrun[w]
    IN  /\ wpc[w] = "started"
        /\ status[r] \in {"PENDING", "RUNNING"}
        /\ status' = [status EXCEPT ![r] = "RUNNING"]
        /\ started' = started \cup {r}
        /\ ran' = ran \cup {w}
        /\ WorkerGoto(w, "running")
        /\ UNCHANGED <<code, completed, public, storageVars, wrun, puts, calls, flowVars>>

\* mark_running: the condition of the update.
MayRun(r) == status[r] = "PENDING"

\* It reads its specification and takes the run, if nobody has.  When the
\* answer to the update is lost, the client's own retry is rejected.
MarkRunning(w) ==
    LET r == wrun[w]
    IN  /\ wpc[w] = "started"
        /\ \/ /\ MayRun(r)
              /\ status' = [status EXCEPT ![r] = "RUNNING"]
              /\ started' = started \cup {r}
              /\ \/ WorkerGoto(w, "running") /\ ran' = ran \cup {w}
                 \/ "aws" \in Faults /\ WorkerGoto(w, "exited1") /\ UNCHANGED ran
           \/ /\ ~MayRun(r) \/ "aws" \in Faults
              /\ WorkerGoto(w, "exited1")
              /\ UNCHANGED <<status, started, ran>>
        /\ UNCHANGED <<code, completed, public, storageVars, wrun, puts, calls, flowVars>>

\* It checks the dataset and runs the backtest.
Compute(w) ==
    /\ wpc[w] = "running"
    /\ \/ WorkerGoto(w, "publishing")
       \/ Faults \cap {"worker", "aws"} # {} /\ WorkerGoto(w, "exited1")
    /\ UNCHANGED <<recordVars, storageVars, wrun, puts, ran, calls, flowVars>>

\* S3ObjectStore.put refuses other bytes under the same key.  Two workers
\* write the same tables and report, but not the same completion time.
PutConflicts(w, n) ==
    /\ objects[wrun[w]][n] \notin {None, w}
    /\ n \in {"result", "checksums"}

\* S3ObjectStore.put writes a key once: where there is an object, it stays.
Put(w, n) ==
    objects' = [objects EXCEPT ![wrun[w]][n] = IF @ = None THEN w ELSE @]

PutOutput(w) ==
    LET n == Outputs[puts[w] + 1]
    IN  /\ wpc[w] = "publishing"
        /\ \/ /\ ~PutConflicts(w, n)
              /\ Put(w, n)
              /\ puts' = [puts EXCEPT ![w] = @ + 1]
              /\ IF puts[w] + 1 = Len(Outputs) THEN WorkerGoto(w, "exited0") ELSE UNCHANGED wpc
           \/ /\ PutConflicts(w, n) \/ "aws" \in Faults
              /\ UNCHANGED objects \/ ("aws" \in Faults /\ Put(w, n))
              /\ WorkerGoto(w, "exited1")
              /\ UNCHANGED puts
        /\ UNCHANGED <<recordVars, specs, wrun, ran, calls, flowVars>>

\* The task is stopped: by ECS, by the state machine's timeout, out of memory.
Kill(w) ==
    /\ "kill" \in Faults
    /\ Alive(w)
    /\ WorkerGoto(w, "killed")
    /\ UNCHANGED <<recordVars, storageVars, wrun, puts, ran, calls, flowVars>>

WorkerStep(w) == MarkRunning(w) \/ Compute(w) \/ PutOutput(w)

-----------------------------------------------------------------------------
(* The finalization Lambda.                                                *)

\* _read_manifest and _verify_required_artifacts: every required artifact is
\* there and has the digest the manifest lists.
Verified(r) ==
    LET m == objects[r]["checksums"]
    IN  /\ m # None
        /\ r \in specs
        /\ \A n \in Names : objects[r][n] # None
        /\ objects[r]["result"] = m

\* finalize_success verifies before it writes anything.
Verify(c) ==
    /\ calls[c].pc = "start" /\ calls[c].kind = "success"
    /\ \/ Verified(calls[c].run) /\ CallGoto(c, "mark")
       \/ ~Verified(calls[c].run) /\ CallGoto(c, "error")
       \/ "aws" \in Faults /\ CallGoto(c, "broken")
    /\ UNCHANGED <<recordVars, storageVars, workerVars, flowVars>>

\* Mutant: a success overwrites any record.
MaySucceedAlways(r, t) == status[r] # "absent"

\* mark_succeeded and mark_failed: the conditions of the updates.
MaySucceed(r, t) ==
    status[r] = "RUNNING" \/ (status[r] = "SUCCEEDED" /\ completed[r] = t)

\* Mutant: only a running run may fail.
MayFailRunning(r, k, t) == status[r] = "RUNNING" \/ (status[r] = "FAILED" /\ code[r] = k)

\* Mutant: a failure overwrites any record.
MayFailAlways(r, k, t) == status[r] # "absent"

MayFail(r, k, t) ==
    \/ status[r] \in {"PENDING", "RUNNING"}
    \/ status[r] = "FAILED" /\ code[r] = k /\ completed[r] = t

MarkSucceeded(c) ==
    LET r == calls[c].run
    IN  /\ calls[c].pc = "mark"
        /\ \E t \in Times :
             \/ /\ MaySucceed(r, t)
                /\ status' = [status EXCEPT ![r] = "SUCCEEDED"]
                /\ completed' = [completed EXCEPT ![r] = t]
                /\ CallGoto(c, "reread") \/ ("aws" \in Faults /\ CallGoto(c, "broken"))
             \/ /\ ~MaySucceed(r, t) /\ CallGoto(c, "reread")
                /\ UNCHANGED <<status, completed>>
             \/ "aws" \in Faults /\ CallGoto(c, "broken") /\ UNCHANGED <<status, completed>>
        /\ UNCHANGED <<code, started, public, storageVars, workerVars, flowVars>>

MarkFailed(c) ==
    LET r == calls[c].run
        k == calls[c].code
    IN  /\ calls[c].pc = "start" /\ calls[c].kind = "failure"
        /\ \E t \in Times :
             \/ /\ MayFail(r, k, t)
                /\ status' = [status EXCEPT ![r] = "FAILED"]
                /\ code' = [code EXCEPT ![r] = k]
                /\ completed' = [completed EXCEPT ![r] = t]
                /\ CallGoto(c, "reread") \/ ("aws" \in Faults /\ CallGoto(c, "broken"))
             \/ /\ ~MayFail(r, k, t) /\ CallGoto(c, "reread")
                /\ UNCHANGED <<status, code, completed>>
             \/ "aws" \in Faults /\ CallGoto(c, "broken") /\ UNCHANGED <<status, code, completed>>
        /\ UNCHANGED <<started, public, storageVars, workerVars, flowVars>>

\* Mutant: any terminal record will do.
AgreesTerminal(c) == Terminal(calls[c].run)

\* The record is what this finalizer was asked to make it.
Agrees(c) ==
    IF calls[c].kind = "success" THEN status[calls[c].run] = "SUCCEEDED"
    ELSE status[calls[c].run] = "FAILED" /\ code[calls[c].run] = calls[c].code

\* Whether the update was accepted or not, the record decides.
Reread(c) ==
    /\ calls[c].pc = "reread"
    /\ \/ Agrees(c) /\ CallGoto(c, "ok")
       \/ ~Agrees(c) /\ CallGoto(c, "error")
       \/ "aws" \in Faults /\ CallGoto(c, "broken")
    /\ UNCHANGED <<recordVars, storageVars, workerVars, flowVars>>

\* handle_finalization: the outcome the state machine names selects one of the
\* two finalizations.
Finalize(c) == Verify(c) \/ MarkSucceeded(c) \/ MarkFailed(c) \/ Reread(c)

CallStep(c) == PutSpec(c) \/ CreatePending(c) \/ Finalize(c)

\* An invocation nobody waits for ends unnoticed.
Forget(c) ==
    /\ calls[c].pc \in {"ok", "error", "broken"}
    /\ waiting # c
    /\ calls' = [calls EXCEPT ![c] = IdleCall]
    /\ UNCHANGED <<recordVars, storageVars, workerVars, flowVars>>

\* The Lambda service stops an invocation that takes too long.
CallTimesOut(c) ==
    /\ "timeout" \in Faults
    /\ calls[c].pc \in {"start", "create", "mark", "reread"}
    /\ CallGoto(c, "broken")
    /\ UNCHANGED <<recordVars, storageVars, workerVars, flowVars>>

-----------------------------------------------------------------------------
(* The state machine.                                                      *)

Ends == {"Succeeded", "FailureRecorded", "Closed", "Refused", "Unreachable", "TimedOut"}

Enter(state) == wf' = state /\ attempts' = 0 /\ waiting' = None /\ worker' = None

FailRun(k) == Enter("FinalizeFailure") /\ wfCode' = k

\* Where a state's Catch leads.  FinalizeFailure has none: the execution fails,
\* because the record disagrees or because it could not be written.
Catch(unreachable) ==
    \/ wf = "PrepareRun" /\ Enter("Closed") /\ UNCHANGED wfCode
    \/ wf = "FinalizeSuccess" /\ FailRun("ARTIFACT_VERIFICATION_FAILED")
    \/ /\ wf = "FinalizeFailure"
       /\ Enter(IF unreachable THEN "Unreachable" ELSE "Refused")
       /\ UNCHANGED wfCode

\* AcquireData: the ingestion Lambda publishes the pinned dataset, or fails.
AcquireData ==
    /\ wf = "AcquireData"
    /\ \/ Enter("PrepareRun")
       \/ "acquire" \in Faults /\ Enter("Closed")
    /\ UNCHANGED <<recordVars, storageVars, workerVars, calls, wfRun, wfCode>>

\* The other Lambda states invoke their function,
Invoke(c) ==
    /\ waiting = None
    /\ calls[c].pc = "idle"
    /\ \/ /\ wf = "PrepareRun"
          /\ \E r \in Runs :
               /\ r \notin specs /\ status[r] = "absent" /\ \A d \in Calls : calls[d].run # r
               /\ calls' = [calls EXCEPT ![c] =
                              [pc |-> "start", kind |-> "prepare", run |-> r, code |-> None]]
       \/ /\ wf = "FinalizeSuccess"
          /\ calls' = [calls EXCEPT ![c] =
                         [pc |-> "start", kind |-> "success", run |-> wfRun, code |-> None]]
       \/ /\ wf = "FinalizeFailure"
          /\ calls' = [calls EXCEPT ![c] =
                         [pc |-> "start", kind |-> "failure", run |-> wfRun, code |-> wfCode]]
    /\ waiting' = c
    /\ UNCHANGED <<recordVars, storageVars, workerVars, wf, wfRun, wfCode, attempts, worker>>

\* go on when it answers,
Answered(c) ==
    /\ waiting = c
    /\ calls[c].pc = "ok"
    /\ \/ wf = "PrepareRun" /\ Enter("RunWorker") /\ wfRun' = calls[c].run
       \/ wf = "FinalizeSuccess" /\ Enter("Succeeded") /\ UNCHANGED wfRun
       \/ wf = "FinalizeFailure" /\ Enter("FailureRecorded") /\ UNCHANGED wfRun
    /\ UNCHANGED <<recordVars, storageVars, workerVars, calls, wfCode>>

\* follow their Catch when it raises,
Raised(c) ==
    /\ waiting = c
    /\ calls[c].pc \in {"error", "broken"}
    /\ Catch(calls[c].pc = "broken")
    /\ UNCHANGED <<recordVars, storageVars, workerVars, calls, wfRun>>

\* and retry when the service fails, whatever became of the invocation.
ServiceFails ==
    /\ "service" \in Faults
    /\ waiting # None
    /\ \/ /\ attempts < MaxAttempts
          /\ attempts' = attempts + 1
          /\ waiting' = None
          /\ UNCHANGED <<wf, wfCode, worker>>
       \/ attempts = MaxAttempts /\ Catch(TRUE)
    /\ UNCHANGED <<recordVars, storageVars, workerVars, calls, wfRun>>

\* RunWorker starts one task,
Launch(w) ==
    /\ wf = "RunWorker"
    /\ worker = None
    /\ wpc[w] = "idle"
    /\ WorkerGoto(w, "started")
    /\ wrun' = [wrun EXCEPT ![w] = wfRun]
    /\ worker' = w
    /\ UNCHANGED <<recordVars, storageVars, puts, ran, calls, wf, wfRun, wfCode, attempts, waiting>>

\* waits for it to stop,
WorkerStopped(w) ==
    /\ wf = "RunWorker"
    /\ worker = w
    /\ \/ wpc[w] = "exited0" /\ Enter("FinalizeSuccess") /\ UNCHANGED wfCode
       \/ wpc[w] \in {"exited1", "killed"} /\ FailRun("WORKER_FAILED")
    /\ UNCHANGED <<recordVars, storageVars, workerVars, calls, wfRun>>

\* starts another one when the ECS service fails, whatever became of the first,
LaunchFails ==
    /\ "service" \in Faults
    /\ wf = "RunWorker"
    /\ \/ /\ attempts < MaxAttempts
          /\ attempts' = attempts + 1
          /\ worker' = None
          /\ UNCHANGED <<wf, wfCode, waiting>>
       \/ attempts = MaxAttempts /\ FailRun("WORKER_FAILED")
    /\ UNCHANGED <<recordVars, storageVars, workerVars, calls, wfRun>>

\* and gives up after TimeoutSeconds; the task may still run.
WorkerTimesOut ==
    /\ "timeout" \in Faults
    /\ wf = "RunWorker"
    /\ FailRun("WORKFLOW_TIMED_OUT")
    /\ UNCHANGED <<recordVars, storageVars, workerVars, calls, wfRun>>

\* The execution's own TimeoutSeconds has no Catch.
ExecutionTimesOut ==
    /\ "timeout" \in Faults
    /\ wf \notin Ends
    /\ Enter("TimedOut")
    /\ UNCHANGED <<recordVars, storageVars, workerVars, calls, wfRun, wfCode>>

FlowStep ==
    \/ AcquireData
    \/ \E c \in Calls : Invoke(c) \/ Answered(c) \/ Raised(c)
    \/ \E w \in Workers : Launch(w) \/ WorkerStopped(w)

Next ==
    \/ FlowStep
    \/ ServiceFails \/ LaunchFails \/ WorkerTimesOut \/ ExecutionTimesOut
    \/ \E c \in Calls : CallStep(c) \/ Forget(c) \/ CallTimesOut(c)
    \/ \E w \in Workers : WorkerStep(w) \/ Kill(w)

Spec == Init /\ [][Next]_vars

-----------------------------------------------------------------------------
(* The results handler.                                                    *)

\* The record is that of a public run, and complete.
PublicRecord(r) ==
    /\ status[r] = "SUCCEEDED"
    /\ r \in public
    /\ code[r] = None
    /\ r \in started
    /\ completed[r] # None

\* get_public_result answers 200; anything else is the uniform 404.
Served(r) ==
    /\ PublicRecord(r)
    /\ objects[r]["checksums"] # None
    /\ objects[r]["result"] = objects[r]["checksums"]
    /\ objects[r]["report"] # None

-----------------------------------------------------------------------------
(* Properties.                                                             *)

RecordTypeOK ==
    /\ status \in [Runs -> {"absent", "PENDING", "RUNNING", "SUCCEEDED", "FAILED"}]
    /\ code \in [Runs -> FailureCodes \cup {None}]
    /\ completed \in [Runs -> Times \cup {None}]
    /\ started \subseteq Runs
    /\ public \subseteq Runs

StorageTypeOK ==
    /\ specs \subseteq Runs
    /\ objects \in [Runs -> [Names -> Workers \cup {None}]]

WorkerTypeOK ==
    /\ wpc \in [Workers -> {"idle", "started", "running", "publishing",
                            "exited0", "exited1", "killed"}]
    /\ wrun \in [Workers -> Runs \cup {None}]
    /\ puts \in [Workers -> 0 .. 5]
    /\ ran \subseteq Workers

CallPcs == {"idle", "start", "create", "mark", "reread", "ok", "error", "broken"}

CallTypeOK ==
    calls \in [Calls -> [pc : CallPcs,
                         kind : {"prepare", "success", "failure"},
                         run : Runs \cup {None},
                         code : FailureCodes \cup {None}]]

FlowTypeOK ==
    /\ wf \in {"AcquireData", "PrepareRun", "RunWorker", "FinalizeSuccess", "FinalizeFailure"}
              \cup Ends
    /\ wfRun \in Runs \cup {None}
    /\ wfCode \in FailureCodes \cup {None}
    /\ attempts \in 0 .. MaxAttempts
    /\ waiting \in Calls \cup {None}
    /\ worker \in Workers \cup {None}

\* Type correctness; in particular no state is retried more often than its
\* Retry allows and no worker publishes more than its outputs.
TypeOK == RecordTypeOK /\ StorageTypeOK /\ WorkerTypeOK /\ CallTypeOK /\ FlowTypeOK

\* A run is executed once, however many tasks the state machine starts for it.
ExecutedOnce == \A v, w \in ran : wrun[v] = wrun[w] => v = w

\* A succeeded run has every artifact, all of one execution, and if it is
\* public the results handler serves it.
SucceededIsServable ==
    \A r \in Runs : status[r] = "SUCCEEDED" =>
      /\ r \in specs
      /\ \A n \in Names : objects[r][n] # None /\ objects[r][n] = objects[r]["checksums"]
      /\ r \in public => Served(r)

\* The execution's end state is true of the record: it ends in success only
\* with a SUCCEEDED record, in a recorded failure only with that failure.
EndStateIsTrue ==
    /\ wf = "Succeeded" => status[wfRun] = "SUCCEEDED"
    /\ wf = "FailureRecorded" => status[wfRun] = "FAILED" /\ code[wfRun] = wfCode

\* The run the state machine knows of is never left PENDING or RUNNING by an
\* execution that ends, unless it timed out as a whole or could not reach the
\* failure finalizer: even a refused finalization proves the record terminal.
NoRunLeftOpen ==
    wf \in Ends \ {"TimedOut", "Unreachable"} /\ wfRun # None => Terminal(wfRun)

-----------------------------------------------------------------------------
(* The promise.                                                            *)

\* The executions that took a run, and the one whose result is public.
Given == [r \in Runs |-> {w \in ran : wrun[w] = r}]
Shown == [r \in Runs |-> IF Served(r) THEN {objects[r]["result"]} ELSE {}]

Ledger == INSTANCE RunLedger
    WITH Executions <- Workers, Codes <- FailureCodes, stage <- status, visible <- public,
         given <- Given, failure <- code, ended <- completed, shown <- Shown

\* The workflow keeps the ledger of its runs: whatever is lost, retried or goes
\* on after the state machine has moved on, a run is executed by at most one task
\* and ended once, its terminal record never changes, and what the results handler
\* answers appears with the success, is that task's result and stays.
KeepsLedger == Ledger!Spec

=============================================================================
