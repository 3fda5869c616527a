--------------------------- MODULE CloudRunProofs ---------------------------
(***************************************************************************)
(* Safety of the research workflow for any number of runs, tasks,          *)
(* invocations and retries, whatever fails.                                *)
(***************************************************************************)
EXTENDS CloudRun, TLAPS

-----------------------------------------------------------------------------
(* The inductive invariant.                                                *)

\* What a record's status says of its other fields.
RecordInv ==
    \A r \in Runs :
      /\ status[r] # "FAILED" => code[r] = None
      /\ status[r] \in {"RUNNING", "SUCCEEDED"} => r \in started
      /\ status[r] = "SUCCEEDED" => completed[r] # None /\ Verified(r)

\* Only a worker that took the run from PENDING has executed it.
WorkerInv ==
    /\ \A w \in Workers :
         /\ wpc[w] # "idle" => wrun[w] \in Runs
         /\ wpc[w] \in {"running", "publishing"} => w \in ran
         /\ wpc[w] \in {"idle", "started", "running"} => puts[w] = 0
         /\ wpc[w] = "publishing" => puts[w] < 5
         /\ w \in ran => /\ wpc[w] \notin {"idle", "started"}
                         /\ status[wrun[w]] \notin {"absent", "PENDING"}
    /\ ExecutedOnce

\* What is stored for a run was written by a worker that executed it.
ObjectInv ==
    \A r \in Runs, n \in Names :
      objects[r][n] # None => objects[r][n] \in ran /\ wrun[objects[r][n]] = r

\* What an invocation's progress says of its run.
CallOK(c) ==
    /\ calls[c].pc # "idle" => calls[c].run \in Runs
    /\ calls[c].pc = "create" => calls[c].kind = "prepare"
    /\ calls[c].pc = "mark" => calls[c].kind = "success" /\ Verified(calls[c].run)
    /\ calls[c].pc = "reread" => calls[c].kind # "prepare"
    /\ calls[c].pc # "idle" /\ calls[c].kind # "prepare" => status[calls[c].run] # "absent"
    /\ calls[c].pc # "idle" /\ calls[c].kind = "failure" => calls[c].code # None
    /\ calls[c].pc = "ok" => status[calls[c].run] # "absent"
    /\ calls[c].pc = "ok" /\ calls[c].kind # "prepare" => Agrees(c)
    /\ calls[c].pc \in {"reread", "error"} /\ calls[c].kind = "failure" =>
         Terminal(calls[c].run)

CallInv == \A c \in Calls : CallOK(c)

\* What the state machine waits for is what its state asked for.
FlowInv ==
    /\ wf \in {"AcquireData", "PrepareRun", "Closed"} => wfRun = None
    /\ wf \in {"RunWorker", "FinalizeSuccess", "FinalizeFailure", "Succeeded",
               "FailureRecorded", "Refused"} => wfRun \in Runs
    /\ wfRun # None => status[wfRun] # "absent"
    /\ wf \in {"FinalizeFailure", "FailureRecorded"} => wfCode # None
    /\ waiting # None =>
         /\ calls[waiting].pc # "idle"
         /\ wf \in {"PrepareRun", "FinalizeSuccess", "FinalizeFailure"}
         /\ wf = "PrepareRun" => calls[waiting].kind = "prepare"
         /\ wf = "FinalizeSuccess" =>
              calls[waiting].kind = "success" /\ calls[waiting].run = wfRun
         /\ wf = "FinalizeFailure" =>
              /\ calls[waiting].kind = "failure"
              /\ calls[waiting].run = wfRun
              /\ calls[waiting].code = wfCode
    /\ EndStateIsTrue
    /\ wf = "Refused" => Terminal(wfRun)

RunInv == TypeOK /\ RecordInv /\ WorkerInv /\ ObjectInv /\ CallInv /\ FlowInv

-----------------------------------------------------------------------------
(* Lemmas.                                                                 *)

\* The worker publishes five outputs.
LEMMA OutputNames == Len(Outputs) = 5 /\ \A i \in 1 .. 5 : Outputs[i] \in Names
  BY DEF Outputs, Names

\* A step of an invocation moves its program counter and nothing else of it.
Moved(c, to) ==
    /\ calls'[c].pc = to
    /\ calls'[c].kind = calls[c].kind
    /\ calls'[c].run = calls[c].run
    /\ calls'[c].code = calls[c].code
    /\ \A d \in Calls : d # c => calls'[d] = calls[d]

\* Every step of an invocation does.
LEMMA CallMoves ==
    ASSUME CallTypeOK, NEW c \in Calls, NEW to \in CallPcs, CallGoto(c, to)
    PROVE  CallTypeOK' /\ Moved(c, to)
  BY DEF CallTypeOK, CallGoto, Moved

\* A new or forgotten invocation replaces its record.
LEMMA CallReplaced ==
    ASSUME CallTypeOK, NEW c \in Calls,
           NEW e \in [pc : CallPcs, kind : {"prepare", "success", "failure"},
                      run : Runs \cup {None}, code : FailureCodes \cup {None}],
           calls' = [calls EXCEPT ![c] = e]
    PROVE  CallTypeOK' /\ calls'[c] = e /\ \A d \in Calls : d # c => calls'[d] = calls[d]
  BY DEF CallTypeOK

\* The workflow starts with nothing recorded, stored or under way.
LEMMA InitRun == Init => RunInv
<1> SUFFICES ASSUME Init PROVE RunInv
  OBVIOUS
<1>1. TypeOK
  BY CloudAssumption DEF Init, TypeOK, RecordTypeOK, StorageTypeOK, WorkerTypeOK,
    CallTypeOK, FlowTypeOK, CallPcs, IdleCall, Ends
<1>2. RecordInv /\ WorkerInv /\ ObjectInv
  BY DEF Init, RecordInv, WorkerInv, ExecutedOnce, ObjectInv
<1>3. CallInv /\ FlowInv
  BY DEF Init, CallInv, CallOK, FlowInv, EndStateIsTrue, IdleCall, Ends
<1> QED
  BY <1>1, <1>2, <1>3 DEF RunInv

\* Records keep their types.
LEMMA RecordTypeStep == RunInv /\ [Next]_vars => RecordTypeOK'
<1> SUFFICES ASSUME RunInv, [Next]_vars PROVE RecordTypeOK'
  OBVIOUS
<1>0. CASE UNCHANGED <<recordVars>>
  BY <1>0 DEF RunInv, TypeOK, RecordTypeOK, CallInv, CallOK, WorkerInv, CallTypeOK,
    recordVars
<1>1. CASE \E c \in Calls : CreatePending(c)
  BY <1>1 DEF RunInv, TypeOK, RecordTypeOK, CallInv, CallOK, WorkerInv, CallTypeOK,
    CreatePending, recordVars, storageVars, workerVars, flowVars
<1>2. CASE \E c \in Calls : MarkSucceeded(c)
  BY <1>2 DEF RunInv, TypeOK, RecordTypeOK, CallInv, CallOK, WorkerInv, CallTypeOK,
    MarkSucceeded, MaySucceed, recordVars, storageVars, workerVars, flowVars
<1>3. CASE \E c \in Calls : MarkFailed(c)
  BY <1>3 DEF RunInv, TypeOK, RecordTypeOK, CallInv, CallOK, WorkerInv, CallTypeOK,
    MarkFailed, MayFail, recordVars, storageVars, workerVars, flowVars
<1>4. CASE \E w \in Workers : MarkRunning(w)
  BY <1>4 DEF RunInv, TypeOK, RecordTypeOK, CallInv, CallOK, WorkerInv, CallTypeOK,
    MarkRunning, MayRun, WorkerGoto, recordVars, storageVars, workerVars, flowVars
<1> QED
  BY <1>0, <1>1, <1>2, <1>3, <1>4 DEF Next, FlowStep, CallStep, Finalize, WorkerStep, vars,
    PutSpec, Verify, Reread, Forget, CallTimesOut, Invoke, Answered, Raised,
    Compute, PutOutput, Put, Kill, Launch, WorkerStopped, AcquireData, ServiceFails,
    LaunchFails, WorkerTimesOut, ExecutionTimesOut, recordVars, storageVars,
    workerVars, flowVars

\* So do objects.
LEMMA StorageTypeStep == RunInv /\ [Next]_vars => StorageTypeOK'
<1> SUFFICES ASSUME RunInv, [Next]_vars PROVE StorageTypeOK'
  OBVIOUS
<1>0. CASE UNCHANGED <<storageVars>>
  BY <1>0 DEF RunInv, TypeOK, StorageTypeOK, CallInv, CallOK, WorkerInv, CallTypeOK,
    WorkerTypeOK, storageVars
<1>1. CASE \E c \in Calls : PutSpec(c)
  BY <1>1, SMTT(30) DEF RunInv, TypeOK, StorageTypeOK, CallInv, CallOK, WorkerInv, CallTypeOK,
    WorkerTypeOK, PutSpec, recordVars, storageVars, workerVars, flowVars
<1>2. CASE \E w \in Workers : PutOutput(w)
  BY <1>2, OutputNames, SMTT(30) DEF RunInv, TypeOK, StorageTypeOK, CallInv, CallOK,
    WorkerInv, CallTypeOK, WorkerTypeOK, PutOutput, Put, WorkerGoto, PutConflicts,
    recordVars, storageVars, workerVars, flowVars
<1> QED
  BY <1>0, <1>1, <1>2 DEF Next, FlowStep, CallStep, Finalize, WorkerStep, vars, CreatePending,
    Verify, MarkSucceeded, MarkFailed, Reread, Forget, CallTimesOut, Invoke,
    Answered, Raised, MarkRunning, MayRun, Compute, Kill, Launch, WorkerStopped,
    AcquireData, ServiceFails, LaunchFails, WorkerTimesOut, ExecutionTimesOut,
    recordVars, storageVars, workerVars, flowVars

\* So do workers.
LEMMA WorkerTypeStep == RunInv /\ [Next]_vars => WorkerTypeOK'
<1> SUFFICES ASSUME RunInv, [Next]_vars PROVE WorkerTypeOK'
  OBVIOUS
<1>0. CASE UNCHANGED <<workerVars>>
  BY <1>0 DEF RunInv, TypeOK, WorkerTypeOK, WorkerInv, FlowTypeOK, workerVars
<1>1. CASE \E w \in Workers : MarkRunning(w)
  BY <1>1 DEF RunInv, TypeOK, WorkerTypeOK, WorkerInv, FlowTypeOK, MarkRunning, MayRun,
    WorkerGoto, recordVars, storageVars, workerVars, flowVars
<1>2. CASE \E w \in Workers : Compute(w)
  BY <1>2 DEF RunInv, TypeOK, WorkerTypeOK, WorkerInv, FlowTypeOK, Compute,
    WorkerGoto, recordVars, storageVars, workerVars, flowVars
<1>3. CASE \E w \in Workers : PutOutput(w)
  BY <1>3, OutputNames DEF RunInv, TypeOK, WorkerTypeOK, WorkerInv, FlowTypeOK,
    PutOutput, Put, WorkerGoto, PutConflicts, recordVars, storageVars, workerVars,
    flowVars
<1>4. CASE \E w \in Workers : Kill(w)
  BY <1>4 DEF RunInv, TypeOK, WorkerTypeOK, WorkerInv, FlowTypeOK, Kill, WorkerGoto,
    Alive, recordVars, storageVars, workerVars, flowVars
<1>5. CASE \E w \in Workers : Launch(w)
  BY <1>5, SMTT(30) DEF RunInv, TypeOK, WorkerTypeOK, WorkerInv, FlowTypeOK, Launch,
    WorkerGoto, recordVars, storageVars, workerVars, flowVars
<1> QED
  BY <1>0, <1>1, <1>2, <1>3, <1>4, <1>5 DEF Next, FlowStep, CallStep, Finalize, WorkerStep,
    vars, PutSpec, CreatePending, Verify, MarkSucceeded, MarkFailed, Reread, Forget,
    CallTimesOut, Invoke, Answered, Raised, WorkerStopped, AcquireData,
    ServiceFails, LaunchFails, WorkerTimesOut, ExecutionTimesOut, recordVars,
    storageVars, workerVars, flowVars

\* So does the state machine, which retries MaxAttempts times at most.
LEMMA FlowTypeStep == RunInv /\ [Next]_vars => FlowTypeOK'
<1> SUFFICES ASSUME RunInv, [Next]_vars PROVE FlowTypeOK'
  OBVIOUS
<1>0. CASE UNCHANGED <<flowVars>>
  BY <1>0, CloudAssumption DEF RunInv, TypeOK, FlowTypeOK, FailureCodes, Ends,
    CallTypeOK, flowVars
<1>1. CASE \E c \in Calls : Invoke(c)
  BY <1>1, CloudAssumption DEF RunInv, TypeOK, FlowTypeOK, FailureCodes, Ends,
    CallTypeOK, Invoke, recordVars, storageVars, workerVars, flowVars
<1>2. CASE \E c \in Calls : Answered(c)
  BY <1>2, CloudAssumption DEF RunInv, TypeOK, FlowTypeOK, FailureCodes, Ends,
    CallTypeOK, Answered, Enter, recordVars, storageVars, workerVars, flowVars
<1>3. CASE \E c \in Calls : Raised(c)
  BY <1>3, CloudAssumption DEF RunInv, TypeOK, FlowTypeOK, FailureCodes, Ends,
    CallTypeOK, Raised, Catch, Enter, FailRun, recordVars, storageVars, workerVars,
    flowVars
<1>4. CASE \E w \in Workers : Launch(w)
  BY <1>4, CloudAssumption DEF RunInv, TypeOK, FlowTypeOK, FailureCodes, Ends,
    CallTypeOK, Launch, WorkerGoto, recordVars, storageVars, workerVars, flowVars
<1>5. CASE \E w \in Workers : WorkerStopped(w)
  BY <1>5, CloudAssumption DEF RunInv, TypeOK, FlowTypeOK, FailureCodes, Ends,
    CallTypeOK, WorkerStopped, Enter, FailRun, recordVars, storageVars, workerVars,
    flowVars
<1>6. CASE AcquireData
  BY <1>6, CloudAssumption DEF RunInv, TypeOK, FlowTypeOK, FailureCodes, Ends,
    CallTypeOK, AcquireData, Enter, recordVars, storageVars, workerVars, flowVars
<1>7. CASE ServiceFails
  BY <1>7, CloudAssumption DEF RunInv, TypeOK, FlowTypeOK, FailureCodes, Ends,
    CallTypeOK, ServiceFails, Catch, Enter, FailRun, recordVars, storageVars,
    workerVars, flowVars
<1>8. CASE LaunchFails
  BY <1>8, CloudAssumption DEF RunInv, TypeOK, FlowTypeOK, FailureCodes, Ends,
    CallTypeOK, LaunchFails, Enter, FailRun, recordVars, storageVars, workerVars,
    flowVars
<1>9. CASE WorkerTimesOut
  BY <1>9, CloudAssumption DEF RunInv, TypeOK, FlowTypeOK, FailureCodes, Ends,
    CallTypeOK, WorkerTimesOut, Enter, FailRun, recordVars, storageVars, workerVars,
    flowVars
<1>10. CASE ExecutionTimesOut
  BY <1>10, CloudAssumption DEF RunInv, TypeOK, FlowTypeOK, FailureCodes, Ends,
    CallTypeOK, ExecutionTimesOut, Enter, recordVars, storageVars, workerVars,
    flowVars
<1> QED
  BY <1>0, <1>1, <1>2, <1>3, <1>4, <1>5, <1>6, <1>7, <1>8, <1>9, <1>10 DEF Next,
    FlowStep, CallStep, Finalize, WorkerStep, vars, PutSpec, CreatePending, Verify,
    MarkSucceeded, MarkFailed, Reread, Forget, CallTimesOut, MarkRunning, MayRun, Compute,
    PutOutput, Put, Kill, recordVars, storageVars, workerVars, flowVars

\* And so do invocations.
LEMMA CallTypeStep == RunInv /\ [Next]_vars => CallTypeOK'
<1> SUFFICES ASSUME RunInv, [Next]_vars PROVE CallTypeOK'
  OBVIOUS
<1>0. CASE UNCHANGED <<calls>>
  BY <1>0 DEF RunInv, TypeOK, CallTypeOK
<1>1. CASE \E c \in Calls : PutSpec(c)
  <2> PICK c \in Calls : PutSpec(c)
    BY <1>1
  <2>1. PICK to \in CallPcs : CallGoto(c, to)
    BY DEF PutSpec, CallPcs
  <2> QED
    BY <2>1, CallMoves DEF RunInv, TypeOK
<1>2. CASE \E c \in Calls : CreatePending(c)
  <2> PICK c \in Calls : CreatePending(c)
    BY <1>2
  <2>1. PICK to \in CallPcs : CallGoto(c, to)
    BY DEF CreatePending, CallPcs
  <2> QED
    BY <2>1, CallMoves DEF RunInv, TypeOK
<1>3. CASE \E c \in Calls : Verify(c)
  <2> PICK c \in Calls : Verify(c)
    BY <1>3
  <2>1. PICK to \in CallPcs : CallGoto(c, to)
    BY DEF Verify, CallPcs
  <2> QED
    BY <2>1, CallMoves DEF RunInv, TypeOK
<1>4. CASE \E c \in Calls : MarkSucceeded(c)
  <2> PICK c \in Calls : MarkSucceeded(c)
    BY <1>4
  <2>1. PICK to \in CallPcs : CallGoto(c, to)
    BY DEF MarkSucceeded, CallPcs
  <2> QED
    BY <2>1, CallMoves DEF RunInv, TypeOK
<1>5. CASE \E c \in Calls : MarkFailed(c)
  <2> PICK c \in Calls : MarkFailed(c)
    BY <1>5
  <2>1. PICK to \in CallPcs : CallGoto(c, to)
    BY DEF MarkFailed, CallPcs
  <2> QED
    BY <2>1, CallMoves DEF RunInv, TypeOK
<1>6. CASE \E c \in Calls : Reread(c)
  <2> PICK c \in Calls : Reread(c)
    BY <1>6
  <2>1. PICK to \in CallPcs : CallGoto(c, to)
    BY DEF Reread, CallPcs
  <2> QED
    BY <2>1, CallMoves DEF RunInv, TypeOK
<1>7. CASE \E c \in Calls : Forget(c)
  <2> PICK c \in Calls : Forget(c)
    BY <1>7
  <2>1. calls' = [calls EXCEPT ![c] = IdleCall]
    BY DEF Forget
  <2>2. IdleCall \in [pc : CallPcs, kind : {"prepare", "success", "failure"},
                     run : Runs \cup {None}, code : FailureCodes \cup {None}]
    BY DEF IdleCall, CallPcs
  <2> QED
    BY <2>1, <2>2, CallReplaced DEF RunInv, TypeOK
<1>8. CASE \E c \in Calls : CallTimesOut(c)
  <2> PICK c \in Calls : CallTimesOut(c)
    BY <1>8
  <2>1. PICK to \in CallPcs : CallGoto(c, to)
    BY DEF CallTimesOut, CallPcs
  <2> QED
    BY <2>1, CallMoves DEF RunInv, TypeOK
<1>9. CASE \E c \in Calls : Invoke(c)
  <2> PICK c \in Calls : Invoke(c)
    BY <1>9
  <2>1. PICK e \in [pc : CallPcs, kind : {"prepare", "success", "failure"},
                   run : Runs \cup {None}, code : FailureCodes \cup {None}] :
            calls' = [calls EXCEPT ![c] = e]
    BY DEF Invoke, CallPcs, RunInv, TypeOK, FlowTypeOK
  <2> QED
    BY <2>1, CallReplaced DEF RunInv, TypeOK
<1> QED
  BY <1>0, <1>1, <1>2, <1>3, <1>4, <1>5, <1>6, <1>7, <1>8, <1>9 DEF Next, FlowStep,
    CallStep, Finalize, WorkerStep, vars, Answered, Raised, MarkRunning, MayRun, Compute, PutOutput, Put,
    Kill, Launch, WorkerStopped, AcquireData, ServiceFails, LaunchFails,
    WorkerTimesOut, ExecutionTimesOut, recordVars, storageVars, workerVars, flowVars

\* Types are preserved.
LEMMA TypeStep == RunInv /\ [Next]_vars => TypeOK'
  BY RecordTypeStep, StorageTypeStep, WorkerTypeStep, CallTypeStep, FlowTypeStep DEF
    TypeOK

-----------------------------------------------------------------------------
(* Records only advance.                                                   *)

\* A step of the system moves a record forward or leaves it alone, and takes
\* nothing away from what is stored.
Advances ==
    \A r \in Runs :
      /\ status[r] # "absent" => status'[r] # "absent"
      /\ status[r] \notin {"absent", "PENDING"} => status'[r] \notin {"absent", "PENDING"}
      /\ Terminal(r) =>
           status'[r] = status[r] /\ code'[r] = code[r] /\ completed'[r] = completed[r]
      /\ r \in started => r \in started'
      /\ r \in specs => r \in specs'
      /\ \A n \in Names : objects[r][n] # None => objects'[r][n] = objects[r][n]

\* Every step of the workflow does so, whichever finalizer or worker takes it.
LEMMA RecordsAdvance == RunInv /\ [Next]_vars => Advances
<1> SUFFICES ASSUME RunInv, [Next]_vars PROVE Advances
  OBVIOUS
<1>0. CASE UNCHANGED <<recordVars, storageVars>>
  BY <1>0 DEF RunInv, TypeOK, Advances, Terminal, RecordTypeOK, StorageTypeOK,
    CallInv, CallOK, WorkerInv, WorkerTypeOK, RecordInv, recordVars, storageVars
<1>1. CASE \E c \in Calls : PutSpec(c)
  BY <1>1 DEF RunInv, TypeOK, Advances, Terminal, RecordTypeOK, StorageTypeOK,
    CallInv, CallOK, WorkerInv, WorkerTypeOK, RecordInv, PutSpec, recordVars,
    storageVars, workerVars, flowVars
<1>2. CASE \E c \in Calls : CreatePending(c)
  BY <1>2 DEF RunInv, TypeOK, Advances, Terminal, RecordTypeOK, StorageTypeOK,
    CallInv, CallOK, WorkerInv, WorkerTypeOK, RecordInv, CreatePending, recordVars,
    storageVars, workerVars, flowVars
<1>3. CASE \E c \in Calls : MarkSucceeded(c)
  BY <1>3 DEF RunInv, TypeOK, Advances, Terminal, RecordTypeOK, StorageTypeOK,
    CallInv, CallOK, WorkerInv, WorkerTypeOK, RecordInv, MarkSucceeded, MaySucceed,
    recordVars, storageVars, workerVars, flowVars
<1>4. CASE \E c \in Calls : MarkFailed(c)
  BY <1>4 DEF RunInv, TypeOK, Advances, Terminal, RecordTypeOK, StorageTypeOK,
    CallInv, CallOK, WorkerInv, WorkerTypeOK, RecordInv, MarkFailed, MayFail,
    recordVars, storageVars, workerVars, flowVars
<1>5. CASE \E w \in Workers : MarkRunning(w)
  BY <1>5 DEF RunInv, TypeOK, Advances, Terminal, RecordTypeOK, StorageTypeOK,
    CallInv, CallOK, WorkerInv, WorkerTypeOK, RecordInv, MarkRunning, MayRun, WorkerGoto,
    recordVars, storageVars, workerVars, flowVars
<1>6. CASE \E w \in Workers : PutOutput(w)
  BY <1>6, OutputNames, SMTT(30) DEF RunInv, TypeOK, Advances, Terminal, RecordTypeOK,
    StorageTypeOK, CallInv, CallOK, WorkerInv, WorkerTypeOK, RecordInv, PutOutput, Put,
    WorkerGoto, PutConflicts, recordVars, storageVars, workerVars, flowVars
<1> QED
  BY <1>0, <1>1, <1>2, <1>3, <1>4, <1>5, <1>6 DEF Next, FlowStep, CallStep, Finalize,
    WorkerStep, vars, Verify, Reread, Forget, CallTimesOut, Invoke, Answered,
    Raised, Compute, Kill, Launch, WorkerStopped, AcquireData, ServiceFails,
    LaunchFails, WorkerTimesOut, ExecutionTimesOut, recordVars, storageVars,
    workerVars, flowVars

\* So verified artifacts stay verified.
LEMMA VerifiedStays ==
    ASSUME Advances, NEW r \in Runs, Verified(r)
    PROVE  Verified(r)'
  BY DEF Advances, Verified, Names

-----------------------------------------------------------------------------
(* The invariant's other parts.                                            *)

\* A success is recorded for a started run whose artifacts were verified.
LEMMA RecordStep == RunInv /\ [Next]_vars => RecordInv'
<1> SUFFICES ASSUME RunInv, [Next]_vars PROVE RecordInv'
  OBVIOUS
<1>a. \A r \in Runs : Verified(r) => Verified(r)'
  BY RecordsAdvance, VerifiedStays
<1>0. CASE UNCHANGED <<recordVars>>
  BY <1>0, <1>a DEF RunInv, TypeOK, RecordInv, RecordTypeOK, CallInv, CallOK,
    WorkerInv, recordVars
<1>1. CASE \E c \in Calls : CreatePending(c)
  BY <1>1, <1>a DEF RunInv, TypeOK, RecordInv, RecordTypeOK, CallInv, CallOK,
    WorkerInv, CreatePending, recordVars, storageVars, workerVars, flowVars
<1>2. CASE \E c \in Calls : MarkSucceeded(c)
  BY <1>2, <1>a, CloudAssumption DEF RunInv, TypeOK, RecordInv, RecordTypeOK,
    CallInv, CallOK, WorkerInv, MarkSucceeded, MaySucceed, recordVars, storageVars,
    workerVars, flowVars
<1>3. CASE \E c \in Calls : MarkFailed(c)
  BY <1>3, <1>a DEF RunInv, TypeOK, RecordInv, RecordTypeOK, CallInv, CallOK,
    WorkerInv, MarkFailed, MayFail, recordVars, storageVars, workerVars, flowVars
<1>4. CASE \E w \in Workers : MarkRunning(w)
  BY <1>4, <1>a DEF RunInv, TypeOK, RecordInv, RecordTypeOK, CallInv, CallOK,
    WorkerInv, MarkRunning, MayRun, WorkerGoto, recordVars, storageVars, workerVars,
    flowVars
<1> QED
  BY <1>0, <1>1, <1>2, <1>3, <1>4 DEF Next, FlowStep, CallStep, Finalize, WorkerStep, vars,
    PutSpec, Verify, Reread, Forget, CallTimesOut, Invoke, Answered, Raised,
    Compute, PutOutput, Put, Kill, Launch, WorkerStopped, AcquireData, ServiceFails,
    LaunchFails, WorkerTimesOut, ExecutionTimesOut, recordVars, storageVars,
    workerVars, flowVars

\* A worker that executes a run took it from PENDING, which happens once.
LEMMA WorkerStepOnce == RunInv /\ [Next]_vars => WorkerInv'
<1> SUFFICES ASSUME RunInv, [Next]_vars PROVE WorkerInv'
  OBVIOUS
<1>a. \A r \in Runs : status[r] \notin {"absent", "PENDING"} =>
                        status'[r] \notin {"absent", "PENDING"}
  BY RecordsAdvance DEF Advances
<1>0. CASE UNCHANGED <<workerVars>>
  BY <1>0, <1>a DEF RunInv, TypeOK, WorkerInv, WorkerTypeOK, ExecutedOnce, FlowInv,
    RecordTypeOK, workerVars
<1>1. CASE \E w \in Workers : MarkRunning(w)
  BY <1>1, <1>a, RecordTypeStep DEF RunInv, TypeOK, WorkerInv, WorkerTypeOK,
    ExecutedOnce, FlowInv, RecordTypeOK, MarkRunning, MayRun, WorkerGoto, recordVars,
    storageVars, workerVars, flowVars
<1>2. CASE \E w \in Workers : Compute(w)
  BY <1>2, <1>a DEF RunInv, TypeOK, WorkerInv, WorkerTypeOK, ExecutedOnce, FlowInv,
    RecordTypeOK, Compute, WorkerGoto, recordVars, storageVars, workerVars, flowVars
<1>3. CASE \E w \in Workers : PutOutput(w)
  BY <1>3, <1>a, OutputNames DEF RunInv, TypeOK, WorkerInv, WorkerTypeOK,
    ExecutedOnce, FlowInv, RecordTypeOK, PutOutput, Put, WorkerGoto, PutConflicts,
    recordVars, storageVars, workerVars, flowVars
<1>4. CASE \E w \in Workers : Kill(w)
  BY <1>4, <1>a DEF RunInv, TypeOK, WorkerInv, WorkerTypeOK, ExecutedOnce, FlowInv,
    RecordTypeOK, Kill, WorkerGoto, Alive, recordVars, storageVars, workerVars,
    flowVars
<1>5. CASE \E w \in Workers : Launch(w)
  BY <1>5, <1>a DEF RunInv, TypeOK, WorkerInv, WorkerTypeOK, ExecutedOnce, FlowInv,
    RecordTypeOK, Launch, WorkerGoto, recordVars, storageVars, workerVars, flowVars
<1> QED
  BY <1>0, <1>1, <1>2, <1>3, <1>4, <1>5 DEF Next, FlowStep, CallStep, Finalize, WorkerStep,
    vars, PutSpec, CreatePending, Verify, MarkSucceeded, MarkFailed, Reread, Forget,
    CallTimesOut, Invoke, Answered, Raised, WorkerStopped, AcquireData,
    ServiceFails, LaunchFails, WorkerTimesOut, ExecutionTimesOut, recordVars,
    storageVars, workerVars, flowVars

\* A worker stores outputs only of the run it executed.
LEMMA ObjectStep == RunInv /\ [Next]_vars => ObjectInv'
<1> SUFFICES ASSUME RunInv, [Next]_vars PROVE ObjectInv'
  OBVIOUS
<1>0. CASE UNCHANGED <<objects, ran, wrun>>
  BY <1>0 DEF RunInv, TypeOK, ObjectInv, StorageTypeOK, WorkerInv, WorkerTypeOK
<1>1. CASE \E w \in Workers : PutOutput(w)
  <2> PICK w \in Workers : PutOutput(w)
    BY <1>1
  <2>1. w \in ran /\ wrun[w] \in Runs
    BY DEF PutOutput, Put, RunInv, WorkerInv
  <2>2. \A r \in Runs, n \in Names :
          objects'[r][n] = objects[r][n] \/ (r = wrun[w] /\ objects'[r][n] = w)
    BY <2>1, OutputNames DEF PutOutput, Put, RunInv, TypeOK, StorageTypeOK, WorkerTypeOK,
      WorkerInv
  <2> QED
    BY <2>1, <2>2 DEF PutOutput, Put, RunInv, ObjectInv
<1>2. CASE \E w \in Workers : MarkRunning(w)
  BY <1>2 DEF RunInv, TypeOK, ObjectInv, StorageTypeOK, WorkerInv, WorkerTypeOK,
    MarkRunning, MayRun, WorkerGoto, recordVars, storageVars, workerVars, flowVars
<1>3. CASE \E w \in Workers : Launch(w)
  BY <1>3 DEF RunInv, TypeOK, ObjectInv, StorageTypeOK, WorkerInv, WorkerTypeOK,
    Launch, WorkerGoto, recordVars, storageVars, workerVars, flowVars
<1> QED
  BY <1>0, <1>1, <1>2, <1>3 DEF Next, FlowStep, CallStep, Finalize, WorkerStep, vars, PutSpec,
    CreatePending, Verify, MarkSucceeded, MarkFailed, Reread, Forget, CallTimesOut,
    Invoke, Answered, Raised, Compute, Kill, WorkerStopped, AcquireData,
    ServiceFails, LaunchFails, WorkerTimesOut, ExecutionTimesOut, recordVars,
    storageVars, workerVars, flowVars

\* What an invocation's progress says of its run stays true while others step.
LEMMA CallKept ==
    ASSUME RunInv, Advances, NEW d \in Calls, calls'[d] = calls[d]
    PROVE  CallOK(d)'
<1>1. CallOK(d)
  BY DEF RunInv, CallInv
<1>2. PICK r : r = calls[d].run
  OBVIOUS
<1>3. calls[d].pc = "mark" => Verified(r)'
  BY <1>1, <1>2, VerifiedStays DEF CallOK
<1>4. calls[d].pc = "mark" => Verified(calls[d].run)'
  BY <1>2, <1>3 DEF Verified
<1> QED
  BY <1>1, <1>4 DEF CallOK, Agrees, Terminal, Advances

\* Each step of an invocation establishes what its next step relies on.
LEMMA CallsStep == RunInv /\ [Next]_vars => CallInv'
<1> SUFFICES ASSUME RunInv, [Next]_vars PROVE CallInv'
  OBVIOUS
<1>a. Advances
  BY RecordsAdvance
<1>b. \A c \in Calls :
        (\A d \in Calls : d # c => calls'[d] = calls[d]) /\ CallOK(c)' => CallInv'
  BY <1>a, CallKept DEF CallInv
<1>c. UNCHANGED calls => CallInv'
  BY <1>a, CallKept DEF CallInv
<1>0. CASE UNCHANGED <<calls>>
  BY <1>0, <1>c
<1>1. CASE \E c \in Calls : PutSpec(c)
  <2> PICK c \in Calls : PutSpec(c)
    BY <1>1
  <2>1. CallOK(c) /\ CallTypeOK /\ RecordTypeOK
    BY DEF RunInv, CallInv, TypeOK
  <2>2. PICK to \in CallPcs : CallGoto(c, to)
    BY DEF PutSpec, CallPcs
  <2>3. Moved(c, to)
    BY <2>1, <2>2, CallMoves
  <2>4. CallOK(c)'
    <3>1. to \in {"create", "broken"}
      BY <2>1, <2>3, CallMoves DEF PutSpec, CallPcs, Moved
    <3>2. \A t \in CallPcs : CallGoto(c, t) => t = to
      BY <2>1, <2>3, CallMoves DEF Moved
    <3> QED
      BY <1>a, <2>1, <2>3, <3>1, <3>2 DEF PutSpec, CallPcs, Moved, CallOK, Advances
  <2> QED
    BY <1>b, <2>3, <2>4 DEF Moved
<1>2. CASE \E c \in Calls : CreatePending(c)
  <2> PICK c \in Calls : CreatePending(c)
    BY <1>2
  <2>1. CallOK(c) /\ CallTypeOK /\ RecordTypeOK
    BY DEF RunInv, CallInv, TypeOK
  <2>2. PICK to \in CallPcs : CallGoto(c, to)
    BY DEF CreatePending, CallPcs
  <2>3. Moved(c, to)
    BY <2>1, <2>2, CallMoves
  <2>4. CallOK(c)'
    <3>1. to \in {"ok", "error", "broken"}
      BY <2>1, <2>3, CallMoves DEF CreatePending, CallPcs, Moved
    <3>2. \A t \in CallPcs : CallGoto(c, t) => t = to
      BY <2>1, <2>3, CallMoves DEF Moved
    <3> QED
      BY <1>a, <2>1, <2>3, <3>1, <3>2 DEF CreatePending, RecordTypeOK, CallPcs,
        Moved, CallOK, Advances
  <2> QED
    BY <1>b, <2>3, <2>4 DEF Moved
<1>3. CASE \E c \in Calls : Verify(c)
  <2> PICK c \in Calls : Verify(c)
    BY <1>3
  <2>1. CallOK(c) /\ CallTypeOK /\ RecordTypeOK
    BY DEF RunInv, CallInv, TypeOK
  <2>2. PICK to \in CallPcs : CallGoto(c, to)
    BY DEF Verify, CallPcs
  <2>3. Moved(c, to)
    BY <2>1, <2>2, CallMoves
  <2>4. CallOK(c)'
    <3>1. to \in {"mark", "error", "broken"}
      BY <2>1, <2>3, CallMoves DEF Verify, CallPcs, Moved
    <3>2. \A t \in CallPcs : CallGoto(c, t) => t = to
      BY <2>1, <2>3, CallMoves DEF Moved
    <3> QED
      BY <1>a, <2>1, <2>3, <3>1, <3>2 DEF Verify, Verified, recordVars, storageVars,
        CallPcs, Moved, CallOK, Advances
  <2> QED
    BY <1>b, <2>3, <2>4 DEF Moved
<1>4. CASE \E c \in Calls : MarkSucceeded(c)
  <2> PICK c \in Calls : MarkSucceeded(c)
    BY <1>4
  <2>1. CallOK(c) /\ CallTypeOK /\ RecordTypeOK
    BY DEF RunInv, CallInv, TypeOK
  <2>2. PICK to \in CallPcs : CallGoto(c, to)
    BY DEF MarkSucceeded, CallPcs
  <2>3. Moved(c, to)
    BY <2>1, <2>2, CallMoves
  <2>4. CallOK(c)'
    <3>1. to \in {"reread", "broken"}
      BY <2>1, <2>3, CallMoves DEF MarkSucceeded, CallPcs, Moved
    <3>2. \A t \in CallPcs : CallGoto(c, t) => t = to
      BY <2>1, <2>3, CallMoves DEF Moved
    <3> QED
      BY <1>a, <2>1, <2>3, <3>1, <3>2 DEF MarkSucceeded, Terminal, CallPcs, Moved,
        CallOK, Advances
  <2> QED
    BY <1>b, <2>3, <2>4 DEF Moved
<1>5. CASE \E c \in Calls : MarkFailed(c)
  <2> PICK c \in Calls : MarkFailed(c)
    BY <1>5
  <2>1. CallOK(c) /\ CallTypeOK /\ RecordTypeOK
    BY DEF RunInv, CallInv, TypeOK
  <2>2. PICK to \in CallPcs : CallGoto(c, to)
    BY DEF MarkFailed, CallPcs
  <2>3. Moved(c, to)
    BY <2>1, <2>2, CallMoves
  <2>4. CallOK(c)'
    <3>1. to \in {"reread", "broken"}
      BY <2>1, <2>3, CallMoves DEF MarkFailed, CallPcs, Moved
    <3>2. \A t \in CallPcs : CallGoto(c, t) => t = to
      BY <2>1, <2>3, CallMoves DEF Moved
    <3> QED
      BY <1>a, <2>1, <2>3, <3>1, <3>2 DEF MarkFailed, MayFail, Terminal,
        RecordTypeOK, CallPcs, Moved, CallOK, Advances
  <2> QED
    BY <1>b, <2>3, <2>4 DEF Moved
<1>6. CASE \E c \in Calls : Reread(c)
  <2> PICK c \in Calls : Reread(c)
    BY <1>6
  <2>1. CallOK(c) /\ CallTypeOK /\ RecordTypeOK
    BY DEF RunInv, CallInv, TypeOK
  <2>2. PICK to \in CallPcs : CallGoto(c, to)
    BY DEF Reread, CallPcs
  <2>3. Moved(c, to)
    BY <2>1, <2>2, CallMoves
  <2>4. CallOK(c)'
    <3>1. to \in {"ok", "error", "broken"}
      BY <2>1, <2>3, CallMoves DEF Reread, CallPcs, Moved
    <3>2. \A t \in CallPcs : CallGoto(c, t) => t = to
      BY <2>1, <2>3, CallMoves DEF Moved
    <3> QED
      BY <1>a, <2>1, <2>3, <3>1, <3>2 DEF Reread, Agrees, recordVars, Terminal,
        CallPcs, Moved, CallOK, Advances
  <2> QED
    BY <1>b, <2>3, <2>4 DEF Moved
<1>7. CASE \E c \in Calls : Forget(c)
  <2> PICK c \in Calls : Forget(c)
    BY <1>7
  <2>1. calls' = [calls EXCEPT ![c] = IdleCall]
    BY DEF Forget
  <2>2. calls'[c] = IdleCall /\ \A d \in Calls : d # c => calls'[d] = calls[d]
    BY <2>1 DEF RunInv, TypeOK, CallTypeOK
  <2>3. CallOK(c)'
    BY <2>2 DEF CallOK, IdleCall
  <2> QED
    BY <1>b, <2>2, <2>3
<1>8. CASE \E c \in Calls : CallTimesOut(c)
  <2> PICK c \in Calls : CallTimesOut(c)
    BY <1>8
  <2>1. CallOK(c) /\ CallTypeOK /\ RecordTypeOK
    BY DEF RunInv, CallInv, TypeOK
  <2>2. PICK to \in CallPcs : CallGoto(c, to)
    BY DEF CallTimesOut, CallPcs
  <2>3. Moved(c, to)
    BY <2>1, <2>2, CallMoves
  <2>4. CallOK(c)'
    <3>1. to \in {"broken"}
      BY <2>1, <2>3, CallMoves DEF CallTimesOut, CallPcs, Moved
    <3>2. \A t \in CallPcs : CallGoto(c, t) => t = to
      BY <2>1, <2>3, CallMoves DEF Moved
    <3> QED
      BY <1>a, <2>1, <2>3, <3>1, <3>2 DEF CallTimesOut, CallPcs, Moved, CallOK,
        Advances
  <2> QED
    BY <1>b, <2>3, <2>4 DEF Moved
<1>9. CASE \E c \in Calls : Invoke(c)
  <2> PICK c \in Calls : Invoke(c)
    BY <1>9
  <2>1. CallTypeOK
    BY DEF RunInv, TypeOK
  <2>2. /\ calls'[c].pc = "start"
        /\ calls'[c].run \in Runs
        /\ calls'[c].kind # "prepare" => status[calls'[c].run] # "absent"
        /\ calls'[c].kind = "failure" => calls'[c].code # None
        /\ \A d \in Calls : d # c => calls'[d] = calls[d]
    <3>1. CASE wf = "PrepareRun"
      BY <2>1, <3>1 DEF Invoke, CallTypeOK
    <3>4. wf \in {"FinalizeSuccess", "FinalizeFailure"} =>
            wfRun \in Runs /\ status[wfRun] # "absent" /\ (wf = "FinalizeFailure" => wfCode # None)
      BY CloudAssumption DEF RunInv, FlowInv
    <3>2. CASE wf = "FinalizeSuccess"
      BY <2>1, <3>2, <3>4 DEF Invoke, CallTypeOK
    <3>3. CASE wf = "FinalizeFailure"
      BY <2>1, <3>3, <3>4 DEF Invoke, CallTypeOK
    <3> QED
      BY <3>1, <3>2, <3>3 DEF Invoke
  <2>3. CallOK(c)'
    BY <1>a, <2>2 DEF CallOK, Advances
  <2> QED
    BY <1>b, <2>2, <2>3
<1> QED
  BY <1>0, <1>1, <1>2, <1>3, <1>4, <1>5, <1>6, <1>7, <1>8, <1>9 DEF Next, FlowStep,
    CallStep, Finalize, WorkerStep, vars, Answered, Raised, MarkRunning, MayRun, Compute, PutOutput, Put,
    Kill, Launch, WorkerStopped, AcquireData, ServiceFails, LaunchFails,
    WorkerTimesOut, ExecutionTimesOut, recordVars, storageVars, workerVars, flowVars

\* What the state machine waits for stays what it asked for.
LEMMA FlowKept ==
    ASSUME RunInv, Advances, UNCHANGED flowVars,
           waiting # None => /\ calls'[waiting].pc # "idle"
                             /\ calls'[waiting].kind = calls[waiting].kind
                             /\ calls'[waiting].run = calls[waiting].run
                             /\ calls'[waiting].code = calls[waiting].code
    PROVE  FlowInv'
  BY CloudAssumption DEF RunInv, TypeOK, FlowTypeOK, FlowInv, EndStateIsTrue,
    Advances, Terminal, flowVars

\* Each state of the state machine leaves what the next one relies on.
LEMMA FlowStepOK == RunInv /\ [Next]_vars => FlowInv'
<1> SUFFICES ASSUME RunInv, [Next]_vars PROVE FlowInv'
  OBVIOUS
<1>a. Advances
  BY RecordsAdvance
<1>b. \A c \in Calls : \A to \in CallPcs \ {"idle"} :
        CallGoto(c, to) /\ UNCHANGED flowVars => FlowInv'
  <2> SUFFICES ASSUME NEW c \in Calls, NEW to \in CallPcs \ {"idle"},
                      CallGoto(c, to), UNCHANGED flowVars
               PROVE  FlowInv'
    OBVIOUS
  <2>1. Moved(c, to)
    BY CallMoves DEF RunInv, TypeOK
  <2>2. waiting # None => waiting \in Calls /\ calls[waiting].pc # "idle"
    BY DEF RunInv, TypeOK, FlowTypeOK, FlowInv
  <2> QED
    BY <1>a, <2>1, <2>2, FlowKept DEF Moved
<1>0. CASE UNCHANGED <<calls, flowVars>>
  BY <1>0, <1>a, FlowKept DEF RunInv, FlowInv
<1>1. CASE \E c \in Calls : PutSpec(c)
  <2> PICK c \in Calls : PutSpec(c)
    BY <1>1
  <2>1. PICK to \in CallPcs \ {"idle"} : CallGoto(c, to)
    BY DEF PutSpec, CallPcs
  <2>2. UNCHANGED flowVars
    BY DEF PutSpec
  <2> QED
    BY <1>a, <1>b, <2>1, <2>2
<1>2. CASE \E c \in Calls : CreatePending(c)
  <2> PICK c \in Calls : CreatePending(c)
    BY <1>2
  <2>1. PICK to \in CallPcs \ {"idle"} : CallGoto(c, to)
    BY DEF CreatePending, CallPcs
  <2>2. UNCHANGED flowVars
    BY DEF CreatePending
  <2> QED
    BY <1>a, <1>b, <2>1, <2>2
<1>3. CASE \E c \in Calls : Verify(c)
  <2> PICK c \in Calls : Verify(c)
    BY <1>3
  <2>1. PICK to \in CallPcs \ {"idle"} : CallGoto(c, to)
    BY DEF Verify, CallPcs
  <2>2. UNCHANGED flowVars
    BY DEF Verify
  <2> QED
    BY <1>a, <1>b, <2>1, <2>2
<1>4. CASE \E c \in Calls : MarkSucceeded(c)
  <2> PICK c \in Calls : MarkSucceeded(c)
    BY <1>4
  <2>1. PICK to \in CallPcs \ {"idle"} : CallGoto(c, to)
    BY DEF MarkSucceeded, CallPcs
  <2>2. UNCHANGED flowVars
    BY DEF MarkSucceeded
  <2> QED
    BY <1>a, <1>b, <2>1, <2>2
<1>5. CASE \E c \in Calls : MarkFailed(c)
  <2> PICK c \in Calls : MarkFailed(c)
    BY <1>5
  <2>1. PICK to \in CallPcs \ {"idle"} : CallGoto(c, to)
    BY DEF MarkFailed, CallPcs
  <2>2. UNCHANGED flowVars
    BY DEF MarkFailed
  <2> QED
    BY <1>a, <1>b, <2>1, <2>2
<1>6. CASE \E c \in Calls : Reread(c)
  <2> PICK c \in Calls : Reread(c)
    BY <1>6
  <2>1. PICK to \in CallPcs \ {"idle"} : CallGoto(c, to)
    BY DEF Reread, CallPcs
  <2>2. UNCHANGED flowVars
    BY DEF Reread
  <2> QED
    BY <1>a, <1>b, <2>1, <2>2
<1>7. CASE \E c \in Calls : Forget(c)
  <2> PICK c \in Calls : Forget(c)
    BY <1>7
  <2>1. waiting # None => calls'[waiting] = calls[waiting]
    BY DEF Forget, RunInv, TypeOK, CallTypeOK, FlowTypeOK
  <2>2. UNCHANGED flowVars
    BY DEF Forget
  <2> QED
    BY <1>a, <2>1, <2>2, FlowKept DEF RunInv, FlowInv
<1>8. CASE \E c \in Calls : CallTimesOut(c)
  <2> PICK c \in Calls : CallTimesOut(c)
    BY <1>8
  <2>1. PICK to \in CallPcs \ {"idle"} : CallGoto(c, to)
    BY DEF CallTimesOut, CallPcs
  <2>2. UNCHANGED flowVars
    BY DEF CallTimesOut
  <2> QED
    BY <1>a, <1>b, <2>1, <2>2
<1>9. CASE \E c \in Calls : Invoke(c)
  <2> PICK c \in Calls : Invoke(c)
    BY <1>9
  <2>1. CallTypeOK /\ FlowInv /\ waiting' = c /\ UNCHANGED <<recordVars, wf, wfRun, wfCode>>
    BY DEF Invoke, RunInv, TypeOK
  <2>2. CASE wf = "PrepareRun"
    <3>1. calls'[c].pc = "start" /\ calls'[c].kind = "prepare"
      BY <2>1, <2>2 DEF Invoke, CallTypeOK
    <3> QED
      BY <2>1, <2>2, <3>1 DEF FlowInv, EndStateIsTrue, Terminal, recordVars
  <2>3. CASE wf = "FinalizeSuccess"
    <3>1. calls'[c].pc = "start" /\ calls'[c].kind = "success" /\ calls'[c].run = wfRun
      BY <2>1, <2>3 DEF Invoke, CallTypeOK
    <3> QED
      BY <2>1, <2>3, <3>1 DEF FlowInv, EndStateIsTrue, Terminal, recordVars
  <2>4. CASE wf = "FinalizeFailure"
    <3>1. /\ calls'[c].pc = "start" /\ calls'[c].kind = "failure"
          /\ calls'[c].run = wfRun /\ calls'[c].code = wfCode
      BY <2>1, <2>4 DEF Invoke, CallTypeOK
    <3> QED
      BY <2>1, <2>4, <3>1 DEF FlowInv, EndStateIsTrue, Terminal, recordVars
  <2> QED
    BY <2>2, <2>3, <2>4 DEF Invoke
<1>10. CASE \E c \in Calls : Answered(c)
  <2> PICK c \in Calls : Answered(c)
    BY <1>10
  <2>1. /\ CallOK(c) /\ FlowInv /\ waiting = c /\ waiting # None /\ calls[c].pc = "ok"
        /\ UNCHANGED <<recordVars, calls, wfCode>>
    BY CloudAssumption DEF Answered, RunInv, CallInv
  <2>2. CASE wf = "PrepareRun"
    BY <2>1, <2>2 DEF Answered, CallOK, FlowInv, EndStateIsTrue, Enter, recordVars
  <2>3. CASE wf = "FinalizeSuccess"
    BY <2>1, <2>3 DEF Answered, CallOK, Agrees, FlowInv, EndStateIsTrue, Enter,
      recordVars
  <2>4. CASE wf = "FinalizeFailure"
    BY <2>1, <2>4 DEF Answered, CallOK, Agrees, FlowInv, EndStateIsTrue, Enter,
      recordVars
  <2> QED
    BY <2>2, <2>3, <2>4 DEF Answered
<1>11. CASE \E c \in Calls : Raised(c)
  <2> PICK c \in Calls : Raised(c)
    BY <1>11
  <2>1. /\ CallOK(c) /\ FlowInv /\ waiting = c /\ waiting # None
        /\ calls[c].pc \in {"error", "broken"} /\ Catch(calls[c].pc = "broken")
        /\ UNCHANGED <<recordVars, calls, wfRun>>
    BY CloudAssumption DEF Raised, RunInv, CallInv
  <2>2. CASE wf = "PrepareRun"
    BY <2>1, <2>2 DEF Catch, FlowInv, EndStateIsTrue, Enter, FailRun, recordVars
  <2>3. CASE wf = "FinalizeSuccess"
    BY <2>1, <2>3, CloudAssumption DEF Catch, FlowInv, EndStateIsTrue, Enter,
      FailRun, FailureCodes, recordVars
  <2>4. CASE wf = "FinalizeFailure"
    BY <2>1, <2>4 DEF Catch, CallOK, Terminal, FlowInv, EndStateIsTrue, Enter,
      FailRun, recordVars
  <2> QED
    BY <2>1, <2>2, <2>3, <2>4 DEF Catch
<1>12. CASE \E w \in Workers : Launch(w)
  BY <1>12, CloudAssumption DEF RunInv, TypeOK, FlowInv, EndStateIsTrue, FlowTypeOK,
    Ends, FailureCodes, Launch, WorkerGoto, recordVars, storageVars, workerVars,
    flowVars
<1>13. CASE \E w \in Workers : WorkerStopped(w)
  BY <1>13, CloudAssumption DEF RunInv, TypeOK, FlowInv, EndStateIsTrue, FlowTypeOK,
    Ends, FailureCodes, WorkerStopped, Enter, FailRun, recordVars, storageVars,
    workerVars, flowVars
<1>14. CASE AcquireData
  BY <1>14, CloudAssumption DEF RunInv, TypeOK, FlowInv, EndStateIsTrue, FlowTypeOK,
    Ends, FailureCodes, AcquireData, Enter, recordVars, storageVars, workerVars,
    flowVars
<1>15. CASE ServiceFails
  BY <1>15, CloudAssumption DEF RunInv, TypeOK, FlowInv, EndStateIsTrue, FlowTypeOK,
    Ends, FailureCodes, ServiceFails, Catch, Enter, FailRun, recordVars,
    storageVars, workerVars, flowVars
<1>16. CASE LaunchFails
  BY <1>16, CloudAssumption DEF RunInv, TypeOK, FlowInv, EndStateIsTrue, FlowTypeOK,
    Ends, FailureCodes, LaunchFails, Enter, FailRun, recordVars, storageVars,
    workerVars, flowVars
<1>17. CASE WorkerTimesOut
  BY <1>17, CloudAssumption DEF RunInv, TypeOK, FlowInv, EndStateIsTrue, FlowTypeOK,
    Ends, FailureCodes, WorkerTimesOut, Enter, FailRun, recordVars, storageVars,
    workerVars, flowVars
<1>18. CASE ExecutionTimesOut
  BY <1>18, CloudAssumption DEF RunInv, TypeOK, FlowInv, EndStateIsTrue, FlowTypeOK,
    Ends, FailureCodes, ExecutionTimesOut, Enter, recordVars, storageVars,
    workerVars, flowVars
<1> QED
  BY <1>0, <1>1, <1>2, <1>3, <1>4, <1>5, <1>6, <1>7, <1>8, <1>9, <1>10,
<1>11, <1>12, <1>13, <1>14, <1>15, <1>16, <1>17, <1>18 DEF Next,
FlowStep, CallStep, Finalize, WorkerStep, vars, MarkRunning, MayRun, Compute, PutOutput, Put,
Kill, recordVars, storageVars, workerVars, flowVars

-----------------------------------------------------------------------------
(* The theorems.                                                           *)

\* The invariant is inductive.
LEMMA RunInvariant == Spec => []RunInv
<1>1. RunInv /\ [Next]_vars => RunInv'
  BY TypeStep, RecordStep, WorkerStepOnce, ObjectStep, CallsStep, FlowStepOK DEF
    RunInv
<1> QED
  BY <1>1, InitRun, PTL DEF Spec

\* Type correctness: in particular no state is retried more often than its
\* Retry allows and no worker publishes more than its five outputs.
THEOREM Types == Spec => []TypeOK
<1>1. RunInv => TypeOK
  BY DEF RunInv
<1> QED
  BY <1>1, RunInvariant, PTL

\* A run is executed once, however many tasks the state machine starts for it
\* and however many of them outlive its interest in them.
THEOREM RunsOnce == Spec => []ExecutedOnce
<1>1. RunInv => ExecutedOnce
  BY DEF RunInv, WorkerInv
<1> QED
  BY <1>1, RunInvariant, PTL

\* A record that says SUCCEEDED has every artifact, all of the one execution,
\* and the results handler serves it if it is public.
THEOREM SuccessIsServable == Spec => []SucceededIsServable
<1>1. RunInv => SucceededIsServable
  <2> SUFFICES ASSUME RunInv, NEW r \in Runs, status[r] = "SUCCEEDED"
               PROVE  /\ r \in specs
                      /\ \A n \in Names :
                           objects[r][n] # None /\ objects[r][n] = objects[r]["checksums"]
                      /\ r \in public => Served(r)
    BY DEF SucceededIsServable
  <2>1. Verified(r) /\ r \in started /\ completed[r] # None /\ code[r] = None
    BY DEF RunInv, RecordInv
  <2>2. \A n \in Names : objects[r][n] # None /\ objects[r][n] = objects[r]["checksums"]
    BY <2>1 DEF Verified, Names, RunInv, ObjectInv, WorkerInv, ExecutedOnce
  <2> QED
    BY <2>1, <2>2 DEF Verified, Served, PublicRecord, Names
<1> QED
  BY <1>1, RunInvariant, PTL

\* The execution's end state is true of the record.
THEOREM EndsTruly == Spec => []EndStateIsTrue
<1>1. RunInv => EndStateIsTrue
  BY DEF RunInv, FlowInv
<1> QED
  BY <1>1, RunInvariant, PTL

\* An execution that ends by itself and could reach its failure finalizer
\* leaves no run PENDING or RUNNING.
THEOREM NothingLeftOpen == Spec => []NoRunLeftOpen
<1>1. RunInv => NoRunLeftOpen
  BY CloudAssumption DEF RunInv, FlowInv, EndStateIsTrue, NoRunLeftOpen, Ends,
    Terminal
<1> QED
  BY <1>1, RunInvariant, PTL

\* What no step does to a terminal record.
TerminalIsFinal ==
    [][\A r \in Runs : Terminal(r) =>
         status'[r] = status[r] /\ code'[r] = code[r] /\ completed'[r] = completed[r]]_vars

\* Terminal records are immutable, whoever still writes to them: mark_succeeded
\* and mark_failed accept a terminal record only to write what it already says.
THEOREM TerminalRecordsAreFinal == Spec => TerminalIsFinal
<1>1. RunInv /\ [Next]_vars =>
        [\A r \in Runs : Terminal(r) =>
           status'[r] = status[r] /\ code'[r] = code[r] /\ completed'[r] = completed[r]]_vars
  BY RecordsAdvance DEF Advances
<1> QED
  BY <1>1, RunInvariant, PTL DEF Spec, TerminalIsFinal

-----------------------------------------------------------------------------
(* The ledger.                                                             *)

\* A run that is not a complete public success shows nothing; one that is shows
\* the result of the one worker that executed it.
ShownOK ==
    \A r \in Runs :
      /\ Shown[r] = IF status[r] = "SUCCEEDED" /\ r \in public THEN Given[r] ELSE {}
      /\ Verified(r) => Given[r] # {}
      /\ status[r] \in {"absent", "PENDING"} => Given[r] = {}

\* Verified artifacts are those of the run's one execution.
LEMMA VerifiedIsGiven ==
    ASSUME RunInv, NEW r \in Runs, Verified(r)
    PROVE  Given[r] = {objects[r]["result"]}
<1>1. objects[r]["result"] # None
  BY DEF Verified, Names
<1>2. objects[r]["result"] \in ran /\ wrun[objects[r]["result"]] = r
  BY <1>1 DEF RunInv, ObjectInv, Names
<1>3. \A w \in ran : wrun[w] = r => w = objects[r]["result"]
  BY <1>2 DEF RunInv, WorkerInv, ExecutedOnce
<1> QED BY <1>2, <1>3 DEF Given

LEMMA ShownIsGiven == RunInv => ShownOK
<1> SUFFICES ASSUME RunInv, NEW r \in Runs
             PROVE  /\ Shown[r] = IF status[r] = "SUCCEEDED" /\ r \in public THEN Given[r] ELSE {}
                    /\ Verified(r) => Given[r] # {}
                    /\ status[r] \in {"absent", "PENDING"} => Given[r] = {}
  BY DEF ShownOK
<1>1. Verified(r) => Given[r] = {objects[r]["result"]}
  BY VerifiedIsGiven
<1>2. status[r] \in {"absent", "PENDING"} => Given[r] = {}
  BY DEF Given, RunInv, WorkerInv, TypeOK, WorkerTypeOK
<1>3. status[r] = "SUCCEEDED" => Verified(r) /\ (PublicRecord(r) <=> r \in public)
  BY DEF RunInv, RecordInv, PublicRecord
<1>4. Verified(r) => (Served(r) <=> PublicRecord(r))
  <2> SUFFICES ASSUME Verified(r) PROVE Served(r) <=> PublicRecord(r)
    OBVIOUS
  <2>1. /\ objects[r]["checksums"] # None /\ objects[r]["report"] # None
        /\ objects[r]["result"] = objects[r]["checksums"]
    BY DEF Verified, Names
  <2> QED BY <2>1 DEF Served
<1>5. status[r] # "SUCCEEDED" => ~Served(r)
  BY DEF Served, PublicRecord
<1>6. Shown[r] = IF Served(r) THEN {objects[r]["result"]} ELSE {}
  BY DEF Shown
<1>7. CASE status[r] = "SUCCEEDED"
  BY <1>1, <1>3, <1>4, <1>6, <1>7
<1>8. CASE status[r] # "SUCCEEDED"
  BY <1>1, <1>2, <1>5, <1>6, <1>8
<1> QED BY <1>7, <1>8

LEMMA ShownIsGivenNext == RunInv' => ShownOK'
BY ShownIsGiven, PTL

\* What the ledger reads.
Entries == <<status, public, Given, code, completed, Shown>>

\* As long as no run becomes a success, nothing new is shown.
LEMMA NothingShown ==
    ASSUME ShownOK, ShownOK', Given' = Given,
           \A r \in Runs : status'[r] = "SUCCEEDED" <=> status[r] = "SUCCEEDED",
           \A r \in Runs : status[r] = "SUCCEEDED" => (r \in public' <=> r \in public)
    PROVE  Shown' = Shown
<1>1. \A r \in Runs : Shown'[r] = Shown[r]
  BY DEF ShownOK
<1> QED BY <1>1 DEF Shown

\* create_pending opens a run.
LEMMA CreateOpens ==
    ASSUME RunInv, ShownOK, ShownOK', NEW c \in Calls, CreatePending(c)
    PROVE  Ledger!Open(calls[c].run) \/ UNCHANGED Entries
<1> DEFINE r == calls[c].run
<1>1. r \in Runs
  BY DEF CreatePending, RunInv, CallInv, CallOK
<1>2. Given' = Given /\ code' = code /\ completed' = completed
  BY DEF CreatePending, Given, workerVars
<1>3. CASE /\ status[r] = "absent" /\ status' = [status EXCEPT ![r] = "PENDING"]
           /\ public' \in {public, public \cup {r}}
  <2>1. \A q \in Runs : status'[q] = IF q = r THEN "PENDING" ELSE status[q]
    BY <1>1, <1>3 DEF RunInv, TypeOK, RecordTypeOK
  <2>2. Shown' = Shown
    BY <1>1, <1>2, <1>3, <2>1, NothingShown
  <2> QED BY <1>2, <1>3, <2>2 DEF Ledger!Open
<1>4. CASE UNCHANGED <<status, public>>
  <2>1. Shown' = Shown
    BY <1>2, <1>4, NothingShown
  <2> QED BY <1>2, <1>4, <2>1 DEF Entries
<1> QED BY <1>3, <1>4 DEF CreatePending

\* mark_running gives a run to the one worker that takes it from PENDING.
LEMMA MarkRunningBegins ==
    ASSUME RunInv, ShownOK, ShownOK', NEW w \in Workers, MarkRunning(w)
    PROVE  Ledger!Begin(wrun[w]) \/ UNCHANGED Entries
<1> DEFINE r == wrun[w]
<1>1. r \in Runs /\ w \notin ran /\ wrun' = wrun
  BY DEF MarkRunning, RunInv, WorkerInv
<1>2. public' = public /\ code' = code /\ completed' = completed
  BY DEF MarkRunning
<1>3. CASE /\ status[r] = "PENDING" /\ status' = [status EXCEPT ![r] = "RUNNING"]
           /\ ran' = ran \cup {w} \/ ran' = ran
  <2>1. \A q \in Runs : status'[q] = IF q = r THEN "RUNNING" ELSE status[q]
    BY <1>1, <1>3 DEF RunInv, TypeOK, RecordTypeOK
  <2>2. Given[r] = {}
    BY <1>1, <1>3 DEF ShownOK
  <2>3. \A q \in Runs : w \notin Given[q]
    BY <1>1 DEF Given
  <2>4. CASE ran' = ran
    <3>1. Given' = Given
      BY <1>1, <2>4 DEF Given
    <3>2. Shown' = Shown
      BY <1>2, <1>3, <2>1, <3>1, NothingShown
    <3> QED BY <1>2, <1>3, <3>1, <3>2 DEF Ledger!Begin
  <2>5. CASE ran' = ran \cup {w}
    <3>1. \A q \in Runs : Given'[q] = IF q = r THEN Given[q] \cup {w} ELSE Given[q]
      BY <1>1, <2>5 DEF Given
    <3>2. Given' = [Given EXCEPT ![r] = {w}]
      <4>1. Given = [q \in Runs |-> Given[q]] /\ Given' = [q \in Runs |-> Given'[q]]
        BY DEF Given
      <4> QED BY <1>1, <2>2, <3>1, <4>1
    <3>3. \A q \in Runs : Shown'[q] = Shown[q]
      <4>1. \A q \in Runs :
              /\ Shown[q] = IF status[q] = "SUCCEEDED" /\ q \in public THEN Given[q] ELSE {}
              /\ Shown'[q] = IF status'[q] = "SUCCEEDED" /\ q \in public' THEN Given'[q] ELSE {}
        BY DEF ShownOK
      <4> SUFFICES ASSUME NEW q \in Runs PROVE Shown'[q] = Shown[q]
        OBVIOUS
      <4>2. CASE q = r
        BY <1>3, <2>1, <4>1, <4>2
      <4>3. CASE q # r
        <5>1. status'[q] = status[q] /\ Given'[q] = Given[q] /\ public' = public
          BY <1>2, <2>1, <3>1, <4>3
        <5> QED BY <4>1, <5>1
      <4> QED BY <4>2, <4>3
    <3>4. Shown' = Shown
      BY <3>3 DEF Shown
    <3> QED BY <1>2, <1>3, <2>3, <3>2, <3>4 DEF Ledger!Begin
  <2> QED BY <1>3, <2>4, <2>5
<1>4. CASE UNCHANGED <<status, ran>>
  <2>1. Given' = Given
    BY <1>1, <1>4 DEF Given
  <2>2. Shown' = Shown
    BY <1>2, <1>4, <2>1, NothingShown
  <2> QED BY <1>2, <1>4, <2>1, <2>2 DEF Entries
<1> QED BY <1>3, <1>4 DEF MarkRunning, MayRun

\* mark_succeeded ends a run as a success, or repeats what its record says.
LEMMA MarkSucceededSucceeds ==
    ASSUME RunInv, ShownOK, ShownOK', NEW c \in Calls, MarkSucceeded(c)
    PROVE  Ledger!Succeed(calls[c].run) \/ UNCHANGED Entries
<1> DEFINE r == calls[c].run
<1>1. r \in Runs /\ Verified(r)
  BY DEF MarkSucceeded, RunInv, CallInv, CallOK
<1>2. Given' = Given /\ public' = public /\ code' = code
  BY DEF MarkSucceeded, Given, workerVars
<1>3. PICK t \in Times :
        \/ /\ MaySucceed(r, t)
           /\ status' = [status EXCEPT ![r] = "SUCCEEDED"]
           /\ completed' = [completed EXCEPT ![r] = t]
        \/ UNCHANGED <<status, completed>>
  BY DEF MarkSucceeded
<1>4. status \in [Runs -> {"absent", "PENDING", "RUNNING", "SUCCEEDED", "FAILED"}]
      /\ completed \in [Runs -> Times \cup {None}]
  BY DEF RunInv, TypeOK, RecordTypeOK
<1>5. CASE /\ status[r] = "RUNNING" /\ status' = [status EXCEPT ![r] = "SUCCEEDED"]
           /\ completed' = [completed EXCEPT ![r] = t]
  <2>1. \A q \in Runs : status'[q] = IF q = r THEN "SUCCEEDED" ELSE status[q]
    BY <1>1, <1>4, <1>5
  <2>2. \A q \in Runs :
          Shown'[q] = IF q = r THEN (IF r \in public THEN Given[r] ELSE {}) ELSE Shown[q]
    BY <1>1, <1>2, <2>1 DEF ShownOK
  <2>3. Shown' = [Shown EXCEPT ![r] = IF r \in public THEN Given[r] ELSE {}]
    BY <2>2 DEF Shown
  <2>4. Given[r] # {}
    BY <1>1 DEF ShownOK
  <2> QED BY <1>2, <1>5, <2>3, <2>4 DEF Ledger!Succeed
<1>6. CASE UNCHANGED <<status, completed>>
  <2>1. Shown' = Shown
    BY <1>2, <1>6, NothingShown
  <2> QED BY <1>2, <1>6, <2>1 DEF Entries
<1>7. CASE /\ status[r] = "SUCCEEDED" /\ completed[r] = t
           /\ status' = [status EXCEPT ![r] = "SUCCEEDED"]
           /\ completed' = [completed EXCEPT ![r] = t]
  BY <1>1, <1>4, <1>6, <1>7
<1> QED BY <1>3, <1>5, <1>6, <1>7 DEF MaySucceed

\* mark_failed ends a run as a failure, or repeats what its record says.
LEMMA MarkFailedFails ==
    ASSUME RunInv, ShownOK, ShownOK', NEW c \in Calls, MarkFailed(c)
    PROVE  Ledger!Fail(calls[c].run) \/ UNCHANGED Entries
<1> DEFINE r == calls[c].run
           k == calls[c].code
<1>1. r \in Runs /\ k \in FailureCodes
  BY DEF MarkFailed, RunInv, CallInv, CallOK, TypeOK, CallTypeOK
<1>2. Given' = Given /\ public' = public
  BY DEF MarkFailed, Given, workerVars
<1>3. PICK t \in Times :
        \/ /\ MayFail(r, k, t)
           /\ status' = [status EXCEPT ![r] = "FAILED"]
           /\ code' = [code EXCEPT ![r] = k]
           /\ completed' = [completed EXCEPT ![r] = t]
        \/ UNCHANGED <<status, code, completed>>
  BY DEF MarkFailed
<1>4. /\ status \in [Runs -> {"absent", "PENDING", "RUNNING", "SUCCEEDED", "FAILED"}]
      /\ completed \in [Runs -> Times \cup {None}] /\ code \in [Runs -> FailureCodes \cup {None}]
  BY DEF RunInv, TypeOK, RecordTypeOK
<1>5. CASE /\ status[r] \in {"PENDING", "RUNNING"} /\ status' = [status EXCEPT ![r] = "FAILED"]
           /\ code' = [code EXCEPT ![r] = k] /\ completed' = [completed EXCEPT ![r] = t]
  <2>1. \A q \in Runs : status'[q] = IF q = r THEN "FAILED" ELSE status[q]
    BY <1>1, <1>4, <1>5
  <2>2. Shown' = Shown
    BY <1>2, <1>5, <2>1, NothingShown
  <2> QED BY <1>1, <1>2, <1>5, <2>2 DEF Ledger!Fail
<1>6. CASE UNCHANGED <<status, code, completed>>
  <2>1. Shown' = Shown
    BY <1>2, <1>6, NothingShown
  <2> QED BY <1>2, <1>6, <2>1 DEF Entries
<1>7. CASE /\ status[r] = "FAILED" /\ code[r] = k /\ completed[r] = t
           /\ status' = [status EXCEPT ![r] = "FAILED"]
           /\ code' = [code EXCEPT ![r] = k]
           /\ completed' = [completed EXCEPT ![r] = t]
  BY <1>1, <1>4, <1>6, <1>7
<1> QED BY <1>3, <1>5, <1>6, <1>7 DEF MayFail

\* Every other step is invisible: a launched worker has not executed anything,
\* and what is stored for a run shows only once the record says so.
LEMMA RestIsInvisible ==
    ASSUME RunInv, ShownOK, ShownOK', UNCHANGED <<recordVars, ran>>,
           \A w \in ran : wrun'[w] = wrun[w]
    PROVE  UNCHANGED Entries
<1>1. Given' = Given
  BY DEF Given
<1>2. Shown' = Shown
  BY <1>1, NothingShown DEF recordVars
<1> QED BY <1>1, <1>2 DEF Entries, recordVars

\* The workflow implements the ledger: whatever requests, answers, tasks and
\* timers fail and whoever still writes, a run is given to at most one worker,
\* ends once, and shows that worker's result from its success on, for good.
THEOREM LedgerIsKept == Spec => KeepsLedger
<1>1. Init => Ledger!Init
  BY DEF Init, Ledger!Init, Given, Shown, Served, PublicRecord
<1>2. RunInv /\ RunInv' /\ [Next]_vars => [Ledger!Next]_Entries
  <2> SUFFICES ASSUME RunInv, RunInv', [Next]_vars PROVE [Ledger!Next]_Entries
    OBVIOUS
  <2>1. ShownOK /\ ShownOK'
    BY ShownIsGiven, ShownIsGivenNext
  <2>2. ASSUME NEW c \in Calls, CreatePending(c) PROVE Ledger!Next \/ UNCHANGED Entries
    <3>1. calls[c].run \in Runs
      BY <2>2 DEF CreatePending, RunInv, CallInv, CallOK
    <3> QED BY <2>1, <2>2, <3>1, CreateOpens DEF Ledger!Next
  <2>3. ASSUME NEW w \in Workers, MarkRunning(w) PROVE Ledger!Next \/ UNCHANGED Entries
    <3>1. wrun[w] \in Runs
      BY <2>3 DEF MarkRunning, RunInv, WorkerInv
    <3> QED BY <2>1, <2>3, <3>1, MarkRunningBegins DEF Ledger!Next
  <2>4. ASSUME NEW c \in Calls, MarkSucceeded(c) PROVE Ledger!Next \/ UNCHANGED Entries
    <3>1. calls[c].run \in Runs
      BY <2>4 DEF MarkSucceeded, RunInv, CallInv, CallOK
    <3> QED BY <2>1, <2>4, <3>1, MarkSucceededSucceeds DEF Ledger!Next
  <2>5. ASSUME NEW c \in Calls, MarkFailed(c) PROVE Ledger!Next \/ UNCHANGED Entries
    <3>1. calls[c].run \in Runs
      BY <2>5 DEF MarkFailed, RunInv, CallInv, CallOK
    <3> QED BY <2>1, <2>5, <3>1, MarkFailedFails DEF Ledger!Next
  <2>6. ASSUME NEW w \in Workers, Launch(w) PROVE UNCHANGED Entries
    <3>1. w \notin ran /\ UNCHANGED <<recordVars, ran>>
      BY <2>6 DEF Launch, RunInv, WorkerInv
    <3>2. \A v \in ran : wrun'[v] = wrun[v]
      BY <2>6, <3>1 DEF Launch, RunInv, TypeOK, WorkerTypeOK
    <3> QED BY <2>1, <3>1, <3>2, RestIsInvisible
  <2>7. CASE UNCHANGED <<recordVars, ran, wrun>>
    BY <2>1, <2>7, RestIsInvisible
  <2> QED
    BY <2>2, <2>3, <2>4, <2>5, <2>6, <2>7 DEF Next, FlowStep, CallStep, Finalize,
      WorkerStep, PutSpec, Verify, Reread, Forget, CallTimesOut, Compute, PutOutput, Kill,
      AcquireData, Invoke, Answered, Raised, WorkerStopped, ServiceFails, LaunchFails,
      WorkerTimesOut, ExecutionTimesOut, vars, workerVars
<1> QED
  BY <1>1, <1>2, RunInvariant, PTL DEF Spec, KeepsLedger, Ledger!Spec, Ledger!vars, Entries

=============================================================================
