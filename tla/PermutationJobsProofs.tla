----------------------- MODULE PermutationJobsProofs -----------------------
(***************************************************************************)
(* What the job store and its clients can rely on, for any number of jobs  *)
(* and seeds, any capacity and TTL, and any length of run.                 *)
(*                                                                         *)
(* JobsInv ties the three views of a job together: where its task is       *)
(* (phase), what the store holds (entries) and what clients were last told *)
(* (seen).  The store's own part of the argument is GetKeepsActive and     *)
(* SetKeepsActive: expiry and eviction remove terminal entries only.       *)
(*                                                                         *)
(* StoreInv is about what the store gives up.  Eviction is counted out in  *)
(* RankFacts, CapacityBound and EvictedIsCrowdedOut: the places of a sort  *)
(* with distinct keys number the terminal entries, so those that stay fit  *)
(* in an interval of MaxTerminal places and those that go had MaxTerminal  *)
(* entries after them.                                                     *)
(***************************************************************************)
EXTENDS PermutationJobs, FiniteSetTheorems, TLAPS

\* The counts of a complete pass: every seed once.
EachSeedOnce == [s \in Seeds |-> 1]

\* The store's entry of a job, its task's phase and its clients' knowledge.
PhaseInv(j) ==
    /\ phase[j] \in {"new", "posted", "queued", "running", "over", "lost"}
    /\ phase[j] = "new" => entries[j] = None /\ seen[j] = "nothing"
    /\ phase[j] = "posted" =>
         entries[j] # None /\ entries[j].status = "pending" /\ seen[j] = "nothing"
    /\ phase[j] = "queued" =>
         entries[j] # None /\ entries[j].status = "pending" /\ seen[j] = "pending"
    /\ phase[j] = "running" =>
         entries[j] # None /\ entries[j].status = "running" /\ seen[j] \in Active
    /\ phase[j] = "over" =>
         /\ entries[j] = None \/ entries[j].status \in Terminal
         /\ \/ seen[j] \in Active
            \/ entries[j] = None /\ seen[j] \in Terminal \cup {"404"}
            \/ entries[j] # None /\ seen[j] = entries[j].status
    /\ phase[j] = "lost" => entries[j] = None

SeenInv(j) == seen[j] \in Active \cup Terminal \cup {"nothing", "404"}

\* What was collected of a job, and what its result was computed from.
SampleInv(j) ==
    /\ samples[j] \in [Seeds -> {0, 1}]
    /\ entries[j] # None /\ entries[j].status = "done" =>
         entries[j].result = PermutationResult(EachSeedOnce)

Shape ==
    /\ now \in Nat
    /\ entries = [j \in Jobs |-> entries[j]]
    /\ phase = [j \in Jobs |-> phase[j]]
    /\ samples = [j \in Jobs |-> samples[j]]
    /\ seen = [j \in Jobs |-> seen[j]]

JobsInv == Shape /\ \A j \in Jobs : PhaseInv(j) /\ SeenInv(j) /\ SampleInv(j)

-----------------------------------------------------------------------------
(* The store.                                                              *)

\* Reading the store leaves a job's entry alone or drops an outcome.
LEMMA GetKeepsActive ==
    ASSUME NEW j \in Jobs, NEW k \in Jobs, GetJob(k)
    PROVE  /\ entries' = [i \in Jobs |-> entries'[i]]
           /\ entries'[j] = entries[j] \/ (entries'[j] = None /\ IsTerminal(entries[j]))
BY DEF GetJob, WithoutExpired

\* Setting a job leaves every other entry alone or drops an outcome; an active
\* entry that is set is there afterwards.
LEMMA SetKeepsActive ==
    ASSUME NEW j \in Jobs, NEW k \in Jobs, NEW status, NEW result, SetJob(k, status, result),
           Shape
    PROVE  LET new == [status |-> status, result |-> result, at |-> now]
           IN  /\ entries' = [i \in Jobs |-> entries'[i]]
               /\ j # k => \/ entries'[j] = entries[j]
                           \/ entries'[j] = None /\ IsTerminal(entries[j])
               /\ entries'[k] = new \/ (entries'[k] = None /\ status \in Terminal)
<1> DEFINE new == [status |-> status, result |-> result, at |-> now]
           store == [WithoutExpired(entries) EXCEPT ![k] = new]
<1>1. entries' = WithinTerminalCapacity(store, order')
  BY DEF SetJob
<1>2. /\ \A i \in Jobs : entries'[i] = store[i] \/ (entries'[i] = None /\ IsTerminal(store[i]))
      /\ entries' = [i \in Jobs |-> entries'[i]]
  <2> HIDE DEF store
  <2> QED BY <1>1 DEF WithinTerminalCapacity
<1>3. store[k] = new
  BY DEF WithoutExpired
<1>4. j # k => store[j] = WithoutExpired(entries)[j]
  BY DEF WithoutExpired
<1>5. \/ WithoutExpired(entries)[j] = entries[j]
      \/ WithoutExpired(entries)[j] = None /\ IsTerminal(entries[j])
  BY DEF WithoutExpired
<1>6. IsTerminal(new) => status \in Terminal
  BY DEF IsTerminal
<1> HIDE DEF store, new
<1>7. entries'[k] = new \/ (entries'[k] = None /\ status \in Terminal)
  BY <1>2, <1>3, <1>6
<1>8. j # k => \/ entries'[j] = entries[j]
               \/ entries'[j] = None /\ IsTerminal(entries[j])
  BY <1>2, <1>4, <1>5 DEF IsTerminal
<1> QED BY <1>2, <1>7, <1>8 DEF new

\* An active entry is an entry: the store tells it from None.
LEMMA ActiveEntryIsNotNone ==
    ASSUME NEW status \in Active, now \in Nat
    PROVE  [status |-> status, result |-> None, at |-> now] # None
BY JobStoreAssumption DEF Active, Entry, Statuses

-----------------------------------------------------------------------------
(* JobsInv is inductive.                                                   *)

LEMMA JobsInvInit == Init => JobsInv
<1> SUFFICES ASSUME Init PROVE JobsInv
  OBVIOUS
<1>1. Shape
  BY DEF Init, Shape
<1>2. ASSUME NEW j \in Jobs PROVE PhaseInv(j) /\ SeenInv(j) /\ SampleInv(j)
  BY DEF Init, PhaseInv, SeenInv, SampleInv, NoSamples
<1> QED BY <1>1, <1>2 DEF JobsInv

\* What a pass computes depends on nothing that changes.
LEMMA ResultIsConstant ==
    PermutationResult(EachSeedOnce)' = PermutationResult(EachSeedOnce)
OBVIOUS

\* A step that moves one job and otherwise only drops outcomes keeps the
\* invariant of the other jobs.
LEMMA OthersKeepInv ==
    ASSUME NEW j \in Jobs, PhaseInv(j), SeenInv(j), SampleInv(j),
           phase'[j] = phase[j], seen'[j] = seen[j], samples'[j] = samples[j],
           entries'[j] = entries[j] \/ (entries'[j] = None /\ IsTerminal(entries[j]))
    PROVE  PhaseInv(j)' /\ SeenInv(j)' /\ SampleInv(j)'
<1>1. CASE entries'[j] = entries[j]
  <2>1. PhaseInv(j)'
    BY <1>1 DEF PhaseInv
  <2>2. SeenInv(j)' /\ SampleInv(j)'
    BY <1>1, ResultIsConstant DEF SeenInv, SampleInv
  <2> QED BY <2>1, <2>2
<1>2. CASE entries'[j] = None /\ IsTerminal(entries[j])
  <2>1. phase[j] = "over"
    BY <1>2 DEF PhaseInv, IsTerminal, Terminal, Active
  <2> QED BY <1>2, <2>1 DEF PhaseInv, SeenInv, SampleInv, IsTerminal, Terminal, Active
<1> QED BY <1>1, <1>2

LEMMA StartKeepsInv ==
    ASSUME JobsInv, NEW k \in Jobs, StartPermutationTest(k)
    PROVE  JobsInv'
<1> USE DEF JobsInv
<1>1. SetJob(k, "pending", None) /\ "pending" \in Active /\ "pending" \notin Terminal
  BY DEF StartPermutationTest, Active, Terminal
<1>2. Shape'
  BY <1>1, SetKeepsActive DEF Shape, StartPermutationTest, At
<1>3. ASSUME NEW j \in Jobs PROVE PhaseInv(j)' /\ SeenInv(j)' /\ SampleInv(j)'
  <2>1. CASE j # k
    BY <2>1, <1>1, SetKeepsActive, OthersKeepInv DEF Shape, StartPermutationTest, At
  <2>2. CASE j = k
    <3>1. entries'[k] = [status |-> "pending", result |-> None, at |-> now]
      BY <1>1, SetKeepsActive
    <3>2. entries'[k] # None /\ entries'[k].status = "pending"
      BY <1>1, <3>1, ActiveEntryIsNotNone DEF Shape
    <3>3. phase'[k] = "posted" /\ seen'[k] = "nothing" /\ samples'[k] = samples[k]
      BY DEF StartPermutationTest, At, PhaseInv, Shape
    <3> QED BY <2>2, <3>2, <3>3 DEF PhaseInv, SeenInv, SampleInv
  <2> QED BY <2>1, <2>2
<1> QED BY <1>2, <1>3

LEMMA RespondKeepsInv ==
    ASSUME JobsInv, NEW k \in Jobs, RespondAccepted(k)
    PROVE  JobsInv' /\ seen[k] = "nothing" /\ seen'[k] = "pending"
<1> USE DEF JobsInv
<1>1. GetJob(k) /\ phase[k] = "posted"
  BY DEF RespondAccepted, At
<1>2. entries'[k] = entries[k] /\ entries[k] # None /\ entries[k].status = "pending"
  BY <1>1, GetKeepsActive DEF PhaseInv, IsTerminal, Terminal
<1>3. phase' = [phase EXCEPT ![k] = "queued"] /\ seen' = [seen EXCEPT ![k] = "pending"]
  BY <1>2 DEF RespondAccepted, At
<1>4. Shape'
  BY <1>1, <1>3, GetKeepsActive DEF Shape, RespondAccepted
<1>5. ASSUME NEW j \in Jobs PROVE PhaseInv(j)' /\ SeenInv(j)' /\ SampleInv(j)'
  <2>1. CASE j # k
    <3>1. phase'[j] = phase[j] /\ seen'[j] = seen[j] /\ samples'[j] = samples[j]
      BY <1>3, <2>1 DEF Shape, RespondAccepted
    <3> QED BY <3>1, <1>1, GetKeepsActive, OthersKeepInv
  <2>2. CASE j = k
    <3>1. phase'[k] = "queued" /\ seen'[k] = "pending" /\ samples'[k] = samples[k]
      BY <1>3 DEF Shape, RespondAccepted
    <3> QED BY <2>2, <1>2, <3>1 DEF PhaseInv, SeenInv, SampleInv, Active
  <2> QED BY <2>1, <2>2
<1>6. seen[k] = "nothing" /\ seen'[k] = "pending"
  BY <1>1, <1>3 DEF PhaseInv, Shape
<1> QED BY <1>4, <1>5, <1>6

LEMMA BeginKeepsInv ==
    ASSUME JobsInv, NEW k \in Jobs, BeginTask(k)
    PROVE  JobsInv'
<1> USE DEF JobsInv
<1>1. SetJob(k, "running", None) /\ "running" \in Active /\ "running" \notin Terminal
  BY DEF BeginTask, Active, Terminal
<1>2. Shape'
  BY <1>1, SetKeepsActive DEF Shape, BeginTask, At
<1>3. ASSUME NEW j \in Jobs PROVE PhaseInv(j)' /\ SeenInv(j)' /\ SampleInv(j)'
  <2>1. CASE j # k
    BY <2>1, <1>1, SetKeepsActive, OthersKeepInv DEF Shape, BeginTask, At
  <2>2. CASE j = k
    <3>1. entries'[k] = [status |-> "running", result |-> None, at |-> now]
      BY <1>1, SetKeepsActive
    <3>2. entries'[k] # None /\ entries'[k].status = "running"
      BY <1>1, <3>1, ActiveEntryIsNotNone DEF Shape
    <3>3. phase'[k] = "running" /\ seen'[k] = "pending" /\ samples'[k] = samples[k]
      BY DEF BeginTask, At, PhaseInv, Shape
    <3> QED BY <2>2, <3>2, <3>3 DEF PhaseInv, SeenInv, SampleInv, Active
  <2> QED BY <2>1, <2>2
<1> QED BY <1>2, <1>3

\* The end of a task: an outcome is set, and a result is that of a full pass.
LEMMA OutcomeKeepsInv ==
    ASSUME JobsInv, NEW k \in Jobs, NEW status \in Terminal, NEW result, NEW counts,
           phase[k] = "running", phase' = [phase EXCEPT ![k] = "over"],
           SetJob(k, status, result), UNCHANGED <<now, seen>>,
           samples' = [samples EXCEPT ![k] = counts], counts \in [Seeds -> {0, 1}],
           status = "done" => result = PermutationResult(EachSeedOnce)
    PROVE  JobsInv'
<1> USE DEF JobsInv
<1>1. Shape'
  BY SetKeepsActive DEF Shape
<1>2. ASSUME NEW j \in Jobs PROVE PhaseInv(j)' /\ SeenInv(j)' /\ SampleInv(j)'
  <2>1. CASE j # k
    <3>1. phase'[j] = phase[j] /\ seen'[j] = seen[j] /\ samples'[j] = samples[j]
      BY <2>1 DEF Shape
    <3> QED BY <2>1, <3>1, SetKeepsActive, OthersKeepInv
  <2>2. CASE j = k
    <3>1. \/ entries'[k] = [status |-> status, result |-> result, at |-> now]
          \/ entries'[k] = None
      BY SetKeepsActive
    <3>2. phase'[k] = "over" /\ seen'[k] \in Active /\ samples'[k] = counts
      BY DEF PhaseInv, Shape
    <3>3. /\ entries'[k] = None \/ entries'[k].status \in Terminal
          /\ entries'[k] # None /\ entries'[k].status = "done" =>
               entries'[k].result = PermutationResult(EachSeedOnce)
      BY <3>1
    <3>4. PhaseInv(k)'
      BY <3>2, <3>3 DEF PhaseInv
    <3>5. SeenInv(k)'
      BY <3>2 DEF SeenInv
    <3>6. SampleInv(k)'
      BY <3>2, <3>3, ResultIsConstant DEF SampleInv
    <3> QED BY <2>2, <3>4, <3>5, <3>6
  <2> QED BY <2>1, <2>2
<1> QED BY <1>1, <1>2

LEMMA ErrorKeepsInv ==
    ASSUME JobsInv, NEW k \in Jobs, phase[k] = "running", SetError(k)
    PROVE  JobsInv'
<1>1. /\ phase' = [phase EXCEPT ![k] = "over"]
      /\ SetJob(k, "error", None)
      /\ UNCHANGED <<now, seen>>
      /\ samples' = samples
  BY DEF SetError
<1>2. samples' = [samples EXCEPT ![k] = samples[k]] /\ samples[k] \in [Seeds -> {0, 1}]
  BY <1>1 DEF JobsInv, Shape, SampleInv
<1>3. "error" \in Terminal /\ "error" # "done"
  BY DEF Terminal
<1> QED BY <1>1, <1>2, <1>3, OutcomeKeepsInv

\* Every seed collected, and none twice, is every seed once.
LEMMA CollectedIsEachSeedOnce ==
    ASSUME NEW k \in Jobs, SampleInv(k), Collected(k)
    PROVE  samples[k] = EachSeedOnce
BY DEF SampleInv, Collected, EachSeedOnce

LEMMA DoneKeepsInv ==
    ASSUME JobsInv, NEW k \in Jobs, SetDone(k)
    PROVE  JobsInv'
<1>1. /\ phase[k] = "running"
      /\ phase' = [phase EXCEPT ![k] = "over"]
      /\ UNCHANGED <<now, seen>>
      /\ samples' = samples
      /\ Collected(k)
      /\ SetJob(k, "done", PermutationResult(samples[k]))
  BY DEF SetDone, At
<1>2. samples' = [samples EXCEPT ![k] = samples[k]] /\ samples[k] \in [Seeds -> {0, 1}]
  BY <1>1 DEF JobsInv, Shape, SampleInv
<1>3. samples[k] = EachSeedOnce
  BY <1>1, CollectedIsEachSeedOnce DEF JobsInv
<1>4. SetJob(k, "done", PermutationResult(EachSeedOnce))
  BY <1>1, <1>3
<1>5. "done" \in Terminal
  BY DEF Terminal
<1> HIDE DEF EachSeedOnce
<1> QED BY <1>1, <1>2, <1>4, <1>5, OutcomeKeepsInv

LEMMA SequentialKeepsInv ==
    ASSUME JobsInv, NEW k \in Jobs, RestartSequentially(k)
    PROVE  JobsInv'
<1>1. /\ phase[k] = "running"
      /\ phase' = [phase EXCEPT ![k] = "over"]
      /\ UNCHANGED <<now, seen>>
      /\ samples' = [samples EXCEPT ![k] = EachSeedOnce]
      /\ SetJob(k, "done", PermutationResult(samples'[k]))
  BY DEF RestartSequentially, At, EachSeedOnce
<1>2. samples'[k] = EachSeedOnce
  BY <1>1 DEF JobsInv, Shape
<1>3. SetJob(k, "done", PermutationResult(EachSeedOnce))
  BY <1>1, <1>2
<1>4. "done" \in Terminal /\ EachSeedOnce \in [Seeds -> {0, 1}]
  BY DEF Terminal, EachSeedOnce
<1> QED BY <1>1, <1>3, <1>4, OutcomeKeepsInv

LEMMA CollectKeepsInv ==
    ASSUME JobsInv, NEW k \in Jobs, NEW s \in Seeds, CollectResult(k, s)
    PROVE  JobsInv'
<1> USE DEF JobsInv
<1>1. Shape'
  BY DEF Shape, CollectResult
<1>2. ASSUME NEW j \in Jobs PROVE PhaseInv(j)' /\ SeenInv(j)' /\ SampleInv(j)'
  <2>1. PhaseInv(j)' /\ SeenInv(j)'
    BY DEF CollectResult, PhaseInv, SeenInv
  <2>2. samples'[j] \in [Seeds -> {0, 1}]
    BY DEF CollectResult, Shape, SampleInv
  <2>3. entries' = entries
    BY DEF CollectResult
  <2> QED BY <2>1, <2>2, <2>3 DEF SampleInv
<1> QED BY <1>1, <1>2

\* What a poll tells is new to the client or the same again.
LEMMA PollKeepsInv ==
    ASSUME JobsInv, NEW k \in Jobs, PollPermutationTest(k)
    PROVE  JobsInv' /\ (seen'[k] = seen[k] \/ Progress(seen'[k]) > Progress(seen[k]))
<1> USE DEF JobsInv
<1>1. GetJob(k) /\ phase' = phase /\ samples' = samples /\ phase[k] \notin {"new", "posted"}
  BY DEF PollPermutationTest
<1>2. /\ seen'[k] = IF entries'[k] = None THEN "404" ELSE entries'[k].status
      /\ \A j \in Jobs : j # k => seen'[j] = seen[j]
      /\ seen' = [j \in Jobs |-> seen'[j]]
  BY DEF PollPermutationTest, Shape
<1>3. Shape'
  BY <1>1, <1>2, GetKeepsActive DEF Shape, PollPermutationTest
<1>4. ASSUME NEW j \in Jobs, j # k PROVE PhaseInv(j)' /\ SeenInv(j)' /\ SampleInv(j)'
  BY <1>1, <1>2, <1>4, GetKeepsActive, OthersKeepInv
<1>5. entries'[k] = entries[k] \/ (entries'[k] = None /\ IsTerminal(entries[k]))
  BY <1>1, GetKeepsActive
<1>6. CASE phase[k] = "queued"
  <2>1. entries'[k] = entries[k] /\ seen'[k] = seen[k]
    BY <1>2, <1>5, <1>6 DEF PhaseInv, IsTerminal, Terminal
  <2>2. PhaseInv(k)' /\ SeenInv(k)' /\ SampleInv(k)'
    BY <1>1, <2>1, OthersKeepInv
  <2> QED BY <1>3, <1>4, <2>1, <2>2
<1>7. CASE phase[k] = "running"
  <2>1. entries'[k] = entries[k] /\ seen'[k] = "running" /\ seen[k] \in Active
    BY <1>2, <1>5, <1>7 DEF PhaseInv, IsTerminal, Terminal
  <2>2. PhaseInv(k)' /\ SeenInv(k)' /\ SampleInv(k)'
    BY <1>1, <1>7, <2>1 DEF PhaseInv, SeenInv, SampleInv, Active
  <2>3. seen'[k] = seen[k] \/ Progress(seen'[k]) > Progress(seen[k])
    BY <2>1 DEF Active, Progress, Terminal
  <2> QED BY <1>3, <1>4, <2>2, <2>3
<1>8. CASE phase[k] = "over"
  <2>1. CASE entries'[k] = None
    <3>1. seen'[k] = "404"
      BY <1>2, <2>1
    <3>2. PhaseInv(k)' /\ SeenInv(k)' /\ SampleInv(k)'
      BY <1>1, <1>8, <2>1, <3>1 DEF PhaseInv, SeenInv, SampleInv
    <3>3. seen[k] = "404" \/ Progress("404") > Progress(seen[k])
      BY <1>8 DEF PhaseInv, SeenInv, Active, Progress, Terminal
    <3> QED BY <1>3, <1>4, <3>1, <3>2, <3>3
  <2>2. CASE entries'[k] # None
    <3>1. entries'[k] = entries[k] /\ seen'[k] = entries[k].status /\ entries[k].status \in Terminal
      BY <1>2, <1>5, <1>8, <2>2 DEF PhaseInv
    <3>2. PhaseInv(k)' /\ SeenInv(k)' /\ SampleInv(k)'
      BY <1>1, <1>8, <2>2, <3>1 DEF PhaseInv, SeenInv, SampleInv
    <3>3. seen[k] = entries[k].status \/ seen[k] \in Active
      BY <1>8, <2>2, <3>1 DEF PhaseInv
    <3>4. seen[k] = seen'[k] \/ Progress(seen'[k]) > Progress(seen[k])
      BY <3>1, <3>3 DEF Active, Progress, Terminal
    <3> QED BY <1>3, <1>4, <3>2, <3>4
  <2> QED BY <2>1, <2>2
<1>9. CASE phase[k] = "lost"
  <2>1. entries'[k] = None /\ seen'[k] = "404"
    BY <1>2, <1>5, <1>9 DEF PhaseInv, IsTerminal
  <2>2. PhaseInv(k)' /\ SeenInv(k)' /\ SampleInv(k)'
    BY <1>1, <1>9, <2>1 DEF PhaseInv, SeenInv, SampleInv
  <2>3. seen[k] = "404" \/ Progress("404") > Progress(seen[k])
    BY DEF SeenInv, Active, Progress, Terminal
  <2> QED BY <1>3, <1>4, <2>1, <2>2, <2>3
<1> QED BY <1>1, <1>6, <1>7, <1>8, <1>9 DEF PhaseInv

LEMMA RestartKeepsInv == JobsInv /\ Restart => JobsInv'
<1> SUFFICES ASSUME JobsInv, Restart PROVE JobsInv'
  OBVIOUS
<1>1. Shape'
  BY DEF JobsInv, Shape, Restart
<1>2. ASSUME NEW j \in Jobs PROVE PhaseInv(j)' /\ SeenInv(j)' /\ SampleInv(j)'
  BY DEF JobsInv, PhaseInv, SeenInv, SampleInv, Restart, NoSamples
<1> QED BY <1>1, <1>2 DEF JobsInv

LEMMA StutterKeepsInv ==
    ASSUME JobsInv, UNCHANGED <<entries, phase, samples, seen>>, now' \in Nat
    PROVE  JobsInv'
<1>1. Shape'
  BY DEF JobsInv, Shape
<1>2. ASSUME NEW j \in Jobs PROVE PhaseInv(j)' /\ SeenInv(j)' /\ SampleInv(j)'
  BY DEF JobsInv, PhaseInv, SeenInv, SampleInv
<1> QED BY <1>1, <1>2 DEF JobsInv

\* Every step keeps the invariant, and tells clients only what is new.
LEMMA JobsInvStep ==
    ASSUME JobsInv, [Next]_vars
    PROVE  /\ JobsInv'
           /\ \A j \in Jobs : seen'[j] # seen[j] => Progress(seen'[j]) > Progress(seen[j])
<1> DEFINE Told == \A j \in Jobs : seen'[j] # seen[j] => Progress(seen'[j]) > Progress(seen[j])
<1>1. ASSUME NEW j \in Jobs, StartPermutationTest(j) PROVE JobsInv' /\ Told
  BY <1>1, StartKeepsInv DEF StartPermutationTest
<1>2. ASSUME NEW j \in Jobs, RespondAccepted(j) PROVE JobsInv' /\ Told
  <2>1. \A i \in Jobs : i # j => seen'[i] = seen[i]
    BY <1>2 DEF RespondAccepted, JobsInv, Shape
  <2>2. Progress("pending") > Progress("nothing")
    BY DEF Progress, Terminal
  <2> QED BY <1>2, <2>1, <2>2, RespondKeepsInv
<1>3. ASSUME NEW j \in Jobs, BeginTask(j) PROVE JobsInv' /\ Told
  BY <1>3, BeginKeepsInv DEF BeginTask
<1>4. ASSUME NEW j \in Jobs, PreparationFails(j) \/ WorkerFails(j) \/ SequentialFails(j)
      PROVE JobsInv' /\ Told
  BY <1>4, ErrorKeepsInv DEF PreparationFails, WorkerFails, SequentialFails, SetError
<1>5. ASSUME NEW j \in Jobs, NEW s \in Seeds, CollectResult(j, s) PROVE JobsInv' /\ Told
  BY <1>5, CollectKeepsInv DEF CollectResult
<1>6. ASSUME NEW j \in Jobs, SetDone(j) PROVE JobsInv' /\ Told
  BY <1>6, DoneKeepsInv DEF SetDone
<1>7. ASSUME NEW j \in Jobs, RestartSequentially(j) PROVE JobsInv' /\ Told
  BY <1>7, SequentialKeepsInv DEF RestartSequentially
<1>8. ASSUME NEW j \in Jobs, PollPermutationTest(j) PROVE JobsInv' /\ Told
  <2>1. \A i \in Jobs : i # j => seen'[i] = seen[i]
    BY <1>8 DEF PollPermutationTest, JobsInv, Shape
  <2> QED BY <1>8, <2>1, PollKeepsInv
<1>9. CASE Tick
  <2>1. UNCHANGED <<entries, phase, samples, seen>> /\ now' \in Nat
    BY <1>9 DEF Tick, JobsInv, Shape
  <2> QED BY <2>1, StutterKeepsInv
<1>10. CASE Restart
  BY <1>10, RestartKeepsInv DEF Restart
<1>11. CASE UNCHANGED vars
  <2>1. UNCHANGED <<entries, phase, samples, seen>> /\ now' \in Nat
    BY <1>11 DEF vars, JobsInv, Shape
  <2> QED BY <2>1, StutterKeepsInv
<1> HIDE DEF Told
<1>12. ASSUME NEW j \in Jobs, Task(j) PROVE JobsInv' /\ Told
  BY <1>12, <1>2, <1>3, <1>4, <1>5, <1>6, <1>7 DEF Task
<1>13. ASSUME NEW j \in Jobs, StartPermutationTest(j) \/ Task(j) \/ PollPermutationTest(j)
      PROVE JobsInv' /\ Told
  BY <1>1, <1>8, <1>12, <1>13
<1>14. Tick \/ Restart \/ UNCHANGED vars => JobsInv' /\ Told
  BY <1>9, <1>10, <1>11 DEF Told
<1>15. JobsInv' /\ Told
  BY <1>13, <1>14 DEF Next
<1> QED BY <1>15 DEF Told

LEMMA JobsInvHolds == Spec => []JobsInv
<1>1. JobsInv /\ [Next]_vars => JobsInv'
  BY JobsInvStep
<1> QED BY JobsInvInit, <1>1, PTL DEF Spec

-----------------------------------------------------------------------------
(* Theorems.                                                               *)

\* Expiry and eviction never take a job whose request or task is under way,
\* and the assertion after the first set of start_permutation_test never fails.
THEOREM ActiveJobsAreKeptHolds == Spec => []ActiveJobsAreKept
<1>1. JobsInv => ActiveJobsAreKept
  BY DEF JobsInv, PhaseInv, ActiveJobsAreKept, Active
<1> QED BY JobsInvHolds, <1>1, PTL

\* However polls interleave with the task, expiry, eviction and restarts, what
\* poll_permutation_test answers for a job only moves forward.
THEOREM PollsNeverRegressHolds == Spec => PollsNeverRegress
<1>1. JobsInv /\ [Next]_vars =>
        [\A j \in Jobs : seen'[j] # seen[j] => Progress(seen'[j]) > Progress(seen[j])]_vars
  BY JobsInvStep
<1> QED BY JobsInvHolds, <1>1, PTL DEF Spec, PollsNeverRegress

\* Each seed collected once, permuted_metrics has one element per seed.
LEMMA CollectionOfEachSeedOnce ==
    ASSUME NEW S \in SUBSET Seeds
    PROVE  Cardinality(Collection(EachSeedOnce, S)) = Cardinality(S)
           /\ Cardinality(S) \in Nat
<1>1. Collection(EachSeedOnce, S) = S \X {1}
  <2>1. \A s \in S : EachSeedOnce[s] = 1
    BY DEF EachSeedOnce
  <2>2. 1..1 = {1}
    OBVIOUS
  <2> QED BY <2>1, <2>2 DEF Collection
<1>2. IsFiniteSet(S)
  BY SeedsAssumption, FS_Subset
<1>3. /\ IsFiniteSet({1}) /\ Cardinality({1}) = 1
      /\ Cardinality(S) \in Nat
  BY <1>2, FS_Singleton, FS_CardinalityType
<1>4. Cardinality(S \X {1}) = Cardinality(S) * Cardinality({1})
  BY <1>2, <1>3, FS_Product
<1> QED BY <1>1, <1>3, <1>4

\* What a complete pass reports.
LEMMA FullPassResult ==
    /\ PermutationResult(EachSeedOnce) =
         [gte  |-> Cardinality({s \in Seeds : Metric[s] >= ActualMetric}) + 1,
          rank |-> Cardinality({s \in Seeds : Metric[s] < ActualMetric}),
          size |-> Cardinality(Seeds) + 1]
    /\ PermutationResult(EachSeedOnce) \in [gte : Int, rank : Int, size : Int]
<1> DEFINE G == {s \in Seeds : Metric[s] >= ActualMetric}
           L == {s \in Seeds : Metric[s] < ActualMetric}
<1>1. G \in SUBSET Seeds /\ L \in SUBSET Seeds /\ Seeds \in SUBSET Seeds
  OBVIOUS
<1>2. PermutationResult(EachSeedOnce) =
         [gte  |-> Cardinality(Collection(EachSeedOnce, G)) + 1,
          rank |-> Cardinality(Collection(EachSeedOnce, L)),
          size |-> Cardinality(Collection(EachSeedOnce, Seeds)) + 1]
  BY DEF PermutationResult, RunSinglePermutation
<1> HIDE DEF G, L
<1>3. /\ Cardinality(Collection(EachSeedOnce, G)) = Cardinality(G) /\ Cardinality(G) \in Nat
      /\ Cardinality(Collection(EachSeedOnce, L)) = Cardinality(L) /\ Cardinality(L) \in Nat
      /\ Cardinality(Collection(EachSeedOnce, Seeds)) = Cardinality(Seeds)
      /\ Cardinality(Seeds) \in Nat
  BY <1>1, CollectionOfEachSeedOnce
<1>4. PermutationResult(EachSeedOnce) =
         [gte  |-> Cardinality(G) + 1, rank |-> Cardinality(L), size |-> Cardinality(Seeds) + 1]
  BY <1>2, <1>3
<1>5. PermutationResult(EachSeedOnce) \in [gte : Int, rank : Int, size : Int]
  BY <1>3, <1>4
<1> QED BY <1>4, <1>5 DEF G, L

\* Every result in the store has the statistics of each seed counted exactly
\* once, whatever the order of the pool's answers and whether PermutationTester.run
\* fell back to the sequential pass or not.
THEOREM ResultsAreExact == Spec => []ResultIsExact
<1>1. JobsInv => ResultIsExact
  BY FullPassResult DEF JobsInv, SampleInv, ResultIsExact
<1> QED BY JobsInvHolds, <1>1, PTL

-----------------------------------------------------------------------------
(* What the store gives up.                                                *)

\* The terminal entries of a store.
TerminalOf(store) == {j \in Jobs : IsTerminal(store[j])}

\* The results of other jobs that are no older than j's.
NoOlder(store, j) == {k \in TerminalOf(store) \ {j} : store[k].at >= store[j].at}

\* What _within_terminal_capacity needs of a store and of its dictionary order.
Sortable(store, place) ==
    /\ place \in [Jobs -> Nat]
    /\ \A j \in TerminalOf(store) : store[j].at \in Nat
    /\ \A j, k \in TerminalOf(store) : place[j] = place[k] => j = k

\* How many entries the sort puts before j.
Rank(store, place, j) == Cardinality({k \in TerminalOf(store) : Older(store, place, k, j)})

LEMMA TerminalIsFinite ==
    ASSUME NEW store
    PROVE  IsFiniteSet(TerminalOf(store)) /\ Cardinality(TerminalOf(store)) \in Nat
BY JobStoreAssumption, FS_Subset, FS_CardinalityType DEF TerminalOf

\* Ranks are places in the sorted list: below its length, and distinct.
LEMMA RankFacts ==
    ASSUME NEW store, NEW place, Sortable(store, place)
    PROVE  /\ \A j \in TerminalOf(store) :
                /\ Rank(store, place, j) \in Nat
                /\ Rank(store, place, j) < Cardinality(TerminalOf(store))
           /\ \A j, k \in TerminalOf(store) :
                Rank(store, place, j) = Rank(store, place, k) => j = k
<1> DEFINE T == TerminalOf(store)
           Before(j) == {k \in T : Older(store, place, k, j)}
<1>1. IsFiniteSet(T) /\ Cardinality(T) \in Nat
  BY TerminalIsFinite
<1>2. ASSUME NEW j \in T
      PROVE  /\ IsFiniteSet(Before(j)) /\ Cardinality(Before(j)) \in Nat
             /\ Cardinality(Before(j)) < Cardinality(T)
  <2>1. j \notin Before(j)
    BY DEF Sortable, Older, TerminalOf
  <2>2. Before(j) \in SUBSET T /\ Before(j) # T
    BY <2>1
  <2> HIDE DEF Before, T
  <2>3. /\ IsFiniteSet(Before(j)) /\ Cardinality(Before(j)) <= Cardinality(T)
        /\ Cardinality(T) # Cardinality(Before(j))
    BY <1>1, <2>2, FS_Subset
  <2> QED BY <1>1, <2>3, FS_CardinalityType
<1>3. ASSUME NEW j \in T, NEW k \in T, Older(store, place, j, k)
      PROVE  Cardinality(Before(j)) < Cardinality(Before(k))
  <2>1. j \in Before(k) /\ j \notin Before(j)
    BY <1>3 DEF Sortable, Older, TerminalOf
  <2>2. \A i \in T : Older(store, place, i, j) => Older(store, place, i, k)
    BY <1>3 DEF Sortable, Older, TerminalOf
  <2>3. Before(j) \in SUBSET Before(k) /\ Before(j) # Before(k)
    BY <2>1, <2>2
  <2>4. /\ IsFiniteSet(Before(k)) /\ Cardinality(Before(k)) \in Nat
        /\ Cardinality(Before(j)) \in Nat
    BY <1>2
  <2> HIDE DEF Before, T
  <2>5. /\ Cardinality(Before(j)) <= Cardinality(Before(k))
        /\ Cardinality(Before(k)) # Cardinality(Before(j))
    BY <2>3, <2>4, FS_Subset
  <2> QED BY <2>4, <2>5
<1>4. ASSUME NEW j \in T, NEW k \in T, j # k
      PROVE  Older(store, place, j, k) \/ Older(store, place, k, j)
  <2>1. place[j] \in Nat /\ place[k] \in Nat /\ place[j] # place[k]
    BY <1>4 DEF Sortable, TerminalOf
  <2>2. store[j].at \in Nat /\ store[k].at \in Nat
    BY DEF Sortable
  <2> QED BY <2>1, <2>2 DEF Older
<1>5. \A j \in T : Rank(store, place, j) = Cardinality(Before(j))
  BY DEF Rank
<1> HIDE DEF Before
<1>6. \A j, k \in T : Cardinality(Before(j)) = Cardinality(Before(k)) => j = k
  <2> SUFFICES ASSUME NEW j \in T, NEW k \in T, j # k
               PROVE  Cardinality(Before(j)) # Cardinality(Before(k))
    OBVIOUS
  <2>1. Cardinality(Before(j)) \in Nat /\ Cardinality(Before(k)) \in Nat
    BY <1>2
  <2>2. \/ Cardinality(Before(j)) < Cardinality(Before(k))
        \/ Cardinality(Before(k)) < Cardinality(Before(j))
    BY <1>3, <1>4
  <2> QED BY <2>1, <2>2
<1> QED BY <1>2, <1>5, <1>6

\* Eviction leaves at most MaxTerminal results: the ranks of those that stay
\* are distinct numbers of an interval of that length.
LEMMA CapacityBound ==
    ASSUME NEW store, NEW place, Sortable(store, place)
    PROVE  Cardinality(TerminalOf(WithinTerminalCapacity(store, place))) <= MaxTerminal
<1> DEFINE T == TerminalOf(store)
           n == Cardinality(T)
           excess == n - MaxTerminal
           kept == TerminalOf(WithinTerminalCapacity(store, place))
           rank(j) == Rank(store, place, j)
<1>1. IsFiniteSet(T) /\ n \in Nat /\ MaxTerminal \in Nat
  BY TerminalIsFinite, JobStoreAssumption
<1>2. kept = {j \in T : ~(rank(j) < excess)}
  BY DEF WithinTerminalCapacity, TerminalOf, IsTerminal, Rank
<1>3. /\ \A j \in T : rank(j) \in Nat /\ rank(j) < n
      /\ \A j, k \in T : rank(j) = rank(k) => j = k
  BY RankFacts
<1> HIDE DEF T, n, kept, rank
<1>4. CASE excess <= 0
  <2>1. kept \in SUBSET T
    BY <1>2
  <2>2. Cardinality(kept) <= n /\ Cardinality(kept) \in Nat
    BY <1>1, <2>1, FS_Subset, FS_CardinalityType DEF n
  <2> QED BY <1>1, <1>4, <2>2 DEF kept
<1>5. CASE excess > 0
  <2> DEFINE I == excess..(n - 1)
             f == [j \in kept |-> rank(j)]
  <2>1. IsFiniteSet(I) /\ Cardinality(I) = MaxTerminal
    <3>1. excess \in Int /\ n - 1 \in Int /\ excess <= n /\ n - 1 - excess + 1 = MaxTerminal
      BY <1>1, <1>5
    <3>2. MaxTerminal > 0
      BY JobStoreAssumption
    <3>3. ~(excess > n - 1)
      BY <1>1, <3>2
    <3> QED BY <3>1, <3>3, FS_Interval
  <2>2. \A j \in kept : f[j] = rank(j) /\ f[j] \in I
    BY <1>1, <1>2, <1>3
  <2>3. f \in Injection(kept, I)
    BY <1>2, <1>3, <2>2 DEF Injection, IsInjective
  <2> HIDE DEF I, f
  <2>4. Cardinality(kept) <= Cardinality(I)
    BY <2>1, <2>3, FS_Injection
  <2> QED BY <2>1, <2>4 DEF kept
<1> QED BY <1>1, <1>4, <1>5

\* An evicted result leaves at least MaxTerminal results that are no older.
LEMMA EvictedIsCrowdedOut ==
    ASSUME NEW store, NEW place, Sortable(store, place),
           NEW j \in TerminalOf(store), WithinTerminalCapacity(store, place)[j] = None
    PROVE  /\ IsFiniteSet(NoOlder(store, j)) /\ Cardinality(NoOlder(store, j)) \in Nat
           /\ Cardinality(NoOlder(store, j)) >= MaxTerminal
<1> DEFINE T == TerminalOf(store)
           Before == {k \in T : Older(store, place, k, j)}
           Rest == (T \ {j}) \ Before
<1>1. IsFiniteSet(T) /\ Cardinality(T) \in Nat /\ MaxTerminal \in Nat
  BY TerminalIsFinite, JobStoreAssumption
<1>2. Cardinality(Before) < Cardinality(T) - MaxTerminal
  <2>1. store[j] # None /\ j \in Jobs
    BY DEF TerminalOf, IsTerminal
  <2>2. WithinTerminalCapacity(store, place)[j] =
          IF j \in T /\ Cardinality(Before) < Cardinality(T) - MaxTerminal
          THEN None ELSE store[j]
    BY <2>1 DEF WithinTerminalCapacity, TerminalOf
  <2> HIDE DEF T, Before
  <2> QED BY <2>1, <2>2
<1>3. Before \in SUBSET (T \ {j})
  BY DEF Sortable, Older, TerminalOf
<1>4. Rest \in SUBSET NoOlder(store, j)
  BY DEF NoOlder, Sortable, Older, TerminalOf
<1> HIDE DEF T, Before
<1>5. IsFiniteSet(T \ {j}) /\ Cardinality(T \ {j}) = Cardinality(T) - 1
  BY <1>1, FS_RemoveElement DEF T
<1>6. (T \ {j}) \cap Before = Before /\ IsFiniteSet(Before) /\ Cardinality(Before) \in Nat
  BY <1>3, <1>5, FS_Subset, FS_CardinalityType
<1>7. IsFiniteSet(Rest) /\ Cardinality(Rest) = Cardinality(T) - 1 - Cardinality(Before)
  <2> DEFINE others == T \ {j}
  <2> HIDE DEF others
  <2>1. IsFiniteSet(others \ Before)
        /\ Cardinality(others \ Before) = Cardinality(others) - Cardinality(others \cap Before)
    BY <1>5, FS_Difference DEF others
  <2> QED BY <1>5, <1>6, <2>1 DEF others
<1>8. NoOlder(store, j) \in SUBSET T
  BY DEF NoOlder, T
<1>9. IsFiniteSet(NoOlder(store, j)) /\ Cardinality(NoOlder(store, j)) \in Nat
  BY <1>1, <1>8, FS_Subset, FS_CardinalityType
<1> HIDE DEF Rest
<1>10. Cardinality(Rest) <= Cardinality(NoOlder(store, j))
  BY <1>4, <1>9, FS_Subset
<1> QED BY <1>1, <1>2, <1>6, <1>7, <1>9, <1>10
\* The dictionary's order: places are distinct and never beyond the number of
\* keys, so that a new key's place is a free one.
OrderInv(place) ==
    /\ place \in [Jobs -> Nat]
    /\ \A j \in Jobs : place[j] <= Cardinality({k \in Jobs : place[k] > 0})
    /\ \A j, k \in Jobs : place[j] = place[k] /\ place[j] > 0 => j = k

\* The jobs, other than j, that finished no earlier than j.
Crowd(fin, j) == {k \in Jobs \ {j} : fin[k] # None /\ fin[k] >= fin[j]}

\* The result of j, if it is no longer in the store, was given up for cause.
GivenUpForCause(j) ==
    finished[j] # None /\ entries[j] = None =>
      now - finished[j] >= TTL \/ Cardinality(Crowd(finished, j)) >= MaxTerminal

\* Entries, dictionary order and the times of the outcomes belong together.
StoreInv ==
    /\ entries \in [Jobs -> Entry \cup {None}]
    /\ finished \in [Jobs -> Nat \cup {None}]
    /\ OrderInv(order)
    /\ \A j \in Jobs : entries[j] # None => order[j] > 0
    /\ \A j \in Jobs : IsTerminal(entries[j]) => finished[j] = entries[j].at
    /\ \A j \in Jobs : finished[j] # None => phase[j] = "over"
    /\ Cardinality(TerminalOf(entries)) <= MaxTerminal
    /\ \A j \in Jobs : GivenUpForCause(j)

LEMMA PlacedKeepsOrder ==
    ASSUME OrderInv(order), NEW k \in Jobs
    PROVE  /\ OrderInv(Placed(k))
           /\ Placed(k)[k] > 0
           /\ \A j \in Jobs : order[j] > 0 => Placed(k)[j] > 0
<1> DEFINE keys == {i \in Jobs : order[i] > 0}
<1>1. order \in [Jobs -> Nat] /\ IsFiniteSet(keys) /\ Cardinality(keys) \in Nat
  BY JobStoreAssumption, FS_Subset, FS_CardinalityType DEF OrderInv
<1>2. CASE order[k] > 0
  <2>1. Placed(k) = order
    BY <1>1, <1>2 DEF Placed
  <2> QED BY <1>2, <2>1
<1>3. CASE ~(order[k] > 0)
  <2> DEFINE place == Placed(k)
             last == 1 + Cardinality(keys)
  <2>1. place = [order EXCEPT ![k] = last]
    BY <1>1, <1>3 DEF Placed
  <2>2. /\ place \in [Jobs -> Nat] /\ place[k] = last /\ last > 0
        /\ \A j \in Jobs : j # k => place[j] = order[j]
        /\ order[k] = 0
    BY <1>1, <1>3, <2>1
  <2> HIDE DEF place, last
  <2>3. {i \in Jobs : place[i] > 0} = keys \cup {k} /\ k \notin keys
    BY <1>3, <2>2
  <2> HIDE DEF keys
  <2>4. Cardinality(keys \cup {k}) = Cardinality(keys) + 1
    BY <1>1, <2>3, FS_AddElement
  <2>5. Cardinality({i \in Jobs : place[i] > 0}) = last
    BY <1>1, <2>3, <2>4 DEF last
  <2>6. \A j \in Jobs : order[j] <= Cardinality(keys)
    BY DEF OrderInv, keys
  <2>7. \A j \in Jobs : j # k => place[j] < last /\ place[j] \in Nat
    BY <1>1, <2>2, <2>6 DEF last
  <2>8. last \in Nat
    BY <1>1 DEF last
  <2>9. \A j \in Jobs : place[j] <= Cardinality({i \in Jobs : place[i] > 0})
    BY <2>2, <2>5, <2>7, <2>8
  <2>10. \A i, j \in Jobs : place[i] = place[j] /\ place[i] > 0 => i = j
    <3> SUFFICES ASSUME NEW i \in Jobs, NEW j \in Jobs, place[i] = place[j], place[i] > 0,
                        i # j
                 PROVE  FALSE
      OBVIOUS
    <3>1. i # k /\ j # k
      BY <2>2, <2>7, <2>8
    <3>2. order[i] = order[j] /\ order[i] > 0
      BY <2>2, <3>1
    <3> QED BY <3>2 DEF OrderInv
  <2>11. OrderInv(place)
    BY <2>2, <2>9, <2>10 DEF OrderInv
  <2>12. \A j \in Jobs : order[j] > 0 => place[j] > 0
    BY <2>2
  <2> QED BY <2>2, <2>11, <2>12 DEF place
<1> QED BY <1>2, <1>3

LEMMA CrowdIsFinite ==
    ASSUME NEW fin, NEW j
    PROVE  IsFiniteSet(Crowd(fin, j)) /\ Cardinality(Crowd(fin, j)) \in Nat
BY JobStoreAssumption, FS_Subset, FS_CardinalityType DEF Crowd

\* As outcomes are added the crowd around a result only grows.
LEMMA CrowdGrows ==
    ASSUME NEW fin, NEW more, NEW j \in Jobs,
           \A i \in Jobs : fin[i] # None => more[i] = fin[i],
           fin[j] # None
    PROVE  Cardinality(Crowd(fin, j)) <= Cardinality(Crowd(more, j))
<1>1. Crowd(fin, j) \in SUBSET Crowd(more, j)
  BY DEF Crowd
<1> QED BY <1>1, CrowdIsFinite, FS_Subset

\* A cause to have given a result up stays one.
LEMMA CauseRemains ==
    ASSUME StoreInv, NEW j \in Jobs, now \in Nat, now' \in Nat, now' >= now,
           \A i \in Jobs : finished[i] # None => finished'[i] = finished[i],
           finished[j] # None, entries[j] = None
    PROVE  now' - finished'[j] >= TTL \/ Cardinality(Crowd(finished', j)) >= MaxTerminal
<1>1. /\ finished[j] \in Nat /\ finished'[j] = finished[j]
      /\ TTL \in Nat /\ MaxTerminal \in Nat
  BY JobStoreAssumption DEF StoreInv
<1>2. now - finished[j] >= TTL \/ Cardinality(Crowd(finished, j)) >= MaxTerminal
  BY DEF StoreInv, GivenUpForCause
<1>3. CASE now - finished[j] >= TTL
  BY <1>1, <1>3
<1>4. CASE Cardinality(Crowd(finished, j)) >= MaxTerminal
  <2>1. Cardinality(Crowd(finished, j)) <= Cardinality(Crowd(finished', j))
    BY CrowdGrows
  <2>2. Cardinality(Crowd(finished, j)) \in Nat /\ Cardinality(Crowd(finished', j)) \in Nat
    BY CrowdIsFinite
  <2> QED BY <1>1, <1>4, <2>1, <2>2
<1> QED BY <1>2, <1>3, <1>4
\* get() keeps the store's invariant: what expiry drops has reached the TTL.
LEMMA GetKeepsStore ==
    ASSUME JobsInv, StoreInv, NEW k, GetJob(k), UNCHANGED <<now, order, finished>>,
           \A j \in Jobs : phase[j] = "over" => phase'[j] = "over"
    PROVE  StoreInv'
<1>1. now \in Nat /\ TTL \in Nat /\ MaxTerminal \in Nat
  BY JobStoreAssumption DEF JobsInv, Shape
<1>2. \A j \in Jobs : \/ entries'[j] = entries[j]
                      \/ /\ entries'[j] = None
                         /\ IsTerminal(entries[j]) /\ now - entries[j].at >= TTL
  BY DEF GetJob, WithoutExpired
<1>3. entries' \in [Jobs -> Entry \cup {None}]
  BY DEF GetJob, WithoutExpired, StoreInv
<1>4. TerminalOf(entries') \in SUBSET TerminalOf(entries)
  BY <1>2 DEF TerminalOf, IsTerminal
<1>5. Cardinality(TerminalOf(entries')) <= MaxTerminal
  <2>1. Cardinality(TerminalOf(entries')) <= Cardinality(TerminalOf(entries))
    BY <1>4, TerminalIsFinite, FS_Subset
  <2>2. /\ Cardinality(TerminalOf(entries)) \in Nat /\ Cardinality(TerminalOf(entries')) \in Nat
        /\ Cardinality(TerminalOf(entries)) <= MaxTerminal
    BY TerminalIsFinite DEF StoreInv
  <2> QED BY <1>1, <2>1, <2>2
<1>6. ASSUME NEW j \in Jobs PROVE GivenUpForCause(j)'
  <2> SUFFICES ASSUME finished[j] # None, entries'[j] = None
               PROVE  now - finished[j] >= TTL
                      \/ Cardinality(Crowd(finished, j)) >= MaxTerminal
    BY DEF GivenUpForCause, Crowd
  <2>1. CASE entries[j] = None
    BY <2>1 DEF StoreInv, GivenUpForCause
  <2>2. CASE entries[j] # None
    BY <1>2, <2>2 DEF StoreInv
  <2> QED BY <2>1, <2>2
<1>7. /\ \A j \in Jobs : entries'[j] # None => order'[j] > 0
      /\ \A j \in Jobs : IsTerminal(entries'[j]) => finished'[j] = entries'[j].at
  BY <1>2 DEF StoreInv, IsTerminal
<1>8. /\ finished' \in [Jobs -> Nat \cup {None}]
      /\ \A j \in Jobs : finished'[j] # None => phase'[j] = "over"
      /\ OrderInv(order')
  BY DEF StoreInv
<1>9. OrderInv(order)'
  BY <1>8 DEF OrderInv
<1>10. (Cardinality(TerminalOf(entries)) <= MaxTerminal)'
  BY <1>5 DEF TerminalOf, IsTerminal
<1> QED BY <1>3, <1>6, <1>7, <1>8, <1>9, <1>10 DEF StoreInv, IsTerminal

\* set() keeps the store's invariant: what it evicts is crowded out by results
\* that are no older, one of which may be the one just set.
LEMMA SetKeepsStore ==
    ASSUME JobsInv, StoreInv, NEW k \in Jobs, NEW status \in Statuses,
           NEW result \in [gte : Int, rank : Int, size : Int] \cup {None},
           SetJob(k, status, result), now' = now, phase[k] # "over",
           \A j \in Jobs : phase[j] = "over" => phase'[j] = "over",
           \/ status \notin Terminal /\ finished' = finished
           \/ /\ status \in Terminal /\ finished' = [finished EXCEPT ![k] = now]
              /\ phase'[k] = "over"
    PROVE  StoreInv'
<1> DEFINE new == [status |-> status, result |-> result, at |-> now]
           store == [WithoutExpired(entries) EXCEPT ![k] = new]
<1>1. now \in Nat /\ TTL \in Nat /\ MaxTerminal \in Nat
  BY JobStoreAssumption DEF JobsInv, Shape
<1>2. new \in Entry /\ new # None /\ (IsTerminal(new) <=> status \in Terminal)
  BY <1>1, JobStoreAssumption DEF Entry, IsTerminal
<1>3. /\ store[k] = new /\ new.at = now
      /\ \A j \in Jobs : j # k =>
           \/ store[j] = entries[j]
           \/ store[j] = None /\ IsTerminal(entries[j]) /\ now - entries[j].at >= TTL
  BY DEF WithoutExpired
<1>4. store \in [Jobs -> Entry \cup {None}]
  BY <1>2 DEF WithoutExpired, StoreInv
<1>5. order' = Placed(k) /\ entries' = WithinTerminalCapacity(store, order')
  BY DEF SetJob
<1> HIDE DEF store, new
<1>6. /\ OrderInv(order') /\ order'[k] > 0
      /\ \A j \in Jobs : order[j] > 0 => order'[j] > 0
  BY <1>5, PlacedKeepsOrder DEF StoreInv
<1>7. \A j \in Jobs : store[j] # None => order'[j] > 0
  BY <1>3, <1>6 DEF StoreInv
<1>8. Sortable(store, order')
  <2>1. \A j \in TerminalOf(store) : store[j] \in Entry /\ order'[j] > 0
    BY <1>4, <1>7 DEF TerminalOf, IsTerminal
  <2>2. \A j \in TerminalOf(store) : store[j].at \in Nat
    BY <2>1 DEF Entry
  <2> QED BY <1>6, <2>1, <2>2 DEF Sortable, OrderInv, TerminalOf
<1>9. /\ entries' \in [Jobs -> Entry \cup {None}]
      /\ \A j \in Jobs : entries'[j] = store[j] \/ (entries'[j] = None /\ j \in TerminalOf(store))
  BY <1>4, <1>5 DEF WithinTerminalCapacity, TerminalOf
<1>10. finished[k] = None
  BY DEF StoreInv
<1>11. /\ finished' \in [Jobs -> Nat \cup {None}]
       /\ \A j \in Jobs : j # k => finished'[j] = finished[j]
       /\ finished'[k] = IF status \in Terminal THEN now ELSE None
  BY <1>1, <1>10 DEF StoreInv
<1>12. ASSUME NEW j \in TerminalOf(store)
       PROVE  finished'[j] = store[j].at /\ finished'[j] # None
  <2>1. j \in Jobs /\ IsTerminal(store[j]) /\ store[j].at \in Nat
    BY <1>8 DEF TerminalOf, Sortable
  <2>2. finished'[j] = store[j].at
    BY <1>2, <1>3, <1>11, <2>1 DEF StoreInv, IsTerminal
  <2> QED BY <2>1, <2>2, JobStoreAssumption
<1>13. ASSUME NEW j \in TerminalOf(store), entries'[j] = None
       PROVE  Cardinality(Crowd(finished', j)) >= MaxTerminal
  <2>1. /\ Cardinality(NoOlder(store, j)) \in Nat
        /\ Cardinality(NoOlder(store, j)) >= MaxTerminal
    BY <1>5, <1>8, <1>13, EvictedIsCrowdedOut
  <2>2. NoOlder(store, j) \in SUBSET Crowd(finished', j)
    BY <1>12 DEF NoOlder, Crowd, TerminalOf
  <2>3. Cardinality(NoOlder(store, j)) <= Cardinality(Crowd(finished', j))
    BY <2>2, CrowdIsFinite, FS_Subset
  <2>4. Cardinality(Crowd(finished', j)) \in Nat
    BY CrowdIsFinite
  <2> QED BY <1>1, <2>1, <2>3, <2>4
<1>14. ASSUME NEW j \in Jobs, finished'[j] # None, entries'[j] = None
       PROVE  now' - finished'[j] >= TTL \/ Cardinality(Crowd(finished', j)) >= MaxTerminal
  <2>1. CASE j \in TerminalOf(store)
    BY <1>13, <1>14, <2>1
  <2>2. CASE j \notin TerminalOf(store)
    <3>1. store[j] = None
      BY <1>9, <1>14, <2>2
    <3>2. j # k
      BY <1>2, <1>3, <3>1
    <3>3. finished[j] # None
      BY <1>11, <1>14, <3>2
    <3>4. CASE entries[j] = None
      <4>1. \A i \in Jobs : finished[i] # None => finished'[i] = finished[i]
        BY <1>10, <1>11
      <4> QED BY <1>1, <3>3, <3>4, <4>1, CauseRemains
    <3>5. CASE entries[j] # None
      BY <1>3, <1>11, <3>1, <3>2, <3>5 DEF StoreInv
    <3> QED BY <3>4, <3>5
  <2> QED BY <2>1, <2>2
<1>15. Cardinality(TerminalOf(entries')) <= MaxTerminal
  BY <1>5, <1>8, CapacityBound
<1>16. /\ \A j \in Jobs : entries'[j] # None => order'[j] > 0
       /\ \A j \in Jobs : IsTerminal(entries'[j]) => finished'[j] = entries'[j].at
  BY <1>7, <1>9, <1>12 DEF IsTerminal, TerminalOf
<1>17. \A j \in Jobs : finished'[j] # None => phase'[j] = "over"
  BY <1>11 DEF StoreInv
<1>18. OrderInv(order)'
  BY <1>6 DEF OrderInv
<1>19. (Cardinality(TerminalOf(entries)) <= MaxTerminal)'
  BY <1>15 DEF TerminalOf, IsTerminal
<1>20. ASSUME NEW j \in Jobs PROVE GivenUpForCause(j)'
  BY <1>14 DEF GivenUpForCause, Crowd
<1> QED BY <1>9, <1>11, <1>16, <1>17, <1>18, <1>19, <1>20 DEF StoreInv, IsTerminal
\* A step that touches neither the store nor the outcomes.
LEMMA IdleKeepsStore ==
    ASSUME JobsInv, StoreInv, UNCHANGED <<entries, order, phase, finished>>,
           now' \in Nat, now' >= now
    PROVE  StoreInv'
<1>1. now \in Nat
  BY DEF JobsInv, Shape
<1>2. ASSUME NEW j \in Jobs PROVE GivenUpForCause(j)'
  <2> SUFFICES ASSUME finished'[j] # None, entries'[j] = None
               PROVE  now' - finished'[j] >= TTL
                      \/ Cardinality(Crowd(finished', j)) >= MaxTerminal
    BY DEF GivenUpForCause, Crowd
  <2> QED BY <1>1, CauseRemains
<1> QED BY <1>2 DEF StoreInv, OrderInv, TerminalOf, IsTerminal

LEMMA StoreInvInit == Init => StoreInv
<1> SUFFICES ASSUME Init PROVE StoreInv
  OBVIOUS
<1>1. TerminalOf(entries) = {}
  BY DEF Init, TerminalOf, IsTerminal
<1>2. Cardinality(TerminalOf(entries)) <= MaxTerminal
  BY <1>1, FS_EmptySet, JobStoreAssumption
<1>3. OrderInv(order)
  <2>1. {k \in Jobs : order[k] > 0} = {}
    BY DEF Init
  <2> QED BY <2>1, FS_EmptySet DEF Init, OrderInv
<1> QED BY <1>2, <1>3 DEF Init, StoreInv, IsTerminal, GivenUpForCause

LEMMA RestartKeepsStore == StoreInv /\ Restart => StoreInv'
<1> SUFFICES ASSUME Restart PROVE StoreInv'
  OBVIOUS
<1>1. {j \in Jobs : IsTerminal(entries'[j])} = {}
  BY DEF Restart, IsTerminal
<1>2. (Cardinality(TerminalOf(entries)) <= MaxTerminal)'
  BY <1>1, FS_EmptySet, JobStoreAssumption DEF TerminalOf, IsTerminal
<1>3. OrderInv(order)'
  <2>1. {k \in Jobs : order'[k] > 0} = {}
    BY DEF Restart
  <2> QED BY <2>1, FS_EmptySet DEF Restart, OrderInv
<1> QED BY <1>2, <1>3 DEF Restart, StoreInv, IsTerminal, GivenUpForCause

LEMMA StoreInvStep ==
    ASSUME JobsInv, StoreInv, [Next]_vars
    PROVE  StoreInv'
<1>0. /\ phase = [j \in Jobs |-> phase[j]]
      /\ "pending" \in Statuses /\ "running" \in Statuses /\ "error" \in Statuses
      /\ "done" \in Statuses
      /\ "pending" \notin Terminal /\ "running" \notin Terminal
      /\ "error" \in Terminal /\ "done" \in Terminal
      /\ now \in Nat
  BY DEF JobsInv, Shape, Statuses, Active, Terminal
<1>1. ASSUME NEW k \in Jobs, StartPermutationTest(k) PROVE StoreInv'
  <2>1. /\ SetJob(k, "pending", None) /\ now' = now /\ finished' = finished
        /\ phase[k] # "over"
        /\ \A j \in Jobs : phase[j] = "over" => phase'[j] = "over"
    BY <1>0, <1>1 DEF StartPermutationTest, At
  <2> QED BY <1>0, <2>1, SetKeepsStore
<1>2. ASSUME NEW k \in Jobs, RespondAccepted(k) PROVE StoreInv'
  <2>1. /\ GetJob(k) /\ UNCHANGED <<now, order, finished>>
        /\ \A j \in Jobs : phase[j] = "over" => phase'[j] = "over"
    BY <1>0, <1>2 DEF RespondAccepted, At
  <2> QED BY <2>1, GetKeepsStore
<1>3. ASSUME NEW k \in Jobs, BeginTask(k) PROVE StoreInv'
  <2>1. /\ SetJob(k, "running", None) /\ now' = now /\ finished' = finished
        /\ phase[k] # "over"
        /\ \A j \in Jobs : phase[j] = "over" => phase'[j] = "over"
    BY <1>0, <1>3 DEF BeginTask, At
  <2> QED BY <1>0, <2>1, SetKeepsStore
<1>4. ASSUME NEW k \in Jobs, phase[k] = "running", SetError(k) PROVE StoreInv'
  <2>1. /\ SetJob(k, "error", None) /\ now' = now
        /\ finished' = [finished EXCEPT ![k] = now]
        /\ phase[k] # "over" /\ phase'[k] = "over"
        /\ \A j \in Jobs : phase[j] = "over" => phase'[j] = "over"
    BY <1>0, <1>4 DEF SetError
  <2> QED BY <1>0, <2>1, SetKeepsStore
<1>5. ASSUME NEW k \in Jobs, NEW s \in Seeds, CollectResult(k, s) PROVE StoreInv'
  <2>1. UNCHANGED <<now, entries, order, phase, finished>>
    BY <1>5 DEF CollectResult
  <2> QED BY <1>0, <2>1, IdleKeepsStore
<1>6. ASSUME NEW k \in Jobs, SetDone(k) \/ RestartSequentially(k) PROVE StoreInv'
  <2> DEFINE result == PermutationResult(EachSeedOnce)
  <2>1. SetJob(k, "done", result)
    <3>1. CASE SetDone(k)
      BY <3>1, CollectedIsEachSeedOnce DEF SetDone, JobsInv
    <3>2. CASE RestartSequentially(k)
      <4>1. samples' = [samples EXCEPT ![k] = EachSeedOnce]
            /\ SetJob(k, "done", PermutationResult(samples'[k]))
        BY <3>2 DEF RestartSequentially, EachSeedOnce
      <4>2. samples'[k] = EachSeedOnce
        BY <4>1 DEF JobsInv, Shape
      <4> QED BY <4>1, <4>2
    <3> QED BY <1>6, <3>1, <3>2
  <2>2. result \in [gte : Int, rank : Int, size : Int] \cup {None}
    BY FullPassResult
  <2>3. /\ now' = now /\ finished' = [finished EXCEPT ![k] = now]
        /\ phase[k] # "over" /\ phase'[k] = "over"
        /\ \A j \in Jobs : phase[j] = "over" => phase'[j] = "over"
    BY <1>0, <1>6 DEF SetDone, RestartSequentially, At
  <2> HIDE DEF result
  <2> QED BY <1>0, <2>1, <2>2, <2>3, SetKeepsStore
<1>7. ASSUME NEW k \in Jobs, PollPermutationTest(k) PROVE StoreInv'
  <2>1. GetJob(k) /\ UNCHANGED <<now, order, phase, finished>>
    BY <1>7 DEF PollPermutationTest
  <2> QED BY <2>1, GetKeepsStore
<1>8. CASE Tick
  <2>1. UNCHANGED <<entries, order, phase, finished>> /\ now' = now + 1
    BY <1>8 DEF Tick
  <2>2. now' \in Nat /\ now' >= now
    BY <1>0, <2>1
  <2> QED BY <2>1, <2>2, IdleKeepsStore
<1>9. CASE UNCHANGED vars
  <2>1. UNCHANGED <<now, entries, order, phase, finished>>
    BY <1>9 DEF vars
  <2> QED BY <1>0, <2>1, IdleKeepsStore
<1>10. ASSUME NEW k \in Jobs, Task(k) PROVE StoreInv'
  BY <1>2, <1>3, <1>4, <1>5, <1>6, <1>10
     DEF Task, PreparationFails, WorkerFails, SequentialFails
<1>11. ASSUME NEW k \in Jobs, StartPermutationTest(k) \/ Task(k) \/ PollPermutationTest(k)
       PROVE  StoreInv'
  BY <1>1, <1>7, <1>10, <1>11
<1> QED BY <1>8, <1>9, <1>11, RestartKeepsStore DEF Next

LEMMA StoreInvHolds == Spec => []StoreInv
<1>1. JobsInv /\ StoreInv /\ [Next]_vars => StoreInv'
  BY StoreInvStep
<1> QED BY JobsInvHolds, StoreInvInit, <1>1, PTL DEF Spec

\* A result leaves the store only because it reached terminal_ttl_seconds or
\* because max_terminal_jobs others finished no earlier, for every interleaving
\* of set, get, expiry and eviction; and the store holds no more than
\* max_terminal_jobs of them.
THEOREM ResultsLeaveForCause == Spec => []ResultsKeptUntilOldOrCrowded
<1>1. StoreInv => ResultsKeptUntilOldOrCrowded
  BY DEF StoreInv, ResultsKeptUntilOldOrCrowded, GivenUpForCause, Crowd, TerminalOf
<1> QED BY StoreInvHolds, <1>1, PTL

\* The store, its jobs and its clients' knowledge keep their types: an entry is
\* None or a _JobEntry whose result is None or a full PermutationResult.
THEOREM JobsTypeCorrect == Spec => []TypeOK
<1>1. JobsInv /\ StoreInv => TypeOK
  <2> SUFFICES ASSUME JobsInv, StoreInv PROVE TypeOK
    OBVIOUS
  <2>1. phase \in [Jobs -> {"new", "posted", "raised", "queued", "running", "over", "lost"}]
    BY DEF JobsInv, Shape, PhaseInv
  <2>2. samples \in [Jobs -> [Seeds -> Nat]]
    BY DEF JobsInv, Shape, SampleInv
  <2>3. seen \in [Jobs -> Statuses \cup {"nothing", "404"}]
    BY DEF JobsInv, Shape, SeenInv, Statuses
  <2> QED BY <2>1, <2>2, <2>3 DEF TypeOK, StoreInv, OrderInv, JobsInv, Shape
<1> QED BY JobsInvHolds, StoreInvHolds, <1>1, PTL

-----------------------------------------------------------------------------
(* The promise to the client.                                              *)

LEMMA StagesAre ==
    /\ Service!Outcomes = Terminal
    /\ Service!Stages = {"unknown", "pending", "running", "gone", "done", "error"}
BY DEF Service!Outcomes, Service!Stages, Terminal

\* What JobsInv says of a job's life.
LifeOK ==
    \A j \in Jobs :
      /\ Life[j] \in Service!Stages
      /\ Life[j] = "unknown" <=> phase[j] = "new"
      /\ phase[j] \in {"posted", "queued"} => Life[j] = "pending"
      /\ phase[j] = "running" => Life[j] = "running"
      /\ phase[j] = "over" => Life[j] \in Terminal \cup {"gone"}
      /\ phase[j] = "lost" => Life[j] = "gone"
      /\ phase[j] # "new" => Life[j] = IF entries[j] = None THEN "gone" ELSE entries[j].status

LEMMA LifeFacts == JobsInv => LifeOK
<1> SUFFICES ASSUME JobsInv, NEW j \in Jobs
             PROVE  /\ Life[j] \in Service!Stages
                    /\ Life[j] = "unknown" <=> phase[j] = "new"
                    /\ phase[j] \in {"posted", "queued"} => Life[j] = "pending"
                    /\ phase[j] = "running" => Life[j] = "running"
                    /\ phase[j] = "over" => Life[j] \in Terminal \cup {"gone"}
                    /\ phase[j] = "lost" => Life[j] = "gone"
                    /\ phase[j] # "new" =>
                         Life[j] = IF entries[j] = None THEN "gone" ELSE entries[j].status
  BY DEF LifeOK
<1>1. Life[j] = IF phase[j] = "new" THEN "unknown"
                ELSE IF entries[j] = None THEN "gone" ELSE entries[j].status
  BY DEF Life
<1>2. PhaseInv(j)
  BY DEF JobsInv
<1> QED BY <1>1, <1>2, StagesAre DEF PhaseInv, Terminal

LEMMA LifeFactsNext == JobsInv' => LifeOK'
BY LifeFacts, PTL

\* What becomes of a job that a step does not move.
Remains(j) == Life'[j] = Life[j] \/ (Life[j] \in Service!Outcomes /\ Life'[j] = "gone")

LEMMA OthersRemain ==
    ASSUME JobsInv, NEW j \in Jobs, phase'[j] = phase[j],
           entries'[j] = entries[j] \/ (entries'[j] = None /\ IsTerminal(entries[j]))
    PROVE  Remains(j)
<1>1. /\ Life[j] = IF phase[j] = "new" THEN "unknown"
                   ELSE IF entries[j] = None THEN "gone" ELSE entries[j].status
      /\ Life'[j] = IF phase'[j] = "new" THEN "unknown"
                    ELSE IF entries'[j] = None THEN "gone" ELSE entries'[j].status
  BY DEF Life
<1>2. phase[j] = "new" => entries[j] = None
  BY DEF JobsInv, PhaseInv
<1> QED BY <1>1, <1>2, StagesAre DEF Remains, IsTerminal

\* A step that moves one job and forgets some outcomes.
LEMMA OneMoves ==
    ASSUME LifeOK, LifeOK', NEW k \in Jobs, NEW stage \in Service!Stages,
           \A j \in Jobs : j # k => Remains(j),
           Life'[k] = stage \/ (stage \in Service!Outcomes /\ Life'[k] = "gone")
    PROVE  Life' \in Service!Kept([Life EXCEPT ![k] = stage])
<1>1. Life' \in [Jobs -> Service!Stages]
  <2>1. \A j \in Jobs : Life'[j] \in Service!Stages
    BY StagesAre DEF LifeOK
  <2>2. Life' = [j \in Jobs |-> Life'[j]]
    BY DEF Life
  <2> QED BY <2>1, <2>2
<1>2. \A j \in Jobs : [Life EXCEPT ![k] = stage][j] = IF j = k THEN stage ELSE Life[j]
  BY DEF Life
<1>3. \A j \in Jobs : LET old == [Life EXCEPT ![k] = stage]
                      IN  Life'[j] = old[j] \/ (old[j] \in Service!Outcomes /\ Life'[j] = "gone")
  BY <1>2 DEF Remains
<1> QED BY <1>1, <1>3 DEF Service!Kept

\* A step that moves none.
LEMMA NoneMoves ==
    ASSUME LifeOK', \A j \in Jobs : Remains(j)
    PROVE  Life' \in Service!Kept(Life)
<1>1. Life' \in [Jobs -> Service!Stages]
  <2>1. \A j \in Jobs : Life'[j] \in Service!Stages
    BY StagesAre DEF LifeOK
  <2>2. Life' = [j \in Jobs |-> Life'[j]]
    BY DEF Life
  <2> QED BY <2>1, <2>2
<1> QED BY <1>1 DEF Service!Kept, Remains

LEMMA StartPosts ==
    ASSUME JobsInv, JobsInv', NEW k \in Jobs, StartPermutationTest(k)
    PROVE  Service!Post(k)
<1>1. LifeOK /\ LifeOK' /\ Shape
  BY LifeFacts, LifeFactsNext DEF JobsInv
<1>2. SetJob(k, "pending", None) /\ phase[k] = "new" /\ seen' = seen
      /\ phase' = [phase EXCEPT ![k] = "posted"]
  BY DEF StartPermutationTest, At
<1>3. \A j \in Jobs : phase'[j] = IF j = k THEN "posted" ELSE phase[j]
  BY <1>1, <1>2 DEF Shape
<1>4. ASSUME NEW j \in Jobs, j # k PROVE Remains(j)
  BY <1>1, <1>2, <1>3, <1>4, SetKeepsActive, OthersRemain
<1>5. Life[k] = "unknown" /\ Life'[k] = "pending"
  BY <1>1, <1>2, <1>3 DEF LifeOK
<1>6. Life' \in Service!Kept([Life EXCEPT ![k] = "pending"])
  BY <1>1, <1>4, <1>5, OneMoves, StagesAre
<1> QED BY <1>2, <1>5, <1>6 DEF Service!Post

LEMMA BeginStarts ==
    ASSUME JobsInv, JobsInv', NEW k \in Jobs, BeginTask(k)
    PROVE  Service!Start(k)
<1>1. LifeOK /\ LifeOK' /\ Shape
  BY LifeFacts, LifeFactsNext DEF JobsInv
<1>2. SetJob(k, "running", None) /\ phase[k] = "queued" /\ seen' = seen
      /\ phase' = [phase EXCEPT ![k] = "running"]
  BY DEF BeginTask, At
<1>3. \A j \in Jobs : phase'[j] = IF j = k THEN "running" ELSE phase[j]
  BY <1>1, <1>2 DEF Shape
<1>4. ASSUME NEW j \in Jobs, j # k PROVE Remains(j)
  BY <1>1, <1>2, <1>3, <1>4, SetKeepsActive, OthersRemain
<1>5. Life[k] = "pending" /\ seen[k] = "pending" /\ Life'[k] = "running"
  BY <1>1, <1>2, <1>3 DEF LifeOK, JobsInv, PhaseInv
<1>6. Life' \in Service!Kept([Life EXCEPT ![k] = "running"])
  BY <1>1, <1>4, <1>5, OneMoves, StagesAre
<1> QED BY <1>2, <1>5, <1>6 DEF Service!Start

\* However the task ends; its outcome may be the one that is evicted at once.
LEMMA OutcomeEnds ==
    ASSUME JobsInv, JobsInv', NEW k \in Jobs, NEW outcome \in Terminal, NEW result,
           phase[k] = "running", phase' = [phase EXCEPT ![k] = "over"],
           SetJob(k, outcome, result), seen' = seen
    PROVE  Service!End(k)
<1>1. LifeOK /\ LifeOK' /\ Shape
  BY LifeFacts, LifeFactsNext DEF JobsInv
<1>2. \A j \in Jobs : phase'[j] = IF j = k THEN "over" ELSE phase[j]
  BY <1>1 DEF Shape
<1>3. ASSUME NEW j \in Jobs, j # k PROVE Remains(j)
  BY <1>1, <1>2, <1>3, SetKeepsActive, OthersRemain
<1>4. entries'[k] = None \/ entries'[k].status = outcome
  <2>1. \/ entries'[k] = [status |-> outcome, result |-> result, at |-> now]
        \/ entries'[k] = None
    BY <1>1, SetKeepsActive
  <2> QED BY <2>1
<1>5. Life'[k] = outcome \/ Life'[k] = "gone"
  BY <1>1, <1>2, <1>4 DEF LifeOK
<1>6. Life' \in Service!Kept([Life EXCEPT ![k] = outcome])
  BY <1>1, <1>3, <1>5, OneMoves, StagesAre DEF Terminal
<1>7. Life[k] = "running"
  BY <1>1 DEF LifeOK
<1> QED BY <1>6, <1>7, StagesAre DEF Service!End

\* The accepted answer and every poll.
LEMMA GetTells ==
    ASSUME JobsInv, JobsInv', NEW k \in Jobs, GetJob(k), phase[k] # "new",
           \A j \in Jobs : j # k => phase'[j] = phase[j], phase'[k] # "new",
           phase[k] = "posted" => entries'[k] # None,
           seen' = [seen EXCEPT ![k] = IF entries'[k] = None THEN "404" ELSE entries'[k].status]
    PROVE  Service!Tell(k)
<1>1. LifeOK /\ LifeOK' /\ Shape
  BY LifeFacts, LifeFactsNext DEF JobsInv
<1>2. entries'[k] = entries[k] \/ (entries'[k] = None /\ IsTerminal(entries[k]))
  BY GetKeepsActive
<1>3. /\ Life[k] = IF entries[k] = None THEN "gone" ELSE entries[k].status
      /\ Life'[k] = IF entries'[k] = None THEN "gone" ELSE entries'[k].status
  BY <1>1 DEF LifeOK
<1>4. ASSUME NEW j \in Jobs PROVE Remains(j)
  <2>1. CASE j # k
    BY <2>1, GetKeepsActive, OthersRemain
  <2>2. CASE j = k
    BY <1>2, <1>3, <2>2, StagesAre DEF Remains, IsTerminal
  <2> QED BY <2>1, <2>2
<1>5. Life' \in Service!Kept(Life)
  BY <1>1, <1>4, NoneMoves
<1>6. Life[k] # "unknown"
  BY <1>1 DEF LifeOK
<1>7. seen[k] = "nothing" => Life'[k] \in {"pending", "gone"}
  <2> SUFFICES ASSUME seen[k] = "nothing" PROVE Life'[k] \in {"pending", "gone"}
    OBVIOUS
  <2>1. phase[k] \in {"posted", "lost"} \/ Life[k] = "gone"
    BY <1>1, StagesAre DEF JobsInv, PhaseInv, Active, Terminal, LifeOK
  <2>2. Life[k] \in {"pending", "gone"}
    BY <1>1, <2>1 DEF LifeOK
  <2> QED BY <1>4, <2>2, StagesAre DEF Remains, Terminal
<1>8. (IF entries'[k] = None THEN "404" ELSE entries'[k].status)
        = (IF Life'[k] = "gone" THEN "404" ELSE Life'[k])
  <2>1. entries'[k] # None => entries'[k].status # "gone"
    BY <1>3, <1>2, <1>1, StagesAre DEF JobsInv, PhaseInv, Terminal
  <2> QED BY <1>3, <2>1
<1> QED BY <1>5, <1>6, <1>7, <1>8 DEF Service!Tell

LEMMA RestartLoses ==
    ASSUME JobsInv, JobsInv', Restart
    PROVE  Service!Lose
<1>1. LifeOK /\ LifeOK'
  BY LifeFacts, LifeFactsNext
<1>2. \A j \in Jobs : phase'[j] = IF phase[j] = "new" THEN "new" ELSE "lost"
  BY DEF Restart
<1>3. \A j \in Jobs : Life'[j] = IF Life[j] = "unknown" THEN "unknown" ELSE "gone"
  BY <1>1, <1>2 DEF LifeOK
<1>4. Life' = [j \in Jobs |-> Life'[j]]
  BY DEF Life
<1> QED BY <1>3, <1>4 DEF Service!Lose, Restart

\* The API keeps its promise for any number of jobs, capacity and TTL: a task
\* starts only after the accepted answer, an outcome is final, eviction and expiry
\* take outcomes only, and every poll tells what the job is.
THEOREM JobsAreServed == Spec => ServesJobs
<1>1. Init => Service!Init
  BY DEF Init, Service!Init, Life
<1>2. JobsInv /\ JobsInv' /\ [Next]_vars => [Service!Next]_<<Life, seen>>
  <2> SUFFICES ASSUME JobsInv, JobsInv', [Next]_vars
               PROVE  [Service!Next]_<<Life, seen>>
    OBVIOUS
  <2> DEFINE Served == Service!Next \/ UNCHANGED <<Life, seen>>
  <2>1. ASSUME NEW j \in Jobs, StartPermutationTest(j) PROVE Served
    BY <2>1, StartPosts DEF Service!Next
  <2>2. ASSUME NEW j \in Jobs, RespondAccepted(j) PROVE Served
    <3>1. /\ GetJob(j) /\ phase[j] = "posted"
          /\ phase' = [phase EXCEPT ![j] = IF entries'[j] = None THEN "raised" ELSE "queued"]
          /\ seen' = [seen EXCEPT ![j] = IF entries'[j] = None THEN @ ELSE entries'[j].status]
      BY <2>2 DEF RespondAccepted, At
    <3>2. entries'[j] # None
      BY <3>1, GetKeepsActive DEF JobsInv, PhaseInv, IsTerminal, Terminal
    <3>3. phase'[j] # "new" /\ \A i \in Jobs : i # j => phase'[i] = phase[i]
      BY <3>1 DEF JobsInv, Shape
    <3>4. seen' = [seen EXCEPT ![j] = IF entries'[j] = None THEN "404" ELSE entries'[j].status]
      BY <3>1, <3>2
    <3> QED BY <3>1, <3>2, <3>3, <3>4, GetTells DEF Service!Next
  <2>3. ASSUME NEW j \in Jobs, BeginTask(j) PROVE Served
    BY <2>3, BeginStarts DEF Service!Next
  <2>4. ASSUME NEW j \in Jobs, PreparationFails(j) \/ WorkerFails(j) \/ SequentialFails(j)
        PROVE Served
    <3>1. /\ phase[j] = "running" /\ phase' = [phase EXCEPT ![j] = "over"]
          /\ SetJob(j, "error", None) /\ seen' = seen /\ "error" \in Terminal
      BY <2>4 DEF PreparationFails, WorkerFails, SequentialFails, SetError, Terminal
    <3> QED BY <3>1, OutcomeEnds DEF Service!Next
  <2>5. ASSUME NEW j \in Jobs, NEW s \in Seeds, CollectResult(j, s) PROVE Served
    BY <2>5 DEF CollectResult, Life
  <2>6. ASSUME NEW j \in Jobs, SetDone(j) \/ RestartSequentially(j) PROVE Served
    <3>1. PICK result :
            /\ phase[j] = "running" /\ phase' = [phase EXCEPT ![j] = "over"]
            /\ SetJob(j, "done", result) /\ seen' = seen
      BY <2>6 DEF SetDone, RestartSequentially, At
    <3>2. "done" \in Terminal
      BY DEF Terminal
    <3> QED BY <3>1, <3>2, OutcomeEnds DEF Service!Next
  <2>7. ASSUME NEW j \in Jobs, PollPermutationTest(j) PROVE Served
    <3>1. /\ GetJob(j) /\ phase[j] \notin {"new", "posted"} /\ phase' = phase
          /\ seen' = [seen EXCEPT ![j] =
                        IF entries'[j] = None THEN "404" ELSE entries'[j].status]
      BY <2>7 DEF PollPermutationTest
    <3> QED BY <3>1, GetTells DEF Service!Next
  <2>8. CASE Tick \/ UNCHANGED vars
    BY <2>8 DEF Tick, vars, Life
  <2>9. CASE Restart
    BY <2>9, RestartLoses DEF Service!Next
  <2> HIDE DEF Served
  <2>10. ASSUME NEW j \in Jobs, Task(j) PROVE Served
    BY <2>2, <2>3, <2>4, <2>5, <2>6, <2>10 DEF Task
  <2>11. Served
    BY <2>1, <2>7, <2>8, <2>9, <2>10 DEF Next, Served
  <2> QED BY <2>11 DEF Served
<1> QED BY <1>1, <1>2, JobsInvHolds, PTL DEF Spec, ServesJobs, Service!Spec

=============================================================================
