-------------------------- MODULE GenerationStore --------------------------
(***************************************************************************)
(* The immutable generation cache of one namespace                         *)
(* (src/src/data/store.py) under concurrent acquisitions                   *)
(* (src/src/data/acquisition.py), archive maintenance, cleanup, failing    *)
(* file operations and crashes.  Each acquirer is a process that runs one  *)
(* acquisition; its name stands for its acquisition id and, the            *)
(* identifiers being fresh, for the generation it publishes.               *)
(*                                                                         *)
(* A row of a frame is the acquisition that fetched it, None when the      *)
(* session has no row.                                                     *)
(***************************************************************************)
EXTENDS Naturals, FiniteSets

CONSTANTS
    Acquirers,
    Days,               \* trading sessions
    Ranges,             \* the sets of sessions an acquisition may plan to fetch
    PartialBatches,     \* a provider may leave sessions of a range out
    Unlocked,           \* acquirers whose lock excludes nobody
    Faults,             \* the operations that may fail, and "crash"
    CleanupAlone,       \* cleanup only runs while no acquisition does
    MaxConflicts,       \* rebases publish_generation tries, 3 in the code
    MaxCleanups,        \* bound on cleanup_generations calls
    None

FaultKinds == {"fetch", "validate", "write", "sync", "archive", "pin", "rmtree", "crash"}

\* The contents of CURRENT.json that matter here.
Pointer == [generation : Acquirers, previous : Acquirers \cup {None}]

ASSUME StoreAssumption ==
    /\ None \notin Acquirers /\ None \notin Pointer
    /\ Ranges \subseteq (SUBSET Days) \ {{}}
    /\ PartialBatches \in BOOLEAN /\ CleanupAlone \in BOOLEAN
    /\ Unlocked \subseteq Acquirers
    /\ Faults \subseteq FaultKinds
    /\ MaxConflicts \in Nat \ {0}
    /\ MaxCleanups \in Nat

VARIABLES
    \* The file system.
    pointer,    \* CURRENT.json: [generation, previous], or None
    dirs,       \* each generation directory: "absent", "partial" or "complete"
    pins,       \* generations with a pin file
    archive,    \* each acquisition's archived report: "none", "success", "failed"
    lock,       \* holder of .publish.lock, or None
    \* The acquirers.
    pc,         \* where each acquirer is
    base,       \* expected_base: the generation its frame was built on
    plan,       \* replace_ranges
    frames,     \* the candidate frame; once its directory is made, the stored one
    latest,     \* latest_id read under the lock
    attempt,    \* conflict_number
    result,     \* what acquire returned: "ok", "deferred", "unpinned", "failed"
    committed,  \* history: acquisitions whose generation became CURRENT
    \* cleanup_generations.
    cleaner,    \* its program counter
    active,     \* current.generation_id as it read it
    doomed,     \* listed generations it does not retain
    cleanups

storeVars == <<pointer, dirs, pins, archive, lock>>
cleanVars == <<cleaner, active, doomed, cleanups>>
acqVars == <<pc, base, plan, frames, latest, attempt, result, committed>>
vars == <<storeVars, acqVars, cleanVars>>

Frame == [Days -> Acquirers \cup {None}]

EmptyFrame == [d \in Days |-> None]

Init ==
    /\ pointer = None
    /\ dirs = [a \in Acquirers |-> "absent"]
    /\ pins = {}
    /\ archive = [a \in Acquirers |-> "none"]
    /\ lock = None
    /\ pc = [a \in Acquirers |-> "idle"]
    /\ base = [a \in Acquirers |-> None]
    /\ plan = [a \in Acquirers |-> {}]
    /\ frames = [a \in Acquirers |-> EmptyFrame]
    /\ latest = [a \in Acquirers |-> None]
    /\ attempt = [a \in Acquirers |-> 1]
    /\ result = [a \in Acquirers |-> "none"]
    /\ committed = {}
    /\ cleaner = "idle"
    /\ active = None
    /\ doomed = {}
    /\ cleanups = 0

-----------------------------------------------------------------------------
(* Reading.                                                                *)

CurrentId == IF pointer = None THEN None ELSE pointer.generation

\* read_generation: FULL_HIT when CURRENT leads to a complete generation,
\* INVALIDATED when it leads to anything else, MISS without a pointer.
CacheStatus ==
    IF pointer = None THEN "miss"
    ELSE IF dirs[pointer.generation] = "complete" THEN "hit" ELSE "invalidated"

CurrentFrame == IF CacheStatus = "hit" THEN frames[pointer.generation] ELSE EmptyFrame

\* _pinned_embedded_manifest: the report inside a generation can be read.
EmbeddedManifest(g) == dirs[g] = "complete"

\* _load_pin and _current_embedded_manifests: the reports a pin and CURRENT
\* lead to.
PinnedManifest(a) == a \in pins /\ EmbeddedManifest(a)

CurrentManifest(a) == a = CurrentId /\ EmbeddedManifest(a)

\* lookup_manifest: the archive, else a pinned generation's embedded manifest,
\* else that of CURRENT.
Discoverable(a) ==
    \/ archive[a] # "none"
    \/ PinnedManifest(a)
    \/ CurrentManifest(a) /\ a \notin pins

-----------------------------------------------------------------------------
(* An acquisition.                                                         *)

Goto(a, from, to) == pc[a] = from /\ pc' = [pc EXCEPT ![a] = to]

Release(a) == lock' = IF lock = a THEN None ELSE lock

\* Leave publish_generation with an exception.
Raise(a, from) == Goto(a, from, "failing") /\ Release(a)

\* ManifestRepository.archive: writes once, repeats what is there, refuses a
\* different report under the same identifier.
ArchiveAs(a, status) ==
    archive' = [archive EXCEPT ![a] = IF @ = "none" THEN status ELSE @]

\* A fresh cached range needs no fetch: its report is archived at once.
FullHit(a) ==
    /\ ~CleanupAlone \/ cleaner = "idle"
    /\ CacheStatus = "hit"
    /\ Goto(a, "idle", "done")
    /\ \/ ArchiveAs(a, "success") /\ result' = [result EXCEPT ![a] = "ok"]
       \/ "archive" \in Faults /\ UNCHANGED archive /\ result' = [result EXCEPT ![a] = "failed"]
    /\ UNCHANGED <<pointer, dirs, pins, lock, base, plan, frames, latest, attempt, committed, cleanVars>>

\* The calendar refuses the request, or a fresh cache fails the quality policy.
PlanFails(a) ==
    /\ "validate" \in Faults
    /\ ~CleanupAlone \/ cleaner = "idle"
    /\ Goto(a, "idle", "failing")
    /\ UNCHANGED <<storeVars, base, plan, frames, latest, attempt, result, committed, cleanVars>>

\* acquire reads the cache, or ignores it (use_cache=False), and plans.  The
\* plan is the one it ends up with: changed corporate actions extend it.
ReadCache(a) ==
    /\ ~CleanupAlone \/ cleaner = "idle"
    /\ Goto(a, "idle", "fetching")
    /\ \E range \in Ranges, useCache \in BOOLEAN :
         LET hit == useCache /\ CacheStatus = "hit"
         IN  /\ plan' = [plan EXCEPT ![a] = range]
             /\ base' = [base EXCEPT ![a] = IF hit THEN CurrentId ELSE None]
             /\ frames' = [frames EXCEPT ![a] = IF hit THEN CurrentFrame ELSE EmptyFrame]
    /\ UNCHANGED <<storeVars, latest, attempt, result, committed, cleanVars>>

\* The batches a provider may answer for a range; missing sessions are judged
\* only on the assembled request.
Batches(range) == IF PartialBatches THEN (SUBSET range) \ {{}} ELSE {range}

\* _fetch_range for every planned range, and _merge over the cached frame.
Fetch(a) ==
    /\ Goto(a, "fetching", "fetched")
    /\ \E batch \in Batches(plan[a]) :
         frames' = [frames EXCEPT ![a] = [d \in Days |-> IF d \in batch THEN a ELSE @[d]]]
    /\ UNCHANGED <<storeVars, base, plan, latest, attempt, result, committed, cleanVars>>

\* Every provider failed, or the data is unusable.
FetchFails(a) ==
    /\ "fetch" \in Faults
    /\ Goto(a, "fetching", "failing")
    /\ UNCHANGED <<storeVars, base, plan, frames, latest, attempt, result, committed, cleanVars>>

\* Enter the publication lock.
AcquireLock(a) ==
    /\ a \in Unlocked \/ lock = None
    /\ Goto(a, "fetched", "locked")
    /\ lock' = IF a \in Unlocked THEN lock ELSE a
    /\ UNCHANGED <<pointer, dirs, pins, archive, base, plan, frames, latest, attempt,
                   result, committed, cleanVars>>

\* Mutant: the candidate is published as it was assembled, without a rebase.
RebasedNever(current, candidate, range) == candidate

\* _merge_canonical over _rows_in_ranges: inside the planned ranges the
\* candidate's rows win, elsewhere the latest generation's.
Rebased(current, candidate, range) ==
    [d \in Days |-> IF d \in range /\ candidate[d] # None THEN candidate[d] ELSE current[d]]

\* The candidate rebased onto the latest generation, unless that is its base.
\* A stored frame never changes, so it does not matter when this is evaluated.
Assembled(a) ==
    IF latest[a] # None /\ base[a] # latest[a]
    THEN Rebased(frames[latest[a]], frames[a], plan[a]) ELSE frames[a]

\* Read the latest generation and assemble the frame to publish.
Assemble(a) ==
    /\ CacheStatus # "invalidated"
    /\ Goto(a, "locked", "assembled")
    /\ latest' = [latest EXCEPT ![a] = CurrentId]
    /\ UNCHANGED <<storeVars, base, plan, frames, attempt, result, committed, cleanVars>>

\* CURRENT is invalid, or the assembled frame fails validation.
AssembleFails(a) ==
    /\ CacheStatus = "invalidated" \/ "validate" \in Faults
    /\ Raise(a, "locked")
    /\ UNCHANGED <<pointer, dirs, pins, archive, base, plan, frames, latest, attempt,
                   result, committed, cleanVars>>

\* Mutant: the retry takes the observed generation for its base.
ConflictTrustsObserved(a) ==
    /\ CurrentId # latest[a]
    /\ \/ attempt[a] < MaxConflicts /\ Goto(a, "assembled", "fetched")
       \/ attempt[a] = MaxConflicts /\ Goto(a, "assembled", "failing")
    /\ Release(a)
    /\ base' = [base EXCEPT ![a] = CurrentId]
    /\ attempt' = [attempt EXCEPT ![a] = IF @ < MaxConflicts THEN @ + 1 ELSE @]
    /\ UNCHANGED <<pointer, dirs, pins, archive, plan, frames, latest, result, committed, cleanVars>>

\* Mutant: the retry starts over without leaving the lock.
ConflictKeepsLock(a) ==
    /\ CurrentId # latest[a]
    /\ \/ attempt[a] < MaxConflicts /\ Goto(a, "assembled", "fetched")
       \/ attempt[a] = MaxConflicts /\ Goto(a, "assembled", "failing")
    /\ base' = [base EXCEPT ![a] = latest[a]]
    /\ attempt' = [attempt EXCEPT ![a] = IF @ < MaxConflicts THEN @ + 1 ELSE @]
    /\ UNCHANGED <<storeVars, plan, frames, latest, result, committed, cleanVars>>

\* CURRENT moved although the lock is held: leave the lock and start over on
\* what was read, MaxConflicts times at most.
Conflict(a) ==
    /\ CurrentId # latest[a]
    /\ \/ attempt[a] < MaxConflicts /\ Goto(a, "assembled", "fetched")
       \/ attempt[a] = MaxConflicts /\ Goto(a, "assembled", "failing")
    /\ Release(a)
    /\ base' = [base EXCEPT ![a] = latest[a]]
    /\ attempt' = [attempt EXCEPT ![a] = IF @ < MaxConflicts THEN @ + 1 ELSE @]
    /\ UNCHANGED <<pointer, dirs, pins, archive, plan, frames, latest, result, committed, cleanVars>>

\* _publish_locked makes the generation directory for the assembled frame,
MakeDirectory(a) ==
    /\ CurrentId = latest[a]
    /\ Goto(a, "assembled", "writing")
    /\ dirs' = [dirs EXCEPT ![a] = "partial"]
    /\ frames' = [frames EXCEPT ![a] = Assembled(a)]
    /\ UNCHANGED <<pointer, pins, archive, lock, base, plan, latest, attempt,
                   result, committed, cleanVars>>

\* writes and syncs the three artifacts,
WriteArtifacts(a) ==
    /\ dirs[a] = "partial"
    /\ Goto(a, "writing", "written")
    /\ dirs' = [dirs EXCEPT ![a] = "complete"]
    /\ UNCHANGED <<pointer, pins, archive, lock, base, plan, frames, latest, attempt,
                   result, committed, cleanVars>>

\* Mutant: CURRENT is replaced before the artifacts are written.
ReplacePointerEarly(a) ==
    /\ Goto(a, "writing", "committed")
    /\ pointer' = [generation |-> a, previous |-> latest[a]]
    /\ committed' = committed \cup {a}
    /\ UNCHANGED <<dirs, pins, archive, lock, base, plan, frames, latest, attempt,
                   result, cleanVars>>

\* replaces CURRENT.json,
ReplacePointer(a) ==
    /\ Goto(a, "written", "committed")
    /\ pointer' = [generation |-> a, previous |-> latest[a]]
    /\ committed' = committed \cup {a}
    /\ UNCHANGED <<dirs, pins, archive, lock, base, plan, frames, latest, attempt,
                   result, cleanVars>>

\* and syncs the namespace directory; the lock is left.
SyncPointer(a) ==
    /\ Goto(a, "committed", "archiving")
    /\ Release(a)
    /\ UNCHANGED <<pointer, dirs, pins, archive, base, plan, frames, latest, attempt,
                   result, committed, cleanVars>>

\* Any of these steps may raise; so does writing into a deleted directory.
\* The directory is left behind, and so is a pointer already replaced.
PublishFails(a) ==
    /\ \/ Raise(a, "fetched") /\ "write" \in Faults
       \/ Raise(a, "assembled") /\ "write" \in Faults /\ CurrentId = latest[a]
       \/ Raise(a, "writing") /\ ("write" \in Faults \/ dirs[a] = "absent")
       \/ Raise(a, "written") /\ "write" \in Faults
       \/ Raise(a, "committed") /\ "sync" \in Faults
    /\ UNCHANGED <<pointer, dirs, pins, archive, base, plan, frames, latest, attempt,
                   result, committed, cleanVars>>

\* _archive_after_commit: archive the report,
ArchiveReport(a) ==
    /\ Goto(a, "archiving", "done")
    /\ ArchiveAs(a, "success")
    /\ result' = [result EXCEPT ![a] = "ok"]
    /\ UNCHANGED <<pointer, dirs, pins, lock, base, plan, frames, latest, attempt, committed, cleanVars>>

\* Mutant: an archival failure is raised as a failed publication.
ArchiveFailsRaises(a) ==
    /\ "archive" \in Faults
    /\ Goto(a, "archiving", "failing")
    /\ UNCHANGED <<storeVars, base, plan, frames, latest, attempt, result, committed, cleanVars>>

\* or, when that fails, be it only the final sync, pin the generation,
ArchiveFails(a) ==
    /\ "archive" \in Faults
    /\ Goto(a, "archiving", "pinning")
    /\ ArchiveAs(a, "success") \/ UNCHANGED archive
    /\ UNCHANGED <<pointer, dirs, pins, lock, base, plan, frames, latest, attempt, result,
                   committed, cleanVars>>

\* Mutant: the acquisition returns without having written the pin.
PinSkipped(a) ==
    /\ Goto(a, "pinning", "done")
    /\ result' = [result EXCEPT ![a] = "deferred"]
    /\ UNCHANGED <<storeVars, base, plan, frames, latest, attempt, committed, cleanVars>>

\* and return with a warning that says whether the pin was written.
Pin(a) ==
    /\ Goto(a, "pinning", "done")
    /\ \/ pins' = pins \cup {a} /\ result' = [result EXCEPT ![a] = "deferred"]
       \/ /\ "pin" \in Faults
          /\ pins' \in {pins, pins \cup {a}}
          /\ result' = [result EXCEPT ![a] = "unpinned"]
    /\ UNCHANGED <<pointer, dirs, archive, lock, base, plan, frames, latest, attempt, committed, cleanVars>>

\* _archive_failure, before the error reaches the caller.
ReportFailure(a) ==
    /\ Goto(a, "failing", "done")
    /\ ArchiveAs(a, "failed") \/ ("archive" \in Faults /\ UNCHANGED archive)
    /\ result' = [result EXCEPT ![a] = "failed"]
    /\ UNCHANGED <<pointer, dirs, pins, lock, base, plan, frames, latest, attempt, committed, cleanVars>>

Running(a) == pc[a] \notin {"idle", "done", "crashed"}

\* The process dies; the operating system gives its lock back.
Crash(a) ==
    /\ "crash" \in Faults
    /\ Running(a)
    /\ pc' = [pc EXCEPT ![a] = "crashed"]
    /\ Release(a)
    /\ UNCHANGED <<pointer, dirs, pins, archive, base, plan, frames, latest, attempt,
                   result, committed, cleanVars>>

Acquire(a) ==
    \/ FullHit(a) \/ PlanFails(a) \/ ReadCache(a) \/ Fetch(a) \/ FetchFails(a)
    \/ AcquireLock(a) \/ Assemble(a) \/ AssembleFails(a) \/ Conflict(a)
    \/ MakeDirectory(a) \/ WriteArtifacts(a) \/ ReplacePointer(a) \/ SyncPointer(a)
    \/ PublishFails(a) \/ ArchiveReport(a) \/ ArchiveFails(a) \/ Pin(a) \/ ReportFailure(a)

-----------------------------------------------------------------------------
(* maintain_manifest_archive and cleanup_generations.                      *)

\* Archive the embedded manifest of a pinned generation, or of CURRENT.
MaintainReport(a) ==
    /\ PinnedManifest(a) \/ (CurrentManifest(a) /\ archive[a] = "none")
    /\ ArchiveAs(a, "success")
    /\ UNCHANGED <<pointer, dirs, pins, lock, acqVars, cleanVars>>

\* Unlink a pin whose report is in the archive.
MaintainPin(a) ==
    /\ a \in pins
    /\ archive[a] = "success"
    /\ pins' = pins \ {a}
    /\ UNCHANGED <<pointer, dirs, archive, lock, acqVars, cleanVars>>

\* cleanup_generations reads CURRENT; it takes no lock,
CleanStart ==
    /\ cleaner = "idle"
    /\ cleanups < MaxCleanups
    /\ CleanupAlone => \A a \in Acquirers : ~Running(a)
    /\ CacheStatus = "hit"
    /\ cleaner' = "retain"
    /\ active' = CurrentId
    /\ cleanups' = cleanups + 1
    /\ UNCHANGED <<storeVars, acqVars, doomed>>

\* What a pointer's previous generation adds to the retained set.
ValidPrevious ==
    {g \in Acquirers : pointer.previous = g /\ dirs[g] = "complete"}

\* Mutant: only what the pointer names as previous, and the pins, are retained.
CleanListForgetsActive ==
    /\ cleaner = "retain"
    /\ doomed' = {g \in Acquirers : dirs[g] # "absent"} \ (pins \cup ValidPrevious)
    /\ cleaner' = "delete"
    /\ UNCHANGED <<storeVars, acqVars, active, cleanups>>

\* reads the pins and the previous generation, lists the directories,
CleanList ==
    /\ cleaner = "retain"
    /\ doomed' = {g \in Acquirers : dirs[g] # "absent"} \ ({active} \cup pins \cup ValidPrevious)
    /\ cleaner' = "delete"
    /\ UNCHANGED <<storeVars, acqVars, active, cleanups>>

\* and removes them one by one.
CleanDelete ==
    /\ cleaner = "delete"
    /\ \/ \E g \in doomed :
            /\ \E left \in {"absent"} \cup (IF "rmtree" \in Faults THEN {"partial", dirs[g]} ELSE {}) :
                 dirs' = [dirs EXCEPT ![g] = left]
            /\ doomed' = doomed \ {g}
            /\ UNCHANGED cleaner
       \/ doomed = {} /\ cleaner' = "idle" /\ UNCHANGED <<dirs, doomed>>
    /\ UNCHANGED <<pointer, pins, archive, lock, acqVars, active, cleanups>>

\* It may die before it has removed them all.
CleanCrash ==
    /\ "crash" \in Faults
    /\ cleaner # "idle"
    /\ cleaner' = "idle"
    /\ doomed' = {}
    /\ UNCHANGED <<storeVars, acqVars, active, cleanups>>

Next ==
    \/ \E a \in Acquirers : Acquire(a) \/ Crash(a) \/ MaintainReport(a) \/ MaintainPin(a)
    \/ CleanStart \/ CleanList \/ CleanDelete \/ CleanCrash

Spec == Init /\ [][Next]_vars

\* A process that has not crashed keeps running, one that waits for the lock
\* (no error comes to its help) takes it, and a cleanup finishes.
FairSpec ==
    /\ Spec
    /\ \A a \in Acquirers :
         /\ WF_vars(pc[a] \notin {"idle", "fetched"} /\ Acquire(a))
         /\ WF_vars(AcquireLock(a))
    /\ WF_vars(CleanList) /\ WF_vars(CleanDelete)

-----------------------------------------------------------------------------
(* Properties.                                                             *)

Pcs == {"idle", "fetching", "fetched", "locked", "assembled", "writing", "written",
        "committed", "archiving", "pinning", "failing", "done", "crashed"}

\* Type correctness.
TypeOK ==
    /\ pointer \in Pointer \cup {None}
    /\ dirs \in [Acquirers -> {"absent", "partial", "complete"}]
    /\ pins \subseteq Acquirers
    /\ archive \in [Acquirers -> {"none", "success", "failed"}]
    /\ lock \in Acquirers \cup {None}
    /\ pc \in [Acquirers -> Pcs]
    /\ base \in [Acquirers -> Acquirers \cup {None}]
    /\ plan \in [Acquirers -> SUBSET Days]
    /\ frames \in [Acquirers -> Frame]
    /\ latest \in [Acquirers -> Acquirers \cup {None}]
    /\ attempt \in [Acquirers -> 1 .. MaxConflicts]
    /\ result \in [Acquirers -> {"none", "ok", "deferred", "unpinned", "failed"}]
    /\ cleaner \in {"idle", "retain", "delete"}
    /\ active \in Acquirers \cup {None}
    /\ doomed \subseteq Acquirers
    /\ committed \subseteq Acquirers
    /\ cleanups \in Nat

\* A reader that follows CURRENT finds a complete generation, whatever crashed
\* or failed half way and whatever cleanup removed.
CurrentIsComplete == CacheStatus # "invalidated"

\* cleanup_generations retains the active and all pinned generations: no
\* removal hits the generation CURRENT leads to, or a pinned one.
CleanupRetains ==
    [][\A g \in Acquirers :
         dirs[g] = "complete" /\ dirs'[g] # "complete" => g # CurrentId /\ g \notin pins]_vars

\* The report of an acquisition that returned its data without a pin warning
\* can always be looked up: archived, pinned, or embedded in CURRENT.
ReportsDiscoverable ==
    \A a \in Acquirers : result[a] \in {"ok", "deferred"} => Discoverable(a)

\* Failed refreshes preserve the last valid data: an acquisition that raised
\* is never the one CURRENT serves.
FailedRefreshKeepsData == \A a \in Acquirers : result[a] = "failed" => CurrentId # a

\* A generation is the one it names as previous with the rows its acquisition
\* fetched on top, even if some writer bypasses the lock and others have to
\* start over.
BuiltOnPrevious ==
    pointer # None /\ pointer.previous # None =>
      \A d \in Days :
        frames[pointer.generation][d] \in {pointer.generation, frames[pointer.previous][d]}

\* Every acquisition that started ends, in an answer, an error or a crash: no
\* path leaves the publication lock behind for the others to wait on.
AcquisitionsFinish == \A a \in Acquirers : Running(a) ~> ~Running(a)

Cache == INSTANCE CanonicalCache WITH rows <- CurrentFrame, published <- committed

\* The generations replace one another as the abstract cache says: a
\* publication changes the sessions its acquisition fetched and loses no row
\* another one published, and readers see each publication whole.
ImplementsCache == Cache!Spec

=============================================================================
