----------------------- MODULE GenerationStoreProofs -----------------------
(***************************************************************************)
(* Theorems about the generation store for any number of acquirers and     *)
(* sessions.  Each has the hypotheses it needs: the files and the reports  *)
(* are safe as long as cleanup runs alone, failed refreshes keep the data  *)
(* unless a directory sync fails, generations are built on their previous  *)
(* one if providers answer whole ranges, and the store implements          *)
(* CanonicalCache when moreover every writer takes the lock.               *)
(***************************************************************************)
EXTENDS GenerationStore, TLAPS

\* The discipline the refinement needs; a run refutes it without the last part,
\* and cleanup beside a publication removes what CURRENT leads to.
Discipline == Unlocked = {} /\ CleanupAlone /\ ~PartialBatches

Holding == {"locked", "assembled", "writing", "written", "committed"}

Prepared == {"assembled", "writing", "written"}

PastCommit == {"committed", "archiving", "pinning", "failing", "done", "crashed"}

Stored == {"written", "committed", "archiving", "pinning"}

\* The lock excludes.
LockInv == \A a \in Acquirers : pc[a] \in Holding => lock = a

\* Cleanup runs alone and spares what CURRENT leads to and what is pinned.
CleanInv ==
    /\ cleaner # "idle" => \A a \in Acquirers : ~Running(a)
    /\ cleaner = "retain" => active = CurrentId
    /\ cleaner = "delete" => CurrentId \notin doomed /\ pins \cap doomed = {}

\* CURRENT leads to a complete generation that was committed.
FilesInv ==
    /\ pointer # None =>
         dirs[pointer.generation] = "complete" /\ pointer.generation \in committed
    /\ pointer = None => committed = {}
    /\ \A a \in Acquirers : pc[a] \in Stored => dirs[a] = "complete"

\* A committed generation's publisher is past its last write to the frame,
\* and only an acquisition that has returned is pinned.
CommitInv ==
    /\ \A a \in committed : pc[a] \in PastCommit
    /\ \A a \in pins : pc[a] = "done"

\* An answer is final, and the report of one that was given without a pin
\* warning is archived or pinned.
ResultInv ==
    \A a \in Acquirers :
      /\ result[a] # "none" => pc[a] = "done"
      /\ result[a] = "ok" => archive[a] # "none"
      /\ result[a] = "deferred" => archive[a] # "none" \/ PinnedManifest(a)

\* What holds of the files as long as cleanup runs alone, lock or no lock.
FileInv == CleanupAlone /\ TypeOK /\ CleanInv /\ FilesInv /\ CommitInv /\ ResultInv

\* What was read under the lock is still current.
LatestInv == \A a \in Acquirers : pc[a] \in Prepared => latest[a] = CurrentId

\* The row of a generation, None for no generation.
RowOf(g, d) == IF g = None THEN None ELSE frames[g][d]

\* What a frame holds: the base before the fetch, the fetched ranges over the
\* base after it, and once stored the fetched ranges over CURRENT.
FrameInv ==
    \A a \in Acquirers :
      /\ pc[a] \in {"fetching", "fetched", "locked", "assembled"} => base[a] = None \/ base[a] \in committed
      /\ pc[a] = "fetching" => \A d \in Days : frames[a][d] = RowOf(base[a], d)
      /\ pc[a] \in {"fetched", "locked", "assembled"} => \A d \in Days :
           frames[a][d] = IF d \in plan[a] THEN a ELSE RowOf(base[a], d)
      /\ pc[a] \in {"writing", "written"} => \A d \in Days :
           frames[a][d] = IF d \in plan[a] THEN a ELSE RowOf(CurrentId, d)

StoreInv ==
    /\ Discipline
    /\ TypeOK
    /\ LockInv
    /\ CleanInv
    /\ FilesInv
    /\ CommitInv
    /\ LatestInv
    /\ FrameInv

-----------------------------------------------------------------------------

\* CURRENT names an acquirer or nothing.
LEMMA CurrentIdType == TypeOK => CurrentId \in Acquirers \cup {None}
BY DEF TypeOK, Pointer, CurrentId

\* A reader's frame is the frame of CURRENT.
LEMMA CurrentFrameIs ==
    ASSUME TypeOK, FilesInv
    PROVE  /\ CacheStatus # "invalidated"
           /\ CurrentFrame \in Frame
           /\ \A d \in Days : CurrentFrame[d] = RowOf(CurrentId, d)
<1>1. CASE pointer = None
  BY <1>1 DEF CacheStatus, CurrentFrame, EmptyFrame, Frame, RowOf, CurrentId
<1>2. CASE pointer # None
  <2>1. /\ pointer.generation \in Acquirers
        /\ dirs[pointer.generation] = "complete"
        /\ frames[pointer.generation] \in Frame
    BY <1>2 DEF TypeOK, Pointer, FilesInv
  <2>2. QED
    BY <1>2, <2>1, StoreAssumption DEF CacheStatus, CurrentFrame, RowOf, CurrentId
<1>3. QED
  BY <1>1, <1>2

\* The empty store is well typed
LEMMA InitTypes == Init => TypeOK
BY StoreAssumption DEF Init, TypeOK, Frame, EmptyFrame, Pcs

\* and satisfies the invariant.
LEMMA InitStore == Discipline /\ Init => StoreInv
<1> SUFFICES ASSUME Discipline, Init
             PROVE  StoreInv
  OBVIOUS
<1>1. TypeOK
  BY InitTypes
<1>2. QED
  BY <1>1 DEF Init, StoreInv, LockInv, CleanInv, FilesInv, CommitInv, LatestInv, FrameInv,
              Holding, Prepared, Stored, Running

\* Every step keeps the types.
LEMMA TypeStep == TypeOK /\ [Next]_vars => TypeOK'
<1> SUFFICES ASSUME TypeOK, [Next]_vars
             PROVE  TypeOK'
  OBVIOUS
<1> USE StoreAssumption DEF TypeOK, Pointer, Pcs, Goto, Release, Raise, ArchiveAs, storeVars, cleanVars,
        acqVars
<1>0. ASSUME NEW a \in Acquirers, PlanFails(a) PROVE TypeOK'
  BY <1>0 DEF PlanFails
<1>1. ASSUME NEW a \in Acquirers, FullHit(a) PROVE TypeOK'
  BY <1>1 DEF FullHit
<1>2. ASSUME NEW a \in Acquirers, ReadCache(a) PROVE TypeOK'
  BY <1>2 DEF ReadCache, CurrentFrame, CacheStatus, EmptyFrame, Frame, CurrentId
<1>3. ASSUME NEW a \in Acquirers, Fetch(a) PROVE TypeOK'
  BY <1>3 DEF Fetch, Frame, Batches
<1>4. ASSUME NEW a \in Acquirers, FetchFails(a) PROVE TypeOK'
  BY <1>4 DEF FetchFails
<1>5. ASSUME NEW a \in Acquirers, AcquireLock(a) PROVE TypeOK'
  BY <1>5 DEF AcquireLock
<1>6. ASSUME NEW a \in Acquirers, Assemble(a) PROVE TypeOK'
  BY <1>6 DEF Assemble, CurrentId
<1>7. ASSUME NEW a \in Acquirers, AssembleFails(a) PROVE TypeOK'
  BY <1>7 DEF AssembleFails
<1>8. ASSUME NEW a \in Acquirers, Conflict(a) PROVE TypeOK'
  BY <1>8 DEF Conflict
<1>9. ASSUME NEW a \in Acquirers, MakeDirectory(a) PROVE TypeOK'
  BY <1>9 DEF MakeDirectory, Assembled, Rebased, Frame
<1>10. ASSUME NEW a \in Acquirers, WriteArtifacts(a) PROVE TypeOK'
  BY <1>10 DEF WriteArtifacts
<1>11. ASSUME NEW a \in Acquirers, ReplacePointer(a) PROVE TypeOK'
  BY <1>11 DEF ReplacePointer
<1>12. ASSUME NEW a \in Acquirers, SyncPointer(a) PROVE TypeOK'
  BY <1>12 DEF SyncPointer
<1>13. ASSUME NEW a \in Acquirers, PublishFails(a) PROVE TypeOK'
  BY <1>13 DEF PublishFails
<1>14. ASSUME NEW a \in Acquirers, ArchiveReport(a) PROVE TypeOK'
  BY <1>14 DEF ArchiveReport
<1>15. ASSUME NEW a \in Acquirers, ArchiveFails(a) PROVE TypeOK'
  BY <1>15 DEF ArchiveFails
<1>16. ASSUME NEW a \in Acquirers, Pin(a) PROVE TypeOK'
  BY <1>16 DEF Pin
<1>17. ASSUME NEW a \in Acquirers, ReportFailure(a) PROVE TypeOK'
  BY <1>17 DEF ReportFailure
<1>18. ASSUME NEW a \in Acquirers, Crash(a) PROVE TypeOK'
  BY <1>18 DEF Crash
<1>19. ASSUME NEW a \in Acquirers, MaintainReport(a) PROVE TypeOK'
  BY <1>19 DEF MaintainReport
<1>20. ASSUME NEW a \in Acquirers, MaintainPin(a) PROVE TypeOK'
  BY <1>20 DEF MaintainPin
<1>21. CASE CleanStart
  BY <1>21 DEF CleanStart, CurrentId, CacheStatus
<1>22. CASE CleanList
  BY <1>22 DEF CleanList
<1>23. CASE CleanDelete
  BY <1>23 DEF CleanDelete
<1>24. CASE CleanCrash
  BY <1>24 DEF CleanCrash
<1>25. CASE UNCHANGED vars
  BY <1>25 DEF vars
<1>26. QED
  BY <1>0, <1>1, <1>2, <1>3, <1>4, <1>5, <1>6, <1>7, <1>8, <1>9, <1>10, <1>11, <1>12,
     <1>13, <1>14, <1>15, <1>16, <1>17, <1>18, <1>19, <1>20, <1>21, <1>22, <1>23, <1>24,
     <1>25 DEF Next, Acquire

\* Every step keeps what holds of the files.
LEMMA FileStep ==
    ASSUME FileInv, [Next]_vars, TypeOK'
    PROVE  FileInv'
<1> USE StoreAssumption DEF FileInv, TypeOK, Pointer, Goto, Release, Raise, ArchiveAs,
        storeVars, cleanVars, acqVars, CleanInv, FilesInv, CommitInv, ResultInv,
        PastCommit, Stored, Running, CurrentId, PinnedManifest, EmbeddedManifest
<1>0. ASSUME NEW a \in Acquirers, PlanFails(a) PROVE FileInv'
  BY <1>0 DEF PlanFails
<1>1. ASSUME NEW a \in Acquirers, FullHit(a) PROVE FileInv'
  BY <1>1 DEF FullHit
<1>2. ASSUME NEW a \in Acquirers, ReadCache(a) PROVE FileInv'
  BY <1>2 DEF ReadCache
<1>3. ASSUME NEW a \in Acquirers, Fetch(a) PROVE FileInv'
  BY <1>3 DEF Fetch
<1>4. ASSUME NEW a \in Acquirers, FetchFails(a) PROVE FileInv'
  BY <1>4 DEF FetchFails
<1>5. ASSUME NEW a \in Acquirers, AcquireLock(a) PROVE FileInv'
  BY <1>5 DEF AcquireLock
<1>6. ASSUME NEW a \in Acquirers, Assemble(a) PROVE FileInv'
  BY <1>6 DEF Assemble
<1>7. ASSUME NEW a \in Acquirers, AssembleFails(a) PROVE FileInv'
  BY <1>7 DEF AssembleFails
<1>8. ASSUME NEW a \in Acquirers, Conflict(a) PROVE FileInv'
  BY <1>8 DEF Conflict
<1>9. ASSUME NEW a \in Acquirers, MakeDirectory(a) PROVE FileInv'
  BY <1>9 DEF MakeDirectory
<1>10. ASSUME NEW a \in Acquirers, WriteArtifacts(a) PROVE FileInv'
  BY <1>10 DEF WriteArtifacts
<1>11. ASSUME NEW a \in Acquirers, ReplacePointer(a) PROVE FileInv'
  BY <1>11 DEF ReplacePointer
<1>12. ASSUME NEW a \in Acquirers, SyncPointer(a) PROVE FileInv'
  BY <1>12 DEF SyncPointer
<1>13. ASSUME NEW a \in Acquirers, PublishFails(a) PROVE FileInv'
  BY <1>13 DEF PublishFails
<1>14. ASSUME NEW a \in Acquirers, ArchiveReport(a) PROVE FileInv'
  BY <1>14 DEF ArchiveReport
<1>15. ASSUME NEW a \in Acquirers, ArchiveFails(a) PROVE FileInv'
  BY <1>15 DEF ArchiveFails
<1>16. ASSUME NEW a \in Acquirers, Pin(a) PROVE FileInv'
  BY <1>16 DEF Pin
<1>17. ASSUME NEW a \in Acquirers, ReportFailure(a) PROVE FileInv'
  BY <1>17 DEF ReportFailure
<1>18. ASSUME NEW a \in Acquirers, Crash(a) PROVE FileInv'
  BY <1>18 DEF Crash
<1>19. ASSUME NEW a \in Acquirers, MaintainReport(a) PROVE FileInv'
  BY <1>19 DEF MaintainReport, CurrentManifest
<1>20. ASSUME NEW a \in Acquirers, MaintainPin(a) PROVE FileInv'
  BY <1>20 DEF MaintainPin
<1>21. CASE CleanStart
  BY <1>21 DEF CleanStart
<1>22. CASE CleanList
  BY <1>22 DEF CleanList
<1>23. CASE CleanDelete
  BY <1>23 DEF CleanDelete
<1>24. CASE CleanCrash
  BY <1>24 DEF CleanCrash
<1>25. CASE UNCHANGED vars
  BY <1>25 DEF vars
<1>26. QED
  BY <1>0, <1>1, <1>2, <1>3, <1>4, <1>5, <1>6, <1>7, <1>8, <1>9, <1>10, <1>11, <1>12,
     <1>13, <1>14, <1>15, <1>16, <1>17, <1>18, <1>19, <1>20, <1>21, <1>22, <1>23,
     <1>24, <1>25 DEF Next, Acquire

\* The empty store has it, and so it always holds.
LEMMA FileInvariant == CleanupAlone /\ Spec => []FileInv
<1>1. CleanupAlone /\ Init => FileInv
  BY InitTypes DEF Init, FileInv, CleanInv, FilesInv, CommitInv, ResultInv, Stored, Running
<1>2. FileInv /\ [Next]_vars => FileInv'
  BY TypeStep, FileStep DEF FileInv
<1>3. QED
  BY <1>1, <1>2, PTL DEF Spec

\* Store type correctness: acquire, publish_generation, the maintenance and
\* the cleanup of the store keep every variable in its type.
THEOREM StoreTypeCorrect == Spec => []TypeOK
BY InitTypes, TypeStep, PTL DEF Spec

\* read_generation never finds CURRENT leading to an incomplete or removed
\* generation, wherever writers and cleanups crash or fail, and even if some
\* writer bypasses the lock.
THEOREM ReadersSeeWholeGenerations == CleanupAlone /\ Spec => []CurrentIsComplete
<1>1. FileInv => CurrentIsComplete
  BY CurrentFrameIs DEF FileInv, CurrentIsComplete
<1>2. QED
  BY <1>1, FileInvariant, PTL

\* cleanup_generations removes neither the generation CURRENT leads to nor a
\* pinned one.
THEOREM CleanupIsSafe == CleanupAlone /\ Spec => CleanupRetains
<1> DEFINE Retains ==
      \A g \in Acquirers :
        dirs[g] = "complete" /\ dirs'[g] # "complete" => g # CurrentId /\ g \notin pins
<1>1. FileInv /\ [Next]_vars => [Retains]_vars
  <2> SUFFICES ASSUME FileInv, [Next]_vars
               PROVE  Retains
    OBVIOUS
  <2> USE StoreAssumption DEF FileInv, TypeOK, Pointer, Goto, storeVars, cleanVars, acqVars
  <2>1. ASSUME dirs' = dirs PROVE Retains
    BY <2>1
  <2>2. ASSUME NEW a \in Acquirers, MakeDirectory(a) PROVE Retains
    BY <2>2 DEF MakeDirectory, FilesInv, CommitInv, PastCommit, CurrentId
  <2>3. ASSUME NEW a \in Acquirers, WriteArtifacts(a) PROVE Retains
    BY <2>3 DEF WriteArtifacts
  <2>4. CASE CleanDelete
    BY <2>4 DEF CleanDelete, CleanInv
  <2>5. CASE \E a \in Acquirers : Acquire(a)
    BY <2>1, <2>2, <2>3, <2>5 DEF Acquire, FullHit, PlanFails, ReadCache, Fetch, FetchFails,
       AcquireLock, Assemble, AssembleFails, Conflict, ReplacePointer, SyncPointer, PublishFails,
       ArchiveReport, ArchiveFails, Pin, ReportFailure
  <2>6. QED
    BY <2>1, <2>4, <2>5 DEF Next, vars, Crash, MaintainReport, MaintainPin, CleanStart,
       CleanList, CleanCrash
<1>2. QED
  BY <1>1, FileInvariant, PTL DEF Spec, CleanupRetains

\* lookup_manifest finds the report of every acquisition that returned its data
\* without a pin warning, through any later publications, maintenance and
\* cleanups: archival may fail after the commit and be retried from the pin,
\* and the pin goes only when the archive has the report.
THEOREM ReportsStayDiscoverable == CleanupAlone /\ Spec => []ReportsDiscoverable
<1>1. FileInv => ReportsDiscoverable
  BY DEF FileInv, ResultInv, ReportsDiscoverable, Discoverable
<1>2. QED
  BY <1>1, FileInvariant, PTL

-----------------------------------------------------------------------------
(* Failed refreshes.                                                       *)

\* A committed acquisition does not fail: nothing between the commit and the
\* answer raises, except the directory sync.
RefreshInv ==
    /\ "sync" \notin Faults
    /\ TypeOK
    /\ pointer # None => pointer.generation \in committed
    /\ \A a \in committed : pc[a] \in PastCommit \ {"failing"}
    /\ \A a \in Acquirers : result[a] = "failed" => pc[a] = "done" /\ a \notin committed

\* Every step keeps it.
LEMMA RefreshStep ==
    ASSUME RefreshInv, [Next]_vars, TypeOK'
    PROVE  RefreshInv'
<1> USE StoreAssumption DEF RefreshInv, TypeOK, Pointer, Goto, Release, Raise, ArchiveAs,
        storeVars, cleanVars, acqVars, PastCommit
<1>0. ASSUME NEW a \in Acquirers, PlanFails(a) PROVE RefreshInv'
  BY <1>0 DEF PlanFails
<1>1. ASSUME NEW a \in Acquirers, FullHit(a) PROVE RefreshInv'
  BY <1>1 DEF FullHit
<1>2. ASSUME NEW a \in Acquirers, ReadCache(a) PROVE RefreshInv'
  BY <1>2 DEF ReadCache
<1>3. ASSUME NEW a \in Acquirers, Fetch(a) PROVE RefreshInv'
  BY <1>3 DEF Fetch
<1>4. ASSUME NEW a \in Acquirers, FetchFails(a) PROVE RefreshInv'
  BY <1>4 DEF FetchFails
<1>5. ASSUME NEW a \in Acquirers, AcquireLock(a) PROVE RefreshInv'
  BY <1>5 DEF AcquireLock
<1>6. ASSUME NEW a \in Acquirers, Assemble(a) PROVE RefreshInv'
  BY <1>6 DEF Assemble
<1>7. ASSUME NEW a \in Acquirers, AssembleFails(a) PROVE RefreshInv'
  BY <1>7 DEF AssembleFails
<1>8. ASSUME NEW a \in Acquirers, Conflict(a) PROVE RefreshInv'
  BY <1>8 DEF Conflict
<1>9. ASSUME NEW a \in Acquirers, MakeDirectory(a) PROVE RefreshInv'
  BY <1>9 DEF MakeDirectory
<1>10. ASSUME NEW a \in Acquirers, WriteArtifacts(a) PROVE RefreshInv'
  BY <1>10 DEF WriteArtifacts
<1>11. ASSUME NEW a \in Acquirers, ReplacePointer(a) PROVE RefreshInv'
  BY <1>11 DEF ReplacePointer
<1>12. ASSUME NEW a \in Acquirers, SyncPointer(a) PROVE RefreshInv'
  BY <1>12 DEF SyncPointer
<1>13. ASSUME NEW a \in Acquirers, PublishFails(a) PROVE RefreshInv'
  BY <1>13 DEF PublishFails
<1>14. ASSUME NEW a \in Acquirers, ArchiveReport(a) PROVE RefreshInv'
  BY <1>14 DEF ArchiveReport
<1>15. ASSUME NEW a \in Acquirers, ArchiveFails(a) PROVE RefreshInv'
  BY <1>15 DEF ArchiveFails
<1>16. ASSUME NEW a \in Acquirers, Pin(a) PROVE RefreshInv'
  BY <1>16 DEF Pin
<1>17. ASSUME NEW a \in Acquirers, ReportFailure(a) PROVE RefreshInv'
  BY <1>17 DEF ReportFailure
<1>18. ASSUME NEW a \in Acquirers, Crash(a) PROVE RefreshInv'
  BY <1>18 DEF Crash, Running
<1>19. ASSUME NEW a \in Acquirers, MaintainReport(a) PROVE RefreshInv'
  BY <1>19 DEF MaintainReport
<1>20. ASSUME NEW a \in Acquirers, MaintainPin(a) PROVE RefreshInv'
  BY <1>20 DEF MaintainPin
<1>21. CASE CleanStart
  BY <1>21 DEF CleanStart
<1>22. CASE CleanList
  BY <1>22 DEF CleanList
<1>23. CASE CleanDelete
  BY <1>23 DEF CleanDelete
<1>24. CASE CleanCrash
  BY <1>24 DEF CleanCrash
<1>25. CASE UNCHANGED vars
  BY <1>25 DEF vars
<1>26. QED
  BY <1>0, <1>1, <1>2, <1>3, <1>4, <1>5, <1>6, <1>7, <1>8, <1>9, <1>10, <1>11, <1>12,
     <1>13, <1>14, <1>15, <1>16, <1>17, <1>18, <1>19, <1>20, <1>21, <1>22, <1>23,
     <1>24, <1>25 DEF Next, Acquire

\* A refresh that raised is never the one CURRENT serves: unless the sync of the
\* namespace directory fails, _publish_locked raises only before os.replace and
\* _archive_after_commit turns archival errors into warnings.
THEOREM FailedRefreshesKeepData == "sync" \notin Faults /\ Spec => []FailedRefreshKeepsData
<1>1. "sync" \notin Faults /\ Init => RefreshInv
  BY InitTypes DEF Init, RefreshInv
<1>2. RefreshInv /\ [Next]_vars => RefreshInv'
  BY TypeStep, RefreshStep DEF RefreshInv
<1>3. RefreshInv => FailedRefreshKeepsData
  BY StoreAssumption DEF RefreshInv, FailedRefreshKeepsData, CurrentId
<1>4. QED
  BY <1>1, <1>2, <1>3, PTL DEF Spec

-----------------------------------------------------------------------------
(* Generations are built on what they name as previous, lock or no lock.   *)

Committed(g) == g = None \/ g \in committed

\* What publish_generation may rely on without the lock.  A candidate built on a
\* generation that has been superseded may hold anything outside its plan: it
\* is rebased, because CURRENT never returns to an earlier generation.
CandidateInv ==
    \A a \in Acquirers :
      /\ pc[a] \in {"fetching", "fetched", "locked", "assembled"} => Committed(base[a])
      /\ pc[a] \in Prepared => Committed(latest[a])
      /\ pc[a] = "fetching" => \A d \in Days : frames[a][d] = RowOf(base[a], d)
      /\ pc[a] \in {"fetched", "locked", "assembled"} =>
           /\ \A d \in plan[a] : frames[a][d] = a
           /\ base[a] = CurrentId =>
                \A d \in Days \ plan[a] : frames[a][d] = RowOf(base[a], d)
      /\ pc[a] \in {"writing", "written"} /\ latest[a] # None =>
           \A d \in Days : frames[a][d] \in {a, frames[latest[a]][d]}

BuildInv ==
    /\ ~PartialBatches
    /\ TypeOK
    /\ \A a \in committed : pc[a] \in PastCommit
    /\ pointer # None => pointer.generation \in committed /\ Committed(pointer.previous)
    /\ CandidateInv
    /\ BuiltOnPrevious

\* Every step keeps it.
LEMMA BuildStep ==
    ASSUME BuildInv, [Next]_vars, TypeOK'
    PROVE  BuildInv'
<1> USE StoreAssumption DEF BuildInv, TypeOK, Pointer, Goto, Release, Raise,
        storeVars, cleanVars, acqVars, PastCommit, Prepared, Committed, CandidateInv,
        BuiltOnPrevious, CurrentId, RowOf
<1>0. ASSUME NEW a \in Acquirers, PlanFails(a) PROVE BuildInv'
  BY <1>0 DEF PlanFails
<1>1. ASSUME NEW a \in Acquirers, FullHit(a) PROVE BuildInv'
  BY <1>1 DEF FullHit
<1>2. ASSUME NEW a \in Acquirers, ReadCache(a) PROVE BuildInv'
  <2>1. /\ pc[a] = "idle" /\ pc' = [pc EXCEPT ![a] = "fetching"]
        /\ UNCHANGED <<storeVars, latest, attempt, result, committed, cleanVars>>
        /\ plan' = [plan EXCEPT ![a] = plan'[a]]
        /\ base' = [base EXCEPT ![a] = base'[a]]
        /\ frames' = [frames EXCEPT ![a] = frames'[a]]
    BY <1>2 DEF ReadCache
  <2>2. Committed(base'[a]) /\ \A d \in Days : frames'[a][d] = RowOf(base'[a], d)
    BY <1>2 DEF ReadCache, EmptyFrame, CacheStatus, CurrentFrame
  <2>3. a \notin committed
    BY <2>1
  <2>4. CandidateInv'
    BY <2>1, <2>2, <2>3
  <2>5. QED
    BY <2>1, <2>3, <2>4
<1>3. ASSUME NEW a \in Acquirers, Fetch(a) PROVE BuildInv'
  <2>1. /\ pc[a] = "fetching" /\ pc' = [pc EXCEPT ![a] = "fetched"]
        /\ UNCHANGED <<storeVars, base, plan, latest, attempt, result, committed, cleanVars>>
        /\ frames' = [frames EXCEPT ![a] =
                         [d \in Days |-> IF d \in plan[a] THEN a ELSE frames[a][d]]]
    BY <1>3 DEF Fetch, Batches
  <2>2. a \notin committed
    BY <2>1
  <2>3. CandidateInv'
    BY <2>1, <2>2
  <2>4. QED
    BY <2>1, <2>2, <2>3
<1>4. ASSUME NEW a \in Acquirers, FetchFails(a) PROVE BuildInv'
  BY <1>4 DEF FetchFails
<1>5. ASSUME NEW a \in Acquirers, AcquireLock(a) PROVE BuildInv'
  BY <1>5 DEF AcquireLock
<1>6. ASSUME NEW a \in Acquirers, Assemble(a) PROVE BuildInv'
  BY <1>6 DEF Assemble
<1>7. ASSUME NEW a \in Acquirers, AssembleFails(a) PROVE BuildInv'
  BY <1>7 DEF AssembleFails
<1>8. ASSUME NEW a \in Acquirers, Conflict(a) PROVE BuildInv'
  BY <1>8 DEF Conflict
<1>9. ASSUME NEW a \in Acquirers, MakeDirectory(a) PROVE BuildInv'
  <2>1. /\ pc[a] = "assembled" /\ pc' = [pc EXCEPT ![a] = "writing"]
        /\ latest[a] = CurrentId
        /\ UNCHANGED <<pointer, pins, archive, lock, base, plan, latest, attempt, result,
                       committed, cleanVars>>
        /\ frames' = [frames EXCEPT ![a] = Assembled(a)]
    BY <1>9 DEF MakeDirectory
  <2>2. a \notin committed
    BY <2>1
  <2>3. latest[a] # None => \A d \in Days : Assembled(a)[d] \in {a, frames[latest[a]][d]}
    <3>1. CASE base[a] # latest[a]
      BY <2>1, <3>1 DEF Assembled, Rebased
    <3>2. CASE base[a] = latest[a]
      BY <2>1, <3>2 DEF Assembled
    <3>3. QED
      BY <3>1, <3>2
  <2>4. CandidateInv'
    BY <2>1, <2>2, <2>3
  <2>5. QED
    BY <2>1, <2>2, <2>4
<1>10. ASSUME NEW a \in Acquirers, WriteArtifacts(a) PROVE BuildInv'
  BY <1>10 DEF WriteArtifacts
<1>11. ASSUME NEW a \in Acquirers, ReplacePointer(a) PROVE BuildInv'
  <2>1. /\ pc[a] = "written" /\ pc' = [pc EXCEPT ![a] = "committed"]
        /\ pointer' = [generation |-> a, previous |-> latest[a]]
        /\ committed' = committed \cup {a}
        /\ UNCHANGED <<dirs, pins, archive, lock, base, plan, frames, latest, attempt,
                       result, cleanVars>>
    BY <1>11 DEF ReplacePointer
  <2>2. a \notin committed /\ CurrentId' = a /\ pointer' # None
    BY <2>1
  <2>3. CandidateInv'
    BY <2>1, <2>2
  <2>4. BuiltOnPrevious'
    BY <2>1, <2>2
  <2>5. QED
    BY <2>1, <2>2, <2>3, <2>4
<1>12. ASSUME NEW a \in Acquirers, SyncPointer(a) PROVE BuildInv'
  BY <1>12 DEF SyncPointer
<1>13. ASSUME NEW a \in Acquirers, PublishFails(a) PROVE BuildInv'
  BY <1>13 DEF PublishFails
<1>14. ASSUME NEW a \in Acquirers, ArchiveReport(a) PROVE BuildInv'
  BY <1>14 DEF ArchiveReport
<1>15. ASSUME NEW a \in Acquirers, ArchiveFails(a) PROVE BuildInv'
  BY <1>15 DEF ArchiveFails
<1>16. ASSUME NEW a \in Acquirers, Pin(a) PROVE BuildInv'
  BY <1>16 DEF Pin
<1>17. ASSUME NEW a \in Acquirers, ReportFailure(a) PROVE BuildInv'
  BY <1>17 DEF ReportFailure
<1>18. ASSUME NEW a \in Acquirers, Crash(a) PROVE BuildInv'
  BY <1>18 DEF Crash, Running
<1>19. ASSUME NEW a \in Acquirers, MaintainReport(a) PROVE BuildInv'
  BY <1>19 DEF MaintainReport
<1>20. ASSUME NEW a \in Acquirers, MaintainPin(a) PROVE BuildInv'
  BY <1>20 DEF MaintainPin
<1>21. CASE CleanStart
  BY <1>21 DEF CleanStart
<1>22. CASE CleanList
  BY <1>22 DEF CleanList
<1>23. CASE CleanDelete
  BY <1>23 DEF CleanDelete
<1>24. CASE CleanCrash
  BY <1>24 DEF CleanCrash
<1>25. CASE UNCHANGED vars
  BY <1>25 DEF vars
<1>26. QED
  BY <1>0, <1>1, <1>2, <1>3, <1>4, <1>5, <1>6, <1>7, <1>8, <1>9, <1>10, <1>11, <1>12,
     <1>13, <1>14, <1>15, <1>16, <1>17, <1>18, <1>19, <1>20, <1>21, <1>22, <1>23,
     <1>24, <1>25 DEF Next, Acquire

\* publish_generation rebases correctly even if some writer bypasses the lock:
\* the generation CURRENT leads to is the one it names as previous with rows of
\* its own acquisition on top.  The comparison of the observed generation with
\* the one that was read, and not the lock, is what guarantees it.
THEOREM BuiltOnPreviousHolds == ~PartialBatches /\ Spec => []BuiltOnPrevious
<1>1. ~PartialBatches /\ Init => BuildInv
  BY InitTypes DEF Init, BuildInv, CandidateInv, BuiltOnPrevious, Prepared
<1>2. BuildInv /\ [Next]_vars => BuildInv'
  BY TypeStep, BuildStep DEF BuildInv
<1>3. BuildInv => BuiltOnPrevious
  BY DEF BuildInv
<1>4. QED
  BY <1>1, <1>2, <1>3, PTL DEF Spec

-----------------------------------------------------------------------------
(* Under the whole discipline the store implements the abstract cache.     *)

\* Every step keeps the rest of the invariant.
LEMMA StoreStep ==
    ASSUME StoreInv, [Next]_vars, TypeOK'
    PROVE  StoreInv'
<1> USE StoreAssumption DEF StoreInv, Discipline, TypeOK, Pointer, Goto, Release, Raise, ArchiveAs,
        storeVars, cleanVars, acqVars, LockInv, CleanInv, FilesInv, CommitInv, LatestInv,
        FrameInv, Holding, Prepared, PastCommit, Stored, Running, CurrentId, RowOf
<1>0. ASSUME NEW a \in Acquirers, PlanFails(a) PROVE StoreInv'
  BY <1>0 DEF PlanFails
<1>1. ASSUME NEW a \in Acquirers, FullHit(a) PROVE StoreInv'
  BY <1>1 DEF FullHit
<1>2. ASSUME NEW a \in Acquirers, ReadCache(a) PROVE StoreInv'
  <2>1. /\ cleaner = "idle" /\ pc[a] = "idle" /\ pc' = [pc EXCEPT ![a] = "fetching"]
        /\ UNCHANGED <<storeVars, latest, attempt, result, committed, cleanVars>>
        /\ plan' = [plan EXCEPT ![a] = plan'[a]]
        /\ base' = [base EXCEPT ![a] = base'[a]]
        /\ frames' = [frames EXCEPT ![a] = frames'[a]]
    BY <1>2 DEF ReadCache
  <2>2. /\ base'[a] = None \/ base'[a] \in committed
        /\ \A d \in Days : frames'[a][d] = RowOf(base'[a], d)
    BY <1>2, CurrentFrameIs DEF ReadCache, EmptyFrame, CacheStatus
  <2>3. a \notin committed
    BY <2>1
  <2>4. FrameInv'
    BY <2>1, <2>2, <2>3
  <2>5. QED
    BY <2>1, <2>3, <2>4
<1>3. ASSUME NEW a \in Acquirers, Fetch(a) PROVE StoreInv'
  <2>1. /\ pc[a] = "fetching" /\ pc' = [pc EXCEPT ![a] = "fetched"]
        /\ UNCHANGED <<storeVars, base, plan, latest, attempt, result, committed, cleanVars>>
        /\ frames' = [frames EXCEPT ![a] =
                         [d \in Days |-> IF d \in plan[a] THEN a ELSE frames[a][d]]]
    <3>1. Batches(plan[a]) = {plan[a]}
      BY DEF Batches
    <3>2. QED
      BY <1>3, <3>1 DEF Fetch
  <2>2. a \notin committed
    BY <2>1
  <2>3. FrameInv'
    BY <2>1, <2>2
  <2>4. QED
    BY <2>1, <2>2, <2>3
<1>4. ASSUME NEW a \in Acquirers, FetchFails(a) PROVE StoreInv'
  BY <1>4 DEF FetchFails
<1>5. ASSUME NEW a \in Acquirers, AcquireLock(a) PROVE StoreInv'
  BY <1>5 DEF AcquireLock
<1>6. ASSUME NEW a \in Acquirers, Assemble(a) PROVE StoreInv'
  BY <1>6 DEF Assemble
<1>7. ASSUME NEW a \in Acquirers, AssembleFails(a) PROVE StoreInv'
  BY <1>7 DEF AssembleFails
<1>8. ASSUME NEW a \in Acquirers, Conflict(a) PROVE StoreInv'
  BY <1>8 DEF Conflict
<1>9. ASSUME NEW a \in Acquirers, MakeDirectory(a) PROVE StoreInv'
  <2>1. /\ pc[a] = "assembled" /\ pc' = [pc EXCEPT ![a] = "writing"]
        /\ UNCHANGED <<pointer, pins, archive, lock, base, plan, latest, attempt, result,
                       committed, cleanVars>>
        /\ dirs' = [dirs EXCEPT ![a] = "partial"]
        /\ frames' = [frames EXCEPT ![a] = Assembled(a)]
    BY <1>9 DEF MakeDirectory
  <2>2. a \notin committed /\ latest[a] = CurrentId
    BY <2>1
  <2>3. \A d \in Days : Assembled(a)[d] = IF d \in plan[a] THEN a ELSE RowOf(CurrentId, d)
    <3>1. CASE CurrentId # None /\ base[a] # CurrentId
      BY <2>1, <2>2, <3>1 DEF Assembled, Rebased
    <3>2. CASE base[a] = CurrentId
      BY <2>1, <2>2, <3>2 DEF Assembled
    <3>3. CASE CurrentId = None
      <4>1. base[a] = None
        BY <2>1, <3>3
      <4>2. QED
        BY <3>2, <3>3, <4>1
    <3>4. QED
      BY <3>1, <3>2, <3>3
  <2>4. FrameInv'
    BY <2>1, <2>2, <2>3
  <2>5. QED
    BY <2>1, <2>2, <2>4
<1>10. ASSUME NEW a \in Acquirers, WriteArtifacts(a) PROVE StoreInv'
  BY <1>10 DEF WriteArtifacts
<1>11. ASSUME NEW a \in Acquirers, ReplacePointer(a) PROVE StoreInv'
  <2>1. /\ pc[a] = "written" /\ pc' = [pc EXCEPT ![a] = "committed"]
        /\ pointer' = [generation |-> a, previous |-> latest[a]]
        /\ committed' = committed \cup {a}
        /\ UNCHANGED <<dirs, pins, archive, lock, base, plan, frames, latest, attempt,
                       result, cleanVars>>
    BY <1>11 DEF ReplacePointer
  <2>2. cleaner = "idle"
    BY <2>1
  <2>3. \A b \in Acquirers : b # a => pc[b] \notin Holding
    BY <2>1
  <2>4. pointer' # None /\ CurrentId' = a
    BY <2>1
  <2>5. FrameInv'
    BY <2>1, <2>3
  <2>6. FilesInv' /\ CommitInv' /\ LatestInv'
    BY <2>1, <2>3, <2>4
  <2>7. QED
    BY <2>1, <2>2, <2>5, <2>6
<1>12. ASSUME NEW a \in Acquirers, SyncPointer(a) PROVE StoreInv'
  BY <1>12 DEF SyncPointer
<1>13. ASSUME NEW a \in Acquirers, PublishFails(a) PROVE StoreInv'
  BY <1>13 DEF PublishFails
<1>14. ASSUME NEW a \in Acquirers, ArchiveReport(a) PROVE StoreInv'
  BY <1>14 DEF ArchiveReport
<1>15. ASSUME NEW a \in Acquirers, ArchiveFails(a) PROVE StoreInv'
  BY <1>15 DEF ArchiveFails
<1>16. ASSUME NEW a \in Acquirers, Pin(a) PROVE StoreInv'
  BY <1>16 DEF Pin
<1>17. ASSUME NEW a \in Acquirers, ReportFailure(a) PROVE StoreInv'
  BY <1>17 DEF ReportFailure
<1>18. ASSUME NEW a \in Acquirers, Crash(a) PROVE StoreInv'
  BY <1>18 DEF Crash
<1>19. ASSUME NEW a \in Acquirers, MaintainReport(a) PROVE StoreInv'
  BY <1>19 DEF MaintainReport
<1>20. ASSUME NEW a \in Acquirers, MaintainPin(a) PROVE StoreInv'
  BY <1>20 DEF MaintainPin
<1>21. CASE CleanStart
  BY <1>21 DEF CleanStart
<1>22. CASE CleanList
  BY <1>22 DEF CleanList
<1>23. CASE CleanDelete
  BY <1>23 DEF CleanDelete
<1>24. CASE CleanCrash
  BY <1>24 DEF CleanCrash
<1>25. CASE UNCHANGED vars
  BY <1>25 DEF vars
<1>26. QED
  BY <1>0, <1>1, <1>2, <1>3, <1>4, <1>5, <1>6, <1>7, <1>8, <1>9, <1>10, <1>11, <1>12,
     <1>13, <1>14, <1>15, <1>16, <1>17, <1>18, <1>19, <1>20, <1>21, <1>22, <1>23, <1>24,
     <1>25 DEF Next, Acquire

\* The invariant holds in every reachable state.
LEMMA StoreInvariant == Discipline /\ Spec => []StoreInv
<1>1. Discipline /\ Init => StoreInv
  BY InitStore
<1>2. StoreInv /\ [Next]_vars => StoreInv'
  <2> SUFFICES ASSUME StoreInv, [Next]_vars
               PROVE  StoreInv'
    OBVIOUS
  <2>1. TypeOK'
    BY TypeStep DEF StoreInv
  <2>2. QED
    BY <2>1, StoreStep
<1>3. QED
  BY <1>1, <1>2, PTL DEF Spec

-----------------------------------------------------------------------------

\* A step that leaves CURRENT, the committed set and the frame CURRENT leads
\* to alone is invisible to the abstract cache.
LEMMA Invisible ==
    ASSUME StoreInv, StoreInv', pointer' = pointer, committed' = committed,
           \A a \in committed : frames'[a] = frames[a]
    PROVE  CurrentFrame' = CurrentFrame
<1>1. CASE pointer = None
  BY <1>1 DEF CurrentFrame, CacheStatus, EmptyFrame
<1>2. CASE pointer # None
  BY <1>2 DEF StoreInv, FilesInv, CurrentFrame, CacheStatus
<1>3. QED
  BY <1>1, <1>2

\* Replacing CURRENT publishes the planned ranges and nothing else.
LEMMA CommitPublishes ==
    ASSUME StoreInv, StoreInv', NEW a \in Acquirers, ReplacePointer(a)
    PROVE  Cache!Publish(a)
<1>1. /\ pc[a] = "written" /\ pointer' = [generation |-> a, previous |-> latest[a]]
      /\ committed' = committed \cup {a} /\ frames' = frames
  BY DEF ReplacePointer, Goto
<1>2. a \notin committed
  BY <1>1 DEF StoreInv, CommitInv, PastCommit
<1>3. CurrentFrame' = frames[a]
  BY <1>1, StoreAssumption DEF StoreInv, FilesInv, CurrentFrame, CacheStatus
<1>4. frames[a] = [d \in Days |-> IF d \in plan[a] THEN a ELSE CurrentFrame[d]]
  <2>1. \A d \in Days : CurrentFrame[d] = RowOf(CurrentId, d)
    BY CurrentFrameIs DEF StoreInv
  <2>2. \A d \in Days : frames[a][d] = IF d \in plan[a] THEN a ELSE RowOf(CurrentId, d)
    BY <1>1 DEF StoreInv, FrameInv
  <2>3. frames[a] \in Frame
    BY DEF StoreInv, TypeOK
  <2>4. QED
    BY <2>1, <2>2, <2>3 DEF Frame
<1>5. plan[a] \in SUBSET Days
  BY DEF StoreInv, TypeOK
<1>6. QED
  BY <1>1, <1>2, <1>3, <1>4, <1>5 DEF Cache!Publish

\* publish_generation implements the abstract cache: whatever acquisitions,
\* failures, crashes, maintenance and cleanups interleave, a publication
\* changes the sessions its acquisition fetched and loses no other row.
THEOREM CacheRefinement == Discipline /\ Spec => ImplementsCache
<1>1. Init => Cache!Init
  BY DEF Init, Cache!Init, CurrentFrame, CacheStatus, EmptyFrame
<1>2. StoreInv /\ StoreInv' /\ [Next]_vars => [Cache!Next]_<<CurrentFrame, committed>>
  <2> SUFFICES ASSUME StoreInv, StoreInv', [Next]_vars
               PROVE  [Cache!Next]_<<CurrentFrame, committed>>
    OBVIOUS
  <2> DEFINE Quiet == pointer' = pointer /\ committed' = committed
                      /\ \A a \in committed : frames'[a] = frames[a]
  <2>1. ASSUME NEW a \in Acquirers, ReplacePointer(a) PROVE Cache!Next
    BY <2>1, CommitPublishes DEF Cache!Next
  <2>2. ASSUME NEW a \in Acquirers, ReadCache(a) \/ Fetch(a) \/ MakeDirectory(a) PROVE Quiet
    <3>1. a \notin committed
      BY <2>2 DEF StoreInv, CommitInv, PastCommit, ReadCache, Fetch, MakeDirectory, Goto
    <3>2. frames' = [frames EXCEPT ![a] = frames'[a]]
      BY <2>2 DEF StoreInv, TypeOK, ReadCache, Fetch, MakeDirectory
    <3>3. committed \subseteq Acquirers /\ frames \in [Acquirers -> Frame]
      BY DEF StoreInv, TypeOK
    <3>4. pointer' = pointer /\ committed' = committed
      BY <2>2 DEF ReadCache, Fetch, MakeDirectory, storeVars
    <3>5. \A b \in committed : frames'[b] = frames[b]
      BY <3>1, <3>2, <3>3
    <3>6. QED
      BY <3>4, <3>5
  <2>3. ASSUME NEW a \in Acquirers, Acquire(a), ~ReplacePointer(a) PROVE Quiet
    BY <2>2, <2>3 DEF Acquire, FullHit, PlanFails, FetchFails, AcquireLock, Assemble,
       AssembleFails, Conflict, WriteArtifacts, SyncPointer, PublishFails, ArchiveReport, ArchiveFails,
       Pin, ReportFailure, storeVars
  <2>4. ASSUME Quiet PROVE UNCHANGED <<CurrentFrame, committed>>
    BY <2>4, Invisible
  <2>5. ASSUME NEW a \in Acquirers, Crash(a) \/ MaintainReport(a) \/ MaintainPin(a) PROVE Quiet
    BY <2>5 DEF Crash, MaintainReport, MaintainPin, acqVars
  <2>6. ASSUME CleanStart \/ CleanList \/ CleanDelete \/ CleanCrash \/ UNCHANGED vars PROVE Quiet
    BY <2>6 DEF CleanStart, CleanList, CleanDelete, CleanCrash, vars, storeVars, acqVars
  <2>7. QED
    BY <2>1, <2>3, <2>4, <2>5, <2>6 DEF Next
<1>3. QED
  BY <1>1, <1>2, StoreInvariant, PTL DEF Spec, ImplementsCache, Cache!Spec

=============================================================================
