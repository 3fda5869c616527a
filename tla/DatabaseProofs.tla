--------------------------- MODULE DatabaseProofs ---------------------------
(***************************************************************************)
(* The guarantees of the results database, for any number of migrating     *)
(* processes, runs and rows, and from any of the initial schemas.          *)
(*                                                                         *)
(* Every write of every process is one of Ddl, Dml and Commit, and the     *)
(* first part shows that a write which only adds to what its process sees, *)
(* and a rollback, keep the database sound (DbInv) and leave the lock      *)
(* holder's transaction alone (Local).  The rest follows each process      *)
(* through its program: MigratorInv says that a table is swapped only for  *)
(* a full copy checked by the key, made in the transaction the migrator is *)
(* still in; ApiInv that the run being saved is nowhere on disk; SavedInv  *)
(* that a saved run is whole; ReadInv what a reader has seen so far.       *)
(***************************************************************************)
EXTENDS Database, TLAPS

Processes == Migrators \cup {Api}

\* e holds every row and every unique constraint of d.
Grows(d, e) ==
    /\ \A t \in Tables : d.rows[t] \subseteq e.rows[t]
    /\ d.uniques \subseteq e.uniques

\* SQLite's part: a declared key has no duplicates.
KeysHold(d) == \A t \in Keyed : t \in d.uniques => ~Duplicates(d.rows[t])

\* The committed database and the open transaction are sound, and a transaction
\* only ever adds to what is committed.
DbInv ==
    /\ disk \in Databases /\ work \in Databases
    /\ holder \in Processes \cup {None}
    /\ holder = None => work = disk
    /\ KeysHold(disk) /\ KeysHold(work)
    /\ Grows(disk, work)

\* A step of p leaves the transaction of every other process alone.
Local(p) ==
    \A q \in Processes : q # p =>
      /\ holder' = q <=> holder = q
      /\ holder = q => disk' = disk /\ work' = work

Sound(p) == DbInv' /\ Grows(disk, disk') /\ Local(p)

-----------------------------------------------------------------------------
(* Statements.                                                             *)

LEMMA ProcessFacts == \A p \in Processes : p # None
BY DatabaseAssumption DEF Processes

LEMMA ReadOnlyIsSound ==
    ASSUME DbInv, ReadOnly, NEW p \in Processes
    PROVE  Sound(p)
BY DEF DbInv, ReadOnly, Sound, Local, Grows, KeysHold

LEMMA RollbackIsSound ==
    ASSUME DbInv, NEW p \in Processes, Rollback(p)
    PROVE  Sound(p) /\ holder' # p
<1>1. CASE holder = p
  <2>1. disk' = disk /\ work' = disk /\ holder' = None
    BY <1>1 DEF Rollback
  <2>2. DbInv'
    BY <2>1 DEF DbInv, Grows, KeysHold
  <2>3. Grows(disk, disk') /\ Local(p) /\ holder' # p
    BY <1>1, <2>1, ProcessFacts DEF Grows, Local
  <2> QED BY <2>2, <2>3 DEF Sound
<1>2. CASE holder # p
  <2>1. ReadOnly
    BY <1>2 DEF Rollback, ReadOnly
  <2> QED BY <1>2, <2>1, ReadOnlyIsSound DEF ReadOnly
<1> QED BY <1>1, <1>2

\* A write that adds to what the process sees is sound.
LEMMA WriteIsSound ==
    ASSUME DbInv, NEW p \in Processes, NEW d \in Databases,
           KeysHold(d), Grows(View(p), d), Ddl(p, d) \/ Dml(p, d) \/ Commit(p, d)
    PROVE  Sound(p)
<1>1. holder \in {None, p}
  BY DEF Ddl, Dml, Commit, MayWrite
<1>2. Grows(disk, d)
  <2>1. CASE holder = p
    BY <2>1 DEF View, DbInv, Grows
  <2>2. CASE holder # p
    BY <2>2 DEF View
  <2> QED BY <2>1, <2>2
<1>3. \/ disk' = d /\ work' = d /\ holder' = None
      \/ disk' = disk /\ work' = d /\ holder' = p
  BY <1>1, ProcessFacts DEF Ddl, Dml, Commit, DbInv
<1>4. Grows(d, d)
  BY DEF Grows
<1>5. DbInv'
  <2>1. CASE disk' = d /\ work' = d /\ holder' = None
    <3>1. KeysHold(disk)' /\ KeysHold(work)' /\ Grows(disk, work)'
      BY <1>4, <2>1 DEF KeysHold, Grows
    <3> QED BY <2>1, <3>1 DEF DbInv
  <2>2. CASE disk' = disk /\ work' = d /\ holder' = p
    <3>1. KeysHold(disk)' /\ KeysHold(work)' /\ Grows(disk, work)'
      BY <1>2, <2>2 DEF KeysHold, Grows, DbInv
    <3> QED BY <2>2, <3>1, ProcessFacts DEF DbInv
  <2> QED BY <1>3, <2>1, <2>2
<1>6. Grows(disk, disk')
  BY <1>2, <1>3 DEF Grows
<1>7. Local(p)
  BY <1>1, <1>3, ProcessFacts DEF Local
<1> QED BY <1>5, <1>6, <1>7 DEF Sound

\* The names of the tables and of the tables that replace them.
LEMMA TableFacts ==
    /\ Keyed \subseteq Children /\ Children \subseteq Tables /\ Tables \subseteq Stores
    /\ \A t \in Keyed : TmpOf[t] \in Stores /\ TmpOf[t] \notin Tables
<1>1. /\ TmpOf["metrics"] = "_alembic_tmp_metrics"
      /\ TmpOf["equity_curve"] = "_alembic_tmp_equity_curve"
  BY DEF TmpOf
<1>2. Keyed = {"equity_curve", "metrics"}
  BY DEF Keyed
<1>3. \A t \in Keyed : TmpOf[t] \notin Tables
  BY <1>1, <1>2 DEF Tables, Children
<1> QED BY <1>3 DEF Keyed, Children, Tables, Stores

LEMMA ViewFacts ==
    ASSUME DbInv, NEW p
    PROVE  /\ View(p) \in Databases /\ KeysHold(View(p))
           /\ holder # p => View(p) = disk
           /\ holder = p => View(p) = work
BY DEF View, DbInv

\* Adding a named object changes no row and no constraint.
LEMMA ObjectsGrow ==
    ASSUME NEW d \in Databases, NEW S \in SUBSET (Stores \cup Indexes \cup {"alembic_version"}),
           KeysHold(d), NEW e, e = [d EXCEPT !.objects = @ \cup S]
    PROVE  e \in Databases /\ KeysHold(e) /\ Grows(d, e) /\ e.rows = d.rows
<1>1. e \in Databases /\ e.rows = d.rows /\ e.uniques = d.uniques
  BY DEF Databases
<1> QED BY <1>1 DEF KeysHold, Grows

LEMMA RevisionGrows ==
    ASSUME NEW d \in Databases, KeysHold(d), NEW rev \in Revisions,
           NEW e, e = [d EXCEPT !.rev = rev]
    PROVE  e \in Databases /\ KeysHold(e) /\ Grows(d, e) /\ e.rows = d.rows
<1>1. e \in Databases /\ e.rows = d.rows /\ e.uniques = d.uniques
  BY DEF Databases
<1> QED BY <1>1 DEF KeysHold, Grows

-----------------------------------------------------------------------------
(* The migrators.                                                          *)

\* Where a migrator may be inside the transaction its first INSERT opened.
InTransaction ==
    {"swap_metrics", "tmp_equity_curve", "copy_equity_curve", "swap_equity_curve",
     "create_indexes", "head_row"}

\* Before t is replaced: the replacement is a full copy that the key admits.
Copied(m, t, step) ==
    at[m] = step =>
      holder = m /\ work.rows[TmpOf[t]] = work.rows[t] /\ ~Duplicates(work.rows[t])

MigratorInv(m) ==
    /\ holder = m => at[m] \in InTransaction
    /\ Copied(m, "metrics", "swap_metrics")
    /\ Copied(m, "equity_curve", "swap_equity_curve")

AtOK == at \in [Migrators -> Steps]

LEMMA MigratorsAreProcesses == \A m \in Migrators : m \in Processes /\ m # None /\ m # Api
BY DatabaseAssumption DEF Processes

LEMMA AtMoves ==
    ASSUME AtOK, NEW m \in Migrators, NEW to \in Steps, at' = [at EXCEPT ![m] = to]
    PROVE  AtOK' /\ at'[m] = to /\ \A q \in Migrators : q # m => at'[q] = at[q]
BY DEF AtOK

\* Another process's step keeps what is known of a migrator.
LEMMA LocalKeepsMigrator ==
    ASSUME NEW m \in Migrators, MigratorInv(m), NEW p \in Processes, p # m, Local(p),
           at'[m] = at[m]
    PROVE  MigratorInv(m)'
BY MigratorsAreProcesses DEF MigratorInv, Copied, Local

\* A migrator that is not about to swap has nothing to know but its place.
LEMMA MigratorAt ==
    ASSUME NEW m \in Migrators, at'[m] \notin {"swap_metrics", "swap_equity_curve"},
           holder' = m => at'[m] \in InTransaction
    PROVE  MigratorInv(m)'
BY DEF MigratorInv, Copied

\* What a step of m is shown to do.
Kept(m) == Sound(m) /\ AtOK' /\ MigratorInv(m)' /\ \A q \in Migrators : q # m => at'[q] = at[q]

LEMMA RaisesKeeps ==
    ASSUME DbInv, AtOK, NEW m \in Migrators, Rollback(m), at' = [at EXCEPT ![m] = "failed"]
    PROVE  Kept(m)
<1>1. "failed" \in Steps
  BY DEF Steps, Idle
<1>2. Sound(m) /\ holder' # m
  BY RollbackIsSound, MigratorsAreProcesses
<1>3. AtOK' /\ at'[m] = "failed" /\ \A q \in Migrators : q # m => at'[q] = at[q]
  BY <1>1, AtMoves
<1>4. MigratorInv(m)'
  BY <1>2, <1>3, MigratorAt
<1> QED BY <1>2, <1>3, <1>4 DEF Kept

\* A step that reads, by a migrator in no transaction.
LEMMA ReadKeeps ==
    ASSUME DbInv, AtOK, NEW m \in Migrators, ReadOnly, holder # m,
           NEW to \in Steps \ {"swap_metrics", "swap_equity_curve"}, at' = [at EXCEPT ![m] = to]
    PROVE  Kept(m)
<1>1. Sound(m) /\ holder' # m
  BY ReadOnlyIsSound, MigratorsAreProcesses DEF ReadOnly
<1>2. AtOK' /\ at'[m] = to /\ \A q \in Migrators : q # m => at'[q] = at[q]
  BY AtMoves
<1>3. MigratorInv(m)'
  BY <1>1, <1>2, MigratorAt
<1> QED BY <1>1, <1>2, <1>3 DEF Kept

\* A statement that commits at once, by a migrator in no transaction.
LEMMA CommittedKeeps ==
    ASSUME DbInv, AtOK, NEW m \in Migrators, holder # m, NEW d \in Databases, KeysHold(d),
           Grows(disk, d), Ddl(m, d) \/ Commit(m, d),
           NEW to \in Steps \ {"swap_metrics", "swap_equity_curve"}, at' = [at EXCEPT ![m] = to]
    PROVE  Kept(m)
<1>1. Sound(m)
  BY WriteIsSound, MigratorsAreProcesses DEF View
<1>2. holder' # m
  BY MigratorsAreProcesses DEF Ddl, Commit
<1>3. AtOK' /\ at'[m] = to /\ \A q \in Migrators : q # m => at'[q] = at[q]
  BY AtMoves
<1>4. MigratorInv(m)'
  BY <1>2, <1>3, MigratorAt
<1> QED BY <1>1, <1>3, <1>4 DEF Kept

\* Outside a transaction: m's place says so.
LEMMA NotHolder ==
    ASSUME NEW m \in Migrators, MigratorInv(m), at[m] \notin InTransaction
    PROVE  holder # m
BY DEF MigratorInv

\* The answers of assess_schema; "current" vouches for the constraints.
LEMMA AssessFacts ==
    ASSUME NEW d \in Databases
    PROVE  /\ Assess(d) \in {"empty", "unknown", "baseline_unversioned", "baseline_versioned",
                             "current"}
           /\ Assess(d) = "current" => d.uniques = Keyed
<1>1. d.rev \in {Baseline, HeadRevision, None}
  BY DEF Databases, Revisions, Baseline, HeadRevision
<1>2. d.objects = {} => Assess(d) = "empty"
  BY DEF Assess
<1>3. d.objects # {} /\ (StructureDiffers(d) \/ IndexesDiffer(d) \/ MetadataDiffers(d))
        => Assess(d) = "unknown"
  BY DEF Assess
<1>4. ASSUME d.objects # {}, ~(StructureDiffers(d) \/ IndexesDiffer(d) \/ MetadataDiffers(d))
      PROVE  /\ Assess(d) \in {"baseline_unversioned", "baseline_versioned", "current"}
             /\ Assess(d) = "current" => d.rev = HeadRevision
  BY <1>1, <1>4 DEF Assess, Baseline, HeadRevision
<1>5. ~StructureDiffers(d) /\ d.rev = HeadRevision => d.uniques = Keyed
  BY DEF StructureDiffers, Hardened
<1> QED BY <1>2, <1>3, <1>4, <1>5

LEMMA AssessInitialKeeps ==
    ASSUME DbInv, AtOK, NEW m \in Migrators, MigratorInv(m), AssessInitial(m)
    PROVE  Kept(m)
<1> DEFINE to == [empty |-> "upgrade", baseline_unversioned |-> "preflight_unversioned",
                  baseline_versioned |-> "preflight", current |-> "final",
                  unknown |-> "failed"][Assess(disk)]
<1>1. disk \in Databases
  BY DEF DbInv
<1>2. to \in {"upgrade", "preflight_unversioned", "preflight", "final", "failed"}
  BY <1>1, AssessFacts
<1>3. to \in Steps \ {"swap_metrics", "swap_equity_curve"}
  BY <1>2 DEF Steps, Idle
<1>4. holder # m
  BY NotHolder DEF AssessInitial, InTransaction
<1>5. ReadOnly /\ at' = [at EXCEPT ![m] = to]
  BY DEF AssessInitial
<1> HIDE DEF to
<1> QED BY <1>3, <1>4, <1>5, ReadKeeps

LEMMA PreflightKeeps ==
    ASSUME DbInv, AtOK, NEW m \in Migrators, MigratorInv(m), NEW from, NEW to,
           from \notin InTransaction, to \in Steps \ {"swap_metrics", "swap_equity_curve"},
           RunPreflight(m, from, to)
    PROVE  Kept(m)
<1>1. PICK next \in {"failed", to} : at' = [at EXCEPT ![m] = next]
  BY DEF RunPreflight, Goes
<1>2. next \in Steps \ {"swap_metrics", "swap_equity_curve"}
  BY DEF Steps, Idle
<1>3. holder # m /\ ReadOnly
  BY NotHolder DEF RunPreflight, Goes
<1> QED BY <1>1, <1>2, <1>3, ReadKeeps

LEMMA StampKeeps ==
    ASSUME DbInv, AtOK, NEW m \in Migrators, MigratorInv(m),
           StampTable(m) \/ StampRow(m) \/ BaselineRow(m)
    PROVE  Kept(m)
<1>1. PICK to \in {"stamp_row", "upgrade", "harden"} :
        /\ at' = [at EXCEPT ![m] = to]
        /\ at[m] \in {"stamp", "stamp_row", "baseline_row"}
  BY DEF StampTable, StampRow, BaselineRow, Goes
<1>2. holder # m /\ to \in Steps \ {"swap_metrics", "swap_equity_curve"}
  BY <1>1, NotHolder DEF InTransaction, Steps
<1>3. PICK d : /\ d = WithTable(disk, "alembic_version") \/ d = [disk EXCEPT !.rev = Baseline]
               /\ Ddl(m, d) \/ Commit(m, d)
  BY DEF StampTable, StampRow, BaselineRow
<1>4. disk \in Databases /\ KeysHold(disk)
  BY DEF DbInv
<1>5. d \in Databases /\ KeysHold(d) /\ Grows(disk, d)
  <2>1. CASE d = WithTable(disk, "alembic_version")
    <3>1. d = [disk EXCEPT !.objects = @ \cup {"alembic_version"}]
      BY <2>1 DEF WithTable
    <3> QED BY <1>4, <3>1, ObjectsGrow
  <2>2. CASE d = [disk EXCEPT !.rev = Baseline]
    <3>1. Baseline \in Revisions
      BY DEF Baseline, Revisions
    <3> QED BY <1>4, <2>2, <3>1, RevisionGrows
  <2> QED BY <1>3, <2>1, <2>2
<1> QED BY <1>1, <1>2, <1>3, <1>5, CommittedKeeps

LEMMA ReadRevisionKeeps ==
    ASSUME DbInv, AtOK, NEW m \in Migrators, MigratorInv(m), ReadRevision(m)
    PROVE  Kept(m)
<1>1. disk.rev \in {None, Baseline, HeadRevision} /\ disk \in Databases /\ KeysHold(disk)
  BY DEF DbInv, Databases, Revisions, Baseline, HeadRevision
<1> DEFINE to == CASE disk.rev = None -> "create_backtest_runs"
                  [] disk.rev = Baseline -> "harden"
                  [] disk.rev = HeadRevision -> "final"
<1>2. to \in {"create_backtest_runs", "harden", "final"} /\ at' = [at EXCEPT ![m] = to]
  <2>1. to \in {"create_backtest_runs", "harden", "final"}
    BY <1>1
  <2> QED BY <2>1 DEF ReadRevision, Goes
<1> HIDE DEF to
<1>3. holder # m /\ to \in Steps \ {"swap_metrics", "swap_equity_curve"}
  BY <1>2, NotHolder DEF ReadRevision, Goes, InTransaction, Steps
<1>4. CASE ReadOnly
  BY <1>2, <1>3, <1>4, ReadKeeps
<1>5. CASE Ddl(m, WithTable(disk, "alembic_version"))
  <2> DEFINE d == WithTable(disk, "alembic_version")
  <2>1. d = [disk EXCEPT !.objects = @ \cup {"alembic_version"}]
    BY DEF WithTable
  <2> HIDE DEF d
  <2>2. d \in Databases /\ KeysHold(d) /\ Grows(disk, d)
    BY <1>1, <2>1, ObjectsGrow
  <2>3. Ddl(m, d)
    BY <1>5 DEF d
  <2> QED BY <1>2, <1>3, <2>2, <2>3, CommittedKeeps
<1> QED BY <1>4, <1>5 DEF ReadRevision

LEMMA CreateTableKeeps ==
    ASSUME DbInv, AtOK, NEW m \in Migrators, MigratorInv(m), NEW table \in Tables, NEW from, NEW to,
           from \notin InTransaction, to \in Steps \ {"swap_metrics", "swap_equity_curve"},
           CreateTable(m, table, from, to)
    PROVE  Kept(m)
<1>1. CASE Raises(m, from)
  BY <1>1, RaisesKeeps DEF Raises, Goes
<1>2. CASE Goes(m, from, to) /\ Ddl(m, WithTable(disk, table))
  <2> DEFINE d == WithTable(disk, table)
  <2>1. d = [disk EXCEPT !.objects = @ \cup {table}]
    BY DEF WithTable
  <2> HIDE DEF d
  <2>2. disk \in Databases /\ KeysHold(disk)
    BY DEF DbInv
  <2>3. d \in Databases /\ KeysHold(d) /\ Grows(disk, d)
    <3>1. {table} \in SUBSET (Stores \cup Indexes \cup {"alembic_version"})
      BY TableFacts
    <3> QED BY <2>1, <2>2, <3>1, ObjectsGrow
  <2>4. Ddl(m, d) /\ holder # m /\ at' = [at EXCEPT ![m] = to]
    BY <1>2, NotHolder DEF d, Goes
  <2> QED BY <2>3, <2>4, CommittedKeeps
<1> QED BY <1>1, <1>2 DEF CreateTable

\* A statement that leaves m where it was, in a transaction or outside one.
LEMMA DdlKeeps ==
    ASSUME DbInv, AtOK, NEW m \in Migrators, MigratorInv(m), NEW d \in Databases, KeysHold(d),
           Grows(View(m), d), Ddl(m, d), NEW from, NEW to \in Steps, Goes(m, from, to),
           to \notin {"swap_metrics", "swap_equity_curve"},
           from \in InTransaction => to \in InTransaction
    PROVE  Kept(m)
<1>1. Sound(m) /\ holder' = holder
  BY WriteIsSound, MigratorsAreProcesses DEF Ddl
<1>2. AtOK' /\ at'[m] = to /\ at[m] = from /\ \A q \in Migrators : q # m => at'[q] = at[q]
  BY AtMoves DEF Goes
<1>3. MigratorInv(m)'
  BY <1>1, <1>2, MigratorAt, NotHolder
<1> QED BY <1>1, <1>2, <1>3 DEF Kept

LEMMA CreateTmpKeeps ==
    ASSUME DbInv, AtOK, NEW m \in Migrators, MigratorInv(m), NEW t \in Keyed, NEW from,
           NEW to \in Steps \ {"swap_metrics", "swap_equity_curve"},
           from \in InTransaction => to \in InTransaction, CreateTmp(m, t, from, to)
    PROVE  Kept(m)
<1>1. CASE Raises(m, from)
  BY <1>1, RaisesKeeps DEF Raises, Goes
<1>2. CASE Goes(m, from, to) /\ Ddl(m, WithTable(View(m), TmpOf[t]))
  <2> DEFINE d == WithTable(View(m), TmpOf[t])
  <2>1. d = [View(m) EXCEPT !.objects = @ \cup {TmpOf[t]}]
    BY DEF WithTable
  <2> HIDE DEF d
  <2>2. {TmpOf[t]} \in SUBSET (Stores \cup Indexes \cup {"alembic_version"})
    BY TableFacts
  <2>3. d \in Databases /\ KeysHold(d) /\ Grows(View(m), d)
    BY <2>1, <2>2, ViewFacts, ObjectsGrow
  <2>4. Ddl(m, d) /\ Goes(m, from, to)
    BY <1>2 DEF d
  <2> QED BY <2>3, <2>4, DdlKeeps
<1> QED BY <1>1, <1>2 DEF CreateTmp

LEMMA CreateIndexesKeeps ==
    ASSUME DbInv, AtOK, NEW m \in Migrators, MigratorInv(m), CreateIndexes(m)
    PROVE  Kept(m)
<1>1. CASE Raises(m, "create_indexes")
  BY <1>1, RaisesKeeps DEF Raises, Goes
<1>2. CASE /\ Goes(m, "create_indexes", "head_row")
           /\ Ddl(m, [View(m) EXCEPT !.objects = @ \cup Indexes])
  <2> DEFINE d == [View(m) EXCEPT !.objects = @ \cup Indexes]
  <2> HIDE DEF d
  <2>1. d \in Databases /\ KeysHold(d) /\ Grows(View(m), d)
    BY ViewFacts, ObjectsGrow DEF d
  <2>2. Ddl(m, d) /\ Goes(m, "create_indexes", "head_row")
    BY <1>2 DEF d
  <2>3. /\ "head_row" \in Steps /\ "head_row" \in InTransaction
        /\ "head_row" \notin {"swap_metrics", "swap_equity_curve"}
    BY DEF Steps, InTransaction
  <2> QED BY <2>1, <2>2, <2>3, DdlKeeps
<1> QED BY <1>1, <1>2 DEF CreateIndexes

LEMMA HeadRowKeeps ==
    ASSUME DbInv, AtOK, NEW m \in Migrators, MigratorInv(m), HeadRow(m)
    PROVE  Kept(m)
<1> DEFINE d == [View(m) EXCEPT !.rev = HeadRevision]
<1> HIDE DEF d
<1>1. HeadRevision \in Revisions /\ "final" \in Steps
  BY DEF HeadRevision, Revisions, Steps
<1>2. d \in Databases /\ KeysHold(d) /\ Grows(View(m), d)
  BY <1>1, ViewFacts, RevisionGrows DEF d
<1>3. Commit(m, d) /\ at' = [at EXCEPT ![m] = "final"]
  BY DEF HeadRow, Goes, d
<1>4. Sound(m) /\ holder' # m
  BY <1>2, <1>3, WriteIsSound, MigratorsAreProcesses DEF Commit
<1>5. AtOK' /\ at'[m] = "final" /\ \A q \in Migrators : q # m => at'[q] = at[q]
  BY <1>1, <1>3, AtMoves
<1>6. MigratorInv(m)'
  BY <1>4, <1>5, MigratorAt
<1> QED BY <1>4, <1>5, <1>6 DEF Kept

\* The copy opens the transaction and is refused if the key admits it not.
LEMMA CopyRowsKeeps ==
    ASSUME DbInv, AtOK, NEW m \in Migrators, MigratorInv(m), NEW t \in Keyed, NEW from, NEW to,
           \/ t = "metrics" /\ to = "swap_metrics"
           \/ t = "equity_curve" /\ to = "swap_equity_curve",
           CopyRows(m, t, from, to)
    PROVE  Kept(m)
<1>1. CASE Raises(m, from)
  BY <1>1, RaisesKeeps DEF Raises, Goes
<1>2. CASE /\ ~Duplicates(View(m).rows[t])
           /\ Goes(m, from, to)
           /\ Dml(m, [View(m) EXCEPT !.rows[TmpOf[t]] = View(m).rows[t]])
  <2> DEFINE d == [View(m) EXCEPT !.rows[TmpOf[t]] = View(m).rows[t]]
  <2>1. View(m) \in Databases /\ KeysHold(View(m))
    BY ViewFacts
  <2>2. t \in Stores /\ t # TmpOf[t] /\ TmpOf[t] \in Stores /\ TmpOf[t] \notin Tables
    BY TableFacts
  <2>3. /\ d \in Databases /\ d.uniques = View(m).uniques
        /\ \A s \in Stores : s # TmpOf[t] => d.rows[s] = View(m).rows[s]
        /\ d.rows[TmpOf[t]] = View(m).rows[t]
    BY <2>1, <2>2 DEF Databases
  <2>4. Dml(m, d)
    BY <1>2
  <2> HIDE DEF d
  <2>5. \A s \in Tables : d.rows[s] = View(m).rows[s]
    BY <2>2, <2>3, TableFacts
  <2>6. KeysHold(d) /\ Grows(View(m), d)
    BY <2>1, <2>3, <2>5, TableFacts DEF KeysHold, Grows
  <2>7. Sound(m) /\ holder' = m /\ work' = d
    BY <2>3, <2>4, <2>6, WriteIsSound, MigratorsAreProcesses DEF Dml
  <2>8. to \in Steps /\ to \in InTransaction
    BY DEF Steps, InTransaction
  <2>9. AtOK' /\ at'[m] = to /\ \A q \in Migrators : q # m => at'[q] = at[q]
    BY <1>2, <2>8, AtMoves DEF Goes
  <2>10. /\ work'.rows[TmpOf[t]] = work'.rows[t]
         /\ ~Duplicates(work'.rows[t])
    BY <1>2, <2>2, <2>3, <2>7
  <2>11. MigratorInv(m)'
    <3>1. CASE t = "metrics" /\ to = "swap_metrics"
      BY <2>7, <2>8, <2>9, <2>10, <3>1 DEF MigratorInv, Copied, Duplicates
    <3>2. CASE t = "equity_curve" /\ to = "swap_equity_curve"
      BY <2>7, <2>8, <2>9, <2>10, <3>2 DEF MigratorInv, Copied, Duplicates
    <3> QED BY <3>1, <3>2
  <2> QED BY <2>7, <2>9, <2>11 DEF Kept
<1> QED BY <1>1, <1>2 DEF CopyRows

\* The swap puts the copy in the place of the table, and with it the key.
LEMMA SwapTablesKeeps ==
    ASSUME DbInv, AtOK, NEW m \in Migrators, MigratorInv(m), NEW t \in Keyed, NEW from,
           NEW to \in Steps \ {"swap_metrics", "swap_equity_curve"}, to \in InTransaction,
           \/ t = "metrics" /\ from = "swap_metrics"
           \/ t = "equity_curve" /\ from = "swap_equity_curve",
           SwapTables(m, t, from, to)
    PROVE  Kept(m)
<1> DEFINE d == [View(m) EXCEPT !.objects = @ \ {TmpOf[t]}, !.uniques = @ \cup {t},
                                !.rows[t] = View(m).rows[TmpOf[t]], !.rows[TmpOf[t]] = {}]
<1>1. holder = m /\ work.rows[TmpOf[t]] = work.rows[t] /\ ~Duplicates(work.rows[t])
  BY DEF SwapTables, Goes, MigratorInv, Copied
<1>2. View(m) = work /\ View(m) \in Databases /\ KeysHold(View(m))
  BY <1>1, ViewFacts
<1>3. t \in Stores /\ t # TmpOf[t] /\ TmpOf[t] \in Stores /\ TmpOf[t] \notin Tables
  BY TableFacts
<1>4. /\ d \in Databases /\ d.uniques = View(m).uniques \cup {t}
      /\ \A s \in Stores : s \notin {t, TmpOf[t]} => d.rows[s] = View(m).rows[s]
      /\ d.rows[t] = View(m).rows[TmpOf[t]]
  BY <1>2, <1>3 DEF Databases
<1>5. Ddl(m, d) /\ Goes(m, from, to)
  BY DEF SwapTables
<1> HIDE DEF d
<1>6. \A s \in Tables : d.rows[s] = work.rows[s]
  BY <1>1, <1>2, <1>3, <1>4, TableFacts
<1>7. KeysHold(d) /\ Grows(View(m), d)
  <2>1. Grows(View(m), d)
    BY <1>2, <1>4, <1>6 DEF Grows
  <2>2. ASSUME NEW s \in Keyed, s \in d.uniques PROVE ~Duplicates(d.rows[s])
    BY <1>1, <1>2, <1>4, <1>6, <2>2, TableFacts DEF KeysHold
  <2> QED BY <2>1, <2>2 DEF KeysHold
<1> QED BY <1>4, <1>5, <1>7, DdlKeeps

LEMMA AssessFinalKeeps ==
    ASSUME DbInv, AtOK, NEW m \in Migrators, MigratorInv(m), AssessFinal(m)
    PROVE  Kept(m)
<1>1. PICK to \in {"done", "failed"} : at' = [at EXCEPT ![m] = to]
  BY DEF AssessFinal, Goes
<1>2. to \in Steps \ {"swap_metrics", "swap_equity_curve"}
  BY DEF Steps, Idle
<1>3. holder # m /\ ReadOnly
  BY NotHolder DEF AssessFinal, Goes, InTransaction
<1> QED BY <1>1, <1>2, <1>3, ReadKeeps

LEMMA AgainKeeps ==
    ASSUME DbInv, AtOK, NEW m \in Migrators, MigratorInv(m), Again(m)
    PROVE  Kept(m)
<1>1. "idle" \in Steps \ {"swap_metrics", "swap_equity_curve"}
  BY DEF Steps, Idle
<1>2. holder # m /\ ReadOnly /\ at' = [at EXCEPT ![m] = "idle"]
  BY NotHolder DEF Again, InTransaction
<1> QED BY <1>1, <1>2, ReadKeeps

\* Every step of upgrade_database, whole or interrupted.
LEMMA MigrateKeeps ==
    ASSUME DbInv, AtOK, NEW m \in Migrators, MigratorInv(m), Migrate(m)
    PROVE  Kept(m)
<1> DEFINE Plain == Steps \ {"swap_metrics", "swap_equity_curve"}
<1>1. /\ {"stamp", "upgrade", "tmp_metrics", "create_trades", "create_equity_curve",
          "create_metrics", "baseline_row", "copy_metrics", "tmp_equity_curve",
          "copy_equity_curve", "create_indexes"} \subseteq Plain
      /\ {"preflight_unversioned", "preflight", "harden", "create_backtest_runs",
          "create_trades", "create_equity_curve", "create_metrics", "tmp_metrics"}
           \cap InTransaction = {}
      /\ {"tmp_equity_curve", "copy_equity_curve", "create_indexes"} \subseteq InTransaction
      /\ "metrics" \in Keyed /\ "equity_curve" \in Keyed
      /\ {"backtest_runs", "trades", "equity_curve", "metrics"} \subseteq Tables
  BY DEF Steps, InTransaction, Keyed, Tables, Children
<1> HIDE DEF Plain
<1>2. CASE AssessInitial(m)
  BY <1>2, AssessInitialKeeps
<1>3. CASE \/ RunPreflight(m, "preflight_unversioned", "stamp")
           \/ RunPreflight(m, "preflight", "upgrade")
           \/ RunPreflight(m, "harden", "tmp_metrics")
  BY <1>1, <1>3, PreflightKeeps DEF Plain
<1>4. CASE StampTable(m) \/ StampRow(m) \/ BaselineRow(m)
  BY <1>4, StampKeeps
<1>5. CASE ReadRevision(m)
  BY <1>5, ReadRevisionKeeps
<1>6. CASE CreateBaseline(m)
  <2>1. CASE CreateTable(m, "backtest_runs", "create_backtest_runs", "create_trades")
    BY <1>1, <2>1, CreateTableKeeps DEF Plain
  <2>2. CASE CreateTable(m, "trades", "create_trades", "create_equity_curve")
    BY <1>1, <2>2, CreateTableKeeps DEF Plain
  <2>3. CASE CreateTable(m, "equity_curve", "create_equity_curve", "create_metrics")
    BY <1>1, <2>3, CreateTableKeeps DEF Plain
  <2>4. CASE CreateTable(m, "metrics", "create_metrics", "baseline_row")
    BY <1>1, <2>4, CreateTableKeeps DEF Plain
  <2> QED BY <1>6, <2>1, <2>2, <2>3, <2>4 DEF CreateBaseline
<1>7. CASE Harden(m)
  <2>1. CASE CreateTmp(m, "metrics", "tmp_metrics", "copy_metrics")
    BY <1>1, <2>1, CreateTmpKeeps DEF Plain
  <2>2. CASE CopyRows(m, "metrics", "copy_metrics", "swap_metrics")
    BY <1>1, <2>2, CopyRowsKeeps
  <2>3. CASE SwapTables(m, "metrics", "swap_metrics", "tmp_equity_curve")
    BY <1>1, <2>3, SwapTablesKeeps DEF Plain
  <2>4. CASE CreateTmp(m, "equity_curve", "tmp_equity_curve", "copy_equity_curve")
    BY <1>1, <2>4, CreateTmpKeeps DEF Plain
  <2>5. CASE CopyRows(m, "equity_curve", "copy_equity_curve", "swap_equity_curve")
    BY <1>1, <2>5, CopyRowsKeeps
  <2>6. CASE SwapTables(m, "equity_curve", "swap_equity_curve", "create_indexes")
    BY <1>1, <2>6, SwapTablesKeeps DEF Plain
  <2>7. CASE CreateIndexes(m)
    BY <2>7, CreateIndexesKeeps
  <2>8. CASE HeadRow(m)
    BY <2>8, HeadRowKeeps
  <2> QED BY <1>3, <1>7, <2>1, <2>2, <2>3, <2>4, <2>5, <2>6, <2>7, <2>8 DEF Harden
<1>8. CASE AssessFinal(m)
  BY <1>8, AssessFinalKeeps
<1>9. CASE Interrupt(m)
  BY <1>9, RaisesKeeps DEF Interrupt
<1>10. CASE Again(m)
  BY <1>10, AgainKeeps
<1> QED BY <1>2, <1>3, <1>4, <1>5, <1>6, <1>7, <1>8, <1>9, <1>10 DEF Migrate

-----------------------------------------------------------------------------
(* The API server.                                                         *)

Saving == {"run_inserted", "children_inserted"}

\* The server holds the write lock exactly while it saves; the run it saves is
\* in its transaction only, its parent first and whole before the commit.
ApiInv ==
    /\ api \in Saving \cup {"down", "up"}
    /\ holder = Api <=> api \in Saving
    /\ api \in Saving => saving \in Runs /\ \A t \in Tables : saving \notin RunsOf(disk.rows[t])
    /\ api = "run_inserted" =>
         /\ saving \in RunsOf(work.rows["backtest_runs"])
         /\ \A t \in Children : saving \notin RunsOf(work.rows[t])
    /\ api = "children_inserted" => \A t \in Tables : saving \in RunsOf(work.rows[t])
    /\ api # "down" => Keyed \subseteq disk.uniques

\* A run the API answered 201 for is whole, in a database with natural keys.
SavedInv ==
    /\ saved # {} => Keyed \subseteq disk.uniques
    /\ \A r \in saved : \A t \in Tables : r \in RunsOf(disk.rows[t])

LEMMA RunsOfGrows ==
    ASSUME NEW d, NEW e, Grows(d, e), NEW t \in Tables
    PROVE  RunsOf(d.rows[t]) \subseteq RunsOf(e.rows[t])
BY DEF Grows, RunsOf

LEMMA RowIsOfItsRun ==
    ASSUME NEW rows, NEW r, NEW c, <<r, c>> \in rows
    PROVE  r \in RunsOf(rows)
<1>1. <<r, c>>[1] = r
  OBVIOUS
<1> QED BY <1>1 DEF RunsOf

LEMMA GrowsKeepsSaved ==
    ASSUME SavedInv, Grows(disk, disk'), saved' = saved
    PROVE  SavedInv'
<1>1. disk.uniques \subseteq disk'.uniques
  BY DEF Grows
<1>2. \A t \in Tables : RunsOf(disk.rows[t]) \subseteq RunsOf(disk'.rows[t])
  BY RunsOfGrows
<1>3. \A t \in Tables : RunsOf(disk.rows[t])' = RunsOf(disk'.rows[t])
  BY DEF RunsOf
<1> QED BY <1>1, <1>2, <1>3 DEF SavedInv

LEMMA LocalKeepsApi ==
    ASSUME ApiInv, NEW m \in Migrators, Local(m), Grows(disk, disk'), UNCHANGED <<api, saving>>
    PROVE  ApiInv'
<1>1. Api \in Processes /\ Api # m
  BY DatabaseAssumption DEF Processes
<1>2. holder' = Api <=> holder = Api
  BY <1>1 DEF Local
<1>3. disk.uniques \subseteq disk'.uniques
  BY DEF Grows
<1>4. CASE api \in Saving
  <2>1. disk' = disk /\ work' = work
    BY <1>1, <1>4 DEF ApiInv, Local
  <2> QED BY <1>2, <2>1 DEF ApiInv, RunsOf
<1>5. CASE api \notin Saving
  BY <1>2, <1>3, <1>5 DEF ApiInv, Saving
<1> QED BY <1>4, <1>5

LEMMA StartApiKeeps ==
    ASSUME DbInv, ApiInv, StartApi
    PROVE  ApiInv'
<1>1. disk.uniques = Keyed
  BY AssessFacts DEF StartApi, VerifySchemaCurrent, DbInv
<1>2. api = "down" /\ api' = "up" /\ UNCHANGED <<disk, work, holder, saving>>
  BY DEF StartApi
<1>3. holder' # Api
  BY <1>2 DEF ApiInv, Saving
<1> QED BY <1>1, <1>2, <1>3 DEF ApiInv, Saving

LEMMA InsertRunKeeps ==
    ASSUME DbInv, ApiInv, NEW r \in Runs, SaveInsertRun(r)
    PROVE  Sound(Api) /\ ApiInv' /\ disk' = disk
<1>1. PICK c \in Copies : Dml(Api, [disk EXCEPT !.rows["backtest_runs"] = @ \cup {<<r, c>>}])
  BY DEF SaveInsertRun
<1> DEFINE d == [disk EXCEPT !.rows["backtest_runs"] = @ \cup {<<r, c>>}]
<1>2. holder # Api /\ View(Api) = disk /\ Api \in Processes
  BY DEF SaveInsertRun, ApiInv, Saving, View, Processes
<1>3. disk \in Databases /\ KeysHold(disk)
  BY DEF DbInv
<1>4. "backtest_runs" \in Stores /\ "backtest_runs" \notin Children /\ <<r, c>> \in Rows
  BY DEF Stores, Tables, Children, Rows
<1>5. /\ d \in Databases /\ d.uniques = disk.uniques
      /\ \A t \in Stores : t # "backtest_runs" => d.rows[t] = disk.rows[t]
      /\ d.rows["backtest_runs"] = disk.rows["backtest_runs"] \cup {<<r, c>>}
  BY <1>3, <1>4 DEF Databases
<1>6. Dml(Api, d)
  BY <1>1
<1> HIDE DEF d
<1>7. \A t \in Children : d.rows[t] = disk.rows[t]
  BY <1>4, <1>5, TableFacts
<1>8. KeysHold(d) /\ Grows(View(Api), d)
  <2>1. KeysHold(d)
    BY <1>3, <1>5, <1>7, TableFacts DEF KeysHold
  <2>2. \A t \in Tables : disk.rows[t] \subseteq d.rows[t]
    BY <1>5, TableFacts
  <2> QED BY <1>2, <1>5, <2>1, <2>2 DEF Grows
<1>9. Sound(Api) /\ holder' = Api /\ work' = d /\ disk' = disk
  BY <1>2, <1>5, <1>6, <1>8, WriteIsSound DEF Dml
<1>10. saving' = r /\ api' = "run_inserted"
  BY DEF SaveInsertRun
<1>11. \A t \in Stores : r \notin RunsOf(disk.rows[t])
  BY DEF SaveInsertRun, RunsOf
<1>12. r \in RunsOf(d.rows["backtest_runs"])
  BY <1>5, RowIsOfItsRun
<1>13. /\ \A t \in Tables : r \notin RunsOf(disk'.rows[t])
       /\ r \in RunsOf(work'.rows["backtest_runs"])
       /\ \A t \in Children : r \notin RunsOf(work'.rows[t])
  BY <1>7, <1>9, <1>11, <1>12, TableFacts
<1>14. Keyed \subseteq disk'.uniques
  BY <1>9 DEF SaveInsertRun, ApiInv
<1>15. ApiInv'
  BY <1>9, <1>10, <1>13, <1>14 DEF ApiInv, Saving, RunsOf
<1> QED BY <1>9, <1>15

LEMMA InsertChildrenKeeps ==
    ASSUME DbInv, ApiInv, SaveInsertChildren
    PROVE  Sound(Api) /\ ApiInv' /\ disk' = disk
<1>1. /\ api = "run_inserted" /\ holder = Api /\ View(Api) = work /\ saving \in Runs
      /\ Api \in Processes
  BY DEF SaveInsertChildren, ApiInv, Saving, View, Processes
<1>2. PICK c \in Copies :
        Dml(Api, [work EXCEPT !.rows = [t \in Stores |->
                    IF t \in Children THEN @[t] \cup {<<saving, c>>} ELSE @[t]]])
  BY <1>1 DEF SaveInsertChildren
<1> DEFINE d == [work EXCEPT !.rows = [t \in Stores |->
                   IF t \in Children THEN @[t] \cup {<<saving, c>>} ELSE @[t]]]
<1>3. work \in Databases /\ KeysHold(work) /\ <<saving, c>> \in Rows
  BY <1>1 DEF DbInv, Rows
<1>4. /\ d \in Databases /\ d.uniques = work.uniques
      /\ \A t \in Stores : d.rows[t] = IF t \in Children THEN work.rows[t] \cup {<<saving, c>>}
                                       ELSE work.rows[t]
  BY <1>3 DEF Databases
<1>5. Dml(Api, d)
  BY <1>2
<1> HIDE DEF d
<1>6. \A t \in Children : \A row \in work.rows[t] : row[1] # saving
  BY <1>1 DEF ApiInv, RunsOf
<1>7. KeysHold(d)
  <2> SUFFICES ASSUME NEW t \in Keyed, t \in d.uniques, NEW a \in d.rows[t], NEW b \in d.rows[t],
                      a # b, a[1] = b[1]
               PROVE  FALSE
    BY DEF KeysHold, Duplicates
  <2>1. t \in Children /\ t \in Stores /\ ~Duplicates(work.rows[t])
    BY <1>3, <1>4, TableFacts DEF KeysHold
  <2>2. a \in work.rows[t] \cup {<<saving, c>>} /\ b \in work.rows[t] \cup {<<saving, c>>}
    BY <1>4, <2>1
  <2>3. a \notin work.rows[t] \/ b \notin work.rows[t]
    BY <2>1 DEF Duplicates
  <2>4. a[1] = saving /\ b[1] = saving
    BY <2>2, <2>3
  <2>5. a = <<saving, c>> /\ b = <<saving, c>>
    BY <1>6, <2>1, <2>2, <2>4
  <2> QED BY <2>5
<1>8. Grows(View(Api), d)
  BY <1>1, <1>4, TableFacts DEF Grows
<1>9. Sound(Api) /\ holder' = Api /\ work' = d /\ disk' = disk
  BY <1>1, <1>4, <1>5, <1>7, <1>8, WriteIsSound DEF Dml
<1>10. saving' = saving /\ api' = "children_inserted"
  BY DEF SaveInsertChildren
<1>11. \A t \in Tables : saving \in RunsOf(d.rows[t])
  <2>1. saving \in RunsOf(d.rows["backtest_runs"])
    BY <1>1, <1>4 DEF ApiInv, Stores, Tables, Children
  <2>2. \A t \in Children : <<saving, c>> \in d.rows[t]
    BY <1>4, TableFacts
  <2>3. \A t \in Children : saving \in RunsOf(d.rows[t])
    BY <2>2, RowIsOfItsRun
  <2> QED BY <2>1, <2>3 DEF Tables
<1>12. ApiInv'
  <2>1. \A t \in Tables : saving' \notin RunsOf(disk'.rows[t]) /\ saving' \in RunsOf(work'.rows[t])
    BY <1>1, <1>9, <1>10, <1>11 DEF ApiInv, Saving
  <2>2. Keyed \subseteq disk'.uniques /\ saving' \in Runs
    BY <1>1, <1>9, <1>10 DEF ApiInv
  <2> QED BY <1>9, <1>10, <2>1, <2>2 DEF ApiInv, Saving, RunsOf
<1> QED BY <1>9, <1>12

LEMMA CommitKeeps ==
    ASSUME DbInv, ApiInv, SavedInv, SaveCommit
    PROVE  Sound(Api) /\ ApiInv' /\ SavedInv'
<1>1. /\ api = "children_inserted" /\ holder = Api /\ View(Api) = work /\ Api \in Processes
      /\ saving \in Runs /\ \A t \in Tables : saving \in RunsOf(work.rows[t])
      /\ Keyed \subseteq disk.uniques
  BY DEF SaveCommit, ApiInv, Saving, View, Processes
<1>2. Commit(Api, work) /\ api' = "up" /\ saved' = saved \cup {saving}
  BY <1>1 DEF SaveCommit
<1>3. work \in Databases /\ KeysHold(work) /\ Grows(work, work) /\ Grows(disk, work)
  BY DEF DbInv, Grows
<1>4. Sound(Api)
  BY <1>1, <1>2, <1>3, WriteIsSound
<1>5. disk' = work /\ holder' # Api
  BY <1>1, <1>2, ProcessFacts DEF Commit
<1>6. Keyed \subseteq disk'.uniques
  BY <1>1, <1>3, <1>5 DEF Grows
<1>7. ApiInv'
  BY <1>2, <1>5, <1>6 DEF ApiInv, Saving
<1>8. \A r \in saved : \A t \in Tables : r \in RunsOf(work.rows[t])
  BY <1>3, RunsOfGrows DEF SavedInv
<1>9. \A r \in saved' : \A t \in Tables : r \in RunsOf(disk'.rows[t])
  BY <1>1, <1>2, <1>5, <1>8
<1>10. SavedInv'
  BY <1>6, <1>9 DEF SavedInv, RunsOf
<1> QED BY <1>4, <1>7, <1>10

LEMMA AbandonKeeps ==
    ASSUME DbInv, ApiInv, AbandonSave
    PROVE  Sound(Api) /\ ApiInv' /\ disk' = disk
<1>1. Api \in Processes /\ Rollback(Api)
  BY DEF AbandonSave, Processes
<1>2. Sound(Api) /\ holder' # Api
  BY <1>1, RollbackIsSound
<1>3. disk' = disk /\ api' \in {"up", "down"} /\ api # "down"
  BY <1>1 DEF AbandonSave, Rollback
<1>4. ApiInv'
  BY <1>2, <1>3 DEF ApiInv, Saving
<1> QED BY <1>2, <1>3, <1>4

\* A client that obeys the keys of the tables it writes to.
LEMMA OtherClientKeeps ==
    ASSUME DbInv, ApiInv, NEW t \in Tables, NEW row \in Rows, OtherClientInserts(t, row)
    PROVE  /\ DbInv' /\ Grows(disk, disk') /\ ApiInv'
           /\ holder = None /\ holder' = None
<1> DEFINE d == [disk EXCEPT !.rows[t] = @ \cup {row}]
<1>1. holder = None /\ holder' = None /\ disk' = d /\ work' = d /\ UNCHANGED <<api, saving>>
  BY DEF OtherClientInserts
<1>2. disk \in Databases /\ KeysHold(disk) /\ t \in Stores
  BY TableFacts DEF DbInv
<1>3. /\ d \in Databases /\ d.uniques = disk.uniques
      /\ \A s \in Stores : s # t => d.rows[s] = disk.rows[s]
      /\ d.rows[t] = disk.rows[t] \cup {row}
  BY <1>2 DEF Databases
<1> HIDE DEF d
<1>4. Grows(disk, d) /\ Grows(d, d)
  BY <1>3, TableFacts DEF Grows
<1>5. KeysHold(d)
  <2> SUFFICES ASSUME NEW s \in Keyed, s \in d.uniques PROVE ~Duplicates(d.rows[s])
    BY DEF KeysHold
  <2>1. ~Duplicates(disk.rows[s])
    BY <1>2, <1>3 DEF KeysHold
  <2>2. CASE s # t
    BY <1>3, <2>1, <2>2, TableFacts
  <2>3. CASE s = t
    <3>1. \A other \in disk.rows[t] : other[1] # row[1]
      BY <1>3, <2>3 DEF OtherClientInserts
    <3> QED BY <1>3, <2>1, <2>3, <3>1 DEF Duplicates
  <2> QED BY <2>2, <2>3
<1>6. DbInv'
  BY <1>1, <1>3, <1>4, <1>5 DEF DbInv, KeysHold, Grows
<1>7. Grows(disk, disk')
  BY <1>1, <1>4
<1>8. ApiInv'
  <2>1. api \notin Saving
    BY <1>1, ProcessFacts DEF ApiInv, Processes
  <2>2. holder' # Api
    BY <1>1, ProcessFacts DEF Processes
  <2> QED BY <1>1, <1>3, <2>1, <2>2 DEF ApiInv, Saving
<1> QED BY <1>1, <1>6, <1>7, <1>8

-----------------------------------------------------------------------------
(* Readers.                                                                *)

Kind(kind) == reading # None /\ reading.kind = kind

\* A read route asks only for runs it found, and found no saved run wanting.
RouteInv ==
    Kind("route") =>
      /\ reading \in [kind : {"route"}, todo : SUBSET (Runs \X Children),
                      empty : SUBSET (Runs \X Children)]
      /\ \A p \in reading.todo \cup reading.empty : p[1] \in RunIds(disk)
      /\ \A p \in reading.empty : p[1] \notin saved

\* An audit has called only runs defective that it found, and no saved one.
AuditInv ==
    Auditing =>
      /\ reading \in [kind : {"validate", "compare"}, scope : SUBSET Runs,
                      unclean : SUBSET Runs, queries : Seq(Queries), fatal : SUBSET Runs]
      /\ \A r \in reading.fatal : r \notin saved /\ \E t \in Tables : r \in RunsOf(disk.rows[t])

\* What is left of the catalogue as it is worked through.
FromMetrics == <<"duplicate_metrics", "duplicate_equity", "orphan_children">>
FromEquity == <<"duplicate_equity", "orphan_children">>
FromOrphans == <<"orphan_children">>

\* r is still ambiguous in a table whose query is still to come.
Pending(r) ==
    \/ /\ r \in DuplicateRuns(disk.rows["metrics"])
       /\ reading.queries \in {CatalogueQueries, FromMetrics}
    \/ /\ r \in DuplicateRuns(disk.rows["equity_curve"])
       /\ reading.queries \in {CatalogueQueries, FromMetrics, FromEquity}

\* A run that was ambiguous in the frame is found out, or is going to be.
CompareInv ==
    Kind("compare") =>
      /\ reading.queries \in {CatalogueQueries, FromMetrics, FromEquity, FromOrphans, <<>>}
      /\ \A r \in reading.unclean : r \in reading.scope /\ (r \in reading.fatal \/ Pending(r))

ReadInv == RouteInv /\ AuditInv /\ CompareInv /\ ExportIsChecked

LEMMA DuplicateRunsMeaning ==
    ASSUME NEW rows, NEW r
    PROVE  r \in DuplicateRuns(rows) <=> \E a, b \in rows : a # b /\ a[1] = r /\ b[1] = r
BY DEF DuplicateRuns, Duplicates, RunsOf

LEMMA DuplicateRunsGrow ==
    ASSUME NEW d, NEW e, Grows(d, e), NEW t \in Tables
    PROVE  DuplicateRuns(d.rows[t]) \subseteq DuplicateRuns(e.rows[t])
BY DuplicateRunsMeaning DEF Grows

\* While the database only grows and no run is saved that was on disk before, a
\* reader's knowledge stands.
LEMMA GrowsKeepsReader ==
    ASSUME ReadInv, Grows(disk, disk'), reading' = reading,
           \A r \in saved' : r \in saved \/ \A t \in Tables : r \notin RunsOf(disk.rows[t])
    PROVE  ReadInv'
<1>1. \A t \in Tables : RunsOf(disk.rows[t]) \subseteq RunsOf(disk'.rows[t])
  BY RunsOfGrows
<1>2. RunIds(disk) \subseteq RunIds(disk')
  BY <1>1 DEF RunIds, Tables
<1>3. /\ DuplicateRuns(disk.rows["metrics"]) \subseteq DuplicateRuns(disk'.rows["metrics"])
      /\ DuplicateRuns(disk.rows["equity_curve"]) \subseteq DuplicateRuns(disk'.rows["equity_curve"])
  BY DuplicateRunsGrow DEF Tables, Children
<1>4. RouteInv'
  <2>1. RunIds(disk)' = RunIds(disk')
    BY DEF RunIds, RunsOf
  <2>2. \A r \in RunIds(disk) : r \notin saved => r \notin saved'
    BY DEF RunIds, Tables
  <2> QED BY <1>2, <2>1, <2>2 DEF ReadInv, RouteInv, Kind
<1>5. AuditInv'
  BY <1>1 DEF ReadInv, AuditInv, Auditing, RunsOf
<1>6. CompareInv'
  <2>1. \A r : Pending(r) => Pending(r)'
    BY <1>3 DEF Pending, DuplicateRuns, RunsOf, Duplicates, CatalogueQueries, FromMetrics, FromEquity
  <2> QED BY <2>1 DEF ReadInv, CompareInv, Kind, CatalogueQueries, FromMetrics, FromEquity, FromOrphans
<1>7. ExportIsChecked'
  BY DEF ReadInv, ExportIsChecked
<1> QED BY <1>4, <1>5, <1>6, <1>7 DEF ReadInv

LEMMA NoReader == reading' = None => ReadInv'
BY DEF ReadInv, RouteInv, AuditInv, CompareInv, ExportIsChecked, Kind, Auditing

LEMMA RunIdsAreRuns == DbInv => RunIds(disk) \subseteq Runs
<1> SUFFICES ASSUME DbInv PROVE RunIds(disk) \subseteq Runs
  OBVIOUS
<1>1. disk.rows["backtest_runs"] \subseteq Runs \X Copies
  BY DEF DbInv, Databases, Rows, Stores, Tables
<1> QED BY <1>1 DEF RunIds, RunsOf

LEMMA BeginReadKeeps ==
    ASSUME DbInv, NEW found, NEW tables, tables \subseteq Children, BeginRead(found, tables)
    PROVE  ReadInv'
<1>1. /\ reading' = [kind |-> "route", todo |-> found \X tables, empty |-> {}]
      /\ disk' = disk /\ found \subseteq RunIds(disk)
  BY DEF BeginRead
<1>2. reading'.kind = "route" /\ reading'.todo = found \X tables /\ reading'.empty = {}
  BY <1>1
<1>3. found \X tables \subseteq Runs \X Children
  BY <1>1, RunIdsAreRuns
<1>4. \A p \in found \X tables : p[1] \in RunIds(disk)
  BY <1>1
<1>5. RunIds(disk)' = RunIds(disk)
  BY <1>1 DEF RunIds, RunsOf
<1>6. RouteInv'
  BY <1>1, <1>2, <1>3, <1>4, <1>5 DEF RouteInv
<1>7. AuditInv' /\ CompareInv' /\ ExportIsChecked'
  BY <1>2 DEF AuditInv, CompareInv, ExportIsChecked, Auditing, Kind
<1> QED BY <1>6, <1>7 DEF ReadInv

LEMMA SelectKeeps ==
    ASSUME ReadInv, SavedInv, NEW r \in Runs, NEW t \in Children, SelectChildren(r, t)
    PROVE  ReadInv'
<1> DEFINE missing == {p \in {<<r, t>>} : \A row \in disk.rows[t] : row[1] # r}
<1>1. /\ Kind("route") /\ <<r, t>> \in reading.todo
      /\ reading' = [reading EXCEPT !.todo = @ \ {<<r, t>>}, !.empty = @ \cup missing]
      /\ disk' = disk /\ saved' = saved
  BY DEF SelectChildren, Kind
<1>2. missing # {} => r \notin saved
  BY TableFacts DEF SavedInv, RunsOf
<1>3. missing \subseteq {<<r, t>>}
  OBVIOUS
<1> HIDE DEF missing
<1>4. /\ reading \in [kind : {"route"}, todo : SUBSET (Runs \X Children),
                      empty : SUBSET (Runs \X Children)]
      /\ \A p \in reading.todo \cup reading.empty : p[1] \in RunIds(disk)
      /\ \A p \in reading.empty : p[1] \notin saved
  BY <1>1 DEF ReadInv, RouteInv
<1>5. /\ reading' \in [kind : {"route"}, todo : SUBSET (Runs \X Children),
                       empty : SUBSET (Runs \X Children)]
      /\ reading'.kind = "route"
      /\ reading'.todo \subseteq reading.todo
      /\ reading'.empty \subseteq reading.empty \cup {<<r, t>>}
      /\ reading'.empty = reading.empty \cup missing
  BY <1>1, <1>3, <1>4
<1>6. RunIds(disk)' = RunIds(disk)
  BY <1>1 DEF RunIds, RunsOf
<1>7. \A p \in reading'.empty : p[1] \notin saved
  <2>1. \A p \in missing : p[1] = r
    BY <1>3
  <2> QED BY <1>2, <1>4, <1>5, <2>1
<1>8. RouteInv'
  BY <1>1, <1>4, <1>5, <1>6, <1>7 DEF RouteInv
<1>9. AuditInv' /\ CompareInv' /\ ExportIsChecked'
  BY <1>5 DEF AuditInv, CompareInv, ExportIsChecked, Auditing, Kind
<1> QED BY <1>8, <1>9 DEF ReadInv

LEMMA ValidateKeeps == Validate => ReadInv'
<1> SUFFICES ASSUME Validate PROVE ReadInv'
  OBVIOUS
<1>1. reading' = [kind |-> "validate", scope |-> Runs, unclean |-> {},
                  queries |-> ValidationQueries, fatal |-> {}]
  BY DEF Validate, Audit
<1>2. <<"foreign_key_check", "table_counts">> \in Seq(Queries) /\ CatalogueQueries \in Seq(Queries)
  BY DEF CatalogueQueries, Queries
<1>3. ValidationQueries \in Seq(Queries)
  BY <1>2 DEF ValidationQueries
<1> HIDE DEF ValidationQueries
<1>4. AuditInv'
  BY <1>1, <1>3 DEF AuditInv
<1>5. RouteInv' /\ CompareInv' /\ ExportIsChecked'
  BY <1>1 DEF RouteInv, CompareInv, ExportIsChecked, Kind
<1> QED BY <1>4, <1>5 DEF ReadInv

LEMMA CompareKeeps ==
    ASSUME NEW selected \in SUBSET Runs, CompareRuns(selected)
    PROVE  ReadInv'
<1> DEFINE queries == IF selected = {} THEN <<>> ELSE CatalogueQueries
           unclean == UncleanRuns(disk, selected)
<1>1. /\ reading' = [kind |-> "compare", scope |-> selected, unclean |-> unclean,
                     queries |-> queries, fatal |-> {}]
      /\ disk' = disk
  BY DEF CompareRuns, Audit, AuditVars
<1>2. CatalogueQueries \in Seq(Queries) /\ <<>> \in Seq(Queries)
  BY DEF CatalogueQueries, Queries
<1>3. queries \in Seq(Queries) /\ queries \in {CatalogueQueries, <<>>}
  BY <1>2
<1>4. /\ unclean \subseteq selected
      /\ \A r \in unclean : /\ queries = CatalogueQueries
                            /\ \/ r \in DuplicateRuns(disk.rows["metrics"])
                               \/ r \in DuplicateRuns(disk.rows["equity_curve"])
  BY DEF UncleanRuns, Keyed
<1> HIDE DEF queries, unclean
<1>5. /\ reading'.kind = "compare" /\ reading'.scope = selected /\ reading'.unclean = unclean
      /\ reading'.queries = queries /\ reading'.fatal = {}
  BY <1>1
<1>6. AuditInv'
  BY <1>1, <1>3, <1>4, <1>5 DEF AuditInv
<1>7. \A r \in unclean : Pending(r)'
  BY <1>1, <1>4, <1>5 DEF Pending, DuplicateRuns, RunsOf, Duplicates, CatalogueQueries
<1>8. queries \in {CatalogueQueries', <<>>}
  BY <1>3 DEF CatalogueQueries
<1>9. CompareInv'
  BY <1>4, <1>5, <1>7, <1>8 DEF CompareInv
<1>10. RouteInv' /\ ExportIsChecked'
  BY <1>5 DEF RouteInv, ExportIsChecked, Kind
<1> QED BY <1>6, <1>9, <1>10 DEF ReadInv

\* A query finds fault only with runs that are there, and with no saved run.
LEMMA FatalRunsFacts ==
    ASSUME DbInv, SavedInv, NEW query \in Queries, NEW r \in FatalRuns(disk, query)
    PROVE  r \notin saved /\ \E t \in Tables : r \in RunsOf(disk.rows[t])
<1>1. \A t \in Keyed : DuplicateRuns(disk.rows[t]) \subseteq RunsOf(disk.rows[t])
  BY DEF DuplicateRuns
<1>2. ASSUME r \in saved, NEW t \in Keyed PROVE r \notin DuplicateRuns(disk.rows[t])
  <2>1. ~Duplicates(disk.rows[t])
    BY <1>2 DEF SavedInv, DbInv, KeysHold
  <2> QED BY <2>1, DuplicateRunsMeaning DEF Duplicates
<1>3. r \in saved => r \in RunIds(disk) /\ r \in RunsOf(disk.rows["equity_curve"])
  BY DEF SavedInv, RunIds, Tables, Children
<1>4. CASE r \in OrphanRuns(disk)
  <2>1. PICK t \in Children : r \in RunsOf(disk.rows[t])
    BY <1>4 DEF OrphanRuns
  <2>2. r \notin RunIds(disk)
    BY <1>4 DEF OrphanRuns
  <2> QED BY <1>3, <2>1, <2>2, TableFacts
<1>5. CASE \E t \in Keyed : r \in DuplicateRuns(disk.rows[t])
  BY <1>1, <1>2, <1>5, TableFacts
<1>6. CASE r \in RunIds(disk) /\ r \notin RunsOf(disk.rows["equity_curve"])
  BY <1>3, <1>6 DEF RunIds, Tables
<1>7. \/ r \in OrphanRuns(disk)
      \/ r \in DuplicateRuns(disk.rows["metrics"])
      \/ r \in DuplicateRuns(disk.rows["equity_curve"])
      \/ r \in RunIds(disk) /\ r \notin RunsOf(disk.rows["equity_curve"])
  BY DEF FatalRuns, Queries
<1> QED BY <1>4, <1>5, <1>6, <1>7 DEF Keyed

\* One query after the other.
LEMMA CatalogueOrder ==
    /\ Head(CatalogueQueries) = "per_run" /\ Tail(CatalogueQueries) = FromMetrics
    /\ Head(FromMetrics) = "duplicate_metrics" /\ Tail(FromMetrics) = FromEquity
    /\ Head(FromEquity) = "duplicate_equity" /\ Tail(FromEquity) = FromOrphans
    /\ Head(FromOrphans) = "orphan_children" /\ Tail(FromOrphans) = <<>>
    /\ FromOrphans \notin {CatalogueQueries, FromMetrics, FromEquity}
    /\ <<>> \notin {CatalogueQueries, FromMetrics, FromEquity}
    /\ FromEquity \notin {CatalogueQueries, FromMetrics} /\ CatalogueQueries # FromMetrics
BY DEF CatalogueQueries, FromMetrics, FromEquity, FromOrphans

LEMMA RunQueryKeeps ==
    ASSUME DbInv, SavedInv, ReadInv, RunQuery
    PROVE  ReadInv'
<1> DEFINE query == Head(reading.queries)
           found == FatalRuns(disk, query) \cap reading.scope
<1>1. /\ Auditing /\ reading.queries # <<>> /\ disk' = disk /\ saved' = saved
      /\ reading' = [reading EXCEPT !.queries = Tail(@), !.fatal = @ \cup found]
  BY DEF RunQuery, AuditVars
<1>2. /\ reading \in [kind : {"validate", "compare"}, scope : SUBSET Runs,
                      unclean : SUBSET Runs, queries : Seq(Queries), fatal : SUBSET Runs]
      /\ \A r \in reading.fatal : r \notin saved /\ \E t \in Tables : r \in RunsOf(disk.rows[t])
  BY <1>1 DEF ReadInv, AuditInv
<1>3. query \in Queries /\ Tail(reading.queries) \in Seq(Queries)
  <2>1. reading.queries \in Seq(Queries)
    BY <1>2
  <2> QED BY <1>1, <2>1
<1>4. found \subseteq Runs
  BY <1>2
<1> HIDE DEF query
<1>5. \A r \in found : r \notin saved /\ \E t \in Tables : r \in RunsOf(disk.rows[t])
  BY <1>3, FatalRunsFacts
<1> HIDE DEF found
<1>6. /\ reading' \in [kind : {"validate", "compare"}, scope : SUBSET Runs,
                       unclean : SUBSET Runs, queries : Seq(Queries), fatal : SUBSET Runs]
      /\ reading'.kind = reading.kind /\ reading'.scope = reading.scope
      /\ reading'.unclean = reading.unclean
      /\ reading'.queries = Tail(reading.queries) /\ reading'.fatal = reading.fatal \cup found
  BY <1>1, <1>2, <1>3, <1>4
<1>7. AuditInv'
  <2>1. \A r \in reading'.fatal : r \notin saved' /\ \E t \in Tables : r \in RunsOf(disk'.rows[t])
    BY <1>1, <1>2, <1>5, <1>6
  <2> QED BY <1>6, <2>1 DEF AuditInv, RunsOf
<1>8. CompareInv'
  <2> SUFFICES ASSUME Kind("compare")' PROVE CompareInv'
    BY DEF CompareInv
  <2>1. Kind("compare")
    BY <1>1, <1>6 DEF Kind, Auditing
  <2>2. /\ reading.queries \in {CatalogueQueries, FromMetrics, FromEquity, FromOrphans}
        /\ \A r \in reading.unclean : r \in reading.scope /\ (r \in reading.fatal \/ Pending(r))
    BY <1>1, <2>1 DEF ReadInv, CompareInv
  <2>3. reading'.queries \in {FromMetrics, FromEquity, FromOrphans, <<>>}
    BY <1>6, <2>2, CatalogueOrder
  <2>4. ASSUME NEW r \in reading.unclean PROVE r \in reading'.fatal \/ Pending(r)'
    <3> DEFINE InMetrics == r \in DuplicateRuns(disk.rows["metrics"])
               InEquity == r \in DuplicateRuns(disk.rows["equity_curve"])
    <3>1. Pending(r)' <=> \/ InMetrics /\ reading'.queries \in {CatalogueQueries, FromMetrics}
                          \/ InEquity /\ reading'.queries \in {CatalogueQueries, FromMetrics, FromEquity}
      BY <1>1 DEF Pending, DuplicateRuns, RunsOf, Duplicates, CatalogueQueries, FromMetrics, FromEquity
    <3>2. Pending(r) <=> \/ InMetrics /\ reading.queries \in {CatalogueQueries, FromMetrics}
                         \/ InEquity /\ reading.queries \in {CatalogueQueries, FromMetrics, FromEquity}
      BY DEF Pending
    <3>3. InMetrics /\ query = "duplicate_metrics" => r \in found
      BY <2>2 DEF found, FatalRuns
    <3>4. InEquity /\ query = "duplicate_equity" => r \in found
      BY <2>2 DEF found, FatalRuns
    <3> HIDE DEF InMetrics, InEquity
    <3>5. CASE r \in reading.fatal
      BY <1>6, <3>5
    <3>6. CASE r \notin reading.fatal
      <4>1. Pending(r)
        BY <2>2, <3>6
      <4>2. CASE reading.queries = CatalogueQueries
        <5>1. reading'.queries = FromMetrics
          BY <1>6, <4>2, CatalogueOrder
        <5> QED BY <3>1, <3>2, <4>1, <5>1
      <4>3. CASE reading.queries = FromMetrics
        <5>1. reading'.queries = FromEquity /\ query = "duplicate_metrics"
          BY <1>6, <4>3, CatalogueOrder DEF query
        <5> QED BY <1>6, <3>1, <3>2, <3>3, <4>1, <5>1
      <4>4. CASE reading.queries = FromEquity
        <5>1. query = "duplicate_equity" /\ InEquity
          BY <3>2, <4>1, <4>4, CatalogueOrder DEF query
        <5> QED BY <1>6, <3>4, <5>1
      <4>5. CASE reading.queries = FromOrphans
        BY <3>2, <4>1, <4>5, CatalogueOrder
      <4> QED BY <2>2, <4>2, <4>3, <4>4, <4>5
    <3> QED BY <3>5, <3>6
  <2>5. /\ CatalogueQueries' = CatalogueQueries /\ FromMetrics' = FromMetrics
        /\ FromEquity' = FromEquity /\ FromOrphans' = FromOrphans
    BY DEF CatalogueQueries, FromMetrics, FromEquity, FromOrphans
  <2> QED BY <1>6, <2>2, <2>3, <2>4, <2>5 DEF CompareInv
<1>9. RouteInv' /\ ExportIsChecked'
  BY <1>6 DEF RouteInv, ExportIsChecked, Kind
<1> QED BY <1>7, <1>8, <1>9 DEF ReadInv

LEMMA WriteComparisonKeeps ==
    ASSUME ReadInv, WriteComparison
    PROVE  ReadInv'
<1>1. CASE reading' = None
  BY <1>1, NoReader
<1>2. CASE /\ reading.fatal = {}
           /\ reading' = [kind |-> "written", unclean |-> reading.unclean]
  <2>1. Kind("compare") /\ reading.queries = <<>>
    BY DEF WriteComparison, Audited, Auditing, Kind
  <2>2. \A r \in reading.unclean : r \in reading.fatal \/ Pending(r)
    BY <2>1 DEF ReadInv, CompareInv
  <2>3. \A r : ~Pending(r)
    BY <2>1, CatalogueOrder DEF Pending
  <2>4. reading'.kind = "written" /\ reading'.unclean = {}
    BY <1>2, <2>2, <2>3
  <2> QED BY <2>4 DEF ReadInv, RouteInv, AuditInv, CompareInv, ExportIsChecked, Kind, Auditing
<1> QED BY <1>1, <1>2 DEF WriteComparison

-----------------------------------------------------------------------------
(* The inductive invariant.                                                *)

Inv ==
    /\ DbInv /\ AtOK /\ ApiInv /\ SavedInv /\ ReadInv
    /\ \A m \in Migrators : MigratorInv(m)

LEMMA InvInit == Init => Inv
<1> SUFFICES ASSUME Init PROVE Inv
  OBVIOUS
<1>1. disk \in {LegacySchemas[s] : s \in DOMAIN LegacySchemas}
  BY SchemasAssumption DEF Init
<1>2. PICK objects \in SUBSET (Stores \cup Indexes \cup {"alembic_version", "other"}),
           wrong \in SUBSET Tables, rev \in Revisions \cup {None} :
             disk = SchemaOnly(objects, wrong, rev)
  BY <1>1 DEF LegacySchemas, Stores, Tables, Children, Revisions, Baseline
<1>3. disk \in Databases /\ disk.uniques = {} /\ \A t \in Stores : disk.rows[t] = {}
  BY <1>2 DEF SchemaOnly, NoRows, Databases
<1>4. DbInv
  BY <1>3, TableFacts DEF Init, DbInv, KeysHold, Grows
<1>5. AtOK /\ ApiInv /\ SavedInv
  BY DatabaseAssumption DEF Init, AtOK, Steps, Idle, ApiInv, Saving, SavedInv
<1>6. ReadInv
  BY DEF Init, ReadInv, RouteInv, AuditInv, CompareInv, ExportIsChecked, Kind, Auditing
<1>7. ASSUME NEW m \in Migrators PROVE MigratorInv(m)
  BY DatabaseAssumption DEF Init, MigratorInv, Copied
<1> QED BY <1>4, <1>5, <1>6, <1>7 DEF Inv

\* A step of the server, or of a reader, that is sound for the database.
LEMMA OthersKeepMigrators ==
    ASSUME Inv, Local(Api), at' = at
    PROVE  AtOK' /\ \A m \in Migrators : MigratorInv(m)'
<1>1. Api \in Processes /\ \A m \in Migrators : m # Api
  BY DatabaseAssumption DEF Processes
<1> QED BY <1>1, LocalKeepsMigrator DEF Inv, AtOK

LEMMA ReaderKeeps ==
    ASSUME Inv, UNCHANGED <<disk, work, holder, at, api, saving, saved>>, ReadInv'
    PROVE  Inv' /\ Grows(disk, disk')
<1>1. Sound(Api)
  BY ReadOnlyIsSound DEF Inv, ReadOnly, Processes
<1>2. AtOK' /\ \A m \in Migrators : MigratorInv(m)'
  BY <1>1, OthersKeepMigrators DEF Sound
<1>3. ApiInv' /\ SavedInv'
  BY DEF Inv, ApiInv, SavedInv, RunsOf
<1> QED BY <1>1, <1>2, <1>3 DEF Inv, Sound

LEMMA MigrateStep ==
    ASSUME Inv, NEW m \in Migrators, Migrate(m)
    PROVE  Inv' /\ Grows(disk, disk')
<1>1. Kept(m) /\ UNCHANGED <<api, saving, saved, reading>>
  BY MigrateKeeps DEF Inv, Migrate, apiVars
<1>2. DbInv' /\ Grows(disk, disk') /\ Local(m) /\ AtOK' /\ MigratorInv(m)'
  BY <1>1 DEF Kept, Sound
<1>3. ASSUME NEW q \in Migrators, q # m PROVE MigratorInv(q)'
  BY <1>1, <1>2, <1>3, LocalKeepsMigrator, MigratorsAreProcesses DEF Inv, Kept
<1>4. ApiInv'
  BY <1>1, <1>2, LocalKeepsApi DEF Inv
<1>5. SavedInv'
  BY <1>1, <1>2, GrowsKeepsSaved DEF Inv
<1>6. ReadInv'
  BY <1>1, <1>2, GrowsKeepsReader DEF Inv
<1> QED BY <1>2, <1>3, <1>4, <1>5, <1>6 DEF Inv

\* Every step keeps the invariant and every committed row.
LEMMA InvStep ==
    ASSUME Inv, [Next]_vars
    PROVE  Inv' /\ Grows(disk, disk')
<1> DEFINE Goal == Inv' /\ Grows(disk, disk')
<1>1. ASSUME NEW m \in Migrators, Migrate(m) PROVE Goal
  BY <1>1, MigrateStep
<1>2. CASE StartApi
  <2>1. Sound(Api) /\ UNCHANGED <<disk, at, saved, reading>>
    BY <1>2, ReadOnlyIsSound DEF StartApi, Inv, ReadOnly, Processes
  <2>2. SavedInv' /\ ReadInv'
    BY <2>1, GrowsKeepsSaved, GrowsKeepsReader DEF Sound, Inv
  <2> QED BY <1>2, <2>1, <2>2, StartApiKeeps, OthersKeepMigrators DEF Sound, Inv
<1>3. ASSUME NEW r \in Runs, SaveInsertRun(r) PROVE Goal
  <2>1. Sound(Api) /\ ApiInv' /\ UNCHANGED <<at, saved, reading>>
    BY <1>3, InsertRunKeeps DEF Inv, SaveInsertRun
  <2>2. SavedInv' /\ ReadInv'
    BY <2>1, GrowsKeepsSaved, GrowsKeepsReader DEF Sound, Inv
  <2> QED BY <2>1, <2>2, OthersKeepMigrators DEF Sound, Inv
<1>4. CASE SaveInsertChildren
  <2>1. Sound(Api) /\ ApiInv' /\ UNCHANGED <<at, saved, reading>>
    BY <1>4, InsertChildrenKeeps DEF Inv, SaveInsertChildren
  <2>2. SavedInv' /\ ReadInv'
    BY <2>1, GrowsKeepsSaved, GrowsKeepsReader DEF Sound, Inv
  <2> QED BY <2>1, <2>2, OthersKeepMigrators DEF Sound, Inv
<1>5. CASE SaveCommit
  <2>1. Sound(Api) /\ ApiInv' /\ SavedInv'
    BY <1>5, CommitKeeps DEF Inv
  <2>2. /\ UNCHANGED <<at, reading>> /\ saved' = saved \cup {saving}
        /\ \A t \in Tables : saving \notin RunsOf(disk.rows[t])
    BY <1>5 DEF SaveCommit, Inv, ApiInv, Saving
  <2>3. ReadInv'
    BY <2>1, <2>2, GrowsKeepsReader DEF Sound, Inv
  <2> QED BY <2>1, <2>2, <2>3, OthersKeepMigrators DEF Sound, Inv
<1>6. CASE AbandonSave
  <2>1. Sound(Api) /\ ApiInv' /\ UNCHANGED <<at, saved>> /\ reading' \in {reading, None}
    BY <1>6, AbandonKeeps DEF Inv, AbandonSave
  <2>2. SavedInv' /\ ReadInv'
    BY <2>1, GrowsKeepsSaved, GrowsKeepsReader, NoReader DEF Sound, Inv
  <2> QED BY <2>1, <2>2, OthersKeepMigrators DEF Sound, Inv
<1>7. ASSUME NEW t \in Tables, NEW row \in Rows, OtherClientInserts(t, row) PROVE Goal
  <2>1. /\ DbInv' /\ Grows(disk, disk') /\ ApiInv' /\ holder = None /\ holder' = None
        /\ UNCHANGED <<at, saved, reading>>
    BY <1>7, OtherClientKeeps DEF Inv, OtherClientInserts
  <2>2. SavedInv' /\ ReadInv'
    BY <2>1, GrowsKeepsSaved, GrowsKeepsReader DEF Inv
  <2>3. Local(Api)
    BY <2>1, ProcessFacts DEF Local
  <2> QED BY <2>1, <2>2, <2>3, OthersKeepMigrators DEF Inv
<1>8. ASSUME NEW r \in Runs, GetRun(r) PROVE Goal
  <2>1. PICK tables \in {Children, {"trades"}, {"equity_curve"}} : BeginRead({r}, tables)
    BY <1>8 DEF GetRun
  <2>2. tables \subseteq Children
    BY DEF Children
  <2> QED BY <2>1, <2>2, BeginReadKeeps, ReaderKeeps DEF Inv, BeginRead
<1>9. CASE ListRuns
  <2>1. BeginRead(RunIds(disk), Keyed) /\ Keyed \subseteq Children
    BY <1>9, TableFacts DEF ListRuns
  <2> QED BY <2>1, BeginReadKeeps, ReaderKeeps DEF Inv, BeginRead
<1>10. ASSUME NEW r \in Runs, NEW t \in Children, SelectChildren(r, t) PROVE Goal
  BY <1>10, SelectKeeps, ReaderKeeps DEF Inv, SelectChildren
<1>11. CASE AnswerRead \/ WriteReport \/ EndCommand
  BY <1>11, NoReader, ReaderKeeps DEF AnswerRead, WriteReport, EndCommand, AuditVars
<1>12. CASE Validate
  BY <1>12, ValidateKeeps, ReaderKeeps DEF Validate, AuditVars
<1>13. CASE RunQuery
  BY <1>13, RunQueryKeeps, ReaderKeeps DEF Inv, RunQuery, AuditVars
<1>14. CASE WriteComparison
  BY <1>14, WriteComparisonKeeps, ReaderKeeps DEF Inv, WriteComparison, AuditVars
<1>15. ASSUME NEW selected \in SUBSET Runs, CompareRuns(selected) PROVE Goal
  BY <1>15, CompareKeeps, ReaderKeeps DEF CompareRuns, AuditVars
<1>16. CASE UNCHANGED vars
  <2>1. UNCHANGED <<disk, work, holder, at, api, saving, saved, reading>>
    BY <1>16 DEF vars
  <2>2. Grows(disk, disk')
    BY <2>1 DEF Grows
  <2>3. ReadInv'
    BY <2>1, <2>2, GrowsKeepsReader DEF Inv
  <2> QED BY <2>1, <2>3, ReaderKeeps
<1> HIDE DEF Goal
<1>17. Goal
  BY <1>1, <1>2, <1>3, <1>4, <1>5, <1>6, <1>7, <1>8, <1>9, <1>10, <1>11, <1>12, <1>13, <1>14,
     <1>15, <1>16 DEF Next, Goal
<1> QED BY <1>17 DEF Goal

LEMMA InvHolds == Spec => []Inv
<1>1. Inv /\ [Next]_vars => Inv'
  BY InvStep
<1> QED BY InvInit, <1>1, PTL DEF Spec

-----------------------------------------------------------------------------
(* Theorems.                                                               *)

\* Whatever other clients insert while upgrade_database runs, a database that
\* assess_schema calls current has no duplicate natural key.
THEOREM CurrentIsHardenedHolds == Spec => []CurrentIsHardened
<1>1. Inv => CurrentIsHardened
  BY AssessFacts DEF Inv, DbInv, KeysHold, CurrentIsHardened
<1> QED BY InvHolds, <1>1, PTL

\* The schema init_db verified keeps its unique constraints while the API runs,
\* though nothing checks them again.
THEOREM ServedSchemaIsHardenedHolds == Spec => []ServedSchemaIsHardened
<1>1. Inv => ServedSchemaIsHardened
  BY DEF Inv, ApiInv, ServedSchemaIsHardened
<1> QED BY InvHolds, <1>1, PTL

\* The rebuild of the tables, in any number of racing and interrupted
\* migrations, and save_backtest_run's rollback lose no committed row.
THEOREM NoRowLostHolds == Spec => NoRowLost
<1>1. Inv /\ [Next]_vars => [\A t \in Tables : disk.rows[t] \subseteq disk'.rows[t]]_vars
  BY InvStep DEF Grows
<1> QED BY InvHolds, <1>1, PTL DEF Spec, NoRowLost

\* A run save_backtest_run has committed is never seen without its children by
\* a read route, nor called defective by an audit.
THEOREM ReadsAreWholeHolds == Spec => []ReadsAreWhole
<1>1. Inv => ReadsAreWhole
  BY DEF Inv, ReadInv, RouteInv, AuditInv, Kind, ReadsAreWhole
<1> QED BY InvHolds, <1>1, PTL

\* A comparison is written only if no run in it was ambiguous when it was read,
\* though _run_compare audits the runs afterwards.
THEOREM ExportIsCheckedHolds == Spec => []ExportIsChecked
<1>1. Inv => ExportIsChecked
  BY DEF Inv, ReadInv
<1> QED BY InvHolds, <1>1, PTL

-----------------------------------------------------------------------------
(* Types.  Inv types the database and the requests in progress; what is    *)
(* left are the saved runs and what a comparison leaves behind.            *)

RequestTypes ==
    /\ saving \in Runs \cup {None}
    /\ saved \subseteq Runs
    /\ reading # None /\ ~Kind("route") /\ ~Auditing =>
         reading \in [kind : {"written"}, unclean : SUBSET Runs]

LEMMA RequestStep ==
    ASSUME Inv, RequestTypes, [Next]_vars
    PROVE  RequestTypes'
<1> USE DEF RequestTypes, Kind, Auditing
<1>1. CASE UNCHANGED <<saving, saved, reading>>
  BY <1>1
<1>2. ASSUME NEW r \in Runs, SaveInsertRun(r) PROVE RequestTypes'
  BY <1>2 DEF SaveInsertRun
<1>3. CASE SaveCommit
  BY <1>3 DEF SaveCommit, Inv, ApiInv, Saving
<1>4. CASE AbandonSave
  BY <1>4 DEF AbandonSave
<1>5. ASSUME NEW found, NEW tables, BeginRead(found, tables) PROVE RequestTypes'
  BY <1>5 DEF BeginRead
<1>6. ASSUME NEW r, NEW t, SelectChildren(r, t) PROVE RequestTypes'
  <2>1. reading \in [kind : {"route"}, todo : SUBSET (Runs \X Children),
                     empty : SUBSET (Runs \X Children)]
    BY <1>6 DEF SelectChildren, Inv, ReadInv, RouteInv
  <2>2. reading'.kind = "route"
    BY <1>6, <2>1 DEF SelectChildren
  <2> QED BY <1>6, <2>2 DEF SelectChildren
<1>7. CASE AnswerRead \/ WriteReport \/ EndCommand
  BY <1>7 DEF AnswerRead, WriteReport, EndCommand, AuditVars
<1>8. CASE Validate
  BY <1>8 DEF Validate, Audit, AuditVars
<1>9. ASSUME NEW selected, CompareRuns(selected) PROVE RequestTypes'
  BY <1>9 DEF CompareRuns, Audit, AuditVars
<1>10. ASSUME Auditing
       PROVE  reading \in [kind : {"validate", "compare"}, scope : SUBSET Runs,
                           unclean : SUBSET Runs, queries : Seq(Queries), fatal : SUBSET Runs]
  BY <1>10 DEF Inv, ReadInv, AuditInv
<1>11. CASE RunQuery
  <2>1. reading'.kind = reading.kind
    BY <1>10, <1>11 DEF RunQuery
  <2> QED BY <1>11, <2>1 DEF RunQuery, AuditVars
<1>12. CASE WriteComparison
  BY <1>10, <1>12 DEF WriteComparison, Audited, AuditVars
<1>13. ASSUME NEW m \in Migrators, Migrate(m) PROVE RequestTypes'
  BY <1>1, <1>13 DEF Migrate, apiVars
<1>14. CASE StartApi \/ SaveInsertChildren
  BY <1>1, <1>14 DEF StartApi, SaveInsertChildren
<1>15. ASSUME NEW t, NEW row, OtherClientInserts(t, row) PROVE RequestTypes'
  BY <1>1, <1>15 DEF OtherClientInserts
<1>16. CASE UNCHANGED vars
  BY <1>1, <1>16 DEF vars
<1> HIDE DEF RequestTypes, Kind, Auditing
<1> QED BY <1>2, <1>3, <1>4, <1>5, <1>6, <1>7, <1>8, <1>9, <1>11, <1>12, <1>13, <1>14, <1>15, <1>16
        DEF Next, GetRun, ListRuns

\* The database, its migrators, the server and its requests keep their types in
\* every interleaving of upgrades, saves, reads and audits.
THEOREM DatabaseTypeCorrect == Spec => []TypeOK
<1>1. Init => RequestTypes
  BY DEF Init, RequestTypes
<1>2. Inv /\ RequestTypes /\ [Next]_vars => RequestTypes'
  BY RequestStep
<1>3. Inv /\ RequestTypes => TypeOK
  <2> SUFFICES ASSUME Inv, RequestTypes PROVE TypeOK
    OBVIOUS
  <2>1. /\ disk \in Databases /\ work \in Databases /\ holder \in Migrators \cup {Api, None}
        /\ at \in [Migrators -> Steps]
        /\ api \in {"down", "up", "run_inserted", "children_inserted"}
    BY DEF Inv, DbInv, Processes, AtOK, ApiInv, Saving
  <2> QED BY <2>1 DEF Inv, ReadInv, RouteInv, AuditInv, Kind, RequestTypes, TypeOK
<1> QED BY InvHolds, <1>1, <1>2, <1>3, PTL DEF Spec
=============================================================================
