------------------------------ MODULE Database ------------------------------
(***************************************************************************)
(* The results database: schema assessment and upgrade                     *)
(* (src/src/db/migrate.py and the two Alembic revisions), the transaction  *)
(* that saves a run (src/src/db/crud.py), the API's start gate and its     *)
(* read routes (src/src/api/routes/backtest.py), and the validate and      *)
(* compare commands of the SQL analytics (src/src/analytics).              *)
(*                                                                         *)
(* SQLite is modelled from how the code drives it: Alembic runs each       *)
(* revision in a transaction of its own, but pysqlite opens the SQLite     *)
(* transaction at the first INSERT, UPDATE or DELETE, so the DDL before it *)
(* commits statement by statement.  One connection holds the write lock;   *)
(* others read the last committed state.  A SELECT outside a transaction   *)
(* sees whatever is committed at that moment.                              *)
(***************************************************************************)
EXTENDS Integers, Sequences, FiniteSets

CONSTANTS
    Runs,           \* run identifiers
    Copies,         \* rows one run may have in a child table
    Migrators,      \* processes calling upgrade_database
    Api,            \* the API server process
    InitialSchemas, \* what the database file may hold before the first call
    None            \* Python's None, SQL's no row

ASSUME DatabaseAssumption ==
    /\ Api \notin Migrators
    /\ None \notin Migrators \cup {Api}
    /\ Copies # {}

VARIABLES
    disk,       \* the committed database
    work,       \* the database as the lock holder sees it
    holder,     \* who is in a write transaction, or None
    at,         \* where each migrator is
    api,        \* where the API server is: down, up or in save_backtest_run
    saving,     \* the run being saved, or None
    saved,      \* runs the API answered 201 for
    reading     \* the read request or analytics command in flight: readers
                \* do not affect one another, so one at a time is enough

vars == <<disk, work, holder, at, api, saving, saved, reading>>

Children == {"trades", "equity_curve", "metrics"}
Tables == Children \cup {"backtest_runs"}
Keyed == {"equity_curve", "metrics"}     \* the tables hardening gives a natural key
TmpOf == [equity_curve |-> "_alembic_tmp_equity_curve", metrics |-> "_alembic_tmp_metrics"]
Indexes == {"ix_trades_backtest_exit_id", "ix_backtest_runs_symbol_dates"}
Revisions == {"455406e2c7ac", "20260804_01"}
Baseline == "455406e2c7ac"
HeadRevision == "20260804_01"

Stores == Tables \cup {TmpOf[t] : t \in Keyed}
Rows == Runs \X Copies

\* A database: named objects, tables whose columns or foreign keys are not the
\* expected ones, tables with their unique constraint, the revision row, rows.
Databases ==
    [objects : SUBSET (Stores \cup Indexes \cup {"alembic_version", "other"}),
     wrong : SUBSET Tables, uniques : SUBSET Keyed, rev : Revisions \cup {None},
     rows : [Stores -> SUBSET Rows]]

NoRows == [t \in Stores |-> {}]

SchemaOnly(objects, wrong, rev) ==
    [objects |-> objects, wrong |-> wrong, uniques |-> {}, rev |-> rev, rows |-> NoRows]

\* New, unversioned, versioned, with a foreign table, with a table changed.
LegacySchemas ==
    [empty       |-> SchemaOnly({}, {}, None),
     unversioned |-> SchemaOnly(Tables, {}, None),
     versioned   |-> SchemaOnly(Tables \cup {"alembic_version"}, {}, Baseline),
     foreign     |-> SchemaOnly(Tables \cup {"other"}, {}, None),
     changed     |-> SchemaOnly(Tables, {"metrics"}, None)]

ASSUME SchemasAssumption == InitialSchemas \subseteq DOMAIN LegacySchemas

Init ==
    /\ disk \in {LegacySchemas[s] : s \in InitialSchemas}
    /\ work = disk
    /\ holder = None
    /\ at = [m \in Migrators |-> "idle"]
    /\ api = "down"
    /\ saving = None
    /\ saved = {}
    /\ reading = None

-----------------------------------------------------------------------------
(* assess_schema and the preflight: pure functions of what is committed.   *)

\* _version_metadata: a version table must hold one revision.
MetadataDiffers(d) == "alembic_version" \in d.objects /\ d.rev = None

Hardened(d) == d.rev = HeadRevision

\* _structural_differences: tables, columns, foreign keys, constraints.
StructureDiffers(d) ==
    \/ d.objects \ (Indexes \cup {"alembic_version"}) # Tables
    \/ d.wrong # {}
    \/ d.uniques # IF Hardened(d) THEN Keyed ELSE {}

\* ... and the indexes, whose names _unexpected_object_differences checks too.
IndexesDiffer(d) == d.objects \cap Indexes # IF Hardened(d) THEN Indexes ELSE {}

Assess(d) ==
    CASE d.objects = {} -> "empty"
      [] d.objects # {} /\ (StructureDiffers(d) \/ IndexesDiffer(d) \/ MetadataDiffers(d))
           -> "unknown"
      [] OTHER -> CASE d.rev = None -> "baseline_unversioned"
                    [] d.rev = Baseline -> "baseline_versioned"
                    [] d.rev = HeadRevision -> "current"

Duplicates(rows) == \E a, b \in rows : a # b /\ a[1] = b[1]

RunsOf(rows) == {row[1] : row \in rows}

RunIds(d) == RunsOf(d.rows["backtest_runs"])

\* _PREFLIGHT_QUERIES: duplicate natural keys and children without a parent.
PreflightFails(d) ==
    \/ \E t \in Keyed : Duplicates(d.rows[t])
    \/ \E t \in Children : \E row \in d.rows[t] : row[1] \notin RunIds(d)

-----------------------------------------------------------------------------
(* Statements.                                                             *)

View(p) == IF holder = p THEN work ELSE disk

MayWrite(p) == holder \in {None, p}

\* A DDL statement: inside p's transaction if it has one, else committed.
Ddl(p, d) ==
    /\ MayWrite(p)
    /\ UNCHANGED holder
    /\ IF holder = p THEN work' = d /\ UNCHANGED disk
                     ELSE disk' = d /\ work' = d

\* An INSERT, UPDATE or DELETE: it opens p's transaction if there is none.
Dml(p, d) == MayWrite(p) /\ holder' = p /\ work' = d /\ UNCHANGED disk

Commit(p, d) == MayWrite(p) /\ disk' = d /\ work' = d /\ holder' = None

\* An exception: the transaction, if p is in one, is rolled back.
Rollback(p) ==
    /\ holder' = IF holder = p THEN None ELSE holder
    /\ work' = IF holder = p THEN disk ELSE work
    /\ UNCHANGED disk

WithTable(d, t) == [d EXCEPT !.objects = @ \cup {t}]

-----------------------------------------------------------------------------
(* upgrade_database.                                                       *)

apiVars == <<api, saving, saved, reading>>

Goes(m, from, to) == at[m] = from /\ at' = [at EXCEPT ![m] = to]

Raises(m, from) == Goes(m, from, "failed") /\ Rollback(m)

ReadOnly == UNCHANGED <<disk, work, holder>>

\* The first assessment chooses the path; UNKNOWN is refused untouched.
AssessInitial(m) ==
    /\ at[m] = "idle"
    /\ at' = [at EXCEPT ![m] =
                [empty |-> "upgrade", baseline_unversioned |-> "preflight_unversioned",
                 baseline_versioned |-> "preflight", current |-> "final",
                 unknown |-> "failed"][Assess(disk)]]
    /\ ReadOnly

\* _run_preflight, in upgrade_database and again in the hardening revision.
RunPreflight(m, from, to) ==
    /\ Goes(m, from, IF PreflightFails(View(m)) THEN "failed" ELSE to)
    /\ ReadOnly

\* command.stamp: the version table commits before its row.
StampTable(m) ==
    /\ Goes(m, "stamp", "stamp_row")
    /\ Ddl(m, WithTable(disk, "alembic_version"))

StampRow(m) ==
    /\ Goes(m, "stamp_row", "upgrade")
    /\ Commit(m, [disk EXCEPT !.rev = Baseline])

\* command.upgrade reads the revision it starts from; the version table is
\* created when there is no revision.
ReadRevision(m) ==
    /\ Goes(m, "upgrade", CASE disk.rev = None -> "create_backtest_runs"
                            [] disk.rev = Baseline -> "harden"
                            [] disk.rev = HeadRevision -> "final")
    /\ IF disk.rev = None THEN Ddl(m, WithTable(disk, "alembic_version")) ELSE ReadOnly

\* Revision 455406e2c7ac: a CREATE TABLE, which fails if the table exists.
CreateTable(m, table, from, to) ==
    IF table \in disk.objects THEN Raises(m, from)
    ELSE Goes(m, from, to) /\ Ddl(m, WithTable(disk, table))

CreateBaseline(m) ==
    \/ CreateTable(m, "backtest_runs", "create_backtest_runs", "create_trades")
    \/ CreateTable(m, "trades", "create_trades", "create_equity_curve")
    \/ CreateTable(m, "equity_curve", "create_equity_curve", "create_metrics")
    \/ CreateTable(m, "metrics", "create_metrics", "baseline_row")

BaselineRow(m) ==
    /\ Goes(m, "baseline_row", "harden")
    /\ Commit(m, [disk EXCEPT !.rev = Baseline])

\* Revision 20260804_01: batch_alter_table(t) creates a table with the unique
\* constraint, copies the rows and puts it in the place of t.
CreateTmp(m, t, from, to) ==
    IF TmpOf[t] \in View(m).objects THEN Raises(m, from)
    ELSE Goes(m, from, to) /\ Ddl(m, WithTable(View(m), TmpOf[t]))

\* Mutant: the copy skips rows whose key is already there.
CopyRowsIgnore(m, t, from, to) ==
    \E kept \in SUBSET View(m).rows[t] :
      /\ ~Duplicates(kept) /\ RunsOf(kept) = RunsOf(View(m).rows[t])
      /\ Goes(m, from, to)
      /\ Dml(m, [View(m) EXCEPT !.rows[TmpOf[t]] = kept])

\* Mutant: the new table has no unique constraint to violate.
CopyRowsUnchecked(m, t, from, to) ==
    Goes(m, from, to) /\ Dml(m, [View(m) EXCEPT !.rows[TmpOf[t]] = View(m).rows[t]])

\* INSERT INTO tmp SELECT ... FROM t: the first DML, and checked by the constraint.
CopyRows(m, t, from, to) ==
    IF Duplicates(View(m).rows[t]) THEN Raises(m, from)
    ELSE Goes(m, from, to) /\ Dml(m, [View(m) EXCEPT !.rows[TmpOf[t]] = View(m).rows[t]])

\* DROP TABLE t; ALTER TABLE tmp RENAME TO t.
SwapTables(m, t, from, to) ==
    /\ Goes(m, from, to)
    /\ Ddl(m, [View(m) EXCEPT !.objects = @ \ {TmpOf[t]}, !.uniques = @ \cup {t},
                              !.rows[t] = View(m).rows[TmpOf[t]], !.rows[TmpOf[t]] = {}])

CreateIndexes(m) ==
    IF Indexes \cap View(m).objects # {} THEN Raises(m, "create_indexes")
    ELSE /\ Goes(m, "create_indexes", "head_row")
         /\ Ddl(m, [View(m) EXCEPT !.objects = @ \cup Indexes])

\* The UPDATE of the revision and the commit that ends the revision.
HeadRow(m) ==
    /\ Goes(m, "head_row", "final")
    /\ Commit(m, [View(m) EXCEPT !.rev = HeadRevision])

Harden(m) ==
    \/ RunPreflight(m, "harden", "tmp_metrics")
    \/ CreateTmp(m, "metrics", "tmp_metrics", "copy_metrics")
    \/ CopyRows(m, "metrics", "copy_metrics", "swap_metrics")
    \/ SwapTables(m, "metrics", "swap_metrics", "tmp_equity_curve")
    \/ CreateTmp(m, "equity_curve", "tmp_equity_curve", "copy_equity_curve")
    \/ CopyRows(m, "equity_curve", "copy_equity_curve", "swap_equity_curve")
    \/ SwapTables(m, "equity_curve", "swap_equity_curve", "create_indexes")
    \/ CreateIndexes(m)
    \/ HeadRow(m)

\* The assessment that decides whether upgrade_database returns or raises.
AssessFinal(m) ==
    /\ Goes(m, "final", IF Assess(disk) = "current" THEN "done" ELSE "failed")
    /\ ReadOnly

Idle == {"idle", "done", "failed"}

\* The process dies, a statement fails or waits too long for the lock.
Interrupt(m) ==
    /\ at[m] \notin Idle
    /\ at' = [at EXCEPT ![m] = "failed"]
    /\ Rollback(m)

\* The operator calls it again.
Again(m) ==
    /\ at[m] \in {"done", "failed"}
    /\ at' = [at EXCEPT ![m] = "idle"]
    /\ ReadOnly

Migrate(m) ==
    /\ \/ AssessInitial(m)
       \/ RunPreflight(m, "preflight_unversioned", "stamp")
       \/ StampTable(m)
       \/ StampRow(m)
       \/ RunPreflight(m, "preflight", "upgrade")
       \/ ReadRevision(m)
       \/ CreateBaseline(m)
       \/ BaselineRow(m)
       \/ Harden(m)
       \/ AssessFinal(m)
       \/ Interrupt(m)
       \/ Again(m)
    /\ UNCHANGED apiVars

-----------------------------------------------------------------------------
(* The API server and other clients of the file.                           *)

\* Mutant: an upgradable schema is good enough.
VerifySchemaCurrentLoose == Assess(disk) \notin {"unknown", "empty"}

\* verify_schema_current
VerifySchemaCurrent == Assess(disk) = "current"

\* init_db gates the start; afterwards the schema is not looked at again.
StartApi ==
    /\ api = "down"
    /\ VerifySchemaCurrent
    /\ api' = "up"
    /\ UNCHANGED <<disk, work, holder, at, saving, saved, reading>>

\* Mutant: the parent row is committed on its own.
SaveInsertRunCommits(r) ==
    /\ api = "up"
    /\ \A t \in Stores : \A row \in disk.rows[t] : row[1] # r
    /\ \E c \in Copies : Commit(Api, [disk EXCEPT !.rows["backtest_runs"] = @ \cup {<<r, c>>}])
    /\ api' = "run_inserted"
    /\ saving' = r
    /\ UNCHANGED <<at, saved, reading>>

\* save_backtest_run flushes the parent first, under a fresh uuid ...
SaveInsertRun(r) ==
    /\ api = "up"
    /\ \A t \in Stores : \A row \in disk.rows[t] : row[1] # r
    /\ \E c \in Copies : Dml(Api, [disk EXCEPT !.rows["backtest_runs"] = @ \cup {<<r, c>>}])
    /\ api' = "run_inserted"
    /\ saving' = r
    /\ UNCHANGED <<at, saved, reading>>

\* ... then the children ...
SaveInsertChildren ==
    /\ api = "run_inserted"
    /\ \E c \in Copies :
         Dml(Api, [View(Api) EXCEPT !.rows = [t \in Stores |->
                     IF t \in Children THEN @[t] \cup {<<saving, c>>} ELSE @[t]]])
    /\ api' = "children_inserted"
    /\ UNCHANGED <<at, saving, saved, reading>>

\* ... and commits once.
SaveCommit ==
    /\ api = "children_inserted"
    /\ Commit(Api, View(Api))
    /\ api' = "up"
    /\ saving' = None
    /\ saved' = saved \cup {saving}
    /\ UNCHANGED <<at, reading>>

\* A failed flush or commit is rolled back and answered 500; or the server
\* stops, dropping the request in flight.
AbandonSave ==
    /\ api # "down"
    /\ Rollback(Api)
    /\ \/ api \notin {"up"} /\ api' = "up" /\ UNCHANGED reading
       \/ api' = "down" /\ reading' = None
    /\ saving' = None
    /\ UNCHANGED <<at, saved>>

\* A read route: the parent's SELECT (404 without it), then one SELECT per
\* child table it shows; nothing holds a snapshot between them.
BeginRead(found, tables) ==
    /\ api # "down"
    /\ reading = None
    /\ found # {} /\ found \subseteq RunIds(disk)
    /\ reading' = [kind |-> "route", todo |-> found \X tables, empty |-> {}]
    /\ UNCHANGED <<disk, work, holder, at, api, saving, saved>>

\* get_run, get_run_trades and get_run_equity_curve
GetRun(r) == \E tables \in {Children, {"trades"}, {"equity_curve"}} : BeginRead({r}, tables)

\* list_runs, with fewer runs than its limit
ListRuns == BeginRead(RunIds(disk), Keyed)

SelectChildren(r, t) ==
    /\ reading # None /\ reading.kind = "route"
    /\ <<r, t>> \in reading.todo
    /\ reading' = [reading EXCEPT !.todo = @ \ {<<r, t>>},
                     !.empty = @ \cup {p \in {<<r, t>>} : \A row \in disk.rows[t] : row[1] # r}]
    /\ UNCHANGED <<disk, work, holder, at, api, saving, saved>>

AnswerRead ==
    /\ reading # None /\ reading.kind = "route"
    /\ reading.todo = {}
    /\ reading' = None
    /\ UNCHANGED <<disk, work, holder, at, api, saving, saved>>

\* A client that is not this program (the legacy application, a shell) adds a
\* row; SQLite checks unique keys, but not foreign keys, for it.
OtherClientInserts(t, row) ==
    /\ holder = None
    /\ t \in disk.objects
    /\ row \notin disk.rows[t]
    /\ t \in disk.uniques \cup {"backtest_runs"} =>
         \A other \in disk.rows[t] : other[1] # row[1]
    /\ disk' = [disk EXCEPT !.rows[t] = @ \cup {row}]
    /\ work' = disk'
    /\ UNCHANGED <<holder, at, api, saving, saved, reading>>

-----------------------------------------------------------------------------
(* SQL analytics: the validate and compare commands.  Each query is one    *)
(* SELECT; the connection they share is in no SQLite transaction.          *)

DuplicateRuns(rows) == {r \in RunsOf(rows) : Duplicates({row \in rows : row[1] = r})}

OrphanRuns(d) == (UNION {RunsOf(d.rows[t]) : t \in Children}) \ RunIds(d)

\* Mutant: the equity query groups the metrics table.
FatalRunsMetricsTwice(d, query) ==
    CASE query = "table_counts"       -> {}
      [] query = "per_run"            -> RunIds(d) \ RunsOf(d.rows["equity_curve"])
      [] query \in {"duplicate_metrics", "duplicate_equity"} -> DuplicateRuns(d.rows["metrics"])
      [] OTHER                        -> OrphanRuns(d)

\* The runs a query gives a finding of severity FAIL for.
FatalRuns(d, query) ==
    CASE query = "foreign_key_check"  -> OrphanRuns(d)
      [] query = "table_counts"       -> {}
      [] query = "per_run"            -> {r \in RunIds(d) : r \notin RunsOf(d.rows["equity_curve"])
                                                        \/ r \in DuplicateRuns(d.rows["metrics"])}
      [] query = "duplicate_metrics"  -> DuplicateRuns(d.rows["metrics"])
      [] query = "duplicate_equity"   -> DuplicateRuns(d.rows["equity_curve"])
      [] query = "orphan_children"    -> OrphanRuns(d)

\* _catalogue_findings; the rules about column values are left out.
CatalogueQueries == <<"per_run", "duplicate_metrics", "duplicate_equity", "orphan_children">>

AuditVars == <<disk, work, holder, at, api, saving, saved>>

Audit(kind, scope, unclean, queries) ==
    reading' = [kind |-> kind, scope |-> scope, unclean |-> unclean,
                queries |-> queries, fatal |-> {}]

\* ... preceded in a full validation by _pragma_findings and the table counts.
\* integrity_check looks for damage of the file itself, which is not modelled.
ValidationQueries == <<"foreign_key_check", "table_counts">> \o CatalogueQueries

\* IntegrityService.validate: every rule on all runs.
Validate ==
    /\ reading = None
    /\ Audit("validate", Runs, {}, ValidationQueries)
    /\ UNCHANGED AuditVars

\* The runs of a comparison frame whose natural keys were ambiguous in it.
UncleanRuns(d, selected) == selected \cap UNION {DuplicateRuns(d.rows[t]) : t \in Keyed}

\* _run_compare: one SELECT reads the comparison of the runs a filter selects;
\* only then are those runs audited.
CompareRuns(selected) ==
    /\ reading = None
    /\ Tables \subseteq disk.objects
    /\ selected \subseteq RunIds(disk)
    /\ Audit("compare", selected, UncleanRuns(disk, selected),
             IF selected = {} THEN <<>> ELSE CatalogueQueries)
    /\ UNCHANGED AuditVars

Auditing == reading # None /\ reading.kind \in {"validate", "compare"}

RunQuery ==
    /\ Auditing
    /\ reading.queries # <<>>
    /\ Tables \subseteq disk.objects
    /\ reading' = [reading EXCEPT !.queries = Tail(@),
                     !.fatal = @ \cup (FatalRuns(disk, Head(reading.queries)) \cap reading.scope)]
    /\ UNCHANGED AuditVars

Audited(kind) == Auditing /\ reading.kind = kind /\ reading.queries = <<>>

\* A comparison with fatal findings is refused (exit code 5) unless the user
\* overrides, which marks it as diagnostic; any other one is written.
WriteComparison ==
    /\ Audited("compare")
    /\ reading' = IF reading.fatal = {} THEN [kind |-> "written", unclean |-> reading.unclean]
                                        ELSE None
    /\ UNCHANGED AuditVars

\* A validation report is written whatever it found.
WriteReport == Audited("validate") /\ reading' = None /\ UNCHANGED AuditVars

\* The command ends: done, interrupted, or in an error such as a missing table.
EndCommand ==
    /\ reading # None /\ reading.kind # "route"
    /\ reading' = None
    /\ UNCHANGED AuditVars

Next ==
    \/ \E m \in Migrators : Migrate(m)
    \/ StartApi
    \/ \E r \in Runs : SaveInsertRun(r) \/ GetRun(r)
    \/ SaveInsertChildren \/ SaveCommit \/ AbandonSave
    \/ ListRuns \/ AnswerRead
    \/ \E r \in Runs, t \in Children : SelectChildren(r, t)
    \/ \E t \in Tables, row \in Rows : OtherClientInserts(t, row)
    \/ Validate \/ RunQuery \/ WriteComparison \/ WriteReport \/ EndCommand
    \/ \E selected \in SUBSET Runs : CompareRuns(selected)

Spec == Init /\ [][Next]_vars

-----------------------------------------------------------------------------
(* Properties.                                                             *)

Steps == Idle \cup
    {"preflight_unversioned", "stamp", "stamp_row", "preflight", "upgrade",
     "create_backtest_runs", "create_trades", "create_equity_curve", "create_metrics",
     "baseline_row", "harden", "tmp_metrics", "copy_metrics", "swap_metrics",
     "tmp_equity_curve", "copy_equity_curve", "swap_equity_curve", "create_indexes",
     "head_row", "final"}

Queries == {"foreign_key_check", "table_counts", "per_run", "duplicate_metrics",
            "duplicate_equity", "orphan_children"}

\* Type correctness of the database, the migrators, the server and its requests.
TypeOK ==
    /\ disk \in Databases /\ work \in Databases
    /\ holder \in Migrators \cup {Api, None}
    /\ at \in [Migrators -> Steps]
    /\ api \in {"down", "up", "run_inserted", "children_inserted"}
    /\ saving \in Runs \cup {None}
    /\ saved \subseteq Runs
    /\ reading \in [kind : {"route"}, todo : SUBSET (Runs \X Children),
                    empty : SUBSET (Runs \X Children)]
                     \cup [kind : {"validate", "compare"}, scope : SUBSET Runs,
                           unclean : SUBSET Runs, queries : Seq(Queries), fatal : SUBSET Runs]
                     \cup [kind : {"written"}, unclean : SUBSET Runs]
                     \cup {None}

\* A database the program accepts as current really has the natural keys that
\* its analytics rely on, though the preflight that looked for duplicates is
\* over, and other clients may insert, before the tables are rebuilt.
CurrentIsHardened ==
    Assess(disk) = "current" => \A t \in Keyed : ~Duplicates(disk.rows[t])

\* While the API serves, the unique constraints it was started on stay in
\* place: the schema is checked once, and no migration that runs or fails
\* beside it afterwards takes them away.
ServedSchemaIsHardened == api # "down" => Keyed \subseteq disk.uniques

\* No migration, however it is interrupted or raced, and no abandoned save
\* loses a committed row.
NoRowLost == [][\A t \in Tables : disk.rows[t] \subseteq disk'.rows[t]]_vars

\* A read that found a run saved by the API finds its children as well, and no
\* audit calls such a run defective, though both look in several SELECTs while
\* runs are saved, other clients write and the tables are rebuilt.
ReadsAreWhole ==
    /\ reading # None /\ reading.kind = "route" => \A p \in reading.empty : p[1] \notin saved
    /\ Auditing => reading.fatal \cap saved = {}

\* A comparison that is written had no run with ambiguous metric or equity keys
\* when it was read, on a legacy schema too, although the runs are only audited
\* after the frame has been read and other clients write meanwhile.
ExportIsChecked == reading # None /\ reading.kind = "written" => reading.unclean = {}

\* BLUEPRINT 16.2 promises an atomic migration: between two calls a database
\* that was new or an exact baseline is one the next call accepts.
MigrationIsAtomic ==
    (\A m \in Migrators : at[m] \in Idle) => Assess(disk) # "unknown"

=============================================================================
