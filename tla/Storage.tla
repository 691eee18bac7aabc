------------------------------ MODULE Storage ------------------------------
(***************************************************************************)
(* The life of the database file: MigrationRunner brings its schema up to   *)
(* date at a start (infrastructure/db/runner.py), BackupService copies it   *)
(* and keeps the newest copies (services/backup).  The process may stop     *)
(* between any two steps, and the next one may be another build.            *)
(***************************************************************************)
EXTENDS Naturals, FiniteSets

CONSTANTS
  Builds,      \* the versions each build knows: sets of numbers
  Keep,        \* backup_retention_copies
  MaxTime,     \* bound: seconds, each with one run of the backup at most
  MaxFaults    \* bound: failures and stops

VARIABLES
  pc,          \* what the process does
  known,       \* the versions of its build
  done,        \* statements of the migration under way, not committed
  schema,      \* committed statements: <<version, 1>>, <<version, 2>>
  recorded,    \* table schema_migrations
  copies,      \* files of the backup directory: [at, sound]: checked
  now,
  outcome,     \* backup.last_outcome
  faults

vars == <<pc, known, done, schema, recorded, copies, now, outcome, faults>>

Fault == faults < MaxFaults /\ faults' = faults + 1

Missing == known \ recorded
NextVersion == CHOOSE v \in Missing : \A w \in Missing : v <= w
Statements(v) == {<<v, 1>>, <<v, 2>>}

(***************************************************************************)
(* Defects: plausible errors in the actions below                           *)
(***************************************************************************)
(* The version is recorded in a statement of its own, before the others. *)
RecordFirst ==
  /\ pc = "migrating" /\ done = {}
  /\ recorded' = recorded \cup {NextVersion}
  /\ pc' = "ready" /\ schema' = schema \cup {<<NextVersion, 1>>}
  /\ UNCHANGED <<known, done, copies, now, outcome, faults>>

(***************************************************************************)
(* Migrations                                                               *)
(***************************************************************************)
(* upgrade: a schema with versions the build does not know is refused.      *)
Start ==
  /\ pc = "down"
  /\ \E build \in Builds :
       /\ recorded \subseteq build
       /\ known' = build
       /\ pc' = IF build = recorded THEN "ready" ELSE "migrating"
  /\ UNCHANGED <<done, schema, recorded, copies, now, outcome, faults>>

Execute ==
  /\ pc = "migrating"
  /\ \E s \in Statements(NextVersion) \ done :
       s[2] = Cardinality(done) + 1 /\ done' = done \cup {s}
  /\ UNCHANGED <<pc, known, schema, recorded, copies, now, outcome, faults>>

(* The version is recorded in the transaction of its statements. *)
Commit ==
  /\ pc = "migrating" /\ done = Statements(NextVersion)
  /\ schema' = schema \cup done /\ done' = {}
  /\ recorded' = recorded \cup {NextVersion}
  /\ pc' = IF Missing = {NextVersion} THEN "ready" ELSE "migrating"
  /\ UNCHANGED <<known, copies, now, outcome, faults>>

(***************************************************************************)
(* Backups                                                                  *)
(***************************************************************************)
(* copies: the newest first, as many as are kept. *)
Newest(files) == {c \in files : Cardinality({d \in files : d.at >= c.at}) <= Keep}

Half == [at |-> now, sound |-> FALSE]

(* snapshot_database: a file of that name is removed, VACUUM INTO begins.   *)
BeginCopy ==
  /\ pc = "ready" /\ now < MaxTime
  /\ now' = now + 1
  /\ copies' = {c \in copies : c.at # now'} \cup {[at |-> now', sound |-> FALSE]}
  /\ pc' = "copying"
  /\ UNCHANGED <<known, done, schema, recorded, outcome, faults>>

(* Defect: the old copies go before the new one is known to be sound. *)
RotateFirst ==
  /\ pc = "copying"
  /\ copies' = Newest(copies)
  /\ pc' = "copied"
  /\ UNCHANGED <<known, done, schema, recorded, now, outcome, faults>>

FinishCopy ==
  /\ pc = "copying"
  /\ pc' = "copied"
  /\ UNCHANGED <<known, done, schema, recorded, copies, now, outcome, faults>>

(* The copy or its check fails: _discard, and the outcome says so. *)
CopyFails ==
  /\ pc \in {"copying", "copied"} /\ Fault
  /\ copies' = copies \ {Half}
  /\ outcome' = "failed" /\ pc' = "ready"
  /\ UNCHANGED <<known, done, schema, recorded, now>>

(* integrity_check says ok: _rotate.  A file that cannot be removed stays.  *)
Rotate ==
  /\ pc = "copied"
  /\ LET files == (copies \ {Half}) \cup {[Half EXCEPT !.sound = TRUE]}
     IN \/ copies' = Newest(files) /\ UNCHANGED faults
        \/ Fault /\ \E c \in files \ Newest(files) : copies' = Newest(files) \cup {c}
  /\ pc' = "remembering"
  /\ UNCHANGED <<known, done, schema, recorded, now, outcome>>

Remember ==
  /\ pc = "remembering"
  /\ outcome' = "success" /\ pc' = "ready"
  /\ UNCHANGED <<known, done, schema, recorded, copies, now, faults>>

(* The process stops anywhere: the open transaction is gone, a half-written *)
(* copy stays.                                                              *)
Stop ==
  /\ pc # "down" /\ Fault
  /\ pc' = "down" /\ done' = {}
  /\ UNCHANGED <<known, schema, recorded, copies, now, outcome>>

Init ==
  /\ pc = "down" /\ known = {} /\ done = {} /\ schema = {} /\ recorded = {}
  /\ copies = {} /\ now = 0 /\ outcome = "none" /\ faults = 0

Next ==
  \/ Start \/ Execute \/ Commit
  \/ BeginCopy \/ FinishCopy \/ CopyFails \/ Rotate \/ Remember
  \/ Stop

Spec == Init /\ [][Next]_vars

(***************************************************************************)
(* Properties                                                               *)
(***************************************************************************)
(* The table of migrations tells the truth about the schema whenever the    *)
(* process stopped, each migration is there as a whole, and no build works  *)
(* on a schema that it does not know all of (runner.py, upgrade).           *)
SchemaIsRecorded ==
  /\ schema = UNION {Statements(v) : v \in recorded}
  /\ pc # "down" => recorded \subseteq known
  /\ pc \notin {"down", "migrating"} => recorded = known

(* Once a copy was found sound there is always one that is, at least as new, *)
(* whatever failed and whatever half-written file a stop left among them     *)
(* (BackupService.run, _rotate).                                             *)
NoGoodCopyLost == \A d \in copies : d.sound => \E c \in copies' : c.sound /\ c.at >= d.at
GoodCopyRemains == [][NoGoodCopyLost]_vars
=============================================================================
