----------------------------- MODULE Migrations -----------------------------
(***************************************************************************)
(* init_database of db.py: every store opens its own connection and brings *)
(* the shared SQLite file to schema version 6.  A connection reads the     *)
(* version once and then runs the missing migrations; the version row is   *)
(* written after the last of them.                                         *)
(*                                                                         *)
(* Python's sqlite3 opens a transaction before a row is inserted and never *)
(* before DDL: a CREATE or ALTER TABLE is on disk at once, while the copy  *)
(* of the grant table, the DROP, the RENAME and the indexes commit         *)
(* together.  A process may die between any two statements.                *)
(***************************************************************************)
EXTENDS Naturals, FiniteSets

CONSTANTS Conns,      \* connections, of one or of several processes
          Sessions,   \* session ids of grant rows
          Databases   \* files the program may be started on

CURRENT_SCHEMA_VERSION == 6

GrantTables == {"none", "v2", "v3", "v5"}

Database ==
  [version : Nat,               \* highest row of _schema_version, 0 without one
   base : BOOLEAN,              \* the tables of v1
   grants : GrantTables,        \* definition of approved_operation_grants
   replacements : SUBSET {3, 5}, \* approved_operation_grants_v3, _v5 exist
   tool_call_id : BOOLEAN,      \* the column of v4
   writes : BOOLEAN,            \* the table of v6
   rows : SUBSET Sessions,      \* sessions that have a grant row
   recon : SUBSET Sessions,     \* those whose status is RECONCILIATION_REQUIRED
   dup : BOOLEAN,               \* a session, or a key that is not empty, has two grant rows
   unfit : BOOLEAN]             \* two rows have an empty key, or one another decision than
                                \* the table of v3 allows

\* The first n migrations have run on file d.
Migrated(d, n) ==
  /\ n >= 1 => d.base
  /\ n >= 2 => d.grants # "none"
  /\ n >= 3 => d.grants \in {"v3", "v5"}
  /\ n >= 4 => d.tool_call_id
  /\ n >= 6 => d.writes

\* A file of a known version was left by the release of that version.  From v3 on the
\* grant table has UNIQUE keys and a CHECK of the decision, and only a stamped file has
\* been in service: rows it would refuse are those of version 2.
ASSUME DatabasesAssumption ==
  /\ Databases \subseteq Database
  /\ \A d \in Databases :
       /\ d.version <= CURRENT_SCHEMA_VERSION => Migrated(d, d.version)
       /\ d.dup \/ d.unfit => d.version = 2

VARIABLES db,      \* the committed file
          step,    \* connection -> where init_database is
          next,    \* connection -> migration it is at
          copied,  \* connection -> rows in its replacement table
          writer   \* connections with an open write transaction

migVars == <<db, step, next, copied, writer>>

MigTypeOK ==
  /\ db \in Database
  /\ step \in [Conns -> {"closed", "opening", "migrating", "copying", "swapping", "stamping",
                         "ready", "failed"}]
  /\ next \in [Conns -> 1..CURRENT_SCHEMA_VERSION + 1]
  /\ copied \in [Conns -> SUBSET Sessions]
  /\ writer \subseteq Conns /\ Cardinality(writer) <= 1

MigInit ==
  /\ db \in Databases
  /\ step = [c \in Conns |-> "closed"] /\ next = [c \in Conns |-> 1]
  /\ copied = [c \in Conns |-> {}] /\ writer = {}

\* A write waits for the transaction of another connection.
CanWrite(c) == writer \subseteq {c}

Fail(c) ==
  /\ step' = [step EXCEPT ![c] = "failed"]
  /\ writer' = writer \ {c}
  /\ UNCHANGED <<db, next, copied>>

-----------------------------------------------------------------------------
(* init_database                                                           *)

\* The first use of a store, and every later one while it has no connection.
Open(c) ==
  /\ step[c] \in {"closed", "failed"}
  /\ step' = [step EXCEPT ![c] = "opening"]
  /\ UNCHANGED <<db, next, copied, writer>>

\* Mutant: the version row is written before the migrations run.
ReadVersion_StampsFirst(c) ==
  /\ step[c] = "opening" /\ db.version < CURRENT_SCHEMA_VERSION /\ CanWrite(c)
  /\ next' = [next EXCEPT ![c] = db.version + 1]
  /\ db' = [db EXCEPT !.version = CURRENT_SCHEMA_VERSION]
  /\ step' = [step EXCEPT ![c] = "migrating"]
  /\ UNCHANGED <<copied, writer>>

\* Mutant: a later version is taken for the current one.
ReadVersion_AnyVersion(c) ==
  /\ step[c] = "opening"
  /\ next' = [next EXCEPT ![c] = db.version + 1]
  /\ step' = [step EXCEPT ![c] = IF db.version >= CURRENT_SCHEMA_VERSION THEN "ready" ELSE "migrating"]
  /\ UNCHANGED <<db, copied, writer>>

ReadVersion(c) ==
  /\ step[c] = "opening" /\ db.version <= CURRENT_SCHEMA_VERSION
  /\ next' = [next EXCEPT ![c] = db.version + 1]
  /\ step' = [step EXCEPT ![c] = IF db.version = CURRENT_SCHEMA_VERSION THEN "ready" ELSE "migrating"]
  /\ UNCHANGED <<db, copied, writer>>

FutureVersion(c) ==
  /\ step[c] = "opening" /\ db.version > CURRENT_SCHEMA_VERSION
  /\ Fail(c)

\* Migration n has run and nothing is left to commit.
Done(c) ==
  /\ next' = [next EXCEPT ![c] = @ + 1]
  /\ step' = [step EXCEPT ![c] = IF next[c] = CURRENT_SCHEMA_VERSION THEN "stamping" ELSE "migrating"]
  /\ writer' = writer \ {c}

At(c, n) == step[c] = "migrating" /\ next[c] = n

\* CREATE TABLE IF NOT EXISTS takes the write lock only if it has to create.
CreateTables(c, new) ==
  /\ CanWrite(c) \/ new = db
  /\ db' = new
  /\ Done(c)
  /\ UNCHANGED copied

migrate_v1(c) == At(c, 1) /\ CreateTables(c, [db EXCEPT !.base = TRUE])

migrate_v2(c) ==
  At(c, 2) /\ CreateTables(c, [db EXCEPT !.grants = IF @ = "none" THEN "v2" ELSE @])

migrate_v6(c) == At(c, 6) /\ CreateTables(c, [db EXCEPT !.writes = TRUE])

\* ALTER TABLE ADD COLUMN fails on a column that is there.
migrate_v4(c) ==
  /\ At(c, 4) /\ CanWrite(c) /\ ~db.tool_call_id
  /\ db' = [db EXCEPT !.tool_call_id = TRUE]
  /\ Done(c)
  /\ UNCHANGED copied

DuplicateColumn(c) == At(c, 4) /\ CanWrite(c) /\ db.tool_call_id /\ Fail(c)

(* v3 and v5 rebuild the grant table                                       *)

\* Mutant: duplicates are not looked for.
DuplicateRows_Unchecked(c) == FALSE

\* v3 refuses a table in which a session or a key occurs twice; an empty key is not
\* looked at.
DuplicateRows(c) == At(c, 3) /\ db.dup

CreateReplacement(c, n) ==
  /\ At(c, n) /\ CanWrite(c)
  /\ ~DuplicateRows(c) /\ n \notin db.replacements
  /\ db' = [db EXCEPT !.replacements = @ \cup {n}]
  /\ step' = [step EXCEPT ![c] = "copying"]
  /\ UNCHANGED <<next, copied, writer>>

CannotCreateReplacement(c, n) ==
  /\ At(c, n)
  /\ DuplicateRows(c) \/ (CanWrite(c) /\ n \in db.replacements)
  /\ Fail(c)

\* The constraints of the v3 table: a UNIQUE key, three decisions, and a status that is
\* not yet RECONCILIATION_REQUIRED.
CopyRefused(c) == next[c] = 3 /\ (db.recon # {} \/ db.unfit)

\* Mutant: the copy is a transaction of its own.
CopyGrants_Commits(c) ==
  /\ step[c] = "copying" /\ CanWrite(c) /\ ~CopyRefused(c)
  /\ copied' = [copied EXCEPT ![c] = db.rows]
  /\ step' = [step EXCEPT ![c] = "swapping"]
  /\ UNCHANGED <<db, next, writer>>

\* INSERT INTO ... SELECT: opens the transaction.
CopyGrants(c) ==
  /\ step[c] = "copying" /\ CanWrite(c) /\ ~CopyRefused(c)
  /\ writer' = {c}
  /\ copied' = [copied EXCEPT ![c] = db.rows]
  /\ step' = [step EXCEPT ![c] = "swapping"]
  /\ UNCHANGED <<db, next>>

\* The INSERT raises; the replacement table is on disk and stays there.
CopyViolatesConstraint(c) ==
  /\ step[c] = "copying" /\ CanWrite(c) /\ CopyRefused(c)
  /\ Fail(c)

\* DROP, RENAME, the indexes and the COMMIT.
SwapGrants(c) ==
  /\ step[c] = "swapping"
  /\ db' = [db EXCEPT !.grants = IF next[c] = 3 THEN "v3" ELSE "v5",
                      !.rows = copied[c],
                      !.replacements = @ \ {next[c]}]
  /\ copied' = [copied EXCEPT ![c] = {}]
  /\ Done(c)

Stamp(c) ==
  /\ step[c] = "stamping" /\ CanWrite(c)
  /\ db' = [db EXCEPT !.version = CURRENT_SCHEMA_VERSION]
  /\ step' = [step EXCEPT ![c] = "ready"]
  /\ UNCHANGED <<next, copied, writer>>

\* "database is locked", after sqlite3's default timeout: at the PRAGMA that asks for WAL
\* and at every later statement.  (Allowed also where every table exists already and the
\* statement would not need the lock.)
LockTimeout(c) ==
  /\ step[c] \in {"opening", "migrating", "copying", "stamping"} /\ ~CanWrite(c)
  /\ Fail(c)

\* The process dies; an open transaction is rolled back.
ProcessDies(c) ==
  /\ step[c] # "closed"
  /\ step' = [step EXCEPT ![c] = "closed"]
  /\ copied' = [copied EXCEPT ![c] = {}]
  /\ writer' = writer \ {c}
  /\ UNCHANGED <<db, next>>

-----------------------------------------------------------------------------
(* A connection in service: the writes of GrantRepository to the table     *)

ServeInsert(c, s) ==
  /\ step[c] = "ready" /\ CanWrite(c) /\ s \notin db.rows
  /\ db' = [db EXCEPT !.rows = @ \cup {s}]
  /\ UNCHANGED <<step, next, copied, writer>>

ServeReconcile(c, s) ==
  /\ step[c] = "ready" /\ CanWrite(c) /\ s \in db.rows /\ db.grants = "v5"
  /\ db' = [db EXCEPT !.recon = @ \cup {s}]
  /\ UNCHANGED <<step, next, copied, writer>>

MigStep(c) ==
  \/ Open(c) \/ ReadVersion(c) \/ FutureVersion(c)
  \/ migrate_v1(c) \/ migrate_v2(c) \/ migrate_v4(c) \/ DuplicateColumn(c) \/ migrate_v6(c)
  \/ \E n \in {3, 5} : CreateReplacement(c, n) \/ CannotCreateReplacement(c, n)
  \/ CopyGrants(c) \/ CopyViolatesConstraint(c) \/ SwapGrants(c)
  \/ Stamp(c) \/ LockTimeout(c)

MigNext ==
  \E c \in Conns : \/ MigStep(c) \/ ProcessDies(c)
                   \/ \E s \in Sessions : ServeInsert(c, s) \/ ServeReconcile(c, s)

MigSpec == MigInit /\ [][MigNext]_migVars

-----------------------------------------------------------------------------
(* Properties                                                              *)

\* No grant is ever lost: whatever connections migrate at the same time as others
\* serve, and wherever they die, a committed grant row stays in the grant table and
\* RECONCILIATION_REQUIRED is not forgotten.
RowsPreserved == [][db.rows \subseteq db'.rows /\ db.recon \subseteq db'.recon]_migVars

\* A file stamped 6 has every table and every column that the stores use, although several
\* connections migrate with versions read earlier.  Its grant table may carry the status
\* CHECK of v3 instead of that of v5: a connection that read the version early rebuilds a
\* finished file from v3 on and then fails at v4.
StampedComplete ==
  db.version = CURRENT_SCHEMA_VERSION =>
    db.base /\ db.tool_call_id /\ db.writes /\ db.grants \in {"v3", "v5"}

\* db.py:42 and :257-268: a file of a later version, or with a session or a non-empty key
\* twice in its grant table, is left exactly as it was by any number of connections.
\* Rows that only the constraints of the new table refuse, two empty keys among them, are
\* found out too late for that: the replacement table has been created.
UnsafeIsLeftAlone ==
  [][db.version > CURRENT_SCHEMA_VERSION \/ db.dup => db' = db]_migVars

\* db.py:42 "idempotent schema creation": on a file made by this program, of a known
\* version and without duplicates, initialisation does not fail.
InitSucceeds == \A c \in Conns : step[c] # "failed"

=============================================================================
