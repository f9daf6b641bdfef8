-------------------------- MODULE LifecycleProofs --------------------------
(***************************************************************************)
(* Proofs about Lifecycle and Migrations, for any number of connections    *)
(* and sessions, any file an earlier release left and any configuration:   *)
(* MigInv relates every connection to the file while others migrate, serve *)
(* and die; HoldInv says which store holds which connection; CloseInv      *)
(* follows the clean-up.                                                   *)
(***************************************************************************)
EXTENDS Lifecycle, FiniteSetTheorems, TLAPS

Upgrading == {"migrating", "copying", "swapping", "stamping"}

\* What a connection knows of the file: the migrations before next[c] have run, also
\* those that another connection is running too; a copy of the rows is exact as long as
\* the transaction is open.
ConnOK(c) ==
  /\ step[c] \in Upgrading =>
       db.version <= CURRENT_SCHEMA_VERSION /\ Migrated(db, next[c] - 1)
  /\ step[c] \in {"migrating", "copying", "swapping"} => next[c] <= CURRENT_SCHEMA_VERSION
  /\ step[c] \in {"copying", "swapping"} => next[c] \in {3, 5}
  /\ step[c] = "stamping" => next[c] = CURRENT_SCHEMA_VERSION + 1
  /\ step[c] = "ready" => db.version = CURRENT_SCHEMA_VERSION
  /\ step[c] = "swapping" => writer = {c} /\ copied[c] = db.rows
  /\ c \in writer => step[c] = "swapping"
  /\ db.dup => \/ step[c] \in {"closed", "opening", "failed"}
               \/ step[c] = "migrating" /\ next[c] = 3

FileOK ==
  /\ db.version <= CURRENT_SCHEMA_VERSION => Migrated(db, db.version)
  /\ db.dup => db.version = 2

MigInv == FileOK /\ \A c \in Conns : ConnOK(c)

\* A store holds a connection of its own that is ready; what it does not hold while it
\* cannot be opening one is lost.
HoldInv ==
  /\ \A s \in LazyStores : held[s] # NoConn => owner[held[s]] = s /\ step[held[s]] = "ready"
  /\ \A c \in Conns : Mine(c) =>
       /\ app \in {"serving", "closing", "stopped"} /\ owner[c] \in registered \cup {"checkpoint_saver"}
       /\ app # "serving" => c \in lost \/ held[owner[c]] = c

\* Everything open is recorded, and what close() has passed is closed or stuck.
ClosedOrStuck(r) ==
  r \in stuck \/ IF r \in LazyStores THEN held[r] = NoConn ELSE r \notin live

CloseInv ==
  /\ live \subseteq registered \ LazyStores
  /\ app = "down" => live = {}
  /\ app = "mcp" => "mcp_client" \in registered
  /\ app = "events" => "event_store" \in registered
  /\ app \in {"events", "wiring", "serving"} /\ config.db_path => RecordedStores \subseteq registered
  /\ app = "closing" => \A i \in 1..6 : i < turn => ClosedOrStuck(CloseOrder[i])
  /\ app = "stopped" => \A r \in Resources : ClosedOrStuck(r)

LifeInv == LifeTypeOK /\ MigInv /\ HoldInv /\ CloseInv

-----------------------------------------------------------------------------
(* The steps, by what they do to the file and to a connection              *)

\* The connection of c takes a step of init_database, or serves.
ConnStep(c) ==
  MigStep(c) \/ \E s \in Sessions : ServeInsert(c, s) \/ ServeReconcile(c, s)

\* Connections are closed: of one store, of one other process, or of ours.
Closes == \E dying \in SUBSET Conns : Die(dying)

\* A connection that init_database closed on the way out.
Abandoned(c) ==
  /\ step[c] = "failed" /\ step' = [step EXCEPT ![c] = "closed"]
  /\ UNCHANGED <<db, next, copied, writer>>

\* To the file every step of the application is one of these.
LEMMA FileKinds ==
  ASSUME [LifeNext]_lifeVars
  PROVE  \/ UNCHANGED migVars
         \/ \E c \in Conns : ConnStep(c) \/ Abandoned(c)
         \/ Closes
<1>1. ASSUME NEW c \in Conns, NEW s \in LazyStores, EnsureConnected(s, c) PROVE ConnStep(c)
  BY <1>1 DEF EnsureConnected, ConnStep, MigStep
<1>2. ASSUME NEW c \in Conns, OtherOpens(c) \/ Initialises(c) PROVE ConnStep(c)
  BY <1>2 DEF OtherOpens, Initialises, ConnStep, MigStep
<1>3. ASSUME NEW c \in Conns, Raised(c) PROVE Abandoned(c)
  BY <1>3 DEF Raised, Abandoned
<1>4. ASSUME NEW c \in Conns, NEW s \in Sessions, Serve(c, s) PROVE ConnStep(c)
  BY <1>4 DEF Serve, ConnStep
<1>5. ASSUME NEW c \in Conns, OtherEnds(c) PROVE Closes
  BY <1>5 DEF OtherEnds, Closes
<1>6. ASSUME NEW r \in Resources, CloseStore(r) PROVE Closes
  BY <1>6 DEF CloseStore, Closes
<1>7. CASE ProcessEnds
  <2>1. {c \in Conns : Mine(c)} \in SUBSET Conns
    OBVIOUS
  <2> QED
    BY <1>7, <2>1 DEF ProcessEnds, Closes
<1>8. ASSUME NEW c \in Conns, AssignConnection(c) PROVE UNCHANGED migVars
  BY <1>8 DEF AssignConnection
<1>9. ASSUME NEW r \in Resources, Skip(r) \/ CloseOther(r) \/ CloseRaises(r) PROVE UNCHANGED migVars
  BY <1>9 DEF Skip, CloseOther, CloseRaises
<1>10. ASSUME NEW r \in {"mcp_client", "event_store"}, ConnectFails(r) PROVE UNCHANGED migVars
  BY <1>10 DEF ConnectFails
<1>11. ASSUME \/ StartUp \/ RefuseToStart \/ ConnectMCP \/ ConnectEventStore
              \/ WiringFails \/ Wire \/ ShutDown \/ Stop \/ UNCHANGED lifeVars
       PROVE  UNCHANGED migVars
  BY <1>11 DEF StartUp, RefuseToStart, ConnectMCP, ConnectEventStore, WiringFails, Wire, ShutDown,
               Stop, lifeVars
<1> QED
  BY <1>1, <1>2, <1>3, <1>4, <1>5, <1>6, <1>7, <1>8, <1>9, <1>10, <1>11 DEF LifeNext

\* What a step may do to the committed file: nothing that a migration has put there is
\* taken away, and neither are rows.
Kept ==
  /\ db' \in Database
  /\ db'.dup = db.dup
  /\ db'.version \in {db.version, CURRENT_SCHEMA_VERSION}
  /\ \A n \in Nat : Migrated(db, n) => Migrated(db', n)
  /\ db.rows \subseteq db'.rows /\ db.recon \subseteq db'.recon

\* Every change of the file is made by a connection that may write, keeps what is
\* there, and is not made to a file with duplicates or of a later version.
LEMMA FileGrows ==
  ASSUME MigTypeOK, MigInv, NEW c \in Conns, ConnStep(c)
  PROVE  /\ Kept
         /\ db' # db => /\ writer \subseteq {c} /\ ~db.dup
                        /\ db.version <= CURRENT_SCHEMA_VERSION
<1> USE DEF CURRENT_SCHEMA_VERSION
<1>0. db \in Database /\ ConnOK(c) /\ next[c] \in 1..7
  BY DEF MigTypeOK, MigInv
<1>1. db' = db => Kept
  BY <1>0 DEF Kept
<1>2. step[c] \in Upgrading \cup {"ready"} => db.version <= CURRENT_SCHEMA_VERSION
  BY <1>0 DEF ConnOK, Database
<1>3. CASE migrate_v1(c) \/ migrate_v2(c) \/ migrate_v6(c)
  <2>1. /\ step[c] = "migrating" /\ next[c] \in {1, 2, 6}
        /\ db' # db => writer \subseteq {c}
        /\ \/ db' = [db EXCEPT !.base = TRUE]
           \/ db' = [db EXCEPT !.grants = IF @ = "none" THEN "v2" ELSE @]
           \/ db' = [db EXCEPT !.writes = TRUE]
    <3>1. CASE migrate_v1(c)
      BY <3>1 DEF migrate_v1, At, CreateTables, CanWrite
    <3>2. CASE migrate_v2(c)
      BY <3>2 DEF migrate_v2, At, CreateTables, CanWrite
    <3>3. CASE migrate_v6(c)
      BY <3>3 DEF migrate_v6, At, CreateTables, CanWrite
    <3> QED
      BY <1>3, <3>1, <3>2, <3>3
  <2>2. Kept
    BY <1>0, <2>1 DEF Kept, Database, GrantTables, Migrated
  <2> QED
    BY <1>0, <1>2, <2>1, <2>2 DEF ConnOK, Upgrading
<1>4. CASE migrate_v4(c)
  <2>1. /\ step[c] = "migrating" /\ next[c] = 4 /\ writer \subseteq {c}
        /\ db' = [db EXCEPT !.tool_call_id = TRUE]
    BY <1>4 DEF migrate_v4, At, CanWrite
  <2>2. Kept
    BY <1>0, <2>1 DEF Kept, Database, Migrated
  <2> QED
    BY <1>0, <1>2, <2>1, <2>2 DEF ConnOK, Upgrading
<1>5. ASSUME NEW n \in {3, 5}, CreateReplacement(c, n)
      PROVE  Kept /\ writer \subseteq {c} /\ ~db.dup /\ db.version <= CURRENT_SCHEMA_VERSION
  <2>1. /\ step[c] = "migrating" /\ next[c] = n /\ writer \subseteq {c}
        /\ db' = [db EXCEPT !.replacements = @ \cup {n}]
        /\ n = 3 => ~db.dup
    BY <1>5 DEF CreateReplacement, At, CanWrite, DuplicateRows
  <2>2. Kept
    BY <1>0, <2>1 DEF Kept, Database, Migrated
  <2> QED
    BY <1>0, <1>2, <2>1, <2>2 DEF ConnOK, Upgrading
<1>6. CASE SwapGrants(c)
  <2>1. /\ step[c] = "swapping" /\ writer = {c} /\ copied[c] = db.rows /\ next[c] \in {3, 5}
        /\ db' = [db EXCEPT !.grants = IF next[c] = 3 THEN "v3" ELSE "v5",
                            !.rows = copied[c],
                            !.replacements = @ \ {next[c]}]
    BY <1>0, <1>6 DEF SwapGrants, ConnOK
  <2>2. db'.rows = db.rows /\ db'.grants \in {"v3", "v5"} /\ db'.replacements \in SUBSET {3, 5}
    BY <1>0, <2>1 DEF Database
  <2>3. /\ db'.version = db.version /\ db'.base = db.base /\ db'.tool_call_id = db.tool_call_id
        /\ db'.writes = db.writes /\ db'.recon = db.recon /\ db'.dup = db.dup
    BY <1>0, <2>1 DEF Database
  <2>4. db' \in Database
    BY <1>0, <2>1 DEF Database, GrantTables
  <2>5. Kept
    BY <2>2, <2>3, <2>4 DEF Kept, Migrated
  <2> QED
    BY <1>0, <1>2, <2>1, <2>5 DEF ConnOK, Upgrading
<1>7. CASE Stamp(c)
  <2>1. /\ step[c] = "stamping" /\ writer \subseteq {c}
        /\ db' = [db EXCEPT !.version = CURRENT_SCHEMA_VERSION]
    BY <1>7 DEF Stamp, CanWrite
  <2>2. Kept
    BY <1>0, <2>1 DEF Kept, Database, Migrated
  <2> QED
    BY <1>0, <1>2, <2>1, <2>2 DEF ConnOK, Upgrading
<1>8. ASSUME NEW s \in Sessions, ServeInsert(c, s) \/ ServeReconcile(c, s)
      PROVE  Kept /\ writer \subseteq {c} /\ ~db.dup /\ db.version <= CURRENT_SCHEMA_VERSION
  <2>1. /\ step[c] = "ready" /\ writer \subseteq {c}
        /\ \/ db' = [db EXCEPT !.rows = @ \cup {s}]
           \/ db' = [db EXCEPT !.recon = @ \cup {s}]
    BY <1>8 DEF ServeInsert, ServeReconcile, CanWrite
  <2>2. Kept
    BY <1>0, <2>1 DEF Kept, Database, Migrated
  <2> QED
    BY <1>0, <1>2, <2>1, <2>2 DEF ConnOK, Upgrading
<1>9. ASSUME \/ Open(c) \/ ReadVersion(c) \/ FutureVersion(c) \/ DuplicateColumn(c)
             \/ \E n \in {3, 5} : CannotCreateReplacement(c, n)
             \/ CopyGrants(c) \/ CopyViolatesConstraint(c) \/ LockTimeout(c)
      PROVE  db' = db
  BY <1>9 DEF Open, ReadVersion, FutureVersion, DuplicateColumn, CannotCreateReplacement, CopyGrants,
              CopyViolatesConstraint, LockTimeout, Fail
<1> QED
  BY <1>1, <1>3, <1>4, <1>5, <1>6, <1>7, <1>8, <1>9 DEF ConnStep, MigStep

\* A step of one connection changes no other's place, and takes or gives back the lock
\* for itself only.
LEMMA OneConnection ==
  ASSUME MigTypeOK, NEW c \in Conns, ConnStep(c)
  PROVE  /\ \A o \in Conns \ {c} : step'[o] = step[o] /\ next'[o] = next[o] /\ copied'[o] = copied[o]
         /\ writer' \in {writer, writer \ {c}} \/ (writer \subseteq {c} /\ writer' = {c})
<1> USE DEF MigTypeOK
<1>1. CASE Open(c) \/ ReadVersion(c) \/ Stamp(c)
  BY <1>1 DEF Open, ReadVersion, Stamp
<1>2. CASE Fail(c)
  BY <1>2 DEF Fail
<1>3. ASSUME NEW n \in {3, 5}, CreateReplacement(c, n)
      PROVE  /\ \A o \in Conns \ {c} : step'[o] = step[o] /\ next'[o] = next[o] /\ copied'[o] = copied[o]
             /\ writer' = writer
  BY <1>3 DEF CreateReplacement
<1>4. CASE migrate_v1(c) \/ migrate_v2(c) \/ migrate_v4(c) \/ migrate_v6(c) \/ SwapGrants(c)
  <2>1. Done(c) /\ (copied' = copied \/ copied' = [copied EXCEPT ![c] = {}])
    BY <1>4 DEF migrate_v1, migrate_v2, migrate_v4, migrate_v6, CreateTables, SwapGrants
  <2> QED
    BY <2>1 DEF Done
<1>5. CASE CopyGrants(c)
  BY <1>5 DEF CopyGrants, CanWrite
<1>6. ASSUME NEW s \in Sessions, ServeInsert(c, s) \/ ServeReconcile(c, s)
      PROVE  UNCHANGED <<step, next, copied, writer>>
  BY <1>6 DEF ServeInsert, ServeReconcile
<1>7. ASSUME \/ FutureVersion(c) \/ DuplicateColumn(c) \/ CopyViolatesConstraint(c) \/ LockTimeout(c)
             \/ \E n \in {3, 5} : CannotCreateReplacement(c, n)
      PROVE  Fail(c)
  BY <1>7 DEF FutureVersion, DuplicateColumn, CopyViolatesConstraint, LockTimeout, CannotCreateReplacement
<1> QED
  BY <1>1, <1>2, <1>3, <1>4, <1>5, <1>6, <1>7 DEF ConnStep, MigStep

\* What the other connections know stays true: while one of them is in its transaction
\* nobody else writes.
LEMMA OthersKeep ==
  ASSUME MigTypeOK, MigInv, NEW c \in Conns, ConnStep(c), NEW o \in Conns \ {c}
  PROVE  ConnOK(o)'
<1> USE DEF CURRENT_SCHEMA_VERSION
<1>1. ConnOK(o) /\ next[o] \in 1..7 /\ db \in Database
  BY DEF MigInv, MigTypeOK
<1>2. step'[o] = step[o] /\ next'[o] = next[o] /\ copied'[o] = copied[o]
  BY OneConnection
<1>3. o \in writer' => o \in writer
  BY OneConnection
<1>4. writer = {o} => writer' = {o} /\ db' = db
  BY OneConnection, FileGrows
<1>5. /\ db'.dup = db.dup /\ db'.version \in {db.version, 6}
      /\ \A n \in Nat : Migrated(db, n) => Migrated(db', n)
  BY FileGrows DEF Kept
<1>6. next[o] - 1 \in Nat
  BY <1>1
<1>7. db.version \in Nat
  BY <1>1 DEF Database
<1> QED
  BY <1>1, <1>2, <1>3, <1>4, <1>5, <1>6, <1>7 DEF ConnOK, Upgrading

\* The migration that has just run is there afterwards.
LEMMA DoneOwn ==
  ASSUME MigTypeOK, MigInv, NEW c \in Conns, ConnStep(c), Done(c),
         step[c] \in {"migrating", "swapping"}, ~db.dup, Migrated(db', next[c])
  PROVE  ConnOK(c)'
<1> USE DEF CURRENT_SCHEMA_VERSION
<1>1. ConnOK(c) /\ next[c] \in 1..6 /\ db.version \in Nat /\ db.version <= 6
  BY DEF MigInv, MigTypeOK, ConnOK, Upgrading, Database
<1>2. /\ next'[c] = next[c] + 1 /\ c \notin writer'
      /\ step'[c] = IF next[c] = 6 THEN "stamping" ELSE "migrating"
  BY DEF Done, MigTypeOK
<1>3. db'.dup = db.dup /\ db'.version <= 6 
  BY <1>1, FileGrows DEF Kept
<1>4. next'[c] - 1 = next[c]
  BY <1>1, <1>2
<1> QED
  BY <1>1, <1>2, <1>3, <1>4 DEF ConnOK, Upgrading

\* What the connection that makes the step knows afterwards.
LEMMA OwnKeep ==
  ASSUME MigTypeOK, MigInv, NEW c \in Conns, ConnStep(c)
  PROVE  ConnOK(c)'
<1> USE DEF CURRENT_SCHEMA_VERSION
<1>0. /\ ConnOK(c) /\ FileOK /\ next[c] \in 1..7 /\ db \in Database /\ db.version \in Nat
      /\ step \in [Conns -> {"closed", "opening", "migrating", "copying", "swapping", "stamping",
                         "ready", "failed"}]
      /\ next \in [Conns -> 1..7] /\ copied \in [Conns -> SUBSET Sessions]
  BY DEF MigInv, MigTypeOK, Database
<1>1. Kept
  BY FileGrows
<1>2. CASE Open(c)
  BY <1>0, <1>2 DEF Open, ConnOK, Upgrading
<1>3. CASE ReadVersion(c)
  <2>1. /\ step[c] = "opening" /\ db.version <= 6 /\ db' = db /\ writer' = writer
        /\ next'[c] = db.version + 1
        /\ step'[c] = IF db.version = 6 THEN "ready" ELSE "migrating"
    BY <1>0, <1>3 DEF ReadVersion
  <2>2. Migrated(db, next'[c] - 1) /\ (db.dup => next'[c] = 3 /\ db.version = 2)
    <3>1. next'[c] - 1 = db.version
      BY <1>0, <2>1
    <3> QED
      BY <1>0, <2>1, <3>1 DEF FileOK
  <2>3. db.version # 6 => next'[c] <= 6
    BY <1>0, <2>1
  <2> QED
    BY <1>0, <2>1, <2>2, <2>3 DEF ConnOK, Upgrading
<1>4. CASE Fail(c)
  BY <1>0, <1>4 DEF Fail, ConnOK, Upgrading
<1>5. CASE migrate_v1(c)
  <2>1. step[c] = "migrating" /\ next[c] = 1 /\ Done(c) /\ db' = [db EXCEPT !.base = TRUE]
    BY <1>5 DEF migrate_v1, At, CreateTables
  <2>2. ~db.dup /\ Migrated(db', next[c])
    BY <1>0, <2>1 DEF ConnOK, Database, Migrated
  <2> QED
    BY <2>1, <2>2, DoneOwn
<1>6. CASE migrate_v2(c)
  <2>1. /\ step[c] = "migrating" /\ next[c] = 2 /\ Done(c)
        /\ db' = [db EXCEPT !.grants = IF @ = "none" THEN "v2" ELSE @]
    BY <1>6 DEF migrate_v2, At, CreateTables
  <2>2. Migrated(db, 1) /\ ~db.dup
    BY <1>0, <2>1 DEF ConnOK, Upgrading
  <2>3. Migrated(db', next[c])
    BY <1>0, <2>1, <2>2 DEF Database, Migrated
  <2> QED
    BY <2>1, <2>2, <2>3, DoneOwn
<1>7. CASE migrate_v4(c)
  <2>1. step[c] = "migrating" /\ next[c] = 4 /\ Done(c) /\ db' = [db EXCEPT !.tool_call_id = TRUE]
    BY <1>7 DEF migrate_v4, At
  <2>2. Migrated(db, 3) /\ ~db.dup
    BY <1>0, <2>1 DEF ConnOK, Upgrading
  <2>3. Migrated(db', next[c])
    BY <1>0, <2>1, <2>2 DEF Database, Migrated
  <2> QED
    BY <2>1, <2>2, <2>3, DoneOwn
<1>8. CASE migrate_v6(c)
  <2>1. step[c] = "migrating" /\ next[c] = 6 /\ Done(c) /\ db' = [db EXCEPT !.writes = TRUE]
    BY <1>8 DEF migrate_v6, At, CreateTables
  <2>2. Migrated(db, 5) /\ ~db.dup
    BY <1>0, <2>1 DEF ConnOK, Upgrading
  <2>3. Migrated(db', next[c])
    BY <1>0, <2>1, <2>2 DEF Database, Migrated
  <2> QED
    BY <2>1, <2>2, <2>3, DoneOwn
<1>9. ASSUME NEW n \in {3, 5}, CreateReplacement(c, n)
      PROVE  ConnOK(c)'
  <2>1. /\ step[c] = "migrating" /\ next[c] = n /\ writer' = writer /\ step'[c] = "copying"
        /\ next'[c] = n
        /\ n = 3 => ~db.dup
    BY <1>0, <1>9 DEF CreateReplacement, At, DuplicateRows
  <2>2. ~db.dup /\ Migrated(db, n - 1) /\ db.version <= 6 /\ c \notin writer
    <3>1. next[c] - 1 = n - 1
      BY <2>1
    <3> QED
      BY <1>0, <2>1, <3>1 DEF ConnOK, Upgrading
  <2>3. ~db'.dup /\ Migrated(db', n - 1) /\ db'.version <= 6
    <3>1. n - 1 \in Nat
      OBVIOUS
    <3> QED
      BY <1>0, <1>1, <2>2, <3>1 DEF Kept
  <2> QED
    BY <2>1, <2>2, <2>3 DEF ConnOK, Upgrading
<1>10. CASE CopyGrants(c)
  BY <1>0, <1>10 DEF CopyGrants, ConnOK, Upgrading
<1>11. CASE SwapGrants(c)
  <2>1. /\ step[c] = "swapping" /\ next[c] \in {3, 5} /\ Done(c) /\ ~db.dup
        /\ Migrated(db, next[c] - 1)
    BY <1>0, <1>11 DEF SwapGrants, ConnOK, Upgrading
  <2>2. db'.grants \in {"v3", "v5"}
    BY <1>0, <1>11 DEF SwapGrants, Database
  <2>3. Migrated(db', next[c] - 1)
    BY <1>0, <1>1, <2>1 DEF Kept
  <2>4. Migrated(db', next[c])
    BY <2>1, <2>2, <2>3 DEF Migrated
  <2> QED
    BY <2>1, <2>4, DoneOwn
<1>12. CASE Stamp(c)
  <2>1. /\ step[c] = "stamping" /\ step'[c] = "ready" /\ writer' = writer
        /\ db' = [db EXCEPT !.version = 6]
    BY <1>0, <1>12 DEF Stamp
  <2>2. db'.version = 6 /\ db'.dup = db.dup
    BY <1>0, <2>1 DEF Database
  <2> QED
    BY <1>0, <2>1, <2>2 DEF ConnOK, Upgrading
<1>13. ASSUME NEW s \in Sessions, ServeInsert(c, s) \/ ServeReconcile(c, s)
       PROVE  ConnOK(c)'
  <2>1. step[c] = "ready" /\ UNCHANGED <<step, next, copied, writer>>
    BY <1>13 DEF ServeInsert, ServeReconcile
  <2>2. db'.version = 6 /\ db'.dup = db.dup
    BY <1>0, <1>1, <2>1 DEF Kept, ConnOK
  <2> QED
    BY <1>0, <2>1, <2>2 DEF ConnOK, Upgrading
<1>14. ASSUME \/ FutureVersion(c) \/ DuplicateColumn(c) \/ CopyViolatesConstraint(c) \/ LockTimeout(c)
              \/ \E n \in {3, 5} : CannotCreateReplacement(c, n)
       PROVE  Fail(c)
  BY <1>14 DEF FutureVersion, DuplicateColumn, CopyViolatesConstraint, LockTimeout, CannotCreateReplacement
<1> QED
  BY <1>2, <1>3, <1>4, <1>5, <1>6, <1>7, <1>8, <1>9, <1>10, <1>11, <1>12, <1>13, <1>14
     DEF ConnStep, MigStep

\* Only Stamp changes the version.
LEMMA VersionMoves ==
  ASSUME db \in Database, NEW c \in Conns, ConnStep(c)
  PROVE  db'.version = db.version \/ Stamp(c)
<1>1. CASE migrate_v1(c) \/ migrate_v2(c) \/ migrate_v4(c) \/ migrate_v6(c)
  BY <1>1 DEF migrate_v1, migrate_v2, migrate_v4, migrate_v6, CreateTables, Database
<1>2. CASE SwapGrants(c)
  BY <1>2 DEF SwapGrants, Database
<1>3. ASSUME NEW n \in {3, 5}, CreateReplacement(c, n) PROVE db'.version = db.version
  BY <1>3 DEF CreateReplacement, Database
<1>4. ASSUME NEW s \in Sessions, ServeInsert(c, s) \/ ServeReconcile(c, s)
      PROVE  db'.version = db.version
  BY <1>4 DEF ServeInsert, ServeReconcile, Database
<1>5. ASSUME \/ Open(c) \/ ReadVersion(c) \/ FutureVersion(c) \/ DuplicateColumn(c)
             \/ \E n \in {3, 5} : CannotCreateReplacement(c, n)
             \/ CopyGrants(c) \/ CopyViolatesConstraint(c) \/ LockTimeout(c)
      PROVE  db' = db
  BY <1>5 DEF Open, ReadVersion, FutureVersion, DuplicateColumn, CannotCreateReplacement, CopyGrants,
              CopyViolatesConstraint, LockTimeout, Fail
<1> QED
  BY <1>1, <1>2, <1>3, <1>4, <1>5 DEF ConnStep, MigStep

\* The invariant of the file and its connections, over every step of the application.
LEMMA MigInvStep ==
  ASSUME MigTypeOK, MigInv, [LifeNext]_lifeVars
  PROVE  MigInv'
<1> USE DEF CURRENT_SCHEMA_VERSION
<1>1. ASSUME NEW c \in Conns, ConnStep(c) PROVE MigInv'
  <2>1. \A o \in Conns : ConnOK(o)'
    BY <1>1, OthersKeep, OwnKeep
  <2>2. db \in Database /\ db.version \in Nat /\ FileOK /\ ConnOK(c) /\ Kept
    <3>1. Kept
      BY <1>1, FileGrows
    <3> QED
      BY <3>1 DEF MigTypeOK, MigInv, Database
  <2>3. ASSUME db'.version = db.version PROVE FileOK'
    BY <2>2, <2>3 DEF FileOK, Kept
  <2>4. ASSUME Stamp(c) PROVE FileOK'
    <3>1. step[c] = "stamping" /\ db' = [db EXCEPT !.version = 6]
      BY <2>4 DEF Stamp
    <3>2. next[c] = 7 /\ ~db.dup /\ Migrated(db, next[c] - 1)
      BY <2>2, <3>1 DEF ConnOK, Upgrading
    <3>3. db'.version = 6 /\ Migrated(db, 6)
      BY <2>2, <3>1, <3>2 DEF Database
    <3> QED
      BY <2>2, <3>2, <3>3 DEF FileOK, Kept
  <2> QED
    BY <1>1, <2>1, <2>2, <2>3, <2>4, VersionMoves DEF MigInv
<1>2. ASSUME NEW c \in Conns, Abandoned(c) PROVE MigInv'
  <2>1. \A o \in Conns :
          \/ step'[o] = step[o]
          \/ step[o] = "failed" /\ step'[o] = "closed"
    BY <1>2 DEF Abandoned, MigTypeOK
  <2>2. UNCHANGED <<db, next, copied, writer>>
    BY <1>2 DEF Abandoned
  <2> QED
    BY <2>1, <2>2 DEF MigInv, FileOK, ConnOK, Upgrading
<1>3. CASE Closes
  <2>1. PICK dying \in SUBSET Conns : Die(dying)
    BY <1>3 DEF Closes
  <2>2. ASSUME NEW o \in Conns PROVE ConnOK(o)'
    <3>1. ConnOK(o)
      BY DEF MigInv
    <3>2. CASE o \in dying
      BY <2>1, <3>1, <3>2 DEF Die, ConnOK, Upgrading
    <3>3. CASE o \notin dying
      BY <2>1, <3>1, <3>3 DEF Die, ConnOK
    <3> QED
      BY <3>2, <3>3
  <2> QED
    BY <2>1, <2>2 DEF Die, MigInv, FileOK
<1>4. CASE UNCHANGED migVars
  BY <1>4 DEF migVars, MigInv, FileOK, ConnOK
<1> QED
  BY <1>1, <1>2, <1>3, <1>4, FileKinds

\* A set is no larger than one of its elements.
LEMMA AtMostOne ==
  ASSUME NEW W, \A c \in W : W = {c}
  PROVE  Cardinality(W) <= 1
<1>1. CASE W = {}
  BY <1>1, FS_EmptySet
<1>2. ASSUME NEW c \in W PROVE Cardinality(W) <= 1
  <2>1. W = {c}
    BY <1>2
  <2>2. Cardinality({c}) = 1
    BY FS_Singleton
  <2> QED
    BY <2>1, <2>2
<1> QED
  BY <1>1, <1>2

\* Types of the file and its connections; the one writer follows from MigInv.
LEMMA MigTypeStep ==
  ASSUME MigTypeOK, MigInv, [LifeNext]_lifeVars
  PROVE  MigTypeOK'
<1> USE DEF CURRENT_SCHEMA_VERSION
<1> DEFINE Places == {"closed", "opening", "migrating", "copying", "swapping", "stamping",
                      "ready", "failed"}
<1>0. /\ step \in [Conns -> Places] /\ next \in [Conns -> 1..7]
      /\ copied \in [Conns -> SUBSET Sessions] /\ writer \subseteq Conns /\ db \in Database
  BY DEF MigTypeOK
<1>1. ASSUME NEW c \in Conns, ConnStep(c)
      PROVE  /\ db' \in Database /\ step' \in [Conns -> Places] /\ next' \in [Conns -> 1..7]
             /\ copied' \in [Conns -> SUBSET Sessions] /\ writer' \subseteq Conns
  <2>1. db' \in Database
    BY <1>1, FileGrows DEF Kept
  <2>2. writer' \subseteq Conns
    BY <1>0, <1>1, OneConnection
  <2>3. ConnOK(c) /\ next[c] \in 1..7 /\ db.version \in Nat /\ db.rows \in SUBSET Sessions
    BY <1>0 DEF MigInv, Database
  <2>4. \/ \E to \in Places : step' = [step EXCEPT ![c] = to]
        \/ step' = step
    BY <1>1 DEF ConnStep, MigStep, Open, ReadVersion, FutureVersion, DuplicateColumn,
                CannotCreateReplacement, CopyGrants, CopyViolatesConstraint, LockTimeout, Fail, migrate_v1,
                migrate_v2, migrate_v4, migrate_v6, CreateTables, Done, CreateReplacement,
                SwapGrants, Stamp, ServeInsert, ServeReconcile
  <2>5. \/ next' = next
        \/ next' = [next EXCEPT ![c] = @ + 1] /\ next[c] <= 6
        \/ next' = [next EXCEPT ![c] = db.version + 1] /\ db.version <= 6
    BY <1>1, <2>3
       DEF ConnStep, MigStep, Open, ReadVersion, FutureVersion, DuplicateColumn,
           CannotCreateReplacement, CopyGrants, CopyViolatesConstraint, LockTimeout, Fail, migrate_v1,
           migrate_v2, migrate_v4, migrate_v6, CreateTables, Done, CreateReplacement,
           SwapGrants, Stamp, ServeInsert, ServeReconcile, At, ConnOK
  <2>6. \/ copied' = copied
        \/ copied' = [copied EXCEPT ![c] = {}]
        \/ copied' = [copied EXCEPT ![c] = db.rows]
    BY <1>1 DEF ConnStep, MigStep, Open, ReadVersion, FutureVersion, DuplicateColumn,
                CannotCreateReplacement, CopyGrants, CopyViolatesConstraint, LockTimeout, Fail, migrate_v1,
                migrate_v2, migrate_v4, migrate_v6, CreateTables, Done, CreateReplacement,
                SwapGrants, Stamp, ServeInsert, ServeReconcile
  <2>7. step' \in [Conns -> Places] /\ copied' \in [Conns -> SUBSET Sessions]
    BY <1>0, <2>3, <2>4, <2>6
  <2>8. next' \in [Conns -> 1..7]
    BY <1>0, <2>3, <2>5
  <2> QED
    BY <2>1, <2>2, <2>7, <2>8
<1>2. ASSUME NEW c \in Conns, Abandoned(c)
      PROVE  /\ db' \in Database /\ step' \in [Conns -> Places] /\ next' \in [Conns -> 1..7]
             /\ copied' \in [Conns -> SUBSET Sessions] /\ writer' \subseteq Conns
  BY <1>0, <1>2 DEF Abandoned
<1>3. ASSUME Closes
      PROVE  /\ db' \in Database /\ step' \in [Conns -> Places] /\ next' \in [Conns -> 1..7]
             /\ copied' \in [Conns -> SUBSET Sessions] /\ writer' \subseteq Conns
  BY <1>0, <1>3 DEF Closes, Die
<1>4. ASSUME UNCHANGED migVars
      PROVE  /\ db' \in Database /\ step' \in [Conns -> Places] /\ next' \in [Conns -> 1..7]
             /\ copied' \in [Conns -> SUBSET Sessions] /\ writer' \subseteq Conns
  BY <1>0, <1>4 DEF migVars
<1>5. /\ db' \in Database /\ step' \in [Conns -> Places] /\ next' \in [Conns -> 1..7]
      /\ copied' \in [Conns -> SUBSET Sessions] /\ writer' \subseteq Conns
  BY <1>1, <1>2, <1>3, <1>4, FileKinds
<1>6. Cardinality(writer') <= 1
  <2>1. \A c \in writer' : writer' = {c}
    BY <1>5, MigInvStep DEF MigInv, ConnOK
  <2> QED
    BY <2>1, AtMostOne
<1> QED
  BY <1>5, <1>6 DEF MigTypeOK

-----------------------------------------------------------------------------
(* The application                                                         *)

\* The order in which close() works, spelt out.
LEMMA OrderFacts ==
  /\ Len(CloseOrder) = 6
  /\ Resources = {"hitl_store", "grant_repo", "idempotency_store", "event_store",
                  "llm_provider", "mcp_client"}
  /\ \A r \in Resources : \E i \in 1..6 : CloseOrder[i] = r
  /\ RecordedStores \subseteq Resources /\ "checkpoint_saver" \notin Resources
<1>1. Len(CloseOrder) = 6
  BY DEF CloseOrder
<1>2. Resources = {"hitl_store", "grant_repo", "idempotency_store", "event_store",
                   "llm_provider", "mcp_client"}
  BY <1>1 DEF Resources, CloseOrder
<1>3. \A r \in Resources : \E i \in 1..6 : CloseOrder[i] = r
  BY <1>1 DEF Resources
<1> QED
  BY <1>1, <1>2, <1>3 DEF RecordedStores

\* Steps of connections that ApplicationResources does not see.
Unseen ==
  \/ \E c \in Conns :
       \/ \E s \in LazyStores : EnsureConnected(s, c)
       \/ OtherOpens(c) \/ Initialises(c) \/ Raised(c) \/ OtherEnds(c)
       \/ \E s \in Sessions : Serve(c, s)
  \/ UNCHANGED lifeVars

\* Steps of bootstrap_app.
Starting ==
  \/ StartUp \/ RefuseToStart \/ ConnectMCP \/ ConnectEventStore
  \/ \E r \in {"mcp_client", "event_store"} : ConnectFails(r)
  \/ WiringFails \/ Wire

\* Steps of close() that leave every connection open.
Passing == \E r \in Resources : Skip(r) \/ CloseOther(r) \/ CloseRaises(r)

\* A step of the application is one of these.
LEMMA AppKinds ==
  ASSUME [LifeNext]_lifeVars
  PROVE  \/ Unseen \/ Starting \/ Passing \/ ShutDown \/ Stop \/ ProcessEnds
         \/ \E c \in Conns : AssignConnection(c)
         \/ \E r \in Resources : CloseStore(r)
BY DEF LifeNext, Unseen, Starting, Passing

\* What Unseen leaves alone.
LEMMA UnseenKeeps ==
  ASSUME Unseen
  PROVE  UNCHANGED <<app, config, registered, live, held, lost, turn, stuck>>
BY DEF Unseen, EnsureConnected, OtherOpens, Initialises, Raised, OtherEnds, Serve, lifeVars, appVars

\* Types of the application's own variables.
LEMMA LifeTypeStep ==
  ASSUME LifeTypeOK, MigInv, [LifeNext]_lifeVars
  PROVE  LifeTypeOK'
<1>0. /\ app \in {"down", "mcp", "events", "wiring", "serving", "closing", "stopped"}
      /\ config \in Config
      /\ registered \subseteq Resources /\ live \subseteq Resources /\ stuck \subseteq Resources
      /\ owner \in [Conns -> LazyStores \cup {"other", "none"}]
      /\ held \in [LazyStores -> Conns \cup {NoConn}]
      /\ lost \subseteq Conns
      /\ turn \in 1..7
  BY OrderFacts DEF LifeTypeOK
<1>1. MigTypeOK'
  BY MigTypeStep DEF LifeTypeOK
<1>2. owner' \in [Conns -> LazyStores \cup {"other", "none"}]
  <2>1. CASE UNCHANGED owner
    BY <1>0, <2>1
  <2>2. ASSUME NEW c \in Conns, NEW o \in LazyStores \cup {"other", "none"},
               owner' = [owner EXCEPT ![c] = o]
        PROVE  owner' \in [Conns -> LazyStores \cup {"other", "none"}]
    BY <1>0, <2>2
  <2>3. ASSUME NEW dying, Die(dying)
        PROVE  owner' \in [Conns -> LazyStores \cup {"other", "none"}]
    BY <1>0, <2>3 DEF Die
  <2>4. CASE Unseen
    BY <2>1, <2>2, <2>3, <2>4 DEF Unseen, EnsureConnected, OtherOpens, Initialises, Raised, OtherEnds,
                                  Serve, lifeVars, appVars
  <2>5. CASE Starting \/ Passing \/ ShutDown \/ Stop \/ \E c \in Conns : AssignConnection(c)
    BY <2>1, <2>5 DEF Starting, StartUp, RefuseToStart, ConnectMCP, ConnectEventStore, ConnectFails,
                      WiringFails, Wire, Passing, Skip, CloseOther, CloseRaises, ShutDown, Stop,
                      AssignConnection
  <2>6. ASSUME ProcessEnds \/ \E r \in Resources : CloseStore(r)
        PROVE  owner' \in [Conns -> LazyStores \cup {"other", "none"}]
    BY <2>3, <2>6 DEF ProcessEnds, CloseStore
  <2> QED
    BY <2>4, <2>5, <2>6, AppKinds
<1>3. held' \in [LazyStores -> Conns \cup {NoConn}] /\ lost' \subseteq Conns
  <2>1. ASSUME NEW c \in Conns, AssignConnection(c)
        PROVE  held' \in [LazyStores -> Conns \cup {NoConn}] /\ lost' \subseteq Conns
    BY <1>0, <2>1 DEF AssignConnection, Opened, Mine
  <2>2. ASSUME NEW r \in Resources, CloseStore(r)
        PROVE  held' \in [LazyStores -> Conns \cup {NoConn}] /\ lost' \subseteq Conns
    BY <1>0, <2>2 DEF CloseStore
  <2>3. CASE ProcessEnds
    BY <2>3 DEF ProcessEnds
  <2>4. CASE Starting \/ Passing \/ ShutDown \/ Stop
    BY <1>0, <2>4 DEF Starting, StartUp, RefuseToStart, ConnectMCP, ConnectEventStore, ConnectFails,
                      WiringFails, Wire, Passing, Skip, CloseOther, CloseRaises, ShutDown, Stop
  <2> QED
    BY <1>0, <2>1, <2>2, <2>3, <2>4, AppKinds, UnseenKeeps
<1>4. /\ app' \in {"down", "mcp", "events", "wiring", "serving", "closing", "stopped"}
      /\ config' \in Config
      /\ registered' \subseteq Resources /\ live' \subseteq Resources /\ stuck' \subseteq Resources
      /\ turn' \in 1..7
  <2>1. CASE Starting
    <3>1. /\ config' = config /\ stuck' = stuck /\ turn' \in {turn, 1}
          /\ app' \in {"mcp", "stopped", "events", "wiring", "closing", "serving"}
      BY <2>1 DEF Starting, StartUp, RefuseToStart, ConnectMCP, ConnectEventStore, ConnectFails,
                  WiringFails, Wire, Rollback
    <3>2. /\ registered' \subseteq registered \cup {"llm_provider", "mcp_client"} \cup Recorded
          /\ live' \subseteq live \cup {"llm_provider", "mcp_client", "event_store"}
      BY <2>1 DEF Starting, StartUp, RefuseToStart, ConnectMCP, ConnectEventStore, ConnectFails,
                  WiringFails, Wire
    <3>3. Recorded \subseteq Resources
      BY OrderFacts DEF Recorded
    <3>4. registered' \subseteq Resources /\ live' \subseteq Resources
      BY <1>0, <3>2, <3>3, OrderFacts
    <3> QED
      BY <1>0, <3>1, <3>4
  <2>2. CASE Passing
    <3>1. /\ UNCHANGED <<app, config, registered>>
          /\ turn' = turn + 1 /\ turn <= 6
          /\ live' \subseteq live /\ stuck' \subseteq Resources
      BY <1>0, <2>2, OrderFacts DEF Passing, Skip, CloseOther, CloseRaises, Closing
    <3> QED
      BY <1>0, <3>1
  <2>3. CASE ShutDown \/ Stop \/ \E c \in Conns : AssignConnection(c)
    BY <1>0, <2>3 DEF ShutDown, Stop, AssignConnection, Rollback
  <2>4. ASSUME NEW r \in Resources, CloseStore(r)
        PROVE  /\ UNCHANGED <<app, config, registered, live, stuck>>
               /\ turn' \in 1..7
    BY <1>0, <2>4, OrderFacts DEF CloseStore, Closing
  <2>5. CASE ProcessEnds
    BY <2>5, LifecycleAssumption DEF ProcessEnds
  <2> QED
    BY <1>0, <2>1, <2>2, <2>3, <2>4, <2>5, AppKinds, UnseenKeeps
<1> QED
  BY <1>1, <1>2, <1>3, <1>4, OrderFacts DEF LifeTypeOK

\* What a store holds is a connection, its own, and no other store holds it.
LEMMA HeldFacts ==
  ASSUME LifeTypeOK, HoldInv, NEW s \in LazyStores, held[s] # NoConn
  PROVE  /\ held[s] \in Conns /\ owner[held[s]] = s /\ step[held[s]] = "ready" /\ Mine(held[s])
         /\ s \in registered \cup {"checkpoint_saver"} /\ app \in {"serving", "closing", "stopped"}
         /\ s \notin {"none", "other"}
BY DEF LifeTypeOK, HoldInv, Mine, LazyStores, RecordedStores

\* A connection that is ready has left init_database.
LEMMA ReadyIsDone ==
  ASSUME NEW c \in Conns, MigStep(c)
  PROVE  step[c] # "ready"
BY DEF MigStep, Open, ReadVersion, FutureVersion, DuplicateColumn, CannotCreateReplacement, CopyGrants,
       CopyViolatesConstraint, LockTimeout, migrate_v1, migrate_v2, migrate_v4, migrate_v6,
       CreateReplacement, SwapGrants, Stamp, At

\* Only its own store, or the end of the process, takes a held connection away.
LEMMA HoldStep ==
  ASSUME LifeInv, [LifeNext]_lifeVars
  PROVE  HoldInv'
<1>0. /\ LifeTypeOK /\ HoldInv /\ CloseInv
      /\ owner \in [Conns -> LazyStores \cup {"other", "none"}]
      /\ held \in [LazyStores -> Conns \cup {NoConn}]
      /\ step \in [Conns -> {"closed", "opening", "migrating", "copying", "swapping", "stamping",
                         "ready", "failed"}]
  BY DEF LifeInv, LifeTypeOK, MigTypeOK
<1>1. CASE Unseen
  <2>1. UNCHANGED <<app, config, registered, live, held, lost, turn, stuck>>
    BY <1>1, UnseenKeeps
  <2>2. ASSUME NEW c \in Conns, NEW s \in LazyStores, EnsureConnected(s, c) PROVE HoldInv'
    <3>1. /\ app = "serving" /\ config.db_path /\ owner[c] = "none" /\ owner' = [owner EXCEPT ![c] = s]
          /\ step' = [step EXCEPT ![c] = "opening"]
      BY <2>2 DEF EnsureConnected, Open
    <3>2. s \in registered \cup {"checkpoint_saver"}
      BY <1>0, <3>1 DEF CloseInv, LazyStores
    <3>3. \A t \in LazyStores : held[t] # NoConn => held[t] # c /\ held[t] \in Conns
      BY <1>0, <3>1, HeldFacts
    <3> QED
      BY <1>0, <2>1, <3>1, <3>2, <3>3 DEF HoldInv, Mine
  <2>3. ASSUME NEW c \in Conns, OtherOpens(c) PROVE HoldInv'
    <3>1. /\ owner[c] = "none" /\ owner' = [owner EXCEPT ![c] = "other"]
          /\ step' = [step EXCEPT ![c] = "opening"]
      BY <2>3 DEF OtherOpens, Open
    <3>2. \A t \in LazyStores : held[t] # NoConn => held[t] # c /\ held[t] \in Conns
      BY <1>0, <3>1, HeldFacts
    <3>3. "other" \notin LazyStores
      BY DEF LazyStores, RecordedStores
    <3> QED
      BY <1>0, <2>1, <3>1, <3>2, <3>3 DEF HoldInv, Mine
  <2>4. ASSUME NEW c \in Conns, Initialises(c) PROVE HoldInv'
    <3>1. owner' = owner /\ step[c] # "ready" /\ \A o \in Conns \ {c} : step'[o] = step[o]
      BY <1>0, <2>4, ReadyIsDone, OneConnection
         DEF Initialises, ConnStep, appVars, LifeTypeOK
    <3>2. \A t \in LazyStores : held[t] # NoConn => held[t] # c /\ held[t] \in Conns
      BY <1>0, <3>1, HeldFacts
    <3> QED
      BY <1>0, <2>1, <3>1, <3>2 DEF HoldInv, Mine
  <2>5. ASSUME NEW c \in Conns, Raised(c) PROVE HoldInv'
    <3>1. /\ step[c] = "failed" /\ owner' = [owner EXCEPT ![c] = "none"]
          /\ step' = [step EXCEPT ![c] = "closed"]
      BY <2>5 DEF Raised
    <3>2. \A t \in LazyStores : held[t] # NoConn => held[t] # c /\ held[t] \in Conns
      BY <1>0, <3>1, HeldFacts
    <3>3. "none" \notin LazyStores
      BY DEF LazyStores, RecordedStores
    <3> QED
      BY <1>0, <2>1, <3>1, <3>2, <3>3 DEF HoldInv, Mine
  <2>6. ASSUME NEW c \in Conns, OtherEnds(c) PROVE HoldInv'
    <3>1. /\ owner[c] = "other"
          /\ step' = [o \in Conns |-> IF o \in {c} THEN "closed" ELSE step[o]]
          /\ owner' = [o \in Conns |-> IF o \in {c} THEN "none" ELSE owner[o]]
      BY <2>6 DEF OtherEnds, Die
    <3>2. \A t \in LazyStores : held[t] # NoConn => held[t] # c /\ held[t] \in Conns
      BY <1>0, <3>1, HeldFacts
    <3>3. "none" \notin LazyStores
      BY DEF LazyStores, RecordedStores
    <3> QED
      BY <1>0, <2>1, <3>1, <3>2, <3>3 DEF HoldInv, Mine
  <2>7. ASSUME NEW c \in Conns, NEW s \in Sessions, Serve(c, s) PROVE HoldInv'
    <3>1. owner' = owner /\ step' = step
      BY <2>7 DEF Serve, ServeInsert, ServeReconcile, appVars
    <3> QED
      BY <1>0, <2>1, <3>1 DEF HoldInv, Mine
  <2>8. CASE UNCHANGED lifeVars
    BY <1>0, <2>8 DEF lifeVars, migVars, appVars, HoldInv, Mine
  <2> QED
    BY <1>1, <2>2, <2>3, <2>4, <2>5, <2>6, <2>7, <2>8 DEF Unseen
<1>2. CASE Starting
  <2>1. app \in {"down", "mcp", "events", "wiring"} /\ UNCHANGED <<owner, held>>
    BY <1>2 DEF Starting, StartUp, RefuseToStart, ConnectMCP, ConnectEventStore, ConnectFails,
                WiringFails, Wire
  <2>2. \A s \in LazyStores : held[s] = NoConn
    BY <1>0, <2>1, HeldFacts
  <2>3. \A c \in Conns : ~Mine(c)
    BY <1>0, <2>1 DEF HoldInv
  <2> QED
    BY <2>1, <2>2, <2>3 DEF HoldInv, Mine
<1>3. CASE Passing \/ Stop \/ ShutDown
  <2>1. /\ UNCHANGED <<owner, held, lost, step, registered>>
        /\ app' \in {"closing", "stopped"}
        /\ \/ app = "closing"
           \/ \A c \in Conns : Mine(c) => c \in lost \/ held[owner[c]] = c
    BY <1>3 DEF Passing, Skip, CloseOther, CloseRaises, Closing, Stop, ShutDown, Rollback, migVars
  <2> QED
    BY <1>0, <2>1 DEF HoldInv, Mine
<1>4. ASSUME NEW c \in Conns, AssignConnection(c) PROVE HoldInv'
  <2>1. /\ owner[c] \in LazyStores /\ Mine(c) /\ step[c] = "ready" /\ c \notin lost /\ held[owner[c]] # c
        /\ held' = [held EXCEPT ![owner[c]] = c]
        /\ UNCHANGED <<step, owner, app, registered>>
    BY <1>4 DEF AssignConnection, Opened, Mine, migVars
  <2>2. app = "serving"
    BY <1>0, <2>1 DEF HoldInv
  <2> QED
    BY <1>0, <2>1, <2>2 DEF HoldInv, Mine
<1>5. ASSUME NEW r \in Resources, CloseStore(r) PROVE HoldInv'
  <2>1. /\ app = "closing" /\ r \in LazyStores /\ held' = [held EXCEPT ![r] = NoConn]
        /\ step' = [o \in Conns |-> IF o \in {held[r]} \cap Conns THEN "closed" ELSE step[o]]
        /\ owner' = [o \in Conns |-> IF o \in {held[r]} \cap Conns THEN "none" ELSE owner[o]]
        /\ UNCHANGED <<app, registered, lost>>
    BY <1>5 DEF CloseStore, Closing, Die
  <2>2. ASSUME NEW s \in LazyStores, held'[s] # NoConn
        PROVE  owner'[held'[s]] = s /\ step'[held'[s]] = "ready"
    <3>1. s # r /\ held'[s] = held[s] /\ held[s] # NoConn
      BY <1>0, <2>1, <2>2
    <3>2. held[s] \in Conns /\ owner[held[s]] = s /\ step[held[s]] = "ready"
      BY <1>0, <3>1, HeldFacts
    <3>3. held[r] # held[s]
      BY <1>0, <2>1, <3>1, <3>2, HeldFacts
    <3> QED
      BY <2>1, <3>1, <3>2, <3>3
  <2>3. ASSUME NEW c \in Conns, owner'[c] \in LazyStores
        PROVE  owner'[c] \in registered \cup {"checkpoint_saver"} /\ (c \in lost \/ held'[owner'[c]] = c)
    <3>1. c # held[r] /\ owner'[c] = owner[c] /\ Mine(c)
      BY <2>1, <2>3 DEF Mine, LazyStores, RecordedStores
    <3> QED
      BY <1>0, <2>1, <3>1 DEF HoldInv, Mine
  <2> QED
    BY <2>1, <2>2, <2>3 DEF HoldInv, Mine
<1>6. CASE ProcessEnds
  <2>1. /\ held' = [s \in LazyStores |-> NoConn]
        /\ owner' = [c \in Conns |-> IF c \in {o \in Conns : Mine(o)} THEN "none" ELSE owner[c]]
    BY <1>6 DEF ProcessEnds, Die
  <2>2. \A c \in Conns : owner'[c] \notin LazyStores
    BY <2>1 DEF Mine, LazyStores, RecordedStores
  <2> QED
    BY <2>1, <2>2 DEF HoldInv, Mine
<1> QED
  BY <1>1, <1>2, <1>3, <1>4, <1>5, <1>6, AppKinds

\* close() leaves every resource it has come past closed or stuck.
LEMMA CloseStep ==
  ASSUME LifeInv, [LifeNext]_lifeVars
  PROVE  CloseInv'
<1>0. /\ LifeTypeOK /\ HoldInv /\ CloseInv /\ turn \in 1..7
      /\ held \in [LazyStores -> Conns \cup {NoConn}]
  BY OrderFacts DEF LifeInv, LifeTypeOK
<1>1. CASE Unseen
  BY <1>0, <1>1, UnseenKeeps DEF CloseInv, ClosedOrStuck
<1>2. CASE Starting
  <2>0. \A s \in LazyStores : app \notin {"serving", "closing", "stopped"} => held[s] = NoConn
    BY <1>0, HeldFacts
  <2>1. CASE StartUp
    BY <2>1 DEF StartUp, CloseInv, LazyStores, RecordedStores
  <2>2. CASE RefuseToStart
    BY <1>0, <2>0, <2>2 DEF RefuseToStart, CloseInv, ClosedOrStuck
  <2>3. CASE ConnectMCP
    BY <1>0, <2>3 DEF ConnectMCP, Recorded, CloseInv, LazyStores, RecordedStores
  <2>4. CASE ConnectEventStore
    BY <1>0, <2>4 DEF ConnectEventStore, CloseInv, LazyStores, RecordedStores
  <2>5. ASSUME NEW r \in {"mcp_client", "event_store"}, ConnectFails(r) PROVE CloseInv'
    <3>1. /\ app' = "closing" /\ turn' = 1 /\ registered' = registered
          /\ live' \subseteq live \cup {r} /\ r \in registered
      BY <1>0, <2>5 DEF ConnectFails, Rollback, CloseInv
    <3> QED
      BY <1>0, <3>1 DEF CloseInv, LazyStores, RecordedStores
  <2>6. CASE WiringFails
    BY <1>0, <2>6 DEF WiringFails, Rollback, CloseInv
  <2>7. CASE Wire
    BY <1>0, <2>7 DEF Wire, CloseInv
  <2> QED
    BY <1>2, <2>1, <2>2, <2>3, <2>4, <2>5, <2>6, <2>7 DEF Starting
<1>3. ASSUME NEW r \in Resources, Skip(r) \/ CloseStore(r) \/ CloseOther(r) \/ CloseRaises(r)
      PROVE  CloseInv'
  <2>1. /\ app = "closing" /\ app' = "closing" /\ turn \in 1..6 /\ CloseOrder[turn] = r
        /\ turn' = turn + 1 /\ registered' = registered /\ live' \subseteq live /\ stuck \subseteq stuck'
        /\ \A s \in LazyStores : held'[s] \in {held[s], NoConn}
    BY <1>0, <1>3, OrderFacts DEF Skip, CloseStore, CloseOther, CloseRaises, Closing
  <2>2. ClosedOrStuck(r)'
    <3>1. CASE Skip(r)
      <4>1. r \notin registered /\ UNCHANGED <<live, held, stuck>>
        BY <3>1 DEF Skip
      <4>2. r \notin live /\ (r \in LazyStores => held[r] = NoConn)
        BY <1>0, <4>1, HeldFacts, OrderFacts DEF CloseInv
      <4> QED
        BY <4>1, <4>2 DEF ClosedOrStuck
    <3>2. CASE CloseStore(r)
      BY <1>0, <3>2 DEF CloseStore, ClosedOrStuck
    <3>3. CASE CloseOther(r)
      BY <3>3 DEF CloseOther, ClosedOrStuck
    <3>4. CASE CloseRaises(r)
      BY <3>4 DEF CloseRaises, ClosedOrStuck
    <3> QED
      BY <1>3, <3>1, <3>2, <3>3, <3>4
  <2>3. ASSUME NEW i \in 1..6, i < turn PROVE ClosedOrStuck(CloseOrder[i])'
    <3>1. ClosedOrStuck(CloseOrder[i])
      BY <1>0, <2>1, <2>3 DEF CloseInv
    <3> QED
      BY <2>1, <3>1 DEF ClosedOrStuck
  <2>4. ASSUME NEW i \in 1..6, i < turn' PROVE ClosedOrStuck(CloseOrder[i])'
    <3>1. i = turn \/ i < turn
      BY <2>1, <2>4
    <3> QED
      BY <2>1, <2>2, <2>3, <3>1
  <2> QED
    BY <1>0, <2>1, <2>4 DEF CloseInv
<1>4. CASE ShutDown
  BY <1>0, <1>4 DEF ShutDown, Rollback, CloseInv
<1>5. CASE Stop
  <2>1. app = "closing" /\ turn = 7 /\ app' = "stopped" /\ UNCHANGED <<registered, live, held, stuck>>
    BY <1>0, <1>5, OrderFacts DEF Stop
  <2>2. \A r \in Resources : ClosedOrStuck(r)
    BY <1>0, <2>1, OrderFacts DEF CloseInv
  <2> QED
    BY <1>0, <2>1, <2>2 DEF CloseInv, ClosedOrStuck
<1>6. ASSUME NEW c \in Conns, AssignConnection(c) PROVE CloseInv'
  <2>1. app = "serving"
    BY <1>0, <1>6 DEF AssignConnection, Opened, HoldInv
  <2> QED
    BY <1>0, <1>6, <2>1 DEF AssignConnection, CloseInv
<1>7. CASE ProcessEnds
  BY <1>7 DEF ProcessEnds, CloseInv
<1> QED
  BY <1>1, <1>2, <1>3, <1>4, <1>5, <1>6, <1>7, AppKinds DEF Passing

-----------------------------------------------------------------------------
(* Theorems                                                                *)

\* The application is down, on a file some release has left.
LEMMA LifeInvInit ==
  ASSUME LifeInit
  PROVE  LifeInv
<1> USE DEF CURRENT_SCHEMA_VERSION
<1>1. /\ db \in Databases /\ writer = {} /\ step = [c \in Conns |-> "closed"]
      /\ next = [c \in Conns |-> 1] /\ copied = [c \in Conns |-> {}]
  BY DEF LifeInit, MigInit
<1>2. MigTypeOK
  <2>1. Cardinality(writer) <= 1
    BY <1>1, FS_EmptySet
  <2> QED
    BY <1>1, <2>1, DatabasesAssumption DEF MigTypeOK
<1>3. MigInv
  BY <1>1, DatabasesAssumption DEF MigInv, FileOK, ConnOK, Upgrading
<1>4. LifeTypeOK
  BY <1>2, LifecycleAssumption, OrderFacts DEF LifeInit, LifeTypeOK
<1>5. HoldInv
  BY DEF LifeInit, HoldInv, Mine, LazyStores, RecordedStores
<1>6. CloseInv
  BY DEF LifeInit, CloseInv
<1> QED
  BY <1>3, <1>4, <1>5, <1>6 DEF LifeInv

\* The inductive invariant of the application, its connections and the file.
THEOREM LifeInvariant == LifeSpec => []LifeInv
<1>1. LifeInit => LifeInv
  BY LifeInvInit
<1>2. LifeInv /\ [LifeNext]_lifeVars => LifeInv'
  <2> SUFFICES ASSUME LifeInv, [LifeNext]_lifeVars PROVE LifeInv'
    OBVIOUS
  <2>1. LifeTypeOK /\ MigTypeOK /\ MigInv
    BY DEF LifeInv, LifeTypeOK
  <2> QED
    BY <2>1, LifeTypeStep, MigInvStep, HoldStep, CloseStep DEF LifeInv
<1> QED
  BY <1>1, <1>2, PTL DEF LifeSpec

\* Types, and with them that the file has at most one writer.
THEOREM LifeTypeCorrect == LifeSpec => []LifeTypeOK
BY LifeInvariant, PTL DEF LifeInv

\* A file stamped 6 has every table and column of version 6, however many connections
\* migrate it at a time; the status CHECK of its grant table may be that of v3.
THEOREM StampIsTrue == LifeSpec => []StampedComplete
<1>1. LifeInv => StampedComplete
  BY DEF LifeInv, MigInv, FileOK, Migrated, StampedComplete, CURRENT_SCHEMA_VERSION
<1> QED
  BY <1>1, LifeInvariant, PTL

\* After the clean-up nothing is open but what could not be closed or was overwritten,
\* and the connection of the checkpoint saver.
THEOREM NothingDangles == LifeSpec => []StopLeavesNothing
<1>1. LifeInv => StopLeavesNothing
  <2> SUFFICES ASSUME LifeInv, app = "stopped"
               PROVE  /\ live \subseteq stuck
                      /\ \A c \in Conns :
                           Mine(c) => c \in lost \/ owner[c] \in stuck \cup {"checkpoint_saver"}
    BY DEF StopLeavesNothing
  <2>1. /\ \A r \in Resources : ClosedOrStuck(r)
        /\ live \subseteq Resources /\ LifeTypeOK /\ HoldInv
    BY DEF LifeInv, CloseInv, LifeTypeOK
  <2>2. live \subseteq stuck
    BY <2>1 DEF ClosedOrStuck, LifeInv, CloseInv
  <2>3. ASSUME NEW c \in Conns, Mine(c), c \notin lost, owner[c] # "checkpoint_saver"
        PROVE  owner[c] \in stuck
    <3>1. held[owner[c]] = c /\ owner[c] \in LazyStores /\ c # NoConn
      BY <2>1, <2>3, LifecycleAssumption DEF HoldInv, Mine
    <3>2. owner[c] \in Resources
      BY <2>3, <3>1, OrderFacts DEF LazyStores
    <3> QED
      BY <2>1, <3>1, <3>2 DEF ClosedOrStuck
  <2> QED
    BY <2>2, <2>3
<1> QED
  BY <1>1, LifeInvariant, PTL

\* A store works on a connection that was initialised to the end and a current file.
THEOREM HeldConnectionsAreCurrent == LifeSpec => []HeldIsCurrent
<1>1. LifeInv => HeldIsCurrent
  <2> SUFFICES ASSUME LifeInv, NEW s \in LazyStores, held[s] # NoConn
               PROVE  step[held[s]] = "ready" /\ db.version = CURRENT_SCHEMA_VERSION
    BY DEF HeldIsCurrent
  <2>1. held[s] \in Conns /\ step[held[s]] = "ready"
    BY HeldFacts DEF LifeInv
  <2> QED
    BY <2>1 DEF LifeInv, MigInv, ConnOK
<1> QED
  BY <1>1, LifeInvariant, PTL

\* No step of any connection loses a grant row or forgets a reconciliation, and none
\* touches a file of a later version or with duplicates that v3 looks for.
LEMMA FileMoves ==
  ASSUME LifeInv, [LifeNext]_lifeVars
  PROVE  /\ db.rows \subseteq db'.rows /\ db.recon \subseteq db'.recon
         /\ db.version > CURRENT_SCHEMA_VERSION \/ db.dup => db' = db
<1>1. MigTypeOK /\ MigInv /\ db.version \in Nat
  BY DEF LifeInv, LifeTypeOK, MigTypeOK, Database
<1>2. ASSUME NEW c \in Conns, ConnStep(c)
      PROVE  /\ db.rows \subseteq db'.rows /\ db.recon \subseteq db'.recon
             /\ db.version > CURRENT_SCHEMA_VERSION \/ db.dup => db' = db
  <2>1. Kept /\ (db' # db => ~db.dup /\ db.version <= CURRENT_SCHEMA_VERSION)
    BY <1>1, <1>2, FileGrows
  <2> QED
    BY <1>1, <2>1 DEF Kept, CURRENT_SCHEMA_VERSION
<1>3. ASSUME UNCHANGED migVars \/ (\E c \in Conns : Abandoned(c)) \/ Closes
      PROVE  db' = db
  BY <1>3 DEF migVars, Abandoned, Closes, Die
<1> QED
  BY <1>2, <1>3, FileKinds

\* Rows survive every migration, crash and rebuild of the grant table.
THEOREM RowsArePreserved == LifeSpec => RowsPreserved
<1>1. LifeInv /\ [LifeNext]_lifeVars =>
        [db.rows \subseteq db'.rows /\ db.recon \subseteq db'.recon]_migVars
  BY FileMoves
<1> QED
  BY <1>1, LifeInvariant, PTL DEF LifeSpec, RowsPreserved

\* A file of a later version, or with a session or a non-empty key twice, is never written.
THEOREM UnsafeFilesAreLeftAlone == LifeSpec => UnsafeIsLeftAlone
<1>1. LifeInv /\ [LifeNext]_lifeVars =>
        [db.version > CURRENT_SCHEMA_VERSION \/ db.dup => db' = db]_migVars
  BY FileMoves
<1> QED
  BY <1>1, LifeInvariant, PTL DEF LifeSpec, UnsafeIsLeftAlone

=============================================================================
