----------------------------- MODULE Lifecycle -----------------------------
(***************************************************************************)
(* The application from start to stop: bootstrap_app opens its resources   *)
(* and rolls back when a step fails (bootstrap.py), three of its stores    *)
(* and the checkpoint saver of the agent open their connection at their    *)
(* first use (hitl_store.py, grant_repo.py, idempotency_store.py,          *)
(* checkpoint_store.py), ApplicationResources.close closes what was        *)
(* recorded (lifecycle.py), which the saver never is.  The connections     *)
(* run init_database as in Migrations, next to the connections of other    *)
(* processes.                                                              *)
(*                                                                         *)
(* The transport of the MCP client is a parameter of the code: it may fail *)
(* before or after it is connected.                                        *)
(***************************************************************************)
EXTENDS Migrations, Sequences

CONSTANTS NoConn,    \* _conn is None
          Configs    \* arguments and environments bootstrap_app may be called with

RecordedStores == {"hitl_store", "grant_repo", "idempotency_store"}
LazyStores == RecordedStores \cup {"checkpoint_saver"}
CloseOrder ==
  <<"hitl_store", "grant_repo", "idempotency_store", "event_store", "llm_provider", "mcp_client">>
Resources == {CloseOrder[i] : i \in 1..Len(CloseOrder)}

Config ==
  [db_path : BOOLEAN,        \* bootstrap_app is given a path
   configured : BOOLEAN,     \* agent_config names a path of its own
   token : BOOLEAN,          \* the provider's variable is set
   production_mode : BOOLEAN,
   resolver : {"none", "development", "other"}]

ASSUME LifecycleAssumption == NoConn \notin Conns /\ Configs \subseteq Config

VARIABLES app,         \* where the process is
          config,      \* what it was started with
          registered,  \* attributes of ApplicationResources that are set
          live,        \* resources without a connection of Migrations that are open
          owner,       \* connection -> store that opened it, "other" process or "none"
          held,        \* store -> its _conn
          lost,        \* connections that were overwritten in _conn
          turn,        \* resource that close() is at
          stuck        \* resources whose close raised

appVars == <<app, config, registered, live, owner, held, lost, turn, stuck>>
lifeVars == <<migVars, appVars>>

LifeTypeOK ==
  /\ MigTypeOK
  /\ app \in {"down", "mcp", "events", "wiring", "serving", "closing", "stopped"}
  /\ config \in Config
  /\ registered \subseteq Resources /\ live \subseteq Resources /\ stuck \subseteq Resources
  /\ owner \in [Conns -> LazyStores \cup {"other", "none"}]
  /\ held \in [LazyStores -> Conns \cup {NoConn}]
  /\ lost \subseteq Conns
  /\ turn \in 1..Len(CloseOrder) + 1

LifeInit ==
  /\ MigInit
  /\ app = "down" /\ config \in Configs
  /\ registered = {} /\ live = {} /\ stuck = {} /\ lost = {}
  /\ owner = [c \in Conns |-> "none"] /\ held = [s \in LazyStores |-> NoConn]
  /\ turn = 1

Mine(c) == owner[c] \in LazyStores

-----------------------------------------------------------------------------
(* bootstrap_app                                                           *)

\* Phase 1, before any resource is opened.
Valid(cfg) ==
  /\ cfg.production_mode => cfg.db_path
  /\ cfg.token
  /\ cfg.production_mode => cfg.resolver = "other"

\* The provider needs no connection; the MCP client is recorded before it connects.
StartUp ==
  /\ app = "down"
  /\ Valid(config)
  /\ registered' = {"llm_provider", "mcp_client"} /\ live' = {"llm_provider"}
  /\ app' = "mcp"
  /\ UNCHANGED <<migVars, config, owner, held, lost, turn, stuck>>

RefuseToStart ==
  /\ app = "down"
  /\ ~Valid(config)
  /\ app' = "stopped"
  /\ UNCHANGED <<migVars, config, registered, live, owner, held, lost, turn, stuck>>

\* Mutant: the event store is recorded only once it is connected.
Recorded_NotEvents == IF config.db_path THEN RecordedStores ELSE {}

\* The four stores are recorded before the event store connects.
Recorded == IF config.db_path THEN RecordedStores \cup {"event_store"} ELSE {}

ConnectMCP ==
  /\ app = "mcp"
  /\ live' = live \cup {"mcp_client"}
  /\ registered' = registered \cup Recorded
  /\ app' = IF config.db_path THEN "events" ELSE "wiring"
  /\ UNCHANGED <<migVars, config, owner, held, lost, turn, stuck>>

ConnectEventStore ==
  /\ app = "events"
  /\ live' = live \cup {"event_store"}
  /\ app' = "wiring"
  /\ UNCHANGED <<migVars, config, registered, owner, held, lost, turn, stuck>>

Rollback == app' = "closing" /\ turn' = 1

\* An awaited connect raises, before or after it has opened something.
ConnectFails(r) ==
  /\ <<app, r>> \in {<<"mcp", "mcp_client">>, <<"events", "event_store">>}
  /\ live' \in {live, live \cup {r}}
  /\ Rollback
  /\ UNCHANGED <<migVars, config, registered, owner, held, lost, stuck>>

\* create_app refuses a configured path without an approval executor.
WiringFails ==
  /\ app = "wiring"
  /\ config.configured /\ ~config.db_path
  /\ Rollback
  /\ UNCHANGED <<migVars, config, registered, live, owner, held, lost, stuck>>

Wire ==
  /\ app = "wiring"
  /\ ~config.configured \/ config.db_path
  /\ app' = "serving"
  /\ UNCHANGED <<migVars, config, registered, live, owner, held, lost, turn, stuck>>

-----------------------------------------------------------------------------
(* The connections                                                         *)

\* _ensure_connected: _conn is None, so init_database is called and awaited.
EnsureConnected(s, c) ==
  /\ app = "serving" /\ config.db_path
  /\ held[s] = NoConn
  /\ owner[c] = "none" /\ Open(c)
  /\ owner' = [owner EXCEPT ![c] = s]
  /\ UNCHANGED <<app, config, registered, live, held, lost, turn, stuck>>

\* init_database has returned: the assignment to _conn.
Opened(c) == Mine(c) /\ step[c] = "ready" /\ c \notin lost /\ held[owner[c]] # c

\* Mutant: the connection is assigned before it is initialised.
AssignConnection_Early(c) ==
  /\ Mine(c) /\ step[c] = "opening" /\ c \notin lost /\ held[owner[c]] # c
  /\ held' = [held EXCEPT ![owner[c]] = c]
  /\ lost' = lost \cup ({held[owner[c]]} \ {NoConn})
  /\ UNCHANGED <<migVars, app, config, registered, live, owner, turn, stuck>>

AssignConnection(c) ==
  /\ Opened(c)
  /\ held' = [held EXCEPT ![owner[c]] = c]
  /\ lost' = lost \cup ({held[owner[c]]} \ {NoConn})
  /\ UNCHANGED <<migVars, app, config, registered, live, owner, turn, stuck>>

OtherOpens(c) ==
  /\ owner[c] = "none" /\ Open(c)
  /\ owner' = [owner EXCEPT ![c] = "other"]
  /\ UNCHANGED <<app, config, registered, live, held, lost, turn, stuck>>

Initialises(c) == step[c] \notin {"closed", "failed"} /\ MigStep(c) /\ UNCHANGED appVars

\* init_database closed its connection on the way out.
Raised(c) ==
  /\ step[c] = "failed" /\ owner[c] # "none"
  /\ step' = [step EXCEPT ![c] = "closed"]
  /\ owner' = [owner EXCEPT ![c] = "none"]
  /\ UNCHANGED <<db, next, copied, writer>>
  /\ UNCHANGED <<app, config, registered, live, held, lost, turn, stuck>>

Serving(c) == owner[c] = "other" \/ (app = "serving" /\ held["grant_repo"] = c)

Serve(c, s) ==
  /\ Serving(c)
  /\ ServeInsert(c, s) \/ ServeReconcile(c, s)
  /\ UNCHANGED appVars

-----------------------------------------------------------------------------
(* ApplicationResources.close, and the ends of a process                   *)

Die(dying) ==
  /\ step' = [c \in Conns |-> IF c \in dying THEN "closed" ELSE step[c]]
  /\ copied' = [c \in Conns |-> IF c \in dying THEN {} ELSE copied[c]]
  /\ writer' = writer \ dying
  /\ owner' = [c \in Conns |-> IF c \in dying THEN "none" ELSE owner[c]]
  /\ UNCHANGED <<db, next>>

\* The server stops accepting requests and waits for the ones that are running.
ShutDown ==
  /\ app = "serving"
  /\ \A c \in Conns : Mine(c) => c \in lost \/ held[owner[c]] = c
  /\ Rollback
  /\ UNCHANGED <<migVars, config, registered, live, owner, held, lost, stuck>>

Closing(r) == app = "closing" /\ turn <= Len(CloseOrder) /\ CloseOrder[turn] = r

Skip(r) ==
  /\ Closing(r) /\ r \notin registered
  /\ turn' = turn + 1
  /\ UNCHANGED <<migVars, app, config, registered, live, owner, held, lost, stuck>>

CloseStore(s) ==
  /\ Closing(s) /\ s \in registered \cap LazyStores
  /\ Die({held[s]} \cap Conns)
  /\ held' = [held EXCEPT ![s] = NoConn]
  /\ turn' = turn + 1
  /\ UNCHANGED <<app, config, registered, live, lost, stuck>>

CloseOther(r) ==
  /\ Closing(r) /\ r \in registered \ LazyStores
  /\ live' = live \ {r}
  /\ turn' = turn + 1
  /\ UNCHANGED <<migVars, app, config, registered, owner, held, lost, stuck>>

\* Logged; the remaining resources are closed all the same.
CloseRaises(r) ==
  /\ Closing(r) /\ r \in registered
  /\ r \in LazyStores => held[r] # NoConn
  /\ stuck' = stuck \cup {r}
  /\ turn' = turn + 1
  /\ UNCHANGED <<migVars, app, config, registered, live, owner, held, lost>>

Stop ==
  /\ app = "closing" /\ turn > Len(CloseOrder)
  /\ app' = "stopped"
  /\ UNCHANGED <<migVars, config, registered, live, owner, held, lost, turn, stuck>>

\* The process ends, in the middle of anything or after close(); the next one starts.
ProcessEnds ==
  /\ app # "down"
  /\ Die({c \in Conns : Mine(c)})
  /\ app' = "down" /\ config' \in Configs
  /\ registered' = {} /\ live' = {} /\ stuck' = {} /\ lost' = {}
  /\ held' = [s \in LazyStores |-> NoConn]
  /\ turn' = 1

OtherEnds(c) ==
  /\ owner[c] = "other" /\ Die({c})
  /\ UNCHANGED <<app, config, registered, live, held, lost, turn, stuck>>

LifeNext ==
  \/ StartUp \/ RefuseToStart \/ ConnectMCP \/ ConnectEventStore
  \/ \E r \in {"mcp_client", "event_store"} : ConnectFails(r)
  \/ WiringFails \/ Wire
  \/ \E c \in Conns :
       \/ \E s \in LazyStores : EnsureConnected(s, c)
       \/ AssignConnection(c) \/ OtherOpens(c) \/ Initialises(c) \/ Raised(c) \/ OtherEnds(c)
       \/ \E s \in Sessions : Serve(c, s)
  \/ ShutDown
  \/ \E r \in Resources : Skip(r) \/ CloseStore(r) \/ CloseOther(r) \/ CloseRaises(r)
  \/ Stop \/ ProcessEnds

LifeSpec == LifeInit /\ [][LifeNext]_lifeVars

-----------------------------------------------------------------------------
(* Properties                                                              *)

\* bootstrap.py:43 "a partial failure never leaves dangling connections": however far
\* start-up came and whatever close() calls raised, once the clean-up is over nothing
\* is open but the resources whose own close failed, the connections that a racing
\* first use had overwritten, and the connection of the checkpoint saver, which is in no
\* resource and which nobody closes, although tests/e2e/test_app_lifecycle.py:287 says
\* that none remains.
StopLeavesNothing ==
  app = "stopped" =>
    /\ live \subseteq stuck
    /\ \A c \in Conns : Mine(c) => c \in lost \/ owner[c] \in stuck \cup {"checkpoint_saver"}

\* A store never works on a file it does not understand: the connection it holds was
\* initialised to the end, and the file is of version 6, although other stores and
\* other processes migrate and die at the same time.
HeldIsCurrent ==
  \A s \in LazyStores :
    held[s] # NoConn => step[held[s]] = "ready" /\ db.version = CURRENT_SCHEMA_VERSION

=============================================================================
