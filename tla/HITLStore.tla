----------------------------- MODULE HITLStore -----------------------------
(***************************************************************************)
(* The hitl_sessions table of SqliteHITLStore (hitl_store.py): one row per *)
(* suspended agent run, updated under optimistic locking.                  *)
(*                                                                         *)
(* A row keeps the columns that control depends on: the status, the        *)
(* version and the tool_call_id (NoId for an empty one).  The rows of the  *)
(* sessions in Deadlined carry an expires_at; `late' is the set of those   *)
(* whose expires_at the wall clock has passed.                             *)
(***************************************************************************)
EXTENDS Naturals, Domain

CONSTANT Deadlined   \* sessions whose row is stored with an expires_at

ASSUME DeadlinedAssumption == Deadlined \subseteq Sessions

VARIABLES hitl, late

HITLSessionStatus ==
  {"PENDING", "APPROVED", "REJECTED", "EXPIRED", "RESUMED", "FAILED",
   "RECONCILIATION_REQUIRED"}

HITLSession ==
  [status : HITLSessionStatus \cup {"NONE"}, version : Nat,
   tool_call_id : ToolIds \cup {NoId}]

NoSession == [status |-> "NONE", version |-> 0, tool_call_id |-> NoId]

HITLTypeOK == hitl \in [Sessions -> HITLSession] /\ late \subseteq Deadlined

HITLInit == hitl = [s \in Sessions |-> NoSession] /\ late = {}

Exists(s) == hitl[s].status # "NONE"

\* RESUMED, the status of a session whose tool has run, is not in this list.
is_terminal(s) ==
  hitl[s].status \in
    {"APPROVED", "REJECTED", "EXPIRED", "FAILED", "RECONCILIATION_REQUIRED"}

is_expired(s) == s \in late

(***************************************************************************)
(* insert: session_id is the primary key, so an existing row makes the     *)
(* INSERT raise.                                                           *)
(***************************************************************************)
HITLInsert(s, tid) ==
  /\ ~Exists(s)
  /\ hitl' = [hitl EXCEPT ![s] =
                [status |-> "PENDING", version |-> 1, tool_call_id |-> tid]]

VersionMatches(s, v) == Exists(s) /\ hitl[s].version = v

SetStatusOf(s, status) ==
  [hitl EXCEPT ![s] = [status |-> status, version |-> hitl[s].version + 1,
                       tool_call_id |-> hitl[s].tool_call_id]]

\* Mutant: the WHERE clause forgets the expected version.
update_status_NoVersionCheck(s, status, v) == hitl' = SetStatusOf(s, status)

\* UPDATE ... SET status, version = version + 1 WHERE version = expected.
update_status(s, status, v) ==
  hitl' = IF VersionMatches(s, v) THEN SetStatusOf(s, status) ELSE hitl

(***************************************************************************)
(* expire_stale_sessions: one UPDATE over every PENDING row whose          *)
(* expires_at has passed.  It leaves the version column alone.             *)
(***************************************************************************)
expire_stale_sessions ==
  hitl' = [s \in Sessions |->
             IF hitl[s].status = "PENDING" /\ is_expired(s)
               THEN [hitl[s] EXCEPT !.status = "EXPIRED"]
               ELSE hitl[s]]

\* The wall clock passes the expires_at of a stored row.
DeadlinePasses(s) ==
  /\ Exists(s)
  /\ s \in Deadlined \ late
  /\ late' = late \cup {s}

=============================================================================
