-------------------------- MODULE ApprovalExecutor --------------------------
(***************************************************************************)
(* HITLApprovalExecutor (approval_executor.py) run by concurrent requests  *)
(* to POST /agent/approve, and the two inserts by which POST /agent        *)
(* (api.py) creates the rows they decide on.                               *)
(*                                                                         *)
(* A request is a coroutine: pc[r] names the awaited call it makes next,   *)
(* and everything between two awaits belongs to the step before it.  Every *)
(* awaited store call is one committed SQL statement.  A request that dies *)
(* between two awaits (worker crash, cancellation, a database error that   *)
(* propagates) leaves the tables as they are.                              *)
(***************************************************************************)
EXTENDS GrantRepo, IdempotencyStore, EventStore

CONSTANTS Requests,       \* approve and reject requests
          PriorStatuses   \* statuses a key's record may have when a run starts

ASSUME PriorAssumption == PriorStatuses \subseteq IdempotencyStatus \cup {"NONE"}

VARIABLES creating,   \* sessions whose /agent request is between its two inserts
          pc,         \* request -> awaited call it makes next, or its result
          sid,        \* request -> the session it decides
          actor,      \* request -> what the actor resolver answers for it
          ver,        \* request -> version of the session row it loaded
          out         \* request -> outcome that the settling steps record

reqVars == <<pc, sid, actor, ver, out>>
vars == <<hitl, late, grant, idem, dispatched, events, creating, reqVars>>

Results == {"approved", "rejected", "reconciliation_required", "error", "crashed"}

\* From the claim of the grant to the dispatch, and from there to the return.
ClaimedPC == {"ev_claimed", "idem_get", "idem_reserve", "ev_dispatch", "dispatch"}
SettlingPC == {"settle_idem", "settle_grant", "settle_hitl", "ev_settled"}

ApprovePC ==
  {"a_load", "expire", "recon_hitl", "recon_grant", "ev_recon", "approve_grant",
   "approve_hitl", "ev_granted", "claim"} \cup ClaimedPC \cup SettlingPC
RejectPC == {"r_load", "reject_hitl", "reject_grant", "ev_rejected"}

PC == {"idle"} \cup ApprovePC \cup RejectPC \cup Results

Outcomes == {"none", "succeeded", "failed", "unknown", "replay"}

TypeOK ==
  /\ HITLTypeOK /\ GrantTypeOK /\ IdempotencyTypeOK /\ EventTypeOK
  /\ creating \subseteq Sessions
  /\ pc \in [Requests -> PC]
  /\ sid \in [Requests -> Sessions]
  /\ actor \in [Requests -> Actors \cup {NoActor}]
  /\ ver \in [Requests -> Nat]
  /\ out \in [Requests -> Outcomes]

Init ==
  /\ HITLInit /\ GrantInit
  /\ idem \in [Keys -> PriorStatuses]
  /\ dispatched = [k \in Keys |-> 0]
  /\ events \in [Sessions -> {EmptyTrail, SuspendedTrail}]
  /\ creating = {}
  /\ pc = [r \in Requests |-> "idle"]
  /\ sid \in [Requests -> Sessions]
  /\ actor \in [Requests -> Actors \cup {NoActor}]
  /\ ver = [r \in Requests |-> 0]
  /\ out = [r \in Requests |-> "none"]

\* idem_key = session.idempotency_key, which /agent builds from these two.
IdemKey(s) == <<s, hitl[s].tool_call_id>>

Goto(r, label) == pc' = [pc EXCEPT ![r] = label]

At(r, label) == pc[r] = label

-----------------------------------------------------------------------------
(* POST /agent after an interrupt: session row, then grant row.            *)

InsertSession(s, tid) ==
  /\ HITLInsert(s, tid)
  /\ creating' = creating \cup {s}
  /\ UNCHANGED <<late, grant, idem, dispatched, events, reqVars>>

InsertGrant(s) ==
  /\ s \in creating
  /\ insert_pending(s)
  /\ creating' = creating \ {s}
  /\ UNCHANGED <<hitl, late, idem, dispatched, events, reqVars>>

\* The request dies between its inserts: the session has no grant, for good.
CrashCreating(s) ==
  /\ s \in creating
  /\ creating' = creating \ {s}
  /\ UNCHANGED <<hitl, late, grant, idem, dispatched, events, reqVars>>

-----------------------------------------------------------------------------
(* approve()                                                               *)

StartApprove(r) ==
  /\ At(r, "idle")
  /\ Goto(r, "a_load")
  /\ UNCHANGED <<hitl, late, grant, idem, dispatched, events, creating, sid, actor, ver, out>>

\* Everything approve() decides from the row it loads and from the actor.
ApproveLoad(r) ==
  LET s == sid[r]
      decidable == Exists(s) /\ ~is_terminal(s)
      live == decidable /\ ~is_expired(s)
      dispatchable == live /\ hitl[s].tool_call_id # NoId
  IN /\ At(r, "a_load")
     /\ ver' = [ver EXCEPT ![r] = hitl[s].version]
     /\ \/ ~decidable /\ Goto(r, "error")
        \/ decidable /\ ~live /\ Goto(r, "expire")
        \/ live /\ ~dispatchable /\ Goto(r, "recon_hitl")
        \/ dispatchable /\ actor[r] = NoActor /\ Goto(r, "error")
        \/ dispatchable /\ actor[r] # NoActor /\ Goto(r, "approve_grant")
     /\ UNCHANGED <<hitl, late, grant, idem, dispatched, events, creating, sid, actor, out>>

ExpireOnApprove(r) ==
  /\ At(r, "expire")
  /\ update_status(sid[r], "EXPIRED", ver[r])
  /\ Goto(r, "error")
  /\ UNCHANGED <<late, grant, idem, dispatched, events, creating, sid, actor, ver, out>>

ReconcileSession(r) ==
  /\ At(r, "recon_hitl")
  /\ update_status(sid[r], "RECONCILIATION_REQUIRED", ver[r])
  /\ Goto(r, "recon_grant")
  /\ UNCHANGED <<late, grant, idem, dispatched, events, creating, sid, actor, ver, out>>

ReconcileGrant(r) ==
  /\ At(r, "recon_grant")
  /\ mark_reconciliation_required(sid[r])
  /\ Goto(r, "ev_recon")
  /\ UNCHANGED <<hitl, late, idem, dispatched, events, creating, sid, actor, ver, out>>

ApproveGrant(r) ==
  /\ At(r, "approve_grant")
  /\ approve_pending(sid[r], actor[r])
  /\ Goto(r, IF Approvable(sid[r]) THEN "approve_hitl" ELSE "error")
  /\ UNCHANGED <<hitl, late, idem, dispatched, events, creating, sid, actor, ver, out>>

\* Mutant: the result of the optimistic update is not looked at.
ApproveSession_IgnoresConflict(r) ==
  /\ At(r, "approve_hitl")
  /\ update_status(sid[r], "APPROVED", ver[r])
  /\ Goto(r, "ev_granted")
  /\ UNCHANGED <<late, grant, idem, dispatched, events, creating, sid, actor, ver, out>>

\* A lost race here returns an error and leaves the grant APPROVED.
ApproveSession(r) ==
  /\ At(r, "approve_hitl")
  /\ update_status(sid[r], "APPROVED", ver[r])
  /\ Goto(r, IF VersionMatches(sid[r], ver[r]) THEN "ev_granted" ELSE "error")
  /\ UNCHANGED <<late, grant, idem, dispatched, events, creating, sid, actor, ver, out>>

ClaimGrant(r) ==
  /\ At(r, "claim")
  /\ atomic_consume(sid[r], actor[r])
  /\ Goto(r, IF Claimable(sid[r], actor[r]) THEN "ev_claimed" ELSE "error")
  /\ UNCHANGED <<hitl, late, idem, dispatched, events, creating, sid, actor, ver, out>>

\* Mutant: an UNKNOWN outcome is treated like a FAILED one and tried again.
CheckIdempotency_RetriesUnknown(r) ==
  LET status == idem[IdemKey(sid[r])]
  IN /\ At(r, "idem_get")
     /\ \/ status = "SUCCEEDED" /\ Goto(r, "approved") /\ UNCHANGED out
        \/ /\ status \in {"RESERVED", "EXECUTING"}
           /\ Goto(r, "settle_grant")
           /\ out' = [out EXCEPT ![r] = "replay"]
        \/ status \in {"NONE", "FAILED", "UNKNOWN"} /\ Goto(r, "idem_reserve") /\ UNCHANGED out
     /\ UNCHANGED <<hitl, late, grant, idem, dispatched, events, creating, sid, actor, ver>>

\* A SUCCEEDED record answers at once, and leaves the grant CONSUMING and the
\* session APPROVED; an unsettled one fails closed; a FAILED one is retried.
CheckIdempotency(r) ==
  LET status == idem[IdemKey(sid[r])]
  IN /\ At(r, "idem_get")
     /\ \/ status = "SUCCEEDED" /\ Goto(r, "approved") /\ UNCHANGED out
        \/ /\ status \in {"RESERVED", "EXECUTING", "UNKNOWN"}
           /\ Goto(r, "settle_grant")
           /\ out' = [out EXCEPT ![r] = "replay"]
        \/ status \in {"NONE", "FAILED"} /\ Goto(r, "idem_reserve") /\ UNCHANGED out
     /\ UNCHANGED <<hitl, late, grant, idem, dispatched, events, creating, sid, actor, ver>>

ReserveKey(r) ==
  /\ At(r, "idem_reserve")
  /\ reserve(IdemKey(sid[r]))
  /\ Goto(r, "ev_dispatch")
  /\ UNCHANGED <<hitl, late, grant, dispatched, events, creating, sid, actor, ver, out>>

\* Mutant: the MCP call is repeated when no answer came.
Dispatch_Retries(r) ==
  /\ At(r, "dispatch")
  /\ call_tool(IdemKey(sid[r]))
  /\ \/ UNCHANGED <<pc, out>>
     \/ /\ \E o \in {"succeeded", "failed", "unknown"} : out' = [out EXCEPT ![r] = o]
        /\ Goto(r, "settle_idem")
  /\ UNCHANGED <<hitl, late, grant, idem, events, creating, sid, actor, ver>>

\* The MCP call returns success, returns an error, or raises.
Dispatch(r) ==
  /\ At(r, "dispatch")
  /\ call_tool(IdemKey(sid[r]))
  /\ \E o \in {"succeeded", "failed", "unknown"} : out' = [out EXCEPT ![r] = o]
  /\ Goto(r, "settle_idem")
  /\ UNCHANGED <<hitl, late, grant, idem, events, creating, sid, actor, ver>>

\* mark_succeeded finds the record RESERVED, not EXECUTING, and changes nothing.
SettleIdempotency(r) ==
  LET k == IdemKey(sid[r])
  IN /\ At(r, "settle_idem")
     /\ \/ out[r] = "succeeded" /\ mark_succeeded(k)
        \/ out[r] = "failed" /\ idem_mark_failed(k)
        \/ out[r] = "unknown" /\ idem_mark_unknown(k)
     /\ Goto(r, "settle_grant")
     /\ UNCHANGED <<hitl, late, grant, dispatched, events, creating, sid, actor, ver, out>>

\* Mutant: an exception from the MCP call is booked as a consumed grant.
SettleGrant_UnknownAsConsumed(r) ==
  /\ At(r, "settle_grant")
  /\ \/ out[r] \in {"succeeded", "unknown"} /\ mark_consumed(sid[r])
     \/ out[r] \in {"failed", "replay"} /\ grant_mark_failed(sid[r])
  /\ Goto(r, "settle_hitl")
  /\ UNCHANGED <<hitl, late, idem, dispatched, events, creating, sid, actor, ver, out>>

SettleGrant(r) ==
  /\ At(r, "settle_grant")
  /\ \/ out[r] = "succeeded" /\ mark_consumed(sid[r])
     \/ out[r] = "unknown" /\ grant_mark_unknown(sid[r])
     \/ out[r] \in {"failed", "replay"} /\ grant_mark_failed(sid[r])
  /\ Goto(r, "settle_hitl")
  /\ UNCHANGED <<hitl, late, idem, dispatched, events, creating, sid, actor, ver, out>>

\* Mutant: the version of the row as it was loaded, before it was APPROVED.
SettleSession_StaleVersion(r) ==
  /\ At(r, "settle_hitl")
  /\ update_status(sid[r], IF out[r] = "succeeded" THEN "RESUMED" ELSE "FAILED", ver[r])
  /\ Goto(r, "ev_settled")
  /\ UNCHANGED <<late, grant, idem, dispatched, events, creating, sid, actor, ver, out>>

SettleSession(r) ==
  /\ At(r, "settle_hitl")
  /\ update_status(sid[r], IF out[r] = "succeeded" THEN "RESUMED" ELSE "FAILED", ver[r] + 1)
  /\ Goto(r, "ev_settled")
  /\ UNCHANGED <<late, grant, idem, dispatched, events, creating, sid, actor, ver, out>>

-----------------------------------------------------------------------------
(* reject()                                                                *)

StartReject(r) ==
  /\ At(r, "idle")
  /\ Goto(r, "r_load")
  /\ UNCHANGED <<hitl, late, grant, idem, dispatched, events, creating, sid, actor, ver, out>>

RejectLoad(r) ==
  LET s == sid[r]
      decidable == Exists(s) /\ ~is_terminal(s) /\ actor[r] # NoActor
  IN /\ At(r, "r_load")
     /\ ver' = [ver EXCEPT ![r] = hitl[s].version]
     /\ Goto(r, IF decidable THEN "reject_hitl" ELSE "error")
     /\ UNCHANGED <<hitl, late, grant, idem, dispatched, events, creating, sid, actor, out>>

RejectSession(r) ==
  /\ At(r, "reject_hitl")
  /\ update_status(sid[r], "REJECTED", ver[r])
  /\ Goto(r, IF VersionMatches(sid[r], ver[r]) THEN "reject_grant" ELSE "error")
  /\ UNCHANGED <<late, grant, idem, dispatched, events, creating, sid, actor, ver, out>>

RejectGrant(r) ==
  /\ At(r, "reject_grant")
  /\ mark_rejected(sid[r])
  /\ Goto(r, "ev_rejected")
  /\ UNCHANGED <<hitl, late, idem, dispatched, events, creating, sid, actor, ver, out>>

-----------------------------------------------------------------------------
(* The events both record on their way: label, sequence number, kind and   *)
(* the label that follows.                                                 *)

OutcomeEvent ==
  [succeeded |-> "MCP_EXECUTION_SUCCEEDED", failed |-> "MCP_EXECUTION_FAILED",
   unknown |-> "MCP_EXECUTION_UNKNOWN", replay |-> "REPLAY_DENIED",
   none |-> "MCP_EXECUTION_UNKNOWN"]

PersistAt(r, label, seq, kind, next) ==
  /\ At(r, label)
  /\ persist_event(sid[r], seq, kind)
  /\ Goto(r, next)

PersistEvent(r) ==
  /\ \/ PersistAt(r, "ev_recon", 0, "RECONCILIATION_REQUIRED", "reconciliation_required")
     \/ PersistAt(r, "ev_granted", 0, "APPROVAL_GRANTED", "claim")
     \/ PersistAt(r, "ev_claimed", 1, "GRANT_CLAIMED", "idem_get")
     \/ PersistAt(r, "ev_dispatch", 3, "MCP_DISPATCH_STARTED", "dispatch")
     \/ PersistAt(r, "ev_settled", IF out[r] = "replay" THEN 2 ELSE 4, OutcomeEvent[out[r]],
                  IF out[r] = "succeeded" THEN "approved" ELSE "error")
     \/ PersistAt(r, "ev_rejected", 0, "APPROVAL_REJECTED", "rejected")
  /\ UNCHANGED <<hitl, late, grant, idem, dispatched, creating, sid, actor, ver, out>>

-----------------------------------------------------------------------------
(* The environment of a request.                                           *)

CrashRequest(r) ==
  /\ pc[r] \notin Results \cup {"idle"}
  /\ Goto(r, "crashed")
  /\ UNCHANGED <<hitl, late, grant, idem, dispatched, events, creating, sid, actor, ver, out>>

SweepExpired ==
  /\ expire_stale_sessions
  /\ UNCHANGED <<late, grant, idem, dispatched, events, creating, reqVars>>

Clock(s) ==
  /\ DeadlinePasses(s)
  /\ UNCHANGED <<hitl, grant, idem, dispatched, events, creating, reqVars>>

\* The steps a started request takes by itself.
Advance(r) ==
  \/ ApproveLoad(r) \/ ExpireOnApprove(r) \/ ReconcileSession(r) \/ ReconcileGrant(r)
  \/ ApproveGrant(r) \/ ApproveSession(r) \/ ClaimGrant(r) \/ CheckIdempotency(r)
  \/ ReserveKey(r) \/ Dispatch(r) \/ SettleIdempotency(r) \/ SettleGrant(r)
  \/ SettleSession(r) \/ RejectLoad(r) \/ RejectSession(r) \/ RejectGrant(r)
  \/ PersistEvent(r)

Next ==
  \/ \E s \in Sessions : \/ \E tid \in ToolIds \cup {NoId} : InsertSession(s, tid)
                         \/ InsertGrant(s)
                         \/ Clock(s)
  \/ \E r \in Requests : StartApprove(r) \/ StartReject(r) \/ Advance(r)
  \/ SweepExpired
  \/ \E s \in Sessions : CrashCreating(s)
  \/ \E r \in Requests : CrashRequest(r)

Spec == Init /\ [][Next]_vars

-----------------------------------------------------------------------------
(* Properties                                                              *)

Holding(r) == pc[r] \in ClaimedPC \cup SettlingPC

\* The tool call of the session has been sent.
Ran(s) == hitl[s].tool_call_id # NoId /\ dispatched[IdemKey(s)] > 0

\* However approvals, rejections, sweeps and crashes interleave, the executor
\* sends the tool call of a session to the MCP server at most once.
AtMostOnceDispatch == \A k \in Keys : dispatched[k] <= 1

\* No two requests are past the claim of the same grant: the PENDING test of
\* approve_pending, the version test of update_status and atomic_consume leave a
\* session one claimant, also when it is approved again after it was RESUMED.
SingleClaimant ==
  \A r1, r2 \in Requests : Holding(r1) /\ Holding(r2) /\ sid[r1] = sid[r2] => r1 = r2

\* A tool call that left the process belongs to a claimed grant, approved by an
\* identified actor, and is the call recorded in the session row: a historical
\* row with an empty tool_call_id is never dispatched.
DispatchWasApproved ==
  \A k \in Keys : dispatched[k] > 0 =>
    /\ grant[k[1]].status \in ClaimedStatus
    /\ grant[k[1]].approving_actor_id \in Actors
    /\ hitl[k[1]].tool_call_id = k[2]

\* A rejection that found the session PENDING wins for good: its grant is never
\* claimed, whatever an approval that was already under way does next.
RejectionWins ==
  \A s \in Sessions : hitl[s].status = "REJECTED" /\ hitl[s].version = 2 =>
    grant[s].status \notin ClaimedStatus /\ ~Ran(s)

\* Session, grant, record and dispatch agree about how an operation ended, also when
\* the request that settles them dies half-way: a session RESUMED or FAILED has the
\* grant to match, a grant settled as CONSUMED or UNKNOWN was dispatched once, and one
\* settled as FAILED or UNKNOWN leaves the session APPROVED or FAILED.  What it does
\* not rule out is a CONSUMED grant under a session REJECTED or EXPIRED: RESUMED is not
\* among the statuses is_terminal() lists, so that an operation that has run can still
\* be rejected or run out, although docs/hitl-transfer-flow.md:21 says of a rejection
\* "No banking side effects".
SettlementAgrees ==
  \A s \in Sessions :
    /\ hitl[s].status = "RESUMED" => grant[s].status = "CONSUMED"
    /\ hitl[s].status = "FAILED" => grant[s].status \in {"FAILED", "UNKNOWN"}
    /\ grant[s].status = "CONSUMED" =>
         /\ dispatched[IdemKey(s)] = 1
         /\ hitl[s].status \in {"APPROVED", "RESUMED", "REJECTED", "EXPIRED"}
    /\ grant[s].status = "UNKNOWN" =>
         dispatched[IdemKey(s)] = 1 /\ idem[IdemKey(s)] \in {"UNKNOWN", "FAILED"}
    /\ grant[s].status \in {"FAILED", "UNKNOWN"} => hitl[s].status \in {"APPROVED", "FAILED"}

\* The audit trail never claims more than the tables show.
TrailSound ==
  \A s \in Sessions :
    /\ events[s][0] = "APPROVAL_GRANTED" =>
         hitl[s].status \in {"APPROVED", "RESUMED", "FAILED", "REJECTED", "EXPIRED"}
    /\ events[s][0] = "APPROVAL_REJECTED" => hitl[s].status = "REJECTED"
    /\ "GRANT_CLAIMED" = events[s][1] => grant[s].status \in ClaimedStatus
    /\ events[s][3] = "MCP_DISPATCH_STARTED" => grant[s].status \in ClaimedStatus
    /\ events[s][4] = "MCP_EXECUTION_SUCCEEDED" => grant[s].status = "CONSUMED"
    /\ events[s][4] = "MCP_EXECUTION_UNKNOWN" => grant[s].status = "UNKNOWN"
    /\ events[s][4] = "MCP_EXECUTION_FAILED" => grant[s].status = "FAILED"

\* A key whose record says that it succeeded, is being executed or has an
\* unknown outcome is not dispatched by the executor.
UnsettledNeverDispatched ==
  [][\A k \in Keys : idem[k] \in {"SUCCEEDED", "EXECUTING", "UNKNOWN"} =>
       dispatched'[k] = dispatched[k]]_vars

\* Once the deadline has passed an unclaimed grant is never claimed, even where
\* a stale approval overwrites the EXPIRED status the sweep had set.
LateNeverClaimed ==
  [][\A s \in late : grant[s].status \notin ClaimedStatus =>
       grant'[s].status \notin ClaimedStatus]_vars

\* A decision is not undone: a rejected, failed or reconciled session keeps its
\* status, and an approved one only moves on to RESUMED or FAILED.
DecisionsStand ==
  [][\A s \in Sessions :
       /\ hitl[s].status \in {"REJECTED", "FAILED", "RECONCILIATION_REQUIRED"} =>
            hitl'[s].status = hitl[s].status
       /\ hitl[s].status = "APPROVED" =>
            hitl'[s].status \in {"APPROVED", "RESUMED", "FAILED"}]_vars

\* approve() implements the single-use grant.
PhaseOf(status) ==
  CASE status = "NONE" -> "none"
    [] status = "PENDING" -> "offered"
    [] status = "APPROVED" -> "approved"
    [] status = "CONSUMING" -> "claimed"
    [] status \in {"CONSUMED", "FAILED", "UNKNOWN"} -> "settled"
    [] status \in {"REJECTED", "RECONCILIATION_REQUIRED"} -> "void"

Abstract == INSTANCE SingleUseGrant
              WITH phase <- [s \in Sessions |-> PhaseOf(grant[s].status)],
                   performed <- dispatched

ImplementsSingleUseGrant == Abstract!AbsSpec

\* While no process dies and no record of an earlier success exists, an approved
\* session reaches RESUMED or FAILED.
ApprovedSessionSettles ==
  \A s \in Sessions :
    hitl[s].status = "APPROVED" ~> hitl[s].status \in {"RESUMED", "FAILED"}

=============================================================================
