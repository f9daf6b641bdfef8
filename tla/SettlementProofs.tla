-------------------------- MODULE SettlementProofs --------------------------
(***************************************************************************)
(* Proofs about ApprovalExecutor that need to know how its tables relate:  *)
(* decisions are not undone, late grants are not claimed, a rejection      *)
(* wins, session and grant agree about the outcome and the audit trail     *)
(* claims no more than they show.  For any sessions, tool call ids, actors *)
(* and requests, with crashes, sweeps and deadlines at any point.          *)
(***************************************************************************)
EXTENDS ApprovalExecutorProofs

-----------------------------------------------------------------------------
(* The invariant, in layers                                                *)

\* Labels at which a request is still to compare the version it has loaded.
LoadedPC == {"expire", "recon_hitl", "approve_grant", "approve_hitl", "reject_hitl"}

\* Rows start PENDING in version 1, and only the sweep changes one without counting.
RowVersions ==
  \A s \in Sessions :
    /\ Exists(s) => hitl[s].version >= 1
    /\ hitl[s].status = "PENDING" => hitl[s].version = 1

\* A loaded version that is still the row's says what the row can be: RESUMED, or as
\* it was stored, but for the sweep.
LoadedVersions ==
  \A r \in Requests : pc[r] \in LoadedPC =>
    /\ Exists(sid[r])
    /\ ver[r] \in 1..hitl[sid[r]].version
    /\ ver[r] = hitl[sid[r]].version =>
         \/ hitl[sid[r]].status = "RESUMED"
         \/ hitl[sid[r]].status \in {"PENDING", "EXPIRED"} /\ hitl[sid[r]].version = 1
    /\ pc[r] = "recon_hitl" => hitl[sid[r]].tool_call_id = NoId

VersionInv == RowVersions /\ LoadedVersions

\* Labels of a request whose approve_pending has succeeded and that has not yet claimed.
ApproverPC == {"approve_hitl", "ev_granted", "claim"}

\* approve_pending succeeds for one request of a session, which is then the only one
\* that can claim.
ApproverInv ==
  /\ \A r \in Requests : pc[r] \in ApproverPC => grant[sid[r]].status \in {"APPROVED", "REJECTED"}
  /\ \A r1, r2 \in Requests :
       /\ pc[r1] \in ApproverPC \cup ClaimedPC \cup SettlingPC
       /\ pc[r2] \in ApproverPC \cup ClaimedPC \cup SettlingPC
       /\ sid[r1] = sid[r2]
       => r1 = r2

\* Labels at which the session row is as ApproveSession has left it.
OwningPC == {"ev_granted", "claim", "settle_idem", "settle_grant", "settle_hitl"} \cup ClaimedPC

RowIsApproved ==
  \A r \in Requests : pc[r] \in OwningPC =>
    /\ hitl[sid[r]].status = "APPROVED"
    /\ hitl[sid[r]].version = ver[r] + 1
    /\ ver[r] >= 1

\* What a settled grant says is what its holder has seen.
BookedOutcome ==
  \A r \in Requests : pc[r] \in {"settle_hitl", "ev_settled"} =>
    \/ out[r] = "succeeded" /\ grant[sid[r]].status = "CONSUMED"
    \/ out[r] = "unknown" /\ grant[sid[r]].status = "UNKNOWN"
    \/ out[r] \in {"failed", "replay"} /\ grant[sid[r]].status = "FAILED"

\* Session row and grant row of one operation.
RowsAgree ==
  \A s \in Sessions :
    /\ hitl[s].status = "RESUMED" => grant[s].status = "CONSUMED"
    /\ hitl[s].status = "FAILED" => grant[s].status \in {"FAILED", "UNKNOWN"}
    /\ grant[s].status = "CONSUMING" => hitl[s].status = "APPROVED"
    /\ grant[s].status = "CONSUMED" =>
         hitl[s].status \in {"APPROVED", "RESUMED", "REJECTED", "EXPIRED"}
    /\ grant[s].status \in {"FAILED", "UNKNOWN"} => hitl[s].status \in {"APPROVED", "FAILED"}
    /\ grant[s].status \in ClaimedStatus =>
         /\ hitl[s].tool_call_id \in ToolIds
         /\ hitl[s].version >= 2
         /\ hitl[s].status # "APPROVED" => hitl[s].version >= 3

RowInv == RowIsApproved /\ BookedOutcome /\ RowsAgree

\* The record of a key while its holder decides, sends and books,
RequestRecord(r) ==
  LET k == IdemKey(sid[r])
  IN /\ pc[r] = "idem_reserve" => idem[k] \in {"NONE", "FAILED"}
     /\ pc[r] \in {"ev_dispatch", "dispatch", "settle_idem"} => idem[k] \in {"RESERVED", "FAILED"}
     /\ pc[r] = "settle_idem" => dispatched[k] = 1
     /\ pc[r] = "settle_grant" /\ out[r] # "replay" => dispatched[k] = 1
     /\ pc[r] = "settle_grant" /\ out[r] = "unknown" => idem[k] \in {"UNKNOWN", "FAILED"}

\* and what the grant says of it afterwards.
SessionRecord(s) ==
  /\ grant[s].status \in {"CONSUMED", "UNKNOWN"} => dispatched[IdemKey(s)] = 1
  /\ grant[s].status = "UNKNOWN" => idem[IdemKey(s)] \in {"UNKNOWN", "FAILED"}

RecordInv ==
  /\ \A r \in Requests : RequestRecord(r)
  /\ \A s \in Sessions : SessionRecord(s)

\* The rejecting request, the audit trail and the tables.
TrailInv ==
  /\ \A r \in Requests :
       pc[r] \in {"reject_grant", "ev_rejected"} => hitl[sid[r]].status = "REJECTED"
  /\ \A s \in Sessions : events[s][0] = "APPROVAL_GRANTED" => hitl[s].version >= 2
  /\ TrailSound

-----------------------------------------------------------------------------
(* What a step does to the tables and to the requests                      *)

\* A request moves alone.
LEMMA GotoEffect ==
  ASSUME TypeOK, NEW r \in Requests, NEW label, Goto(r, label)
  PROVE  pc'[r] = label /\ \A q \in Requests \ {r} : pc'[q] = pc[q]
BY DEF TypeOK, Goto

\* The optimistic update sets the status and counts, or does nothing.
LEMMA UpdateEffect ==
  ASSUME TypeOK, NEW s \in Sessions, NEW status, NEW v, update_status(s, status, v)
  PROVE  \/ hitl' = hitl /\ ~VersionMatches(s, v)
         \/ /\ VersionMatches(s, v)
            /\ hitl'[s].status = status
            /\ hitl'[s].version = hitl[s].version + 1
            /\ hitl'[s].tool_call_id = hitl[s].tool_call_id
            /\ \A x \in Sessions \ {s} : hitl'[x] = hitl[x]
BY DEF TypeOK, HITLTypeOK, update_status, SetStatusOf

\* A conditional UPDATE of a grant changes its status, or does nothing.
LEMMA MarkEffect ==
  ASSUME TypeOK, NEW s \in Sessions, NEW from, NEW to, Mark(s, from, to)
  PROVE  \/ grant' = grant /\ grant[s].status \notin from
         \/ /\ grant[s].status \in from
            /\ grant'[s].status = to
            /\ \A x \in Sessions \ {s} : grant'[x] = grant[x]
BY DEF TypeOK, GrantTypeOK, GrantRecord, Mark

\* Types of what the steps compare.
LEMMA RowTypes ==
  ASSUME TypeOK
  PROVE  /\ \A r \in Requests : sid[r] \in Sessions /\ ver[r] \in Nat
         /\ \A s \in Sessions : hitl[s].version \in Nat
BY DEF TypeOK, HITLTypeOK, HITLSession

\* The environment: requests start or die, rows appear, time passes, the sweep runs.
EnvStep ==
  \/ \E s \in Sessions : \/ \E tid \in ToolIds \cup {NoId} : InsertSession(s, tid)
                         \/ InsertGrant(s) \/ Clock(s) \/ CrashCreating(s)
  \/ \E r \in Requests : StartApprove(r) \/ StartReject(r) \/ CrashRequest(r)
  \/ SweepExpired
  \/ UNCHANGED vars

\* A step is the environment's or a request's.
LEMMA StepSplit == ASSUME [Next]_vars PROVE EnvStep \/ \E r \in Requests : Advance(r)
BY DEF Next, EnvStep

-----------------------------------------------------------------------------
(* Versions                                                                *)

\* Without rows there is no version to compare.
LEMMA InitVersion == Init => VersionInv
BY DEF Init, HITLInit, NoSession, VersionInv, RowVersions, LoadedVersions, LoadedPC, Exists

\* A step that leaves the rows alone and lets no request load.
LEMMA VersionCalm ==
  ASSUME VersionInv, UNCHANGED <<hitl, sid, ver>>,
         \A r \in Requests : pc'[r] \in LoadedPC =>
           pc[r] \in LoadedPC /\ (pc'[r] = "recon_hitl" => pc[r] = "recon_hitl")
  PROVE  VersionInv'
BY DEF VersionInv, RowVersions, LoadedVersions, Exists

\* An update counts: whoever has loaded the row before is out of date.
LEMMA VersionUpdate ==
  ASSUME TypeOK, VersionInv, NEW s \in Sessions, NEW status \in HITLSessionStatus \ {"PENDING"},
         NEW v, update_status(s, status, v), UNCHANGED <<sid, ver>>,
         \A r \in Requests : pc'[r] \in LoadedPC => pc'[r] = pc[r]
  PROVE  VersionInv'
<1>1. CASE hitl' = hitl
  BY <1>1, VersionCalm
<1>2. CASE hitl' # hitl
  <2>1. /\ VersionMatches(s, v)
        /\ hitl'[s].status = status
        /\ hitl'[s].version = hitl[s].version + 1
        /\ hitl'[s].tool_call_id = hitl[s].tool_call_id
        /\ \A x \in Sessions \ {s} : hitl'[x] = hitl[x]
    BY <1>2, UpdateEffect
  <2>2. status # "NONE"
    BY DEF HITLSessionStatus
  <2>3. RowVersions'
    BY <2>1, <2>2, RowTypes DEF VersionInv, RowVersions, Exists
  <2>4. LoadedVersions'
    <3> SUFFICES ASSUME NEW r \in Requests, pc[r] \in LoadedPC, pc'[r] = pc[r]
                 PROVE  /\ Exists(sid[r])'
                        /\ ver[r] \in 1..hitl'[sid[r]].version
                        /\ ver[r] = hitl'[sid[r]].version =>
                             \/ hitl'[sid[r]].status = "RESUMED"
                             \/ hitl'[sid[r]].status \in {"PENDING", "EXPIRED"}
                                  /\ hitl'[sid[r]].version = 1
                        /\ pc[r] = "recon_hitl" => hitl'[sid[r]].tool_call_id = NoId
      BY DEF LoadedVersions
    <3>1. CASE sid[r] = s
      BY <3>1, <2>1, <2>2, RowTypes DEF VersionInv, LoadedVersions, Exists
    <3>2. CASE sid[r] # s
      BY <3>2, <2>1, RowTypes DEF VersionInv, LoadedVersions, Exists
    <3> QED
      BY <3>1, <3>2
  <2> QED
    BY <2>3, <2>4 DEF VersionInv
<1> QED
  BY <1>1, <1>2

\* Starting, crashing, inserting and the sweep invalidate no loaded version.
LEMMA VersionEnv == TypeOK /\ VersionInv /\ EnvStep => VersionInv'
<1> SUFFICES ASSUME TypeOK, VersionInv, EnvStep PROVE VersionInv'
  OBVIOUS
<1>1. ASSUME NEW r \in Requests, StartApprove(r) \/ StartReject(r) \/ CrashRequest(r)
      PROVE  VersionInv'
  <2>1. PICK label \in {"a_load", "r_load", "crashed"} : Goto(r, label) /\ UNCHANGED <<hitl, sid, ver>>
    BY <1>1 DEF StartApprove, StartReject, CrashRequest
  <2> QED
    BY <2>1, GotoEffect, VersionCalm DEF LoadedPC
<1>2. ASSUME NEW s \in Sessions, NEW tid \in ToolIds \cup {NoId}, InsertSession(s, tid)
      PROVE  VersionInv'
  <2>1. /\ ~Exists(s) /\ UNCHANGED <<sid, pc, ver>>
        /\ hitl'[s].status = "PENDING" /\ hitl'[s].version = 1
        /\ \A x \in Sessions \ {s} : hitl'[x] = hitl[x]
    BY <1>2 DEF InsertSession, HITLInsert, reqVars, TypeOK, HITLTypeOK
  <2> QED
    BY <2>1, RowTypes DEF VersionInv, RowVersions, LoadedVersions, Exists
<1>3. CASE SweepExpired
  <2>1. UNCHANGED <<sid, pc, ver>>
    BY <1>3 DEF SweepExpired, reqVars
  <2>2. \A s \in Sessions :
          \/ hitl'[s] = hitl[s]
          \/ /\ hitl[s].status = "PENDING" /\ hitl'[s].status = "EXPIRED"
             /\ hitl'[s].version = hitl[s].version
             /\ hitl'[s].tool_call_id = hitl[s].tool_call_id
    BY <1>3 DEF SweepExpired, expire_stale_sessions, TypeOK, HITLTypeOK, HITLSession
  <2> QED
    BY <2>1, <2>2, RowTypes DEF VersionInv, RowVersions, LoadedVersions, Exists
<1>4. CASE UNCHANGED <<hitl, sid, ver, pc>>
  BY <1>4, VersionCalm
<1> QED
  BY <1>1, <1>2, <1>3, <1>4
     DEF EnvStep, InsertGrant, Clock, CrashCreating, vars, reqVars

\* A request loads the version that the row has, and an update counts.
LEMMA VersionAdvance ==
  ASSUME TypeOK, VersionInv, NEW r \in Requests, Advance(r)
  PROVE  VersionInv'
<1> DEFINE s == sid[r]
<1>0. s \in Sessions
  BY RowTypes
<1>1. CASE ApproveLoad(r)
  <2>1. PICK label \in {"error", "expire", "recon_hitl", "approve_grant"} :
          /\ Goto(r, label)
          /\ label # "error" => Exists(s) /\ ~is_terminal(s)
          /\ label = "recon_hitl" => hitl[s].tool_call_id = NoId
    BY <1>1 DEF ApproveLoad
  <2>2. /\ UNCHANGED <<hitl, sid>> /\ ver'[r] = hitl[s].version
        /\ \A q \in Requests \ {r} : ver'[q] = ver[q]
    BY <1>1 DEF ApproveLoad, TypeOK
  <2>3. label # "error" => hitl[s].status \in {"PENDING", "RESUMED"}
    BY <2>1, <1>0 DEF is_terminal, Exists, TypeOK, HITLTypeOK, HITLSession, HITLSessionStatus
  <2> QED
    BY <2>1, <2>2, <2>3, <1>0, GotoEffect, RowTypes
       DEF VersionInv, RowVersions, LoadedVersions, LoadedPC, Exists
<1>2. CASE RejectLoad(r)
  <2>1. PICK label \in {"error", "reject_hitl"} :
          Goto(r, label) /\ (label # "error" => Exists(s) /\ ~is_terminal(s))
    BY <1>2 DEF RejectLoad
  <2>2. /\ UNCHANGED <<hitl, sid>> /\ ver'[r] = hitl[s].version
        /\ \A q \in Requests \ {r} : ver'[q] = ver[q]
    BY <1>2 DEF RejectLoad, TypeOK
  <2>3. label # "error" => hitl[s].status \in {"PENDING", "RESUMED"}
    BY <2>1, <1>0 DEF is_terminal, Exists, TypeOK, HITLTypeOK, HITLSession, HITLSessionStatus
  <2> QED
    BY <2>1, <2>2, <2>3, <1>0, GotoEffect, RowTypes
       DEF VersionInv, RowVersions, LoadedVersions, LoadedPC, Exists
<1>3. CASE ExpireOnApprove(r) \/ ReconcileSession(r) \/ ApproveSession(r) \/ SettleSession(r)
           \/ RejectSession(r)
  <2>1. PICK status \in {"EXPIRED", "RECONCILIATION_REQUIRED", "APPROVED", "RESUMED", "FAILED",
                         "REJECTED"} : \E v \in Nat : update_status(s, status, v)
    BY <1>3 DEF ExpireOnApprove, ReconcileSession, ApproveSession, SettleSession, RejectSession,
                TypeOK
  <2>2. PICK label \in {"error", "recon_grant", "ev_granted", "ev_settled", "reject_grant"} :
          Goto(r, label) /\ UNCHANGED <<sid, ver>>
    BY <1>3 DEF ExpireOnApprove, ReconcileSession, ApproveSession, SettleSession, RejectSession
  <2>3. status \in HITLSessionStatus \ {"PENDING"}
    BY DEF HITLSessionStatus
  <2>4. \A q \in Requests : pc'[q] \in LoadedPC => pc'[q] = pc[q]
    BY <2>2, GotoEffect DEF LoadedPC
  <2> QED
    BY <2>1, <2>2, <2>3, <2>4, <1>0, VersionUpdate
<1>4. CASE ReconcileGrant(r) \/ ApproveGrant(r) \/ ClaimGrant(r) \/ CheckIdempotency(r)
           \/ ReserveKey(r) \/ Dispatch(r) \/ SettleIdempotency(r) \/ SettleGrant(r)
           \/ RejectGrant(r) \/ PersistEvent(r)
  <2>1. UNCHANGED <<hitl, sid, ver>>
    BY <1>4 DEF ReconcileGrant, ApproveGrant, ClaimGrant, CheckIdempotency, ReserveKey, Dispatch,
                SettleIdempotency, SettleGrant, RejectGrant, PersistEvent
  <2>2. PICK label : Goto(r, label) /\ (label \in LoadedPC => label = "approve_hitl" /\ pc[r] = "approve_grant")
    BY <1>4 DEF ReconcileGrant, ApproveGrant, ClaimGrant, CheckIdempotency, ReserveKey, Dispatch,
                SettleIdempotency, SettleGrant, RejectGrant, PersistEvent, PersistAt, At, LoadedPC
  <2> QED
    BY <2>1, <2>2, GotoEffect, VersionCalm DEF LoadedPC
<1> QED
  BY <1>1, <1>2, <1>3, <1>4 DEF Advance

\* What a loaded version tells stays true until it is compared.
LEMMA VersionStep == TypeOK /\ VersionInv /\ [Next]_vars => VersionInv'
BY StepSplit, VersionEnv, VersionAdvance

-----------------------------------------------------------------------------
(* One approver                                                            *)

\* Nobody has approved initially.
LEMMA InitApprover == Init => ApproverInv
BY DEF Init, ApproverInv, ApproverPC, ClaimedPC, SettlingPC

\* A step by which nobody becomes an approver and no approved grant is claimed.
LEMMA ApproverCalm ==
  ASSUME TypeOK, ApproverInv, UNCHANGED sid,
         \A r \in Requests :
           /\ pc'[r] \in ApproverPC => pc[r] \in ApproverPC
           /\ pc'[r] \in ClaimedPC \cup SettlingPC => pc[r] \in ClaimedPC \cup SettlingPC,
         \A s \in Sessions : grant[s].status \in {"APPROVED", "REJECTED"} =>
           grant'[s].status \in {"APPROVED", "REJECTED"}
  PROVE  ApproverInv'
<1>1. \A r \in Requests : sid[r] \in Sessions
  BY RowTypes
<1> QED
  BY <1>1 DEF ApproverInv

\* approve_pending succeeds on a PENDING grant, which no other request has approved.
LEMMA ApproverApproves ==
  ASSUME TypeOK, ClaimInv, ApproverInv, NEW r \in Requests, ApproveGrant(r)
  PROVE  ApproverInv'
<1> DEFINE s == sid[r]
<1>0. s \in Sessions /\ UNCHANGED sid
  BY RowTypes DEF ApproveGrant
<1>1. CASE Approvable(s)
  <2>1. grant[s].status = "PENDING" /\ grant'[s].status = "APPROVED"
        /\ \A x \in Sessions \ {s} : grant'[x] = grant[x]
    BY <1>0, <1>1 DEF ApproveGrant, approve_pending, Approvable, TypeOK, GrantTypeOK, GrantRecord
  <2>2. pc'[r] = "approve_hitl" /\ \A q \in Requests \ {r} : pc'[q] = pc[q]
    BY <1>1, GotoEffect DEF ApproveGrant
  <2>3. \A q \in Requests : pc[q] \in ApproverPC \cup ClaimedPC \cup SettlingPC => sid[q] # s
    BY <2>1 DEF ApproverInv, ClaimInv, HoldersHaveClaimed, Holding, ClaimedStatus
  <2>4. \A q \in Requests : sid[q] \in Sessions
    BY RowTypes
  <2> QED
    BY <1>0, <2>1, <2>2, <2>3, <2>4 DEF ApproverInv
<1>2. CASE ~Approvable(s)
  <2>1. grant' = grant /\ Goto(r, "error")
    BY <1>2 DEF ApproveGrant, approve_pending
  <2> QED
    BY <1>0, <2>1, GotoEffect, ApproverCalm DEF ApproverPC, ClaimedPC, SettlingPC
<1> QED
  BY <1>1, <1>2

\* The one approver becomes the one claimant.
LEMMA ApproverClaims ==
  ASSUME TypeOK, ApproverInv, NEW r \in Requests, ClaimGrant(r)
  PROVE  ApproverInv'
<1> DEFINE s == sid[r]
<1>0. s \in Sessions /\ UNCHANGED sid /\ pc[r] = "claim"
  BY RowTypes DEF ClaimGrant, At
<1>1. CASE Claimable(s, actor[r])
  <2>1. \A x \in Sessions \ {s} : grant'[x] = grant[x]
    BY <1>0, <1>1 DEF ClaimGrant, atomic_consume, TypeOK, GrantTypeOK
  <2>2. pc'[r] = "ev_claimed" /\ \A q \in Requests \ {r} : pc'[q] = pc[q]
    BY <1>1, GotoEffect DEF ClaimGrant
  <2>3. \A q \in Requests \ {r} :
          pc[q] \in ApproverPC \cup ClaimedPC \cup SettlingPC => sid[q] # s
    BY <1>0 DEF ApproverInv, ApproverPC
  <2>4. \A q \in Requests : sid[q] \in Sessions
    BY RowTypes
  <2>5. "ev_claimed" \notin ApproverPC
    BY DEF ApproverPC
  <2> QED
    BY <1>0, <2>1, <2>2, <2>3, <2>4, <2>5 DEF ApproverInv
<1>2. CASE ~Claimable(s, actor[r])
  <2>1. grant' = grant /\ Goto(r, "error")
    BY <1>2 DEF ClaimGrant, atomic_consume
  <2> QED
    BY <1>0, <2>1, GotoEffect, ApproverCalm DEF ApproverPC, ClaimedPC, SettlingPC
<1> QED
  BY <1>1, <1>2

\* There is never a second approver.
LEMMA ApproverStep == TypeOK /\ ClaimInv /\ ApproverInv /\ [Next]_vars => ApproverInv'
<1> SUFFICES ASSUME TypeOK, ClaimInv, ApproverInv, [Next]_vars PROVE ApproverInv'
  OBVIOUS
<1>0. UNCHANGED sid /\ \A r \in Requests : sid[r] \in Sessions
  BY RowTypes, StepKinds
\* No grant leaves {APPROVED, REJECTED} but by a claim.
<1>a. ASSUME NEW s \in Sessions, NEW from, NEW to, Mark(s, from, to),
             to = "REJECTED" \/ from \cap {"APPROVED", "REJECTED"} = {}
      PROVE  \A x \in Sessions : grant[x].status \in {"APPROVED", "REJECTED"} =>
               grant'[x].status \in {"APPROVED", "REJECTED"}
  BY <1>a, MarkEffect
<1>b. ASSUME NEW r \in Requests, NEW label, Goto(r, label), UNCHANGED grant,
             label \in ApproverPC => pc[r] \in ApproverPC,
             label \in ClaimedPC \cup SettlingPC => pc[r] \in ClaimedPC \cup SettlingPC
      PROVE  ApproverInv'
  BY <1>0, <1>b, GotoEffect, ApproverCalm
<1>1. ASSUME NEW r \in Requests,
             \/ StartApprove(r) \/ StartReject(r) \/ CrashRequest(r) \/ ApproveLoad(r)
             \/ RejectLoad(r) \/ ExpireOnApprove(r) \/ ReconcileSession(r) \/ ApproveSession(r)
             \/ SettleSession(r) \/ RejectSession(r) \/ CheckIdempotency(r) \/ ReserveKey(r)
             \/ Dispatch(r) \/ SettleIdempotency(r) \/ PersistEvent(r)
      PROVE  ApproverInv'
  <2>1. UNCHANGED grant
    BY <1>1 DEF StartApprove, StartReject, CrashRequest, ApproveLoad, RejectLoad, ExpireOnApprove,
       ReconcileSession, ApproveSession, SettleSession, RejectSession, CheckIdempotency, ReserveKey,
       Dispatch, SettleIdempotency, PersistEvent
  <2>2. \E label : /\ Goto(r, label)
                   /\ label \in ApproverPC => pc[r] \in ApproverPC
                   /\ label \in ClaimedPC \cup SettlingPC => pc[r] \in ClaimedPC \cup SettlingPC
    BY <1>1 DEF StartApprove, StartReject, CrashRequest, ApproveLoad, RejectLoad, ExpireOnApprove,
       ReconcileSession, ApproveSession, SettleSession, RejectSession, CheckIdempotency, ReserveKey,
       Dispatch, SettleIdempotency, PersistEvent, PersistAt, At, ApproverPC, ClaimedPC, SettlingPC
  <2> QED
    BY <2>1, <2>2, <1>b
<1>2. ASSUME NEW r \in Requests, ReconcileGrant(r) \/ SettleGrant(r) \/ RejectGrant(r)
      PROVE  ApproverInv'
  <2>1. PICK from, to : Mark(sid[r], from, to) /\ (to = "REJECTED" \/ from \cap {"APPROVED", "REJECTED"} = {})
    BY <1>2 DEF ReconcileGrant, SettleGrant, RejectGrant, mark_reconciliation_required,
                mark_consumed, grant_mark_failed, grant_mark_unknown, mark_rejected
  <2>2. PICK label \in {"ev_recon", "settle_hitl", "ev_rejected"} :
          Goto(r, label) /\ (label = "settle_hitl" => pc[r] = "settle_grant")
    BY <1>2 DEF ReconcileGrant, SettleGrant, RejectGrant, At
  <2> QED
    BY <1>0, <2>1, <2>2, <1>a, GotoEffect, ApproverCalm DEF ApproverPC, ClaimedPC, SettlingPC
<1>3. ASSUME NEW s \in Sessions, InsertGrant(s) PROVE ApproverInv'
  <2>1. Mark(s, {"NONE"}, "PENDING") /\ UNCHANGED pc
    BY <1>3 DEF InsertGrant, insert_pending, Mark, reqVars
  <2> QED
    BY <1>0, <2>1, <1>a, ApproverCalm
<1>4. CASE UNCHANGED <<grant, pc>>
  BY <1>0, <1>4, ApproverCalm
<1>5. ASSUME NEW r \in Requests, Advance(r) PROVE ApproverInv'
  BY <1>5, <1>1, <1>2, ApproverApproves, ApproverClaims DEF Advance
<1> QED
  BY <1>1, <1>3, <1>4, <1>5, StepSplit
     DEF EnvStep, InsertSession, Clock, CrashCreating, SweepExpired, vars, reqVars

-----------------------------------------------------------------------------
(* Session row and grant row                                               *)

\* Empty tables agree.
LEMMA InitRow == Init => RowInv
BY DEF Init, HITLInit, GrantInit, NoSession, NoGrant, RowInv, RowIsApproved, BookedOutcome,
       RowsAgree, OwningPC, ClaimedPC, ClaimedStatus

\* The requests that own a row or have booked an outcome are those of before, unchanged.
NoNewOwner ==
  \A r \in Requests :
    /\ pc'[r] \in OwningPC => pc[r] \in OwningPC /\ ver'[r] = ver[r]
    /\ pc'[r] \in {"settle_hitl", "ev_settled"} =>
         pc[r] \in {"settle_hitl", "ev_settled"} /\ out'[r] = out[r]

\* A step that leaves both rows alone.
LEMMA RowCalm ==
  ASSUME RowInv, UNCHANGED <<hitl, grant, sid>>, NoNewOwner
  PROVE  RowInv'
<1>1. RowIsApproved'
  BY DEF RowInv, RowIsApproved, NoNewOwner
<1>2. BookedOutcome'
  BY DEF RowInv, BookedOutcome, NoNewOwner
<1>3. RowsAgree'
  BY DEF RowInv, RowsAgree
<1> QED
  BY <1>1, <1>2, <1>3 DEF RowInv

\* Changes among the statuses before the claim concern no row that is owned or settled.
LEMMA RowUnclaimed ==
  ASSUME TypeOK, RowInv, UNCHANGED <<hitl, sid>>, NoNewOwner,
         \A s \in Sessions :
           \/ grant'[s] = grant[s]
           \/ grant[s].status \notin ClaimedStatus /\ grant'[s].status \notin ClaimedStatus
  PROVE  RowInv'
<1>0. \A r \in Requests : sid[r] \in Sessions
  BY RowTypes
<1>1. RowIsApproved'
  BY DEF RowInv, RowIsApproved, NoNewOwner
<1>2. BookedOutcome'
  BY <1>0 DEF RowInv, BookedOutcome, NoNewOwner, ClaimedStatus
<1>3. RowsAgree'
  <2> SUFFICES ASSUME NEW s \in Sessions,
                      grant[s].status \notin ClaimedStatus, grant'[s].status \notin ClaimedStatus
               PROVE  hitl[s].status \notin {"RESUMED", "FAILED"}
    BY DEF RowInv, RowsAgree, ClaimedStatus
  <2> QED
    BY DEF RowInv, RowsAgree, ClaimedStatus
<1> QED
  BY <1>1, <1>2, <1>3 DEF RowInv

\* The update of a request that has loaded the row.
LEMMA RowUpdate ==
  ASSUME TypeOK, VersionInv, ApproverInv, RowInv, NEW r \in Requests, pc[r] \in LoadedPC,
         NEW status \in {"EXPIRED", "RECONCILIATION_REQUIRED", "APPROVED", "REJECTED"},
         status = "APPROVED" => pc[r] = "approve_hitl",
         status = "RECONCILIATION_REQUIRED" => pc[r] = "recon_hitl",
         update_status(sid[r], status, ver[r]), UNCHANGED <<grant, sid, ver, out>>,
         NEW label, Goto(r, label), label \notin {"settle_hitl", "ev_settled"},
         label \in OwningPC => status = "APPROVED" /\ VersionMatches(sid[r], ver[r])
  PROVE  RowInv'
<1> DEFINE s == sid[r]
<1>0. s \in Sessions /\ \A q \in Requests : sid[q] \in Sessions
  BY RowTypes
<1>1. pc'[r] = label /\ \A q \in Requests \ {r} : pc'[q] = pc[q]
  BY GotoEffect
<1>2. CASE hitl' = hitl /\ ~VersionMatches(s, ver[r])
  BY <1>1, <1>2, RowCalm DEF NoNewOwner
<1>3. CASE /\ VersionMatches(s, ver[r])
           /\ hitl'[s].status = status
           /\ hitl'[s].version = hitl[s].version + 1
           /\ hitl'[s].tool_call_id = hitl[s].tool_call_id
           /\ \A x \in Sessions \ {s} : hitl'[x] = hitl[x]
  <2>1. /\ ver[r] = hitl[s].version /\ ver[r] \in Nat /\ ver[r] >= 1
        /\ \/ hitl[s].status = "RESUMED"
           \/ hitl[s].status \in {"PENDING", "EXPIRED"} /\ hitl[s].version = 1
        /\ pc[r] = "recon_hitl" => hitl[s].tool_call_id = NoId
        /\ pc[r] = "approve_hitl" => grant[s].status \in {"APPROVED", "REJECTED"}
    BY <1>3, RowTypes DEF VersionMatches, VersionInv, LoadedVersions, ApproverInv, ApproverPC
  <2>2. \A q \in Requests : pc[q] \in OwningPC => sid[q] # s
    BY <2>1 DEF RowInv, RowIsApproved
  <2>3. RowIsApproved'
    <3> SUFFICES ASSUME NEW q \in Requests, pc'[q] \in OwningPC
                 PROVE  /\ hitl'[sid[q]].status = "APPROVED"
                        /\ hitl'[sid[q]].version = ver[q] + 1
                        /\ ver[q] >= 1
      BY DEF RowIsApproved
    <3>1. CASE q = r
      BY <3>1, <1>1, <1>3, <2>1
    <3>2. CASE q # r
      BY <3>2, <1>0, <1>1, <1>3, <2>2 DEF RowInv, RowIsApproved
    <3> QED
      BY <3>1, <3>2
  <2>4. BookedOutcome'
    BY <1>1 DEF RowInv, BookedOutcome
  <2>5. RowsAgree'
    <3> SUFFICES ASSUME NEW x \in Sessions
                 PROVE  /\ hitl'[x].status = "RESUMED" => grant[x].status = "CONSUMED"
                        /\ hitl'[x].status = "FAILED" => grant[x].status \in {"FAILED", "UNKNOWN"}
                        /\ grant[x].status = "CONSUMING" => hitl'[x].status = "APPROVED"
                        /\ grant[x].status = "CONSUMED" =>
                             hitl'[x].status \in {"APPROVED", "RESUMED", "REJECTED", "EXPIRED"}
                        /\ grant[x].status \in {"FAILED", "UNKNOWN"} =>
                             hitl'[x].status \in {"APPROVED", "FAILED"}
                        /\ grant[x].status \in ClaimedStatus =>
                             /\ hitl'[x].tool_call_id \in ToolIds
                             /\ hitl'[x].version >= 2
                             /\ hitl'[x].status # "APPROVED" => hitl'[x].version >= 3
      BY DEF RowsAgree
    <3>1. CASE x # s
      BY <3>1, <1>3 DEF RowInv, RowsAgree
    <3>2. CASE x = s /\ hitl[s].status = "RESUMED"
      <4>1. grant[s].status = "CONSUMED"
        BY <3>2 DEF RowInv, RowsAgree
      <4>2. hitl[s].tool_call_id \in ToolIds /\ hitl[s].version >= 3 /\ hitl[s].version \in Nat
        BY <3>2, <4>1, RowTypes DEF RowInv, RowsAgree, ClaimedStatus
      <4>3. status \in {"EXPIRED", "REJECTED"}
        BY <2>1, <4>1, <4>2, NoIdAssumption
      <4> QED
        BY <3>2, <4>1, <4>2, <4>3, <1>3
    <3>3. CASE x = s /\ hitl[s].version = 1
      <4>1. grant[s].status \notin ClaimedStatus
        BY <3>3 DEF RowInv, RowsAgree
      <4> QED
        BY <3>3, <4>1, <1>3 DEF ClaimedStatus
    <3> QED
      BY <3>1, <3>2, <3>3, <2>1
  <2> QED
    BY <2>3, <2>4, <2>5 DEF RowInv
<1> QED
  BY <1>0, <1>2, <1>3, UpdateEffect

\* The holder's own update finds the row as it has left it.
LEMMA RowSettles ==
  ASSUME TypeOK, ApproverInv, RowInv, NEW r \in Requests, SettleSession(r)
  PROVE  RowInv'
<1> DEFINE s == sid[r]
           status == IF out[r] = "succeeded" THEN "RESUMED" ELSE "FAILED"
<1>0. s \in Sessions /\ \A q \in Requests : sid[q] \in Sessions
  BY RowTypes
<1>1. /\ pc[r] = "settle_hitl" /\ UNCHANGED <<grant, sid, ver, out>>
      /\ pc'[r] = "ev_settled" /\ \A q \in Requests \ {r} : pc'[q] = pc[q]
  BY GotoEffect DEF SettleSession, At
<1>2. /\ hitl[s].status = "APPROVED" /\ hitl[s].version = ver[r] + 1 /\ ver[r] >= 1
      /\ ver[r] \in Nat
      /\ \/ out[r] = "succeeded" /\ grant[s].status = "CONSUMED"
         \/ out[r] = "unknown" /\ grant[s].status = "UNKNOWN"
         \/ out[r] \in {"failed", "replay"} /\ grant[s].status = "FAILED"
  BY <1>1, RowTypes DEF RowInv, RowIsApproved, BookedOutcome, OwningPC
<1>3. VersionMatches(s, ver[r] + 1) /\ update_status(s, status, ver[r] + 1)
  BY <1>2 DEF VersionMatches, Exists, SettleSession
<1>4. /\ hitl'[s].status = status
      /\ hitl'[s].version = hitl[s].version + 1
      /\ hitl'[s].tool_call_id = hitl[s].tool_call_id
      /\ \A x \in Sessions \ {s} : hitl'[x] = hitl[x]
  BY <1>0, <1>3, UpdateEffect
<1>5. \A q \in Requests \ {r} : pc[q] \in OwningPC => sid[q] # s
  BY <1>1 DEF ApproverInv, OwningPC, ApproverPC, SettlingPC
<1>6. RowIsApproved'
  BY <1>0, <1>1, <1>4, <1>5 DEF RowInv, RowIsApproved, OwningPC, ClaimedPC
<1>7. BookedOutcome'
  BY <1>1 DEF RowInv, BookedOutcome
<1>8. hitl[s].tool_call_id \in ToolIds
  BY <1>0, <1>2 DEF RowInv, RowsAgree, ClaimedStatus
<1>9. RowsAgree'
  <2> SUFFICES ASSUME NEW x \in Sessions
               PROVE  /\ hitl'[x].status = "RESUMED" => grant[x].status = "CONSUMED"
                      /\ hitl'[x].status = "FAILED" => grant[x].status \in {"FAILED", "UNKNOWN"}
                      /\ grant[x].status = "CONSUMING" => hitl'[x].status = "APPROVED"
                      /\ grant[x].status = "CONSUMED" =>
                           hitl'[x].status \in {"APPROVED", "RESUMED", "REJECTED", "EXPIRED"}
                      /\ grant[x].status \in {"FAILED", "UNKNOWN"} =>
                           hitl'[x].status \in {"APPROVED", "FAILED"}
                      /\ grant[x].status \in ClaimedStatus =>
                           /\ hitl'[x].tool_call_id \in ToolIds
                           /\ hitl'[x].version >= 2
                           /\ hitl'[x].status # "APPROVED" => hitl'[x].version >= 3
    BY <1>1 DEF RowsAgree
  <2>1. CASE x # s
    BY <2>1, <1>4 DEF RowInv, RowsAgree
  <2>2. CASE x = s
    BY <2>2, <1>2, <1>4, <1>8
  <2> QED
    BY <2>1, <2>2
<1> QED
  BY <1>6, <1>7, <1>9 DEF RowInv

\* The claim leaves the row of its approver APPROVED, one version after the loaded one.
LEMMA RowClaims ==
  ASSUME TypeOK, OriginInv, RowInv, NEW r \in Requests, ClaimGrant(r)
  PROVE  RowInv'
<1> DEFINE s == sid[r]
<1>0. s \in Sessions /\ UNCHANGED <<hitl, sid, ver, out>> /\ pc[r] = "claim"
  BY RowTypes DEF ClaimGrant, At
<1>1. CASE ~Claimable(s, actor[r])
  <2>1. grant' = grant /\ Goto(r, "error")
    BY <1>1 DEF ClaimGrant, atomic_consume
  <2> QED
    BY <1>0, <2>1, GotoEffect, RowCalm DEF NoNewOwner, OwningPC, ClaimedPC
<1>2. CASE Claimable(s, actor[r])
  <2>1. /\ grant[s].status = "APPROVED" /\ grant'[s].status = "CONSUMING"
        /\ \A x \in Sessions \ {s} : grant'[x] = grant[x]
    BY <1>0, <1>2 DEF ClaimGrant, atomic_consume, Claimable, TypeOK, GrantTypeOK, GrantRecord
  <2>2. pc'[r] = "ev_claimed" /\ \A q \in Requests \ {r} : pc'[q] = pc[q]
    BY <1>2, GotoEffect DEF ClaimGrant
  <2>3. hitl[s].status = "APPROVED" /\ hitl[s].version >= 2 /\ hitl[s].tool_call_id \in ToolIds
    BY <1>0, RowTypes DEF RowInv, RowIsApproved, OwningPC, OriginInv, KnownOperation, DecidedPC
  <2>4. \A q \in Requests : pc'[q] \in OwningPC => pc[q] \in OwningPC
    BY <1>0, <2>2 DEF OwningPC
  <2>5. RowIsApproved'
    BY <1>0, <2>4 DEF RowInv, RowIsApproved
  <2>6. BookedOutcome'
    <3>1. \A q \in Requests : sid[q] \in Sessions
      BY RowTypes
    <3> QED
      BY <1>0, <2>1, <2>2, <3>1 DEF RowInv, BookedOutcome
  <2>7. RowsAgree'
    BY <1>0, <2>1, <2>3 DEF RowInv, RowsAgree
  <2> QED
    BY <2>5, <2>6, <2>7 DEF RowInv
<1> QED
  BY <1>1, <1>2

\* The holder books what it has seen; its grant is CONSUMING until then.
LEMMA RowBooks ==
  ASSUME TypeOK, ClaimInv, RowInv, NEW r \in Requests, SettleGrant(r)
  PROVE  RowInv'
<1> DEFINE s == sid[r]
<1>0. s \in Sessions /\ UNCHANGED <<hitl, sid, ver, out>> /\ pc[r] = "settle_grant"
      /\ \A q \in Requests : sid[q] \in Sessions
  BY RowTypes DEF SettleGrant, At
<1>1. pc'[r] = "settle_hitl" /\ \A q \in Requests \ {r} : pc'[q] = pc[q]
  BY GotoEffect DEF SettleGrant
<1>2. grant[s].status = "CONSUMING"
  BY <1>0 DEF ClaimInv, HoldersHaveClaimed, UnsettledPC
<1>3. PICK to \in {"CONSUMED", "UNKNOWN", "FAILED"} :
        /\ Mark(s, {"CONSUMING"}, to)
        /\ \/ out[r] = "succeeded" /\ to = "CONSUMED"
           \/ out[r] = "unknown" /\ to = "UNKNOWN"
           \/ out[r] \in {"failed", "replay"} /\ to = "FAILED"
  BY DEF SettleGrant, mark_consumed, grant_mark_unknown, grant_mark_failed
<1>4. grant'[s].status = to /\ \A x \in Sessions \ {s} : grant'[x] = grant[x]
  BY <1>0, <1>2, <1>3, MarkEffect
<1>5. \A q \in Requests \ {r} : pc[q] \in {"settle_hitl", "ev_settled"} => sid[q] # s
  BY <1>0 DEF ClaimInv, SingleClaimant, Holding, SettlingPC
<1>6. RowIsApproved'
  BY <1>0, <1>1 DEF RowInv, RowIsApproved, OwningPC
<1>7. BookedOutcome'
  <2> SUFFICES ASSUME NEW q \in Requests, pc'[q] \in {"settle_hitl", "ev_settled"}
               PROVE  \/ out[q] = "succeeded" /\ grant'[sid[q]].status = "CONSUMED"
                      \/ out[q] = "unknown" /\ grant'[sid[q]].status = "UNKNOWN"
                      \/ out[q] \in {"failed", "replay"} /\ grant'[sid[q]].status = "FAILED"
    BY <1>0 DEF BookedOutcome
  <2>1. CASE q = r
    BY <2>1, <1>3, <1>4
  <2>2. CASE q # r
    BY <2>2, <1>0, <1>1, <1>4, <1>5 DEF RowInv, BookedOutcome
  <2> QED
    BY <2>1, <2>2
<1>8. RowsAgree'
  <2>1. \A x \in Sessions : grant'[x].status \in ClaimedStatus => grant[x].status \in ClaimedStatus
    BY <1>2, <1>4 DEF ClaimedStatus
  <2> QED
    BY <1>0, <1>2, <1>4, <2>1 DEF RowInv, RowsAgree
<1> QED
  BY <1>6, <1>7, <1>8 DEF RowInv

\* Rows that appear or expire have no claimed grant.
LEMMA RowEnv == TypeOK /\ VersionInv /\ RowInv /\ EnvStep => RowInv'
<1> SUFFICES ASSUME TypeOK, VersionInv, RowInv, EnvStep PROVE RowInv'
  OBVIOUS
<1>0. \A q \in Requests : sid[q] \in Sessions
  BY RowTypes
<1>1. ASSUME NEW r \in Requests, StartApprove(r) \/ StartReject(r) \/ CrashRequest(r)
      PROVE  RowInv'
  <2>1. PICK label \in {"a_load", "r_load", "crashed"} :
          Goto(r, label) /\ UNCHANGED <<hitl, grant, sid, ver, out>>
    BY <1>1 DEF StartApprove, StartReject, CrashRequest
  <2> QED
    BY <2>1, GotoEffect, RowCalm DEF NoNewOwner, OwningPC, ClaimedPC
<1>2. ASSUME UNCHANGED <<grant, sid, pc, ver, out>>,
             \A s \in Sessions :
               \/ hitl'[s] = hitl[s]
               \/ /\ hitl[s].status \in {"NONE", "PENDING"} /\ hitl[s].version < 2
                  /\ hitl'[s].status \in {"PENDING", "EXPIRED"}
      PROVE  RowInv'
  <2>1. \A r \in Requests : pc[r] \in OwningPC => hitl'[sid[r]] = hitl[sid[r]]
    BY <1>0, <1>2 DEF RowInv, RowIsApproved
  <2>2. RowIsApproved'
    BY <1>2, <2>1 DEF RowInv, RowIsApproved
  <2>3. BookedOutcome'
    BY <1>2 DEF RowInv, BookedOutcome
  <2>4. \A s \in Sessions : hitl'[s] # hitl[s] => grant[s].status \notin ClaimedStatus
    BY <1>2, RowTypes DEF RowInv, RowsAgree
  <2>5. RowsAgree'
    BY <1>2, <2>4 DEF RowInv, RowsAgree, ClaimedStatus
  <2> QED
    BY <2>2, <2>3, <2>5 DEF RowInv
<1>3. ASSUME NEW s \in Sessions, NEW tid \in ToolIds \cup {NoId}, InsertSession(s, tid)
      PROVE  RowInv'
  <2>1. /\ hitl[s].status = "NONE" /\ UNCHANGED <<grant, sid, pc, ver, out>>
        /\ hitl'[s].status = "PENDING" /\ \A x \in Sessions \ {s} : hitl'[x] = hitl[x]
    BY <1>3 DEF InsertSession, HITLInsert, Exists, reqVars, TypeOK, HITLTypeOK
  <2>2. RowIsApproved'
    BY <2>1, <1>0 DEF RowInv, RowIsApproved
  <2>3. BookedOutcome'
    BY <2>1 DEF RowInv, BookedOutcome
  <2>4. grant[s].status \notin ClaimedStatus
    BY <2>1 DEF RowInv, RowsAgree, ClaimedStatus
  <2>5. RowsAgree'
    BY <2>1, <2>4 DEF RowInv, RowsAgree, ClaimedStatus
  <2> QED
    BY <2>2, <2>3, <2>5 DEF RowInv
<1>4. CASE SweepExpired
  <2>1. UNCHANGED <<grant, sid, pc, ver, out>>
    BY <1>4 DEF SweepExpired, reqVars
  <2>2. \A s \in Sessions :
          \/ hitl'[s] = hitl[s]
          \/ hitl[s].status = "PENDING" /\ hitl'[s].status = "EXPIRED"
    BY <1>4 DEF SweepExpired, expire_stale_sessions, TypeOK, HITLTypeOK, HITLSession
  <2> QED
    BY <2>1, <2>2, <1>2, RowTypes DEF VersionInv, RowVersions
<1>5. ASSUME NEW s \in Sessions, InsertGrant(s) PROVE RowInv'
  <2>1. Mark(s, {"NONE"}, "PENDING") /\ UNCHANGED <<hitl, sid, pc, ver, out>>
    BY <1>5 DEF InsertGrant, insert_pending, Mark, reqVars
  <2>2. \A x \in Sessions :
          \/ grant'[x] = grant[x]
          \/ grant[x].status \notin ClaimedStatus /\ grant'[x].status \notin ClaimedStatus
    BY <2>1, MarkEffect DEF ClaimedStatus
  <2> QED
    BY <2>1, <2>2, RowUnclaimed DEF NoNewOwner
<1>6. CASE UNCHANGED <<hitl, grant, sid, pc, ver, out>>
  BY <1>6, RowCalm DEF NoNewOwner
<1> QED
  BY <1>1, <1>3, <1>4, <1>5, <1>6 DEF EnvStep, Clock, CrashCreating, vars, reqVars

\* Every step of a request keeps session row and grant row in step.
LEMMA RowAdvance ==
  ASSUME TypeOK, ClaimInv, OriginInv, VersionInv, ApproverInv, RowInv, NEW r \in Requests, Advance(r)
  PROVE  RowInv'
<1> DEFINE s == sid[r]
<1>0. s \in Sessions
  BY RowTypes
<1>1. CASE ApproveLoad(r) \/ RejectLoad(r)
  <2>1. PICK label \in {"error", "expire", "recon_hitl", "approve_grant", "reject_hitl"} :
          Goto(r, label) /\ UNCHANGED <<hitl, grant, sid, out>>
    BY <1>1 DEF ApproveLoad, RejectLoad
  <2>2. \A q \in Requests \ {r} : ver'[q] = ver[q]
    BY <1>1 DEF ApproveLoad, RejectLoad, TypeOK
  <2> QED
    BY <2>1, <2>2, GotoEffect, RowCalm DEF NoNewOwner, OwningPC, ClaimedPC
<1>2. CASE ExpireOnApprove(r)
  BY <1>2, RowUpdate DEF ExpireOnApprove, At, LoadedPC, OwningPC, ClaimedPC
<1>3. CASE ReconcileSession(r)
  BY <1>3, RowUpdate DEF ReconcileSession, At, LoadedPC, OwningPC, ClaimedPC
<1>4. CASE ApproveSession(r)
  <2>1. PICK label \in {"ev_granted", "error"} :
          Goto(r, label) /\ (label = "ev_granted" => VersionMatches(s, ver[r]))
    BY <1>4 DEF ApproveSession
  <2> QED
    BY <1>4, <2>1, RowUpdate DEF ApproveSession, At, LoadedPC, OwningPC, ClaimedPC
<1>5. CASE RejectSession(r)
  <2>1. PICK label \in {"reject_grant", "error"} : Goto(r, label)
    BY <1>5 DEF RejectSession
  <2> QED
    BY <1>5, <2>1, RowUpdate DEF RejectSession, At, LoadedPC, OwningPC, ClaimedPC
<1>6. CASE ReconcileGrant(r) \/ RejectGrant(r) \/ ApproveGrant(r)
  <2>1. PICK label \in {"ev_recon", "ev_rejected", "approve_hitl", "error"} :
          Goto(r, label) /\ UNCHANGED <<hitl, sid, ver, out>>
    BY <1>6 DEF ReconcileGrant, RejectGrant, ApproveGrant
  <2>2. \A x \in Sessions :
          \/ grant'[x] = grant[x]
          \/ grant[x].status \notin ClaimedStatus /\ grant'[x].status \notin ClaimedStatus
    <3>1. CASE ReconcileGrant(r) \/ RejectGrant(r)
      <4>1. PICK from \in SUBSET {"PENDING", "APPROVED"}, to \in {"REJECTED", "RECONCILIATION_REQUIRED"} :
              Mark(s, from, to)
        BY <3>1 DEF ReconcileGrant, RejectGrant, mark_reconciliation_required, mark_rejected
      <4> QED
        BY <4>1, <1>0, MarkEffect DEF ClaimedStatus
    <3>2. CASE ApproveGrant(r)
      BY <3>2, <1>0 DEF ApproveGrant, approve_pending, Approvable, ClaimedStatus, TypeOK,
                        GrantTypeOK, GrantRecord
    <3> QED
      BY <1>6, <3>1, <3>2
  <2> QED
    BY <2>1, <2>2, GotoEffect, RowUnclaimed DEF NoNewOwner, OwningPC, ClaimedPC
<1>7. CASE CheckIdempotency(r) \/ Dispatch(r)
  <2>1. UNCHANGED <<hitl, grant, sid, ver>> /\ pc[r] \in {"idem_get", "dispatch"}
    BY <1>7 DEF CheckIdempotency, Dispatch, At
  <2>2. PICK label \in {"approved", "settle_grant", "idem_reserve", "settle_idem"} : Goto(r, label)
    BY <1>7 DEF CheckIdempotency, Dispatch
  <2>3. \A q \in Requests \ {r} : out'[q] = out[q]
    BY <1>7 DEF CheckIdempotency, Dispatch, TypeOK
  <2> QED
    BY <2>1, <2>2, <2>3, GotoEffect, RowCalm DEF NoNewOwner, OwningPC, ClaimedPC
<1>8. CASE ReserveKey(r) \/ SettleIdempotency(r) \/ PersistEvent(r)
  <2>1. UNCHANGED <<hitl, grant, sid, ver, out>>
    BY <1>8 DEF ReserveKey, SettleIdempotency, PersistEvent
  <2>2. PICK label : /\ Goto(r, label) /\ label \notin {"settle_hitl", "ev_settled"}
                     /\ label \in OwningPC => pc[r] \in OwningPC
    BY <1>8 DEF ReserveKey, SettleIdempotency, PersistEvent, PersistAt, At, OwningPC, ClaimedPC
  <2> QED
    BY <2>1, <2>2, GotoEffect, RowCalm DEF NoNewOwner
<1> QED
  BY <1>1, <1>2, <1>3, <1>4, <1>5, <1>6, <1>7, <1>8, RowClaims, RowBooks, RowSettles DEF Advance

\* Session row and grant row stay in step.
LEMMA RowStep ==
  TypeOK /\ ClaimInv /\ OriginInv /\ VersionInv /\ ApproverInv /\ RowInv /\ [Next]_vars => RowInv'
BY StepSplit, RowEnv, RowAdvance

-----------------------------------------------------------------------------
(* Idempotency record and tool call                                        *)

\* Nobody holds a grant and none is settled initially.
LEMMA InitRecord == Init => RecordInv
BY DEF Init, GrantInit, NoGrant, RecordInv, RequestRecord, SessionRecord

\* The key of an operation that has been decided on does not change.
LEMMA KeysKept ==
  ASSUME TypeOK, OriginInv, RowInv, [Next]_vars
  PROVE  /\ \A r \in Requests : pc[r] \in DecidedPC => IdemKey(sid[r])' = IdemKey(sid[r])
         /\ \A s \in Sessions : grant[s].status \in ClaimedStatus => IdemKey(s)' = IdemKey(s)
<1>0. UNCHANGED sid /\ \A r \in Requests : sid[r] \in Sessions
  BY StepKinds, RowTypes
<1>1. \A r \in Requests : pc[r] \in DecidedPC => Exists(sid[r])
  BY DEF OriginInv, KnownOperation
<1>2. \A s \in Sessions : grant[s].status \in ClaimedStatus => Exists(s)
  BY DEF RowInv, RowsAgree, ClaimedStatus, Exists
<1> QED
  BY <1>0, <1>1, <1>2, SessionKept DEF IdemKey

\* A step that neither sends, books nor settles anything.
LEMMA RecordCalm ==
  ASSUME TypeOK, OriginInv, RowInv, RecordInv, [Next]_vars, UNCHANGED <<idem, dispatched>>,
         \A r \in Requests :
           pc'[r] \in {"idem_reserve", "ev_dispatch", "dispatch", "settle_idem", "settle_grant"} =>
             /\ pc'[r] = pc[r] \/ (pc[r] = "ev_dispatch" /\ pc'[r] = "dispatch")
             /\ out'[r] = out[r],
         \A s \in Sessions : grant'[s].status \in {"CONSUMED", "UNKNOWN"} =>
           grant'[s].status = grant[s].status
  PROVE  RecordInv'
<1>1. ASSUME NEW r \in Requests PROVE RequestRecord(r)'
  <2>1. pc[r] \in {"idem_reserve", "ev_dispatch", "dispatch", "settle_idem", "settle_grant"} =>
          IdemKey(sid[r])' = IdemKey(sid[r])
    BY KeysKept DEF DecidedPC, ClaimedPC, SettlingPC
  <2> QED
    BY <2>1 DEF RecordInv, RequestRecord
<1>2. ASSUME NEW s \in Sessions PROVE SessionRecord(s)'
  <2>1. grant[s].status \in {"CONSUMED", "UNKNOWN"} => IdemKey(s)' = IdemKey(s)
    BY KeysKept DEF ClaimedStatus
  <2> QED
    BY <2>1 DEF RecordInv, SessionRecord
<1> QED
  BY <1>1, <1>2 DEF RecordInv

\* A step of the holder of a grant concerns the record of its own session only.
LEMMA RecordFrame ==
  ASSUME TypeOK, ClaimInv, OriginInv, RowInv, RecordInv, [Next]_vars,
         NEW r \in Requests, pc[r] \in UnsettledPC,
         \A q \in Requests \ {r} : pc'[q] = pc[q] /\ out'[q] = out[q],
         \A x \in Sessions \ {sid[r]} : grant'[x] = grant[x],
         \A x \in Sessions \ {sid[r]}, t \in ToolIds :
           idem'[<<x, t>>] = idem[<<x, t>>] /\ dispatched'[<<x, t>>] = dispatched[<<x, t>>],
         RequestRecord(r)', SessionRecord(sid[r])'
  PROVE  RecordInv'
<1>0. \A q \in Requests : sid[q] \in Sessions
  BY RowTypes
<1>1. ASSUME NEW q \in Requests PROVE RequestRecord(q)'
  <2>1. CASE q # r /\ pc[q] \in {"idem_reserve", "ev_dispatch", "dispatch", "settle_idem", "settle_grant"}
    <3>1. sid[q] # sid[r]
      BY <2>1 DEF ClaimInv, SingleClaimant, Holding, UnsettledPC, ClaimedPC, SettlingPC
    <3>2. pc[q] \in DecidedPC
      BY <2>1 DEF DecidedPC, ClaimedPC, SettlingPC
    <3>3. IdemKey(sid[q])' = IdemKey(sid[q]) /\ hitl[sid[q]].tool_call_id \in ToolIds
      BY <3>2, KeysKept DEF OriginInv, KnownOperation
    <3>4. /\ idem'[IdemKey(sid[q])] = idem[IdemKey(sid[q])]
          /\ dispatched'[IdemKey(sid[q])] = dispatched[IdemKey(sid[q])]
      BY <1>0, <3>1, <3>3 DEF IdemKey
    <3> QED
      BY <2>1, <3>3, <3>4 DEF RecordInv, RequestRecord
  <2>2. CASE q # r /\ pc[q] \notin {"idem_reserve", "ev_dispatch", "dispatch", "settle_idem", "settle_grant"}
    BY <2>2 DEF RequestRecord
  <2> QED
    BY <2>1, <2>2
<1>2. ASSUME NEW x \in Sessions PROVE SessionRecord(x)'
  <2>1. CASE x # sid[r] /\ grant[x].status \in {"CONSUMED", "UNKNOWN"}
    <3>1. IdemKey(x)' = IdemKey(x) /\ hitl[x].tool_call_id \in ToolIds
      BY <2>1, KeysKept DEF ClaimedStatus, RowInv, RowsAgree
    <3>2. idem'[IdemKey(x)] = idem[IdemKey(x)] /\ dispatched'[IdemKey(x)] = dispatched[IdemKey(x)]
      BY <2>1, <3>1 DEF IdemKey
    <3> QED
      BY <2>1, <3>1, <3>2 DEF RecordInv, SessionRecord
  <2>2. CASE x # sid[r] /\ grant[x].status \notin {"CONSUMED", "UNKNOWN"}
    BY <2>2 DEF SessionRecord
  <2>3. CASE x = sid[r]
    BY <2>3, StepKinds DEF SessionRecord, IdemKey
  <2> QED
    BY <2>1, <2>2, <2>3
<1> QED
  BY <1>1, <1>2 DEF RecordInv

\* What the holder's own statements do to the record and to the number of calls.
LEMMA RecordHolder ==
  ASSUME TypeOK, ClaimInv, OriginInv, RowInv, RecordInv, [Next]_vars, NEW r \in Requests,
         \/ CheckIdempotency(r) \/ ReserveKey(r) \/ Dispatch(r) \/ SettleIdempotency(r)
         \/ SettleGrant(r)
  PROVE  RecordInv'
<1> DEFINE s == sid[r]
           k == IdemKey(s)
<1>0. /\ pc[r] \in UnsettledPC /\ pc[r] \in DecidedPC
      /\ \A q \in Requests \ {r} : pc'[q] = pc[q] /\ out'[q] = out[q]
  BY GotoEffect DEF CheckIdempotency, ReserveKey, Dispatch, SettleIdempotency, SettleGrant, At,
     UnsettledPC, DecidedPC, ClaimedPC, SettlingPC, TypeOK
<1>1. /\ s \in Sessions /\ UNCHANGED sid /\ k = <<s, hitl[s].tool_call_id>>
      /\ hitl[s].tool_call_id \in ToolIds
      /\ IdemKey(sid[r])' = k /\ grant[s].status = "CONSUMING"
  BY <1>0, KeysKept, RowTypes, StepKinds
     DEF OriginInv, KnownOperation, ClaimInv, HoldersHaveClaimed, IdemKey
<1>2. k \in Keys /\ idem[k] \in IdempotencyStatus \cup {"NONE"} /\ dispatched[k] \in Nat
      /\ idem \in [Keys -> IdempotencyStatus \cup {"NONE"}] /\ dispatched \in [Keys -> Nat]
  BY <1>1 DEF Keys, TypeOK, IdempotencyTypeOK
<1>3. IdemKey(s)' = k
  BY <1>1 DEF IdemKey
\* A status change of the record of k is none of another session's.
<1>a. ASSUME NEW from, NEW to, SetStatus(k, from, to)
      PROVE  /\ \A x \in Sessions \ {s}, t \in ToolIds : idem'[<<x, t>>] = idem[<<x, t>>]
             /\ idem'[k] = IF idem[k] \in from THEN to ELSE idem[k]
  BY <1>a, <1>1, <1>2 DEF SetStatus, Keys
<1>4. CASE CheckIdempotency(r)
  <2>1. UNCHANGED <<grant, idem, dispatched>>
    BY <1>4 DEF CheckIdempotency
  <2>2. SessionRecord(s)'
    BY <2>1, <1>1 DEF SessionRecord
  <2>3. \/ pc'[r] = "approved"
        \/ pc'[r] = "settle_grant" /\ out'[r] = "replay"
        \/ pc'[r] = "idem_reserve" /\ idem[k] \in {"NONE", "FAILED"}
    BY <1>4, GotoEffect DEF CheckIdempotency, TypeOK
  <2>4. RequestRecord(r)'
    BY <2>1, <2>3, <1>1 DEF RequestRecord
  <2> QED
    BY <1>0, <2>1, <2>2, <2>4, RecordFrame
<1>5. CASE ReserveKey(r)
  <2>1. UNCHANGED <<grant, dispatched>> /\ SetStatus(k, {"NONE"}, "RESERVED")
        /\ pc'[r] = "ev_dispatch" /\ idem[k] \in {"NONE", "FAILED"}
    BY <1>5, GotoEffect DEF ReserveKey, reserve, At, RecordInv, RequestRecord
  <2>2. SessionRecord(s)'
    BY <2>1, <1>1 DEF SessionRecord
  <2>3. RequestRecord(r)'
    BY <2>1, <1>1, <1>a DEF RequestRecord
  <2> QED
    BY <1>0, <2>1, <2>2, <2>3, <1>a, RecordFrame
<1>6. CASE Dispatch(r)
  <2>1. /\ UNCHANGED <<grant, idem>> /\ dispatched' = [dispatched EXCEPT ![k] = dispatched[k] + 1]
        /\ pc'[r] = "settle_idem" /\ idem[k] \in {"RESERVED", "FAILED"}
    BY <1>6, GotoEffect DEF Dispatch, call_tool, At, RecordInv, RequestRecord
  <2>2. dispatched[k] = 0
    BY <1>6, <1>1 DEF Dispatch, At, ClaimInv, NothingSentBefore, ClaimedPC
  <2>3. dispatched'[k] = 1
        /\ \A x \in Sessions \ {s}, t \in ToolIds : dispatched'[<<x, t>>] = dispatched[<<x, t>>]
    BY <2>1, <2>2, <1>1, <1>2 DEF Keys
  <2>4. SessionRecord(s)'
    BY <2>1, <1>1 DEF SessionRecord
  <2>5. RequestRecord(r)'
    BY <2>1, <2>3, <1>1 DEF RequestRecord
  <2> QED
    BY <1>0, <2>1, <2>3, <2>4, <2>5, RecordFrame
<1>7. CASE SettleIdempotency(r)
  <2>1. /\ UNCHANGED <<grant, dispatched, out>> /\ pc'[r] = "settle_grant"
        /\ idem[k] \in {"RESERVED", "FAILED"} /\ dispatched[k] = 1
    BY <1>7, GotoEffect DEF SettleIdempotency, At, RecordInv, RequestRecord
  <2>2. PICK from, to : /\ SetStatus(k, from, to)
                        /\ out[r] = "unknown" => from = {"RESERVED", "EXECUTING"} /\ to = "UNKNOWN"
    BY <1>7 DEF SettleIdempotency, mark_succeeded, idem_mark_failed, idem_mark_unknown
  <2>3. out[r] = "unknown" => idem'[k] \in {"UNKNOWN", "FAILED"}
    BY <2>1, <2>2, <1>a
  <2>4. SessionRecord(s)'
    BY <2>1, <1>1 DEF SessionRecord
  <2>5. RequestRecord(r)'
    BY <2>1, <2>3, <1>1 DEF RequestRecord
  <2> QED
    BY <1>0, <2>1, <2>2, <2>4, <2>5, <1>a, RecordFrame
<1>8. CASE SettleGrant(r)
  <2>1. UNCHANGED <<idem, dispatched, out>> /\ pc[r] = "settle_grant" /\ pc'[r] = "settle_hitl"
    BY <1>8, GotoEffect DEF SettleGrant, At
  <2>2. PICK to \in {"CONSUMED", "UNKNOWN", "FAILED"} :
          /\ Mark(s, {"CONSUMING"}, to)
          /\ to # "FAILED" => out[r] # "replay"
          /\ to = "UNKNOWN" => out[r] = "unknown"
    BY <1>8 DEF SettleGrant, mark_consumed, grant_mark_unknown, grant_mark_failed
  <2>3. grant'[s].status = to /\ \A x \in Sessions \ {s} : grant'[x] = grant[x]
    BY <2>2, <1>1, MarkEffect
  <2>4. SessionRecord(s)'
    BY <2>1, <2>2, <2>3, <1>1, <1>3 DEF SessionRecord, RecordInv, RequestRecord
  <2>5. RequestRecord(r)'
    BY <2>1 DEF RequestRecord
  <2> QED
    BY <1>0, <2>1, <2>3, <2>4, <2>5, RecordFrame
<1> QED
  BY <1>4, <1>5, <1>6, <1>7, <1>8

\* The record and the call of an operation stay what its grant says of them.
LEMMA RecordStep ==
  TypeOK /\ ClaimInv /\ OriginInv /\ RowInv /\ RecordInv /\ [Next]_vars => RecordInv'
<1> SUFFICES ASSUME TypeOK, ClaimInv, OriginInv, RowInv, RecordInv, [Next]_vars PROVE RecordInv'
  OBVIOUS
<1> DEFINE Calm == {"idem_reserve", "ev_dispatch", "dispatch", "settle_idem", "settle_grant"}
<1>0. \A r \in Requests : sid[r] \in Sessions
  BY RowTypes
<1>a. ASSUME NEW r \in Requests, NEW label, Goto(r, label),
             label \notin Calm \/ (label = "dispatch" /\ pc[r] = "ev_dispatch"),
             UNCHANGED <<idem, dispatched, out>>,
             \A s \in Sessions : grant'[s].status \in {"CONSUMED", "UNKNOWN"} =>
               grant'[s].status = grant[s].status
      PROVE  RecordInv'
  <2>1. pc'[r] = label /\ \A q \in Requests \ {r} : pc'[q] = pc[q]
    BY <1>a, GotoEffect
  <2> QED
    BY <1>a, <2>1, RecordCalm
<1>1. ASSUME NEW r \in Requests,
             \/ StartApprove(r) \/ StartReject(r) \/ CrashRequest(r) \/ ApproveLoad(r)
             \/ RejectLoad(r) \/ ExpireOnApprove(r) \/ ReconcileSession(r) \/ ApproveSession(r)
             \/ SettleSession(r) \/ RejectSession(r) \/ PersistEvent(r)
      PROVE  RecordInv'
  <2>1. UNCHANGED <<grant, idem, dispatched, out>>
    BY <1>1 DEF StartApprove, StartReject, CrashRequest, ApproveLoad, RejectLoad, ExpireOnApprove,
       ReconcileSession, ApproveSession, SettleSession, RejectSession, PersistEvent
  <2>2. \E label : Goto(r, label) /\ (label \notin Calm \/ (label = "dispatch" /\ pc[r] = "ev_dispatch"))
    BY <1>1 DEF StartApprove, StartReject, CrashRequest, ApproveLoad, RejectLoad, ExpireOnApprove,
       ReconcileSession, ApproveSession, SettleSession, RejectSession, PersistEvent, PersistAt, At
  <2> QED
    BY <2>1, <2>2, <1>a
<1>2. ASSUME NEW r \in Requests, ReconcileGrant(r) \/ RejectGrant(r) \/ ApproveGrant(r) \/ ClaimGrant(r)
      PROVE  RecordInv'
  <2>1. UNCHANGED <<idem, dispatched, out>>
    BY <1>2 DEF ReconcileGrant, RejectGrant, ApproveGrant, ClaimGrant
  <2>2. PICK label \in {"ev_recon", "ev_rejected", "approve_hitl", "ev_claimed", "error"} : Goto(r, label)
    BY <1>2 DEF ReconcileGrant, RejectGrant, ApproveGrant, ClaimGrant
  <2>3. \A s \in Sessions : grant'[s].status \in {"CONSUMED", "UNKNOWN"} =>
          grant'[s].status = grant[s].status
    <3>1. CASE ReconcileGrant(r) \/ RejectGrant(r)
      BY <3>1, <1>0, MarkEffect
         DEF ReconcileGrant, RejectGrant, mark_reconciliation_required, mark_rejected
    <3>2. CASE ApproveGrant(r) \/ ClaimGrant(r)
      BY <3>2, <1>0 DEF ApproveGrant, ClaimGrant, approve_pending, atomic_consume, TypeOK,
                        GrantTypeOK, GrantRecord
    <3> QED
      BY <1>2, <3>1, <3>2
  <2> QED
    BY <2>1, <2>2, <2>3, <1>a
<1>3. ASSUME NEW s \in Sessions, InsertGrant(s) PROVE RecordInv'
  <2>1. Mark(s, {"NONE"}, "PENDING") /\ UNCHANGED <<idem, dispatched, pc, out>>
    BY <1>3 DEF InsertGrant, insert_pending, Mark, reqVars
  <2> QED
    BY <2>1, MarkEffect, RecordCalm
<1>4. CASE UNCHANGED <<grant, idem, dispatched, pc, out>>
  BY <1>4, RecordCalm
<1>5. ASSUME NEW r \in Requests, Advance(r) PROVE RecordInv'
  BY <1>5, <1>1, <1>2, RecordHolder DEF Advance
<1> QED
  BY <1>1, <1>3, <1>4, <1>5, StepSplit
     DEF EnvStep, InsertSession, Clock, CrashCreating, SweepExpired, vars, reqVars

-----------------------------------------------------------------------------
(* Moves of the rows, and the audit trail                                  *)

\* Every change a session row can undergo.
SessionMove(s) ==
  \/ hitl'[s] = hitl[s]
  \/ hitl[s].status = "NONE" /\ hitl'[s].status = "PENDING"
  \/ hitl[s].status = "PENDING" /\ hitl'[s].status = "EXPIRED"
  \/ /\ hitl'[s].version = hitl[s].version + 1
     /\ \/ hitl[s].status \in {"PENDING", "EXPIRED"} /\ hitl[s].version = 1
        \/ hitl[s].status = "RESUMED" /\ hitl'[s].status \in {"EXPIRED", "REJECTED"}
        \/ hitl[s].status = "APPROVED" /\ hitl'[s].status \in {"RESUMED", "FAILED"}

\* The row of a session changes along these edges only.
LEMMA SessionMoves ==
  ASSUME TypeOK, VersionInv, ApproverInv, RowInv, [Next]_vars
  PROVE  \A s \in Sessions : SessionMove(s)
<1>0. \A r \in Requests : sid[r] \in Sessions /\ ver[r] \in Nat
  BY RowTypes
\* A request that has loaded the row and updates it.
<1>1. ASSUME NEW r \in Requests, pc[r] \in LoadedPC,
             NEW status \in {"EXPIRED", "RECONCILIATION_REQUIRED", "APPROVED", "REJECTED"},
             status = "APPROVED" => pc[r] = "approve_hitl",
             status = "RECONCILIATION_REQUIRED" => pc[r] = "recon_hitl",
             update_status(sid[r], status, ver[r])
      PROVE  \A s \in Sessions : SessionMove(s)
  <2> DEFINE x == sid[r]
  <2>1. CASE hitl' = hitl
    BY <2>1 DEF SessionMove
  <2>2. CASE /\ VersionMatches(x, ver[r])
             /\ hitl'[x].status = status
             /\ hitl'[x].version = hitl[x].version + 1
             /\ \A s \in Sessions \ {x} : hitl'[s] = hitl[s]
    <3>1. /\ \/ hitl[x].status = "RESUMED"
             \/ hitl[x].status \in {"PENDING", "EXPIRED"} /\ hitl[x].version = 1
          /\ pc[r] = "recon_hitl" => hitl[x].tool_call_id = NoId
          /\ pc[r] = "approve_hitl" => grant[x].status \in {"APPROVED", "REJECTED"}
      BY <1>1, <2>2 DEF VersionMatches, VersionInv, LoadedVersions, ApproverInv, ApproverPC
    <3>2. hitl[x].status = "RESUMED" => grant[x].status = "CONSUMED" /\ hitl[x].tool_call_id # NoId
      BY <1>0, NoIdAssumption DEF RowInv, RowsAgree, ClaimedStatus
    <3>3. hitl[x].status = "RESUMED" => status \in {"EXPIRED", "REJECTED"}
      BY <1>1, <3>1, <3>2
    <3>4. SessionMove(x)
      BY <2>2, <3>1, <3>3 DEF SessionMove
    <3> QED
      BY <2>2, <3>4 DEF SessionMove
  <2> QED
    BY <1>0, <1>1, <2>1, <2>2, UpdateEffect
<1>2. ASSUME NEW r \in Requests, SettleSession(r) PROVE \A s \in Sessions : SessionMove(s)
  <2> DEFINE status == IF out[r] = "succeeded" THEN "RESUMED" ELSE "FAILED"
  <2>1. hitl[sid[r]].status = "APPROVED" /\ update_status(sid[r], status, ver[r] + 1)
    BY <1>2 DEF SettleSession, At, RowInv, RowIsApproved, OwningPC
  <2> QED
    BY <1>0, <2>1, UpdateEffect DEF SessionMove
<1>3. ASSUME NEW x \in Sessions, NEW tid, InsertSession(x, tid) PROVE \A s \in Sessions : SessionMove(s)
  BY <1>3 DEF InsertSession, HITLInsert, Exists, SessionMove, TypeOK, HITLTypeOK
<1>4. CASE SweepExpired
  BY <1>4 DEF SweepExpired, expire_stale_sessions, SessionMove, TypeOK, HITLTypeOK, HITLSession
<1>5. UNCHANGED hitl => \A s \in Sessions : SessionMove(s)
  BY DEF SessionMove
<1>6. ASSUME NEW r \in Requests, Advance(r) PROVE \A s \in Sessions : SessionMove(s)
  <2>1. CASE ExpireOnApprove(r)
    BY <2>1, <1>1 DEF ExpireOnApprove, At, LoadedPC
  <2>2. CASE ReconcileSession(r)
    BY <2>2, <1>1 DEF ReconcileSession, At, LoadedPC
  <2>3. CASE ApproveSession(r)
    BY <2>3, <1>1 DEF ApproveSession, At, LoadedPC
  <2>4. CASE RejectSession(r)
    BY <2>4, <1>1 DEF RejectSession, At, LoadedPC
  <2> QED
    BY <1>2, <1>5, <1>6, <2>1, <2>2, <2>3, <2>4
       DEF Advance, ApproveLoad, ReconcileGrant, ApproveGrant, ClaimGrant, CheckIdempotency,
           ReserveKey, Dispatch, SettleIdempotency, SettleGrant, RejectLoad, RejectGrant, PersistEvent
<1> QED
  BY <1>3, <1>4, <1>5, <1>6, StepSplit
     DEF EnvStep, StartApprove, StartReject, CrashRequest, InsertGrant, Clock, CrashCreating, vars

\* A grant is claimed by atomic_consume only, stays claimed, and is settled once.
LEMMA GrantMoves ==
  ASSUME TypeOK, [Next]_vars
  PROVE  \A s \in Sessions :
           /\ grant[s].status \in ClaimedStatus => grant'[s].status \in ClaimedStatus
           /\ grant[s].status \in {"CONSUMED", "FAILED", "UNKNOWN"} =>
                grant'[s].status = grant[s].status
           /\ grant[s].status \notin ClaimedStatus /\ grant'[s].status \in ClaimedStatus =>
                ~is_expired(s)
<1> DEFINE Moves == \A s \in Sessions :
             /\ grant[s].status \in ClaimedStatus => grant'[s].status \in ClaimedStatus
             /\ grant[s].status \in {"CONSUMED", "FAILED", "UNKNOWN"} =>
                  grant'[s].status = grant[s].status
             /\ grant[s].status \notin ClaimedStatus /\ grant'[s].status \in ClaimedStatus =>
                  ~is_expired(s)
<1>0. \A r \in Requests : sid[r] \in Sessions
  BY RowTypes
<1>a. ASSUME NEW s \in Sessions, NEW from, NEW to, Mark(s, from, to),
             \/ from \cap ClaimedStatus = {} /\ to \notin ClaimedStatus
             \/ from = {"CONSUMING"} /\ to \in {"CONSUMED", "FAILED", "UNKNOWN"}
      PROVE  Moves
  BY <1>a, MarkEffect DEF ClaimedStatus
<1>1. ASSUME NEW r \in Requests, ReconcileGrant(r) \/ RejectGrant(r) \/ SettleGrant(r) PROVE Moves
  <2>1. PICK from, to : /\ Mark(sid[r], from, to)
                        /\ \/ from \cap ClaimedStatus = {} /\ to \notin ClaimedStatus
                           \/ from = {"CONSUMING"} /\ to \in {"CONSUMED", "FAILED", "UNKNOWN"}
    BY <1>1 DEF ReconcileGrant, RejectGrant, SettleGrant, mark_reconciliation_required, mark_rejected,
                mark_consumed, grant_mark_failed, grant_mark_unknown, ClaimedStatus
  <2> QED
    BY <2>1, <1>0, <1>a
<1>2. ASSUME NEW s \in Sessions, InsertGrant(s) PROVE Moves
  <2>1. Mark(s, {"NONE"}, "PENDING")
    BY <1>2 DEF InsertGrant, insert_pending, Mark
  <2> QED
    BY <2>1, <1>a DEF ClaimedStatus
<1>3. ASSUME NEW r \in Requests, ApproveGrant(r) PROVE Moves
  BY <1>3, <1>0 DEF ApproveGrant, approve_pending, Approvable, ClaimedStatus, TypeOK, GrantTypeOK,
                    GrantRecord
<1>4. ASSUME NEW r \in Requests, ClaimGrant(r) PROVE Moves
  BY <1>4, <1>0 DEF ClaimGrant, atomic_consume, Claimable, ClaimedStatus, TypeOK, GrantTypeOK,
                    GrantRecord
<1> QED
  BY <1>1, <1>2, <1>3, <1>4, StepKinds DEF ClaimedStatus

\* The trails of an unused and of a suspended session record no decision.
LEMMA InitTrail == Init => TrailInv
<1> SUFFICES ASSUME Init PROVE TrailInv
  OBVIOUS
<1>1. \A s \in Sessions : /\ events[s][0] \in {"NONE", "USER_MESSAGE"}
                          /\ events[s][1] \in {"NONE", "HITL_INTERRUPT"}
                          /\ events[s][3] = "NONE" /\ events[s][4] = "NONE"
  BY DEF Init, EmptyTrail, SuspendedTrail, RunTrail, Seqs
<1> QED
  BY <1>1 DEF Init, TrailInv, TrailSound

\* A request rejects the grant of a session that it has made REJECTED.
LEMMA RejectingStep ==
  ASSUME TypeOK, [Next]_vars, NEW r \in Requests, pc'[r] \in {"reject_grant", "ev_rejected"}
  PROVE  pc[r] \in {"reject_grant", "ev_rejected"} \/ hitl'[sid[r]].status = "REJECTED"
<1> DEFINE Goal == pc[r] \in {"reject_grant", "ev_rejected"} \/ hitl'[sid[r]].status = "REJECTED"
<1>0. sid[r] \in Sessions
  BY RowTypes
<1>a. ASSUME NEW q \in Requests, NEW label, Goto(q, label),
             label \notin {"reject_grant", "ev_rejected"}
      PROVE  Goal
  BY <1>a, GotoEffect
<1>1. ASSUME NEW q \in Requests, StartApprove(q) \/ StartReject(q) \/ CrashRequest(q) PROVE Goal
  <2>1. PICK label \in {"a_load", "r_load", "crashed"} : Goto(q, label)
    BY <1>1 DEF StartApprove, StartReject, CrashRequest
  <2> QED
    BY <2>1, <1>a
<1>2. ASSUME NEW q \in Requests, RejectSession(q) PROVE Goal
  <2>1. CASE VersionMatches(sid[q], ver[q]) /\ q = r
    BY <2>1, <1>0, <1>2, UpdateEffect DEF RejectSession, update_status, SetStatusOf, TypeOK, HITLTypeOK
  <2>2. CASE q # r
    BY <2>2, <1>2, GotoEffect DEF RejectSession
  <2>3. CASE ~VersionMatches(sid[q], ver[q])
    BY <2>3, <1>2, <1>a DEF RejectSession
  <2> QED
    BY <2>1, <2>2, <2>3
<1>3. ASSUME NEW q \in Requests, RejectGrant(q) PROVE Goal
  <2>1. pc[q] = "reject_grant" /\ \A p \in Requests \ {q} : pc'[p] = pc[p]
    BY <1>3, GotoEffect DEF RejectGrant, At
  <2> QED
    BY <2>1
<1>4. ASSUME NEW q \in Requests, Advance(q), ~RejectSession(q), ~RejectGrant(q) PROVE Goal
  <2>1. \E label : Goto(q, label) /\ label \notin {"reject_grant", "ev_rejected"}
    BY <1>4 DEF Advance, ApproveLoad, ExpireOnApprove, ReconcileSession, ReconcileGrant,
       ApproveGrant, ApproveSession, ClaimGrant, CheckIdempotency, ReserveKey, Dispatch,
       SettleIdempotency, SettleGrant, SettleSession, RejectLoad, PersistEvent, PersistAt
  <2> QED
    BY <2>1, <1>a
<1>5. UNCHANGED pc => Goal
  OBVIOUS
<1> QED
  BY <1>1, <1>2, <1>3, <1>4, <1>5, StepSplit
     DEF EnvStep, InsertSession, InsertGrant, Clock, CrashCreating, SweepExpired, vars, reqVars

\* Rows move, the trail does not.
LEMMA TrailKept ==
  ASSUME TypeOK, VersionInv, ApproverInv, RowInv, TrailInv, [Next]_vars, UNCHANGED events
  PROVE  TrailInv'
<1>1. \A s \in Sessions : SessionMove(s) /\ hitl[s].version \in Nat
  BY SessionMoves, RowTypes
<1>2. UNCHANGED sid /\ \A r \in Requests : sid[r] \in Sessions
  BY StepKinds, RowTypes
<1>3. \A r \in Requests : pc'[r] \in {"reject_grant", "ev_rejected"} => hitl'[sid[r]].status = "REJECTED"
  <2> SUFFICES ASSUME NEW r \in Requests, pc[r] \in {"reject_grant", "ev_rejected"}
               PROVE  hitl'[sid[r]].status = "REJECTED"
    BY RejectingStep
  <2>1. hitl[sid[r]].status = "REJECTED"
    BY DEF TrailInv
  <2> QED
    BY <1>1, <1>2, <2>1 DEF SessionMove
<1>4. ASSUME NEW s \in Sessions, events[s][0] = "APPROVAL_GRANTED"
      PROVE  /\ hitl'[s].version >= 2
             /\ hitl'[s].status \in {"APPROVED", "RESUMED", "FAILED", "REJECTED", "EXPIRED"}
  <2>1. /\ hitl[s].version >= 2
        /\ hitl[s].status \in {"APPROVED", "RESUMED", "FAILED", "REJECTED", "EXPIRED"}
    BY <1>4 DEF TrailInv, TrailSound
  <2> QED
    BY <1>1, <2>1 DEF SessionMove
<1>5. ASSUME NEW s \in Sessions, events[s][0] = "APPROVAL_REJECTED"
      PROVE  hitl'[s].status = "REJECTED"
  BY <1>1, <1>5 DEF TrailInv, TrailSound, SessionMove
<1>6. TrailSound'
  BY <1>4, <1>5, GrantMoves DEF TrailInv, TrailSound
<1> QED
  BY <1>2, <1>3, <1>4, <1>6 DEF TrailInv

\* An event is recorded by a request that has done what it says.
LEMMA TrailRecords ==
  ASSUME TypeOK, ClaimInv, RowInv, TrailInv, NEW r \in Requests, PersistEvent(r)
  PROVE  TrailInv'
<1> DEFINE x == sid[r]
<1>0. x \in Sessions /\ UNCHANGED <<hitl, grant, sid>>
  BY RowTypes DEF PersistEvent
<1> DEFINE Allowed(label, seq, kind) ==
             \/ label = "ev_recon" /\ seq = 0 /\ kind = "RECONCILIATION_REQUIRED"
             \/ label = "ev_granted" /\ seq = 0 /\ kind = "APPROVAL_GRANTED"
             \/ label = "ev_claimed" /\ seq = 1 /\ kind = "GRANT_CLAIMED"
             \/ label = "ev_dispatch" /\ seq = 3 /\ kind = "MCP_DISPATCH_STARTED"
             \/ label = "ev_settled" /\ seq = 2 /\ out[r] = "replay"
             \/ label = "ev_settled" /\ seq = 4 /\ kind = OutcomeEvent[out[r]] /\ out[r] # "replay"
             \/ label = "ev_rejected" /\ seq = 0 /\ kind = "APPROVAL_REJECTED"
<1>1. PICK seq \in Seqs, kind \in EventKind, next \in PC :
        /\ persist_event(x, seq, kind) /\ Goto(r, next)
        /\ next \notin {"reject_grant", "ev_rejected"}
        /\ Allowed(pc[r], seq, kind)
  <2>1. CASE pc[r] = "ev_settled"
    <3> DEFINE seq0 == IF out[r] = "replay" THEN 2 ELSE 4
               next0 == IF out[r] = "succeeded" THEN "approved" ELSE "error"
    <3>1. persist_event(x, seq0, OutcomeEvent[out[r]]) /\ Goto(r, next0)
      BY <2>1 DEF PersistEvent, PersistAt, At
    <3>2. seq0 \in Seqs /\ next0 \in PC /\ next0 \notin {"reject_grant", "ev_rejected"}
      BY DEF Seqs, PC, Results
    <3>3. OutcomeEvent[out[r]] \in EventKind
      BY DEF TypeOK, Outcomes, OutcomeEvent, EventKind
    <3>4. Allowed("ev_settled", seq0, OutcomeEvent[out[r]])
      OBVIOUS
    <3> HIDE DEF seq0, next0, Allowed
    <3> QED
      BY <2>1, <3>1, <3>2, <3>3, <3>4
  <2>2. CASE pc[r] # "ev_settled"
    <3>1. PICK q \in {0, 1, 3},
               kind \in {"RECONCILIATION_REQUIRED", "APPROVAL_GRANTED", "GRANT_CLAIMED",
                         "MCP_DISPATCH_STARTED", "APPROVAL_REJECTED"},
               next \in {"reconciliation_required", "claim", "idem_get", "dispatch", "rejected"} :
            /\ persist_event(x, q, kind) /\ Goto(r, next)
            /\ next \notin {"reject_grant", "ev_rejected"}
            /\ Allowed(pc[r], q, kind)
      BY <2>2 DEF PersistEvent, PersistAt, At
    <3>2. q \in Seqs /\ kind \in EventKind /\ next \in PC
      BY DEF Seqs, EventKind, PC, ApprovePC, ClaimedPC, Results
    <3> HIDE DEF Allowed
    <3> QED
      BY <3>1, <3>2
  <2> QED
    BY <2>1, <2>2
<1>2. pc'[r] = next /\ \A q \in Requests \ {r} : pc'[q] = pc[q]
  BY <1>1, GotoEffect
<1>3. \A s \in Sessions, q \in Seqs :
        events'[s][q] = events[s][q] \/ (s = x /\ q = seq /\ events'[s][q] = kind)
  BY <1>0, <1>1 DEF persist_event, TypeOK, EventTypeOK
<1>4. \A r1 \in Requests : pc'[r1] \in {"reject_grant", "ev_rejected"} => hitl[sid[r1]].status = "REJECTED"
  BY <1>1, <1>2 DEF TrailInv
<1>5. /\ pc[r] = "ev_granted" => hitl[x].status = "APPROVED" /\ hitl[x].version >= 2
      /\ pc[r] \in {"ev_claimed", "ev_dispatch"} => grant[x].status \in ClaimedStatus
      /\ pc[r] = "ev_rejected" => hitl[x].status = "REJECTED"
  BY <1>2, RowTypes DEF RowInv, RowIsApproved, OwningPC, ClaimInv, HoldersHaveClaimed, UnsettledPC,
     ClaimedPC, ClaimedStatus, TrailInv
<1>6. pc[r] = "ev_settled" /\ out[r] # "replay" =>
        \/ OutcomeEvent[out[r]] = "MCP_EXECUTION_SUCCEEDED" /\ grant[x].status = "CONSUMED"
        \/ OutcomeEvent[out[r]] = "MCP_EXECUTION_UNKNOWN" /\ grant[x].status = "UNKNOWN"
        \/ OutcomeEvent[out[r]] = "MCP_EXECUTION_FAILED" /\ grant[x].status = "FAILED"
  BY <1>2 DEF RowInv, BookedOutcome, OutcomeEvent
<1>7. 0 \in Seqs /\ 1 \in Seqs /\ 3 \in Seqs /\ 4 \in Seqs
  BY DEF Seqs
<1>8. ASSUME NEW s \in Sessions, events'[s][0] = "APPROVAL_GRANTED"
      PROVE  /\ hitl[s].version >= 2
             /\ hitl[s].status \in {"APPROVED", "RESUMED", "FAILED", "REJECTED", "EXPIRED"}
  BY <1>1, <1>3, <1>5, <1>7, <1>8 DEF TrailInv, TrailSound
<1>9. ASSUME NEW s \in Sessions
      PROVE  /\ events'[s][0] = "APPROVAL_REJECTED" => hitl[s].status = "REJECTED"
             /\ "GRANT_CLAIMED" = events'[s][1] => grant[s].status \in ClaimedStatus
             /\ events'[s][3] = "MCP_DISPATCH_STARTED" => grant[s].status \in ClaimedStatus
  BY <1>1, <1>3, <1>5, <1>7 DEF TrailInv, TrailSound
<1>10. ASSUME NEW s \in Sessions
      PROVE  /\ events'[s][4] = "MCP_EXECUTION_SUCCEEDED" => grant[s].status = "CONSUMED"
             /\ events'[s][4] = "MCP_EXECUTION_UNKNOWN" => grant[s].status = "UNKNOWN"
             /\ events'[s][4] = "MCP_EXECUTION_FAILED" => grant[s].status = "FAILED"
  <2>1. events'[s][4] = events[s][4] \/ (s = x /\ pc[r] = "ev_settled" /\ out[r] # "replay"
                                          /\ events'[s][4] = OutcomeEvent[out[r]])
    BY <1>1, <1>3, <1>7
  <2> QED
    BY <1>6, <2>1 DEF TrailInv, TrailSound
<1>11. TrailSound'
  BY <1>0, <1>8, <1>9, <1>10 DEF TrailSound
<1> QED
  BY <1>0, <1>4, <1>8, <1>11 DEF TrailInv

\* The trail stays sound.
LEMMA TrailStep ==
  TypeOK /\ ClaimInv /\ VersionInv /\ ApproverInv /\ RowInv /\ TrailInv /\ [Next]_vars => TrailInv'
<1> SUFFICES ASSUME TypeOK, ClaimInv, VersionInv, ApproverInv, RowInv, TrailInv, [Next]_vars
             PROVE  TrailInv'
  OBVIOUS
<1>1. UNCHANGED events \/ \E r \in Requests : PersistEvent(r)
  BY DEF Next, Advance, ApproveLoad, ExpireOnApprove, ReconcileSession, ReconcileGrant,
     ApproveGrant, ApproveSession, ClaimGrant, CheckIdempotency, ReserveKey, Dispatch,
     SettleIdempotency, SettleGrant, SettleSession, RejectLoad, RejectSession, RejectGrant,
     StartApprove, StartReject, CrashRequest, InsertSession, InsertGrant, CrashCreating, Clock,
     SweepExpired, vars
<1> QED
  BY <1>1, TrailKept, TrailRecords

-----------------------------------------------------------------------------
(* The theorems                                                            *)

TablesInv ==
  /\ TypeOK /\ ClaimInv /\ OriginInv
  /\ VersionInv /\ ApproverInv /\ RowInv /\ RecordInv /\ TrailInv

\* How session rows, grants, records, calls and events relate in every reachable state.
THEOREM TablesInvariant == Spec => []TablesInv
<1>1. Init => TablesInv
  BY InitType, InitClaim, InitOrigin, InitVersion, InitApprover, InitRow, InitRecord, InitTrail
     DEF TablesInv
<1>2. TablesInv /\ [Next]_vars => TablesInv'
  BY TypeStep, ClaimInvStep, OriginStep, VersionStep, ApproverStep, RowStep, RecordStep, TrailStep
     DEF TablesInv
<1> QED
  BY <1>1, <1>2, PTL DEF Spec

\* A rejection that found its session PENDING wins over every approval under way:
\* the grant is never claimed and the call never sent.
THEOREM RejectionIsFinal == Spec => []RejectionWins
<1>1. TablesInv => RejectionWins
  <2> SUFFICES ASSUME TablesInv, NEW s \in Sessions,
                      hitl[s].status = "REJECTED", hitl[s].version = 2
               PROVE  grant[s].status \notin ClaimedStatus /\ ~Ran(s)
    BY DEF RejectionWins
  <2>1. grant[s].status \notin ClaimedStatus
    BY DEF TablesInv, RowInv, RowsAgree
  <2>2. hitl[s].tool_call_id \in ToolIds \cup {NoId}
    BY DEF TablesInv, TypeOK, HITLTypeOK, HITLSession
  <2>3. \A t \in ToolIds : dispatched[<<s, t>>] = 0
    BY <2>1 DEF TablesInv, ClaimInv, NothingSentBefore
  <2> QED
    BY <2>1, <2>2, <2>3 DEF Ran, IdemKey
<1> QED
  BY <1>1, TablesInvariant, PTL

\* Session, grant, idempotency record and tool call agree on how an operation ended,
\* also when the request that settles them dies half-way.
THEOREM SettlementIsConsistent == Spec => []SettlementAgrees
<1>1. TablesInv => SettlementAgrees
  BY DEF TablesInv, RowInv, RowsAgree, RecordInv, SessionRecord, SettlementAgrees
<1> QED
  BY <1>1, TablesInvariant, PTL

\* No stored event claims an approval, rejection, claim, dispatch or outcome that
\* the tables do not show.
THEOREM TrailIsSound == Spec => []TrailSound
BY TablesInvariant, PTL DEF TablesInv, TrailInv

\* After its deadline no grant is claimed any more.
THEOREM NoLateClaim == Spec => LateNeverClaimed
<1>1. TypeOK /\ [Next]_vars =>
        [\A s \in late : grant[s].status \notin ClaimedStatus => grant'[s].status \notin ClaimedStatus]_vars
  <2> SUFFICES ASSUME TypeOK, [Next]_vars, NEW s \in late, grant[s].status \notin ClaimedStatus
               PROVE  grant'[s].status \notin ClaimedStatus
    OBVIOUS
  <2>1. s \in Sessions
    BY DeadlinedAssumption DEF TypeOK, HITLTypeOK
  <2> QED
    BY <2>1, GrantMoves DEF is_expired
<1> QED
  BY <1>1, TypeCorrect, PTL DEF Spec, LateNeverClaimed

\* Rejected, failed and reconciled sessions keep their status; an approved one can
\* only be settled.
THEOREM DecisionsAreFinal == Spec => DecisionsStand
<1>1. TablesInv /\ [Next]_vars =>
        [\A s \in Sessions :
           /\ hitl[s].status \in {"REJECTED", "FAILED", "RECONCILIATION_REQUIRED"} =>
                hitl'[s].status = hitl[s].status
           /\ hitl[s].status = "APPROVED" =>
                hitl'[s].status \in {"APPROVED", "RESUMED", "FAILED"}]_vars
  BY SessionMoves DEF SessionMove, TablesInv
<1> QED
  BY <1>1, TablesInvariant, PTL DEF Spec, DecisionsStand

\* The executor sends nothing under a key that succeeded, is being executed or has an
\* unknown outcome, whatever the record said when a run started.
THEOREM UnsettledKeyIsNotSent == Spec => UnsettledNeverDispatched
<1>1. TablesInv /\ [Next]_vars =>
        [\A k \in Keys : idem[k] \in {"SUCCEEDED", "EXECUTING", "UNKNOWN"} =>
           dispatched'[k] = dispatched[k]]_vars
  <2> SUFFICES ASSUME TablesInv, [Next]_vars, NEW k \in Keys,
                      idem[k] \in {"SUCCEEDED", "EXECUTING", "UNKNOWN"}
               PROVE  dispatched'[k] = dispatched[k]
    OBVIOUS
  <2>1. ASSUME NEW r \in Requests, Dispatch(r) PROVE dispatched'[k] = dispatched[k]
    <3>1. idem[IdemKey(sid[r])] \in {"RESERVED", "FAILED"}
      BY <2>1 DEF Dispatch, At, TablesInv, RecordInv, RequestRecord
    <3>2. dispatched' = [dispatched EXCEPT ![IdemKey(sid[r])] = dispatched[IdemKey(sid[r])] + 1]
      BY <2>1 DEF Dispatch, call_tool
    <3> QED
      BY <3>1, <3>2 DEF TablesInv, TypeOK, IdempotencyTypeOK
  <2> QED
    BY <2>1, StepKinds DEF TablesInv
<1> QED
  BY <1>1, TablesInvariant, PTL DEF Spec, UnsettledNeverDispatched

-----------------------------------------------------------------------------
(* No approved session is left behind without a reason                     *)

\* r approved this version of the row of s and is still to settle it, or did not get
\* there: its process died, the deadline passed between the approval and the claim, or
\* the key's record said that the call had succeeded before.
Settler(s, r) ==
  /\ sid[r] = s /\ ver[r] + 1 = hitl[s].version
  /\ \/ pc[r] \in OwningPC
     \/ pc[r] = "crashed"
     \/ pc[r] = "error" /\ s \in late /\ grant[s].status \notin ClaimedStatus
     \/ pc[r] = "approved" /\ IdemKey(s) \in Keys /\ idem[IdemKey(s)] = "SUCCEEDED"

\* The grant that an approver is about to claim carries its own name, and a rejected
\* grant has a rejected session: what makes the deadline the only reason for a refusal.
RefusalInv ==
  /\ \A r \in Requests : pc[r] \in ApproverPC => grant[sid[r]].approving_actor_id = actor[r]
  /\ \A s \in Sessions : grant[s].status = "REJECTED" => hitl[s].status = "REJECTED"

\* A session stays APPROVED only while a request is settling it, or because its
\* process died, the deadline passed before the claim, or the call had succeeded in an
\* earlier run.  Conflicts of version, rejections and other approvals never leave one.
UnsettledIsExplained ==
  \A s \in Sessions : hitl[s].status = "APPROVED" => \E r \in Requests : Settler(s, r)

\* Only approve_pending writes the approving actor of a grant.
LEMMA ActorKept ==
  ASSUME TypeOK, [Next]_vars, NEW s \in Sessions
  PROVE  \/ /\ grant'[s].approving_actor_id = grant[s].approving_actor_id
            /\ grant'[s].status # "REJECTED" \/ grant[s].status = "REJECTED"
         \/ \E r \in Requests : ApproveGrant(r) /\ sid[r] = s /\ Approvable(s)
         \/ \E r \in Requests : RejectGrant(r) /\ sid[r] = s
                                /\ grant'[s].approving_actor_id = grant[s].approving_actor_id
<1>0. grant \in [Sessions -> GrantRecord] /\ \A r \in Requests : sid[r] \in Sessions
  BY RowTypes DEF TypeOK, GrantTypeOK
<1>1. ASSUME NEW r \in Requests, ReconcileGrant(r) \/ SettleGrant(r)
      PROVE  /\ grant'[s].approving_actor_id = grant[s].approving_actor_id
             /\ grant'[s].status # "REJECTED" \/ grant[s].status = "REJECTED"
  BY <1>0, <1>1 DEF ReconcileGrant, SettleGrant, mark_reconciliation_required, mark_consumed,
                    grant_mark_failed, grant_mark_unknown, Mark, GrantRecord
<1>2. ASSUME NEW r \in Requests, ClaimGrant(r)
      PROVE  /\ grant'[s].approving_actor_id = grant[s].approving_actor_id
             /\ grant'[s].status # "REJECTED" \/ grant[s].status = "REJECTED"
  BY <1>0, <1>2 DEF ClaimGrant, atomic_consume, GrantRecord
<1>3. ASSUME NEW x \in Sessions, InsertGrant(x)
      PROVE  /\ grant'[s].approving_actor_id = grant[s].approving_actor_id
             /\ grant'[s].status # "REJECTED" \/ grant[s].status = "REJECTED"
  BY <1>0, <1>3 DEF InsertGrant, insert_pending, GrantRecord
<1>4. ASSUME NEW r \in Requests, RejectGrant(r)
      PROVE  /\ grant'[s].approving_actor_id = grant[s].approving_actor_id
             /\ sid[r] = s \/ grant'[s] = grant[s]
  BY <1>0, <1>4 DEF RejectGrant, mark_rejected, Mark, GrantRecord
<1>5. ASSUME NEW r \in Requests, ApproveGrant(r)
      PROVE  \/ sid[r] = s /\ Approvable(s)
             \/ grant'[s] = grant[s]
  BY <1>0, <1>5 DEF ApproveGrant, approve_pending, GrantRecord
<1> QED
  BY <1>1, <1>2, <1>3, <1>4, <1>5, StepKinds

\* An approver comes from approve_pending.
LEMMA ApproverOrigin ==
  ASSUME TypeOK, [Next]_vars, NEW r \in Requests, pc'[r] \in ApproverPC
  PROVE  \/ pc[r] \in ApproverPC
         \/ ApproveGrant(r) /\ Approvable(sid[r])
<1>1. ASSUME NEW q \in Requests, StartApprove(q) \/ StartReject(q) \/ CrashRequest(q)
      PROVE  pc'[r] = pc[r]
  <2>1. PICK label \in {"a_load", "r_load", "crashed"} : Goto(q, label)
    BY <1>1 DEF StartApprove, StartReject, CrashRequest
  <2> QED
    BY <2>1, GotoEffect DEF ApproverPC
<1>2. CASE EnvStep
  BY <1>1, <1>2 DEF EnvStep, InsertSession, InsertGrant, Clock, CrashCreating, SweepExpired, vars, reqVars
<1>3. ASSUME NEW q \in Requests, Advance(q), q # r PROVE pc'[r] = pc[r]
  <2>1. PICK label : Goto(q, label)
    BY <1>3 DEF Advance, ApproveLoad, ExpireOnApprove, ReconcileSession, ReconcileGrant,
         ApproveGrant, ApproveSession, ClaimGrant, CheckIdempotency, ReserveKey, Dispatch,
         SettleIdempotency, SettleGrant, SettleSession, RejectLoad, RejectSession, RejectGrant,
         PersistEvent, PersistAt
  <2> QED
    BY <2>1, <1>3, GotoEffect
<1>4. CASE Advance(r)
  <2>1. CASE ApproveGrant(r)
    BY <2>1, GotoEffect DEF ApproveGrant, ApproverPC
  <2>2. CASE ApproveSession(r) \/ PersistEvent(r)
    <3>1. CASE pc[r] \in ApproverPC
      BY <3>1
    <3>2. CASE pc[r] \notin ApproverPC
      <4>1. PICK label : Goto(r, label) /\ label \notin ApproverPC
        BY <2>2, <3>2 DEF ApproveSession, PersistEvent, PersistAt, At, ApproverPC
      <4> QED
        BY <4>1, GotoEffect
    <3> QED
      BY <3>1, <3>2
  <2>3. CASE ~ApproveGrant(r) /\ ~ApproveSession(r) /\ ~PersistEvent(r)
    <3>1. PICK label : Goto(r, label) /\ label \notin ApproverPC
      BY <1>4, <2>3 DEF Advance, ApproveLoad, ExpireOnApprove, ReconcileSession, ReconcileGrant,
         ClaimGrant, CheckIdempotency, ReserveKey, Dispatch, SettleIdempotency, SettleGrant,
         SettleSession, RejectLoad, RejectSession, RejectGrant, ApproverPC
    <3> QED
      BY <3>1, GotoEffect
  <2> QED
    BY <2>1, <2>2, <2>3
<1> QED
  BY <1>2, <1>3, <1>4, StepSplit

\* The approver's name and the rejected session stay.
LEMMA RefusalStep ==
  TypeOK /\ VersionInv /\ ApproverInv /\ RowInv /\ TrailInv /\ RefusalInv /\ [Next]_vars => RefusalInv'
<1> SUFFICES ASSUME TypeOK, VersionInv, ApproverInv, RowInv, TrailInv, RefusalInv, [Next]_vars
             PROVE  RefusalInv'
  OBVIOUS
<1>0. UNCHANGED <<sid, actor>> /\ \A r \in Requests : sid[r] \in Sessions
  BY StepKinds, RowTypes
<1>1. ASSUME NEW r \in Requests, pc'[r] \in ApproverPC
      PROVE  grant'[sid[r]].approving_actor_id = actor[r]
  <2>1. CASE ApproveGrant(r) /\ Approvable(sid[r])
    BY <1>0, <2>1 DEF ApproveGrant, approve_pending, TypeOK, GrantTypeOK, GrantRecord
  <2>2. CASE pc[r] \in ApproverPC
    <3>1. ~Approvable(sid[r])
      BY <2>2 DEF ApproverInv, Approvable
    <3> QED
      BY <1>0, <2>2, <3>1, ActorKept DEF RefusalInv
  <2> QED
    BY <1>1, <2>1, <2>2, ApproverOrigin
<1>2. ASSUME NEW s \in Sessions, grant'[s].status = "REJECTED"
      PROVE  hitl'[s].status = "REJECTED"
  <2>1. hitl[s].status = "REJECTED"
    <3>1. ASSUME NEW r \in Requests, RejectGrant(r), sid[r] = s PROVE hitl[s].status = "REJECTED"
      BY <3>1 DEF RejectGrant, At, TrailInv
    <3>2. ASSUME NEW r \in Requests, ApproveGrant(r), sid[r] = s, Approvable(s) PROVE FALSE
      BY <1>2, <3>2 DEF ApproveGrant, approve_pending, TypeOK, GrantTypeOK, GrantRecord
    <3> QED
      BY <1>2, <3>1, <3>2, ActorKept DEF RefusalInv
  <2> QED
    BY <2>1, SessionMoves DEF SessionMove
<1> QED
  BY <1>0, <1>1, <1>2 DEF RefusalInv

\* What the result of a request rests on stays: records of success, passed deadlines,
\* and results themselves.
LEMMA ReasonsKept ==
  ASSUME TablesInv, [Next]_vars
  PROVE  /\ late \subseteq late'
         /\ \A k \in Keys : idem[k] = "SUCCEEDED" => idem'[k] = "SUCCEEDED"
         /\ \A r \in Requests : pc[r] \in Results => pc'[r] = pc[r] /\ ver'[r] = ver[r]
<1>0. TypeOK /\ \A r \in Requests : sid[r] \in Sessions
  BY RowTypes DEF TablesInv
<1>1. late \subseteq late'
  BY DEF Next, Advance, ApproveLoad, ExpireOnApprove, ReconcileSession, ReconcileGrant,
     ApproveGrant, ApproveSession, ClaimGrant, CheckIdempotency, ReserveKey, Dispatch,
     SettleIdempotency, SettleGrant, SettleSession, RejectLoad, RejectSession, RejectGrant,
     PersistEvent, StartApprove, StartReject, CrashRequest, InsertSession, InsertGrant,
     CrashCreating, Clock, DeadlinePasses, SweepExpired, vars
<1>2. ASSUME NEW k \in Keys, idem[k] = "SUCCEEDED" PROVE idem'[k] = "SUCCEEDED"
  <2>1. idem' = idem \/ \E r \in Requests : ReserveKey(r) \/ SettleIdempotency(r)
    BY DEF Next, Advance, ApproveLoad, ExpireOnApprove, ReconcileSession, ReconcileGrant,
       ApproveGrant, ApproveSession, ClaimGrant, CheckIdempotency, Dispatch, SettleGrant,
       SettleSession, RejectLoad, RejectSession, RejectGrant, PersistEvent, StartApprove,
       StartReject, CrashRequest, InsertSession, InsertGrant, CrashCreating, Clock, SweepExpired, vars
  <2>2. ASSUME NEW r \in Requests, ReserveKey(r) \/ SettleIdempotency(r) PROVE idem'[k] = "SUCCEEDED"
    <3>1. idem[IdemKey(sid[r])] # "SUCCEEDED"
      BY <2>2 DEF ReserveKey, SettleIdempotency, At, TablesInv, RecordInv, RequestRecord
    <3>2. PICK from, to : SetStatus(IdemKey(sid[r]), from, to)
      BY <2>2 DEF ReserveKey, SettleIdempotency, reserve, mark_succeeded, idem_mark_failed,
                  idem_mark_unknown
    <3> QED
      BY <1>0, <1>2, <3>1, <3>2 DEF SetStatus, TypeOK, IdempotencyTypeOK
  <2> QED
    BY <1>2, <2>1, <2>2
<1>3. ASSUME NEW r \in Requests, pc[r] \in Results PROVE pc'[r] = pc[r] /\ ver'[r] = ver[r]
  <2>1. ASSUME NEW q \in Requests, StartApprove(q) \/ StartReject(q) \/ CrashRequest(q) \/ Advance(q)
        PROVE  q # r /\ \E label : Goto(q, label)
    <3>1. \E label : Goto(q, label)
      BY <2>1 DEF StartApprove, StartReject, CrashRequest, Advance, ApproveLoad, ExpireOnApprove,
         ReconcileSession, ReconcileGrant, ApproveGrant, ApproveSession, ClaimGrant,
         CheckIdempotency, ReserveKey, Dispatch, SettleIdempotency, SettleGrant, SettleSession,
         RejectLoad, RejectSession, RejectGrant, PersistEvent, PersistAt
    <3>2. pc[q] \notin Results
      BY <2>1 DEF StartApprove, StartReject, CrashRequest, Advance, ApproveLoad, ExpireOnApprove,
         ReconcileSession, ReconcileGrant, ApproveGrant, ApproveSession, ClaimGrant,
         CheckIdempotency, ReserveKey, Dispatch, SettleIdempotency, SettleGrant, SettleSession,
         RejectLoad, RejectSession, RejectGrant, PersistEvent, PersistAt, At, Results
    <3> QED
      BY <1>3, <3>1, <3>2
  <2>2. pc'[r] = pc[r]
    BY <1>0, <2>1, GotoEffect
       DEF Next, InsertSession, InsertGrant, Clock, CrashCreating, SweepExpired, vars, reqVars
  <2>3. ver' = ver \/ \E q \in Requests, v \in Nat : q # r /\ ver' = [ver EXCEPT ![q] = v]
    BY <1>0, <2>1, RowTypes
       DEF Next, Advance, ApproveLoad, ExpireOnApprove, ReconcileSession, ReconcileGrant,
       ApproveGrant, ApproveSession, ClaimGrant, CheckIdempotency, ReserveKey, Dispatch,
       SettleIdempotency, SettleGrant, SettleSession, RejectLoad, RejectSession, RejectGrant,
       PersistEvent, StartApprove, StartReject, CrashRequest, InsertSession, InsertGrant,
       CrashCreating, Clock, SweepExpired, vars, reqVars
  <2> QED
    BY <1>0, <2>2, <2>3 DEF TypeOK
<1> QED
  BY <1>1, <1>2, <1>3

\* The next step of a request that owns the row: on to the next await, settled, or
\* ended for one of the three reasons.
LEMMA OwnerAdvances ==
  ASSUME TablesInv, RefusalInv, NEW r \in Requests, pc[r] \in OwningPC, Advance(r)
  PROVE  \/ pc'[r] \in OwningPC
         \/ hitl'[sid[r]].status # "APPROVED"
         \/ pc'[r] = "error" /\ sid[r] \in late /\ grant'[sid[r]].status \notin ClaimedStatus
         \/ pc'[r] = "approved" /\ IdemKey(sid[r]) \in Keys /\ idem[IdemKey(sid[r])] = "SUCCEEDED"
<1> USE DEF OwningPC, ClaimedPC
<1>0. TypeOK /\ sid[r] \in Sessions
  BY RowTypes DEF TablesInv
<1>1. CASE ClaimGrant(r)
  <2>1. pc[r] = "claim" /\ UNCHANGED hitl
    BY <1>1 DEF ClaimGrant, At
  <2>2. hitl[sid[r]].status = "APPROVED" /\ grant[sid[r]].approving_actor_id = actor[r]
    BY <2>1 DEF TablesInv, RowInv, RowIsApproved, RefusalInv, ApproverPC
  <2>3. grant[sid[r]].status = "APPROVED"
    BY <1>0, <2>1, <2>2 DEF TablesInv, ApproverInv, ApproverPC, RefusalInv
  <2>4. CASE Claimable(sid[r], actor[r])
    BY <1>0, <1>1, <2>4, GotoEffect DEF ClaimGrant
  <2>5. CASE ~Claimable(sid[r], actor[r])
    <3>1. Goto(r, "error") /\ grant' = grant
      BY <1>1, <2>5 DEF ClaimGrant, atomic_consume
    <3>2. sid[r] \in late
      BY <2>2, <2>3, <2>5 DEF Claimable, is_expired
    <3> QED
      BY <1>0, <2>3, <3>1, <3>2, GotoEffect DEF ClaimedStatus
  <2> QED
    BY <2>4, <2>5
<1>2. CASE CheckIdempotency(r)
  <2>1. pc[r] = "idem_get"
    BY <1>2 DEF CheckIdempotency, At
  <2>2. hitl[sid[r]].tool_call_id \in ToolIds
    BY <2>1 DEF TablesInv, OriginInv, KnownOperation, DecidedPC
  <2>3. IdemKey(sid[r]) \in Keys
    BY <1>0, <2>2 DEF IdemKey, Keys
  <2> QED
    BY <1>0, <1>2, <2>3, GotoEffect DEF CheckIdempotency
<1>3. CASE SettleSession(r)
  <2>1. hitl[sid[r]].status = "APPROVED" /\ hitl[sid[r]].version = ver[r] + 1
    BY DEF TablesInv, RowInv, RowIsApproved
  <2>2. VersionMatches(sid[r], ver[r] + 1)
    BY <2>1 DEF VersionMatches, Exists
  <2> QED
    BY <1>0, <1>3, <2>2, UpdateEffect DEF SettleSession
<1>4. CASE ReserveKey(r) \/ Dispatch(r) \/ SettleIdempotency(r) \/ SettleGrant(r)
  BY <1>0, <1>4, GotoEffect DEF ReserveKey, Dispatch, SettleIdempotency, SettleGrant
<1>5. CASE PersistEvent(r)
  <2>1. PICK label \in {"claim", "idem_get", "dispatch"} : Goto(r, label)
    BY <1>5 DEF PersistEvent, PersistAt, At
  <2> QED
    BY <1>0, <2>1, GotoEffect
<1> QED
  BY <1>1, <1>2, <1>3, <1>4, <1>5
     DEF Advance, At, ApproveLoad, ExpireOnApprove, ReconcileSession, ReconcileGrant, ApproveGrant,
         ApproveSession, RejectLoad, RejectSession, RejectGrant

\* The same for any step of the system.
LEMMA OwnerMoves ==
  ASSUME TablesInv, RefusalInv, [Next]_vars, NEW r \in Requests, pc[r] \in OwningPC
  PROVE  /\ ver'[r] = ver[r]
         /\ \/ pc'[r] \in OwningPC \cup {"crashed"}
            \/ hitl'[sid[r]].status # "APPROVED"
            \/ pc'[r] = "error" /\ sid[r] \in late /\ grant'[sid[r]].status \notin ClaimedStatus
            \/ pc'[r] = "approved" /\ IdemKey(sid[r]) \in Keys /\ idem[IdemKey(sid[r])] = "SUCCEEDED"
<1>0. TypeOK
  BY DEF TablesInv
<1>1. ver'[r] = ver[r]
  <2>1. ver' = ver \/ \E q \in Requests : ApproveLoad(q) \/ RejectLoad(q)
    BY DEF Next, Advance, ExpireOnApprove, ReconcileSession, ReconcileGrant, ApproveGrant,
       ApproveSession, ClaimGrant, CheckIdempotency, ReserveKey, Dispatch, SettleIdempotency,
       SettleGrant, SettleSession, RejectSession, RejectGrant, PersistEvent, StartApprove,
       StartReject, CrashRequest, InsertSession, InsertGrant, CrashCreating, Clock, SweepExpired,
       vars, reqVars
  <2>2. ASSUME NEW q \in Requests, ApproveLoad(q) \/ RejectLoad(q) PROVE ver'[r] = ver[r]
    BY <1>0, <2>2 DEF ApproveLoad, RejectLoad, At, OwningPC, ClaimedPC, TypeOK
  <2> QED
    BY <2>1, <2>2
<1>2. ASSUME NEW q \in Requests, StartApprove(q) \/ StartReject(q) \/ CrashRequest(q)
      PROVE  pc'[r] \in OwningPC \cup {"crashed"}
  <2>1. \/ Goto(q, "crashed")
        \/ q # r /\ \E label : Goto(q, label)
    BY <1>2 DEF StartApprove, StartReject, CrashRequest, At, OwningPC, ClaimedPC
  <2> QED
    BY <1>0, <2>1, GotoEffect
<1>3. CASE EnvStep
  <2>1. UNCHANGED pc \/ \E q \in Requests : StartApprove(q) \/ StartReject(q) \/ CrashRequest(q)
    BY <1>3 DEF EnvStep, InsertSession, InsertGrant, Clock, CrashCreating, SweepExpired, vars, reqVars
  <2> QED
    BY <1>1, <1>2, <2>1
<1>4. ASSUME NEW q \in Requests, Advance(q), q # r PROVE pc'[r] = pc[r]
  <2>1. PICK label : Goto(q, label)
    BY <1>4 DEF Advance, ApproveLoad, ExpireOnApprove, ReconcileSession, ReconcileGrant,
         ApproveGrant, ApproveSession, ClaimGrant, CheckIdempotency, ReserveKey, Dispatch,
         SettleIdempotency, SettleGrant, SettleSession, RejectLoad, RejectSession, RejectGrant,
         PersistEvent, PersistAt
  <2> QED
    BY <1>0, <1>4, <2>1, GotoEffect
<1> QED
  BY <1>1, <1>3, <1>4, StepSplit, OwnerAdvances

\* A session becomes APPROVED by ApproveSession only, whose request then owns the row.
LEMMA ApprovalOrigin ==
  ASSUME TablesInv, [Next]_vars, NEW s \in Sessions,
         hitl[s].status # "APPROVED", hitl'[s].status = "APPROVED"
  PROVE  \E r \in Requests : Settler(s, r)'
<1>0. TypeOK /\ \A r \in Requests : sid[r] \in Sessions /\ ver[r] \in Nat
  BY RowTypes DEF TablesInv
<1>1. ASSUME NEW r \in Requests, NEW status, NEW v, status # "APPROVED", update_status(sid[r], status, v)
      PROVE  FALSE
  BY <1>0, <1>1, UpdateEffect
<1>2. ASSUME NEW r \in Requests, ApproveSession(r) PROVE Settler(s, r)'
  <2>1. /\ update_status(sid[r], "APPROVED", ver[r]) /\ UNCHANGED <<sid, ver>>
        /\ Goto(r, IF VersionMatches(sid[r], ver[r]) THEN "ev_granted" ELSE "error")
    BY <1>2 DEF ApproveSession
  <2>2. /\ VersionMatches(sid[r], ver[r]) /\ sid[r] = s
        /\ hitl'[s].version = hitl[s].version + 1
    BY <1>0, <2>1, UpdateEffect
  <2>3. pc'[r] = "ev_granted"
    BY <1>0, <2>1, <2>2, GotoEffect
  <2> QED
    BY <2>1, <2>2, <2>3 DEF Settler, OwningPC, VersionMatches
<1>3. ASSUME NEW r \in Requests, Advance(r) PROVE \E q \in Requests : Settler(s, q)'
  <2>1. CASE ExpireOnApprove(r)
    BY <2>1, <1>1 DEF ExpireOnApprove
  <2>2. CASE ReconcileSession(r)
    BY <2>2, <1>1 DEF ReconcileSession
  <2>3. CASE RejectSession(r)
    BY <2>3, <1>1 DEF RejectSession
  <2>4. CASE SettleSession(r)
    BY <2>4, <1>1 DEF SettleSession
  <2> QED
    BY <1>2, <1>3, <2>1, <2>2, <2>3, <2>4
       DEF Advance, ApproveLoad, ReconcileGrant, ApproveGrant, ClaimGrant, CheckIdempotency,
           ReserveKey, Dispatch, SettleIdempotency, SettleGrant, RejectLoad, RejectGrant, PersistEvent
<1>4. ~EnvStep
  <2>1. ASSUME NEW x \in Sessions, NEW tid, InsertSession(x, tid) PROVE FALSE
    BY <1>0, <2>1 DEF InsertSession, HITLInsert, TypeOK, HITLTypeOK
  <2>2. CASE SweepExpired
    BY <1>0, <2>2 DEF SweepExpired, expire_stale_sessions, TypeOK, HITLTypeOK, HITLSession
  <2> QED
    BY <2>1, <2>2 DEF EnvStep, StartApprove, StartReject, CrashRequest, InsertGrant, Clock, CrashCreating, vars
<1> QED
  BY <1>3, <1>4, StepSplit

\* Whatever approvals, rejections, sweeps, deadlines and crashes do, an approved session
\* is being settled, or one of the three reasons holds.  It is the safety half of
\* ApprovedSessionSettles, whose run excludes the three.
THEOREM ApprovedSessionHasSettler == Spec => []UnsettledIsExplained
<1>1. Init => RefusalInv /\ UnsettledIsExplained
  BY DEF Init, HITLInit, GrantInit, NoSession, NoGrant, RefusalInv, UnsettledIsExplained, ApproverPC
<1>2. TablesInv /\ RefusalInv /\ [Next]_vars => RefusalInv'
  BY RefusalStep DEF TablesInv
<1>3. TablesInv /\ RefusalInv /\ UnsettledIsExplained /\ [Next]_vars => UnsettledIsExplained'
  <2> SUFFICES ASSUME TablesInv, RefusalInv, UnsettledIsExplained, [Next]_vars,
                      NEW s \in Sessions, hitl'[s].status = "APPROVED"
               PROVE  \E r \in Requests : Settler(s, r)'
    BY DEF UnsettledIsExplained
  <2>1. CASE hitl[s].status # "APPROVED"
    BY <2>1, ApprovalOrigin
  <2>2. CASE hitl[s].status = "APPROVED"
    <3>1. PICK r \in Requests : Settler(s, r)
      BY <2>2 DEF UnsettledIsExplained
    <3>2. TypeOK /\ sid' = sid
      BY StepKinds DEF TablesInv
    <3>3. hitl'[s] = hitl[s]
      <4>1. SessionMove(s)
        BY SessionMoves DEF TablesInv
      <4> QED
        BY <2>2, <4>1 DEF SessionMove
    <3>4. IdemKey(s)' = IdemKey(s)
      BY <3>3 DEF IdemKey
    <3>5. IdemKey(s) \in Keys /\ idem[IdemKey(s)] = "SUCCEEDED" => idem'[IdemKey(s)] = "SUCCEEDED"
      BY ReasonsKept
    <3>6. s \in late /\ grant[s].status \notin ClaimedStatus =>
            s \in late' /\ grant'[s].status \notin ClaimedStatus
      BY <3>2, ReasonsKept, GrantMoves DEF is_expired
    <3>7. CASE pc[r] \in Results
      BY <3>1, <3>2, <3>3, <3>4, <3>5, <3>6, <3>7, ReasonsKept
         DEF Settler, Results, OwningPC, ClaimedPC
    <3>8. CASE pc[r] \in OwningPC
      BY <3>1, <3>2, <3>3, <3>4, <3>5, <3>8, OwnerMoves, ReasonsKept DEF Settler
    <3> QED
      BY <3>1, <3>7, <3>8 DEF Settler, Results
  <2> QED
    BY <2>1, <2>2
<1> QED
  BY <1>1, <1>2, <1>3, TablesInvariant, PTL DEF Spec

=============================================================================
