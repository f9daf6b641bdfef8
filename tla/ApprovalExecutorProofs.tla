----------------------- MODULE ApprovalExecutorProofs -----------------------
(***************************************************************************)
(* Proofs about ApprovalExecutor for any sessions, tool call ids, actors   *)
(* and any number of concurrent approvals and rejections, with crashes,    *)
(* sweeps and deadlines at any point.                                      *)
(***************************************************************************)
EXTENDS ApprovalExecutor, TLAPS

-----------------------------------------------------------------------------
(* Type correctness                                                        *)

\* What each kind of statement does to the type of its table.

\* The optimistic update of a session row keeps the type of the table.
LEMMA UpdateStatusType ==
  ASSUME hitl \in [Sessions -> HITLSession], NEW s \in Sessions,
         NEW status \in HITLSessionStatus, NEW v, update_status(s, status, v)
  PROVE  hitl' \in [Sessions -> HITLSession]
<1>1. hitl[s] \in HITLSession
  OBVIOUS
<1>2. hitl[s].version + 1 \in Nat /\ hitl[s].tool_call_id \in ToolIds \cup {NoId}
  BY <1>1 DEF HITLSession
<1>3. SetStatusOf(s, status) \in [Sessions -> HITLSession]
  BY <1>2 DEF HITLSession, SetStatusOf
<1> QED
  BY <1>3 DEF update_status

\* So does every conditional UPDATE of a grant row,
LEMMA MarkType ==
  ASSUME GrantTypeOK, NEW s \in Sessions, NEW from, NEW to \in GrantStatus, Mark(s, from, to)
  PROVE  GrantTypeOK'
BY DEF GrantTypeOK, Mark, GrantRecord

\* and every status change of an idempotency record.
LEMMA SetStatusType ==
  ASSUME IdempotencyTypeOK, NEW k, NEW from, NEW to \in IdempotencyStatus,
         SetStatus(k, from, to), UNCHANGED dispatched
  PROVE  IdempotencyTypeOK'
BY DEF IdempotencyTypeOK, SetStatus

\* Counting a tool call keeps the type of the counters.
LEMMA CallToolType ==
  ASSUME IdempotencyTypeOK, NEW k, call_tool(k), UNCHANGED idem
  PROVE  IdempotencyTypeOK'
<1>1. k \in Keys => dispatched[k] + 1 \in Nat
  BY DEF IdempotencyTypeOK
<1> QED
  BY <1>1 DEF IdempotencyTypeOK, call_tool

\* An insert into the event table keeps its type, also when it is refused.
LEMMA PersistEventType ==
  ASSUME EventTypeOK, NEW s \in Sessions, NEW q \in Seqs, NEW kind \in EventKind,
         persist_event(s, q, kind)
  PROVE  EventTypeOK'
BY DEF EventTypeOK, persist_event

\* A request only moves to known labels.
LEMMA GotoType ==
  ASSUME pc \in [Requests -> PC], NEW r \in Requests, NEW label \in PC, Goto(r, label)
  PROVE  pc' \in [Requests -> PC]
BY DEF Goto

\* Every step of a request keeps the type of its own variables and of the tables.
LEMMA AdvanceType ==
  ASSUME TypeOK, NEW r \in Requests, Advance(r)
  PROVE  TypeOK'
<1> DEFINE s == sid[r]
<1> USE GrantRepoAssumption
<1>0. s \in Sessions
  BY DEF TypeOK
<1>a. ASSUME NEW label \in PC, Goto(r, label),
             HITLTypeOK', GrantTypeOK', IdempotencyTypeOK', EventTypeOK',
             UNCHANGED <<creating, sid, actor>>,
             ver' \in [Requests -> Nat], out' \in [Requests -> Outcomes]
      PROVE  TypeOK'
  BY <1>a, GotoType DEF TypeOK
<1>b. UNCHANGED <<hitl, late>> => HITLTypeOK'
  BY DEF TypeOK, HITLTypeOK
<1>c. UNCHANGED grant => GrantTypeOK'
  BY DEF TypeOK, GrantTypeOK
<1>d. UNCHANGED <<idem, dispatched>> => IdempotencyTypeOK'
  BY DEF TypeOK, IdempotencyTypeOK
<1>e. UNCHANGED events => EventTypeOK'
  BY DEF TypeOK, EventTypeOK
<1>f. /\ UNCHANGED ver => ver' \in [Requests -> Nat]
      /\ UNCHANGED out => out' \in [Requests -> Outcomes]
  BY DEF TypeOK
<1>g. ASSUME NEW status \in HITLSessionStatus, NEW v, update_status(s, status, v), UNCHANGED late
      PROVE  HITLTypeOK'
  BY <1>0, <1>g, UpdateStatusType DEF TypeOK, HITLTypeOK
<1>1. CASE ApproveLoad(r)
  <2>1. PICK label \in {"error", "expire", "recon_hitl", "approve_grant"} : Goto(r, label)
    BY <1>1 DEF ApproveLoad
  <2>2. label \in PC
    BY <2>1 DEF PC, ApprovePC, Results
  <2>3. hitl[s].version \in Nat
    BY <1>0 DEF TypeOK, HITLTypeOK, HITLSession
  <2>4. ver' \in [Requests -> Nat]
    BY <1>1, <2>3 DEF ApproveLoad, TypeOK
  <2> QED
    BY <1>1, <2>1, <2>2, <2>4, <1>a, <1>b, <1>c, <1>d, <1>e, <1>f DEF ApproveLoad
<1>2. CASE RejectLoad(r)
  <2>1. PICK label \in {"error", "reject_hitl"} : Goto(r, label)
    BY <1>2 DEF RejectLoad
  <2>2. label \in PC
    BY <2>1 DEF PC, RejectPC, Results
  <2>3. hitl[s].version \in Nat
    BY <1>0 DEF TypeOK, HITLTypeOK, HITLSession
  <2>4. ver' \in [Requests -> Nat]
    BY <1>2, <2>3 DEF RejectLoad, TypeOK
  <2> QED
    BY <1>2, <2>1, <2>2, <2>4, <1>a, <1>b, <1>c, <1>d, <1>e, <1>f DEF RejectLoad
<1>3. CASE ExpireOnApprove(r) \/ ReconcileSession(r) \/ ApproveSession(r) \/ SettleSession(r)
           \/ RejectSession(r)
  <2>1. PICK status \in {"EXPIRED", "RECONCILIATION_REQUIRED", "APPROVED", "RESUMED", "FAILED",
                         "REJECTED"} : \E v \in Nat : update_status(s, status, v)
    BY <1>3 DEF ExpireOnApprove, ReconcileSession, ApproveSession, SettleSession, RejectSession,
                TypeOK
  <2>2. HITLTypeOK'
    BY <1>3, <2>1, <1>g DEF HITLSessionStatus, ExpireOnApprove, ReconcileSession, ApproveSession,
                            SettleSession, RejectSession
  <2>3. PICK label \in {"error", "recon_grant", "ev_granted", "ev_settled", "reject_grant"} :
          Goto(r, label)
    BY <1>3 DEF ExpireOnApprove, ReconcileSession, ApproveSession, SettleSession, RejectSession
  <2>4. label \in PC
    BY <2>3 DEF PC, ApprovePC, SettlingPC, RejectPC, Results
  <2> QED
    BY <1>3, <2>2, <2>3, <2>4, <1>a, <1>c, <1>d, <1>e, <1>f
       DEF ExpireOnApprove, ReconcileSession, ApproveSession, SettleSession, RejectSession
<1>4. CASE ReconcileGrant(r) \/ SettleGrant(r) \/ RejectGrant(r)
  <2>1. PICK from \in SUBSET GrantStatus, to \in GrantStatus : Mark(s, from, to)
    BY <1>4 DEF ReconcileGrant, SettleGrant, RejectGrant, mark_reconciliation_required,
                mark_consumed, grant_mark_failed, grant_mark_unknown, mark_rejected, GrantStatus
  <2>2. GrantTypeOK'
    BY <2>1, <1>0, MarkType DEF TypeOK
  <2>3. PICK label \in {"ev_recon", "settle_hitl", "ev_rejected"} : Goto(r, label)
    BY <1>4 DEF ReconcileGrant, SettleGrant, RejectGrant
  <2>4. label \in PC
    BY <2>3 DEF PC, ApprovePC, SettlingPC, RejectPC
  <2> QED
    BY <1>4, <2>2, <2>3, <2>4, <1>a, <1>b, <1>d, <1>e, <1>f
       DEF ReconcileGrant, SettleGrant, RejectGrant
<1>5. CASE ApproveGrant(r) \/ ClaimGrant(r)
  <2>1. GrantTypeOK'
    BY <1>5, <1>0 DEF ApproveGrant, ClaimGrant, approve_pending, atomic_consume, TypeOK,
                      GrantTypeOK, GrantRecord, GrantStatus
  <2>2. PICK label \in {"approve_hitl", "ev_claimed", "error"} : Goto(r, label)
    BY <1>5 DEF ApproveGrant, ClaimGrant
  <2>3. label \in PC
    BY <2>2 DEF PC, ApprovePC, ClaimedPC, Results
  <2> QED
    BY <1>5, <2>1, <2>2, <2>3, <1>a, <1>b, <1>d, <1>e, <1>f DEF ApproveGrant, ClaimGrant
<1>6. CASE CheckIdempotency(r)
  <2>1. PICK label \in {"approved", "settle_grant", "idem_reserve"} : Goto(r, label)
    BY <1>6 DEF CheckIdempotency
  <2>2. label \in PC
    BY <2>1 DEF PC, ApprovePC, ClaimedPC, SettlingPC, Results
  <2>3. out' \in [Requests -> Outcomes]
    BY <1>6 DEF CheckIdempotency, TypeOK, Outcomes
  <2> QED
    BY <1>6, <2>1, <2>2, <2>3, <1>a, <1>b, <1>c, <1>d, <1>e, <1>f DEF CheckIdempotency
<1>7. CASE ReserveKey(r) \/ SettleIdempotency(r)
  <2>1. PICK from \in SUBSET (IdempotencyStatus \cup {"NONE"}), to \in IdempotencyStatus :
          SetStatus(IdemKey(s), from, to)
    BY <1>7 DEF ReserveKey, SettleIdempotency, reserve, mark_succeeded, idem_mark_failed,
                idem_mark_unknown, IdempotencyStatus
  <2>2. IdempotencyTypeOK'
    BY <1>7, <2>1, SetStatusType DEF ReserveKey, SettleIdempotency, TypeOK
  <2>3. PICK label \in {"ev_dispatch", "settle_grant"} : Goto(r, label)
    BY <1>7 DEF ReserveKey, SettleIdempotency
  <2>4. label \in PC
    BY <2>3 DEF PC, ApprovePC, ClaimedPC, SettlingPC
  <2> QED
    BY <1>7, <2>2, <2>3, <2>4, <1>a, <1>b, <1>c, <1>e, <1>f DEF ReserveKey, SettleIdempotency
<1>8. CASE Dispatch(r)
  <2>1. IdempotencyTypeOK'
    BY <1>8, CallToolType DEF Dispatch, TypeOK
  <2>2. out' \in [Requests -> Outcomes]
    BY <1>8 DEF Dispatch, TypeOK, Outcomes
  <2>3. "settle_idem" \in PC
    BY DEF PC, ApprovePC, SettlingPC
  <2> QED
    BY <1>8, <2>1, <2>2, <2>3, <1>a, <1>b, <1>c, <1>e, <1>f DEF Dispatch
<1>9. CASE PersistEvent(r)
  <2>0. OutcomeEvent[out[r]] \in EventKind
    BY DEF TypeOK, Outcomes, OutcomeEvent, EventKind
  <2>1. PICK label \in {"reconciliation_required", "claim", "idem_get", "dispatch", "approved",
                        "error", "rejected"}, q \in Seqs, kind \in EventKind :
          Goto(r, label) /\ persist_event(s, q, kind)
    BY <1>9, <2>0 DEF PersistEvent, PersistAt, EventKind, Seqs
  <2>2. label \in PC
    BY <2>1 DEF PC, ApprovePC, ClaimedPC, Results
  <2>3. EventTypeOK'
    BY <2>1, <1>0, PersistEventType DEF TypeOK
  <2> QED
    BY <1>9, <2>1, <2>2, <2>3, <1>a, <1>b, <1>c, <1>d, <1>f DEF PersistEvent
<1> QED
  BY <1>1, <1>2, <1>3, <1>4, <1>5, <1>6, <1>7, <1>8, <1>9 DEF Advance


\* The other steps: requests that start or die, the inserts, the sweep, the clock.
LEMMA TypeStep == TypeOK /\ [Next]_vars => TypeOK'
<1> SUFFICES ASSUME TypeOK, [Next]_vars PROVE TypeOK'
  OBVIOUS
<1> USE DEF HITLTypeOK, GrantTypeOK, IdempotencyTypeOK, EventTypeOK
<1>1. ASSUME NEW r \in Requests, Advance(r) PROVE TypeOK'
  BY <1>1, AdvanceType
<1>2. ASSUME NEW r \in Requests, StartApprove(r) \/ StartReject(r) \/ CrashRequest(r)
      PROVE  TypeOK'
  BY <1>2 DEF StartApprove, StartReject, CrashRequest, Goto, TypeOK, PC, ApprovePC, RejectPC, Results
<1>3. ASSUME NEW s \in Sessions, NEW tid \in ToolIds \cup {NoId}, InsertSession(s, tid)
      PROVE  TypeOK'
  <2>1. [status |-> "PENDING", version |-> 1, tool_call_id |-> tid] \in HITLSession
    BY DEF HITLSession, HITLSessionStatus
  <2> QED
    BY <1>3, <2>1 DEF InsertSession, HITLInsert, TypeOK, reqVars
<1>4. ASSUME NEW s \in Sessions, InsertGrant(s) PROVE TypeOK'
  BY <1>4 DEF InsertGrant, insert_pending, TypeOK, reqVars, GrantRecord, GrantStatus
<1>5. ASSUME NEW s \in Sessions, CrashCreating(s) PROVE TypeOK'
  BY <1>5 DEF CrashCreating, TypeOK, reqVars
<1>6. ASSUME NEW s \in Sessions, Clock(s) PROVE TypeOK'
  BY <1>6 DEF Clock, DeadlinePasses, TypeOK, reqVars
<1>7. CASE SweepExpired
  <2>1. \A s \in Sessions : [hitl[s] EXCEPT !.status = "EXPIRED"] \in HITLSession
    BY DEF TypeOK, HITLSession, HITLSessionStatus
  <2> QED
    BY <1>7, <2>1 DEF SweepExpired, expire_stale_sessions, TypeOK, reqVars
<1>8. CASE UNCHANGED vars
  BY <1>8 DEF vars, reqVars, TypeOK
<1> QED
  BY <1>1, <1>2, <1>3, <1>4, <1>5, <1>6, <1>7, <1>8 DEF Next

\* The initial tables and requests are well typed.
LEMMA InitType == Init => TypeOK
<1> SUFFICES ASSUME Init PROVE TypeOK
  OBVIOUS
<1>1. HITLTypeOK
  BY DEF Init, HITLInit, HITLTypeOK, NoSession, HITLSession
<1>2. GrantTypeOK
  BY DEF Init, GrantInit, GrantTypeOK, NoGrant, GrantRecord
<1>3. IdempotencyTypeOK
  BY PriorAssumption DEF Init, IdempotencyTypeOK
<1>4. EventTypeOK
  <2>1. EmptyTrail \in [Seqs -> EventKind \cup {"NONE"}]
    BY DEF EmptyTrail
  <2>2. SuspendedTrail \in [Seqs -> EventKind \cup {"NONE"}]
    BY <2>1 DEF SuspendedTrail, RunTrail, EventKind
  <2> QED
    BY <2>1, <2>2 DEF Init, EventTypeOK
<1> QED
  BY <1>1, <1>2, <1>3, <1>4 DEF Init, TypeOK, PC, Outcomes

\* Every reachable state of the executor, its tables and its requests is well typed.
THEOREM TypeCorrect == Spec => []TypeOK
BY InitType, TypeStep, PTL DEF Spec


-----------------------------------------------------------------------------
(* At most one request holds a grant, and it sends the call at most once.  *)

\* Labels at which the grant the request has claimed is still CONSUMING.
UnsettledPC == ClaimedPC \cup {"settle_idem", "settle_grant"}

\* SingleClaimant and AtMostOnceDispatch are not inductive by themselves: the
\* claim is exclusive because a holder's grant has left APPROVED for good, and
\* the call is new because nothing is sent for a grant before it is claimed, nor
\* by its holder before the dispatch.
HoldersHaveClaimed ==
  \A r \in Requests :
    /\ pc[r] \in UnsettledPC => grant[sid[r]].status = "CONSUMING"
    /\ Holding(r) => grant[sid[r]].status \in ClaimedStatus

NothingSentBefore ==
  \A t \in ToolIds :
    /\ \A s \in Sessions : grant[s].status \notin ClaimedStatus => dispatched[<<s, t>>] = 0
    /\ \A r \in Requests : pc[r] \in ClaimedPC => dispatched[<<sid[r], t>>] = 0

ClaimInv ==
  HoldersHaveClaimed /\ SingleClaimant /\ NothingSentBefore /\ AtMostOnceDispatch

\* Nothing is claimed or sent initially.
LEMMA InitClaim == Init => ClaimInv
<1> SUFFICES ASSUME Init PROVE ClaimInv
  OBVIOUS
<1>1. \A r \in Requests : pc[r] \notin ClaimedPC \cup SettlingPC /\ pc[r] \notin UnsettledPC
  BY DEF Init, ClaimedPC, SettlingPC, UnsettledPC
<1>2. \A s \in Sessions, t \in ToolIds : dispatched[<<s, t>>] = 0
  BY DEF Init, Keys
<1>3. AtMostOnceDispatch
  BY DEF Init, AtMostOnceDispatch
<1> QED
  BY <1>1, <1>2, <1>3 DEF ClaimInv, HoldersHaveClaimed, SingleClaimant, NothingSentBefore, Holding

\* A step that sends nothing, lets nobody advance into the held labels and
\* touches the status of unclaimed grants only.
LEMMA CalmStep ==
  ASSUME ClaimInv, UNCHANGED <<dispatched, sid>>,
         \A r \in Requests :
           /\ pc'[r] \in ClaimedPC => pc[r] \in ClaimedPC
           /\ pc'[r] \in UnsettledPC => pc[r] \in UnsettledPC
           /\ pc'[r] \in ClaimedPC \cup SettlingPC => Holding(r),
         \A s \in Sessions :
           \/ grant'[s].status = grant[s].status
           \/ grant[s].status \notin ClaimedStatus /\ grant'[s].status \notin ClaimedStatus,
         sid \in [Requests -> Sessions]
  PROVE  ClaimInv'
<1>1. HoldersHaveClaimed'
  BY DEF ClaimInv, HoldersHaveClaimed, Holding, ClaimedStatus
<1>2. SingleClaimant'
  BY DEF ClaimInv, SingleClaimant, Holding
<1>3. NothingSentBefore'
  BY DEF ClaimInv, NothingSentBefore
<1>4. AtMostOnceDispatch'
  BY DEF ClaimInv, AtMostOnceDispatch
<1> QED
  BY <1>1, <1>2, <1>3, <1>4 DEF ClaimInv

\* atomic_consume succeeds for one request only: every earlier claim has moved
\* the grant away from APPROVED.
LEMMA ClaimStep ==
  ASSUME TypeOK, ClaimInv, NEW r \in Requests, ClaimGrant(r)
  PROVE  ClaimInv'
<1> DEFINE s == sid[r]
<1>0. s \in Sessions /\ sid \in [Requests -> Sessions] /\ grant \in [Sessions -> GrantRecord]
      /\ pc \in [Requests -> PC]
  BY DEF TypeOK, GrantTypeOK
<1>1. CASE ~Claimable(s, actor[r])
  <2>1. UNCHANGED <<grant, dispatched, sid>> /\ pc' = [pc EXCEPT ![r] = "error"]
    BY <1>1 DEF ClaimGrant, atomic_consume, Goto
  <2> QED
    BY <1>0, <2>1, CalmStep DEF ClaimedPC, SettlingPC, UnsettledPC, Holding
<1>2. CASE Claimable(s, actor[r])
  <2>1. /\ grant[s].status = "APPROVED"
        /\ grant' = [grant EXCEPT ![s].status = "CONSUMING"]
        /\ pc' = [pc EXCEPT ![r] = "ev_claimed"]
        /\ UNCHANGED <<dispatched, sid>>
    BY <1>2 DEF ClaimGrant, atomic_consume, Claimable, Goto
  <2>2. grant'[s].status = "CONSUMING" /\ \A x \in Sessions \ {s} : grant'[x] = grant[x]
    BY <1>0, <2>1 DEF GrantRecord
  <2>3. \A q \in Requests : Holding(q) => sid[q] # s
    BY <2>1 DEF ClaimInv, HoldersHaveClaimed, ClaimedStatus
  <2>4. \A q \in Requests \ {r} : pc'[q] = pc[q]
    BY <1>0, <2>1
  <2>5. pc'[r] = "ev_claimed"
    BY <1>0, <2>1
  <2>6. HoldersHaveClaimed'
    BY <1>0, <2>1, <2>2, <2>3, <2>4, <2>5
       DEF ClaimInv, HoldersHaveClaimed, Holding, ClaimedStatus, UnsettledPC, SettlingPC
  <2>7. SingleClaimant'
    BY <2>1, <2>3, <2>4 DEF ClaimInv, SingleClaimant, Holding
  <2>8. \A t \in ToolIds : dispatched[<<s, t>>] = 0
    BY <1>0, <2>1 DEF ClaimInv, NothingSentBefore, ClaimedStatus
  <2>9. NothingSentBefore'
    BY <1>0, <2>1, <2>2, <2>4, <2>8 DEF ClaimInv, NothingSentBefore
  <2>10. AtMostOnceDispatch'
    BY <2>1 DEF ClaimInv, AtMostOnceDispatch
  <2> QED
    BY <2>6, <2>7, <2>9, <2>10 DEF ClaimInv
<1> QED
  BY <1>1, <1>2

\* The holder moves from "nothing sent" to "sent once" and leaves ClaimedPC.
LEMMA DispatchStep ==
  ASSUME TypeOK, ClaimInv, NEW r \in Requests, Dispatch(r)
  PROVE  ClaimInv'
<1> DEFINE s == sid[r]
           k == IdemKey(s)
<1>0. /\ s \in Sessions /\ sid \in [Requests -> Sessions]
      /\ pc \in [Requests -> PC] /\ dispatched \in [Keys -> Nat]
  BY DEF TypeOK, IdempotencyTypeOK
<1>1. /\ pc[r] = "dispatch"
      /\ pc' = [pc EXCEPT ![r] = "settle_idem"]
      /\ dispatched' = [dispatched EXCEPT ![k] = @ + 1]
      /\ UNCHANGED <<grant, sid>>
  BY DEF Dispatch, At, Goto, call_tool
<1>2. pc'[r] = "settle_idem" /\ \A q \in Requests \ {r} : pc'[q] = pc[q]
  BY <1>0, <1>1
<1>3. Holding(r) /\ grant[s].status = "CONSUMING" /\ \A t \in ToolIds : dispatched[<<s, t>>] = 0
  BY <1>1 DEF ClaimInv, HoldersHaveClaimed, NothingSentBefore, Holding, ClaimedPC, UnsettledPC
<1>4. \A x \in Sessions, t \in ToolIds : x # s => dispatched'[<<x, t>>] = dispatched[<<x, t>>]
  BY <1>0, <1>1 DEF Keys, IdemKey
<1>5. \A q \in Requests \ {r} : Holding(q) => sid[q] # s
  BY <1>3 DEF ClaimInv, SingleClaimant
<1>6. HoldersHaveClaimed'
  BY <1>1, <1>2, <1>3 DEF ClaimInv, HoldersHaveClaimed, Holding, ClaimedStatus
<1>7. SingleClaimant'
  BY <1>1, <1>2, <1>3 DEF ClaimInv, SingleClaimant, Holding
<1>8. NothingSentBefore'
  <2>1. ASSUME NEW t \in ToolIds, NEW x \in Sessions, grant'[x].status \notin ClaimedStatus
        PROVE  dispatched'[<<x, t>>] = 0
    BY <2>1, <1>1, <1>3, <1>4 DEF ClaimInv, NothingSentBefore, ClaimedStatus
  <2>2. ASSUME NEW t \in ToolIds, NEW q \in Requests, pc'[q] \in ClaimedPC
        PROVE  dispatched'[<<sid'[q], t>>] = 0
    <3>1. q # r /\ pc[q] \in ClaimedPC
      BY <2>2, <1>2 DEF ClaimedPC
    <3>2. sid[q] # s /\ sid[q] \in Sessions
      BY <3>1, <1>0, <1>5 DEF Holding
    <3> QED
      BY <3>1, <3>2, <1>1, <1>4 DEF ClaimInv, NothingSentBefore
  <2> QED
    BY <2>1, <2>2 DEF NothingSentBefore
<1>9. AtMostOnceDispatch'
  <2> SUFFICES ASSUME NEW j \in Keys PROVE dispatched'[j] <= 1
    BY DEF AtMostOnceDispatch
  <2>1. CASE j # k
    BY <2>1, <1>0, <1>1 DEF ClaimInv, AtMostOnceDispatch
  <2>2. CASE j = k
    <3>1. PICK x \in Sessions, t \in ToolIds : j = <<x, t>>
      BY DEF Keys
    <3>2. x = s
      BY <2>2, <3>1 DEF IdemKey
    <3>3. dispatched[j] = 0
      BY <3>1, <3>2, <1>3
    <3> QED
      BY <2>2, <3>3, <1>0, <1>1
  <2> QED
    BY <2>1, <2>2
<1> QED
  BY <1>6, <1>7, <1>8, <1>9 DEF ClaimInv


\* The holder, alone with its grant, books the outcome and leaves UnsettledPC.
LEMMA SettleStep ==
  ASSUME TypeOK, ClaimInv, NEW r \in Requests, SettleGrant(r)
  PROVE  ClaimInv'
<1> DEFINE s == sid[r]
<1>0. /\ s \in Sessions /\ sid \in [Requests -> Sessions]
      /\ pc \in [Requests -> PC] /\ grant \in [Sessions -> GrantRecord]
  BY DEF TypeOK, GrantTypeOK
<1>1. /\ pc[r] = "settle_grant"
      /\ pc' = [pc EXCEPT ![r] = "settle_hitl"]
      /\ UNCHANGED <<dispatched, sid>>
  BY DEF SettleGrant, At, Goto
<1>2. PICK to \in {"CONSUMED", "FAILED", "UNKNOWN"} : Mark(s, {"CONSUMING"}, to)
  BY DEF SettleGrant, mark_consumed, grant_mark_failed, grant_mark_unknown
<1>3. Holding(r) /\ grant[s].status = "CONSUMING"
  BY <1>1 DEF ClaimInv, HoldersHaveClaimed, Holding, UnsettledPC, SettlingPC
<1>4. grant'[s].status = to /\ \A x \in Sessions \ {s} : grant'[x] = grant[x]
  BY <1>0, <1>2, <1>3 DEF Mark, GrantRecord
<1>5. pc'[r] = "settle_hitl" /\ \A q \in Requests \ {r} : pc'[q] = pc[q]
  BY <1>0, <1>1
<1>6. \A q \in Requests \ {r} : Holding(q) => sid[q] # s
  BY <1>3 DEF ClaimInv, SingleClaimant
<1>7. \A x \in Sessions : grant'[x].status \notin ClaimedStatus => grant[x].status \notin ClaimedStatus
  BY <1>3, <1>4 DEF ClaimedStatus
<1>8. HoldersHaveClaimed'
  <2> SUFFICES ASSUME NEW q \in Requests
               PROVE  /\ pc'[q] \in UnsettledPC => grant'[sid[q]].status = "CONSUMING"
                      /\ Holding(q)' => grant'[sid[q]].status \in ClaimedStatus
    BY <1>1 DEF HoldersHaveClaimed
  <2>1. CASE q = r
    BY <2>1, <1>4, <1>5 DEF UnsettledPC, ClaimedPC, ClaimedStatus
  <2>2. CASE q # r
    BY <2>2, <1>0, <1>4, <1>5, <1>6
       DEF ClaimInv, HoldersHaveClaimed, Holding, UnsettledPC, SettlingPC
  <2> QED
    BY <2>1, <2>2
<1>9. SingleClaimant'
  BY <1>1, <1>3, <1>5 DEF ClaimInv, SingleClaimant, Holding
<1>10. NothingSentBefore'
  BY <1>1, <1>5, <1>7 DEF ClaimInv, NothingSentBefore, ClaimedPC
<1>11. AtMostOnceDispatch'
  BY <1>1 DEF ClaimInv, AtMostOnceDispatch
<1> QED
  BY <1>8, <1>9, <1>10, <1>11 DEF ClaimInv

\* Every step keeps the claim exclusive.
LEMMA ClaimInvStep == TypeOK /\ ClaimInv /\ [Next]_vars => ClaimInv'
<1> SUFFICES ASSUME TypeOK, ClaimInv, [Next]_vars PROVE ClaimInv'
  OBVIOUS
<1>0. sid \in [Requests -> Sessions] /\ pc \in [Requests -> PC]
      /\ grant \in [Sessions -> GrantRecord]
  BY DEF TypeOK, GrantTypeOK
\* Requests that go to a label outside the protected part, or move on inside it.
<1>a. ASSUME NEW r \in Requests, NEW label, Goto(r, label),
             UNCHANGED <<grant, dispatched, sid>>,
             \/ label \notin ClaimedPC \cup SettlingPC
             \/ label \in ClaimedPC /\ pc[r] \in ClaimedPC
             \/ label = "settle_grant" /\ pc[r] \in UnsettledPC
             \/ label \in {"settle_hitl", "ev_settled"} /\ Holding(r)
      PROVE  ClaimInv'
  <2>1. pc'[r] = label /\ \A q \in Requests \ {r} : pc'[q] = pc[q]
    BY <1>0, <1>a DEF Goto
  <2> QED
    BY <2>1, <1>0, <1>a, CalmStep DEF UnsettledPC, Holding, ClaimedPC, SettlingPC
<1>b. ASSUME NEW s \in Sessions, NEW from, NEW to, Mark(s, from, to),
             from \cap ClaimedStatus = {}, to \notin ClaimedStatus,
             UNCHANGED <<dispatched, sid>>,
             \A q \in Requests : pc'[q] = pc[q] \/ pc'[q] \notin ClaimedPC \cup SettlingPC
      PROVE  ClaimInv'
  <2>1. \A x \in Sessions :
          \/ grant'[x].status = grant[x].status
          \/ grant[x].status \notin ClaimedStatus /\ grant'[x].status \notin ClaimedStatus
    BY <1>0, <1>b DEF Mark, GrantRecord
  <2> QED
    BY <2>1, <1>0, <1>b, CalmStep DEF UnsettledPC, Holding, SettlingPC
<1>1. ASSUME NEW r \in Requests,
             StartApprove(r) \/ StartReject(r) \/ CrashRequest(r) \/ ApproveLoad(r) \/ RejectLoad(r)
      PROVE  ClaimInv'
  <2>1. PICK label \in {"a_load", "r_load", "crashed", "error", "expire", "recon_hitl",
                        "approve_grant", "reject_hitl"} :
          Goto(r, label) /\ UNCHANGED <<grant, dispatched, sid>>
    BY <1>1 DEF StartApprove, StartReject, CrashRequest, ApproveLoad, RejectLoad
  <2> QED
    BY <2>1, <1>a DEF ClaimedPC, SettlingPC
<1>2. ASSUME NEW r \in Requests,
             ExpireOnApprove(r) \/ ReconcileSession(r) \/ ApproveSession(r) \/ RejectSession(r)
      PROVE  ClaimInv'
  <2>1. PICK label \in {"error", "recon_grant", "ev_granted", "reject_grant"} :
          Goto(r, label) /\ UNCHANGED <<grant, dispatched, sid>>
    BY <1>2 DEF ExpireOnApprove, ReconcileSession, ApproveSession, RejectSession
  <2> QED
    BY <2>1, <1>a DEF ClaimedPC, SettlingPC
<1>3. ASSUME NEW r \in Requests, CheckIdempotency(r) PROVE ClaimInv'
  <2>1. PICK label \in {"approved", "settle_grant", "idem_reserve"} :
          Goto(r, label) /\ pc[r] = "idem_get" /\ UNCHANGED <<grant, dispatched, sid>>
    BY <1>3 DEF CheckIdempotency, At
  <2> QED
    BY <2>1, <1>a DEF ClaimedPC, SettlingPC, UnsettledPC
<1>4. ASSUME NEW r \in Requests, ReserveKey(r) PROVE ClaimInv'
  <2>1. Goto(r, "ev_dispatch") /\ pc[r] = "idem_reserve" /\ UNCHANGED <<grant, dispatched, sid>>
    BY <1>4 DEF ReserveKey, At
  <2> QED
    BY <2>1, <1>a DEF ClaimedPC
<1>5. ASSUME NEW r \in Requests, SettleIdempotency(r) PROVE ClaimInv'
  <2>1. Goto(r, "settle_grant") /\ pc[r] = "settle_idem" /\ UNCHANGED <<grant, dispatched, sid>>
    BY <1>5 DEF SettleIdempotency, At
  <2> QED
    BY <2>1, <1>a DEF UnsettledPC
<1>6. ASSUME NEW r \in Requests, SettleSession(r) PROVE ClaimInv'
  <2>1. Goto(r, "ev_settled") /\ pc[r] = "settle_hitl" /\ UNCHANGED <<grant, dispatched, sid>>
    BY <1>6 DEF SettleSession, At
  <2> QED
    BY <2>1, <1>a DEF Holding, SettlingPC
<1>7. ASSUME NEW r \in Requests, PersistEvent(r) PROVE ClaimInv'
  <2>1. UNCHANGED <<grant, dispatched, sid>>
    BY <1>7 DEF PersistEvent
  <2>2. \/ \E label \in {"reconciliation_required", "claim", "approved", "error", "rejected"} :
             Goto(r, label)
        \/ Goto(r, "idem_get") /\ pc[r] = "ev_claimed"
        \/ Goto(r, "dispatch") /\ pc[r] = "ev_dispatch"
    BY <1>7 DEF PersistEvent, PersistAt, At
  <2> QED
    BY <2>1, <2>2, <1>a DEF ClaimedPC, SettlingPC
<1>8. ASSUME NEW r \in Requests, ApproveGrant(r) \/ ReconcileGrant(r) \/ RejectGrant(r)
      PROVE  ClaimInv'
  <2>0. sid[r] \in Sessions
    BY <1>0
  <2>1. PICK label \in {"approve_hitl", "error", "ev_recon", "ev_rejected"} :
          pc' = [pc EXCEPT ![r] = label] /\ UNCHANGED <<dispatched, sid>>
    BY <1>8 DEF ApproveGrant, ReconcileGrant, RejectGrant, Goto
  <2>2. \A q \in Requests : pc'[q] = pc[q] \/ pc'[q] \notin ClaimedPC \cup SettlingPC
    BY <1>0, <2>1 DEF ClaimedPC, SettlingPC
  <2>3. CASE ReconcileGrant(r)
    BY <2>0, <2>1, <2>2, <2>3, <1>b DEF ReconcileGrant, mark_reconciliation_required, ClaimedStatus
  <2>4. CASE RejectGrant(r)
    BY <2>0, <2>1, <2>2, <2>4, <1>b DEF RejectGrant, mark_rejected, ClaimedStatus
  <2>5. CASE ApproveGrant(r)
    <3>1. \A x \in Sessions :
            \/ grant'[x].status = grant[x].status
            \/ grant[x].status \notin ClaimedStatus /\ grant'[x].status \notin ClaimedStatus
      BY <2>0, <2>5, <1>0 DEF ApproveGrant, approve_pending, Approvable, GrantRecord, ClaimedStatus
    <3> QED
      BY <3>1, <2>1, <2>2, <1>0, CalmStep DEF UnsettledPC, Holding, SettlingPC
  <2> QED
    BY <1>8, <2>3, <2>4, <2>5
<1>9. ASSUME NEW s \in Sessions, InsertGrant(s) PROVE ClaimInv'
  <2>1. Mark(s, {"NONE"}, "PENDING") /\ UNCHANGED <<dispatched, sid, pc>>
    BY <1>9 DEF InsertGrant, insert_pending, Mark, reqVars
  <2> QED
    BY <2>1, <1>b DEF ClaimedStatus
<1>10. ASSUME UNCHANGED <<grant, dispatched, sid, pc>> PROVE ClaimInv'
  BY <1>10, <1>0, CalmStep DEF Holding
<1>11. ASSUME NEW s \in Sessions, NEW tid, InsertSession(s, tid) PROVE ClaimInv'
  BY <1>11, <1>10 DEF InsertSession, reqVars
<1>12. ASSUME NEW s \in Sessions, CrashCreating(s) \/ Clock(s) PROVE ClaimInv'
  BY <1>12, <1>10 DEF CrashCreating, Clock, reqVars
<1>13. CASE SweepExpired \/ UNCHANGED vars
  BY <1>13, <1>10 DEF SweepExpired, vars, reqVars
<1>14. ASSUME NEW r \in Requests, Advance(r) PROVE ClaimInv'
  BY <1>14, <1>1, <1>2, <1>3, <1>4, <1>5, <1>6, <1>7, <1>8, ClaimStep, DispatchStep, SettleStep
     DEF Advance
<1> QED
  BY <1>1, <1>9, <1>11, <1>12, <1>13, <1>14 DEF Next

\* The two facts every later theorem starts from.
LEMMA ClaimInvariant == Spec => [](TypeOK /\ ClaimInv)
<1>1. Init => TypeOK /\ ClaimInv
  BY InitType, InitClaim
<1>2. TypeOK /\ ClaimInv /\ [Next]_vars => (TypeOK /\ ClaimInv)'
  BY TypeStep, ClaimInvStep
<1> QED
  BY <1>1, <1>2, PTL DEF Spec

\* Mutual exclusion of approve(): no two requests are past the claim of one grant.
THEOREM ClaimIsExclusive == Spec => []SingleClaimant
BY ClaimInvariant, PTL DEF ClaimInv

\* However many approvals race, and wherever requests die, a session's tool call
\* leaves the executor at most once.
THEOREM DispatchedAtMostOnce == Spec => []AtMostOnceDispatch
BY ClaimInvariant, PTL DEF ClaimInv


-----------------------------------------------------------------------------
(* What is sent is what a human approved.                                  *)

\* Labels approve() reaches only for a session with a tool call and an actor.
DecidedPC == {"approve_grant", "approve_hitl", "ev_granted", "claim"} \cup ClaimedPC \cup SettlingPC

KnownOperation ==
  \A r \in Requests : pc[r] \in DecidedPC =>
    Exists(sid[r]) /\ hitl[sid[r]].tool_call_id \in ToolIds /\ actor[r] \in Actors

ApproverKnown ==
  \A s \in Sessions :
    grant[s].status \in ClaimedStatus \cup {"APPROVED"} => grant[s].approving_actor_id \in Actors

SentIsRecorded ==
  \A s \in Sessions, t \in ToolIds :
    dispatched[<<s, t>>] > 0 => Exists(s) /\ hitl[s].tool_call_id = t

OriginInv == KnownOperation /\ ApproverKnown /\ SentIsRecorded

\* A session row is never deleted and its tool call never replaced.
LEMMA SessionKept ==
  ASSUME TypeOK, [Next]_vars, NEW s \in Sessions, Exists(s)
  PROVE  hitl'[s].status # "NONE" /\ hitl'[s].tool_call_id = hitl[s].tool_call_id
<1> DEFINE Kept == hitl'[s].status # "NONE" /\ hitl'[s].tool_call_id = hitl[s].tool_call_id
<1>0. hitl \in [Sessions -> HITLSession] /\ sid \in [Requests -> Sessions]
  BY DEF TypeOK, HITLTypeOK
<1>1. ASSUME NEW x \in Sessions, NEW status \in HITLSessionStatus, NEW v, update_status(x, status, v)
      PROVE  Kept
  BY <1>0, <1>1 DEF update_status, SetStatusOf, Exists, HITLSessionStatus
<1>2. UNCHANGED hitl => Kept
  BY DEF Exists
<1>3. ASSUME NEW r \in Requests, Advance(r) PROVE Kept
  <2>1. CASE UNCHANGED hitl
    BY <2>1, <1>2
  <2>2. CASE \E status \in HITLSessionStatus, v \in Nat : update_status(sid[r], status, v)
    BY <2>2, <1>0, <1>1
  <2>3. \/ UNCHANGED hitl
        \/ \E status \in HITLSessionStatus, v \in Nat : update_status(sid[r], status, v)
    BY <1>3 DEF Advance, ApproveLoad, ExpireOnApprove, ReconcileSession, ReconcileGrant,
         ApproveGrant, ApproveSession, ClaimGrant, CheckIdempotency, ReserveKey, Dispatch,
         SettleIdempotency, SettleGrant, SettleSession, RejectLoad, RejectSession, RejectGrant,
         PersistEvent, TypeOK, HITLSessionStatus
  <2> QED
    BY <2>1, <2>2, <2>3
<1>4. ASSUME NEW x \in Sessions, NEW tid, InsertSession(x, tid) PROVE Kept
  BY <1>0, <1>4 DEF InsertSession, HITLInsert, Exists
<1>5. CASE SweepExpired
  BY <1>0, <1>5 DEF SweepExpired, expire_stale_sessions, Exists, HITLSession
<1>6. ASSUME NEW r \in Requests, StartApprove(r) \/ StartReject(r) \/ CrashRequest(r) PROVE Kept
  BY <1>6, <1>2 DEF StartApprove, StartReject, CrashRequest
<1>7. ASSUME NEW x \in Sessions, InsertGrant(x) \/ CrashCreating(x) \/ Clock(x) PROVE Kept
  BY <1>7, <1>2 DEF InsertGrant, CrashCreating, Clock
<1>8. CASE UNCHANGED vars
  BY <1>8, <1>2 DEF vars
<1> QED
  BY <1>3, <1>4, <1>5, <1>6, <1>7, <1>8 DEF Next

\* Which steps may touch which part of the state.
LEMMA StepKinds ==
  ASSUME TypeOK, [Next]_vars
  PROVE  /\ UNCHANGED <<sid, actor>>
         /\ \A r \in Requests : pc'[r] \in DecidedPC => pc[r] \in DecidedPC \/ ApproveLoad(r)
         /\ dispatched' = dispatched \/ \E r \in Requests : Dispatch(r)
         /\ \/ grant' = grant
            \/ \E r \in Requests : \/ ApproveGrant(r) \/ ClaimGrant(r) \/ ReconcileGrant(r)
                                   \/ SettleGrant(r) \/ RejectGrant(r)
            \/ \E s \in Sessions : InsertGrant(s)
<1>0. pc \in [Requests -> PC]
  BY DEF TypeOK
<1>1. UNCHANGED <<sid, actor>>
  BY DEF Next, Advance, ApproveLoad, ExpireOnApprove, ReconcileSession, ReconcileGrant,
     ApproveGrant, ApproveSession, ClaimGrant, CheckIdempotency, ReserveKey, Dispatch,
     SettleIdempotency, SettleGrant, SettleSession, RejectLoad, RejectSession, RejectGrant,
     PersistEvent, StartApprove, StartReject, CrashRequest, InsertSession, InsertGrant,
     CrashCreating, Clock, SweepExpired, vars, reqVars
<1>2. dispatched' = dispatched \/ \E r \in Requests : Dispatch(r)
  BY DEF Next, Advance, ApproveLoad, ExpireOnApprove, ReconcileSession, ReconcileGrant,
     ApproveGrant, ApproveSession, ClaimGrant, CheckIdempotency, ReserveKey,
     SettleIdempotency, SettleGrant, SettleSession, RejectLoad, RejectSession, RejectGrant,
     PersistEvent, StartApprove, StartReject, CrashRequest, InsertSession, InsertGrant,
     CrashCreating, Clock, SweepExpired, vars
<1>3. \/ grant' = grant
      \/ \E r \in Requests : \/ ApproveGrant(r) \/ ClaimGrant(r) \/ ReconcileGrant(r)
                             \/ SettleGrant(r) \/ RejectGrant(r)
      \/ \E s \in Sessions : InsertGrant(s)
  BY DEF Next, Advance, ApproveLoad, ExpireOnApprove, ReconcileSession,
     ApproveSession, CheckIdempotency, ReserveKey, Dispatch,
     SettleIdempotency, SettleSession, RejectLoad, RejectSession,
     PersistEvent, StartApprove, StartReject, CrashRequest, InsertSession,
     CrashCreating, Clock, SweepExpired, vars
<1>4. ASSUME NEW r \in Requests, pc'[r] \in DecidedPC
      PROVE  pc[r] \in DecidedPC \/ ApproveLoad(r)
  <2>1. ASSUME NEW q \in Requests, NEW label, Goto(q, label)
        PROVE  pc'[r] = IF q = r THEN label ELSE pc[r]
    BY <1>0, <2>1 DEF Goto
  <2>2. CASE UNCHANGED pc
    BY <2>2, <1>4
  <2>3. ASSUME NEW q \in Requests, StartApprove(q) \/ StartReject(q) \/ CrashRequest(q)
        PROVE  pc[r] \in DecidedPC
    <3>1. PICK label \in {"a_load", "r_load", "crashed"} : Goto(q, label)
      BY <2>3 DEF StartApprove, StartReject, CrashRequest
    <3> QED
      BY <3>1, <2>1, <1>4 DEF DecidedPC, ClaimedPC, SettlingPC
  <2>4. ASSUME NEW q \in Requests, Advance(q)
        PROVE  pc[r] \in DecidedPC \/ ApproveLoad(r)
    <3>1. CASE ApproveLoad(q)
      <4>1. PICK label : Goto(q, label)
        BY <3>1 DEF ApproveLoad
      <4> QED
        BY <3>1, <4>1, <2>1, <1>4
    <3>2. CASE pc[q] \in DecidedPC
      <4>1. \E label : Goto(q, label)
        BY <2>4 DEF Advance, ApproveLoad, ExpireOnApprove, ReconcileSession, ReconcileGrant,
           ApproveGrant, ApproveSession, ClaimGrant, CheckIdempotency, ReserveKey, Dispatch,
           SettleIdempotency, SettleGrant, SettleSession, RejectLoad, RejectSession, RejectGrant,
           PersistEvent, PersistAt
      <4> QED
        BY <3>2, <4>1, <2>1, <1>4
    <3>3. CASE \E label \in {"error", "recon_grant", "ev_recon", "reject_hitl", "reject_grant",
                             "ev_rejected", "reconciliation_required", "rejected"} : Goto(q, label)
      BY <3>3, <2>1, <1>4 DEF DecidedPC, ClaimedPC, SettlingPC
    <3>4. \/ ApproveLoad(q)
          \/ pc[q] \in DecidedPC
          \/ \E label \in {"error", "recon_grant", "ev_recon", "reject_hitl", "reject_grant",
                            "ev_rejected", "reconciliation_required", "rejected"} : Goto(q, label)
      BY <2>4 DEF Advance, ExpireOnApprove, ReconcileSession, ReconcileGrant,
         ApproveGrant, ApproveSession, ClaimGrant, CheckIdempotency, ReserveKey, Dispatch,
         SettleIdempotency, SettleGrant, SettleSession, RejectLoad, RejectSession, RejectGrant,
         PersistEvent, PersistAt, At, DecidedPC, ClaimedPC, SettlingPC
    <3> QED
      BY <3>1, <3>2, <3>3, <3>4
  <2>5. \/ UNCHANGED pc
        \/ \E q \in Requests : StartApprove(q) \/ StartReject(q) \/ CrashRequest(q) \/ Advance(q)
    BY DEF Next, InsertSession, InsertGrant, CrashCreating, Clock, SweepExpired,
       vars, reqVars
  <2> QED
    BY <2>2, <2>3, <2>4, <2>5
<1> QED
  BY <1>1, <1>2, <1>3, <1>4


\* Nothing is approved or sent initially.
LEMMA InitOrigin == Init => OriginInv
<1> SUFFICES ASSUME Init PROVE OriginInv
  OBVIOUS
<1>1. KnownOperation
  BY DEF Init, KnownOperation, DecidedPC, ClaimedPC, SettlingPC
<1>2. ApproverKnown
  BY DEF Init, GrantInit, NoGrant, ApproverKnown, ClaimedStatus
<1>3. SentIsRecorded
  BY DEF Init, SentIsRecorded, Keys
<1> QED
  BY <1>1, <1>2, <1>3 DEF OriginInv

\* The operation, its approver and its session row are fixed before the claim and
\* stay what they were.
LEMMA OriginStep == TypeOK /\ OriginInv /\ [Next]_vars => OriginInv'
<1> SUFFICES ASSUME TypeOK, OriginInv, [Next]_vars PROVE OriginInv'
  OBVIOUS
<1>0. /\ sid \in [Requests -> Sessions] /\ actor \in [Requests -> Actors \cup {NoActor}]
      /\ hitl \in [Sessions -> HITLSession] /\ grant \in [Sessions -> GrantRecord]
      /\ dispatched \in [Keys -> Nat]
  BY DEF TypeOK, HITLTypeOK, GrantTypeOK, IdempotencyTypeOK
<1>1. KnownOperation'
  <2> SUFFICES ASSUME NEW r \in Requests, pc'[r] \in DecidedPC
               PROVE  /\ hitl'[sid[r]].status # "NONE"
                      /\ hitl'[sid[r]].tool_call_id \in ToolIds
                      /\ actor[r] \in Actors
    BY StepKinds DEF KnownOperation, Exists
  <2>1. sid[r] \in Sessions
    BY <1>0
  <2>2. CASE pc[r] \in DecidedPC
    BY <2>1, <2>2, SessionKept DEF OriginInv, KnownOperation
  <2>3. CASE ApproveLoad(r) /\ pc[r] \notin DecidedPC
    <3>1. pc' = [pc EXCEPT ![r] = "approve_grant"] =>
            Exists(sid[r]) /\ hitl[sid[r]].tool_call_id # NoId /\ actor[r] # NoActor
      BY <2>3 DEF ApproveLoad, Goto, TypeOK
    <3>2. pc' = [pc EXCEPT ![r] = "approve_grant"]
      BY <2>3 DEF ApproveLoad, Goto, TypeOK, DecidedPC, ClaimedPC, SettlingPC
    <3>3. hitl[sid[r]].tool_call_id \in ToolIds \cup {NoId}
      BY <2>1, <1>0 DEF HITLSession
    <3> QED
      BY <3>1, <3>2, <3>3, <2>1, <2>3, <1>0, SessionKept DEF ApproveLoad
  <2> QED
    BY <2>2, <2>3, StepKinds
<1>2. ApproverKnown'
  <2> DEFINE Known(g) ==
        \A s \in Sessions : g[s].status \in ClaimedStatus \cup {"APPROVED"}
                             => g[s].approving_actor_id \in Actors
  <2>0. Known(grant)
    BY DEF OriginInv, ApproverKnown
  <2>a. ASSUME NEW x \in Sessions, NEW from, NEW to, Mark(x, from, to),
               to \in ClaimedStatus => from \subseteq ClaimedStatus \cup {"APPROVED"},
               to # "APPROVED"
        PROVE  Known(grant')
    BY <2>0, <2>a, <1>0 DEF Mark, GrantRecord
  <2>1. ASSUME NEW r \in Requests, ApproveGrant(r) PROVE Known(grant')
    <3>1. actor[r] \in Actors
      BY <2>1 DEF ApproveGrant, At, OriginInv, KnownOperation, DecidedPC
    <3> QED
      BY <2>0, <2>1, <3>1, <1>0 DEF ApproveGrant, approve_pending, GrantRecord
  <2>2. ASSUME NEW r \in Requests, ClaimGrant(r) PROVE Known(grant')
    <3>1. Mark(sid[r], {"APPROVED"}, "CONSUMING") \/ grant' = grant
      BY <2>2 DEF ClaimGrant, atomic_consume, Claimable, Mark
    <3> QED
      BY <3>1, <2>0, <2>a, <1>0
  <2>3. ASSUME NEW r \in Requests, SettleGrant(r) PROVE Known(grant')
    <3>1. PICK to \in {"CONSUMED", "FAILED", "UNKNOWN"} : Mark(sid[r], {"CONSUMING"}, to)
      BY <2>3 DEF SettleGrant, mark_consumed, grant_mark_failed, grant_mark_unknown
    <3> QED
      BY <3>1, <2>a, <1>0 DEF ClaimedStatus
  <2>4. ASSUME NEW r \in Requests, ReconcileGrant(r) PROVE Known(grant')
    BY <2>4, <2>a, <1>0 DEF ReconcileGrant, mark_reconciliation_required, ClaimedStatus
  <2>5. ASSUME NEW r \in Requests, RejectGrant(r) PROVE Known(grant')
    BY <2>5, <2>a, <1>0 DEF RejectGrant, mark_rejected, ClaimedStatus
  <2>6. ASSUME NEW s \in Sessions, InsertGrant(s) PROVE Known(grant')
    <3>1. Mark(s, {"NONE"}, "PENDING")
      BY <2>6 DEF InsertGrant, insert_pending, Mark
    <3> QED
      BY <3>1, <2>a DEF ClaimedStatus
  <2>7. Known(grant')
    BY <2>0, <2>1, <2>2, <2>3, <2>4, <2>5, <2>6, StepKinds
  <2> QED
    BY <2>7 DEF ApproverKnown
<1>3. SentIsRecorded'
  <2> SUFFICES ASSUME NEW s \in Sessions, NEW t \in ToolIds, dispatched'[<<s, t>>] > 0
               PROVE  hitl'[s].status # "NONE" /\ hitl'[s].tool_call_id = t
    BY DEF SentIsRecorded, Exists
  <2>1. CASE dispatched[<<s, t>>] > 0
    BY <2>1, SessionKept DEF OriginInv, SentIsRecorded
  <2>2. CASE ~(dispatched[<<s, t>>] > 0)
    <3>1. PICK r \in Requests : Dispatch(r)
      BY <2>2, StepKinds
    <3>2. dispatched' = [dispatched EXCEPT ![IdemKey(sid[r])] = @ + 1]
      BY <3>1 DEF Dispatch, call_tool
    <3>3. <<s, t>> = IdemKey(sid[r])
      BY <2>2, <3>2, <1>0 DEF Keys
    <3>4. s = sid[r] /\ t = hitl[s].tool_call_id
      BY <3>3 DEF IdemKey
    <3>5. Exists(s)
      BY <3>1, <3>4 DEF Dispatch, At, OriginInv, KnownOperation, DecidedPC, ClaimedPC
    <3> QED
      BY <3>4, <3>5, SessionKept
  <2> QED
    BY <2>1, <2>2
<1> QED
  BY <1>1, <1>2, <1>3 DEF OriginInv

\* Types, exclusive claims and known origins together are an invariant.
LEMMA ExecutorInvariant == Spec => [](TypeOK /\ ClaimInv /\ OriginInv)
<1>1. Init => OriginInv
  BY InitOrigin
<1>2. TypeOK /\ OriginInv /\ [Next]_vars => OriginInv'
  BY OriginStep
<1> QED
  BY <1>1, <1>2, ClaimInvariant, PTL DEF Spec

\* Everything the executor sends is the call stored in the session row, under a
\* grant that an identified actor approved and that has been claimed for it.
THEOREM DispatchOnlyWhatWasApproved == Spec => []DispatchWasApproved
<1>1. TypeOK /\ ClaimInv /\ OriginInv => DispatchWasApproved
  <2> SUFFICES ASSUME TypeOK, ClaimInv, OriginInv, NEW k \in Keys, dispatched[k] > 0
               PROVE  /\ grant[k[1]].status \in ClaimedStatus
                      /\ grant[k[1]].approving_actor_id \in Actors
                      /\ hitl[k[1]].tool_call_id = k[2]
    BY DEF DispatchWasApproved
  <2>1. PICK s \in Sessions, t \in ToolIds : k = <<s, t>>
    BY DEF Keys
  <2>2. k[1] = s /\ k[2] = t
    BY <2>1
  <2>3. grant[s].status \in ClaimedStatus
    BY <2>1 DEF ClaimInv, NothingSentBefore
  <2>4. grant[s].approving_actor_id \in Actors
    BY <2>3 DEF OriginInv, ApproverKnown
  <2>5. hitl[s].tool_call_id = t
    BY <2>1 DEF OriginInv, SentIsRecorded
  <2> QED
    BY <2>2, <2>3, <2>4, <2>5
<1> QED
  BY <1>1, ExecutorInvariant, PTL


-----------------------------------------------------------------------------
(* approve() and reject() implement the single-use grant.                  *)

\* The empty tables are an initial state of the single-use grant.
LEMMA InitRefines == Init => Abstract!AbsInit
<1> SUFFICES ASSUME Init PROVE Abstract!AbsInit
  OBVIOUS
<1>1. \A s \in Sessions : PhaseOf(grant[s].status) = "none"
  BY DEF Init, GrantInit, NoGrant, PhaseOf
<1>2. [s \in Sessions |-> PhaseOf(grant[s].status)] = [s \in Sessions |-> "none"]
  BY <1>1
<1> QED
  BY <1>2 DEF Init, Keys, Abstract!AbsInit, Abstract!Keys

\* Every step moves one grant along an edge of the abstract life cycle, sends the
\* one call of a claimed grant, or is invisible.
LEMMA StepRefines ==
  TypeOK /\ ClaimInv /\ OriginInv /\ [Next]_vars => [Abstract!AbsNext]_(Abstract!absVars)
<1> SUFFICES ASSUME TypeOK, ClaimInv, OriginInv, [Next]_vars
             PROVE  [Abstract!AbsNext]_(Abstract!absVars)
  OBVIOUS
<1> DEFINE ph == [s \in Sessions |-> PhaseOf(grant[s].status)]
<1>0. sid \in [Requests -> Sessions] /\ grant \in [Sessions -> GrantRecord]
      /\ dispatched \in [Keys -> Nat]
  BY DEF TypeOK, GrantTypeOK, IdempotencyTypeOK
<1>1. ASSUME UNCHANGED <<grant, dispatched>> PROVE UNCHANGED Abstract!absVars
  BY <1>1 DEF Abstract!absVars
\* One statement of the grant table is at most one abstract move.
<1>2. ASSUME NEW s \in Sessions, NEW to, UNCHANGED dispatched,
             \A x \in Sessions \ {s} : grant'[x].status = grant[x].status,
             grant'[s].status = to
      PROVE  ph' = [ph EXCEPT ![s] = PhaseOf(to)]
  BY <1>2
<1>3. ASSUME NEW s \in Sessions, UNCHANGED dispatched,
             \A x \in Sessions \ {s} : grant'[x].status = grant[x].status,
             \/ grant[s].status = "NONE" /\ grant'[s].status = "PENDING"
             \/ grant[s].status = "PENDING" /\ grant'[s].status = "APPROVED"
             \/ grant[s].status \in {"PENDING", "APPROVED"}
                 /\ grant'[s].status \in {"REJECTED", "RECONCILIATION_REQUIRED"}
             \/ grant[s].status = "APPROVED" /\ grant'[s].status = "CONSUMING"
             \/ grant[s].status = "CONSUMING" /\ grant'[s].status \in {"CONSUMED", "FAILED", "UNKNOWN"}
      PROVE  Abstract!AbsNext
  <2>1. ph' = [ph EXCEPT ![s] = PhaseOf(grant'[s].status)]
    BY <1>2, <1>3
  <2>2. \/ ph[s] = "none" /\ PhaseOf(grant'[s].status) = "offered"
        \/ ph[s] = "offered" /\ PhaseOf(grant'[s].status) = "approved"
        \/ ph[s] \in {"offered", "approved"} /\ PhaseOf(grant'[s].status) = "void"
        \/ ph[s] = "approved" /\ PhaseOf(grant'[s].status) = "claimed"
        \/ ph[s] = "claimed" /\ PhaseOf(grant'[s].status) = "settled"
    BY <1>3 DEF PhaseOf
  <2> QED
    BY <2>1, <2>2, <1>3
       DEF Abstract!AbsNext, Abstract!Move, Abstract!Offer, Abstract!Approve, Abstract!Void,
           Abstract!Claim, Abstract!Settle
<1>4. ASSUME NEW s \in Sessions, NEW from, NEW to, Mark(s, from, to), UNCHANGED dispatched,
             \/ from = {"NONE"} /\ to = "PENDING"
             \/ from \subseteq {"PENDING", "APPROVED"} /\ to \in {"REJECTED", "RECONCILIATION_REQUIRED"}
             \/ from = {"APPROVED"} /\ to = "CONSUMING"
             \/ from = {"CONSUMING"} /\ to \in {"CONSUMED", "FAILED", "UNKNOWN"}
      PROVE  [Abstract!AbsNext]_(Abstract!absVars)
  <2>1. CASE grant[s].status \in from
    <3>1. grant'[s].status = to /\ \A x \in Sessions \ {s} : grant'[x] = grant[x]
      BY <2>1, <1>0, <1>4 DEF Mark, GrantRecord
    <3> QED
      BY <2>1, <3>1, <1>3, <1>4
  <2>2. CASE grant[s].status \notin from
    BY <2>2, <1>1, <1>4 DEF Mark
  <2> QED
    BY <2>1, <2>2
<1>5. ASSUME NEW r \in Requests, Dispatch(r) PROVE Abstract!AbsNext
  <2> DEFINE s == sid[r]
             t == hitl[s].tool_call_id
  <2>1. s \in Sessions /\ t \in ToolIds
    BY <1>0, <1>5 DEF Dispatch, At, OriginInv, KnownOperation, DecidedPC, ClaimedPC
  <2>2. grant[s].status = "CONSUMING" /\ \A u \in ToolIds : dispatched[<<s, u>>] = 0
    BY <1>5 DEF Dispatch, At, ClaimInv, HoldersHaveClaimed, NothingSentBefore, ClaimedPC, UnsettledPC
  <2>3. dispatched' = [dispatched EXCEPT ![<<s, t>>] = 1] /\ UNCHANGED grant
    <3>1. dispatched' = [dispatched EXCEPT ![<<s, t>>] = dispatched[<<s, t>>] + 1]
      BY <1>5 DEF Dispatch, call_tool, IdemKey
    <3>2. dispatched[<<s, t>>] + 1 = 1
      BY <2>1, <2>2
    <3>3. dispatched' = [dispatched EXCEPT ![<<s, t>>] = 1]
      BY <3>1, <3>2
    <3> QED
      BY <3>3, <1>5 DEF Dispatch
  <2>4. ph[s] = "claimed"
    BY <2>1, <2>2 DEF PhaseOf
  <2> QED
    BY <2>1, <2>2, <2>3, <2>4 DEF Abstract!AbsNext, Abstract!Perform
<1>6. ASSUME NEW r \in Requests, ApproveGrant(r) PROVE [Abstract!AbsNext]_(Abstract!absVars)
  <2>1. sid[r] \in Sessions /\ UNCHANGED dispatched
    BY <1>0, <1>6 DEF ApproveGrant
  <2>2. CASE Approvable(sid[r])
    <3>1. /\ grant[sid[r]].status = "PENDING"
          /\ grant'[sid[r]].status = "APPROVED"
          /\ \A x \in Sessions \ {sid[r]} : grant'[x] = grant[x]
      BY <2>1, <2>2, <1>0, <1>6 DEF ApproveGrant, approve_pending, Approvable, GrantRecord
    <3> QED
      BY <2>1, <3>1, <1>3
  <2>3. CASE ~Approvable(sid[r])
    BY <2>1, <2>3, <1>1, <1>6 DEF ApproveGrant, approve_pending
  <2> QED
    BY <2>2, <2>3
<1>7. ASSUME NEW r \in Requests, ClaimGrant(r) PROVE [Abstract!AbsNext]_(Abstract!absVars)
  <2>1. /\ Mark(sid[r], {"APPROVED"}, "CONSUMING") \/ grant' = grant
        /\ UNCHANGED dispatched /\ sid[r] \in Sessions
    BY <1>0, <1>7 DEF ClaimGrant, atomic_consume, Claimable, Mark
  <2> QED
    BY <2>1, <1>1, <1>4
<1>8. ASSUME NEW r \in Requests, SettleGrant(r) PROVE [Abstract!AbsNext]_(Abstract!absVars)
  <2>1. PICK to \in {"CONSUMED", "FAILED", "UNKNOWN"} : Mark(sid[r], {"CONSUMING"}, to)
    BY <1>8 DEF SettleGrant, mark_consumed, grant_mark_failed, grant_mark_unknown
  <2>2. UNCHANGED dispatched /\ sid[r] \in Sessions
    BY <1>0, <1>8 DEF SettleGrant
  <2> QED
    BY <2>1, <2>2, <1>4
<1>9. ASSUME NEW r \in Requests, ReconcileGrant(r) \/ RejectGrant(r)
      PROVE  [Abstract!AbsNext]_(Abstract!absVars)
  <2>1. PICK from \in SUBSET {"PENDING", "APPROVED"}, to \in {"REJECTED", "RECONCILIATION_REQUIRED"} :
          Mark(sid[r], from, to)
    BY <1>9 DEF ReconcileGrant, RejectGrant, mark_reconciliation_required, mark_rejected
  <2>2. UNCHANGED dispatched /\ sid[r] \in Sessions
    BY <1>0, <1>9 DEF ReconcileGrant, RejectGrant
  <2> QED
    BY <2>1, <2>2, <1>4
<1>10. ASSUME NEW s \in Sessions, InsertGrant(s) PROVE [Abstract!AbsNext]_(Abstract!absVars)
  <2>1. Mark(s, {"NONE"}, "PENDING") /\ UNCHANGED dispatched
    BY <1>10 DEF InsertGrant, insert_pending, Mark
  <2> QED
    BY <2>1, <1>4
<1> QED
  BY <1>1, <1>5, <1>6, <1>7, <1>8, <1>9, <1>10, StepKinds

\* ApprovalExecutor implements SingleUseGrant: offered once, approved or voided,
\* claimed at most once, performed at most once and only while claimed.
THEOREM ExecutorImplementsSingleUseGrant == Spec => ImplementsSingleUseGrant
BY InitRefines, StepRefines, ExecutorInvariant, PTL
   DEF Spec, ImplementsSingleUseGrant, Abstract!AbsSpec

=============================================================================
