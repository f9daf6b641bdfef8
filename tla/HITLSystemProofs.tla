-------------------------- MODULE HITLSystemProofs --------------------------
(***************************************************************************)
(* What the agent graph and the approval executor guarantee together, for  *)
(* any number of conversations, /agent requests and decisions, any answers *)
(* of the model and any policy, with crashes at every await.               *)
(***************************************************************************)
EXTENDS HITLSystem, ApprovalExecutorProofs, FiniteSetTheorems

-----------------------------------------------------------------------------
(* The inductive invariant                                                 *)

\* The labels of a driver that executes the call it is at.
UnsentLabels == {"idem_get", "mark_executing", "idem_recheck", "reserve", "call_tool"}
CallLabels == UnsentLabels \cup {"settle"}

Decided == {"approved", "rejected"}

\* A call that the gateway does not let through by itself.
Guarded(call) == policy[call.kind] # "APPROVED"

\* One run of the graph: where its position is inside the message, what it has
\* executed, and that only an approved request gets to execute a guarded call.
DriverInv(d) ==
  /\ at[d] = "unused" => done[d] = {} /\ resume[d] = "none"
  /\ at[d] = "agent_node" => done[d] \subseteq mem[d].ids
  /\ at[d] = "tool_call" => pos[d] >= 1
  /\ at[d] \in CallLabels \cup {"interrupted"} => pos[d] \in 1..Len(mem[d].msg) /\ Call(d).valid
  /\ at[d] = "interrupted" => policy[Call(d).kind] = "PENDING"
  /\ at[d] \in CallLabels =>
       /\ Call(d).id \notin done[d]
       /\ Call(d).id = NoId => at[d] = "call_tool"
       /\ Guarded(Call(d)) => d \in Requests /\ pc[d] = "approved" /\ resume[d] = "none"
  /\ resume[d] # "none" => d \in Requests /\ resume[d] = pc[d]
  /\ d \in Requests /\ at[d] # "unused" => pc[d] \in Decided

\* A tool call id that the model gives to a call which waits for a human.
Suspended(t) ==
  \E m \in Messages : \E i \in DOMAIN m : m[i].id = t /\ m[i].valid /\ policy[m[i].kind] = "PENDING"

RunInv ==
  /\ \A d \in Drivers : DriverInv(d)
  /\ \A r \in Requests : sid[r] = thread[r]
  /\ \A d \in AgentRuns : api[d] = "insert" => at[d] = "interrupted"
  /\ \A s \in Sessions : hitl[s].tool_call_id # NoId => Suspended(hitl[s].tool_call_id)

\* A request that has claimed the grant of its session, until it answers an error.
Claimant(r) == Holding(r) \/ pc[r] = "approved"

\* At most one request per session has ever claimed and not failed, and what it works
\* on is a stored call.
GrantInv ==
  /\ \A r \in Requests :
       /\ pc[r] \in UnsettledPC => grant[sid[r]].status = "CONSUMING"
       /\ Claimant(r) => grant[sid[r]].status \in ClaimedStatus
  /\ \A q, r \in Requests : Claimant(q) /\ Claimant(r) /\ sid[q] = sid[r] => q = r
  /\ KnownOperation

\* A claimed grant belongs to a session that stores a tool call.
ClaimedKnown ==
  \A s \in Sessions : grant[s].status \in ClaimedStatus =>
    Exists(s) /\ hitl[s].tool_call_id \in ToolIds

\* The run that an approved request resumes has not yet used its approval.
MayExecute(r) ==
  at[r] = "unused" \/ resume[r] = "approved" \/ (at[r] \in UnsentLabels /\ Guarded(Call(r)))

Used(s) == \E r \in Requests : sid[r] = s /\ pc[r] = "approved" /\ ~MayExecute(r)

\* The keys of calls that the gateway does not let through by itself.
GuardedKeys ==
  {k \in Keys : \E m \in Messages : \E i \in DOMAIN m : m[i].id = k[2] /\ Guarded(m[i])}

\* Nothing guarded is sent before the claim, nor by the claimant before its dispatch;
\* then once by the executor, and once more only by the run that used the approval.
SendInv ==
  \A k \in GuardedKeys :
    /\ grant[k[1]].status \notin ClaimedStatus => dispatched[k] = 0
    /\ \A r \in Requests : sid[r] = k[1] /\ pc[r] \in ClaimedPC => dispatched[k] = 0
    /\ ~Used(k[1]) => dispatched[k] <= 1
    /\ dispatched[k] <= 2

\* An outcome the executor does not know: sent once, and the request answers an error.
UnknownInv ==
  /\ \A r \in Requests :
       /\ pc[r] \in {"settle_idem", "settle_grant"} /\ out[r] = "unknown" =>
            dispatched[IdemKey(sid[r])] = 1
       /\ grant[sid[r]].status = "UNKNOWN" =>
            /\ pc[r] # "approved"
            /\ pc[r] \in SettlingPC => out[r] # "succeeded"
  /\ \A s \in Sessions : grant[s].status = "UNKNOWN" => dispatched[IdemKey(s)] = 1

\* The run may have sent the call t: it has executed it, or is about to note that.
MayHaveSent(d, t) ==
  /\ at[d] # "unused"
  /\ t \in done[d] \/ at[d] \in Ended \/ (at[d] = "settle" /\ Call(d).id = t)

Senders(k) == {d \in Drivers : thread[d] = k[1] /\ MayHaveSent(d, k[2])}

\* A write that was sent is the call stored in its session.
SentIsStored ==
  \A k \in WriteKeys : dispatched[k] > 0 => Exists(k[1]) /\ hitl[k[1]].tool_call_id = k[2]

\* One run sends one read once.
ReadInv == \A k \in Keys \ WriteKeys : dispatched[k] <= Cardinality(Senders(k))

-----------------------------------------------------------------------------
(* The steps, by what they touch                                           *)

\* A decided request resumes its thread, with the stored arguments of its session.
Resumes(d) ==
  d \in Requests /\ pc[d] \in Decided /\ Resume(d, pc[d], hitl[sid[d]].tool_call_id)

\* A step of one run of the graph, its start and its death included.
DriverStep(d) ==
  \/ GraphStep(d) \/ Die(d)
  \/ Resumes(d)
  \/ d \in AgentRuns /\ (RunGraph(d) \/ RunTransferWorkflow(d))

\* A step of one decision.
RequestStep(r) == StartApprove(r) \/ StartReject(r) \/ Advance(r) \/ CrashRequest(r)

\* A step of the /agent handler after its run, that stores no row.
HandlerStep(d) == ReportEnd(d) \/ ReportInterrupt(d) \/ TransferReturns(d) \/ SuspendFails(d)

\* Every step of the system is one of these.
LEMMA SysKinds ==
  ASSUME [SysNext]_sysVars
  PROVE  \/ \E d \in Drivers : /\ DriverStep(d)
                               /\ UNCHANGED <<hitl, late, grant, creating, reqVars, router, api>>
         \/ \E r \in Requests : RequestStep(r) /\ UNCHANGED <<graphVars, router, route, api>>
         \/ \E d \in AgentRuns : HandlerStep(d)
         \/ \E d \in AgentRuns : SuspendRun(d)
         \/ \E s \in Sessions : /\ InsertGrant(s) \/ CrashCreating(s)
                                /\ UNCHANGED <<graphVars, router, route, api>>
         \/ UNCHANGED sysVars
<1>1. ASSUME NEW d \in AgentRuns, AgentRequest(d)
      PROVE  DriverStep(d) /\ UNCHANGED <<hitl, late, grant, creating, reqVars, router, api>>
  BY <1>1 DEF AgentRequest, DriverStep
<1>2. ASSUME NEW r \in Requests, Executor(r)
      PROVE  RequestStep(r) /\ UNCHANGED <<graphVars, router, route, api>>
  BY <1>2 DEF Executor, RequestStep
<1>3. ASSUME NEW r \in Requests, ResumeAfterDecision(r)
      PROVE  /\ r \in Drivers /\ DriverStep(r)
             /\ UNCHANGED <<hitl, late, grant, creating, reqVars, router, api>>
  BY <1>3, SystemAssumption DEF ResumeAfterDecision, Resumes, DriverStep, Decided, executorVars
<1>4. ASSUME NEW d \in Drivers, RunStep(d) \/ (Die(d) /\ UNCHANGED <<executorVars, router, route, api>>)
      PROVE  DriverStep(d) /\ UNCHANGED <<hitl, late, grant, creating, reqVars, router, api>>
  BY <1>4 DEF RunStep, DriverStep, executorVars
<1>5. ASSUME NEW r \in Requests, CrashRequest(r) /\ UNCHANGED <<graphVars, router, route, api>>
      PROVE  RequestStep(r) /\ UNCHANGED <<graphVars, router, route, api>>
  BY <1>5 DEF RequestStep
<1>6. AgentRuns \subseteq Drivers
  BY DEF AgentRuns
<1> QED
  BY <1>1, <1>2, <1>3, <1>4, <1>5, <1>6
     DEF SysNext, SysUndisturbed, SysCrash, HandlerStep, StoreGrant

\* The variables of one driver change and nothing of any other.
OnlyDriver(d) ==
  /\ UNCHANGED <<thread, policy>>
  /\ \A e \in Drivers \ {d} : /\ at'[e] = at[e] /\ mem'[e] = mem[e] /\ pos'[e] = pos[e]
                              /\ done'[e] = done[e] /\ resume'[e] = resume[e]
                              /\ canon'[e] = canon[e] /\ args'[e] = args[e]

\* What a driver does leaves every other driver alone.
LEMMA DriverFrame ==
  ASSUME GraphTypeOK, NEW d \in Drivers, DriverStep(d)
  PROVE  OnlyDriver(d)
<1> USE DEF GraphTypeOK, OnlyDriver, Move, argVars
<1>1. CASE Die(d)
  BY <1>1 DEF Die
<1>2. CASE Resumes(d)
  BY <1>2 DEF Resumes, Resume, EnterToolNode
<1>3. CASE RunGraph(d) \/ RunTransferWorkflow(d)
  BY <1>3 DEF RunGraph, RunTransferWorkflow
<1>4. CASE AgentNode(d) \/ FinalAnswer(d) \/ AgentNodeFails(d) \/ ToolNodeReturns(d)
  BY <1>4 DEF AgentNode, FinalAnswer, AgentNodeFails, ToolNodeReturns, EnterToolNode
<1>5. CASE SkipCall(d) \/ AllowedCall(d) \/ Interrupt(d) \/ ResumedCall(d)
  BY <1>5 DEF SkipCall, AllowedCall, Interrupt, ResumedCall, Skip, Finish, Execute
<1>6. CASE CheckRecord(d) \/ MarkExecuting(d) \/ RecheckRecord(d) \/ Reserve(d)
  BY <1>6 DEF CheckRecord, MarkExecuting, RecheckRecord, Reserve, Finish
<1>7. CASE CallTool(d) \/ SettleCall(d)
  BY <1>7 DEF CallTool, SettleCall, Finish
<1> QED
  BY <1>1, <1>2, <1>3, <1>4, <1>5, <1>6, <1>7 DEF DriverStep, GraphStep

-----------------------------------------------------------------------------
(* The variables of a driver                                               *)

\* The call a driver is at is a call of an answer of the model.
LEMMA CallFacts ==
  ASSUME GraphTypeOK, NEW d \in Drivers, pos[d] \in 1..Len(mem[d].msg)
  PROVE  /\ mem[d].msg \in Messages /\ pos[d] \in DOMAIN mem[d].msg
         /\ Call(d) \in ToolCall /\ Call(d).id \in ToolIds \cup {NoId} /\ Call(d).kind \in Kinds
<1>1. mem[d].msg \in Messages \cup {<<>>}
  BY DEF GraphTypeOK, AgentState
<1>2. mem[d].msg # <<>>
  <2>1. Len(<<>>) = 0
    OBVIOUS
  <2>2. pos[d] \notin 1..0
    OBVIOUS
  <2> QED
    BY <2>1, <2>2, Zenon
<1>3. mem[d].msg \in Seq(ToolCall)
  BY <1>1, <1>2, GraphAssumption
<1>4. pos[d] \in DOMAIN mem[d].msg /\ Call(d) \in ToolCall
  BY <1>3 DEF Call
<1> QED
  BY <1>1, <1>2, <1>4 DEF ToolCall

\* MoreCalls puts a driver at a call of its message.
LEMMA MoreCallsAt ==
  ASSUME GraphTypeOK, NEW d \in Drivers, DriverInv(d), MoreCalls(d)
  PROVE  pos[d] \in 1..Len(mem[d].msg)
<1>1. pos[d] \in Nat /\ pos[d] >= 1 /\ pos[d] <= Len(mem[d].msg)
  BY DEF GraphTypeOK, DriverInv, MoreCalls
<1>2. mem[d].msg \in Messages \cup {<<>>}
  BY DEF GraphTypeOK, AgentState
<1>3. mem[d].msg \in Seq(ToolCall)
  <2>1. <<>> \in Seq(ToolCall)
    OBVIOUS
  <2> QED
    BY <1>2, <2>1, GraphAssumption
<1>4. Len(mem[d].msg) \in Nat
  BY <1>3
<1> QED
  BY <1>1, <1>4

\* A driver that has not changed, while the decisions stand, keeps its invariant.
LEMMA DriverKept ==
  ASSUME NEW d \in Drivers, DriverInv(d), UNCHANGED policy,
         at'[d] = at[d], mem'[d] = mem[d], pos'[d] = pos[d], done'[d] = done[d],
         resume'[d] = resume[d],
         d \in Requests /\ pc[d] \in Decided => pc'[d] = pc[d]
  PROVE  DriverInv(d)'
<1>1. Call(d)' = Call(d)
  BY DEF Call
<1>2. Guarded(Call(d))' = Guarded(Call(d))
  BY <1>1 DEF Guarded
<1>3. d \in Requests /\ (at[d] # "unused" \/ resume[d] # "none") => pc[d] \in Decided
  BY DEF DriverInv
<1>4. at[d] \in CallLabels => at[d] # "unused"
  BY DEF CallLabels, UnsentLabels
<1> QED
  BY <1>1, <1>2, <1>3, <1>4 DEF DriverInv

\* tool_node finishes a call: the next one is considered.
LEMMA Finishes ==
  ASSUME GraphTypeOK, NEW d \in Drivers, DriverInv(d), pos[d] \in 1..Len(mem[d].msg),
         Skip(d) \/ Finish(d), UNCHANGED <<mem, policy, pc>>,
         \/ UNCHANGED resume
         \/ resume' = [resume EXCEPT ![d] = "none"],
         at[d] # "unused"
  PROVE  /\ DriverInv(d)'
         /\ pos' \in [Drivers -> Nat] /\ done' \in [Drivers -> SUBSET ToolIds]
         /\ at' \in [Drivers -> Labels] /\ resume' \in [Drivers -> {"none", "approved", "rejected"}]
<1>1. Call(d).id \in ToolIds \cup {NoId}
  BY CallFacts
<1>2. pos[d] + 1 \in Nat /\ pos[d] + 1 >= 1
  BY DEF GraphTypeOK
<1>3. at' = [at EXCEPT ![d] = "tool_call"] /\ pos' = [pos EXCEPT ![d] = pos[d] + 1]
  BY DEF Skip, Finish, Move
<1>4. done' \in [Drivers -> SUBSET ToolIds]
  <2>1. done \in [Drivers -> SUBSET ToolIds]
    BY DEF GraphTypeOK
  <2>2. \/ done' = done
        \/ done' = [done EXCEPT ![d] = @ \cup ({Call(d).id} \ {NoId})]
    BY DEF Skip, Finish
  <2>3. {Call(d).id} \ {NoId} \subseteq ToolIds
    BY <1>1
  <2> QED
    BY <2>1, <2>2, <2>3
<1>5. at'[d] = "tool_call" /\ pos'[d] = pos[d] + 1 /\ resume'[d] \in {resume[d], "none"}
  BY <1>3 DEF GraphTypeOK
<1>6. pos' \in [Drivers -> Nat] /\ at' \in [Drivers -> Labels]
  BY <1>2, <1>3 DEF GraphTypeOK, Labels
<1>7. resume' \in [Drivers -> {"none", "approved", "rejected"}]
  BY DEF GraphTypeOK
<1>8. DriverInv(d)'
  BY <1>2, <1>5 DEF DriverInv, CallLabels, UnsentLabels
<1> QED
  BY <1>4, <1>6, <1>7, <1>8

\* A step that moves the driver to a label and changes nothing else of it.
LEMMA Relabels ==
  ASSUME GraphTypeOK, NEW d \in Drivers, NEW label \in Labels, Move(d, label),
         UNCHANGED <<mem, pos, done, thread, policy>>,
         \/ UNCHANGED resume
         \/ resume' = [resume EXCEPT ![d] = "none"]
  PROVE  /\ at'[d] = label /\ mem'[d] = mem[d] /\ pos'[d] = pos[d] /\ done'[d] = done[d]
         /\ resume'[d] \in {resume[d], "none"}
         /\ Call(d)' = Call(d) /\ Guarded(Call(d))' = Guarded(Call(d))
         /\ at' \in [Drivers -> Labels] /\ resume' \in [Drivers -> {"none", "approved", "rejected"}]
<1>1. at'[d] = label /\ at' \in [Drivers -> Labels]
  BY DEF GraphTypeOK, Move
<1>2. resume'[d] \in {resume[d], "none"} /\ resume' \in [Drivers -> {"none", "approved", "rejected"}]
  BY DEF GraphTypeOK
<1> QED
  BY <1>1, <1>2 DEF Call, Guarded


\* Arguments are those of a call of the model or of a stored call.
LEMMA ArgTypes ==
  ASSUME TypeOK, GraphTypeOK, NEW d \in Drivers, DriverInv(d), DriverStep(d)
  PROVE  canon' \in [Drivers -> ToolIds \cup {NoId}] /\ args' \in [Drivers -> ToolIds \cup {NoId}]
<1>0. canon \in [Drivers -> ToolIds \cup {NoId}] /\ args \in [Drivers -> ToolIds \cup {NoId}]
  BY DEF GraphTypeOK
<1>1. CASE UNCHANGED argVars
  BY <1>0, <1>1 DEF argVars
<1>2. CASE Resumes(d)
  <2>1. hitl[sid[d]].tool_call_id \in ToolIds \cup {NoId}
    BY <1>2 DEF Resumes, TypeOK, HITLTypeOK, HITLSession
  <2>2. UNCHANGED args /\ canon' = [canon EXCEPT ![d] = hitl[sid[d]].tool_call_id]
    BY <1>2 DEF Resumes, Resume
  <2> QED
    BY <1>0, <2>1, <2>2
<1>3. CASE AllowedCall(d)
  <2>1. Call(d).id \in ToolIds \cup {NoId}
    BY <1>3, CallFacts, MoreCallsAt DEF AllowedCall, Considered
  <2>2. UNCHANGED canon /\ args' = [args EXCEPT ![d] = Call(d).id]
    BY <1>3 DEF AllowedCall
  <2> QED
    BY <1>0, <2>1, <2>2
<1>4. CASE ResumedCall(d)
  <2>1. UNCHANGED canon /\ (UNCHANGED args \/ args' = [args EXCEPT ![d] = canon[d]])
    BY <1>4 DEF ResumedCall
  <2> QED
    BY <1>0, <2>1
<1> QED
  BY <1>1, <1>2, <1>3, <1>4
     DEF DriverStep, GraphStep, Die, RunGraph, RunTransferWorkflow, AgentNode, FinalAnswer,
         AgentNodeFails, SkipCall, Interrupt, CheckRecord, MarkExecuting, RecheckRecord, Reserve,
         CallTool, SettleCall, ToolNodeReturns

\* The steps of a driver that leave its memory and the checkpoints alone.
LEMMA CallStep ==
  ASSUME GraphTypeOK, NEW d \in Drivers, DriverInv(d), UNCHANGED pc,
         canon' \in [Drivers -> ToolIds \cup {NoId}], args' \in [Drivers -> ToolIds \cup {NoId}],
         \/ Die(d) \/ AgentNodeFails(d)
         \/ SkipCall(d) \/ AllowedCall(d) \/ Interrupt(d) \/ ResumedCall(d)
         \/ CheckRecord(d) \/ MarkExecuting(d) \/ RecheckRecord(d) \/ Reserve(d)
         \/ CallTool(d) \/ SettleCall(d)
  PROVE  GraphTypeOK' /\ DriverInv(d)'
<1> USE DEF Labels, Ended, CallLabels, UnsentLabels
<1>0. UNCHANGED <<ckpt, thread, policy, mem>>
  BY DEF Die, AgentNodeFails, SkipCall, AllowedCall, Interrupt, ResumedCall, CheckRecord,
         MarkExecuting, RecheckRecord, Reserve, CallTool, SettleCall
<1>a. ASSUME at' \in [Drivers -> Labels], pos' \in [Drivers -> Nat],
             done' \in [Drivers -> SUBSET ToolIds],
             resume' \in [Drivers -> {"none", "approved", "rejected"}], ok' \in [Drivers -> BOOLEAN]
      PROVE  GraphTypeOK'
  BY <1>0, <1>a DEF GraphTypeOK
<1>b. /\ UNCHANGED ok => ok' \in [Drivers -> BOOLEAN]
      /\ UNCHANGED pos => pos' \in [Drivers -> Nat]
      /\ UNCHANGED done => done' \in [Drivers -> SUBSET ToolIds]
  BY DEF GraphTypeOK
\* A call is finished.
<1>c. ASSUME pos[d] \in 1..Len(mem[d].msg), Skip(d) \/ Finish(d), at[d] # "unused",
             \/ UNCHANGED resume
             \/ resume' = [resume EXCEPT ![d] = "none"],
             ok' \in [Drivers -> BOOLEAN]
      PROVE  GraphTypeOK' /\ DriverInv(d)'
  BY <1>0, <1>a, <1>c, Finishes
\* The driver goes on with the call, or ends.
<1>d. ASSUME NEW label \in Labels, Move(d, label), UNCHANGED <<pos, done>>,
             \/ UNCHANGED resume
             \/ resume' = [resume EXCEPT ![d] = "none"],
             ok' \in [Drivers -> BOOLEAN], at[d] # "unused",
             \/ label \in {"failed", "died"}
             \/ /\ label = "interrupted" /\ pos[d] \in 1..Len(mem[d].msg) /\ Call(d).valid
                /\ policy[Call(d).kind] = "PENDING"
             \/ /\ label \in CallLabels /\ at[d] \in CallLabels /\ Call(d).id # NoId
             \/ /\ label \in CallLabels /\ pos[d] \in 1..Len(mem[d].msg) /\ Call(d).valid
                /\ Call(d).id \notin done[d] /\ (Call(d).id = NoId => label = "call_tool")
                /\ Guarded(Call(d)) => d \in Requests /\ pc[d] = "approved" /\ resume'[d] = "none"
      PROVE  GraphTypeOK' /\ DriverInv(d)'
  <2>1. /\ at'[d] = label /\ mem'[d] = mem[d] /\ pos'[d] = pos[d] /\ done'[d] = done[d]
        /\ resume'[d] \in {resume[d], "none"}
        /\ Call(d)' = Call(d) /\ Guarded(Call(d))' = Guarded(Call(d))
        /\ at' \in [Drivers -> Labels] /\ resume' \in [Drivers -> {"none", "approved", "rejected"}]
    BY <1>0, <1>d, Relabels
  <2>2. GraphTypeOK'
    BY <1>a, <1>b, <1>d, <2>1
  <2>3. at'[d] \notin {"unused", "agent_node", "tool_call"}
    BY <1>d, <2>1
  <2>4. (resume[d] # "none" => d \in Requests /\ resume[d] = pc[d]) /\ (d \in Requests => pc[d] \in Decided)
    BY <1>d DEF DriverInv
  <2>5. at'[d] \in CallLabels \cup {"interrupted"} => pos[d] \in 1..Len(mem[d].msg) /\ Call(d).valid
    BY <1>d, <2>1 DEF DriverInv
  <2>6. at'[d] = "interrupted" => policy[Call(d).kind] = "PENDING"
    BY <1>d, <2>1
  <2>7. at'[d] \in CallLabels =>
          /\ Call(d).id \notin done[d]
          /\ Call(d).id = NoId => at'[d] = "call_tool"
          /\ Guarded(Call(d)) => d \in Requests /\ pc[d] = "approved" /\ resume'[d] = "none"
    BY <1>d, <2>1 DEF DriverInv
  <2>8. DriverInv(d)'
    BY <1>0, <2>1, <2>3, <2>4, <2>5, <2>6, <2>7 DEF DriverInv
  <2> QED
    BY <2>2, <2>8
<1>1. CASE Die(d) \/ AgentNodeFails(d)
  <2>1. PICK label \in {"failed", "died"} : Move(d, label)
    BY <1>1 DEF Die, AgentNodeFails
  <2>2. at[d] # "unused" /\ UNCHANGED <<pos, done, resume, ok>>
    BY <1>1 DEF Die, AgentNodeFails
  <2> QED
    BY <1>b, <1>d, <2>1, <2>2
<1>2. CASE SkipCall(d)
  BY <1>2, <1>b, <1>c, MoreCallsAt DEF SkipCall, MoreCalls
<1>e. ASSUME NEW decision, Considered(d, decision)
      PROVE  /\ pos[d] \in 1..Len(mem[d].msg) /\ at[d] = "tool_call" /\ Call(d).id \notin done[d]
             /\ policy[Call(d).kind] = decision /\ Call(d).valid
  <2>1. MoreCalls(d) /\ ~AlreadyExecuted(d) /\ policy[Call(d).kind] = decision /\ Call(d).valid
    BY <1>e DEF Considered
  <2>2. done[d] \subseteq ToolIds
    BY DEF GraphTypeOK
  <2> QED
    BY <2>1, <2>2, MoreCallsAt, NoIdAssumption DEF AlreadyExecuted, MoreCalls
<1>3. CASE AllowedCall(d)
  <2>1. PICK label \in {"call_tool", "idem_get"} :
          Move(d, label) /\ (Call(d).id = NoId => label = "call_tool")
    BY <1>3 DEF AllowedCall, Execute
  <2>2. ~Guarded(Call(d)) /\ UNCHANGED <<pos, done, resume, ok>>
    BY <1>3, <1>e DEF AllowedCall, Guarded
  <2> QED
    BY <1>3, <1>b, <1>d, <1>e, <2>1, <2>2 DEF AllowedCall
<1>4. CASE Interrupt(d)
  BY <1>4, <1>b, <1>d, <1>e DEF Interrupt
<1>5. CASE ResumedCall(d)
  <2>1. /\ Considered(d, "PENDING") /\ resume[d] # "none"
        /\ resume' = [resume EXCEPT ![d] = "none"] /\ UNCHANGED ok
    BY <1>5 DEF ResumedCall
  <2>2. resume'[d] = "none"
    BY <2>1 DEF GraphTypeOK
  <2>3. CASE Finish(d)
    BY <1>b, <1>c, <1>e, <2>1, <2>3
  <2>4. CASE resume[d] = "approved" /\ Execute(d) /\ UNCHANGED <<pos, done>>
    <3>1. d \in Requests /\ pc[d] = "approved"
      BY <2>4 DEF DriverInv
    <3>2. PICK label \in {"call_tool", "idem_get"} :
            Move(d, label) /\ (Call(d).id = NoId => label = "call_tool")
      BY <2>4 DEF Execute
    <3> QED
      BY <1>b, <1>d, <1>e, <2>1, <2>2, <2>4, <3>1, <3>2
  <2> QED
    BY <1>5, <2>3, <2>4 DEF ResumedCall
<1>6. CASE CheckRecord(d) \/ MarkExecuting(d) \/ RecheckRecord(d) \/ Reserve(d)
  <2>1. at[d] \in UnsentLabels \ {"call_tool"} /\ UNCHANGED <<resume, ok>>
    BY <1>6 DEF CheckRecord, MarkExecuting, RecheckRecord, Reserve
  <2>2. pos[d] \in 1..Len(mem[d].msg) /\ Call(d).id # NoId
    BY <2>1 DEF DriverInv
  <2>3. \/ Finish(d)
        \/ \E label \in CallLabels : Move(d, label) /\ UNCHANGED <<pos, done>>
    BY <1>6 DEF CheckRecord, MarkExecuting, RecheckRecord, Reserve
  <2> QED
    BY <1>b, <1>c, <1>d, <2>1, <2>2, <2>3
<1>7. CASE CallTool(d) \/ SettleCall(d)
  <2>1. at[d] \in CallLabels /\ pos[d] \in 1..Len(mem[d].msg) /\ UNCHANGED resume
    BY <1>7 DEF CallTool, SettleCall, DriverInv
  <2>2. ok' \in [Drivers -> BOOLEAN]
    BY <1>7 DEF CallTool, SettleCall, GraphTypeOK
  <2>3. \/ Finish(d)
        \/ Move(d, "settle") /\ Call(d).id # NoId /\ UNCHANGED <<pos, done>>
        \/ Move(d, "failed") /\ UNCHANGED <<pos, done>>
    BY <1>7 DEF CallTool, SettleCall
  <2> QED
    BY <1>c, <1>d, <2>1, <2>2, <2>3
<1> QED
  BY <1>1, <1>2, <1>3, <1>4, <1>5, <1>6, <1>7


\* A new answer of the model, or a checkpoint, is entered at its first call.
LEMMA NodeStep ==
  ASSUME GraphTypeOK, NEW d \in Drivers, DriverInv(d), UNCHANGED pc,
         canon' \in [Drivers -> ToolIds \cup {NoId}], args' \in [Drivers -> ToolIds \cup {NoId}],
         \/ AgentNode(d) \/ FinalAnswer(d) \/ ToolNodeReturns(d)
         \/ d \in AgentRuns /\ (RunGraph(d) \/ RunTransferWorkflow(d))
         \/ Resumes(d)
  PROVE  GraphTypeOK' /\ DriverInv(d)'
<1> USE DEF Labels, Ended, CallLabels, UnsentLabels
<1> DEFINE s == thread[d]
<1>0. /\ s \in Sessions /\ mem[d] \in AgentState /\ ckpt[s] \in AgentState
      /\ UNCHANGED <<thread, policy, ok>> /\ done[d] \subseteq ToolIds
  BY DEF GraphTypeOK, AgentNode, FinalAnswer, ToolNodeReturns, RunGraph, RunTransferWorkflow,
         Resumes, Resume
<1>1. Blank \in AgentState
  BY DEF Blank, AgentState
\* The type of everything a node leaves.
<1>a. ASSUME NEW state \in AgentState, mem' = [mem EXCEPT ![d] = state],
             ckpt' \in {ckpt, [ckpt EXCEPT ![s] = state]},
             NEW label \in Labels, Move(d, label),
             pos' \in [Drivers -> Nat], done' \in [Drivers -> SUBSET ToolIds],
             resume' \in [Drivers -> {"none", "approved", "rejected"}]
      PROVE  GraphTypeOK' /\ mem'[d] = state /\ at'[d] = label
  BY <1>0, <1>a DEF GraphTypeOK, Move
<1>b. ASSUME NEW state \in AgentState, EnterToolNode(d, state),
             ckpt' \in {ckpt, [ckpt EXCEPT ![s] = state]},
             resume' \in [Drivers -> {"none", "approved", "rejected"}],
             resume'[d] # "none" => d \in Requests /\ resume'[d] = pc[d],
             d \in Requests => pc[d] \in Decided
      PROVE  GraphTypeOK' /\ DriverInv(d)'
  <2>1. state.ids \subseteq ToolIds
    BY DEF AgentState
  <2>2. /\ mem' = [mem EXCEPT ![d] = state] /\ pos' = [pos EXCEPT ![d] = 1]
        /\ done' = [done EXCEPT ![d] = state.ids] /\ Move(d, "tool_call")
    BY <1>b DEF EnterToolNode
  <2>3. pos' \in [Drivers -> Nat] /\ done' \in [Drivers -> SUBSET ToolIds] /\ pos'[d] = 1
    BY <2>1, <2>2 DEF GraphTypeOK
  <2>4. GraphTypeOK' /\ at'[d] = "tool_call"
    BY <1>a, <1>b, <2>2, <2>3
  <2>5. DriverInv(d)'
    BY <1>b, <2>3, <2>4 DEF DriverInv
  <2> QED
    BY <2>4, <2>5
\* The other entries: agent_node next, or an end.
<1>c. ASSUME NEW state \in AgentState, mem' = [mem EXCEPT ![d] = state],
             ckpt' \in {ckpt, [ckpt EXCEPT ![s] = state]},
             NEW label \in {"agent_node", "answered"}, Move(d, label),
             UNCHANGED <<pos, done>>, done[d] \subseteq state.ids \/ label = "answered",
             resume' \in [Drivers -> {"none", "approved", "rejected"}],
             resume'[d] # "none" => d \in Requests /\ resume'[d] = pc[d],
             d \in Requests => pc[d] \in Decided
      PROVE  GraphTypeOK' /\ DriverInv(d)'
  <2>1. GraphTypeOK' /\ mem'[d] = state /\ at'[d] = label
    BY <1>a, <1>c DEF GraphTypeOK
  <2>2. DriverInv(d)'
    BY <1>c, <2>1 DEF DriverInv
  <2> QED
    BY <2>1, <2>2
<1>d. at[d] # "unused" =>
        /\ resume[d] # "none" => d \in Requests /\ resume[d] = pc[d]
        /\ d \in Requests => pc[d] \in Decided
  BY DEF DriverInv
<1>e. UNCHANGED resume => resume' \in [Drivers -> {"none", "approved", "rejected"}]
  BY DEF GraphTypeOK
<1>f. mem[d].step + 1 \in Nat
  BY <1>0 DEF AgentState
<1>2. CASE AgentNode(d)
  <2>1. PICK m \in Messages :
          /\ EnterToolNode(d, [mem[d] EXCEPT !.node = "tool_node", !.msg = m, !.step = @ + 1])
          /\ ckpt' = [ckpt EXCEPT ![s] = [mem[d] EXCEPT !.node = "tool_node", !.msg = m, !.step = @ + 1]]
    BY <1>2 DEF AgentNode
  <2>2. [mem[d] EXCEPT !.node = "tool_node", !.msg = m, !.step = @ + 1] \in AgentState
    BY <1>0, <1>f DEF AgentState
  <2>3. at[d] = "agent_node" /\ UNCHANGED resume
    BY <1>2 DEF AgentNode
  <2> QED
    BY <1>b, <1>d, <1>e, <2>1, <2>2, <2>3
<1>3. CASE FinalAnswer(d)
  <2> DEFINE state == [mem[d] EXCEPT !.node = "end", !.step = @ + 1, !.msg = <<>>]
  <2>1. state \in AgentState
    BY <1>0, <1>f DEF AgentState
  <2>2. /\ mem' = [mem EXCEPT ![d] = state] /\ ckpt' = [ckpt EXCEPT ![s] = mem'[d]]
        /\ Move(d, "answered") /\ UNCHANGED <<pos, done, resume>> /\ at[d] = "agent_node"
    BY <1>3 DEF FinalAnswer
  <2>3. mem'[d] = state
    BY <2>2 DEF GraphTypeOK
  <2> QED
    BY <1>c, <1>d, <1>e, <2>1, <2>2, <2>3
<1>4. CASE ToolNodeReturns(d)
  <2> DEFINE state == [mem[d] EXCEPT !.node = "agent_node", !.ids = done[d]]
  <2>1. state \in AgentState /\ state.ids = done[d]
    BY <1>0 DEF AgentState
  <2>2. /\ mem' = [mem EXCEPT ![d] = state] /\ ckpt' = [ckpt EXCEPT ![s] = mem'[d]]
        /\ Move(d, "agent_node") /\ UNCHANGED <<pos, done, resume>> /\ at[d] = "tool_call"
    BY <1>4 DEF ToolNodeReturns
  <2>3. mem'[d] = state
    BY <2>2 DEF GraphTypeOK
  <2> QED
    BY <1>c, <1>d, <1>e, <2>1, <2>2, <2>3
<1>5. CASE d \in AgentRuns /\ (RunGraph(d) \/ RunTransferWorkflow(d))
  <2>1. PICK state \in AgentState :
          mem' = [mem EXCEPT ![d] = state] /\ ckpt' = [ckpt EXCEPT ![s] = mem'[d]]
    <3>1. [Blank EXCEPT !.node = "agent_node"] \in AgentState
      BY DEF Blank, AgentState
    <3>2. [Blank EXCEPT !.node = "agent_node", !.step = 1, !.ids = ckpt[s].ids] \in AgentState
      BY <1>0 DEF Blank, AgentState
    <3> QED
      BY <1>5, <3>1, <3>2 DEF RunGraph, RunTransferWorkflow
  <2>2. /\ Move(d, "agent_node") /\ UNCHANGED <<pos, done, resume>>
        /\ at[d] = "unused" /\ d \notin Requests
    BY <1>5 DEF RunGraph, RunTransferWorkflow, AgentRuns
  <2>3. mem'[d] = state
    BY <2>1 DEF GraphTypeOK
  <2>4. done[d] = {} /\ resume[d] = "none"
    BY <2>2 DEF DriverInv
  <2> QED
    BY <1>c, <1>e, <2>1, <2>2, <2>3, <2>4
<1>6. CASE Resumes(d)
  <2>1. /\ at[d] = "unused" /\ resume' = [resume EXCEPT ![d] = pc[d]] /\ UNCHANGED ckpt
        /\ d \in Requests /\ pc[d] \in Decided
    BY <1>6 DEF Resumes, Resume
  <2>2. resume' \in [Drivers -> {"none", "approved", "rejected"}] /\ resume'[d] = pc[d]
    BY <1>6, <2>1 DEF GraphTypeOK, Decided
  <2>3. done[d] = {}
    BY <2>1 DEF DriverInv
  <2>4. CASE EnterToolNode(d, ckpt[s])
    BY <1>0, <1>6, <1>b, <2>1, <2>2, <2>4
  <2>5. CASE mem' = [mem EXCEPT ![d] = ckpt[s]] /\ Move(d, "agent_node") /\ UNCHANGED <<pos, done>>
    BY <1>0, <1>6, <1>c, <2>1, <2>2, <2>3, <2>5
  <2>6. CASE Move(d, "answered") /\ UNCHANGED <<mem, pos, done>>
    <3>1. mem' = [mem EXCEPT ![d] = mem[d]]
      BY <2>6 DEF GraphTypeOK
    <3> QED
      BY <1>0, <1>6, <1>c, <2>1, <2>2, <2>6, <3>1
  <2> QED
    BY <1>6, <2>4, <2>5, <2>6 DEF Resumes, Resume
<1> QED
  BY <1>2, <1>3, <1>4, <1>5, <1>6

\* Every step of a driver keeps the types of the graph and its own invariant.
LEMMA DriverOwn ==
  ASSUME TypeOK, GraphTypeOK, NEW d \in Drivers, DriverInv(d), UNCHANGED pc, DriverStep(d)
  PROVE  GraphTypeOK' /\ DriverInv(d)'
BY ArgTypes, CallStep, NodeStep DEF DriverStep, GraphStep

-----------------------------------------------------------------------------
(* Types, and the two sides of a run                                       *)

\* A step of a decision is a step of the executor; only that request moves, and a
\* request that has answered stays so.
LEMMA RequestFrame ==
  ASSUME TypeOK, NEW r \in Requests, RequestStep(r)
  PROVE  /\ [Next]_vars
         /\ \A q \in Requests \ {r} : pc'[q] = pc[q]
         /\ pc[r] \notin Results
<1>1. [Next]_vars
  BY DEF RequestStep, Next
<1>2. PICK label : Goto(r, label)
  BY DEF RequestStep, StartApprove, StartReject, CrashRequest, Advance, ApproveLoad,
     ExpireOnApprove, ReconcileSession, ReconcileGrant, ApproveGrant, ApproveSession, ClaimGrant,
     CheckIdempotency, ReserveKey, Dispatch, SettleIdempotency, SettleGrant, SettleSession,
     RejectLoad, RejectSession, RejectGrant, PersistEvent, PersistAt
<1>3. pc[r] \notin Results
  BY DEF RequestStep, StartApprove, StartReject, CrashRequest, Advance, ApproveLoad,
     ExpireOnApprove, ReconcileSession, ReconcileGrant, ApproveGrant, ApproveSession, ClaimGrant,
     CheckIdempotency, ReserveKey, Dispatch, SettleIdempotency, SettleGrant, SettleSession,
     RejectLoad, RejectSession, RejectGrant, PersistEvent, PersistAt, At, Results
<1>4. \A q \in Requests \ {r} : pc'[q] = pc[q]
  BY <1>2 DEF Goto, TypeOK
<1> QED
  BY <1>1, <1>3, <1>4

\* A run of the graph keeps the types of the records and counters it shares.
LEMMA SharedTypes ==
  ASSUME IdempotencyTypeOK, NEW d \in Drivers, DriverStep(d)
  PROVE  IdempotencyTypeOK'
<1>1. CASE UNCHANGED <<idem, dispatched>>
  BY <1>1 DEF IdempotencyTypeOK
<1>2. CASE CallTool(d)
  <2>1. UNCHANGED idem /\ (UNCHANGED dispatched \/ call_tool(CallKey(d)))
    BY <1>2 DEF CallTool
  <2> QED
    BY <1>1, <2>1, CallToolType
<1>3. CASE MarkExecuting(d) \/ Reserve(d) \/ SettleCall(d)
  <2>1. PICK from \in SUBSET (IdempotencyStatus \cup {"NONE"}), to \in IdempotencyStatus :
          SetStatus(CallKey(d), from, to)
    BY <1>3 DEF MarkExecuting, Reserve, SettleCall, mark_executing, reserve, mark_succeeded,
                idem_mark_failed, IdempotencyStatus
  <2> QED
    BY <1>3, <2>1, SetStatusType DEF MarkExecuting, Reserve, SettleCall
<1> QED
  BY <1>1, <1>2, <1>3
     DEF DriverStep, GraphStep, Die, Resumes, Resume, RunGraph, RunTransferWorkflow, AgentNode,
         FinalAnswer, AgentNodeFails, SkipCall, AllowedCall, Interrupt, ResumedCall, CheckRecord, RecheckRecord,
         ToolNodeReturns

\* The handler's own variables keep their types.
LEMMA HandlerTypes ==
  ASSUME SysTypeOK, [SysNext]_sysVars
  PROVE  /\ router' \in BOOLEAN /\ EventTypeOK'
         /\ route' \in [AgentRuns -> {"none", "graph", "transfer"}]
         /\ api' \in [AgentRuns -> {"running", "insert", "returned"}]
<1>1. router' = router
  BY DEF SysNext, SysUndisturbed, SysCrash, AgentRequest, ReportEnd, ReportInterrupt,
     TransferReturns, SuspendRun, SuspendFails, StoreGrant, Executor, ResumeAfterDecision, RunStep,
     sysVars
<1>2. route' \in [AgentRuns -> {"none", "graph", "transfer"}]
  BY DEF SysTypeOK, SysNext, SysUndisturbed, SysCrash, AgentRequest, ReportEnd, ReportInterrupt,
     TransferReturns, SuspendRun, SuspendFails, StoreGrant, Executor, ResumeAfterDecision, RunStep,
     sysVars
<1>3. api' \in [AgentRuns -> {"running", "insert", "returned"}]
  BY DEF SysTypeOK, SysNext, SysUndisturbed, SysCrash, AgentRequest, ReportEnd, ReportInterrupt,
     TransferReturns, SuspendRun, SuspendFails, StoreGrant, Executor, ResumeAfterDecision, RunStep,
     sysVars
<1>4. EventTypeOK'
  <2>0. EventTypeOK /\ TypeOK /\ thread \in [Drivers -> Sessions] /\ AgentRuns \subseteq Drivers
    BY DEF SysTypeOK, TypeOK, GraphTypeOK, AgentRuns
  <2>1. CASE UNCHANGED events
    BY <2>0, <2>1 DEF EventTypeOK
  <2>2. ASSUME NEW d \in AgentRuns, AgentRequest(d) PROVE EventTypeOK'
    <3>1. EmptyTrail \in [Seqs -> EventKind \cup {"NONE"}]
      BY DEF EmptyTrail
    <3>2. RunTrail \in [Seqs -> EventKind \cup {"NONE"}]
      BY <3>1 DEF RunTrail, EventKind
    <3>3. RoutedTrail \in [Seqs -> EventKind \cup {"NONE"}]
      BY <3>2 DEF RoutedTrail, EventKind
    <3>4. PICK trail \in [Seqs -> EventKind \cup {"NONE"}] : StoreTrail(thread[d], trail)
      BY <2>2, <3>2, <3>3 DEF AgentRequest
    <3> QED
      BY <2>0, <3>4 DEF StoreTrail, EventTypeOK
  <2>3. ASSUME NEW d \in AgentRuns, ReportEnd(d) \/ ReportInterrupt(d) PROVE EventTypeOK'
    <3>1. \/ UNCHANGED events
          \/ \E kind \in {"AGENT_MESSAGE", "CHECKPOINT", "HITL_INTERRUPT"} :
               persist_event(thread[d], 1, kind)
      BY <2>3 DEF ReportEnd, ReportInterrupt
    <3>2. 1 \in Seqs /\ thread[d] \in Sessions
      BY <2>0 DEF Seqs
    <3>3. {"AGENT_MESSAGE", "CHECKPOINT", "HITL_INTERRUPT"} \subseteq EventKind
      BY DEF EventKind
    <3> QED
      BY <2>0, <2>1, <3>1, <3>2, <3>3, PersistEventType
  <2>4. ASSUME NEW r \in Requests, Executor(r) PROVE EventTypeOK'
    <3>1. RequestStep(r)
      BY <2>4 DEF Executor, RequestStep
    <3> QED
      BY <2>0, <3>1, RequestFrame, TypeStep DEF TypeOK
  <2> QED
    BY <2>1, <2>2, <2>3, <2>4
       DEF SysNext, SysUndisturbed, SysCrash, TransferReturns, SuspendRun, SuspendFails, StoreGrant,
           ResumeAfterDecision, RunStep, InsertSession, InsertGrant, CrashCreating, CrashRequest,
           executorVars, sysVars, vars
<1> QED
  BY <1>1, <1>2, <1>3, <1>4 DEF SysTypeOK

\* A run that has ended does nothing more.
LEMMA EndedStands ==
  ASSUME NEW d \in Drivers, DriverStep(d)
  PROVE  at[d] \notin Ended
BY DEF DriverStep, GraphStep, Die, Resumes, Resume, RunGraph, RunTransferWorkflow, AgentNode,
   FinalAnswer, AgentNodeFails, SkipCall, AllowedCall, Interrupt, ResumedCall, CheckRecord,
   MarkExecuting, RecheckRecord, Reserve, CallTool, SettleCall, ToolNodeReturns, MoreCalls,
   Considered, Ended

\* A decision does not change the tool call of any session.
LEMMA ToolCallKept ==
  ASSUME TypeOK, NEW r \in Requests, RequestStep(r), NEW s \in Sessions
  PROVE  hitl'[s].tool_call_id = hitl[s].tool_call_id
<1>0. hitl \in [Sessions -> HITLSession] /\ sid[r] \in Sessions
  BY DEF TypeOK, HITLTypeOK
<1>1. \/ UNCHANGED hitl
      \/ \E status \in HITLSessionStatus, v \in Nat : update_status(sid[r], status, v)
  BY DEF RequestStep, StartApprove, StartReject, CrashRequest, Advance, ApproveLoad,
     ExpireOnApprove, ReconcileSession, ReconcileGrant, ApproveGrant, ApproveSession, ClaimGrant,
     CheckIdempotency, ReserveKey, Dispatch, SettleIdempotency, SettleGrant, SettleSession,
     RejectLoad, RejectSession, RejectGrant, PersistEvent, TypeOK, HITLSessionStatus
<1>2. ASSUME NEW status \in HITLSessionStatus, NEW v \in Nat, update_status(sid[r], status, v)
      PROVE  hitl'[s].tool_call_id = hitl[s].tool_call_id
  BY <1>0, <1>2 DEF update_status, SetStatusOf
<1> QED
  BY <1>1, <1>2

\* The types of the whole system and the invariant of its runs.
LEMMA RunInvStep ==
  ASSUME SysTypeOK, RunInv, [SysNext]_sysVars
  PROVE  SysTypeOK' /\ RunInv'
<1>0. TypeOK /\ GraphTypeOK
  BY DEF SysTypeOK
<1>a. ASSUME TypeOK', GraphTypeOK' PROVE SysTypeOK'
  BY <1>a, HandlerTypes DEF SysTypeOK
<1>b. UNCHANGED <<hitl, late, grant, creating, reqVars>> /\ IdempotencyTypeOK' => TypeOK'
  BY <1>0, HandlerTypes DEF TypeOK, HITLTypeOK, GrantTypeOK, reqVars
<1>c. UNCHANGED graphVars => GraphTypeOK'
  BY <1>0 DEF graphVars, driverVars, argVars, GraphTypeOK
<1>e. ASSUME UNCHANGED graphVars,
             \A r \in Requests : pc[r] \in Decided => pc'[r] = pc[r]
      PROVE  \A d \in Drivers : DriverInv(d)'
  BY <1>e, DriverKept DEF graphVars, driverVars, argVars, RunInv
<1>f. UNCHANGED reqVars => UNCHANGED pc /\ UNCHANGED sid
  BY DEF reqVars
<1>g. AgentRuns \subseteq Drivers /\ Requests \subseteq Drivers
  BY SystemAssumption DEF AgentRuns
<1>1. ASSUME NEW d \in Drivers, DriverStep(d),
             UNCHANGED <<hitl, late, grant, creating, reqVars, router, api>>
      PROVE  SysTypeOK' /\ RunInv'
  <2>1. GraphTypeOK' /\ DriverInv(d)'
    BY <1>0, <1>1, <1>f, DriverOwn DEF RunInv
  <2>2. OnlyDriver(d)
    BY <1>0, <1>1, DriverFrame
  <2>3. ASSUME NEW e \in Drivers, e # d PROVE DriverInv(e)'
    BY <1>1, <1>f, <2>2, <2>3, DriverKept DEF RunInv, OnlyDriver
  <2>4. TypeOK'
    BY <1>0, <1>1, <1>b, SharedTypes DEF TypeOK
  <2>5. \A e \in AgentRuns : api'[e] = "insert" => at'[e] = "interrupted"
    <3>1. at[d] # "interrupted"
      BY <1>1, EndedStands DEF Ended
    <3> QED
      BY <1>1, <1>g, <2>2, <3>1 DEF RunInv, OnlyDriver
  <2>6. \A r \in Requests : sid'[r] = thread'[r]
    BY <1>1, <1>f, <2>2 DEF RunInv, OnlyDriver
  <2>7. \A s \in Sessions : hitl'[s].tool_call_id # NoId => Suspended(hitl[s].tool_call_id)'
    BY <1>1, <2>2 DEF RunInv, OnlyDriver, Suspended
  <2> QED
    BY <1>a, <2>1, <2>3, <2>4, <2>5, <2>6, <2>7 DEF RunInv
<1>2. ASSUME NEW r \in Requests, RequestStep(r), UNCHANGED <<graphVars, router, route, api>>
      PROVE  SysTypeOK' /\ RunInv'
  <2>1. TypeOK' /\ UNCHANGED sid
    BY <1>0, <1>2, RequestFrame, TypeStep, StepKinds
  <2>2. \A q \in Requests : pc[q] \in Decided => pc'[q] = pc[q]
    BY <1>0, <1>2, RequestFrame DEF Decided, Results
  <2>3. UNCHANGED <<at, thread, policy>>
    BY <1>2 DEF graphVars, driverVars, argVars
  <2>4. \A s \in Sessions : hitl'[s].tool_call_id # NoId => Suspended(hitl[s].tool_call_id)'
    BY <1>0, <1>2, <2>3, ToolCallKept DEF RunInv, Suspended
  <2> QED
    BY <1>2, <1>a, <1>c, <1>e, <2>1, <2>2, <2>3, <2>4 DEF RunInv
<1>3. ASSUME NEW d \in AgentRuns, HandlerStep(d) PROVE SysTypeOK' /\ RunInv'
  <2>1. UNCHANGED <<hitl, late, grant, idem, dispatched, creating, reqVars, graphVars>>
    BY <1>3 DEF HandlerStep, ReportEnd, ReportInterrupt, TransferReturns, SuspendFails, vars
  <2>2. TypeOK' /\ GraphTypeOK'
    BY <1>0, <1>b, <1>c, <2>1 DEF TypeOK, IdempotencyTypeOK
  <2>3. UNCHANGED <<at, thread, policy>>
    BY <2>1 DEF graphVars, driverVars, argVars
  <2>4. \A e \in AgentRuns : api'[e] = "insert" => at'[e] = "interrupted"
    BY <1>3, <2>3 DEF RunInv, SysTypeOK, HandlerStep, ReportEnd, ReportInterrupt, TransferReturns,
                      SuspendFails
  <2> QED
    BY <1>a, <1>e, <1>f, <2>1, <2>2, <2>3, <2>4 DEF RunInv, Suspended
<1>4. ASSUME NEW d \in AgentRuns, SuspendRun(d) PROVE SysTypeOK' /\ RunInv'
  <2>1. /\ InsertSession(thread[d], Call(d).id) /\ api[d] = "insert"
        /\ api' = [api EXCEPT ![d] = "returned"] /\ UNCHANGED graphVars
    BY <1>4 DEF SuspendRun
  <2>2. /\ thread[d] \in Sessions /\ at[d] = "interrupted" /\ pos[d] \in 1..Len(mem[d].msg)
        /\ policy[Call(d).kind] = "PENDING" /\ Call(d).valid
    BY <1>0, <1>g, <2>1 DEF RunInv, DriverInv, GraphTypeOK
  <2>3. Call(d).id \in ToolIds \cup {NoId} /\ Suspended(Call(d).id)
    BY <1>0, <1>g, <2>2, CallFacts DEF Suspended, Call
  <2>4. TypeOK'
    BY <1>0, <2>1, <2>2, <2>3, TypeStep DEF Next
  <2>5. UNCHANGED <<at, thread, policy>> /\ UNCHANGED reqVars
    BY <2>1 DEF graphVars, driverVars, argVars, InsertSession
  <2>6. \A s \in Sessions : hitl'[s].tool_call_id # NoId => Suspended(hitl[s].tool_call_id)'
    <3>1. \A s \in Sessions : hitl'[s].tool_call_id \in {hitl[s].tool_call_id, Call(d).id}
      BY <1>0, <2>1 DEF InsertSession, HITLInsert, TypeOK, HITLTypeOK
    <3> QED
      BY <2>3, <2>5, <3>1 DEF RunInv, Suspended
  <2>7. \A e \in AgentRuns : api'[e] = "insert" => at'[e] = "interrupted"
    BY <2>1, <2>5 DEF RunInv, SysTypeOK
  <2> QED
    BY <1>a, <1>c, <1>e, <1>f, <2>1, <2>4, <2>5, <2>6, <2>7 DEF RunInv
<1>5. ASSUME NEW s \in Sessions, InsertGrant(s) \/ CrashCreating(s),
             UNCHANGED <<graphVars, router, route, api>>
      PROVE  SysTypeOK' /\ RunInv'
  <2>1. TypeOK'
    BY <1>0, <1>5, TypeStep DEF Next
  <2>2. UNCHANGED <<hitl, reqVars, at, thread, policy>>
    BY <1>5 DEF InsertGrant, CrashCreating, graphVars, driverVars, argVars
  <2> QED
    BY <1>5, <1>a, <1>c, <1>e, <1>f, <2>1, <2>2 DEF RunInv, Suspended
<1>6. CASE UNCHANGED sysVars
  <2>1. UNCHANGED <<vars, graphVars, api>>
    BY <1>6 DEF sysVars
  <2>2. UNCHANGED <<hitl, reqVars, at, thread, policy>> /\ TypeOK'
    BY <1>0, <2>1, TypeStep DEF vars, graphVars, driverVars, argVars
  <2> QED
    BY <1>a, <1>c, <1>e, <1>f, <2>1, <2>2 DEF RunInv, Suspended
<1> QED
  BY <1>1, <1>2, <1>3, <1>4, <1>5, <1>6, SysKinds

\* No run has begun and no row exists.
LEMMA RunInvInit == SysInit => SysTypeOK /\ RunInv
<1> SUFFICES ASSUME SysInit PROVE SysTypeOK /\ RunInv
  OBVIOUS
<1>1. HITLTypeOK /\ GrantTypeOK
  BY DEF SysInit, HITLInit, GrantInit, HITLTypeOK, GrantTypeOK, NoSession, HITLSession, NoGrant,
         GrantRecord
<1>2. IdempotencyTypeOK
  BY DEF SysInit, IdempotencyTypeOK
<1>3. EventTypeOK
  BY DEF SysInit, EmptyTrail, EventTypeOK
<1>4. GraphTypeOK
  BY DEF SysInit, GraphInit, GraphTypeOK, Blank, AgentState, Labels
<1>5. sid \in [Requests -> Sessions] /\ \A r \in Requests : sid[r] = thread[r]
  BY <1>4, SystemAssumption DEF SysInit, GraphTypeOK
<1>6. TypeOK
  BY <1>1, <1>2, <1>3, <1>5 DEF SysInit, TypeOK, PC, Outcomes
<1>7. SysTypeOK
  BY <1>4, <1>6 DEF SysInit, SysTypeOK
<1>8. ASSUME NEW d \in Drivers PROVE DriverInv(d)
  BY DEF SysInit, GraphInit, DriverInv, CallLabels, UnsentLabels
<1>9. \A s \in Sessions : hitl[s].tool_call_id = NoId
  BY DEF SysInit, HITLInit, NoSession
<1>10. \A d \in AgentRuns : api[d] # "insert"
  BY DEF SysInit
<1> QED
  BY <1>5, <1>7, <1>8, <1>9, <1>10 DEF RunInv

\* Every reachable state of the system is well typed: tables, checkpoints, runs of the
\* graph and decisions.
THEOREM SysTypeCorrect == SysSpec => []SysTypeOK
<1>1. SysTypeOK /\ RunInv /\ [SysNext]_sysVars => (SysTypeOK /\ RunInv)'
  BY RunInvStep
<1> QED
  BY <1>1, RunInvInit, PTL DEF SysSpec

-----------------------------------------------------------------------------
(* Runs of the graph only move forward                                     *)

ToolLabels == CallLabels \cup {"tool_call"}

\* The order of the awaited calls for one tool call.
Rank(label) ==
  CASE label = "tool_call" -> 1
    [] label = "idem_get" -> 2
    [] label = "mark_executing" -> 3
    [] label = "idem_recheck" -> 4
    [] label = "reserve" -> 5
    [] label = "call_tool" -> 6
    [] label = "settle" -> 7

\* A run ends, leaves agent_node with its step counted and within the limit, leaves
\* tool_node after the last call, goes on to the next call, or to a later await of it.
Forward(d) ==
  \/ at'[d] \in Ended
  \/ /\ at[d] = "agent_node" /\ at'[d] = "tool_call"
     /\ mem'[d].step = mem[d].step + 1 /\ mem'[d].step <= MaxAgentSteps
  \/ /\ at[d] = "tool_call" /\ at'[d] = "agent_node"
     /\ pos[d] > Len(mem[d].msg) /\ mem'[d].step = mem[d].step
  \/ /\ at[d] \in ToolLabels /\ at'[d] = "tool_call" /\ mem'[d] = mem[d]
     /\ pos[d] \in 1..Len(mem[d].msg) /\ pos'[d] = pos[d] + 1
  \/ /\ at[d] \in ToolLabels /\ at'[d] \in ToolLabels /\ mem'[d] = mem[d] /\ pos'[d] = pos[d]
     /\ Rank(at[d]) < Rank(at'[d])

\* One step of a started run of the graph.
LEMMA DriverForward ==
  ASSUME GraphTypeOK, NEW d \in Drivers, DriverInv(d), DriverStep(d), at[d] # "unused"
  PROVE  Forward(d)
<1> USE DEF Forward, ToolLabels, CallLabels, UnsentLabels, Ended
<1>0. /\ at \in [Drivers -> Labels] /\ pos \in [Drivers -> Nat] /\ mem \in [Drivers -> AgentState]
  BY DEF GraphTypeOK
<1>1. ASSUME Skip(d) \/ Finish(d), UNCHANGED mem, pos[d] \in 1..Len(mem[d].msg), at[d] \in ToolLabels
      PROVE  Forward(d)
  BY <1>0, <1>1 DEF Skip, Finish, Move
<1>2. ASSUME NEW label \in ToolLabels, Move(d, label), UNCHANGED <<mem, pos>>, at[d] \in ToolLabels,
             Rank(at[d]) < Rank(label)
      PROVE  Forward(d)
  BY <1>0, <1>2 DEF Move
<1>3. CASE Die(d) \/ AgentNodeFails(d) \/ FinalAnswer(d) \/ Interrupt(d)
  BY <1>0, <1>3 DEF Die, AgentNodeFails, FinalAnswer, Interrupt, Move
<1>4. CASE AgentNode(d)
  <2>1. PICK m \in Messages :
          EnterToolNode(d, [mem[d] EXCEPT !.node = "tool_node", !.msg = m, !.step = mem[d].step + 1])
    BY <1>4 DEF AgentNode
  <2>2. mem'[d].step = mem[d].step + 1 /\ at'[d] = "tool_call"
    BY <1>0, <2>1 DEF EnterToolNode, Move, AgentState
  <2>3. at[d] = "agent_node" /\ mem[d].step < MaxAgentSteps /\ mem[d].step \in Nat
    BY <1>0, <1>4 DEF AgentNode, AgentState
  <2> QED
    BY <2>2, <2>3, GraphAssumption
<1>5. CASE ToolNodeReturns(d)
  <2>1. /\ at[d] = "tool_call" /\ pos[d] > Len(mem[d].msg)
        /\ mem' = [mem EXCEPT ![d] = [mem[d] EXCEPT !.node = "agent_node", !.ids = done[d]]]
        /\ at'[d] = "agent_node"
    BY <1>0, <1>5 DEF ToolNodeReturns, Move
  <2>2. mem'[d].step = mem[d].step
    BY <1>0, <2>1 DEF AgentState
  <2> QED
    BY <2>1, <2>2
<1>6. ASSUME MoreCalls(d)
      PROVE  at[d] = "tool_call" /\ pos[d] \in 1..Len(mem[d].msg)
  BY <1>6, MoreCallsAt DEF MoreCalls
<1>7. CASE SkipCall(d)
  BY <1>1, <1>6, <1>7 DEF SkipCall
<1>8. ASSUME at[d] = "tool_call", Execute(d), UNCHANGED <<mem, pos>> PROVE Forward(d)
  <2>1. CASE Call(d).id = NoId
    BY <1>2, <1>8, <2>1 DEF Execute, Rank
  <2>2. CASE Call(d).id # NoId
    BY <1>2, <1>8, <2>2 DEF Execute, Rank
  <2> QED
    BY <2>1, <2>2
<1>9. CASE AllowedCall(d)
  BY <1>6, <1>8, <1>9 DEF AllowedCall, Considered
<1>10. CASE ResumedCall(d)
  BY <1>1, <1>6, <1>8, <1>10 DEF ResumedCall, Considered
<1>11. ASSUME at[d] \in CallLabels PROVE pos[d] \in 1..Len(mem[d].msg)
  BY <1>11 DEF DriverInv
<1>12. CASE CheckRecord(d)
  <2>1. /\ at[d] = "idem_get" /\ UNCHANGED mem
        /\ \/ Finish(d)
           \/ Move(d, "mark_executing") /\ UNCHANGED pos
           \/ Move(d, "idem_recheck") /\ UNCHANGED pos
    BY <1>12 DEF CheckRecord
  <2> QED
    BY <1>1, <1>2, <1>11, <2>1 DEF Rank
<1>13. CASE MarkExecuting(d)
  BY <1>2, <1>13 DEF MarkExecuting, Rank
<1>14. CASE RecheckRecord(d)
  <2>1. /\ at[d] = "idem_recheck" /\ UNCHANGED <<mem, pos>>
        /\ Move(d, "reserve") \/ Move(d, "call_tool")
    BY <1>14 DEF RecheckRecord
  <2> QED
    BY <1>2, <2>1 DEF Rank
<1>15. CASE Reserve(d)
  BY <1>2, <1>15 DEF Reserve, Rank
<1>16. CASE CallTool(d)
  <2>1. /\ at[d] = "call_tool" /\ UNCHANGED mem
        /\ \/ Finish(d)
           \/ Move(d, "settle") /\ UNCHANGED pos
           \/ Move(d, "failed")
    BY <1>16 DEF CallTool
  <2>2. CASE Move(d, "failed")
    BY <1>0, <2>2 DEF Move
  <2> QED
    BY <1>1, <1>2, <1>11, <2>1, <2>2 DEF Rank
<1>17. CASE SettleCall(d)
  BY <1>1, <1>11, <1>17 DEF SettleCall
<1> QED
  BY <1>3, <1>4, <1>5, <1>7, <1>9, <1>10, <1>12, <1>13, <1>14, <1>15, <1>16, <1>17
     DEF DriverStep, GraphStep, Resumes, Resume, RunGraph, RunTransferWorkflow

\* No step of the system takes a run of the graph back: whatever other runs, decisions
\* and crashes do, a started run stays as it is or goes forward, and an ended one stays
\* ended.  A message has finitely many calls and step_count is bounded by
\* max_agent_steps, so a run takes finitely many steps.
THEOREM RunsMoveForward ==
  SysSpec => [][\A d \in Drivers :
                  \/ at[d] = "unused"
                  \/ at'[d] = at[d] /\ mem'[d] = mem[d] /\ pos'[d] = pos[d]
                  \/ at[d] \notin Ended /\ Forward(d)]_sysVars
<1> DEFINE Onward ==
      \A d \in Drivers :
        \/ at[d] = "unused"
        \/ at'[d] = at[d] /\ mem'[d] = mem[d] /\ pos'[d] = pos[d]
        \/ at[d] \notin Ended /\ Forward(d)
<1>1. SysTypeOK /\ RunInv /\ [SysNext]_sysVars => [Onward]_sysVars
  <2> SUFFICES ASSUME SysTypeOK, RunInv, [SysNext]_sysVars, NEW d \in Drivers
               PROVE  \/ at[d] = "unused"
                      \/ at'[d] = at[d] /\ mem'[d] = mem[d] /\ pos'[d] = pos[d]
                      \/ at[d] \notin Ended /\ Forward(d)
    OBVIOUS
  <2>1. ASSUME NEW e \in Drivers, DriverStep(e), e # d
        PROVE  at'[d] = at[d] /\ mem'[d] = mem[d] /\ pos'[d] = pos[d]
    BY <2>1, DriverFrame DEF SysTypeOK, OnlyDriver
  <2>2. ASSUME DriverStep(d), at[d] # "unused"
        PROVE  at[d] \notin Ended /\ Forward(d)
    BY <2>2, DriverForward, EndedStands DEF SysTypeOK, RunInv
  <2>3. ASSUME UNCHANGED graphVars
        PROVE  at'[d] = at[d] /\ mem'[d] = mem[d] /\ pos'[d] = pos[d]
    BY <2>3 DEF graphVars, driverVars, argVars
  <2>4. ASSUME NEW e \in AgentRuns, HandlerStep(e) \/ SuspendRun(e) PROVE UNCHANGED graphVars
    BY <2>4 DEF HandlerStep, ReportEnd, ReportInterrupt, TransferReturns, SuspendFails, SuspendRun
  <2>5. UNCHANGED sysVars => UNCHANGED graphVars
    BY DEF sysVars
  <2>6. \/ \E e \in Drivers : DriverStep(e)
        \/ UNCHANGED graphVars
    BY <2>4, <2>5, SysKinds
  <2> QED
    BY <2>1, <2>2, <2>3, <2>6
<1>2. SysTypeOK /\ RunInv /\ [SysNext]_sysVars => (SysTypeOK /\ RunInv)'
  BY RunInvStep
<1> QED
  BY <1>1, <1>2, RunInvInit, PTL DEF SysSpec

-----------------------------------------------------------------------------
(* One claimant per session                                                *)

\* A step of a decision after which nobody has newly claimed or settled a grant.
Calm(r) ==
  /\ pc'[r] \in ClaimedPC => pc[r] \in ClaimedPC
  /\ pc'[r] \in UnsettledPC => pc[r] \in UnsettledPC
  /\ pc'[r] \in ClaimedPC \cup SettlingPC \cup {"approved"} => Holding(r)
  /\ \A s \in Sessions :
       \/ grant'[s].status = grant[s].status
       \/ grant[s].status \notin ClaimedStatus /\ grant'[s].status \notin ClaimedStatus

\* What a step of a decision does to its label and to the grants.
LEMMA RequestMoves ==
  ASSUME TypeOK, NEW r \in Requests, RequestStep(r)
  PROVE  ClaimGrant(r) \/ SettleGrant(r) \/ Calm(r)
<1>0. pc \in [Requests -> PC] /\ grant \in [Sessions -> GrantRecord] /\ sid[r] \in Sessions
  BY DEF TypeOK, GrantTypeOK
<1>a. ASSUME NEW label, Goto(r, label), UNCHANGED grant,
             \/ label \notin ClaimedPC \cup SettlingPC \cup {"approved"}
             \/ label \in ClaimedPC /\ pc[r] \in ClaimedPC
             \/ label = "settle_idem" /\ pc[r] \in ClaimedPC
             \/ label = "settle_grant" /\ pc[r] \in UnsettledPC
             \/ label \in {"ev_settled", "approved"} /\ Holding(r)
      PROVE  Calm(r)
  <2>1. pc'[r] = label
    BY <1>0, <1>a DEF Goto
  <2> QED
    BY <1>a, <2>1 DEF Calm, UnsettledPC, Holding, ClaimedPC, SettlingPC
<1>b. ASSUME NEW label, Goto(r, label), NEW from, NEW to, Mark(sid[r], from, to),
             from \cap ClaimedStatus = {}, to \notin ClaimedStatus,
             label \notin ClaimedPC \cup SettlingPC \cup {"approved"}
      PROVE  Calm(r)
  <2>1. \A s \in Sessions :
          \/ grant'[s].status = grant[s].status
          \/ grant[s].status \notin ClaimedStatus /\ grant'[s].status \notin ClaimedStatus
    BY <1>0, <1>b DEF Mark, GrantRecord
  <2>2. pc'[r] = label
    BY <1>0, <1>b DEF Goto
  <2> QED
    BY <1>b, <2>1, <2>2 DEF Calm, UnsettledPC, SettlingPC
<1>1. CASE \/ StartApprove(r) \/ StartReject(r) \/ CrashRequest(r) \/ ApproveLoad(r) \/ RejectLoad(r)
           \/ ExpireOnApprove(r) \/ ReconcileSession(r) \/ ApproveSession(r) \/ RejectSession(r)
  <2>1. PICK label \in {"a_load", "r_load", "crashed", "error", "expire", "recon_hitl",
                        "approve_grant", "reject_hitl", "recon_grant", "ev_granted", "reject_grant"} :
          Goto(r, label) /\ UNCHANGED grant
    BY <1>1 DEF StartApprove, StartReject, CrashRequest, ApproveLoad, RejectLoad,
       ExpireOnApprove, ReconcileSession, ApproveSession, RejectSession
  <2> QED
    BY <2>1, <1>a DEF ClaimedPC, SettlingPC
<1>2. CASE CheckIdempotency(r) \/ ReserveKey(r) \/ Dispatch(r)
  <2>1. PICK label \in {"approved", "settle_grant", "idem_reserve", "ev_dispatch", "settle_idem"} :
          Goto(r, label) /\ pc[r] \in {"idem_get", "idem_reserve", "dispatch"} /\ UNCHANGED grant
    BY <1>2 DEF CheckIdempotency, ReserveKey, Dispatch, At
  <2> QED
    BY <2>1, <1>a DEF ClaimedPC, SettlingPC, UnsettledPC, Holding
<1>3. CASE SettleIdempotency(r) \/ SettleSession(r)
  <2>1. PICK label \in {"settle_grant", "ev_settled"} :
          /\ Goto(r, label) /\ UNCHANGED grant /\ pc[r] \in {"settle_idem", "settle_hitl"}
          /\ label = "settle_grant" => pc[r] = "settle_idem"
    BY <1>3 DEF SettleIdempotency, SettleSession, At
  <2> QED
    BY <2>1, <1>a DEF ClaimedPC, SettlingPC, UnsettledPC, Holding
<1>4. CASE PersistEvent(r)
  <2>1. \/ \E label \in {"reconciliation_required", "claim", "error", "rejected"} :
             Goto(r, label) /\ UNCHANGED grant
        \/ \E label \in {"idem_get", "dispatch"} :
             Goto(r, label) /\ UNCHANGED grant /\ pc[r] \in {"ev_claimed", "ev_dispatch"}
        \/ Goto(r, "approved") /\ UNCHANGED grant /\ pc[r] = "ev_settled"
    BY <1>4 DEF PersistEvent, PersistAt, At
  <2> QED
    BY <2>1, <1>a DEF ClaimedPC, SettlingPC, Holding
<1>5. CASE ReconcileGrant(r) \/ RejectGrant(r)
  <2>1. PICK label \in {"ev_recon", "ev_rejected"}, from \in SUBSET {"PENDING", "APPROVED"},
             to \in {"REJECTED", "RECONCILIATION_REQUIRED"} :
          Goto(r, label) /\ Mark(sid[r], from, to)
    BY <1>5 DEF ReconcileGrant, RejectGrant, mark_reconciliation_required, mark_rejected
  <2>2. from \cap ClaimedStatus = {} /\ to \notin ClaimedStatus
    BY <2>1 DEF ClaimedStatus
  <2> QED
    BY <2>1, <2>2, <1>b DEF ClaimedPC, SettlingPC
<1>6. CASE ApproveGrant(r)
  <2>1. PICK label \in {"approve_hitl", "error"} : Goto(r, label)
    BY <1>6 DEF ApproveGrant
  <2>2. pc'[r] = label
    BY <1>0, <2>1 DEF Goto
  <2>3. \A s \in Sessions :
          \/ grant'[s].status = grant[s].status
          \/ grant[s].status = "PENDING" /\ grant'[s].status = "APPROVED"
    BY <1>0, <1>6 DEF ApproveGrant, approve_pending, Approvable, GrantRecord
  <2> QED
    BY <2>1, <2>2, <2>3 DEF Calm, ClaimedPC, SettlingPC, UnsettledPC, ClaimedStatus
<1> QED
  BY <1>1, <1>2, <1>3, <1>4, <1>5, <1>6 DEF RequestStep, Advance

\* approve() works on a stored call of an identified actor, whoever else decides.
LEMMA KnownKept ==
  ASSUME TypeOK, KnownOperation, [Next]_vars
  PROVE  KnownOperation'
<1> SUFFICES ASSUME NEW r \in Requests, pc'[r] \in DecidedPC
             PROVE  /\ hitl'[sid[r]].status # "NONE"
                    /\ hitl'[sid[r]].tool_call_id \in ToolIds
                    /\ actor[r] \in Actors
  BY StepKinds DEF KnownOperation, Exists
<1>1. /\ sid[r] \in Sessions /\ actor[r] \in Actors \cup {NoActor}
      /\ hitl[sid[r]].tool_call_id \in ToolIds \cup {NoId}
  BY DEF TypeOK, HITLTypeOK, HITLSession
<1>2. CASE pc[r] \in DecidedPC
  BY <1>1, <1>2, SessionKept DEF KnownOperation
<1>3. CASE ApproveLoad(r) /\ pc[r] \notin DecidedPC
  <2>1. pc' = [pc EXCEPT ![r] = "approve_grant"]
    BY <1>3 DEF ApproveLoad, Goto, TypeOK, DecidedPC, ClaimedPC, SettlingPC
  <2>2. pc'[r] = "approve_grant"
    BY <2>1 DEF TypeOK
  <2>3. Exists(sid[r]) /\ hitl[sid[r]].tool_call_id # NoId /\ actor[r] # NoActor
    BY <1>3, <2>2 DEF ApproveLoad, Goto, TypeOK
  <2> QED
    BY <1>1, <2>3, SessionKept
<1> QED
  BY <1>2, <1>3, StepKinds

\* Steps that let nobody claim or settle.
LEMMA GrantCalm ==
  ASSUME GrantInv, KnownOperation', UNCHANGED sid,
         \A r \in Requests :
           /\ pc'[r] \in UnsettledPC => pc[r] \in UnsettledPC
           /\ pc'[r] \in ClaimedPC \cup SettlingPC \cup {"approved"} => Claimant(r),
         sid \in [Requests -> Sessions],
         \A s \in Sessions :
           \/ grant'[s].status = grant[s].status
           \/ grant[s].status \notin ClaimedStatus /\ grant'[s].status \notin ClaimedStatus
  PROVE  GrantInv'
<1>1. \A r \in Requests : Claimant(r)' => Claimant(r)
  BY DEF Claimant, Holding
<1>2. \A r \in Requests : pc'[r] \in UnsettledPC => grant'[sid'[r]].status = "CONSUMING"
  BY DEF GrantInv, ClaimedStatus
<1>3. \A r \in Requests : Claimant(r)' => grant'[sid'[r]].status \in ClaimedStatus
  BY <1>1 DEF GrantInv
<1>4. \A q, r \in Requests : Claimant(q)' /\ Claimant(r)' /\ sid'[q] = sid'[r] => q = r
  BY <1>1 DEF GrantInv
<1> QED
  BY <1>2, <1>3, <1>4 DEF GrantInv

\* A step of a decision keeps the claim of every session exclusive.
LEMMA GrantRequest ==
  ASSUME TypeOK, GrantInv, NEW r \in Requests, RequestStep(r)
  PROVE  GrantInv'
<1> DEFINE x == sid[r]
<1>0. /\ x \in Sessions /\ sid \in [Requests -> Sessions] /\ pc \in [Requests -> PC]
      /\ grant \in [Sessions -> GrantRecord]
  BY DEF TypeOK, GrantTypeOK
<1>1. /\ UNCHANGED sid /\ KnownOperation'
      /\ \A q \in Requests \ {r} : pc'[q] = pc[q]
  BY RequestFrame, StepKinds, KnownKept DEF GrantInv
<1>2. CASE Calm(r)
  BY <1>0, <1>1, <1>2, GrantCalm DEF Calm, Claimant, Holding
<1>3. CASE ClaimGrant(r)
  <2>1. CASE ~Claimable(x, actor[r])
    <3>1. UNCHANGED grant /\ pc' = [pc EXCEPT ![r] = "error"]
      BY <1>3, <2>1 DEF ClaimGrant, atomic_consume, Goto
    <3>2. pc'[r] = "error"
      BY <1>0, <3>1
    <3> QED
      BY <1>0, <1>1, <3>1, <3>2, GrantCalm DEF Claimant, Holding, ClaimedPC, SettlingPC, UnsettledPC
  <2>2. CASE Claimable(x, actor[r])
    <3>1. /\ grant[x].status = "APPROVED"
          /\ grant' = [grant EXCEPT ![x].status = "CONSUMING"]
          /\ pc' = [pc EXCEPT ![r] = "ev_claimed"]
      BY <1>3, <2>2 DEF ClaimGrant, atomic_consume, Claimable, Goto
    <3>2. /\ grant'[x].status = "CONSUMING" /\ \A y \in Sessions \ {x} : grant'[y] = grant[y]
          /\ pc'[r] = "ev_claimed"
      BY <1>0, <3>1 DEF GrantRecord
    <3>3. \A q \in Requests : Claimant(q) => sid[q] # x
      BY <3>1 DEF GrantInv, ClaimedStatus
    <3>4. \A q \in Requests \ {r} : Claimant(q)' = Claimant(q)
      BY <1>1 DEF Claimant, Holding
    <3>5. ASSUME NEW q \in Requests, pc'[q] \in UnsettledPC
          PROVE  grant'[sid[q]].status = "CONSUMING"
      <4>1. CASE q = r
        BY <3>2, <4>1
      <4>2. CASE q # r
        <5>1. pc[q] \in UnsettledPC /\ Claimant(q) /\ sid[q] \in Sessions
          BY <1>0, <1>1, <3>5, <4>2 DEF UnsettledPC, Claimant, Holding, SettlingPC
        <5> QED
          BY <3>2, <3>3, <5>1 DEF GrantInv
      <4> QED
        BY <4>1, <4>2
    <3>6. ASSUME NEW q \in Requests, Claimant(q)' PROVE grant'[sid[q]].status \in ClaimedStatus
      <4>1. CASE q = r
        BY <3>2, <4>1 DEF ClaimedStatus
      <4>2. CASE q # r
        BY <1>0, <3>2, <3>3, <3>4, <3>6, <4>2 DEF GrantInv
      <4> QED
        BY <4>1, <4>2
    <3>7. \A p, q \in Requests : Claimant(p)' /\ Claimant(q)' /\ sid[p] = sid[q] => p = q
      BY <3>3, <3>4 DEF GrantInv
    <3> QED
      BY <1>1, <3>5, <3>6, <3>7 DEF GrantInv
  <2> QED
    BY <2>1, <2>2
<1>4. CASE SettleGrant(r)
  <2>1. pc[r] = "settle_grant" /\ pc' = [pc EXCEPT ![r] = "settle_hitl"]
    BY <1>4 DEF SettleGrant, At, Goto
  <2>2. pc'[r] = "settle_hitl" /\ Claimant(r) /\ grant[x].status = "CONSUMING"
    BY <1>0, <2>1 DEF GrantInv, Claimant, Holding, UnsettledPC, SettlingPC
  <2>3. PICK to \in {"CONSUMED", "FAILED", "UNKNOWN"} : Mark(x, {"CONSUMING"}, to)
    BY <1>4 DEF SettleGrant, mark_consumed, grant_mark_failed, grant_mark_unknown
  <2>4. grant'[x].status = to /\ \A y \in Sessions \ {x} : grant'[y] = grant[y]
    BY <1>0, <2>2, <2>3 DEF Mark, GrantRecord
  <2>5. \A q \in Requests \ {r} : Claimant(q) => sid[q] # x
    BY <2>2 DEF GrantInv
  <2>6. \A q \in Requests \ {r} : Claimant(q)' = Claimant(q)
    BY <1>1 DEF Claimant, Holding
  <2>7. ASSUME NEW q \in Requests, pc'[q] \in UnsettledPC
        PROVE  grant'[sid[q]].status = "CONSUMING"
    <3>1. q # r
      BY <2>2, <2>7 DEF UnsettledPC, ClaimedPC
    <3>2. pc[q] \in UnsettledPC /\ Claimant(q) /\ sid[q] \in Sessions
      BY <1>0, <1>1, <2>7, <3>1 DEF UnsettledPC, Claimant, Holding, SettlingPC
    <3> QED
      BY <2>4, <2>5, <3>1, <3>2 DEF GrantInv
  <2>8. ASSUME NEW q \in Requests, Claimant(q)' PROVE grant'[sid[q]].status \in ClaimedStatus
    <3>1. CASE q = r
      BY <2>4, <3>1 DEF ClaimedStatus
    <3>2. CASE q # r
      BY <1>0, <2>4, <2>5, <2>6, <2>8, <3>2 DEF GrantInv
    <3> QED
      BY <3>1, <3>2
  <2>9. \A p, q \in Requests : Claimant(p)' /\ Claimant(q)' /\ sid[p] = sid[q] => p = q
    BY <2>2, <2>6 DEF GrantInv
  <2> QED
    BY <1>1, <2>7, <2>8, <2>9 DEF GrantInv
<1> QED
  BY <1>2, <1>3, <1>4, RequestMoves

\* The rest of the system never claims or settles a grant.
LEMMA GrantInvStep ==
  ASSUME SysTypeOK, RunInv, GrantInv, [SysNext]_sysVars
  PROVE  GrantInv'
<1>0. TypeOK /\ sid \in [Requests -> Sessions] /\ grant \in [Sessions -> GrantRecord]
  BY DEF SysTypeOK, TypeOK, GrantTypeOK
<1>a. ASSUME UNCHANGED <<hitl, grant, reqVars>> PROVE GrantInv'
  BY <1>a DEF GrantInv, KnownOperation, Claimant, Holding, Exists, reqVars
<1>1. ASSUME NEW d \in AgentRuns, HandlerStep(d) PROVE GrantInv'
  BY <1>1, <1>a DEF HandlerStep, ReportEnd, ReportInterrupt, TransferReturns, SuspendFails, vars
<1>2. ASSUME NEW d \in AgentRuns, SuspendRun(d) PROVE GrantInv'
  <2>1. InsertSession(thread[d], Call(d).id) /\ UNCHANGED <<grant, reqVars>>
    BY <1>2 DEF SuspendRun, InsertSession
  <2>2. ~Exists(thread[d]) /\ \A s \in Sessions \ {thread[d]} : hitl'[s] = hitl[s]
    BY <1>0, <2>1 DEF InsertSession, HITLInsert, TypeOK, HITLTypeOK
  <2>3. KnownOperation'
    BY <1>0, <2>1, <2>2 DEF GrantInv, KnownOperation, Exists, reqVars
  <2> QED
    BY <2>1, <2>3 DEF GrantInv, Claimant, Holding, reqVars
<1>3. ASSUME NEW s \in Sessions, InsertGrant(s) PROVE GrantInv'
  <2>1. /\ grant[s].status = "NONE" /\ grant' = [grant EXCEPT ![s].status = "PENDING"]
        /\ UNCHANGED <<hitl, reqVars>>
    BY <1>3 DEF InsertGrant, insert_pending
  <2>2. \A x \in Sessions :
          \/ grant'[x].status = grant[x].status
          \/ grant[x].status \notin ClaimedStatus /\ grant'[x].status \notin ClaimedStatus
    BY <1>0, <2>1 DEF GrantRecord, ClaimedStatus
  <2>3. UNCHANGED <<pc, sid, actor>>
    BY <2>1 DEF reqVars
  <2>4. KnownOperation'
    BY <2>1, <2>3 DEF GrantInv, KnownOperation, Exists
  <2> QED
    BY <1>0, <2>2, <2>3, <2>4, GrantCalm DEF Claimant, Holding
<1>4. ASSUME NEW s \in Sessions, CrashCreating(s) PROVE GrantInv'
  BY <1>4, <1>a DEF CrashCreating
<1>5. CASE UNCHANGED sysVars
  BY <1>5, <1>a DEF sysVars, vars
<1> QED
  BY <1>0, <1>a, <1>1, <1>2, <1>3, <1>4, <1>5, GrantRequest, SysKinds

\* Only the claim makes a grant claimed, and it works on a stored call.
LEMMA ClaimedKnownStep ==
  ASSUME SysTypeOK, RunInv, GrantInv, ClaimedKnown, [SysNext]_sysVars
  PROVE  ClaimedKnown'
<1>0. TypeOK /\ sid \in [Requests -> Sessions] /\ grant \in [Sessions -> GrantRecord]
  BY DEF SysTypeOK, TypeOK, GrantTypeOK
<1>a. ASSUME UNCHANGED <<hitl, grant>> PROVE ClaimedKnown'
  BY <1>a DEF ClaimedKnown, Exists
<1>b. ASSUME [Next]_vars,
             \A s \in Sessions : grant'[s].status \in ClaimedStatus =>
               grant[s].status \in ClaimedStatus \/ (Exists(s) /\ hitl[s].tool_call_id \in ToolIds)
      PROVE  ClaimedKnown'
  <2>1. \A s \in Sessions : Exists(s) =>
          hitl'[s].status # "NONE" /\ hitl'[s].tool_call_id = hitl[s].tool_call_id
    BY <1>0, <1>b, SessionKept
  <2> QED
    BY <1>b, <2>1 DEF ClaimedKnown, Exists
<1>1. ASSUME NEW d \in AgentRuns, HandlerStep(d) PROVE ClaimedKnown'
  BY <1>1, <1>a DEF HandlerStep, ReportEnd, ReportInterrupt, TransferReturns, SuspendFails, vars
<1>2. ASSUME NEW d \in AgentRuns, SuspendRun(d) PROVE ClaimedKnown'
  <2>1. InsertSession(thread[d], Call(d).id) /\ UNCHANGED grant
    BY <1>2 DEF SuspendRun, InsertSession
  <2>2. ~Exists(thread[d]) /\ \A s \in Sessions \ {thread[d]} : hitl'[s] = hitl[s]
    BY <1>0, <2>1 DEF InsertSession, HITLInsert, TypeOK, HITLTypeOK
  <2> QED
    BY <2>1, <2>2 DEF ClaimedKnown, Exists
<1>3. ASSUME NEW s \in Sessions, InsertGrant(s) PROVE ClaimedKnown'
  <2>1. grant' = [grant EXCEPT ![s].status = "PENDING"] /\ UNCHANGED hitl
    BY <1>3 DEF InsertGrant, insert_pending
  <2> QED
    BY <1>0, <2>1 DEF ClaimedKnown, Exists, ClaimedStatus, GrantRecord
<1>4. ASSUME NEW r \in Requests, RequestStep(r) PROVE ClaimedKnown'
  <2>0. [Next]_vars
    BY <1>0, <1>4, RequestFrame
  <2>1. CASE Calm(r)
    BY <1>b, <2>0, <2>1 DEF Calm
  <2>2. CASE ClaimGrant(r)
    <3>1. Exists(sid[r]) /\ hitl[sid[r]].tool_call_id \in ToolIds
      BY <2>2 DEF GrantInv, KnownOperation, ClaimGrant, At, DecidedPC
    <3>2. \A s \in Sessions \ {sid[r]} : grant'[s] = grant[s]
      BY <1>0, <2>2 DEF ClaimGrant, atomic_consume
    <3> QED
      BY <1>b, <2>0, <3>1, <3>2
  <2>3. CASE SettleGrant(r)
    <3>1. Exists(sid[r]) /\ hitl[sid[r]].tool_call_id \in ToolIds
      BY <2>3 DEF GrantInv, KnownOperation, SettleGrant, At, DecidedPC, SettlingPC
    <3>2. \A s \in Sessions \ {sid[r]} : grant'[s] = grant[s]
      BY <1>0, <2>3 DEF SettleGrant, mark_consumed, grant_mark_failed, grant_mark_unknown, Mark
    <3> QED
      BY <1>b, <2>0, <3>1, <3>2
  <2> QED
    BY <1>0, <1>4, <2>1, <2>2, <2>3, RequestMoves
<1>5. CASE UNCHANGED sysVars
  BY <1>5, <1>a DEF sysVars, vars
<1> QED
  BY <1>a, <1>1, <1>2, <1>3, <1>4, <1>5, SysKinds DEF CrashCreating

-----------------------------------------------------------------------------
(* What is sent, and by whom                                               *)

\* A run sends the call it is at, and then settles it or has failed.
LEMMA GraphSends ==
  ASSUME GraphTypeOK, NEW d \in Drivers, DriverInv(d), DriverStep(d)
  PROVE  \/ UNCHANGED dispatched
         \/ /\ at[d] = "call_tool" /\ CallKey(d) \in Keys /\ call_tool(CallKey(d))
            /\ at'[d] \in {"settle", "failed"} /\ UNCHANGED <<mem, pos, done, resume, thread, policy>>
<1>1. CASE ~CallTool(d)
  BY <1>1 DEF DriverStep, GraphStep, Die, Resumes, Resume, RunGraph, RunTransferWorkflow, AgentNode,
     FinalAnswer, AgentNodeFails, SkipCall, AllowedCall, Interrupt, ResumedCall, CheckRecord,
     MarkExecuting, RecheckRecord, Reserve, SettleCall, ToolNodeReturns
<1>2. CASE CallTool(d) /\ Call(d).id = NoId
  BY <1>2 DEF CallTool
<1>3. CASE CallTool(d) /\ Call(d).id # NoId
  <2>1. /\ at[d] = "call_tool" /\ call_tool(CallKey(d))
        /\ UNCHANGED <<mem, pos, done, resume, thread, policy>>
        /\ Move(d, "settle") \/ Move(d, "failed")
    BY <1>3 DEF CallTool
  <2>2. pos[d] \in 1..Len(mem[d].msg)
    BY <2>1 DEF DriverInv, CallLabels, UnsentLabels
  <2>3. Call(d).id \in ToolIds /\ thread[d] \in Sessions
    BY <1>3, <2>2, CallFacts DEF GraphTypeOK
  <2>4. CallKey(d) \in Keys
    BY <2>3 DEF CallKey, Keys
  <2>5. at'[d] \in {"settle", "failed"}
    BY <2>1 DEF Move, GraphTypeOK
  <2> QED
    BY <2>1, <2>4, <2>5
<1> QED
  BY <1>1, <1>2, <1>3

\* A decision sends nothing except by its dispatch.
LEMMA DecisionSends ==
  ASSUME NEW r \in Requests, RequestStep(r)
  PROVE  UNCHANGED dispatched \/ Dispatch(r)
BY DEF RequestStep, StartApprove, StartReject, CrashRequest, Advance, ApproveLoad, ExpireOnApprove,
   ReconcileSession, ReconcileGrant, ApproveGrant, ApproveSession, ClaimGrant, CheckIdempotency,
   ReserveKey, SettleIdempotency, SettleGrant, SettleSession, RejectLoad, RejectSession,
   RejectGrant, PersistEvent

\* The run that sends a guarded call is the one an approved request resumed.
LEMMA GuardedSender ==
  ASSUME IdNamesOneTool, SysTypeOK, RunInv, NEW d \in Drivers, at[d] = "call_tool",
         CallKey(d) \in GuardedKeys
  PROVE  /\ d \in Requests /\ pc[d] = "approved" /\ resume[d] = "none" /\ sid[d] = thread[d]
         /\ Guarded(Call(d))
<1>1. GraphTypeOK /\ DriverInv(d) /\ at[d] \in CallLabels
  BY DEF SysTypeOK, RunInv, CallLabels, UnsentLabels
<1>2. pos[d] \in 1..Len(mem[d].msg)
  BY <1>1 DEF DriverInv
<1>3. mem[d].msg \in Messages /\ pos[d] \in DOMAIN mem[d].msg
  BY <1>1, <1>2, CallFacts
<1>4. PICK m \in Messages : \E i \in DOMAIN m : m[i].id = CallKey(d)[2] /\ Guarded(m[i])
  BY DEF GuardedKeys
<1>5. PICK i \in DOMAIN m : m[i].id = CallKey(d)[2] /\ Guarded(m[i])
  BY <1>4
<1>6. CallKey(d)[2] = Call(d).id /\ CallKey(d)[2] # NoId
  BY NoIdAssumption DEF GuardedKeys, Keys, CallKey
<1>7. m[i].kind = Call(d).kind
  BY <1>3, <1>5, <1>6 DEF IdNamesOneTool, Call
<1>8. Guarded(Call(d))
  BY <1>5, <1>7 DEF Guarded
<1> QED
  BY <1>1, <1>8 DEF DriverInv, RunInv

\* The stored call of a session is one that waits.
LEMMA StoredIsGuarded ==
  ASSUME RunInv, NEW s \in Sessions, hitl[s].tool_call_id \in ToolIds
  PROVE  IdemKey(s) \in GuardedKeys
<1>1. Suspended(hitl[s].tool_call_id)
  BY NoIdAssumption DEF RunInv
<1>2. IdemKey(s) \in Keys /\ IdemKey(s)[2] = hitl[s].tool_call_id
  BY DEF IdemKey, Keys
<1> QED
  BY <1>1, <1>2 DEF Suspended, GuardedKeys, Guarded

\* No step of a run gives an approval back.
LEMMA ApprovalUsedUp ==
  ASSUME GraphTypeOK, NEW d \in Drivers, DriverStep(d), NEW r \in Drivers, MayExecute(r)'
  PROVE  MayExecute(r)
<1>0. OnlyDriver(d)
  BY DriverFrame
<1>1. CASE r # d
  BY <1>0, <1>1 DEF OnlyDriver, MayExecute, Guarded, Call
<1>2. CASE r = d /\ at[d] = "unused"
  BY <1>2 DEF MayExecute
<1>3. CASE r = d /\ at[d] # "unused"
  <2>1. at'[d] # "unused"
    BY <1>3 DEF DriverStep, GraphStep, Die, Resumes, Resume, RunGraph, RunTransferWorkflow, AgentNode,
       FinalAnswer, AgentNodeFails, SkipCall, AllowedCall, Interrupt, ResumedCall, CheckRecord,
       MarkExecuting, RecheckRecord, Reserve, CallTool, SettleCall, ToolNodeReturns, Move, Skip,
       Finish, Execute, EnterToolNode, GraphTypeOK
  <2>2. resume'[d] \in {resume[d], "none"}
    BY <1>3 DEF DriverStep, GraphStep, Die, Resumes, Resume, RunGraph, RunTransferWorkflow, AgentNode,
       FinalAnswer, AgentNodeFails, SkipCall, AllowedCall, Interrupt, ResumedCall, CheckRecord,
       MarkExecuting, RecheckRecord, Reserve, CallTool, SettleCall, ToolNodeReturns, GraphTypeOK
  <2>3. CASE resume'[d] = "approved"
    BY <1>3, <2>2, <2>3 DEF MayExecute
  <2>4. CASE at'[d] \in UnsentLabels /\ Guarded(Call(d))'
    <3>1. \/ AllowedCall(d) \/ ResumedCall(d)
          \/ CheckRecord(d) \/ MarkExecuting(d) \/ RecheckRecord(d) \/ Reserve(d)
      BY <1>3, <2>4 DEF DriverStep, GraphStep, Die, Resumes, Resume, RunGraph, RunTransferWorkflow, AgentNode,
         FinalAnswer, AgentNodeFails, SkipCall, Interrupt, CallTool, SettleCall, ToolNodeReturns,
         Move, Skip, Finish, EnterToolNode, GraphTypeOK, UnsentLabels
    <3>2. CASE AllowedCall(d)
      BY <2>4, <3>2 DEF AllowedCall, Considered, Guarded, Call
    <3>3. CASE ResumedCall(d)
      <4>1. resume[d] = "approved" \/ at'[d] = "tool_call"
        BY <3>3 DEF ResumedCall, Finish, Move, GraphTypeOK
      <4> QED
        BY <1>3, <2>4, <4>1 DEF MayExecute, UnsentLabels
    <3>4. CASE CheckRecord(d) \/ MarkExecuting(d) \/ RecheckRecord(d) \/ Reserve(d)
      <4>1. at[d] \in UnsentLabels /\ UNCHANGED <<mem, policy>>
        BY <3>4 DEF CheckRecord, MarkExecuting, RecheckRecord, Reserve, UnsentLabels
      <4>2. UNCHANGED pos
        BY <2>4, <3>4 DEF CheckRecord, MarkExecuting, RecheckRecord, Reserve, UnsentLabels, Finish,
           Move, GraphTypeOK
      <4> QED
        BY <1>3, <2>4, <4>1, <4>2 DEF MayExecute, Guarded, Call
    <3> QED
      BY <3>1, <3>2, <3>3, <3>4
  <2> QED
    BY <1>3, <2>1, <2>3, <2>4 DEF MayExecute
<1> QED
  BY <1>1, <1>2, <1>3

\* Steps that send nothing, claim nothing anew and leave approvals as they are.
LEMMA SendCalm ==
  ASSUME SendInv, UNCHANGED <<dispatched, policy, sid>>,
         \A s \in Sessions : grant[s].status \in ClaimedStatus => grant'[s].status \in ClaimedStatus,
         \A r \in Requests : /\ pc'[r] \in ClaimedPC =>
                                  pc[r] \in ClaimedPC \/ grant[sid[r]].status \notin ClaimedStatus
                             /\ pc[r] = "approved" => pc'[r] = "approved"
                             /\ MayExecute(r)' => MayExecute(r)
  PROVE  SendInv'
<1>1. GuardedKeys' = GuardedKeys
  BY DEF GuardedKeys, Guarded
<1>2. \A s : Used(s) => Used(s)'
  BY DEF Used
<1> SUFFICES ASSUME NEW k \in GuardedKeys
             PROVE  /\ grant'[k[1]].status \notin ClaimedStatus => dispatched[k] = 0
                    /\ \A r \in Requests : sid[r] = k[1] /\ pc'[r] \in ClaimedPC => dispatched[k] = 0
                    /\ ~Used(k[1])' => dispatched[k] <= 1
                    /\ dispatched[k] <= 2
  BY <1>1 DEF SendInv
<1>3. k[1] \in Sessions
  BY DEF GuardedKeys, Keys
<1> QED
  BY <1>2, <1>3 DEF SendInv

\* A run sends a guarded call only on an approval, and uses it up.
LEMMA SendDriver ==
  ASSUME IdNamesOneTool, SysTypeOK, RunInv, GrantInv, SendInv,
         NEW d \in Drivers, DriverStep(d), UNCHANGED <<grant, pc, sid>>
  PROVE  SendInv'
<1>0. /\ GraphTypeOK /\ DriverInv(d) /\ OnlyDriver(d) /\ Requests \subseteq Drivers
      /\ dispatched \in [Keys -> Nat]
  BY DriverFrame, SystemAssumption DEF SysTypeOK, RunInv, TypeOK, IdempotencyTypeOK
<1>1. UNCHANGED policy
  BY <1>0 DEF OnlyDriver
<1>2. \A r \in Requests : MayExecute(r)' => MayExecute(r)
  BY <1>0, ApprovalUsedUp
<1>3. CASE UNCHANGED dispatched
  BY <1>1, <1>2, <1>3, SendCalm
<1>4. CASE /\ at[d] = "call_tool" /\ CallKey(d) \in Keys /\ call_tool(CallKey(d))
           /\ at'[d] \in {"settle", "failed"} /\ UNCHANGED <<mem, pos, done, resume, thread, policy>>
  <2> DEFINE c == CallKey(d)
  <2>0. /\ dispatched'[c] = dispatched[c] + 1 /\ c[1] = thread[d]
        /\ \A k \in Keys \ {c} : dispatched'[k] = dispatched[k]
    BY <1>0, <1>4 DEF call_tool, CallKey
  <2>1. GuardedKeys' = GuardedKeys /\ GuardedKeys \subseteq Keys
    BY <1>1 DEF GuardedKeys, Guarded
  <2>2. \A s : Used(s) => Used(s)'
    BY <1>2 DEF Used
  <2> SUFFICES ASSUME NEW k \in GuardedKeys
               PROVE  /\ grant[k[1]].status \notin ClaimedStatus => dispatched'[k] = 0
                      /\ \A r \in Requests : sid[r] = k[1] /\ pc[r] \in ClaimedPC => dispatched'[k] = 0
                      /\ ~Used(k[1])' => dispatched'[k] <= 1
                      /\ dispatched'[k] <= 2
    BY <2>1 DEF SendInv
  <2>3. CASE k # c
    BY <2>0, <2>1, <2>2, <2>3 DEF SendInv
  <2>4. CASE k = c
    <3>1. d \in Requests /\ pc[d] = "approved" /\ resume[d] = "none" /\ sid[d] = k[1] /\ Guarded(Call(d))
      BY <1>4, <2>0, <2>4, GuardedSender
    <3>2. Claimant(d) /\ grant[k[1]].status \in ClaimedStatus
      BY <3>1 DEF Claimant, GrantInv
    <3>3. \A r \in Requests : sid[r] = k[1] /\ Claimant(r) => r = d
      BY <3>1, <3>2 DEF GrantInv
    <3>4. \A r \in Requests : sid[r] = k[1] => pc[r] \notin ClaimedPC
      BY <3>1, <3>3 DEF Claimant, Holding, ClaimedPC
    <3>5. MayExecute(d)
      BY <1>4, <3>1 DEF MayExecute, UnsentLabels
    <3>6. ~Used(k[1])
      BY <3>3, <3>5 DEF Used, Claimant
    <3>7. ~MayExecute(d)'
      BY <1>4, <3>1 DEF MayExecute, UnsentLabels
    <3>8. Used(k[1])'
      BY <3>1, <3>7 DEF Used
    <3>9. dispatched[k] <= 1 /\ dispatched[k] \in Nat
      BY <1>0, <2>1, <3>6 DEF SendInv
    <3>10. dispatched'[k] <= 2
      BY <2>0, <2>4, <3>9
    <3> QED
      BY <3>2, <3>4, <3>8, <3>10
  <2> QED
    BY <2>3, <2>4
<1> QED
  BY <1>0, <1>3, <1>4, GraphSends

\* A decision sends the call of its session, for the first time.
LEMMA SendRequest ==
  ASSUME SysTypeOK, RunInv, GrantInv, SendInv,
         NEW r \in Requests, RequestStep(r), UNCHANGED graphVars
  PROVE  SendInv'
<1>0. /\ TypeOK /\ sid \in [Requests -> Sessions] /\ pc \in [Requests -> PC]
      /\ grant \in [Sessions -> GrantRecord] /\ dispatched \in [Keys -> Nat]
  BY DEF SysTypeOK, TypeOK, GrantTypeOK, IdempotencyTypeOK
<1>1. UNCHANGED <<at, mem, pos, resume, policy, sid>>
  BY <1>0, RequestFrame, StepKinds DEF graphVars, driverVars, argVars
<1>2. \A q \in Requests : MayExecute(q)' => MayExecute(q)
  BY <1>1 DEF MayExecute, Guarded, Call
<1>3. \A q \in Requests : pc[q] = "approved" => pc'[q] = "approved"
  BY <1>0, RequestFrame DEF Results
<1>4. \A q \in Requests \ {r} : pc'[q] = pc[q]
  BY <1>0, RequestFrame
<1>5. CASE Calm(r) /\ ~Dispatch(r)
  <2>1. UNCHANGED dispatched
    BY <1>5, DecisionSends
  <2>2. \A s \in Sessions : grant[s].status \in ClaimedStatus => grant'[s].status \in ClaimedStatus
    BY <1>5 DEF Calm
  <2>3. \A q \in Requests : pc'[q] \in ClaimedPC => pc[q] \in ClaimedPC
    BY <1>4, <1>5 DEF Calm
  <2> QED
    BY <1>1, <1>2, <1>3, <2>1, <2>2, <2>3, SendCalm
<1>6. CASE ClaimGrant(r)
  <2>1. UNCHANGED dispatched
    BY <1>6 DEF ClaimGrant
  <2>2. \A s \in Sessions : grant[s].status \in ClaimedStatus => grant'[s].status \in ClaimedStatus
    BY <1>0, <1>6 DEF ClaimGrant, atomic_consume, ClaimedStatus, GrantRecord
  <2>3. pc'[r] \in ClaimedPC => grant[sid[r]].status \notin ClaimedStatus
    BY <1>0, <1>6 DEF ClaimGrant, Goto, Claimable, ClaimedStatus, ClaimedPC
  <2> QED
    BY <1>1, <1>2, <1>3, <1>4, <2>1, <2>2, <2>3, SendCalm
<1>7. CASE SettleGrant(r)
  <2>1. UNCHANGED dispatched
    BY <1>7 DEF SettleGrant
  <2>2. PICK to \in ClaimedStatus : Mark(sid[r], {"CONSUMING"}, to)
    BY <1>7 DEF SettleGrant, mark_consumed, grant_mark_failed, grant_mark_unknown, ClaimedStatus
  <2>3. \A s \in Sessions : grant[s].status \in ClaimedStatus => grant'[s].status \in ClaimedStatus
    BY <1>0, <2>2 DEF Mark, GrantRecord
  <2>4. pc'[r] = "settle_hitl"
    BY <1>0, <1>7 DEF SettleGrant, Goto
  <2> QED
    BY <1>1, <1>2, <1>3, <1>4, <2>1, <2>3, <2>4, SendCalm DEF ClaimedPC
<1>8. CASE Dispatch(r)
  <2> DEFINE c == IdemKey(sid[r])
  <2>1. pc[r] = "dispatch" /\ call_tool(c) /\ UNCHANGED grant /\ pc'[r] = "settle_idem"
    BY <1>0, <1>8 DEF Dispatch, At, Goto
  <2>2. Claimant(r) /\ pc[r] \in ClaimedPC /\ hitl[sid[r]].tool_call_id \in ToolIds
    BY <2>1 DEF Claimant, Holding, ClaimedPC, GrantInv, KnownOperation, DecidedPC
  <2>3. c \in GuardedKeys /\ c[1] = sid[r]
    BY <1>0, <2>2, StoredIsGuarded DEF IdemKey
  <2>4. GuardedKeys' = GuardedKeys /\ GuardedKeys \subseteq Keys
    BY <1>1 DEF GuardedKeys, Guarded
  <2>5. dispatched'[c] = dispatched[c] + 1 /\ \A k \in Keys \ {c} : dispatched'[k] = dispatched[k]
    BY <1>0, <2>1, <2>3, <2>4 DEF call_tool
  <2>6. \A s : Used(s) => Used(s)'
    BY <1>1, <1>2, <1>3 DEF Used
  <2> SUFFICES ASSUME NEW k \in GuardedKeys
               PROVE  /\ grant[k[1]].status \notin ClaimedStatus => dispatched'[k] = 0
                      /\ \A q \in Requests : sid[q] = k[1] /\ pc'[q] \in ClaimedPC => dispatched'[k] = 0
                      /\ ~Used(k[1])' => dispatched'[k] <= 1
                      /\ dispatched'[k] <= 2
    BY <1>1, <2>1, <2>4 DEF SendInv
  <2>7. \A q \in Requests : pc'[q] \in ClaimedPC => q # r /\ pc[q] \in ClaimedPC
    BY <1>4, <2>1 DEF ClaimedPC
  <2>8. CASE k # c
    BY <2>4, <2>5, <2>6, <2>7, <2>8 DEF SendInv
  <2>9. CASE k = c
    <3>1. dispatched[k] = 0
      BY <2>2, <2>3, <2>9 DEF SendInv
    <3>2. dispatched'[k] = 1
      BY <2>5, <2>9, <3>1
    <3>3. grant[k[1]].status \in ClaimedStatus
      BY <2>2, <2>3, <2>9 DEF GrantInv
    <3>4. \A q \in Requests : sid[q] = k[1] => pc'[q] \notin ClaimedPC
      <4>1. \A q \in Requests : pc[q] \in ClaimedPC => Claimant(q)
        BY DEF Claimant, Holding
      <4> QED
        BY <2>2, <2>3, <2>7, <2>9, <4>1 DEF GrantInv
    <3> QED
      BY <3>2, <3>3, <3>4
  <2> QED
    BY <2>8, <2>9
<1> QED
  BY <1>0, <1>5, <1>6, <1>7, <1>8, RequestMoves

\* Every step keeps what has been sent within what has been approved.
LEMMA SendInvStep ==
  ASSUME IdNamesOneTool, SysTypeOK, RunInv, GrantInv, SendInv, [SysNext]_sysVars
  PROVE  SendInv'
<1>a. ASSUME UNCHANGED <<grant, dispatched, reqVars, graphVars>> PROVE SendInv'
  <2>1. UNCHANGED <<grant, dispatched, pc, sid, at, mem, pos, resume, policy>>
    BY <1>a DEF reqVars, graphVars, driverVars, argVars
  <2> QED
    BY <2>1, SendCalm DEF MayExecute, Guarded, Call
<1>1. ASSUME NEW d \in Drivers, DriverStep(d), UNCHANGED <<hitl, late, grant, creating, reqVars, router, api>>
      PROVE  SendInv'
  BY <1>1, SendDriver DEF reqVars
<1>2. ASSUME NEW d \in AgentRuns, HandlerStep(d) \/ SuspendRun(d) PROVE SendInv'
  BY <1>2, <1>a DEF HandlerStep, ReportEnd, ReportInterrupt, TransferReturns, SuspendFails, vars,
     SuspendRun, InsertSession
<1>3. ASSUME NEW s \in Sessions, InsertGrant(s) \/ CrashCreating(s), UNCHANGED graphVars PROVE SendInv'
  <2>1. UNCHANGED <<dispatched, pc, sid, at, mem, pos, resume, policy>>
    BY <1>3 DEF InsertGrant, CrashCreating, reqVars, graphVars, driverVars, argVars
  <2>2. \A x \in Sessions : grant[x].status \in ClaimedStatus => grant'[x].status \in ClaimedStatus
    BY <1>3 DEF InsertGrant, CrashCreating, insert_pending, SysTypeOK, TypeOK, GrantTypeOK,
       ClaimedStatus, GrantRecord
  <2> QED
    BY <2>1, <2>2, SendCalm DEF MayExecute, Guarded, Call
<1>4. CASE UNCHANGED sysVars
  BY <1>4, <1>a DEF sysVars, vars
<1> QED
  BY <1>1, <1>2, <1>3, <1>4, SendRequest, SysKinds

-----------------------------------------------------------------------------
(* A write whose outcome is unknown                                        *)

\* Steps that send nothing, settle nothing and move no request.
LEMMA UnknownCalm ==
  ASSUME UnknownInv, GrantInv, ClaimedKnown, sid \in [Requests -> Sessions],
         UNCHANGED <<pc, sid, out>>,
         \A s \in Sessions : grant'[s].status = "UNKNOWN" => grant[s].status = "UNKNOWN",
         \A s \in Sessions : Exists(s) /\ hitl[s].tool_call_id \in ToolIds =>
           IdemKey(s)' = IdemKey(s) /\ dispatched'[IdemKey(s)] = dispatched[IdemKey(s)]
  PROVE  UnknownInv'
<1>1. ASSUME NEW r \in Requests, pc[r] \in {"settle_idem", "settle_grant"}, out[r] = "unknown"
      PROVE  dispatched'[IdemKey(sid[r])'] = 1
  <2>1. Exists(sid[r]) /\ hitl[sid[r]].tool_call_id \in ToolIds /\ sid[r] \in Sessions
    BY <1>1 DEF GrantInv, KnownOperation, DecidedPC, SettlingPC
  <2>2. IdemKey(sid[r])' = IdemKey(sid[r])
    BY <2>1 DEF IdemKey
  <2> QED
    BY <1>1, <2>1, <2>2 DEF UnknownInv
<1>2. ASSUME NEW s \in Sessions, grant'[s].status = "UNKNOWN"
      PROVE  dispatched'[IdemKey(s)'] = 1
  BY <1>2 DEF UnknownInv, ClaimedKnown, ClaimedStatus
<1>3. \A r \in Requests : grant'[sid[r]].status = "UNKNOWN" =>
        pc[r] # "approved" /\ (pc[r] \in SettlingPC => out[r] # "succeeded")
  BY DEF UnknownInv
<1> QED
  BY <1>1, <1>2, <1>3 DEF UnknownInv

\* A run does not repeat a call whose outcome is unknown: nobody resumed it.
LEMMA UnknownDriver ==
  ASSUME IdNamesOneTool, SysTypeOK, RunInv, GrantInv, ClaimedKnown, UnknownInv,
         NEW d \in Drivers, DriverStep(d), UNCHANGED <<hitl, grant, pc, sid, out>>
  PROVE  UnknownInv'
<1>0. /\ GraphTypeOK /\ DriverInv(d) /\ sid \in [Requests -> Sessions]
      /\ dispatched \in [Keys -> Nat]
  BY DEF SysTypeOK, RunInv, TypeOK, IdempotencyTypeOK
<1>1. \A s \in Sessions : IdemKey(s)' = IdemKey(s)
  BY DEF IdemKey
<1>2. CASE UNCHANGED dispatched
  BY <1>0, <1>1, <1>2, UnknownCalm
<1>3. CASE at[d] = "call_tool" /\ CallKey(d) \in Keys /\ call_tool(CallKey(d))
  <2>1. \A k \in Keys \ {CallKey(d)} : dispatched'[k] = dispatched[k]
    BY <1>0, <1>3 DEF call_tool
  <2>2. ASSUME NEW s \in Sessions, hitl[s].tool_call_id \in ToolIds, IdemKey(s) = CallKey(d)
        PROVE  d \in Requests /\ pc[d] = "approved" /\ sid[d] = s
    <3>1. CallKey(d) \in GuardedKeys
      BY <2>2, StoredIsGuarded
    <3>2. thread[d] = s
      BY <2>2 DEF IdemKey, CallKey
    <3> QED
      BY <1>3, <3>1, <3>2, GuardedSender
  <2>3. ASSUME NEW s \in Sessions, Exists(s), hitl[s].tool_call_id \in ToolIds,
               \/ grant[s].status = "UNKNOWN"
               \/ \E r \in Requests : sid[r] = s /\ pc[r] \in {"settle_idem", "settle_grant"}
        PROVE  dispatched'[IdemKey(s)] = dispatched[IdemKey(s)]
    <3>1. IdemKey(s) \in Keys
      BY <2>3 DEF IdemKey, Keys
    <3>2. IdemKey(s) # CallKey(d)
      <4>1. CASE grant[s].status = "UNKNOWN"
        BY <2>2, <2>3, <4>1 DEF UnknownInv
      <4>2. CASE \E r \in Requests : sid[r] = s /\ pc[r] \in {"settle_idem", "settle_grant"}
        <5>1. PICK r \in Requests : sid[r] = s /\ pc[r] \in {"settle_idem", "settle_grant"}
          BY <4>2
        <5>2. Claimant(r) /\ (pc[d] = "approved" => Claimant(d)) /\ pc[r] # "approved"
          BY <5>1 DEF Claimant, Holding, SettlingPC
        <5> QED
          BY <2>2, <2>3, <5>1, <5>2 DEF GrantInv
      <4> QED
        BY <2>3, <4>1, <4>2
    <3> QED
      BY <2>1, <3>1, <3>2
  <2>4. ASSUME NEW r \in Requests, pc[r] \in {"settle_idem", "settle_grant"}, out[r] = "unknown"
        PROVE  dispatched'[IdemKey(sid[r])] = 1
    <3>1. Exists(sid[r]) /\ hitl[sid[r]].tool_call_id \in ToolIds /\ sid[r] \in Sessions
      BY <1>0, <2>4 DEF GrantInv, KnownOperation, DecidedPC, SettlingPC
    <3> QED
      BY <2>3, <2>4, <3>1 DEF UnknownInv
  <2>5. ASSUME NEW s \in Sessions, grant[s].status = "UNKNOWN" PROVE dispatched'[IdemKey(s)] = 1
    BY <2>3, <2>5 DEF UnknownInv, ClaimedKnown, ClaimedStatus
  <2>6. \A r \in Requests : IdemKey(sid[r])' = IdemKey(sid[r])
    BY DEF IdemKey
  <2> QED
    BY <1>1, <2>4, <2>5, <2>6 DEF UnknownInv
<1> QED
  BY <1>0, <1>2, <1>3, GraphSends

\* What a step of a decision does to its outcome.
LEMMA OutcomeMoves ==
  ASSUME TypeOK, NEW r \in Requests, RequestStep(r)
  PROVE  /\ \A q \in Requests \ {r} : out'[q] = out[q]
         /\ pc'[r] \in {"settle_idem", "settle_grant"} /\ out'[r] = "unknown" /\ ~Dispatch(r) =>
              pc[r] \in {"settle_idem", "settle_grant"} /\ out[r] = "unknown"
         /\ pc'[r] = "approved" => \/ pc[r] = "idem_get"
                                   \/ pc[r] \in SettlingPC /\ out[r] = "succeeded"
         /\ pc'[r] \in SettlingPC =>
              \/ pc[r] \in UnsettledPC
              \/ pc[r] \in SettlingPC /\ out'[r] = out[r]
<1>0. pc \in [Requests -> PC] /\ out \in [Requests -> Outcomes]
  BY DEF TypeOK
<1>1. CASE CheckIdempotency(r)
  <2>1. pc[r] = "idem_get" /\ \A q \in Requests \ {r} : out'[q] = out[q]
    BY <1>0, <1>1 DEF CheckIdempotency, At
  <2>2. \/ pc'[r] = "approved" \/ pc'[r] = "idem_reserve"
        \/ pc'[r] = "settle_grant" /\ out'[r] = "replay"
    BY <1>0, <1>1 DEF CheckIdempotency, Goto
  <2> QED
    BY <2>1, <2>2 DEF UnsettledPC, ClaimedPC, SettlingPC
<1>2. CASE Dispatch(r)
  <2>1. pc[r] = "dispatch" /\ pc'[r] = "settle_idem" /\ \A q \in Requests \ {r} : out'[q] = out[q]
    BY <1>0, <1>2 DEF Dispatch, At, Goto
  <2> QED
    BY <1>2, <2>1 DEF UnsettledPC, ClaimedPC
<1>3. CASE SettleIdempotency(r) \/ SettleGrant(r) \/ SettleSession(r)
  <2>1. /\ UNCHANGED out /\ pc'[r] \in {"settle_grant", "settle_hitl", "ev_settled"}
        /\ pc'[r] = "settle_grant" => pc[r] = "settle_idem"
    BY <1>0, <1>3 DEF SettleIdempotency, SettleGrant, SettleSession, At, Goto, SettlingPC
  <2>2. pc[r] \in SettlingPC
    BY <1>3 DEF SettleIdempotency, SettleGrant, SettleSession, At, SettlingPC
  <2> QED
    BY <2>1, <2>2
<1>4. CASE PersistEvent(r)
  <2>1. UNCHANGED out
    BY <1>4 DEF PersistEvent
  <2>2. \/ pc'[r] \in {"reconciliation_required", "claim", "idem_get", "dispatch", "error", "rejected"}
        \/ pc'[r] = "approved" /\ pc[r] = "ev_settled" /\ out[r] = "succeeded"
    BY <1>0, <1>4 DEF PersistEvent, PersistAt, At, Goto
  <2> QED
    BY <2>1, <2>2 DEF SettlingPC
<1>5. CASE ~(CheckIdempotency(r) \/ Dispatch(r) \/ SettleIdempotency(r) \/ SettleGrant(r)
             \/ SettleSession(r) \/ PersistEvent(r))
  <2>1. UNCHANGED out
    BY <1>5 DEF RequestStep, StartApprove, StartReject, CrashRequest, Advance, ApproveLoad,
       ExpireOnApprove, ReconcileSession, ReconcileGrant, ApproveGrant, ApproveSession, ClaimGrant,
       ReserveKey, RejectLoad, RejectSession, RejectGrant
  <2>2. pc'[r] \in {"a_load", "r_load", "crashed", "error", "expire", "recon_hitl", "approve_grant",
                    "reject_hitl", "recon_grant", "ev_recon", "approve_hitl", "ev_granted",
                    "ev_claimed", "ev_dispatch", "reject_grant", "ev_rejected"}
    BY <1>0, <1>5 DEF RequestStep, StartApprove, StartReject, CrashRequest, Advance, ApproveLoad,
       ExpireOnApprove, ReconcileSession, ReconcileGrant, ApproveGrant, ApproveSession, ClaimGrant,
       ReserveKey, RejectLoad, RejectSession, RejectGrant, Goto
  <2> QED
    BY <2>1, <2>2 DEF SettlingPC
<1> QED
  BY <1>1, <1>2, <1>3, <1>4, <1>5

\* A grant becomes UNKNOWN only when its holder settles an unknown outcome.
LEMMA BecomesUnknown ==
  ASSUME TypeOK, NEW r \in Requests, RequestStep(r), NEW s \in Sessions,
         grant'[s].status = "UNKNOWN"
  PROVE  \/ grant[s].status = "UNKNOWN"
         \/ SettleGrant(r) /\ s = sid[r] /\ pc[r] = "settle_grant" /\ out[r] = "unknown"
<1>0. grant \in [Sessions -> GrantRecord] /\ sid[r] \in Sessions
  BY DEF TypeOK, GrantTypeOK
<1>1. CASE Calm(r)
  BY <1>1 DEF Calm, ClaimedStatus
<1>2. CASE ClaimGrant(r)
  BY <1>0, <1>2 DEF ClaimGrant, atomic_consume, GrantRecord
<1>3. CASE SettleGrant(r)
  BY <1>0, <1>3 DEF SettleGrant, At, mark_consumed, grant_mark_failed, grant_mark_unknown, Mark,
     GrantRecord
<1> QED
  BY <1>1, <1>2, <1>3, RequestMoves

\* A decision settles an unknown outcome once, after it sent the call once.
LEMMA UnknownRequest ==
  ASSUME SysTypeOK, RunInv, GrantInv, ClaimedKnown, SendInv, UnknownInv,
         NEW r \in Requests, RequestStep(r)
  PROVE  UnknownInv'
<1>0. /\ TypeOK /\ sid \in [Requests -> Sessions] /\ pc \in [Requests -> PC]
      /\ dispatched \in [Keys -> Nat]
  BY DEF SysTypeOK, TypeOK, IdempotencyTypeOK
<1>1. UNCHANGED sid /\ [Next]_vars /\ \A q \in Requests \ {r} : pc'[q] = pc[q]
  BY <1>0, RequestFrame, StepKinds
<1>2. ASSUME NEW s \in Sessions, Exists(s) PROVE IdemKey(s)' = IdemKey(s)
  BY <1>0, <1>1, <1>2, SessionKept DEF IdemKey
<1>3. ASSUME NEW q \in Requests, pc[q] \in DecidedPC
      PROVE  /\ Exists(sid[q]) /\ IdemKey(sid[q]) \in Keys /\ IdemKey(sid[q]) \in GuardedKeys
             /\ IdemKey(sid[q])' = IdemKey(sid[q]) /\ IdemKey(sid[q])[1] = sid[q]
  <2>1. Exists(sid[q]) /\ hitl[sid[q]].tool_call_id \in ToolIds /\ sid[q] \in Sessions
    BY <1>0, <1>3 DEF GrantInv, KnownOperation
  <2>2. IdemKey(sid[q]) \in Keys /\ IdemKey(sid[q])[1] = sid[q]
    BY <2>1 DEF IdemKey, Keys
  <2>3. IdemKey(sid[q])' = IdemKey(sid[q])
    BY <1>1, <1>2, <2>1 DEF IdemKey
  <2> QED
    BY <2>1, <2>2, <2>3, StoredIsGuarded
\* Only the dispatch of a holder sends, and only the call of its own session.
<1>4. ASSUME NEW k \in Keys, dispatched'[k] # dispatched[k]
      PROVE  Dispatch(r) /\ k = IdemKey(sid[r]) /\ k[1] = sid[r] /\ pc[r] = "dispatch"
  <2>1. Dispatch(r) /\ pc[r] = "dispatch" /\ call_tool(IdemKey(sid[r]))
    BY <1>4, DecisionSends DEF Dispatch, At
  <2>2. IdemKey(sid[r]) \in Keys /\ IdemKey(sid[r])[1] = sid[r]
    BY <1>3, <2>1 DEF DecidedPC, ClaimedPC
  <2> QED
    BY <1>0, <1>4, <2>1, <2>2 DEF call_tool
<1>5. ASSUME NEW q \in Requests, pc'[q] \in {"settle_idem", "settle_grant"}, out'[q] = "unknown"
      PROVE  dispatched'[IdemKey(sid[q])'] = 1
  <2>1. CASE q = r /\ Dispatch(r)
    <3>1. pc[r] = "dispatch" /\ call_tool(IdemKey(sid[r]))
      BY <2>1 DEF Dispatch, At
    <3>2. pc[r] \in DecidedPC /\ pc[r] \in ClaimedPC
      BY <3>1 DEF DecidedPC, ClaimedPC
    <3>3. dispatched[IdemKey(sid[r])] = 0
      BY <1>3, <3>2 DEF SendInv
    <3> QED
      BY <1>0, <1>3, <2>1, <3>1, <3>2, <3>3 DEF call_tool
  <2>2. CASE ~(q = r /\ Dispatch(r))
    <3>1. pc[q] \in {"settle_idem", "settle_grant"} /\ out[q] = "unknown"
      BY <1>0, <1>1, <1>5, <2>2, OutcomeMoves
    <3>2. pc[q] \in DecidedPC /\ Claimant(q)
      BY <3>1 DEF DecidedPC, SettlingPC, Claimant, Holding
    <3>3. dispatched'[IdemKey(sid[q])] = dispatched[IdemKey(sid[q])]
      <4> SUFFICES ASSUME dispatched'[IdemKey(sid[q])] # dispatched[IdemKey(sid[q])] PROVE FALSE
        OBVIOUS
      <4>1. sid[q] = sid[r] /\ pc[r] = "dispatch"
        BY <1>3, <1>4, <3>2
      <4>2. Claimant(r)
        BY <4>1 DEF Claimant, Holding, ClaimedPC
      <4> QED
        BY <3>1, <3>2, <4>1, <4>2 DEF GrantInv
    <3> QED
      BY <1>3, <3>1, <3>2, <3>3 DEF UnknownInv
  <2> QED
    BY <2>1, <2>2
<1>6. ASSUME NEW q \in Requests, grant'[sid[q]].status = "UNKNOWN"
      PROVE  pc'[q] # "approved" /\ (pc'[q] \in SettlingPC => out'[q] # "succeeded")
  <2>1. CASE grant[sid[q]].status = "UNKNOWN" /\ q = r
    <3>1. pc[q] \notin UnsettledPC /\ pc[q] # "idem_get"
      BY <2>1 DEF GrantInv, UnsettledPC, ClaimedPC
    <3> QED
      BY <1>0, <2>1, <3>1, OutcomeMoves DEF UnknownInv
  <2>2. CASE grant[sid[q]].status = "UNKNOWN" /\ q # r
    BY <1>0, <1>1, <2>2, OutcomeMoves DEF UnknownInv
  <2>3. CASE SettleGrant(r) /\ sid[q] = sid[r] /\ pc[r] = "settle_grant" /\ out[r] = "unknown"
    <3>1. pc'[r] = "settle_hitl" /\ UNCHANGED out /\ Claimant(r)
      BY <1>0, <2>3 DEF SettleGrant, Goto, Claimant, Holding, SettlingPC
    <3>2. q # r => ~Claimant(q)
      BY <2>3, <3>1 DEF GrantInv
    <3> QED
      BY <1>1, <2>3, <3>1, <3>2 DEF Claimant, Holding
  <2> QED
    BY <1>0, <1>6, <2>1, <2>2, <2>3, BecomesUnknown
<1>7. ASSUME NEW s \in Sessions, grant'[s].status = "UNKNOWN" PROVE dispatched'[IdemKey(s)'] = 1
  <2>1. CASE grant[s].status = "UNKNOWN"
    <3>1. Exists(s) /\ hitl[s].tool_call_id \in ToolIds /\ dispatched[IdemKey(s)] = 1
      BY <2>1 DEF ClaimedKnown, UnknownInv, ClaimedStatus
    <3>2. IdemKey(s) \in Keys /\ IdemKey(s)[1] = s
      BY <3>1 DEF IdemKey, Keys
    <3>3. dispatched'[IdemKey(s)] = dispatched[IdemKey(s)]
      <4> SUFFICES ASSUME dispatched'[IdemKey(s)] # dispatched[IdemKey(s)] PROVE FALSE
        OBVIOUS
      <4>1. sid[r] = s /\ pc[r] = "dispatch"
        BY <1>4, <3>2
      <4> QED
        BY <2>1, <4>1 DEF GrantInv, UnsettledPC, ClaimedPC
    <3> QED
      BY <1>2, <3>1, <3>3
  <2>2. CASE SettleGrant(r) /\ s = sid[r] /\ pc[r] = "settle_grant" /\ out[r] = "unknown"
    <3>1. UNCHANGED dispatched /\ dispatched[IdemKey(s)] = 1 /\ pc[r] \in DecidedPC
      BY <2>2 DEF SettleGrant, UnknownInv, DecidedPC, SettlingPC
    <3> QED
      BY <1>2, <1>3, <2>2, <3>1
  <2> QED
    BY <1>0, <1>7, <2>1, <2>2, BecomesUnknown
<1> QED
  BY <1>1, <1>5, <1>6, <1>7 DEF UnknownInv

\* Every step keeps a write with an unknown outcome at one attempt.
LEMMA UnknownInvStep ==
  ASSUME IdNamesOneTool, SysTypeOK, RunInv, GrantInv, ClaimedKnown, SendInv, UnknownInv,
         [SysNext]_sysVars
  PROVE  UnknownInv'
<1>0. TypeOK /\ sid \in [Requests -> Sessions] /\ grant \in [Sessions -> GrantRecord]
  BY DEF SysTypeOK, TypeOK, GrantTypeOK
<1>a. ASSUME UNCHANGED <<hitl, grant, dispatched, reqVars>> PROVE UnknownInv'
  <2>1. UNCHANGED <<hitl, grant, dispatched, pc, sid, out>> /\ \A s \in Sessions : IdemKey(s)' = IdemKey(s)
    BY <1>a DEF reqVars, IdemKey
  <2> QED
    BY <1>0, <2>1, UnknownCalm
<1>1. ASSUME NEW d \in Drivers, DriverStep(d), UNCHANGED <<hitl, late, grant, creating, reqVars, router, api>>
      PROVE  UnknownInv'
  BY <1>1, UnknownDriver DEF reqVars
<1>2. ASSUME NEW d \in AgentRuns, HandlerStep(d) PROVE UnknownInv'
  BY <1>2, <1>a DEF HandlerStep, ReportEnd, ReportInterrupt, TransferReturns, SuspendFails, vars
<1>3. ASSUME NEW d \in AgentRuns, SuspendRun(d) PROVE UnknownInv'
  <2>1. InsertSession(thread[d], Call(d).id)
    BY <1>3 DEF SuspendRun
  <2>2. UNCHANGED <<grant, dispatched, pc, sid, out>>
    BY <2>1 DEF InsertSession, reqVars
  <2>3. ~Exists(thread[d]) /\ \A s \in Sessions \ {thread[d]} : hitl'[s] = hitl[s]
    BY <1>0, <2>1 DEF InsertSession, HITLInsert, TypeOK, HITLTypeOK
  <2>4. \A s \in Sessions : Exists(s) => IdemKey(s)' = IdemKey(s)
    BY <2>3 DEF IdemKey
  <2> QED
    BY <1>0, <2>2, <2>4, UnknownCalm
<1>4. ASSUME NEW s \in Sessions, InsertGrant(s) \/ CrashCreating(s) PROVE UnknownInv'
  <2>1. UNCHANGED <<hitl, dispatched, pc, sid, out>>
    BY <1>4 DEF InsertGrant, CrashCreating, reqVars
  <2>2. \A x \in Sessions : grant'[x].status = "UNKNOWN" => grant[x].status = "UNKNOWN"
    BY <1>0, <1>4 DEF InsertGrant, CrashCreating, insert_pending, GrantRecord
  <2>3. \A x \in Sessions : IdemKey(x)' = IdemKey(x)
    BY <2>1 DEF IdemKey
  <2> QED
    BY <1>0, <2>1, <2>2, <2>3, UnknownCalm
<1>5. CASE UNCHANGED sysVars
  BY <1>5, <1>a DEF sysVars, vars
<1> QED
  BY <1>1, <1>2, <1>3, <1>4, <1>5, UnknownRequest, SysKinds

-----------------------------------------------------------------------------
(* Reads, once per run                                                     *)

\* What a run may have sent it may still have sent after any step.
LEMMA SentStays ==
  ASSUME GraphTypeOK, NEW d \in Drivers, DriverInv(d), DriverStep(d), NEW e \in Drivers,
         NEW t \in ToolIds, MayHaveSent(e, t)
  PROVE  MayHaveSent(e, t)'
<1>0. OnlyDriver(d)
  BY DriverFrame
<1>1. CASE e # d
  BY <1>0, <1>1 DEF OnlyDriver, MayHaveSent, Call
<1>2. CASE e = d
  <2>0. at[d] # "unused" /\ at[d] \notin Ended
    BY <1>2, EndedStands DEF MayHaveSent
  <2>1. t \in done[d] \/ (at[d] = "settle" /\ Call(d).id = t)
    BY <1>2, <2>0 DEF MayHaveSent
  <2>2. CASE Die(d) \/ AgentNodeFails(d) \/ FinalAnswer(d) \/ Interrupt(d)
    <3>1. at'[d] \in Ended /\ at'[d] # "unused"
      BY <2>2 DEF Die, AgentNodeFails, FinalAnswer, Interrupt, Move, Ended, GraphTypeOK
    <3> QED
      BY <1>2, <3>1 DEF MayHaveSent
  <2>3. CASE AgentNode(d)
    <3>1. at[d] = "agent_node"
      BY <2>3 DEF AgentNode
    <3>2. PICK m \in Messages :
            EnterToolNode(d, [mem[d] EXCEPT !.node = "tool_node", !.msg = m, !.step = @ + 1])
      BY <2>3 DEF AgentNode
    <3>3. [mem[d] EXCEPT !.node = "tool_node", !.msg = m, !.step = @ + 1].ids = mem[d].ids
      BY DEF GraphTypeOK, AgentState
    <3>4. at'[d] = "tool_call" /\ done'[d] = mem[d].ids
      BY <3>2, <3>3 DEF EnterToolNode, Move, GraphTypeOK
    <3>5. t \in mem[d].ids
      BY <2>1, <3>1 DEF DriverInv
    <3> QED
      BY <1>2, <3>4, <3>5 DEF MayHaveSent
  <2>4. CASE SkipCall(d) \/ AllowedCall(d) \/ MarkExecuting(d) \/ RecheckRecord(d) \/ Reserve(d)
             \/ ToolNodeReturns(d)
    <3>1. UNCHANGED done /\ at'[d] # "unused" /\ at[d] # "settle"
      BY <2>4 DEF SkipCall, Skip, AllowedCall, Considered, MoreCalls, Execute, MarkExecuting,
         RecheckRecord, Reserve, ToolNodeReturns, Move, GraphTypeOK
    <3> QED
      BY <1>2, <2>1, <3>1 DEF MayHaveSent
  <2>5. CASE ResumedCall(d) \/ CheckRecord(d) \/ CallTool(d)
    <3>1. at[d] # "settle" /\ at'[d] # "unused"
      BY <2>5 DEF ResumedCall, CheckRecord, CallTool, Considered, MoreCalls, Execute, Finish, Move,
         GraphTypeOK
    <3>2. done[d] \subseteq done'[d]
      BY <2>5 DEF ResumedCall, CheckRecord, CallTool, Finish, GraphTypeOK
    <3> QED
      BY <1>2, <2>1, <3>1, <3>2 DEF MayHaveSent
  <2>6. CASE SettleCall(d)
    <3>1. at'[d] = "tool_call" /\ done'[d] = done[d] \cup ({Call(d).id} \ {NoId})
      BY <2>6 DEF SettleCall, Finish, Move, GraphTypeOK
    <3>2. t # NoId
      BY NoIdAssumption
    <3> QED
      BY <1>2, <2>1, <3>1, <3>2 DEF MayHaveSent
  <2> QED
    BY <2>0, <2>2, <2>3, <2>4, <2>5, <2>6
       DEF DriverStep, GraphStep, Resumes, Resume, RunGraph, RunTransferWorkflow
<1> QED
  BY <1>1, <1>2

\* A run that sends a call becomes a sender of it, for the first time.
LEMMA ReadDriver ==
  ASSUME IsFiniteSet(Drivers), SysTypeOK, RunInv, ReadInv, NEW d \in Drivers, DriverStep(d)
  PROVE  ReadInv'
<1>0. /\ GraphTypeOK /\ DriverInv(d) /\ OnlyDriver(d) /\ dispatched \in [Keys -> Nat]
      /\ UNCHANGED thread
  BY DriverFrame DEF SysTypeOK, RunInv, TypeOK, IdempotencyTypeOK, OnlyDriver
<1> SUFFICES ASSUME NEW k \in Keys \ WriteKeys
             PROVE  dispatched'[k] <= Cardinality(Senders(k)')
  BY DEF ReadInv
<1>1. k[2] \in ToolIds
  BY DEF Keys
<1>2. Senders(k) \subseteq Senders(k)' /\ Senders(k) \subseteq Drivers /\ Senders(k)' \subseteq Drivers
  BY <1>0, <1>1, SentStays DEF Senders
<1>3. /\ IsFiniteSet(Senders(k)) /\ IsFiniteSet(Senders(k)')
      /\ Cardinality(Senders(k)) <= Cardinality(Senders(k)')
  BY <1>2, FS_Subset
<1>4. Cardinality(Senders(k)) \in Nat /\ Cardinality(Senders(k)') \in Nat
  BY <1>3, FS_CardinalityType
<1>5. dispatched[k] \in Nat /\ dispatched[k] <= Cardinality(Senders(k))
  BY <1>0 DEF ReadInv
<1>6. CASE dispatched'[k] = dispatched[k]
  BY <1>3, <1>4, <1>5, <1>6
<1>7. CASE dispatched'[k] # dispatched[k]
  <2>1. /\ at[d] = "call_tool" /\ CallKey(d) \in Keys /\ call_tool(CallKey(d))
        /\ at'[d] \in {"settle", "failed"} /\ UNCHANGED <<mem, pos, done, resume, thread, policy>>
    BY <1>0, <1>7, GraphSends
  <2>2. k = CallKey(d) /\ dispatched'[k] = dispatched[k] + 1
    BY <1>0, <1>7, <2>1 DEF call_tool
  <2>3. k[1] = thread[d] /\ k[2] = Call(d).id
    BY <2>2 DEF CallKey
  <2>4. Call(d).id \notin done[d]
    BY <1>0, <2>1 DEF DriverInv, CallLabels, UnsentLabels
  <2>5. d \notin Senders(k)
    BY <2>1, <2>3, <2>4 DEF Senders, MayHaveSent, Ended
  <2>6. d \in Senders(k)'
    BY <2>1, <2>3 DEF Senders, MayHaveSent, Ended, Call
  <2>7. Senders(k) \cup {d} \subseteq Senders(k)'
    BY <1>2, <2>6
  <2>8. IsFiniteSet(Senders(k) \cup {d}) /\ Cardinality(Senders(k) \cup {d}) = Cardinality(Senders(k)) + 1
    BY <1>3, <2>5, FS_AddElement
  <2>9. Cardinality(Senders(k) \cup {d}) <= Cardinality(Senders(k)')
    BY <1>3, <2>7, FS_Subset
  <2> QED
    BY <1>4, <1>5, <2>2, <2>8, <2>9
<1> QED
  BY <1>6, <1>7

\* The executor sends no reads, and no other step sends anything.
LEMMA ReadInvStep ==
  ASSUME IsFiniteSet(Drivers), ReadsDoNotWait, SysTypeOK, RunInv, GrantInv, ReadInv,
         [SysNext]_sysVars
  PROVE  ReadInv'
<1>0. TypeOK /\ sid \in [Requests -> Sessions] /\ dispatched \in [Keys -> Nat]
  BY DEF SysTypeOK, TypeOK, IdempotencyTypeOK
<1>a. ASSUME UNCHANGED graphVars, \A k \in Keys \ WriteKeys : dispatched'[k] = dispatched[k]
      PROVE  ReadInv'
  <2>1. UNCHANGED <<at, mem, pos, done, thread>>
    BY <1>a DEF graphVars, driverVars, argVars
  <2>2. \A k \in Keys : Senders(k)' = Senders(k)
    BY <2>1 DEF Senders, MayHaveSent, Call
  <2> QED
    BY <1>a, <2>2 DEF ReadInv
<1>1. ASSUME NEW d \in AgentRuns, HandlerStep(d) \/ SuspendRun(d) PROVE ReadInv'
  BY <1>1, <1>a DEF HandlerStep, ReportEnd, ReportInterrupt, TransferReturns, SuspendFails, vars,
     SuspendRun, InsertSession
<1>2. ASSUME NEW s \in Sessions, InsertGrant(s) \/ CrashCreating(s), UNCHANGED graphVars PROVE ReadInv'
  BY <1>2, <1>a DEF InsertGrant, CrashCreating
<1>3. CASE UNCHANGED sysVars
  BY <1>3, <1>a DEF sysVars, vars
<1>4. ASSUME NEW r \in Requests, RequestStep(r), UNCHANGED graphVars PROVE ReadInv'
  <2>1. CASE UNCHANGED dispatched
    BY <1>4, <1>a, <2>1
  <2>2. CASE Dispatch(r)
    <3>1. pc[r] \in DecidedPC /\ call_tool(IdemKey(sid[r]))
      BY <2>2 DEF Dispatch, At, DecidedPC, ClaimedPC
    <3>2. hitl[sid[r]].tool_call_id \in ToolIds /\ sid[r] \in Sessions
      BY <1>0, <3>1 DEF GrantInv, KnownOperation
    <3>3. Suspended(hitl[sid[r]].tool_call_id)
      BY <3>2, NoIdAssumption DEF RunInv
    <3>4. PICK m \in Messages : \E i \in DOMAIN m :
            m[i].id = hitl[sid[r]].tool_call_id /\ policy[m[i].kind] = "PENDING"
      BY <3>3 DEF Suspended
    <3>5. PICK i \in DOMAIN m : m[i].id = hitl[sid[r]].tool_call_id /\ policy[m[i].kind] = "PENDING"
      BY <3>4
    <3>6. m[i].kind \in {"READ", "WRITE"} /\ policy \in Policies
      <4>1. m \in Seq(ToolCall)
        BY GraphAssumption
      <4>2. m[i] \in ToolCall
        BY <4>1
      <4> QED
        BY <4>2 DEF ToolCall, Kinds, SysTypeOK, GraphTypeOK
    <3>7. m[i].kind = "WRITE"
      BY <3>5, <3>6 DEF ReadsDoNotWait
    <3>8. IdemKey(sid[r]) \in WriteKeys
      <4>1. IdemKey(sid[r]) \in Keys /\ IdemKey(sid[r])[2] = hitl[sid[r]].tool_call_id
        BY <3>2 DEF IdemKey, Keys
      <4> QED
        BY <3>5, <3>7, <4>1 DEF WriteKeys
    <3>9. \A k \in Keys \ WriteKeys : dispatched'[k] = dispatched[k]
      BY <1>0, <3>1, <3>8 DEF call_tool
    <3> QED
      BY <1>4, <1>a, <3>9
  <2> QED
    BY <1>4, <2>1, <2>2, DecisionSends
<1> QED
  BY <1>1, <1>2, <1>3, <1>4, ReadDriver, SysKinds

-----------------------------------------------------------------------------
(* Theorems                                                                *)

\* Nothing is claimed and nothing has been sent.
LEMMA SendInit ==
  ASSUME SysInit
  PROVE  GrantInv /\ ClaimedKnown /\ SendInv /\ UnknownInv
<1>1. /\ \A s \in Sessions : grant[s].status = "NONE"
      /\ \A k \in Keys : dispatched[k] = 0
      /\ \A r \in Requests : pc[r] = "idle"
  BY DEF SysInit, GrantInit, NoGrant
<1>2. GrantInv /\ ClaimedKnown /\ UnknownInv
  <2>1. sid \in [Requests -> Sessions]
    BY RunInvInit DEF SysTypeOK, TypeOK
  <2> QED
    BY <1>1, <2>1 DEF GrantInv, ClaimedKnown, UnknownInv, KnownOperation, Claimant, Holding,
       UnsettledPC, ClaimedPC, SettlingPC, DecidedPC, ClaimedStatus
<1>3. SendInv
  BY <1>1 DEF SendInv, GuardedKeys
<1> QED
  BY <1>2, <1>3

\* No run has begun, and nothing has been sent.
LEMMA ReadInit ==
  ASSUME IsFiniteSet(Drivers), SysInit
  PROVE  ReadInv
<1> SUFFICES ASSUME NEW k \in Keys PROVE dispatched[k] <= Cardinality(Senders(k))
  BY DEF ReadInv
<1>1. Senders(k) \subseteq Drivers
  BY DEF Senders
<1>2. Cardinality(Senders(k)) \in Nat
  BY <1>1, FS_Subset, FS_CardinalityType
<1>3. dispatched[k] = 0
  BY DEF SysInit
<1> QED
  BY <1>2, <1>3

\* Both policies of the gateway that a human stands behind or that refuse writes
\* make every write wait and no read.
LEMMA GatewayPolicies ==
  ASSUME Policies \subseteq {ReadOnlyPolicy, RequireApprovalPolicy}
  PROVE  WritesWait /\ ReadsDoNotWait
BY DEF WritesWait, ReadsDoNotWait, ReadOnlyPolicy, RequireApprovalPolicy

\* The write calls of the model's answers are guarded where every policy makes them wait.
LEMMA WritesAreGuarded ==
  ASSUME WritesWait, SysTypeOK
  PROVE  WriteKeys \subseteq GuardedKeys
BY DEF WritesWait, SysTypeOK, GraphTypeOK, WriteKeys, GuardedKeys, Guarded

\* Nothing guarded is ever sent beyond its approval: the invariant in one piece.
LEMMA SystemInvariant ==
  ASSUME IdNamesOneTool
  PROVE  SysSpec => [](SysTypeOK /\ RunInv /\ GrantInv /\ ClaimedKnown /\ SendInv /\ UnknownInv)
<1>1. SysInit => SysTypeOK /\ RunInv /\ GrantInv /\ ClaimedKnown /\ SendInv /\ UnknownInv
  BY RunInvInit, SendInit
<1>2. SysTypeOK /\ RunInv /\ GrantInv /\ ClaimedKnown /\ SendInv /\ UnknownInv /\ [SysNext]_sysVars
        => (SysTypeOK /\ RunInv /\ GrantInv /\ ClaimedKnown /\ SendInv /\ UnknownInv)'
  BY RunInvStep, GrantInvStep, ClaimedKnownStep, SendInvStep, UnknownInvStep
<1> QED
  BY <1>1, <1>2, PTL DEF SysSpec

\* However many runs and decisions race on a conversation, and wherever they die, a
\* write is sent at most twice: once by the executor, once by the run it resumes.
THEOREM WriteSentAtMostTwice ==
  ASSUME IdNamesOneTool, WritesWait
  PROVE  SysSpec => []AtMostTwice
<1>1. SysTypeOK /\ SendInv => AtMostTwice
  BY WritesAreGuarded DEF SendInv, AtMostTwice
<1> QED
  BY <1>1, SystemInvariant, PTL

\* No write leaves the process, from the executor or from the graph, before a human
\* approved the session and its grant was claimed.
THEOREM WriteNeedsClaim ==
  ASSUME IdNamesOneTool, WritesWait
  PROVE  SysSpec => [](\A k \in WriteKeys : dispatched[k] > 0 => grant[k[1]].status \in ClaimedStatus)
<1>1. SysTypeOK /\ SendInv => \A k \in WriteKeys : dispatched[k] > 0 => grant[k[1]].status \in ClaimedStatus
  BY WritesAreGuarded DEF SendInv
<1> QED
  BY <1>1, SystemInvariant, PTL

\* A write whose outcome the executor does not know has been tried once and is not
\* tried again, by a decision or by the graph.
THEOREM UnknownStaysAtOne ==
  ASSUME IdNamesOneTool
  PROVE  SysSpec => []UnknownIsNotRetried
<1>1. UnknownInv => UnknownIsNotRetried
  BY DEF UnknownInv, UnknownIsNotRetried
<1> QED
  BY <1>1, SystemInvariant, PTL

\* A read is sent at most once per run of the graph, whatever ids the model repeats.
THEOREM ReadSentOncePerRun ==
  ASSUME IsFiniteSet(Drivers), ReadsDoNotWait
  PROVE  SysSpec => []ReadsOncePerRun
<1> DEFINE Inv == SysTypeOK /\ RunInv /\ GrantInv /\ ReadInv
<1>1. SysInit => Inv
  BY RunInvInit, SendInit, ReadInit
<1>2. Inv /\ [SysNext]_sysVars => Inv'
  BY RunInvStep, GrantInvStep, ReadInvStep
<1>3. Inv => ReadsOncePerRun
  <2> SUFFICES ASSUME Inv, NEW k \in Keys \ WriteKeys
               PROVE  dispatched[k] <=
                        Cardinality({d \in Drivers : thread[d] = k[1] /\ at[d] # "unused"})
    BY DEF ReadsOncePerRun
  <2> DEFINE Started == {d \in Drivers : thread[d] = k[1] /\ at[d] # "unused"}
  <2>1. Senders(k) \subseteq Started /\ Started \subseteq Drivers
    BY DEF Senders, MayHaveSent
  <2>2. IsFiniteSet(Started) /\ IsFiniteSet(Senders(k)) /\ Cardinality(Senders(k)) <= Cardinality(Started)
    BY <2>1, FS_Subset
  <2>3. Cardinality(Senders(k)) \in Nat /\ Cardinality(Started) \in Nat
    BY <2>2, FS_CardinalityType
  <2>4. dispatched[k] \in Nat /\ dispatched[k] <= Cardinality(Senders(k))
    BY DEF SysTypeOK, TypeOK, IdempotencyTypeOK, ReadInv
  <2>5. dispatched[k] <= Cardinality(Started)
    BY <2>2, <2>3, <2>4
  <2> QED
    BY <2>5
<1> QED
  BY <1>1, <1>2, <1>3, PTL DEF SysSpec

\* Where every run proposes one and the same write, the call a run sends on an approval
\* is the call the session stores.
LEMMA SentIsStoredStep ==
  ASSUME IdNamesOneTool, WritesWait, ReadsDoNotWait, OneWriteId,
         SysTypeOK, RunInv, GrantInv, ClaimedKnown, SentIsStored, [SysNext]_sysVars
  PROVE  SentIsStored'
<1>0. /\ TypeOK /\ GraphTypeOK /\ sid \in [Requests -> Sessions] /\ dispatched \in [Keys -> Nat]
      /\ WriteKeys \subseteq Keys
  BY DEF SysTypeOK, TypeOK, IdempotencyTypeOK, WriteKeys
<1>a. ASSUME NEW d \in Drivers, at[d] \in CallLabels \cup {"interrupted"}
      PROVE  mem[d].msg \in Messages /\ pos[d] \in DOMAIN mem[d].msg /\ Call(d).valid
  BY <1>0, <1>a, CallFacts DEF RunInv, DriverInv
\* A session's row, once stored, keeps its call.
<1>b. ASSUME \A s \in Sessions : Exists(s) =>
               hitl'[s].status # "NONE" /\ hitl'[s].tool_call_id = hitl[s].tool_call_id,
             \A k \in WriteKeys : dispatched'[k] > 0 =>
               dispatched[k] > 0 \/ (Exists(k[1]) /\ hitl[k[1]].tool_call_id = k[2])
      PROVE  SentIsStored'
  <2>1. \A k \in WriteKeys : k[1] \in Sessions
    BY <1>0 DEF Keys
  <2> QED
    BY <1>b, <2>1 DEF SentIsStored, Exists
<1>1. ASSUME NEW d \in Drivers, DriverStep(d), UNCHANGED hitl PROVE SentIsStored'
  <2>1. CASE UNCHANGED dispatched
    BY <1>1, <1>b, <2>1 DEF Exists
  <2>2. CASE at[d] = "call_tool" /\ CallKey(d) \in Keys /\ call_tool(CallKey(d))
    <3>1. ASSUME CallKey(d) \in WriteKeys
          PROVE  Exists(thread[d]) /\ hitl[thread[d]].tool_call_id = Call(d).id
      <4>1. CallKey(d) \in GuardedKeys
        BY <3>1, WritesAreGuarded
      <4>2. d \in Requests /\ pc[d] = "approved" /\ sid[d] = thread[d] /\ thread[d] \in Sessions
        BY <1>0, <2>2, <4>1, GuardedSender DEF GraphTypeOK
      <4>3. Exists(thread[d]) /\ hitl[thread[d]].tool_call_id \in ToolIds
        BY <4>2 DEF GrantInv, Claimant, ClaimedKnown
      <4>4. Suspended(hitl[thread[d]].tool_call_id)
        BY <4>2, <4>3, NoIdAssumption DEF RunInv
      <4>5. PICK m \in Messages : \E i \in DOMAIN m :
              /\ m[i].id = hitl[thread[d]].tool_call_id /\ m[i].valid
              /\ policy[m[i].kind] = "PENDING"
        BY <4>4 DEF Suspended
      <4>6. PICK i \in DOMAIN m : /\ m[i].id = hitl[thread[d]].tool_call_id /\ m[i].valid
                                  /\ policy[m[i].kind] = "PENDING"
        BY <4>5
      <4>7. m[i].kind = "WRITE"
        <5>1. m \in Seq(ToolCall)
          BY GraphAssumption
        <5>2. m[i] \in ToolCall
          BY <5>1
        <5>3. m[i].kind \in {"READ", "WRITE"} /\ policy \in Policies
          BY <1>0, <5>2 DEF ToolCall, Kinds, GraphTypeOK
        <5> QED
          BY <4>6, <5>3 DEF ReadsDoNotWait
      <4>8. mem[d].msg \in Messages /\ pos[d] \in DOMAIN mem[d].msg /\ Call(d).valid
        BY <1>a, <2>2 DEF CallLabels, UnsentLabels
      <4>9. PICK n \in Messages : \E j \in DOMAIN n : n[j].id = Call(d).id /\ n[j].kind = "WRITE"
        BY <3>1 DEF WriteKeys, CallKey
      <4>10. PICK j \in DOMAIN n : n[j].id = Call(d).id /\ n[j].kind = "WRITE"
        BY <4>9
      <4>11. Call(d).id # NoId
        BY <2>2, NoIdAssumption DEF CallKey, Keys
      <4>12. Call(d).kind = "WRITE"
        BY <4>8, <4>10, <4>11 DEF IdNamesOneTool, Call
      <4>13. m[i].id = Call(d).id
        BY <4>6, <4>7, <4>8, <4>12 DEF OneWriteId, Call
      <4> QED
        BY <4>3, <4>6, <4>13
    <3>2. \A k \in Keys \ {CallKey(d)} : dispatched'[k] = dispatched[k]
      BY <1>0, <2>2 DEF call_tool
    <3>3. CallKey(d)[1] = thread[d] /\ CallKey(d)[2] = Call(d).id
      BY DEF CallKey
    <3>4. \A k \in WriteKeys : dispatched'[k] > 0 =>
            dispatched[k] > 0 \/ (Exists(k[1]) /\ hitl[k[1]].tool_call_id = k[2])
      BY <1>0, <3>1, <3>2, <3>3
    <3> QED
      BY <1>1, <1>b, <3>4 DEF Exists
  <2> QED
    BY <1>0, <1>1, <2>1, <2>2, GraphSends DEF RunInv
<1>2. ASSUME NEW r \in Requests, RequestStep(r) PROVE SentIsStored'
  <2>1. \A s \in Sessions : Exists(s) =>
          hitl'[s].status # "NONE" /\ hitl'[s].tool_call_id = hitl[s].tool_call_id
    BY <1>0, <1>2, RequestFrame, SessionKept
  <2>2. CASE UNCHANGED dispatched
    BY <1>b, <2>1, <2>2
  <2>3. CASE Dispatch(r)
    <3>1. pc[r] \in DecidedPC /\ call_tool(IdemKey(sid[r]))
      BY <2>3 DEF Dispatch, At, DecidedPC, ClaimedPC
    <3>2. Exists(sid[r]) /\ hitl[sid[r]].tool_call_id \in ToolIds /\ sid[r] \in Sessions
      BY <1>0, <3>1 DEF GrantInv, KnownOperation
    <3>3. /\ IdemKey(sid[r]) \in Keys /\ IdemKey(sid[r])[1] = sid[r]
          /\ IdemKey(sid[r])[2] = hitl[sid[r]].tool_call_id
      BY <3>2 DEF IdemKey, Keys
    <3>4. \A k \in WriteKeys : dispatched'[k] > 0 =>
            dispatched[k] > 0 \/ (Exists(k[1]) /\ hitl[k[1]].tool_call_id = k[2])
      BY <1>0, <3>1, <3>2, <3>3 DEF call_tool
    <3> QED
      BY <1>b, <2>1, <3>4
  <2> QED
    BY <1>2, <2>2, <2>3, DecisionSends
<1>3. ASSUME UNCHANGED <<hitl, dispatched>> PROVE SentIsStored'
  BY <1>3, <1>b DEF Exists
<1>4. ASSUME NEW d \in AgentRuns, HandlerStep(d) PROVE SentIsStored'
  BY <1>4, <1>3 DEF HandlerStep, ReportEnd, ReportInterrupt, TransferReturns, SuspendFails, vars
<1>5. ASSUME NEW d \in AgentRuns, SuspendRun(d) PROVE SentIsStored'
  <2>1. InsertSession(thread[d], Call(d).id) /\ UNCHANGED dispatched
    BY <1>5 DEF SuspendRun, InsertSession
  <2>2. ~Exists(thread[d]) /\ \A s \in Sessions \ {thread[d]} : hitl'[s] = hitl[s]
    BY <1>0, <2>1 DEF InsertSession, HITLInsert, TypeOK, HITLTypeOK
  <2> QED
    BY <1>b, <2>1, <2>2 DEF Exists
<1> QED
  BY <1>1, <1>2, <1>3, <1>4, <1>5, SysKinds DEF InsertGrant, CrashCreating, sysVars, vars

\* The write that is sent is the one a human approved, where every run proposes one and
\* the same write; without that it need not be, as the run other_call shows.
THEOREM ApprovedCallRuns ==
  ASSUME IdNamesOneTool, WritesWait, ReadsDoNotWait, OneWriteId
  PROVE  SysSpec => []OnlyApprovedCallRuns
<1> DEFINE Base == SysTypeOK /\ RunInv /\ GrantInv /\ ClaimedKnown /\ SendInv /\ UnknownInv
<1>1. SysInit => SentIsStored
  BY DEF SysInit, SentIsStored, WriteKeys
<1>2. Base /\ SentIsStored /\ [SysNext]_sysVars => SentIsStored'
  BY SentIsStoredStep
<1>3. Base /\ SentIsStored => OnlyApprovedCallRuns
  BY WritesAreGuarded DEF SendInv, SentIsStored, OnlyApprovedCallRuns
<1>4. SysSpec => []Base
  BY SystemInvariant
<1> QED
  BY <1>1, <1>2, <1>3, <1>4, PTL DEF SysSpec

-----------------------------------------------------------------------------
(* The arguments of a resumed call                                         *)

\* An approval carries the stored arguments of its session, and a call that only it lets
\* through is made with them.
ArgsInv ==
  \A d \in Drivers :
    /\ resume[d] = "approved" => canon[d] = hitl[thread[d]].tool_call_id
    /\ at[d] \in CallLabels /\ Guarded(Call(d)) => args[d] = hitl[thread[d]].tool_call_id

\* A run whose approval still counts belongs to a request that has claimed its grant, and
\* the session of that grant is stored.
LEMMA ApprovalIsStored ==
  ASSUME SysTypeOK, RunInv, GrantInv, ClaimedKnown, NEW d \in Drivers,
         resume[d] = "approved" \/ (at[d] \in CallLabels /\ Guarded(Call(d)))
  PROVE  grant[thread[d]].status \in ClaimedStatus /\ Exists(thread[d])
<1>1. d \in Requests /\ pc[d] = "approved"
  BY DEF RunInv, DriverInv
<1>2. sid[d] = thread[d] /\ thread[d] \in Sessions
  BY <1>1 DEF RunInv, SysTypeOK, GraphTypeOK
<1> QED
  BY <1>1, <1>2 DEF GrantInv, Claimant, ClaimedKnown

\* The run that takes the step keeps it.
LEMMA ArgsDriver ==
  ASSUME SysTypeOK, RunInv, ArgsInv, NEW d \in Drivers, DriverStep(d), UNCHANGED hitl
  PROVE  /\ resume'[d] = "approved" => canon'[d] = hitl[thread[d]].tool_call_id
         /\ at'[d] \in CallLabels /\ Guarded(Call(d))' => args'[d] = hitl[thread[d]].tool_call_id
<1>0. GraphTypeOK /\ TypeOK
  BY DEF SysTypeOK
<1>1. CASE Resumes(d)
  <2>1. /\ canon' = [canon EXCEPT ![d] = hitl[sid[d]].tool_call_id] /\ sid[d] = thread[d]
    BY <1>1 DEF Resumes, Resume, RunInv
  <2>2. at'[d] \notin CallLabels
    BY <1>0, <1>1 DEF Resumes, Resume, EnterToolNode, Move, GraphTypeOK, CallLabels, UnsentLabels
  <2> QED
    BY <1>0, <2>1, <2>2 DEF GraphTypeOK
<1>2. CASE AllowedCall(d)
  <2>1. UNCHANGED <<canon, resume, mem, pos, policy>> /\ policy[Call(d).kind] = "APPROVED"
    BY <1>2 DEF AllowedCall, Considered
  <2>2. ~Guarded(Call(d))'
    BY <2>1 DEF Guarded, Call
  <2> QED
    BY <2>1, <2>2 DEF ArgsInv
<1>3. CASE ResumedCall(d)
  <2>1. /\ resume' = [resume EXCEPT ![d] = "none"] /\ resume'[d] = "none"
    BY <1>0, <1>3 DEF ResumedCall, GraphTypeOK
  <2>2. CASE resume[d] = "approved" /\ args' = [args EXCEPT ![d] = canon[d]]
    BY <1>0, <2>1, <2>2 DEF ArgsInv, GraphTypeOK
  <2>3. CASE Finish(d)
    BY <1>0, <2>1, <2>3 DEF Finish, Move, GraphTypeOK, CallLabels, UnsentLabels
  <2> QED
    BY <1>3, <2>2, <2>3 DEF ResumedCall
\* Every other step leaves the arguments alone, and is at a call only if it was.
<1>4. CASE UNCHANGED <<resume, argVars>> /\ at'[d] \notin CallLabels
  BY <1>4 DEF ArgsInv, argVars
<1>5. CASE /\ UNCHANGED <<resume, argVars, mem, policy>>
           /\ at[d] \in CallLabels /\ (at'[d] = "tool_call" \/ UNCHANGED pos)
  <2>1. CASE at'[d] = "tool_call"
    BY <1>4, <1>5, <2>1 DEF CallLabels, UnsentLabels
  <2>2. CASE UNCHANGED pos
    BY <1>5, <2>2 DEF ArgsInv, argVars, Call, Guarded
  <2> QED
    BY <1>5, <2>1, <2>2
<1>6. CASE \/ Die(d) \/ RunGraph(d) \/ RunTransferWorkflow(d) \/ AgentNode(d) \/ FinalAnswer(d)
           \/ AgentNodeFails(d) \/ SkipCall(d) \/ Interrupt(d) \/ ToolNodeReturns(d)
  <2>1. UNCHANGED <<resume, argVars>>
    BY <1>6 DEF Die, RunGraph, RunTransferWorkflow, AgentNode, FinalAnswer, AgentNodeFails, SkipCall,
       Interrupt, ToolNodeReturns
  <2>2. PICK label \in {"died", "agent_node", "tool_call", "answered", "failed", "interrupted"} :
          Move(d, label)
    BY <1>6 DEF Die, RunGraph, RunTransferWorkflow, AgentNode, FinalAnswer, AgentNodeFails, SkipCall,
       Interrupt, ToolNodeReturns, EnterToolNode, Skip
  <2> QED
    BY <1>0, <1>4, <2>1, <2>2 DEF Move, GraphTypeOK, CallLabels, UnsentLabels
<1>7. CASE CheckRecord(d) \/ MarkExecuting(d) \/ RecheckRecord(d) \/ Reserve(d) \/ CallTool(d) \/ SettleCall(d)
  <2>1. UNCHANGED <<resume, argVars, mem, policy>> /\ at[d] \in CallLabels
    BY <1>7 DEF CheckRecord, MarkExecuting, RecheckRecord, Reserve, CallTool, SettleCall, CallLabels,
       UnsentLabels
  <2>2. Finish(d) \/ UNCHANGED pos
    BY <1>7 DEF CheckRecord, MarkExecuting, RecheckRecord, Reserve, CallTool, SettleCall
  <2>3. Finish(d) => at'[d] = "tool_call"
    BY <1>0 DEF Finish, Move, GraphTypeOK
  <2> QED
    BY <1>5, <2>1, <2>2, <2>3
<1> QED
  BY <1>1, <1>2, <1>3, <1>6, <1>7 DEF DriverStep, GraphStep

\* Every step of the system keeps it.
LEMMA ArgsInvStep ==
  ASSUME SysTypeOK, RunInv, GrantInv, ClaimedKnown, ArgsInv, [SysNext]_sysVars
  PROVE  ArgsInv'
<1>0. TypeOK /\ GraphTypeOK
  BY DEF SysTypeOK
\* A step that leaves the runs alone, and the stored call of every session there is.
<1>a. ASSUME UNCHANGED graphVars,
             \A s \in Sessions : Exists(s) => hitl'[s].tool_call_id = hitl[s].tool_call_id
      PROVE  ArgsInv'
  <2>1. UNCHANGED <<at, thread, policy, mem, pos, resume, canon, args>>
    BY <1>a DEF graphVars, driverVars, argVars
  <2>2. ASSUME NEW d \in Drivers
        PROVE  /\ Call(d)' = Call(d) /\ Guarded(Call(d))' = Guarded(Call(d))
               /\ thread[d] \in Sessions
    BY <1>0, <2>1 DEF Call, Guarded, GraphTypeOK
  <2> QED
    BY <1>a, <2>1, <2>2, ApprovalIsStored DEF ArgsInv
<1>b. UNCHANGED <<graphVars, hitl>> => ArgsInv'
  BY <1>a
<1>1. ASSUME NEW d \in Drivers, DriverStep(d), UNCHANGED hitl PROVE ArgsInv'
  <2>1. OnlyDriver(d)
    BY <1>0, <1>1, DriverFrame
  <2>2. ASSUME NEW e \in Drivers, e # d
        PROVE  /\ resume'[e] = "approved" => canon'[e] = hitl[thread[e]].tool_call_id
               /\ at'[e] \in CallLabels /\ Guarded(Call(e))' => args'[e] = hitl[thread[e]].tool_call_id
    BY <2>1, <2>2 DEF ArgsInv, OnlyDriver, Call, Guarded
  <2> QED
    BY <1>1, <2>1, <2>2, ArgsDriver DEF ArgsInv, OnlyDriver
<1>2. ASSUME NEW r \in Requests, RequestStep(r), UNCHANGED graphVars PROVE ArgsInv'
  BY <1>0, <1>2, <1>a, ToolCallKept
<1>3. ASSUME NEW d \in AgentRuns, HandlerStep(d) PROVE ArgsInv'
  BY <1>3, <1>b DEF HandlerStep, ReportEnd, ReportInterrupt, TransferReturns, SuspendFails, vars
<1>4. ASSUME NEW d \in AgentRuns, SuspendRun(d) PROVE ArgsInv'
  <2>1. InsertSession(thread[d], Call(d).id) /\ UNCHANGED graphVars
    BY <1>4 DEF SuspendRun
  <2>2. ~Exists(thread[d]) /\ \A s \in Sessions \ {thread[d]} : hitl'[s] = hitl[s]
    BY <1>0, <2>1 DEF InsertSession, HITLInsert, TypeOK, HITLTypeOK
  <2> QED
    BY <1>a, <2>1, <2>2
<1>5. ASSUME NEW s \in Sessions, InsertGrant(s) \/ CrashCreating(s), UNCHANGED graphVars PROVE ArgsInv'
  BY <1>5, <1>b DEF InsertGrant, CrashCreating
<1>6. CASE UNCHANGED sysVars
  BY <1>6, <1>b DEF sysVars, vars
<1> QED
  BY <1>1, <1>2, <1>3, <1>4, <1>5, <1>6, SysKinds

\* Whatever the model proposes and however the runs on a conversation interleave, a write
\* that a run is about to send belongs to a claimed grant and is made with the arguments
\* stored in the approved session.
THEOREM ApprovedArgumentsOnly ==
  ASSUME IdNamesOneTool, WritesWait
  PROVE  SysSpec => []ApprovedArguments
<1> DEFINE Base == SysTypeOK /\ RunInv /\ GrantInv /\ ClaimedKnown /\ SendInv /\ UnknownInv
<1>1. SysInit => ArgsInv
  BY DEF SysInit, GraphInit, ArgsInv, CallLabels, UnsentLabels
<1>2. Base /\ ArgsInv /\ [SysNext]_sysVars => ArgsInv'
  BY ArgsInvStep
<1>3. Base /\ ArgsInv => ApprovedArguments
  <2> SUFFICES ASSUME SysTypeOK, RunInv, GrantInv, ClaimedKnown, ArgsInv, NEW d \in Drivers,
                      at[d] = "call_tool", Call(d).kind = "WRITE"
               PROVE  grant[thread[d]].status \in ClaimedStatus /\ args[d] = hitl[thread[d]].tool_call_id
    BY DEF ApprovedArguments
  <2>1. Guarded(Call(d)) /\ at[d] \in CallLabels
    BY DEF Guarded, WritesWait, SysTypeOK, GraphTypeOK, CallLabels, UnsentLabels
  <2> QED
    BY <2>1, ApprovalIsStored DEF ArgsInv
<1>4. SysSpec => []Base
  BY SystemInvariant
<1> QED
  BY <1>1, <1>2, <1>3, <1>4, PTL DEF SysSpec

=============================================================================
