----------------------------- MODULE HITLSystem -----------------------------
(***************************************************************************)
(* POST /agent and POST /agent/approve (api.py) around the agent graph and *)
(* the approval executor, which share the idempotency store, the event     *)
(* store and the MCP server.                                               *)
(*                                                                         *)
(* An /agent request drives the graph; when it is interrupted the request  *)
(* creates the session and the grant.  An /agent/approve request runs the  *)
(* executor and, when that succeeds, drives the graph again with the       *)
(* decision as the resume value.                                           *)
(***************************************************************************)
EXTENDS ApprovalExecutor, AgentGraph, FiniteSets

ASSUME SystemAssumption ==
  /\ Requests \subseteq Drivers
  /\ Deadlined = {}   \* /agent stores expires_at = None

AgentRuns == Drivers \ Requests

VARIABLES router,  \* an intent router is configured
          route,   \* /agent request -> route its run took
          api      \* /agent request -> what its handler does next

sysVars == <<vars, graphVars, router, route, api>>
executorVars == <<hitl, late, grant, events, creating, reqVars>>

SysTypeOK ==
  /\ TypeOK /\ GraphTypeOK
  /\ router \in BOOLEAN
  /\ route \in [AgentRuns -> {"none", "graph", "transfer"}]
  /\ api \in [AgentRuns -> {"running", "insert", "returned"}]

SysInit ==
  /\ HITLInit /\ GrantInit /\ GraphInit
  /\ idem = [k \in Keys |-> "NONE"]
  /\ dispatched = [k \in Keys |-> 0]
  /\ events = [s \in Sessions |-> EmptyTrail]
  /\ creating = {}
  /\ pc = [r \in Requests |-> "idle"]
  /\ sid = [r \in Requests |-> thread[r]]
  /\ actor \in [Requests -> Actors]
  /\ ver = [r \in Requests |-> 0]
  /\ out = [r \in Requests |-> "none"]
  /\ router \in BOOLEAN
  /\ route = [d \in AgentRuns |-> "none"]
  /\ api = [d \in AgentRuns |-> "running"]

-----------------------------------------------------------------------------
(* POST /agent                                                             *)

StoreTrail(s, trail) ==
  events' = [events EXCEPT ![s] = [q \in Seqs |-> IF @[q] = "NONE" THEN trail[q] ELSE @[q]]]

\* run() stores the user message and the classified intent, then starts.  Every route
\* the router can choose returns by itself: the plain graph is run only without one.
AgentRequest(d) ==
  /\ \/ ~router /\ RunGraph(d) /\ StoreTrail(thread[d], RunTrail)
     \/ router /\ RunTransferWorkflow(d) /\ StoreTrail(thread[d], RoutedTrail)
  /\ route' = [route EXCEPT ![d] = IF router THEN "transfer" ELSE "graph"]
  /\ UNCHANGED <<hitl, late, grant, creating, reqVars, router, api>>

\* The run is over: run() records the answer, or that the graph raised RuntimeError.
ReportEnd(d) ==
  /\ route[d] = "graph" /\ api[d] = "running"
  /\ \/ at[d] = "answered" /\ persist_event(thread[d], 1, "AGENT_MESSAGE")
     \/ at[d] = "failed" /\ persist_event(thread[d], 1, "CHECKPOINT")
     \/ at[d] = "failed" /\ UNCHANGED events
  /\ api' = [api EXCEPT ![d] = "returned"]
  /\ UNCHANGED <<hitl, late, grant, idem, dispatched, creating, reqVars, graphVars, router, route>>

\* run() reports the interrupt to the handler.
ReportInterrupt(d) ==
  /\ at[d] = "interrupted" /\ route[d] = "graph" /\ api[d] = "running"
  /\ persist_event(thread[d], 1, "HITL_INTERRUPT")
  /\ api' = [api EXCEPT ![d] = "insert"]
  /\ UNCHANGED <<hitl, late, grant, idem, dispatched, creating, reqVars, graphVars, router, route>>

\* _execute_transfer_workflow returns the last message, whether the graph answered or
\* was interrupted.
TransferReturns(d) ==
  /\ at[d] \in Ended \ {"died"} /\ route[d] = "transfer" /\ api[d] = "running"
  /\ api' = [api EXCEPT ![d] = "returned"]
  /\ UNCHANGED <<vars, graphVars, router, route>>

\* The handler inserts the session row; InsertGrant then adds the grant.
SuspendRun(d) ==
  /\ api[d] = "insert"
  /\ InsertSession(thread[d], Call(d).id)
  /\ api' = [api EXCEPT ![d] = "returned"]
  /\ UNCHANGED <<graphVars, router, route>>

\* The session id has a row already: the INSERT raises and the handler answers 500.
SuspendFails(d) ==
  /\ api[d] = "insert"
  /\ Exists(thread[d])
  /\ api' = [api EXCEPT ![d] = "returned"]
  /\ UNCHANGED <<vars, graphVars, router, route>>

-----------------------------------------------------------------------------
(* POST /agent/approve                                                     *)

Executor(r) ==
  /\ StartApprove(r) \/ StartReject(r) \/ Advance(r)
  /\ UNCHANGED <<graphVars, router, route, api>>

\* Mutant: the graph is resumed as approved whatever the executor answered.
ResumeAfterDecision_AlwaysApproved(r) ==
  /\ pc[r] \in {"approved", "rejected"}
  /\ Resume(r, "approved", hitl[sid[r]].tool_call_id)
  /\ UNCHANGED <<executorVars, router, route, api>>

\* _map_executor_result lets only a successful decision through.  The session is read
\* again for the arguments; a rejection is sent without them, and none are looked at.
ResumeAfterDecision(r) ==
  /\ pc[r] \in {"approved", "rejected"}
  /\ Resume(r, pc[r], hitl[sid[r]].tool_call_id)
  /\ UNCHANGED <<executorVars, router, route, api>>

-----------------------------------------------------------------------------

StoreGrant(s) == InsertGrant(s) /\ UNCHANGED <<graphVars, router, route, api>>

RunStep(d) == GraphStep(d) /\ UNCHANGED <<executorVars, router, route, api>>

SysUndisturbed ==
  \/ \E d \in AgentRuns : AgentRequest(d) \/ ReportEnd(d) \/ ReportInterrupt(d) \/ TransferReturns(d)
                          \/ SuspendRun(d) \/ SuspendFails(d)
  \/ \E s \in Sessions : StoreGrant(s)
  \/ \E r \in Requests : Executor(r) \/ ResumeAfterDecision(r)
  \/ \E d \in Drivers : RunStep(d)

SysCrash ==
  \/ \E s \in Sessions : CrashCreating(s) /\ UNCHANGED <<graphVars, router, route, api>>
  \/ \E r \in Requests : CrashRequest(r) /\ UNCHANGED <<graphVars, router, route, api>>
  \/ \E d \in Drivers : Die(d) /\ UNCHANGED <<executorVars, router, route, api>>

SysNext == SysUndisturbed \/ SysCrash

SysSpec == SysInit /\ [][SysNext]_sysVars

\* A started decision goes on by itself; starting one is up to a human.
Decide(r) == Advance(r) /\ UNCHANGED <<graphVars, router, route, api>>

\* The event loop keeps running every started coroutine.
SysLiveSpec ==
  /\ SysInit /\ [][SysUndisturbed]_sysVars
  /\ \A d \in Drivers : WF_sysVars(RunStep(d))
  /\ \A r \in Requests : WF_sysVars(Decide(r))

-----------------------------------------------------------------------------
(* Properties                                                              *)

WriteKeys ==
  {k \in Keys : \E m \in Messages : \E i \in DOMAIN m : m[i].id = k[2] /\ m[i].kind = "WRITE"}

\* What the theorems of HITLSystemProofs ask of the model provider and of the
\* gateway: a tool call id names one kind of tool, every write is suspended or
\* denied, and no read waits for a human.
IdNamesOneTool ==
  \A m, n \in Messages : \A i \in DOMAIN m, j \in DOMAIN n :
    m[i].id = n[j].id /\ m[i].id # NoId => m[i].kind = n[j].kind
WritesWait == \A p \in Policies : p["WRITE"] # "APPROVED"
ReadsDoNotWait == \A p \in Policies : p["READ"] # "PENDING"

\* The model proposes the same write, under the same id, in every run.
OneWriteId ==
  \A m, n \in Messages : \A i \in DOMAIN m, j \in DOMAIN n :
    m[i].kind = "WRITE" /\ m[i].valid /\ n[j].kind = "WRITE" /\ n[j].valid => m[i].id = n[j].id

\* Under a policy that suspends writes, a write reaches the MCP server (from the
\* executor or from the graph) only if it is the call of a claimed grant.
OnlyApprovedCallRuns ==
  \A k \in WriteKeys : dispatched[k] > 0 =>
    grant[k[1]].status \in ClaimedStatus /\ hitl[k[1]].tool_call_id = k[2]

\* Whichever write a resumed run goes ahead with, the arguments it sends are those
\* stored in the approved session, never ones a later answer of the model has put into
\* the checkpoint: the tool and its id may be another call's (OnlyApprovedCallRuns holds
\* only where the runs propose one and the same write), what it is told to do is not.
ApprovedArguments ==
  \A d \in Drivers : at[d] = "call_tool" /\ Call(d).kind = "WRITE" =>
    /\ grant[thread[d]].status \in ClaimedStatus
    /\ args[d] = hitl[thread[d]].tool_call_id

\* The executor sends an approved write once and the resumed graph at most once
\* more: taking the record over to EXECUTING stops every later repetition.
AtMostTwice == \A k \in WriteKeys : dispatched[k] <= 2

\* However often the model repeats a tool call id, within an answer or in a later
\* one, and however the runs on the thread interleave, one run of the graph sends
\* one read only once: executed_tool_ids covers the calls of the run itself.
ReadsOncePerRun ==
  \A k \in Keys \ WriteKeys :
    dispatched[k] <= Cardinality({d \in Drivers : thread[d] = k[1] /\ at[d] # "unused"})

\* A write whose outcome the executor does not know is not tried again by the
\* graph: its session is FAILED and nothing resumes the thread as approved.
UnknownIsNotRetried ==
  \A s \in Sessions : grant[s].status = "UNKNOWN" => dispatched[IdemKey(s)] = 1

\* A run of the graph ends: answered, interrupted or failed at max_agent_steps.
RunsEnd == \A d \in Drivers : at[d] = "agent_node" ~> at[d] \in Ended

\* docs/hitl-transfer-flow.md:14 "Durable idempotency prevents double-execution".
NoDoubleExecution == \A k \in WriteKeys : dispatched[k] <= 1

\* docs/hitl-transfer-flow.md:10 "HITL session persisted to SqliteHITLStore": a
\* run that returned while its call waits for approval left a session for it.
SuspendedCallHasSession ==
  \A d \in AgentRuns : at[d] = "interrupted" /\ api[d] = "returned" =>
    hitl[thread[d]].tool_call_id = Call(d).id

=============================================================================
