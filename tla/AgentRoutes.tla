---------------------------- MODULE AgentRoutes ----------------------------
(***************************************************************************)
(* AgentRuntime.run (agent.py) with an intent router: the request is       *)
(* classified and then answered by the direct route, the RAG route, the    *)
(* planner route of PlanRoute, the transfer route or a refusal.  Of the    *)
(* graph that the transfer route runs only the alternation of its nodes    *)
(* and their step count is here: HITLSystem has the tool calls.            *)
(* AgentService composes these steps with the model calls they wait for.   *)
(***************************************************************************)
EXTENDS PlanRoute, Routing

CONSTANTS Subjects,    \* users a trusted request context may name
          NoSubject,   \* no context, or the anonymous one
          MaxAgentSteps

ASSUME SubjectAssumption == NoSubject \notin Subjects
ASSUME StepAssumption == MaxAgentSteps \in Nat \ {0}

VARIABLES stage,     \* what run() does next
          tool,      \* tool of the direct route
          subject,   \* subject of the trusted context
          sent,      \* user id in the direct tool call that was made
          step_count   \* of the graph's state

routeVars == <<stage, tool, subject, sent, step_count>>
agentVars == <<planVars, routeVars>>

Answered == {"answered", "refused", "auth_required", "raised"}
Stages ==
  {"classify", "DIRECT", "extract", "call", "RAG", "cite", "fallback", "PLANNER",
   "TRANSFER_STATE_MACHINE", "agent_node", "tool_node"} \cup Answered

\* User ids a tool call may carry: the model may make one up.
UserIds == Subjects \cup {NoSubject, "invented"}

AgentTypeOK ==
  /\ PlanTypeOK
  /\ stage \in Stages
  /\ tool \in BankingTools \cup {"none"}
  /\ subject \in Subjects \cup {NoSubject}
  /\ sent \in UserIds
  /\ step_count \in Nat

AgentInit ==
  /\ PlanInit
  /\ stage = "classify" /\ tool = "none" /\ subject = NoSubject /\ sent = NoSubject
  /\ step_count = 0

Go(s) == stage' = s

Classify(i) ==
  /\ stage = "classify"
  /\ CASE RouteOf[i] = "REJECT" -> Go("refused") /\ UNCHANGED tool
       [] RouteOf[i] = "DIRECT" -> Go("DIRECT") /\ tool' = SuggestedTools[i][1]
       [] OTHER -> Go(RouteOf[i]) /\ UNCHANGED tool
  /\ UNCHANGED <<planVars, subject, sent, step_count>>

-----------------------------------------------------------------------------
(* _execute_direct                                                         *)

IdentityTools == BankingTools \ {"find_beneficiary", "get_transfer_status"}

\* Fail closed: an identity tool needs an authenticated subject.
StartDirect ==
  /\ stage = "DIRECT"
  /\ Go(IF tool \in IdentityTools /\ subject = NoSubject THEN "auth_required" ELSE "extract")
  /\ UNCHANGED <<planVars, tool, subject, sent, step_count>>

\* Mutant: the model's user id wins over the context's.
ExtractArguments_KeepsModelValue(u) ==
  /\ stage = "extract"
  /\ sent' = IF tool \in IdentityTools /\ u = NoSubject THEN subject ELSE u
  /\ Go("call")
  /\ UNCHANGED <<planVars, tool, subject, step_count>>

\* The model extracts the arguments; u is the user id among them.
ExtractArguments(u) ==
  /\ stage = "extract"
  /\ sent' = IF tool \in IdentityTools THEN subject ELSE u
  /\ Go("call")
  /\ UNCHANGED <<planVars, tool, subject, step_count>>

\* JSON that is no object takes no user id: a TypeError, outside the handler's try.
InjectionRaises ==
  /\ stage = "extract" /\ tool \in IdentityTools
  /\ Go("raised")
  /\ UNCHANGED <<planVars, tool, subject, sent, step_count>>

\* The model call raises, or its answer holds no JSON: the user is asked again.
ExtractionFails ==
  /\ stage = "extract"
  /\ Go("answered")
  /\ UNCHANGED <<planVars, tool, subject, sent, step_count>>

\* The tool's result or its error is the answer; no policy is asked.
CallDirect ==
  /\ stage = "call"
  /\ \E s \in {"answered", "raised"} : Go(s)
  /\ UNCHANGED <<planVars, tool, subject, sent, step_count>>

-----------------------------------------------------------------------------
(* _execute_rag                                                            *)

\* A retriever is configured and finds something, or not; an error counts as not.
Retrieve ==
  /\ stage = "RAG"
  /\ \E s \in {"cite", "fallback"} : Go(s)
  /\ UNCHANGED <<planVars, tool, subject, sent, step_count>>

\* A model call that fails over the excerpts is followed by one without them.
CitingFails ==
  /\ stage = "cite"
  /\ Go("fallback")
  /\ UNCHANGED <<planVars, tool, subject, sent, step_count>>

FallbackRaises ==
  /\ stage = "fallback"
  /\ Go("raised")
  /\ UNCHANGED <<planVars, tool, subject, sent, step_count>>

AnswerQuestion ==
  /\ stage \in {"cite", "fallback"}
  /\ Go("answered")
  /\ UNCHANGED <<planVars, tool, subject, sent, step_count>>

-----------------------------------------------------------------------------
(* _execute_planner                                                        *)

PlannerReturns ==
  /\ stage = "PLANNER" /\ phase \in {"rejected", "stopped", "completed", "raised"}
  /\ Go(IF phase = "raised" THEN "raised" ELSE "answered")
  /\ UNCHANGED <<planVars, tool, subject, sent, step_count>>

-----------------------------------------------------------------------------
(* _execute_transfer_workflow and the loop of the graph's two nodes        *)

\* A model call of its own; what it proposes is not looked at but put before the graph,
\* whose agent node asks the model again.
StartGraph ==
  /\ stage = "TRANSFER_STATE_MACHINE"
  /\ step_count' = 1
  /\ Go("agent_node")
  /\ UNCHANGED <<planVars, tool, subject, sent>>

TransferFails ==
  /\ stage = "TRANSFER_STATE_MACHINE"
  /\ Go("answered")
  /\ UNCHANGED <<planVars, tool, subject, sent, step_count>>

\* Mutant: the limit is one step late.
StepsLeft_OneMore == step_count <= MaxAgentSteps

StepsLeft == step_count < MaxAgentSteps

LimitReached ==
  /\ stage = "agent_node" /\ ~StepsLeft
  /\ Go("raised")
  /\ UNCHANGED <<planVars, tool, subject, sent, step_count>>

\* The reply proposes tool calls, or is the final answer.
AgentNodeReturns ==
  /\ stage = "agent_node" /\ StepsLeft
  /\ step_count' = step_count + 1
  /\ \E s \in {"tool_node", "answered"} : Go(s)
  /\ UNCHANGED <<planVars, tool, subject, sent>>

AgentNodeRaises ==
  /\ stage = "agent_node" /\ StepsLeft
  /\ Go("raised")
  /\ UNCHANGED <<planVars, tool, subject, sent, step_count>>

\* The calls are made or refused, one of them suspends the graph, or the node raises.
\* The route answers a suspension like an end: it drops the interrupt.
ToolNodeReturns ==
  /\ stage = "tool_node"
  /\ \E s \in {"agent_node", "answered", "raised"} : Go(s)
  /\ UNCHANGED <<planVars, tool, subject, sent, step_count>>

-----------------------------------------------------------------------------
(* Where run() waits for the model, and what it does with the reply        *)

Waiting ==
  \/ stage \in {"extract", "cite", "fallback"}
  \/ stage = "PLANNER" /\ phase = "generate" /\ attempt < MaxRetries
  \/ stage = "TRANSFER_STATE_MACHINE"
  \/ stage = "agent_node" /\ StepsLeft

\* A message without a readable JSON object is of no use to the direct route and to
\* the planner.
OnMessage ==
  \/ \E u \in UserIds : ExtractArguments(u)
  \/ ExtractionFails \/ InjectionRaises
  \/ AnswerQuestion
  \/ StartGraph \/ AgentNodeReturns
  \/ stage = "PLANNER" /\ (GeneratePlan \/ GenerationFails) /\ UNCHANGED routeVars

OnException ==
  \/ ExtractionFails \/ CitingFails \/ FallbackRaises \/ TransferFails \/ AgentNodeRaises
  \/ stage = "PLANNER" /\ GenerationFails /\ UNCHANGED routeVars

\* The steps between the model calls.
OwnStep ==
  \/ \E i \in Intents : Classify(i)
  \/ StartDirect \/ CallDirect \/ Retrieve
  \/ stage = "PLANNER" /\ PlanStepNext /\ UNCHANGED routeVars
  \/ PlannerReturns
  \/ LimitReached \/ ToolNodeReturns

-----------------------------------------------------------------------------
(* Properties                                                              *)

\* agent.py:47 "Tools that MUST have server-injected user_id": the direct route calls
\* such a tool only for an authenticated subject and under its id, whatever the
\* model put into the arguments.
IdentityIsInjected ==
  stage = "call" /\ tool \in IdentityTools => subject \in Subjects /\ sent = subject

\* Between the routing table, the suggested tools, the kinds of the registry and the
\* executor no path leads to a write that the policy denies: the direct route, which
\* asks no policy, only calls reads, and the planner stops at a denial.
NoDeniedWrite ==
  /\ stage = "call" => BankingKind[tool] = "READ"
  /\ \A i \in Steps : calls[i] > 0 => policy[KindOf[Tool(i)]] # "DENIED"

=============================================================================
