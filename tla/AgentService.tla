---------------------------- MODULE AgentService ----------------------------
(***************************************************************************)
(* One POST /agent from its headers to its status code: AuthMiddleware     *)
(* (auth_middleware.py), the checks of agent_endpoint (api.py), the routes *)
(* of AgentRuntime.run, and the HTTP requests of the provider behind every *)
(* model call (providers/deepseek.py).                                     *)
(*                                                                         *)
(* create_app installs the middleware without production_mode, so the      *)
(* identity is what the X-User-Id header says.                             *)
(***************************************************************************)
EXTENDS AgentRoutes, Provider

CONSTANT DefaultSubject   \* identity of a request without the header

ASSUME DefaultAssumption == DefaultSubject \in Subjects

VARIABLES http,    \* where the request is
          code,    \* status code it was answered with, 0 before
          posts    \* HTTP requests made to the model service for it

serviceVars == <<agentVars, providerVars, http, code, posts>>

Codes == {200, 401, 403, 422, 500}

ServiceTypeOK ==
  /\ AgentTypeOK /\ ProviderTypeOK
  /\ http \in {"middleware", "handler", "runtime", "done"}
  /\ code \in Codes \cup {0}
  /\ posts \in Nat

ServiceInit ==
  /\ AgentInit /\ ProviderInit
  /\ http = "middleware" /\ code = 0 /\ posts = 0

-----------------------------------------------------------------------------
(* AuthMiddleware.dispatch and the checks of agent_endpoint                *)

ResolveDevelopment(header) == IF header = "absent" THEN DefaultSubject ELSE header

\* An empty header and the name "anonymous" both count as no subject.
Authenticate(header) ==
  /\ http = "middleware"
  /\ subject' = ResolveDevelopment(header)
  /\ http' = "handler"
  /\ UNCHANGED <<planVars, stage, tool, sent, step_count, providerVars, code, posts>>

\* The request itself is authorized as a READ; then its length is checked.
HandlerVerdict(tooLong) ==
  CASE subject = NoSubject -> 401
    [] policy["READ"] = "DENIED" -> 403
    [] policy["READ"] = "PENDING" -> 401
    [] OTHER -> IF tooLong THEN 422 ELSE 0

HandleRequest(tooLong) ==
  /\ http = "handler"
  /\ code' = HandlerVerdict(tooLong)
  /\ http' = IF code' = 0 THEN "runtime" ELSE "done"
  /\ UNCHANGED <<agentVars, providerVars, posts>>

-----------------------------------------------------------------------------
(* AgentRuntime.run and the model calls it awaits                          *)

Running == http = "runtime"

RuntimeStep == Running /\ OwnStep /\ UNCHANGED <<providerVars, http, code, posts>>

AskModel == Running /\ Waiting /\ invoke /\ UNCHANGED <<agentVars, http, code, posts>>

MessageArrives ==
  /\ Running /\ Waiting
  /\ Returned("message")
  /\ OnMessage
  /\ UNCHANGED <<http, code, posts>>

InvokeRaises ==
  /\ Running /\ Waiting
  /\ Returned("error")
  /\ OnException
  /\ UNCHANGED <<http, code, posts>>

Post ==
  /\ PostRaises \/ \E s \in Statuses : PostReturns(s)
  /\ posts' = posts + 1
  /\ UNCHANGED <<agentVars, http, code>>

PauseEnds == WakeUp /\ UNCHANGED <<agentVars, http, code, posts>>

\* The process shuts down while the request is still running.
ProviderCloses == Running /\ close /\ UNCHANGED <<agentVars, http, code, posts>>

\* An exception of the runtime is a 500.  The 202 of a suspended run is not reached: with
\* a router no route returns an interrupt.
Verdict == IF stage = "raised" THEN 500 ELSE 200

Respond ==
  /\ Running /\ stage \in Answered
  /\ code' = Verdict
  /\ http' = "done"
  /\ UNCHANGED <<agentVars, providerVars, posts>>

ServiceNext ==
  \/ \E h \in Subjects \cup {NoSubject, "absent"} : Authenticate(h)
  \/ \E b \in BOOLEAN : HandleRequest(b)
  \/ RuntimeStep \/ AskModel \/ MessageArrives \/ InvokeRaises
  \/ Post \/ PauseEnds \/ ProviderCloses
  \/ Respond

\* One coroutine: it runs on whenever what it awaits has returned.  An HTTP request
\* to the model returns or raises within its timeout, and a pause comes to an end.
ServiceSpec ==
  /\ ServiceInit /\ [][ServiceNext]_serviceVars
  /\ WF_serviceVars(ServiceNext)

-----------------------------------------------------------------------------
(* Properties                                                              *)

Larger(a, b) == IF a >= b THEN a ELSE b

\* Model calls of one request: two on the RAG route, one per attempt of the planner, and
\* on the transfer route one per step of the graph, its own call being the first step.
ModelCalls == Larger(Larger(2, MaxRetries), MaxAgentSteps)

\* The retries of the provider multiply with the attempts of the planner and with the
\* steps of the graph, but no request costs more than this many HTTP requests to the
\* model, on whatever route and whatever fails in whatever order.
PostsBounded == posts <= (ProviderRetries + 1) * ModelCalls

\* Every request gets a status code, on every route, whatever the model proposes, the
\* tools return and the model service answers, and when the provider is closed under it.
RequestEnds == <>(http = "done" /\ code \in Codes)

=============================================================================
