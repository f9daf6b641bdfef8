--------------------------- MODULE ServiceProofs ---------------------------
(***************************************************************************)
(* Proofs about AgentService: one request to the agent, for any plans,     *)
(* tools, policies and subjects and any limits on steps, attempts and      *)
(* retries.  The invariant has three parts: PlanInv of PlanProofs for the  *)
(* planner route, RouteInv for the identity and the tool of the direct     *)
(* route and the steps of the graph, PostInv for the requests to the model.*)
(***************************************************************************)
EXTENDS AgentService, PlanProofs

\* The identity is fixed before the first route is taken; the direct route only ever
\* carries a read, and an identity tool only for a subject; the graph's steps are counted.
RouteInv ==
  /\ http \in {"middleware", "handler"} => stage = "classify"
  /\ stage \in {"DIRECT", "extract", "call"} => tool \in ReadTools
  /\ stage \in {"extract", "call"} /\ tool \in IdentityTools => subject \in Subjects
  /\ stage = "call" /\ tool \in IdentityTools => sent = subject
  /\ step_count <= ModelCalls

\* Model calls that may have come to an end when run() is at this point.
CallsEnded ==
  CASE stage \in {"call", "fallback"} -> 1
    [] stage = "PLANNER" -> IF phase \in {"generate", "rejected"} THEN attempt ELSE attempt + 1
    [] stage \in {"agent_node", "tool_node"} -> step_count
    [] stage \in {"answered", "raised"} -> ModelCalls
    [] OTHER -> 0

\* HTTP requests the model call under way has made.
UnderWay ==
  CASE llm = "idle" -> 0
    [] llm \in {"post", "backoff"} -> tries
    [] OTHER -> tries + 1

Cost(n) == (ProviderRetries + 1) * n

\* The requests of every call that has ended, and of the one that is under way.
PostInv ==
  /\ llm # "idle" => Running /\ Waiting
  /\ llm = "idle" => tries = 0
  /\ tries <= ProviderRetries
  /\ stage \notin {"PLANNER", "answered", "raised"} => phase = "generate" /\ attempt = 0
  /\ posts <= Cost(CallsEnded) + UnderWay

ServiceInv == ServiceTypeOK /\ PlanInv /\ RouteInv /\ PostInv

-----------------------------------------------------------------------------
(* The steps of a request                                                  *)

\* The planner's variables change in the planner stage only, and nothing else does then.
PlannerMoves == stage = "PLANNER" /\ PlanMove /\ UNCHANGED routeVars

\* The transfer route: its own model call and the loop of the graph.
GraphMoves ==
  \/ StartGraph \/ TransferFails
  \/ LimitReached \/ AgentNodeReturns \/ AgentNodeRaises \/ ToolNodeReturns

\* The other routes, and the way into and out of every route.
RouteMoves ==
  \/ \E i \in Intents : Classify(i)
  \/ StartDirect \/ CallDirect \/ Retrieve \/ PlannerReturns
  \/ \E u \in UserIds : ExtractArguments(u)
  \/ ExtractionFails \/ InjectionRaises \/ AnswerQuestion \/ CitingFails \/ FallbackRaises
  \/ GraphMoves

\* A step of the request leaves the routes alone, takes one of their steps while the
\* handler has called run(), or fixes the subject before.
LEMMA RequestKinds ==
  ASSUME [ServiceNext]_serviceVars
  PROVE  \/ UNCHANGED agentVars
         \/ /\ Running /\ http' = http
            /\ \/ PlannerMoves
               \/ RouteMoves /\ UNCHANGED planVars
         \/ \E h \in Subjects \cup {NoSubject, "absent"} : Authenticate(h)
<1>0. RouteMoves => UNCHANGED planVars
  BY DEF RouteMoves, Classify, StartDirect, CallDirect, Retrieve, PlannerReturns, ExtractArguments,
         ExtractionFails, InjectionRaises, AnswerQuestion, CitingFails, FallbackRaises, GraphMoves,
         StartGraph, TransferFails, LimitReached, AgentNodeReturns, AgentNodeRaises, ToolNodeReturns
<1>1. CASE RuntimeStep
  <2>1. Running /\ OwnStep /\ http' = http
    BY <1>1 DEF RuntimeStep
  <2>2. PlannerMoves \/ RouteMoves
    BY <2>1 DEF OwnStep, PlannerMoves, RouteMoves, GraphMoves, PlanMove
  <2> QED
    BY <1>0, <2>1, <2>2
<1>2. CASE MessageArrives
  <2>1. Running /\ OnMessage /\ http' = http
    BY <1>2 DEF MessageArrives
  <2>2. PlannerMoves \/ RouteMoves
    BY <2>1 DEF OnMessage, PlannerMoves, RouteMoves, GraphMoves, PlanMove
  <2> QED
    BY <1>0, <2>1, <2>2
<1>3. CASE InvokeRaises
  <2>1. Running /\ OnException /\ http' = http
    BY <1>3 DEF InvokeRaises
  <2>2. PlannerMoves \/ RouteMoves
    BY <2>1 DEF OnException, PlannerMoves, RouteMoves, GraphMoves, PlanMove
  <2> QED
    BY <1>0, <2>1, <2>2
<1>4. CASE AskModel \/ Post \/ PauseEnds \/ ProviderCloses \/ Respond
  BY <1>4 DEF AskModel, Post, PauseEnds, ProviderCloses, Respond
<1>5. ASSUME NEW b \in BOOLEAN, HandleRequest(b) PROVE UNCHANGED agentVars
  BY <1>5 DEF HandleRequest
<1>6. CASE UNCHANGED serviceVars
  BY <1>6 DEF serviceVars
<1> QED
  BY <1>1, <1>2, <1>3, <1>4, <1>5, <1>6 DEF ServiceNext

\* To the planner route every step of the request is one of its own or a stutter.
LEMMA PlanPart ==
  ASSUME [ServiceNext]_serviceVars
  PROVE  PlannerMoves \/ UNCHANGED planVars
BY RequestKinds DEF agentVars, Authenticate

-----------------------------------------------------------------------------
(* Types and the routes                                                    *)

\* The direct route is only taken for intents whose first suggested tool is a read.
LEMMA DirectToolsRead ==
  ASSUME NEW i \in Intents, RouteOf[i] = "DIRECT"
  PROVE  SuggestedTools[i][1] \in ReadTools
<1>1. i \in {"ACCOUNT_QUERY", "TRANSACTION_QUERY", "BENEFICIARY_QUERY", "TRANSFER_STATUS"}
  BY DEF RouteOf, Intents
<1>2. CASE i = "ACCOUNT_QUERY"
  BY <1>2 DEF SuggestedTools, ReadTools, Intents
<1>3. CASE i = "TRANSACTION_QUERY"
  BY <1>3 DEF SuggestedTools, ReadTools, Intents
<1>4. CASE i = "BENEFICIARY_QUERY"
  BY <1>4 DEF SuggestedTools, ReadTools, Intents
<1>5. CASE i = "TRANSFER_STATUS"
  BY <1>5 DEF SuggestedTools, ReadTools, Intents
<1> QED
  BY <1>1, <1>2, <1>3, <1>4, <1>5

\* What Classify does with an intent.
LEMMA Classified ==
  ASSUME NEW i \in Intents, Classify(i)
  PROVE  /\ stage = "classify" /\ UNCHANGED <<planVars, subject, sent, step_count>>
         /\ stage' \in {"refused", "TRANSFER_STATE_MACHINE", "DIRECT", "RAG", "PLANNER"}
         /\ stage' = "DIRECT" => tool' \in ReadTools
         /\ stage' # "DIRECT" => tool' = tool
<1>1. RouteOf[i] \in RouteKinds
  BY DEF RouteOf, RouteKinds, Intents
<1>2. CASE RouteOf[i] = "REJECT"
  BY <1>2 DEF Classify, Go
<1>3. CASE RouteOf[i] = "DIRECT"
  BY <1>3, DirectToolsRead DEF Classify, Go
<1>4. CASE RouteOf[i] \in {"RAG", "PLANNER", "TRANSFER_STATE_MACHINE"}
  BY <1>4 DEF Classify, Go
<1> QED
  BY <1>1, <1>2, <1>3, <1>4 DEF RouteKinds

\* What the transfer route does.
LEMMA GraphSteps ==
  ASSUME GraphMoves, step_count \in Nat
  PROVE  /\ UNCHANGED <<planVars, tool, subject, sent>>
         /\ \/ stage = "TRANSFER_STATE_MACHINE" /\ stage' = "agent_node" /\ step_count' = 1
            \/ stage = "TRANSFER_STATE_MACHINE" /\ stage' = "answered" /\ step_count' = step_count
            \/ /\ stage = "agent_node" /\ stage' \in {"tool_node", "answered"}
               /\ step_count' = step_count + 1 /\ step_count' <= MaxAgentSteps
            \/ stage = "agent_node" /\ stage' = "raised" /\ step_count' = step_count
            \/ /\ stage = "tool_node" /\ stage' \in {"agent_node", "answered", "raised"}
               /\ step_count' = step_count
<1>1. CASE StartGraph \/ TransferFails
  BY <1>1 DEF StartGraph, TransferFails, Go
<1>2. CASE LimitReached \/ AgentNodeRaises \/ ToolNodeReturns
  BY <1>2 DEF LimitReached, AgentNodeRaises, ToolNodeReturns, Go
<1>3. CASE AgentNodeReturns
  BY <1>3, StepAssumption DEF AgentNodeReturns, StepsLeft, Go
<1> QED
  BY <1>1, <1>2, <1>3 DEF GraphMoves

\* The step count grows in the agent node only, and not beyond the limit.
LEMMA CountStep ==
  ASSUME step_count \in Nat, [ServiceNext]_serviceVars
  PROVE  /\ step_count' \in Nat
         /\ step_count' \in {step_count, 1} \/ step_count' <= MaxAgentSteps
<1>1. CASE GraphMoves
  BY <1>1, GraphSteps
<1>2. CASE RouteMoves /\ ~GraphMoves
  BY <1>2, Classified
     DEF RouteMoves, StartDirect, CallDirect, Retrieve, PlannerReturns, ExtractArguments,
         ExtractionFails, InjectionRaises, AnswerQuestion, CitingFails, FallbackRaises
<1> QED
  BY <1>1, <1>2, RequestKinds DEF agentVars, routeVars, PlannerMoves, Authenticate

\* The number of model calls a request may make.
LEMMA ModelCallsFacts ==
  /\ ModelCalls \in Nat /\ 2 <= ModelCalls
  /\ MaxRetries <= ModelCalls /\ MaxAgentSteps <= ModelCalls
BY PlanAssumption, StepAssumption DEF ModelCalls, Larger

\* Type correctness and PlanInv of one step.
LEMMA ServiceTypeStep ==
  ASSUME ServiceInv, [ServiceNext]_serviceVars
  PROVE  ServiceTypeOK' /\ PlanInv'
<1>1. PlanInv'
  BY PlanPart, PlanInvStep, PlanInvStutter DEF ServiceInv, PlannerMoves
<1>0. step_count \in Nat
  BY DEF ServiceInv, ServiceTypeOK, AgentTypeOK
<1>2. stage' \in Stages /\ tool' \in BankingTools \cup {"none"} /\ sent' \in UserIds
  <2>1. /\ stage \in Stages /\ tool \in BankingTools \cup {"none"} /\ sent \in UserIds
        /\ subject \in UserIds
    BY DEF ServiceInv, ServiceTypeOK, AgentTypeOK, UserIds
  <2>2. CASE RouteMoves
    <3>1. ASSUME NEW i \in Intents, Classify(i)
          PROVE  stage' \in Stages /\ tool' \in BankingTools \cup {"none"} /\ sent' \in UserIds
      BY <3>1, <2>1, Classified DEF Stages, Answered, BankingTools
    <3>2. ASSUME NEW u \in UserIds, ExtractArguments(u)
          PROVE  stage' \in Stages /\ tool' \in BankingTools \cup {"none"} /\ sent' \in UserIds
      BY <3>2, <2>1 DEF ExtractArguments, Go, Stages
    <3>3. CASE StartDirect \/ CallDirect \/ Retrieve \/ PlannerReturns
      BY <3>3, <2>1 DEF StartDirect, CallDirect, Retrieve, PlannerReturns, Go, Stages, Answered
    <3>4. CASE \/ ExtractionFails \/ InjectionRaises \/ AnswerQuestion \/ CitingFails
               \/ FallbackRaises
      BY <3>4, <2>1 DEF ExtractionFails, InjectionRaises, AnswerQuestion, CitingFails,
                        FallbackRaises, Go, Stages, Answered
    <3>5. CASE GraphMoves
      BY <1>0, <2>1, <3>5, GraphSteps DEF Stages, Answered
    <3> QED
      BY <2>2, <3>1, <3>2, <3>3, <3>4, <3>5 DEF RouteMoves
  <2> QED
    BY <2>1, <2>2, RequestKinds DEF agentVars, routeVars, PlannerMoves, Authenticate
<1>3. subject' \in Subjects \cup {NoSubject}
  <2>1. subject \in Subjects \cup {NoSubject}
    BY DEF ServiceInv, ServiceTypeOK, AgentTypeOK
  <2>2. CASE RouteMoves
    BY <1>0, <2>1, <2>2, Classified, GraphSteps
       DEF RouteMoves, StartDirect, CallDirect, Retrieve, PlannerReturns, ExtractArguments,
           ExtractionFails, InjectionRaises, AnswerQuestion, CitingFails, FallbackRaises
  <2>3. ASSUME NEW h \in Subjects \cup {NoSubject, "absent"}, Authenticate(h)
        PROVE  subject' \in Subjects \cup {NoSubject}
    BY <2>3, DefaultAssumption DEF Authenticate, ResolveDevelopment
  <2> QED
    BY <2>1, <2>2, <2>3, RequestKinds DEF agentVars, routeVars, PlannerMoves
<1>4. ProviderTypeOK'
  <2>1. ProviderTypeOK
    BY DEF ServiceInv, ServiceTypeOK
  <2>2. CASE Post
    BY <2>1, <2>2 DEF Post, PostRaises, PostReturns, Backoff, Finish, ProviderTypeOK
  <2>3. CASE AskModel \/ MessageArrives \/ InvokeRaises \/ PauseEnds \/ ProviderCloses
    <3>1. llm' \in {"idle", "post", "backoff", "message", "error"} /\ tries' \in {0, tries}
      BY <2>1, <2>3 DEF AskModel, invoke, MessageArrives, InvokeRaises, Returned, PauseEnds,
                        WakeUp, ProviderCloses, close, ProviderTypeOK
    <3>2. closed' = closed \/ closed' = TRUE
      BY <2>3 DEF AskModel, invoke, MessageArrives, InvokeRaises, Returned, PauseEnds, WakeUp,
                  ProviderCloses, close
    <3>3. closed' \in BOOLEAN
      BY <2>1, <3>2, Zenon DEF ProviderTypeOK
    <3> QED
      BY <2>1, <3>1, <3>3 DEF ProviderTypeOK
  <2> QED
    BY <2>1, <2>2, <2>3 DEF ServiceNext, RuntimeStep, Respond, Authenticate, HandleRequest,
                            serviceVars, providerVars, ProviderTypeOK
<1>5. http' \in {"middleware", "handler", "runtime", "done"} /\ posts' \in Nat
  <2>1. http \in {"middleware", "handler", "runtime", "done"} /\ posts \in Nat
    BY DEF ServiceInv, ServiceTypeOK
  <2> QED
    BY <2>1 DEF ServiceNext, Authenticate, HandleRequest, RuntimeStep, AskModel, MessageArrives,
                InvokeRaises, Post, PauseEnds, ProviderCloses, Respond, serviceVars
<1>6. code' \in Codes \cup {0}
  <2>1. code \in Codes \cup {0}
    BY DEF ServiceInv, ServiceTypeOK
  <2>2. ASSUME NEW b \in BOOLEAN, HandleRequest(b) PROVE code' \in Codes \cup {0}
    BY <2>2 DEF HandleRequest, HandlerVerdict, Codes
  <2>3. CASE Respond
    BY <2>3 DEF Respond, Verdict, Codes
  <2> QED
    BY <2>1, <2>2, <2>3 DEF ServiceNext, Authenticate, RuntimeStep, AskModel, MessageArrives,
                InvokeRaises, Post, PauseEnds, ProviderCloses, serviceVars
<1>7. step_count' \in Nat
  BY <1>0, CountStep
<1> QED
  BY <1>1, <1>2, <1>3, <1>4, <1>5, <1>6, <1>7 DEF ServiceTypeOK, AgentTypeOK, PlanInv

\* No route changes the subject, and Authenticate is over before one is taken.
LEMMA RouteStep ==
  ASSUME ServiceInv, [ServiceNext]_serviceVars
  PROVE  RouteInv'
<1>1. ServiceTypeOK /\ RouteInv
  BY DEF ServiceInv
<1>2. subject \in Subjects \cup {NoSubject} /\ step_count \in Nat
  BY <1>1 DEF ServiceTypeOK, AgentTypeOK
<1>0. step_count' <= ModelCalls
  BY <1>1, <1>2, CountStep, ModelCallsFacts, StepAssumption DEF RouteInv
<1> USE <1>0
<1> HIDE DEF ModelCalls
<1>3. CASE UNCHANGED agentVars
  <2>1. UNCHANGED <<stage, tool, subject, sent>>
    BY <1>3 DEF agentVars, routeVars
  <2>2. http' \in {"middleware", "handler"} => http \in {"middleware", "handler"}
    BY DEF ServiceNext, Authenticate, HandleRequest, RuntimeStep, AskModel, MessageArrives,
           InvokeRaises, Post, PauseEnds, ProviderCloses, Respond, serviceVars
  <2> QED
    BY <1>1, <2>1, <2>2 DEF RouteInv
<1>4. ASSUME NEW h \in Subjects \cup {NoSubject, "absent"}, Authenticate(h) PROVE RouteInv'
  BY <1>1, <1>4 DEF RouteInv, Authenticate
<1>5. CASE Running /\ http' = http /\ PlannerMoves
  BY <1>1, <1>5 DEF Running, PlannerMoves, routeVars, RouteInv
<1>6. CASE Running /\ http' = http /\ RouteMoves
  <2>1. http' \notin {"middleware", "handler"}
    BY <1>6 DEF Running
  <2>2. ASSUME NEW i \in Intents, Classify(i) PROVE RouteInv'
    BY <2>1, <2>2, Classified DEF RouteInv
  <2>3. CASE StartDirect
    BY <1>1, <1>2, <2>1, <2>3 DEF StartDirect, Go, RouteInv
  <2>4. ASSUME NEW u \in UserIds, ExtractArguments(u) PROVE RouteInv'
    BY <1>1, <2>1, <2>4 DEF ExtractArguments, Go, RouteInv
  <2>5. CASE \/ CallDirect \/ Retrieve \/ PlannerReturns \/ ExtractionFails \/ InjectionRaises
             \/ AnswerQuestion \/ CitingFails \/ FallbackRaises
    BY <2>1, <2>5 DEF CallDirect, Retrieve, PlannerReturns, ExtractionFails, InjectionRaises,
                      AnswerQuestion, CitingFails, FallbackRaises, Go, RouteInv
  <2>6. CASE GraphMoves
    BY <1>2, <2>1, <2>6, GraphSteps DEF RouteInv
  <2> QED
    BY <1>6, <2>2, <2>3, <2>4, <2>5, <2>6 DEF RouteMoves
<1> QED
  BY <1>3, <1>4, <1>5, <1>6, RequestKinds

-----------------------------------------------------------------------------
(* The requests to the model                                               *)

\* The cost of a number of model calls, each retried as often as it may be.
LEMMA CostFacts ==
  /\ \A n \in Nat : Cost(n) \in Nat /\ Cost(n + 1) = Cost(n) + ProviderRetries + 1
  /\ \A m, n \in Nat : m <= n => Cost(m) <= Cost(n)
  /\ Cost(0) = 0
<1>1. ProviderRetries \in Nat
  BY ProviderAssumption
<1>2. \A p, m, n \in Nat : m <= n => (p + 1) * m <= (p + 1) * n
  OBVIOUS
<1>3. \A p, n \in Nat : (p + 1) * (n + 1) = (p + 1) * n + p + 1 /\ (p + 1) * n \in Nat
  OBVIOUS
<1> QED
  BY <1>1, <1>2, <1>3 DEF Cost

\* While run() waits for the model, one more call fits into the bound.
LEMMA CallsBounded ==
  ASSUME ServiceInv
  PROVE  /\ CallsEnded \in Nat /\ ModelCalls \in Nat
         /\ CallsEnded <= ModelCalls
         /\ Waiting => CallsEnded + 1 <= ModelCalls
<1>1. MaxRetries \in Nat /\ attempt \in 0..MaxRetries
  BY PlanAssumption DEF ServiceInv, PlanInv, PlanTypeOK
<1>2. /\ ModelCalls \in Nat /\ 2 <= ModelCalls
      /\ MaxRetries <= ModelCalls /\ MaxAgentSteps <= ModelCalls
  BY ModelCallsFacts
<1>6. /\ step_count \in Nat /\ step_count <= ModelCalls /\ MaxAgentSteps \in Nat
  BY StepAssumption DEF ServiceInv, ServiceTypeOK, AgentTypeOK, RouteInv
<1>3. phase \notin {"generate", "rejected"} => attempt < MaxRetries
  BY DEF ServiceInv, PlanInv, AttemptInv
<1> HIDE DEF ModelCalls
<1>4. CASE stage = "PLANNER"
  BY <1>1, <1>2, <1>3, <1>4 DEF CallsEnded, Waiting
<1>5. CASE stage # "PLANNER"
  BY <1>1, <1>2, <1>5, <1>6 DEF CallsEnded, Waiting, StepsLeft
<1> QED
  BY <1>4, <1>5

\* Steps between model calls do not lose count of them, and taking a reply counts one.
LEMMA CallsCounted ==
  ASSUME ServiceInv, RouteMoves \/ PlannerMoves, UNCHANGED planVars \/ PlannerMoves
  PROVE  /\ CallsEnded' \in Nat
         /\ CallsEnded <= CallsEnded'
         /\ Waiting => CallsEnded + 1 <= CallsEnded'
         /\ stage' \notin {"PLANNER", "answered", "raised"} => phase' = "generate" /\ attempt' = 0
<1>1. /\ MaxRetries \in Nat /\ attempt \in 0..MaxRetries
      /\ stage \notin {"PLANNER", "answered", "raised"} => phase = "generate" /\ attempt = 0
      /\ phase \notin {"generate", "rejected"} => attempt < MaxRetries
  BY PlanAssumption DEF ServiceInv, PlanInv, PlanTypeOK, PostInv, AttemptInv
<1>2. 2 <= ModelCalls /\ MaxRetries <= ModelCalls /\ ModelCalls \in Nat
  BY ModelCallsFacts
<1>5. step_count \in Nat /\ step_count <= ModelCalls
  BY DEF ServiceInv, ServiceTypeOK, AgentTypeOK, RouteInv
<1>6. CallsEnded + 1 <= ModelCalls \/ ~Waiting
  BY CallsBounded
<1> HIDE DEF ModelCalls
<1>3. CASE PlannerMoves
  <2>1. stage = "PLANNER" /\ stage' = "PLANNER" /\ PlanMove
    BY <1>3 DEF PlannerMoves, routeVars
  <2>2. CASE GeneratePlan
    BY <1>1, <2>1, <2>2 DEF GeneratePlan, CallsEnded, Waiting
  <2>3. CASE LosesPlan
    <3>1. phase' = "generate" /\ attempt' = attempt + 1
      BY <2>3, LostAttempt DEF ServiceInv, PlanInv
    <3> QED
      BY <1>1, <2>1, <3>1 DEF CallsEnded, Waiting
  <2>4. CASE GiveUp
    BY <1>1, <2>1, <2>4 DEF GiveUp, CallsEnded, Waiting
  <2>5. CASE SearchStep \/ AcceptPlan \/ LoopStep
    <3>1. /\ attempt' = attempt
          /\ phase \in {"validate", "run", "retry"}
          /\ phase' \in {"validate", "run", "retry", "stopped", "completed", "raised"}
      BY <2>5 DEF SearchStep, SearchFrom, VisitWhite, VisitBlack, VisitGray, LeaveStep, Searching,
                  AcceptPlan, VerdictReached, LoopStep, StepFails, StepPasses, CriterionUnmet,
                  VerifyRaises, RetryStep, Complete, AtStep
    <3> QED
      BY <1>1, <2>1, <3>1 DEF CallsEnded, Waiting
  <2> QED
    BY <2>1, <2>2, <2>3, <2>4, <2>5, MoveKinds
<1>4. CASE RouteMoves /\ UNCHANGED planVars
  <2>1. phase' = phase /\ attempt' = attempt
    BY <1>4 DEF planVars
  <2>2. ASSUME NEW i \in Intents, Classify(i)
        PROVE  /\ stage = "classify"
               /\ stage' \in {"refused", "TRANSFER_STATE_MACHINE", "DIRECT", "RAG", "PLANNER"}
    BY <2>2, Classified
  <2>4. CASE GraphMoves
    <3>1. /\ CallsEnded = IF stage = "TRANSFER_STATE_MACHINE" THEN 0 ELSE step_count
          /\ CallsEnded' = IF stage' \in {"agent_node", "tool_node"} THEN step_count' ELSE ModelCalls
          /\ stage = "tool_node" => ~Waiting
      BY <1>5, <2>4, GraphSteps DEF CallsEnded, Waiting, ModelCalls
    <3>2. stage' \notin {"PLANNER", "answered", "raised"} => phase' = "generate" /\ attempt' = 0
      BY <1>1, <1>5, <2>1, <2>4, GraphSteps
    <3> QED
      BY <1>2, <1>5, <1>6, <2>4, <3>1, <3>2, GraphSteps
  <2>3. \/ GraphMoves
        \/ /\ stage = "classify"
           /\ stage' \in {"refused", "TRANSFER_STATE_MACHINE", "DIRECT", "RAG", "PLANNER"}
        \/ stage = "DIRECT" /\ stage' \in {"auth_required", "extract"}
        \/ stage = "call" /\ stage' \in {"answered", "raised"}
        \/ stage = "RAG" /\ stage' \in {"cite", "fallback"}
        \/ /\ stage = "PLANNER" /\ phase \in {"rejected", "stopped", "completed", "raised"}
           /\ stage' \in {"answered", "raised"}
        \/ stage = "extract" /\ stage' \in {"call", "answered", "raised"}
        \/ stage = "cite" /\ stage' \in {"answered", "fallback"}
        \/ stage = "fallback" /\ stage' \in {"answered", "raised"}
    BY <1>4, <2>2 DEF RouteMoves, StartDirect, CallDirect, Retrieve, PlannerReturns,
                      ExtractArguments, ExtractionFails, InjectionRaises, AnswerQuestion,
                      CitingFails, FallbackRaises, Go
  <2> QED
    BY <1>1, <1>2, <2>1, <2>3, <2>4 DEF CallsEnded, Waiting
<1> QED
  BY <1>3, <1>4

\* Every HTTP request is accounted for by a model call that has ended or is under way.
LEMMA PostStep ==
  ASSUME ServiceInv, [ServiceNext]_serviceVars
  PROVE  PostInv'
<1>1. /\ ProviderRetries \in Nat /\ posts \in Nat /\ tries \in Nat /\ PostInv
      /\ llm \in {"idle", "post", "backoff", "message", "error"}
  BY ProviderAssumption DEF ServiceInv, ServiceTypeOK, ProviderTypeOK
<1>2. CallsEnded \in Nat /\ Cost(CallsEnded) \in Nat
  BY CallsBounded, CostFacts
<1>3. UNCHANGED agentVars => CallsEnded' = CallsEnded /\ Waiting' = Waiting
  BY DEF agentVars, planVars, routeVars, CallsEnded, Waiting, StepsLeft, ModelCalls, Larger
<1> HIDE DEF Cost
<1>4. CASE UNCHANGED serviceVars
  <2>1. /\ UNCHANGED agentVars
        /\ UNCHANGED <<llm, tries, posts, http, stage, phase, attempt>>
    BY <1>4 DEF serviceVars, agentVars, planVars, routeVars, providerVars
  <2> QED
    BY <1>1, <1>3, <2>1 DEF PostInv, UnderWay, Running
<1>5. CASE RuntimeStep
  <2>1. /\ Running /\ OwnStep /\ http' = http /\ posts' = posts /\ llm' = llm /\ tries' = tries
    BY <1>5 DEF RuntimeStep, providerVars
  <2>2. ~Waiting
    <3>1. ASSUME NEW i \in Intents, Classify(i) PROVE ~Waiting
      BY <3>1, Classified DEF Waiting
    <3>2. CASE StartDirect \/ CallDirect \/ Retrieve \/ PlannerReturns
      BY <3>2 DEF StartDirect, CallDirect, Retrieve, PlannerReturns, Waiting
    <3>4. CASE LimitReached \/ ToolNodeReturns
      BY <3>4 DEF LimitReached, ToolNodeReturns, Waiting
    <3>3. CASE stage = "PLANNER" /\ PlanStepNext
      <4>1. phase = "generate" => attempt = MaxRetries
        BY <3>3 DEF PlanStepNext, GiveUp, SearchFrom, VisitWhite, VisitBlack, VisitGray, LookupRaises,
                    LeaveStep, Searching, RejectPlan, AcceptPlan, VerdictReached, StepFails,
                    StepPasses, CriterionUnmet, VerifyRaises, AtStep, RetryStep, Complete
      <4>2. MaxRetries \in Nat
        BY PlanAssumption
      <4> QED
        BY <3>3, <4>1, <4>2 DEF Waiting
    <3> QED
      BY <2>1, <3>1, <3>2, <3>3, <3>4 DEF OwnStep
  <2>3. llm = "idle"
    BY <1>1, <2>2 DEF PostInv
  <2>4. RouteMoves \/ PlannerMoves
    BY <2>1 DEF OwnStep, PlannerMoves, RouteMoves, GraphMoves, PlanMove
  <2>5. UNCHANGED planVars \/ PlannerMoves
    BY PlanPart
  <2>6. /\ CallsEnded' \in Nat /\ CallsEnded <= CallsEnded'
        /\ stage' \notin {"PLANNER", "answered", "raised"} => phase' = "generate" /\ attempt' = 0
    BY <2>4, <2>5, CallsCounted
  <2>7. Cost(CallsEnded') \in Nat /\ Cost(CallsEnded) <= Cost(CallsEnded')
    BY <1>2, <2>6, CostFacts
  <2>8. posts <= Cost(CallsEnded)
    BY <1>1, <1>2, <2>3 DEF PostInv, UnderWay
  <2>9. posts' <= Cost(CallsEnded')
    BY <1>1, <1>2, <2>1, <2>7, <2>8
  <2> QED
    BY <1>1, <2>1, <2>3, <2>6, <2>7, <2>9 DEF PostInv, UnderWay
<1>6. CASE MessageArrives \/ InvokeRaises
  <2>1. /\ Running /\ Waiting /\ http' = http /\ posts' = posts
        /\ llm \in {"message", "error"} /\ llm' = "idle" /\ tries' = 0
        /\ OnMessage \/ OnException
    BY <1>6 DEF MessageArrives, InvokeRaises, Returned
  <2>2. RouteMoves \/ PlannerMoves
    BY <2>1 DEF OnMessage, OnException, PlannerMoves, RouteMoves, GraphMoves, PlanMove
  <2>3. UNCHANGED planVars \/ PlannerMoves
    BY PlanPart
  <2>4. /\ CallsEnded' \in Nat /\ CallsEnded + 1 <= CallsEnded'
        /\ stage' \notin {"PLANNER", "answered", "raised"} => phase' = "generate" /\ attempt' = 0
    BY <2>1, <2>2, <2>3, CallsCounted
  <2>5. /\ Cost(CallsEnded') \in Nat /\ Cost(CallsEnded + 1) <= Cost(CallsEnded')
        /\ Cost(CallsEnded + 1) = Cost(CallsEnded) + ProviderRetries + 1
    BY <1>2, <2>4, CostFacts
  <2>6. posts <= Cost(CallsEnded) + ProviderRetries + 1
    BY <1>1, <1>2, <2>1 DEF PostInv, UnderWay
  <2>7. posts' <= Cost(CallsEnded')
    BY <1>1, <1>2, <2>1, <2>5, <2>6
  <2> QED
    BY <1>1, <2>1, <2>4, <2>5, <2>7 DEF PostInv, UnderWay
<1>7. ASSUME AskModel \/ Post \/ PauseEnds \/ ProviderCloses
      PROVE  PostInv'
  <2>1. UNCHANGED agentVars /\ http' = http
    BY <1>7 DEF AskModel, Post, PauseEnds, ProviderCloses
  <2>2. UNCHANGED <<stage, phase, attempt>>
    BY <2>1 DEF agentVars, planVars, routeVars
  <2>3. CASE AskModel
    BY <1>1, <1>2, <1>3, <2>1, <2>2, <2>3 DEF AskModel, invoke, PostInv, UnderWay, Running
  <2>4. CASE Post
    <3>1. /\ llm = "post" /\ posts' = posts + 1
          /\ \/ llm' = "backoff" /\ tries' = tries + 1 /\ tries < ProviderRetries
             \/ llm' \in {"error", "message"} /\ tries' = tries
      BY <2>4 DEF Post, PostRaises, PostReturns, Backoff, Finish, Retries, MayRetry
    <3> QED
      BY <1>1, <1>2, <1>3, <2>1, <2>2, <3>1 DEF PostInv, UnderWay, Running
  <2>5. CASE PauseEnds
    BY <1>1, <1>3, <2>1, <2>2, <2>5 DEF PauseEnds, WakeUp, PostInv, UnderWay, Running
  <2>6. CASE ProviderCloses
    BY <1>1, <1>3, <2>1, <2>2, <2>6 DEF ProviderCloses, close, PostInv, UnderWay, Running
  <2> QED
    BY <1>7, <2>3, <2>4, <2>5, <2>6
<1>8. ASSUME \/ Respond
             \/ \E b \in BOOLEAN : HandleRequest(b)
             \/ \E h \in Subjects \cup {NoSubject, "absent"} : Authenticate(h)
      PROVE  PostInv'
  <2>1. /\ UNCHANGED <<stage, phase, attempt, step_count, llm, tries, posts>>
        /\ Running => stage \in Answered
    BY <1>8 DEF Respond, HandleRequest, Authenticate, Running, agentVars, planVars, routeVars,
                providerVars
  <2>2. llm = "idle"
    BY <1>1, <2>1 DEF PostInv, Waiting, Answered
  <2>3. CallsEnded' = CallsEnded
    BY <2>1 DEF CallsEnded, ModelCalls, Larger
  <2> QED
    BY <1>1, <2>1, <2>2, <2>3 DEF PostInv, UnderWay
<1> QED
  BY <1>4, <1>5, <1>6, <1>7, <1>8 DEF ServiceNext

-----------------------------------------------------------------------------
(* Theorems                                                                *)

\* A request that has just arrived.
LEMMA ServiceInvInit ==
  ASSUME ServiceInit
  PROVE  ServiceInv
<1>1. PlanInv
  BY PlanInvInit DEF ServiceInit, AgentInit
<1>2. /\ stage = "classify" /\ tool = "none" /\ subject = NoSubject /\ sent = NoSubject
      /\ step_count = 0
  BY DEF ServiceInit, AgentInit
<1>3. /\ llm = "idle" /\ tries = 0 /\ closed = FALSE /\ http = "middleware" /\ code = 0
      /\ posts = 0 /\ phase = "generate" /\ attempt = 0
  BY DEF ServiceInit, ProviderInit, AgentInit, PlanInit
<1>4. ServiceTypeOK
  BY <1>1, <1>2, <1>3
     DEF ServiceTypeOK, AgentTypeOK, ProviderTypeOK, PlanInv, Stages, UserIds
<1>5. RouteInv
  <2>1. step_count <= ModelCalls
    BY <1>2, ModelCallsFacts
  <2> QED
    BY <1>2, <2>1 DEF RouteInv
<1>6. PostInv
  BY <1>2, <1>3, ProviderAssumption, CostFacts DEF PostInv, CallsEnded, UnderWay
<1> QED
  BY <1>1, <1>4, <1>5, <1>6 DEF ServiceInv

\* The inductive invariant of a request: types, the planner route, the identity and the
\* tool of the direct route, and the account of the requests to the model.
THEOREM ServiceInvariant == ServiceSpec => []ServiceInv
<1>1. ServiceInit => ServiceInv
  BY ServiceInvInit
<1>2. ServiceInv /\ [ServiceNext]_serviceVars => ServiceInv'
  BY ServiceTypeStep, RouteStep, PostStep DEF ServiceInv
<1> QED
  BY <1>1, <1>2, PTL DEF ServiceSpec

\* Every variable of a request keeps to its type on every route.
THEOREM ServiceTypeCorrect == ServiceSpec => []ServiceTypeOK
BY ServiceInvariant, PTL DEF ServiceInv

\* The cost of a request in HTTP requests to the model, for any numbers of retries of
\* the provider and the planner and any limit on the steps of the graph.
THEOREM ModelRequestsAreBounded == ServiceSpec => []PostsBounded
<1>1. ServiceInv => PostsBounded
  <2> SUFFICES ASSUME ServiceInv PROVE PostsBounded
    OBVIOUS
  <2>1. /\ ProviderRetries \in Nat /\ posts \in Nat /\ tries \in Nat /\ PostInv
        /\ llm \in {"idle", "post", "backoff", "message", "error"}
    BY ProviderAssumption DEF ServiceInv, ServiceTypeOK, ProviderTypeOK
  <2>2. CallsEnded \in Nat /\ Cost(CallsEnded) \in Nat /\ Cost(ModelCalls) \in Nat
    BY CallsBounded, CostFacts
  <2> HIDE DEF Cost, ModelCalls
  <2>3. CASE llm = "idle"
    <3>1. posts <= Cost(CallsEnded)
      BY <2>1, <2>2, <2>3 DEF PostInv, UnderWay
    <3>2. Cost(CallsEnded) <= Cost(ModelCalls)
      BY CallsBounded, CostFacts
    <3> QED
      BY <2>1, <2>2, <3>1, <3>2 DEF PostsBounded, Cost
  <2>4. CASE llm # "idle"
    <3>1. posts <= Cost(CallsEnded) + ProviderRetries + 1
      BY <2>1, <2>2, <2>4 DEF PostInv, UnderWay
    <3>2. CallsEnded + 1 \in Nat /\ CallsEnded + 1 <= ModelCalls
      BY <2>1, <2>2, <2>4, CallsBounded DEF PostInv
    <3>3. /\ Cost(CallsEnded + 1) <= Cost(ModelCalls)
          /\ Cost(CallsEnded + 1) = Cost(CallsEnded) + ProviderRetries + 1
      BY <2>2, <3>2, CallsBounded, CostFacts
    <3>4. posts <= Cost(ModelCalls)
      BY <2>1, <2>2, <3>1, <3>3
    <3> QED
      BY <3>4 DEF PostsBounded, Cost
  <2> QED
    BY <2>3, <2>4
<1> QED
  BY <1>1, ServiceInvariant, PTL

\* The direct route calls an identity tool for the authenticated subject only.
THEOREM IdentityComesFromContext == ServiceSpec => []IdentityIsInjected
<1>1. ServiceInv => IdentityIsInjected
  BY DEF ServiceInv, RouteInv, IdentityIsInjected
<1> QED
  BY <1>1, ServiceInvariant, PTL

\* No route leads to a write the policy denies, whatever tools, kinds and policies the
\* gateway is built with.
THEOREM DeniedWritesAreNotMade == ServiceSpec => []NoDeniedWrite
<1>1. ServiceInv => NoDeniedWrite
  <2> SUFFICES ASSUME ServiceInv PROVE NoDeniedWrite
    OBVIOUS
  <2>1. stage = "call" => BankingKind[tool] = "READ"
    BY DEF ServiceInv, RouteInv, BankingKind, BankingTools
  <2>2. \A i \in Steps : calls[i] > 0 => policy[KindOf[Tool(i)]] # "DENIED"
    BY DEF ServiceInv, PlanInv, RunInv, CallsOf, Callable
  <2> QED
    BY <2>1, <2>2 DEF NoDeniedWrite
<1> QED
  BY <1>1, ServiceInvariant, PTL

\* A step that fails when it is first run ends the plan, in plans of any length; a
\* repetition that fails does not, as FailureStopsPlan says.
THEOREM PlanStopsAtFailure == ServiceSpec => []FailureStopsPlan
<1>1. ServiceInv => FailureStopsPlan
  BY LoopStopsAtFailure DEF ServiceInv
<1> QED
  BY <1>1, ServiceInvariant, PTL

\* _detect_cycles and the other checks of the validator decide exactly, for every
\* dependency graph and every order in which the search may visit it.
THEOREM ValidatorIsExact == ServiceSpec => ValidationExact
<1>1. ServiceInv /\ [ServiceNext]_serviceVars =>
        [phase = "validate" =>
           /\ phase' = "run" => StructureOK(plan) /\ Acyclic
           /\ phase' = "generate" => ~(StructureOK(plan) /\ Acyclic)]_planVars
  BY PlanPart, VerdictIsExact DEF ServiceInv, PlannerMoves
<1> QED
  BY <1>1, ServiceInvariant, PTL DEF ServiceSpec, ValidationExact

-----------------------------------------------------------------------------
(* A request only moves forward                                            *)

HttpRank(h) ==
  CASE h = "middleware" -> 0 [] h = "handler" -> 1 [] h = "runtime" -> 2 [] h = "done" -> 3

StageRank(s) ==
  CASE s = "classify" -> 0
    [] s \in {"DIRECT", "RAG", "PLANNER", "TRANSFER_STATE_MACHINE"} -> 1
    [] s \in {"extract", "cite", "agent_node", "tool_node"} -> 2
    [] s \in {"call", "fallback"} -> 3
    [] s \in Answered -> 4

\* A model call: asked, sent again after a counted pause, answered; or the provider is
\* closed, once.
CallForward ==
  \/ llm = "idle" /\ llm' \in {"post", "error"} /\ UNCHANGED <<tries, closed>>
  \/ llm = "post" /\ llm' \in {"message", "error"} /\ UNCHANGED <<tries, closed>>
  \/ /\ llm = "post" /\ llm' = "backoff" /\ UNCHANGED closed
     /\ tries' = tries + 1 /\ tries' <= ProviderRetries
  \/ llm = "backoff" /\ llm' = "post" /\ UNCHANGED <<tries, closed>>
  \/ ~closed /\ closed' /\ UNCHANGED <<llm, tries>>

\* The graph's nodes take turns, at the price of a step.
GraphForward ==
  \/ /\ stage = "agent_node" /\ stage' = "tool_node"
     /\ step_count' = step_count + 1 /\ step_count' <= MaxAgentSteps
  \/ stage = "tool_node" /\ stage' = "agent_node" /\ UNCHANGED step_count

\* The request goes on in the pipeline, or the runtime on its route, or the planner or
\* the graph within its route, or the model call that the route waits for.
RequestForward ==
  \/ HttpRank(http) < HttpRank(http')
  \/ /\ http' = http
     /\ \/ StageRank(stage) < StageRank(stage')
        \/ stage = "PLANNER" /\ stage' = "PLANNER" /\ PlanForward
        \/ GraphForward
        \/ UNCHANGED agentVars /\ CallForward

\* The other routes go on from stage to stage, the graph also from step to step.
LEMMA RoutesMoveForward ==
  ASSUME RouteMoves, step_count \in Nat
  PROVE  StageRank(stage) < StageRank(stage') \/ GraphForward
<1> USE DEF Go, StageRank, Answered
<1>1. ASSUME NEW i \in Intents, Classify(i) PROVE StageRank(stage) < StageRank(stage')
  <2>1. stage = "classify" /\ stage' \in {"refused", "TRANSFER_STATE_MACHINE", "DIRECT", "RAG", "PLANNER"}
    BY <1>1, Classified
  <2> QED
    BY <2>1
<1>2. CASE StartDirect \/ CallDirect
  BY <1>2 DEF StartDirect, CallDirect
<1>3. CASE Retrieve \/ PlannerReturns
  BY <1>3 DEF Retrieve, PlannerReturns
<1>4. CASE (\E u \in UserIds : ExtractArguments(u)) \/ ExtractionFails \/ InjectionRaises
  BY <1>4 DEF ExtractArguments, ExtractionFails, InjectionRaises
<1>5. CASE AnswerQuestion \/ CitingFails \/ FallbackRaises
  BY <1>5 DEF AnswerQuestion, CitingFails, FallbackRaises
<1>6. CASE GraphMoves
  BY <1>6, GraphSteps DEF GraphForward
<1> QED
  BY <1>1, <1>2, <1>3, <1>4, <1>5, <1>6 DEF RouteMoves

\* No step of a request takes it back, on any route, for any plan, whatever the model
\* service answers and when the provider is closed under it.  The ranks, attempts,
\* pauses and positions are bounded and a plan has finitely many steps, so a request
\* takes finitely many: the safety half of RequestEnds.
THEOREM RequestMovesForward == ServiceSpec => [][RequestForward]_serviceVars
<1>1. ServiceInv /\ [ServiceNext]_serviceVars => [RequestForward]_serviceVars
  <2> SUFFICES ASSUME ServiceInv, ServiceNext PROVE RequestForward
    OBVIOUS
  <2>0. PlanInv /\ tries \in Nat /\ ProviderRetries \in Nat /\ step_count \in Nat
    BY ProviderAssumption DEF ServiceInv, ServiceTypeOK, AgentTypeOK, ProviderTypeOK
  <2>1. ASSUME RouteMoves \/ PlannerMoves, http' = http PROVE RequestForward
    BY <2>0, <2>1, RoutesMoveForward, PlanMovesForward DEF PlannerMoves, routeVars, RequestForward
  <2>2. ASSUME NEW h \in Subjects \cup {NoSubject, "absent"}, Authenticate(h) PROVE RequestForward
    BY <2>2 DEF Authenticate, RequestForward, HttpRank
  <2>3. ASSUME NEW b \in BOOLEAN, HandleRequest(b) PROVE RequestForward
    BY <2>3 DEF HandleRequest, RequestForward, HttpRank
  <2>4. CASE RuntimeStep
    BY <2>1, <2>4 DEF RuntimeStep, OwnStep, PlannerMoves, RouteMoves, GraphMoves, PlanMove
  <2>5. CASE MessageArrives
    BY <2>1, <2>5 DEF MessageArrives, OnMessage, PlannerMoves, RouteMoves, GraphMoves, PlanMove
  <2>6. CASE InvokeRaises
    BY <2>1, <2>6 DEF InvokeRaises, OnException, PlannerMoves, RouteMoves, GraphMoves, PlanMove
  <2>7. CASE AskModel
    BY <2>7 DEF AskModel, invoke, RequestForward, CallForward
  <2>8. CASE Post
    <3>1. CallForward
      BY <2>0, <2>8 DEF Post, PostRaises, PostReturns, Backoff, Finish, Retries, MayRetry, CallForward
    <3> QED
      BY <2>8, <3>1 DEF Post, RequestForward
  <2>9. CASE PauseEnds
    BY <2>9 DEF PauseEnds, WakeUp, RequestForward, CallForward
  <2>10. CASE ProviderCloses
    BY <2>10 DEF ProviderCloses, close, RequestForward, CallForward
  <2>11. CASE Respond
    BY <2>11 DEF Respond, Running, RequestForward, HttpRank
  <2> QED
    BY <2>2, <2>3, <2>4, <2>5, <2>6, <2>7, <2>8, <2>9, <2>10, <2>11 DEF ServiceNext
<1> QED
  BY <1>1, ServiceInvariant, PTL DEF ServiceSpec

=============================================================================
