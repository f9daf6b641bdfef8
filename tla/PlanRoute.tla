----------------------------- MODULE PlanRoute -----------------------------
(***************************************************************************)
(* The planner route of AgentRuntime (agent.py, orchestration/): the model *)
(* proposes a plan, PlanValidator checks it, StepExecutor runs its steps   *)
(* in the order they are listed and StepVerifier decides what a result     *)
(* means.                                                                  *)
(*                                                                         *)
(* The depth-first search of _detect_cycles is modelled step by step.  It  *)
(* iterates over Python sets of strings, whose order changes from process  *)
(* to process: every order is explored.                                    *)
(*                                                                         *)
(* The route validates the plan a second time with a larger step limit,    *)
(* which cannot fail any more, and a plan that reaches the executor has    *)
(* every step "pending" with max_retries 1: the planner sets neither.  No  *)
(* step is given arguments: every tool is called with {}.                  *)
(***************************************************************************)
EXTENDS Naturals, Sequences, FiniteSets, AuthPolicy

CONSTANTS Plans,        \* plans the model may propose
          StepIds,      \* step ids, of steps and of dependencies
          Tools,        \* registered tools
          OtherTools,   \* names the registry does not know
          KindOf,       \* registered tool -> operation kind
          Policies,     \* policies the gateway may have been built with
          MaxRetries,   \* attempts at generating a plan
          MaxSteps      \* the validator's limit

PlanStep ==
  [id : StepIds, candidates : Seq(Tools \cup OtherTools), deps : SUBSET StepIds]

\* completion_criteria: none, strings only, or JSON that also holds something else.
Criteria == {"none", "strings", "other"}

ASSUME PlanAssumption ==
  /\ Plans \subseteq [steps : Seq(PlanStep), criteria : Criteria]
  /\ KindOf \in [Tools -> Kinds]
  /\ Policies \subseteq [Kinds -> Decisions]
  /\ MaxRetries \in Nat /\ MaxSteps \in Nat

VARIABLES phase,     \* what the route does next
          attempt,   \* attempts at generating a plan that have failed
          plan,
          policy,    \* the gateway's policy, fixed at start-up
          errors,    \* the validator has recorded an error
          color,     \* step id -> colour of the search
          path,      \* steps on the search's stack
          todo,      \* step id -> dependencies its loop has still to visit
          idx,       \* step the executor is at
          calls,     \* step -> tool calls made for it
          result     \* step -> outcome of its last execution

searchVars == <<color, path, todo>>
runVars == <<idx, calls, result>>
planVars == <<phase, attempt, plan, policy, errors, searchVars, runVars>>

NoPlan == [steps |-> <<>>, criteria |-> "none"]

Steps == DOMAIN plan.steps
Ids == {plan.steps[i].id : i \in Steps}

\* A dict built from the list: the last step with an id provides its entry.
Dependencies(n) ==
  UNION {plan.steps[i].deps : i \in {j \in Steps : /\ plan.steps[j].id = n
                                                   /\ \A k \in Steps : plan.steps[k].id = n => k <= j}}

PlanTypeOK ==
  /\ phase \in {"generate", "validate", "run", "retry", "rejected", "stopped", "completed", "raised"}
  /\ attempt \in 0..MaxRetries
  /\ plan \in Plans \cup {NoPlan}
  /\ policy \in Policies
  /\ errors \in BOOLEAN
  /\ color \in [Ids -> {"WHITE", "GRAY", "BLACK"}]
  /\ path \in Seq(Ids)
  /\ todo \in [Ids -> SUBSET Ids]
  /\ idx \in Nat
  /\ calls \in [Steps -> Nat]
  /\ result \in [Steps -> {"none", "success", "failure"}]

PlanInit ==
  /\ phase = "generate" /\ attempt = 0
  /\ plan = NoPlan
  /\ policy \in Policies
  /\ errors = FALSE
  /\ color = <<>> /\ path = <<>> /\ todo = <<>>
  /\ idx = 1 /\ calls = <<>> /\ result = <<>>

-----------------------------------------------------------------------------
(* Planner.plan and PlanValidator.validate                                 *)

\* What validate checks apart from cycles.  The goal is the user's message: one without
\* words is classified as unsupported, so the check for an empty goal always passes here.
StructureOK(p) ==
  LET steps == DOMAIN p.steps
  IN /\ Len(p.steps) \in 1..MaxSteps
     /\ \A i, j \in steps : p.steps[i].id = p.steps[j].id => i = j
     /\ \A i \in steps :
          /\ \A c \in DOMAIN p.steps[i].candidates : p.steps[i].candidates[c] \in Tools
          /\ \A d \in p.steps[i].deps : d # p.steps[i].id /\ \E j \in steps : p.steps[j].id = d

GeneratePlan ==
  /\ phase = "generate" /\ attempt < MaxRetries
  /\ \E p \in Plans : plan' = p /\ errors' = ~StructureOK(p)
  /\ phase' = "validate"
  /\ color' = [n \in Ids' |-> "WHITE"] /\ path' = <<>> /\ todo' = [n \in Ids' |-> {}]
  /\ calls' = [i \in Steps' |-> 0] /\ result' = [i \in Steps' |-> "none"]
  /\ UNCHANGED <<attempt, policy, idx>>

\* The local variables of an attempt are gone with it.
ForgetPlan ==
  /\ plan' = NoPlan /\ errors' = FALSE
  /\ color' = <<>> /\ path' = <<>> /\ todo' = <<>>
  /\ calls' = <<>> /\ result' = <<>>
  /\ UNCHANGED <<policy, idx>>

\* Mutant: an attempt that raised is not counted.
AttemptFails_Uncounted == phase' = "generate" /\ ForgetPlan /\ UNCHANGED attempt

AttemptFails == phase' = "generate" /\ attempt' = attempt + 1 /\ ForgetPlan

\* The model call raises, or its answer is not the JSON of a plan.
GenerationFails ==
  /\ phase = "generate" /\ attempt < MaxRetries
  /\ AttemptFails

GiveUp ==
  /\ phase = "generate" /\ attempt = MaxRetries
  /\ phase' = "rejected"
  /\ UNCHANGED <<attempt, plan, policy, errors, searchVars, runVars>>

Searching == phase = "validate" /\ path # <<>>
Current == path[Len(path)]

Enter(n) ==
  /\ color' = [color EXCEPT ![n] = "GRAY"]
  /\ path' = Append(path, n)

\* Mutant: a dependency that is no step of the plan is followed like any other.
SearchFrom_UnknownDependency(n) ==
  /\ phase = "validate" /\ path = <<>>
  /\ n \in Ids /\ color[n] = "WHITE"
  /\ Enter(n)
  /\ todo' = [todo EXCEPT ![n] = Dependencies(n)]
  /\ UNCHANGED <<phase, attempt, plan, policy, errors, runVars>>

\* The outer loop calls _dfs with a new path.
SearchFrom(n) ==
  /\ phase = "validate" /\ path = <<>>
  /\ n \in Ids /\ color[n] = "WHITE"
  /\ Enter(n)
  /\ todo' = [todo EXCEPT ![n] = Dependencies(n) \cap Ids]
  /\ UNCHANGED <<phase, attempt, plan, policy, errors, runVars>>

VisitWhite(d) ==
  /\ Searching /\ d \in todo[Current] /\ color[d] = "WHITE"
  /\ Enter(d)
  /\ todo' = [todo EXCEPT ![Current] = @ \ {d}, ![d] = Dependencies(d) \cap Ids]
  /\ UNCHANGED <<phase, attempt, plan, policy, errors, runVars>>

VisitBlack(d) ==
  /\ Searching /\ d \in todo[Current] /\ color[d] = "BLACK"
  /\ todo' = [todo EXCEPT ![Current] = @ \ {d}]
  /\ UNCHANGED <<phase, attempt, plan, policy, errors, color, path, runVars>>

OnPath(d) == \E i \in DOMAIN path : path[i] = d

\* Mutant: a step that is being searched is taken for one already searched.
VisitGray_NotACycle(d) ==
  /\ Searching /\ d \in todo[Current] /\ color[d] = "GRAY" /\ OnPath(d)
  /\ todo' = [todo EXCEPT ![Current] = @ \ {d}]
  /\ UNCHANGED <<phase, attempt, plan, policy, errors, color, path, runVars>>

\* A cycle: every call on the stack returns and leaves its step GRAY.
VisitGray(d) ==
  /\ Searching /\ d \in todo[Current] /\ color[d] = "GRAY" /\ OnPath(d)
  /\ errors' = TRUE
  /\ path' = <<>>
  /\ UNCHANGED <<phase, attempt, plan, policy, color, todo, runVars>>

\* A step left GRAY by an earlier search is not on this path: path.index raises
\* ValueError out of validate, which the planner counts as a failed attempt.
LookupRaises(d) ==
  /\ Searching /\ d \in todo[Current] /\ color[d] = "GRAY" /\ ~OnPath(d)
  /\ AttemptFails

LeaveStep ==
  /\ Searching /\ todo[Current] = {}
  /\ color' = [color EXCEPT ![Current] = "BLACK"]
  /\ path' = SubSeq(path, 1, Len(path) - 1)
  /\ UNCHANGED <<phase, attempt, plan, policy, errors, todo, runVars>>

VerdictReached ==
  /\ phase = "validate" /\ path = <<>>
  /\ \A n \in Ids : color[n] # "WHITE"

RejectPlan == VerdictReached /\ errors /\ AttemptFails

AcceptPlan ==
  /\ VerdictReached /\ ~errors
  /\ phase' = "run"
  /\ UNCHANGED <<attempt, plan, policy, errors, searchVars, runVars>>

-----------------------------------------------------------------------------
(* StepExecutor.execute_step, StepVerifier.verify and the loop over steps  *)

Tool(i) == plan.steps[i].candidates[1]

\* Only "denied" stops a call: a pending decision falls through to it.
Callable(i) ==
  plan.steps[i].candidates # <<>> /\ policy[KindOf[Tool(i)]] # "DENIED"

\* One execution: the step's outcome, and whether its tool was called.
ExecuteStep(i, success) ==
  /\ success => Callable(i)
  /\ calls' = [calls EXCEPT ![i] = @ + IF Callable(i) THEN 1 ELSE 0]
  /\ result' = [result EXCEPT ![i] = IF success THEN "success" ELSE "failure"]

AtStep(i) == phase = "run" /\ idx = i /\ i \in Steps

\* Mutant: only an abort stops the plan, asking the user does not.
StepFails_GoesOn(i) ==
  /\ AtStep(i)
  /\ ExecuteStep(i, FALSE)
  /\ idx' = idx + 1
  /\ UNCHANGED <<phase, attempt, plan, policy, errors, searchVars>>

\* A failure asks for no retry with max_retries 1: the route answers at once.
StepFails(i) ==
  /\ AtStep(i)
  /\ ExecuteStep(i, FALSE)
  /\ phase' = "stopped"
  /\ UNCHANGED <<attempt, plan, policy, errors, searchVars, idx>>

StepPasses(i) ==
  /\ AtStep(i)
  /\ ExecuteStep(i, TRUE)
  /\ idx' = idx + 1
  /\ UNCHANGED <<phase, attempt, plan, policy, errors, searchVars>>

\* The tool succeeded, but its output does not meet a criterion of the plan.
CriterionUnmet(i) ==
  /\ AtStep(i)
  /\ plan.criteria # "none"
  /\ ExecuteStep(i, TRUE)
  /\ phase' = "retry"
  /\ UNCHANGED <<attempt, plan, policy, errors, searchVars, idx>>

\* The step runs again; its second verdict is not looked at.
RetryStep ==
  /\ phase = "retry"
  /\ \E success \in BOOLEAN : ExecuteStep(idx, success)
  /\ phase' = "run"
  /\ idx' = idx + 1
  /\ UNCHANGED <<attempt, plan, policy, errors, searchVars>>

\* verify raises, out of the route, at a criterion that is no string; it gets there only
\* after a success.
VerifyRaises(i) ==
  /\ phase \in {"run", "retry"} /\ idx = i /\ i \in Steps
  /\ plan.criteria = "other"
  /\ ExecuteStep(i, TRUE)
  /\ phase' = "raised"
  /\ UNCHANGED <<attempt, plan, policy, errors, searchVars, idx>>

Complete ==
  /\ phase = "run" /\ idx > Len(plan.steps)
  /\ phase' = "completed"
  /\ UNCHANGED <<attempt, plan, policy, errors, searchVars, runVars>>

\* What follows a model call, and every other step of the route.
PlanStepNext ==
  \/ GiveUp
  \/ \E n \in StepIds : \/ SearchFrom(n) \/ VisitWhite(n) \/ VisitBlack(n)
                        \/ VisitGray(n) \/ LookupRaises(n)
  \/ LeaveStep \/ RejectPlan \/ AcceptPlan
  \/ \E i \in 1..MaxSteps : StepFails(i) \/ StepPasses(i) \/ CriterionUnmet(i) \/ VerifyRaises(i)
  \/ RetryStep \/ Complete

-----------------------------------------------------------------------------
(* Properties                                                              *)

\* Every non-empty set of steps has one that depends on none of the set.
Acyclic ==
  \A S \in (SUBSET Ids) \ {{}} : \E n \in S : Dependencies(n) \cap S = {}

\* The search decides exactly: in whatever order it visits the steps, and although
\* a search that found a cycle leaves its steps GRAY, validation lets a plan pass
\* if and only if it is well formed and has no circular dependency.
ValidationExact ==
  [][phase = "validate" =>
       /\ phase' = "run" => StructureOK(plan) /\ Acyclic
       /\ phase' = "generate" => ~(StructureOK(plan) /\ Acyclic)]_planVars

\* A step that fails when it is first run ends the plan: a later step is only called
\* when every earlier one was called and succeeded at least once.  What is repeated is
\* a call that had succeeded, and it is repeated once.  The repetition may fail without
\* ending the plan, although orchestration/executor.py:7 says "Never executes steps with
\* failed dependencies": its verdict is not looked at.
FailureStopsPlan ==
  \A i, j \in Steps :
    /\ calls[i] <= 2
    /\ i < j /\ calls[j] > 0 => /\ calls[i] > 0
                                /\ result[i] = "failure" => calls[i] = 2

=============================================================================
