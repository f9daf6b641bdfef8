----------------------------- MODULE PlanProofs -----------------------------
(***************************************************************************)
(* What the steps of PlanRoute preserve, for any set of plans, tools and   *)
(* policies and any limits: the depth-first search of _detect_cycles is    *)
(* exact, and the loop over the steps stops at the first failure.  The     *)
(* route runs inside a request, so the theorems over behaviours are those  *)
(* of ServiceProofs; here are the invariants and the steps.                *)
(***************************************************************************)
EXTENDS PlanRoute, TLAPS, SequenceTheorems

Black == {n \in Ids : color[n] = "BLACK"}

\* The dependencies path[i] has already looked at are BLACK or next on the path.
Explored(i) ==
  \A d \in Dependencies(path[i]) \cap Ids :
    \/ d \in todo[path[i]]
    \/ d \in Black
    \/ i < Len(path) /\ d = path[i + 1]

\* The path is a chain of dependencies through distinct GRAY steps.
PathInv ==
  /\ \A i \in DOMAIN path : color[path[i]] = "GRAY" /\ Explored(i)
  /\ \A i, j \in DOMAIN path : path[i] = path[j] => i = j
  /\ \A i, j \in DOMAIN path : j = i + 1 => path[j] \in Dependencies(path[i])
  /\ \A n \in Ids : todo[n] \subseteq Dependencies(n)

\* Only BLACK steps are reached from a BLACK one, and there is no cycle among them.
BlackInv ==
  /\ \A n \in Black : Dependencies(n) \cap Ids \subseteq Black
  /\ \A S \in (SUBSET Black) \ {{}} : \E n \in S : Dependencies(n) \cap S = {}

\* An error is recorded exactly if the plan is malformed or a cycle was found, and only
\* a cycle leaves GRAY steps behind.
ErrorInv ==
  /\ errors => ~(StructureOK(plan) /\ Acyclic)
  /\ ~errors => /\ StructureOK(plan)
                /\ \A n \in Ids : color[n] = "GRAY" => OnPath(n)

SearchInv == phase = "validate" => PathInv /\ BlackInv /\ ErrorInv

\* A plan in hand is the outcome of an attempt that is not counted yet.
AttemptInv == phase \notin {"generate", "rejected"} => attempt < MaxRetries

\* Steps before idx were called and those after it not; the one at idx is called for
\* the first time in "run" and for the second in "retry".
CallsOf(i) ==
  /\ i < idx => calls[i] \in 1..2 /\ (result[i] = "failure" => calls[i] = 2)
  /\ i = idx => calls[i] \in CASE phase = "retry" -> {1}
                               [] phase = "stopped" /\ Callable(i) -> {1}
                               [] phase = "raised" -> {1, 2}
                               [] OTHER -> {0}
  /\ i > idx => calls[i] = 0
  /\ calls[i] > 0 => Callable(i)

RunInv ==
  /\ phase \in {"generate", "validate", "rejected"} => idx = 1
  /\ phase = "retry" => idx \in Steps
  /\ \A i \in Steps : CallsOf(i)

PlanInv == PlanTypeOK /\ SearchInv /\ AttemptInv /\ RunInv

-----------------------------------------------------------------------------
(* The definitions over the plan                                           *)

\* What is read off the plan stays as long as the plan does.
LEMMA SamePlan ==
  ASSUME plan' = plan
  PROVE  /\ Steps' = Steps /\ Ids' = Ids
         /\ \A n : Dependencies(n)' = Dependencies(n)
         /\ Acyclic' = Acyclic
         /\ StructureOK(plan)' = StructureOK(plan)
<1>1. Steps' = Steps /\ Ids' = Ids /\ \A n : Dependencies(n)' = Dependencies(n)
  BY DEF Steps, Ids, Dependencies
<1>2. Acyclic' = Acyclic
  BY <1>1 DEF Acyclic
<1>3. StructureOK(plan)' = StructureOK(plan)
  BY DEF StructureOK
<1> QED
  BY <1>1, <1>2, <1>3

\* A plan is a sequence of steps.
LEMMA PlanShape ==
  ASSUME PlanTypeOK
  PROVE  /\ plan.steps \in Seq(PlanStep)
         /\ Steps = 1..Len(plan.steps)
         /\ Len(plan.steps) \in Nat
<1>1. plan \in [steps : Seq(PlanStep), criteria : Criteria]
  <2>1. NoPlan \in [steps : Seq(PlanStep), criteria : Criteria]
    BY DEF NoPlan, Criteria
  <2> QED
    BY <2>1, PlanAssumption DEF PlanTypeOK
<1>2. plan.steps \in Seq(PlanStep)
  BY <1>1
<1> QED
  BY <1>2 DEF Steps

-----------------------------------------------------------------------------
(* Types                                                                   *)

\* The steps of the search, of the loop over the plan, and of the route as a whole.
SearchStep ==
  \/ \E n \in StepIds : SearchFrom(n) \/ VisitWhite(n) \/ VisitBlack(n) \/ VisitGray(n)
  \/ LeaveStep

LoopStep ==
  \/ \E i \in 1..MaxSteps : StepFails(i) \/ StepPasses(i) \/ CriterionUnmet(i) \/ VerifyRaises(i)
  \/ RetryStep \/ Complete

LosesPlan ==
  \/ GenerationFails \/ RejectPlan
  \/ \E n \in StepIds : LookupRaises(n)

PlanMove == GeneratePlan \/ GenerationFails \/ PlanStepNext

\* A step of the route is one of these.
LEMMA MoveKinds ==
  ASSUME PlanMove
  PROVE  GeneratePlan \/ LosesPlan \/ GiveUp \/ SearchStep \/ AcceptPlan \/ LoopStep
BY DEF PlanMove, PlanStepNext, LosesPlan, SearchStep, LoopStep

\* The step whose dependencies are visited is a step of the plan.
LEMMA CurrentStep ==
  ASSUME PlanTypeOK, Searching
  PROVE  /\ Len(path) \in Nat \ {0} /\ DOMAIN path = 1..Len(path)
         /\ Current \in Ids /\ todo[Current] \subseteq Ids
BY DEF PlanTypeOK, Searching, Current

\* Every attempt that is lost is counted, and there are no more than MaxRetries.
LEMMA LostAttempt ==
  ASSUME PlanTypeOK, AttemptInv, LosesPlan
  PROVE  /\ phase' = "generate" /\ ForgetPlan /\ attempt < MaxRetries
         /\ attempt' = attempt + 1 /\ attempt' \in 0..MaxRetries
<1>1. AttemptFails /\ attempt < MaxRetries
  BY DEF LosesPlan, GenerationFails, RejectPlan, VerdictReached, LookupRaises, Searching, AttemptInv
<1> QED
  BY <1>1, PlanAssumption DEF AttemptFails, PlanTypeOK

\* The type invariant of the route is preserved; losing a plan needs AttemptInv.
LEMMA PlanTypeStep ==
  ASSUME PlanTypeOK, AttemptInv, RunInv, PlanMove
  PROVE  PlanTypeOK'
<1> USE DEF PlanTypeOK
<1>1. CASE GeneratePlan
  <2>1. color' \in [Ids' -> {"WHITE", "GRAY", "BLACK"}] /\ todo' \in [Ids' -> SUBSET Ids']
    BY <1>1 DEF GeneratePlan
  <2>2. calls' \in [Steps' -> Nat] /\ result' \in [Steps' -> {"none", "success", "failure"}]
    BY <1>1 DEF GeneratePlan
  <2>3. path' \in Seq(Ids')
    BY <1>1 DEF GeneratePlan
  <2>4. errors' \in BOOLEAN
    BY <1>1 DEF GeneratePlan
  <2>5. /\ phase' = "validate" /\ attempt' = attempt /\ plan' \in Plans
        /\ policy' = policy /\ idx' = idx
    BY <1>1 DEF GeneratePlan
  <2> QED
    BY <2>1, <2>2, <2>3, <2>4, <2>5
<1>2. CASE LosesPlan
  <2>1. ForgetPlan /\ phase' = "generate" /\ attempt' \in 0..MaxRetries
    BY <1>2, LostAttempt
  <2>2. plan' = NoPlan /\ errors' = FALSE /\ policy' = policy /\ idx' = idx
    BY <2>1 DEF ForgetPlan
  <2>3. Steps' = {} /\ Ids' = {}
    BY <2>2 DEF Steps, Ids, NoPlan
  <2>4. color' = <<>> /\ path' = <<>> /\ todo' = <<>> /\ calls' = <<>> /\ result' = <<>>
    BY <2>1 DEF ForgetPlan
  <2>5. \A S : <<>> \in [{} -> S] /\ <<>> \in Seq(S)
    OBVIOUS
  <2>6. /\ color' \in [Ids' -> {"WHITE", "GRAY", "BLACK"}] /\ path' \in Seq(Ids')
        /\ todo' \in [Ids' -> SUBSET Ids']
    BY <2>3, <2>4, <2>5
  <2>7. calls' \in [Steps' -> Nat] /\ result' \in [Steps' -> {"none", "success", "failure"}]
    BY <2>3, <2>4, <2>5
  <2> QED
    BY <2>1, <2>2, <2>6, <2>7
<1>3. CASE GiveUp
  BY <1>3, SamePlan DEF GiveUp, searchVars, runVars
<1>4. CASE SearchStep
  <2>1. /\ phase' = phase /\ attempt' = attempt /\ plan' = plan /\ policy' = policy
        /\ idx' = idx /\ calls' = calls /\ result' = result /\ errors' \in BOOLEAN
    BY <1>4 DEF SearchStep, SearchFrom, VisitWhite, VisitBlack, VisitGray, LeaveStep, runVars
  <2>2. color' \in [Ids -> {"WHITE", "GRAY", "BLACK"}]
    BY <1>4, CurrentStep
       DEF SearchStep, SearchFrom, VisitWhite, VisitBlack, VisitGray, LeaveStep, Enter
  <2>3. path' \in Seq(Ids)
    <3>1. CASE \E n \in StepIds : SearchFrom(n) \/ VisitWhite(n) \/ VisitBlack(n) \/ VisitGray(n)
      <4>1. \/ path' = path \/ path' = <<>>
            \/ \E n \in Ids : path' = Append(path, n)
        BY <3>1, CurrentStep DEF SearchFrom, VisitWhite, VisitBlack, VisitGray, Enter
      <4>2. path \in Seq(Ids) /\ <<>> \in Seq(Ids)
        OBVIOUS
      <4> HIDE DEF PlanTypeOK
      <4>3. \A n \in Ids : Append(path, n) \in Seq(Ids)
        BY <4>2, AppendProperties
      <4> QED
        BY <4>1, <4>2, <4>3
    <3>2. CASE LeaveStep
      <4>1. path' = SubSeq(path, 1, Len(path) - 1) /\ Len(path) \in Nat \ {0}
        BY <3>2, CurrentStep DEF LeaveStep
      <4> QED
        BY <4>1, SubSeqProperties
    <3> QED
      BY <1>4, <3>1, <3>2 DEF SearchStep
  <2>4. todo' \in [Ids -> SUBSET Ids]
    BY <1>4, CurrentStep
       DEF SearchStep, SearchFrom, VisitWhite, VisitBlack, VisitGray, LeaveStep
  <2>5. Steps' = Steps /\ Ids' = Ids
    BY <2>1, SamePlan
  <2> QED
    BY <2>1, <2>2, <2>3, <2>4, <2>5
<1>5. CASE AcceptPlan
  BY <1>5, SamePlan DEF AcceptPlan, searchVars, runVars
<1>6. CASE LoopStep
  <2>1. /\ attempt' = attempt /\ plan' = plan /\ policy' = policy /\ errors' = errors
        /\ color' = color /\ path' = path /\ todo' = todo
    BY <1>6 DEF LoopStep, StepFails, StepPasses, CriterionUnmet, VerifyRaises, RetryStep, Complete, searchVars
  <2>2. phase' \in {"run", "retry", "stopped", "completed", "raised"} /\ idx' \in Nat
    <3>1. \/ phase' \in {"stopped", "retry", "completed", "raised"} /\ idx' = idx
          \/ phase' \in {"run"} /\ idx' = idx + 1
      BY <1>6 DEF LoopStep, StepFails, StepPasses, CriterionUnmet, VerifyRaises, RetryStep, Complete, runVars,
                  AtStep
    <3> QED
      BY <3>1
  <2>3. calls' \in [Steps -> Nat] /\ result' \in [Steps -> {"none", "success", "failure"}]
    <3>1. \/ \E i \in Steps, b \in BOOLEAN : ExecuteStep(i, b)
          \/ calls' = calls /\ result' = result
      BY <1>6 DEF LoopStep, StepFails, StepPasses, CriterionUnmet, VerifyRaises, RetryStep, Complete, runVars,
                  AtStep, RunInv
    <3>2. ASSUME NEW i \in Steps, NEW b \in BOOLEAN, ExecuteStep(i, b)
          PROVE  calls' \in [Steps -> Nat] /\ result' \in [Steps -> {"none", "success", "failure"}]
      <4>1. calls[i] + (IF Callable(i) THEN 1 ELSE 0) \in Nat
        OBVIOUS
      <4> QED
        BY <3>2, <4>1 DEF ExecuteStep
    <3> QED
      BY <3>1, <3>2
  <2>4. Steps' = Steps /\ Ids' = Ids
    BY <2>1, SamePlan
  <2> QED
    BY <2>1, <2>2, <2>3, <2>4
<1> QED
  BY <1>1, <1>2, <1>3, <1>4, <1>5, <1>6, MoveKinds

-----------------------------------------------------------------------------
(* The attempts and the loop over the steps                                *)

\* Only GeneratePlan puts a plan in hand, and it needs an attempt that is left.
LEMMA AttemptStep ==
  ASSUME PlanTypeOK, AttemptInv, PlanMove
  PROVE  AttemptInv'
<1>1. CASE GeneratePlan
  BY <1>1 DEF GeneratePlan, AttemptInv
<1>2. CASE LosesPlan
  BY <1>2, LostAttempt DEF AttemptInv
<1>3. CASE GiveUp
  BY <1>3 DEF GiveUp, AttemptInv
<1>4. CASE SearchStep
  BY <1>4 DEF SearchStep, SearchFrom, VisitWhite, VisitBlack, VisitGray, LeaveStep, AttemptInv
<1>5. CASE AcceptPlan
  BY <1>5 DEF AcceptPlan, VerdictReached, AttemptInv
<1>6. CASE LoopStep
  BY <1>6 DEF LoopStep, StepFails, StepPasses, CriterionUnmet, VerifyRaises, RetryStep, Complete, AtStep, AttemptInv
<1> QED
  BY <1>1, <1>2, <1>3, <1>4, <1>5, <1>6, MoveKinds

\* What can be called is decided by the plan and the policy.
LEMMA SameCallable ==
  ASSUME plan' = plan, policy' = policy
  PROVE  \A i : Callable(i)' = Callable(i)
BY DEF Callable, Tool

\* One execution changes the entries of its step only.
LEMMA Executed ==
  ASSUME PlanTypeOK, NEW i \in Steps, NEW r,
         calls' = [calls EXCEPT ![i] = @ + IF Callable(i) THEN 1 ELSE 0],
         result' = [result EXCEPT ![i] = r]
  PROVE  /\ calls'[i] = calls[i] + IF Callable(i) THEN 1 ELSE 0
         /\ \A j \in Steps \ {i} : calls'[j] = calls[j] /\ result'[j] = result[j]
         /\ result'[i] = r
BY DEF PlanTypeOK

\* The loop calls the steps in order, each once or twice, and none after a failure.
LEMMA RunStep ==
  ASSUME PlanTypeOK, AttemptInv, RunInv, PlanMove
  PROVE  RunInv'
<1>0. Steps \subseteq Nat /\ idx \in Nat /\ \A i \in Steps : calls[i] \in Nat
  BY PlanShape DEF PlanTypeOK
<1>1. CASE GeneratePlan
  <2>1. idx = 1 /\ idx' = 1 /\ phase' = "validate"
    BY <1>1 DEF GeneratePlan, RunInv
  <2>2. calls' = [i \in Steps' |-> 0]
    BY <1>1 DEF GeneratePlan
  <2>3. Steps' \subseteq Nat \ {0}
    <3>1. plan' \in Plans
      BY <1>1 DEF GeneratePlan
    <3>2. plan'.steps \in Seq(PlanStep)
      BY <3>1, PlanAssumption
    <3> QED
      BY <3>2 DEF Steps
  <2> QED
    BY <2>1, <2>2, <2>3 DEF RunInv, CallsOf
<1>2. CASE LosesPlan
  <2>1. phase' = "generate" /\ plan' = NoPlan /\ idx' = idx
    BY <1>2, LostAttempt DEF ForgetPlan
  <2>2. Steps' = {}
    BY <2>1 DEF Steps, NoPlan
  <2>3. idx = 1
    BY <1>2 DEF LosesPlan, GenerationFails, RejectPlan, VerdictReached, LookupRaises, Searching, RunInv
  <2> QED
    BY <2>1, <2>2, <2>3 DEF RunInv, CallsOf
<1>3. ASSUME /\ GiveUp \/ SearchStep \/ AcceptPlan
      PROVE  RunInv'
  <2>1. /\ plan' = plan /\ policy' = policy /\ idx' = idx /\ calls' = calls /\ result' = result
        /\ phase \in {"generate", "validate"} /\ phase' \in {"validate", "rejected", "run"}
    BY <1>3 DEF GiveUp, SearchStep, SearchFrom, VisitWhite, VisitBlack, VisitGray, LeaveStep,
                AcceptPlan, VerdictReached, Searching, runVars
  <2>2. Steps' = Steps /\ \A i : Callable(i)' = Callable(i)
    BY <2>1, SamePlan, SameCallable
  <2> QED
    BY <2>1, <2>2 DEF RunInv, CallsOf
<1>4. CASE LoopStep
  <2>1. plan' = plan /\ policy' = policy
    BY <1>4 DEF LoopStep, StepFails, StepPasses, CriterionUnmet, VerifyRaises, RetryStep, Complete
  <2>2. Steps' = Steps /\ \A i : Callable(i)' = Callable(i)
    BY <2>1, SamePlan, SameCallable
  <2>3. ASSUME NEW i \in Steps, StepFails(i) PROVE RunInv'
    <3>1. idx = i /\ idx' = i /\ phase = "run" /\ phase' = "stopped"
      BY <2>3 DEF StepFails, AtStep
    <3>2. /\ calls' = [calls EXCEPT ![i] = @ + IF Callable(i) THEN 1 ELSE 0]
          /\ result' = [result EXCEPT ![i] = "failure"]
      BY <2>3 DEF StepFails, ExecuteStep
    <3>3. calls[i] = 0 /\ calls'[i] = IF Callable(i) THEN 1 ELSE 0
      <4>1. calls[i] = 0
        BY <3>1 DEF RunInv, CallsOf
      <4> QED
        BY <3>2, <4>1 DEF PlanTypeOK
    <3>4. \A j \in Steps \ {i} : calls'[j] = calls[j] /\ result'[j] = result[j]
      BY <3>2, Executed
    <3>5. CallsOf(i)'
      BY <1>0, <2>2, <3>1, <3>3 DEF CallsOf
    <3>6. ASSUME NEW j \in Steps \ {i} PROVE CallsOf(j)'
      BY <1>0, <2>2, <3>1, <3>4 DEF RunInv, CallsOf
    <3> QED
      BY <2>2, <3>1, <3>5, <3>6 DEF RunInv
  <2>4. ASSUME NEW i \in Steps, StepPasses(i) \/ CriterionUnmet(i) PROVE RunInv'
    <3>1. /\ idx = i /\ phase = "run"
          /\ \/ idx' = i + 1 /\ phase' = "run"
             \/ idx' = i /\ phase' = "retry"
      BY <2>4 DEF StepPasses, CriterionUnmet, AtStep
    <3>2. /\ calls' = [calls EXCEPT ![i] = @ + IF Callable(i) THEN 1 ELSE 0]
          /\ result' = [result EXCEPT ![i] = "success"] /\ Callable(i)
      BY <2>4 DEF StepPasses, CriterionUnmet, ExecuteStep
    <3>3. calls[i] = 0 /\ calls'[i] = 1 /\ result'[i] = "success"
      <4>1. calls[i] = 0
        BY <3>1 DEF RunInv, CallsOf
      <4> QED
        BY <3>2, <4>1 DEF PlanTypeOK
    <3>4. \A j \in Steps \ {i} : calls'[j] = calls[j] /\ result'[j] = result[j]
      BY <3>2, Executed
    <3>5. CallsOf(i)'
      BY <1>0, <2>2, <3>1, <3>2, <3>3 DEF CallsOf
    <3>6. ASSUME NEW j \in Steps \ {i} PROVE CallsOf(j)'
      BY <1>0, <2>2, <3>1, <3>4 DEF RunInv, CallsOf
    <3> QED
      BY <2>2, <3>1, <3>5, <3>6 DEF RunInv
  <2>5. CASE RetryStep
    <3>1. idx \in Steps /\ idx' = idx + 1 /\ phase = "retry" /\ phase' = "run"
      BY <2>5 DEF RetryStep, RunInv
    <3>2. PICK r \in {"success", "failure"} :
            /\ calls' = [calls EXCEPT ![idx] = @ + IF Callable(idx) THEN 1 ELSE 0]
            /\ result' = [result EXCEPT ![idx] = r]
      BY <2>5 DEF RetryStep, ExecuteStep
    <3>3. calls[idx] = 1 /\ Callable(idx)
      BY <1>0, <3>1 DEF RunInv, CallsOf
    <3>4. calls'[idx] = 2 /\ \A j \in Steps \ {idx} : calls'[j] = calls[j] /\ result'[j] = result[j]
      BY <3>1, <3>2, <3>3 DEF PlanTypeOK
    <3> QED
      BY <1>0, <2>2, <3>1, <3>3, <3>4 DEF RunInv, CallsOf
  <2>6. CASE Complete
    <3>1. /\ idx > Len(plan.steps) /\ idx' = idx /\ calls' = calls /\ result' = result
          /\ phase = "run" /\ phase' = "completed"
      BY <2>6 DEF Complete, runVars
    <3> QED
      BY <1>0, <2>2, <3>1, PlanShape DEF RunInv, CallsOf
  <2>7. ASSUME NEW i \in Steps, VerifyRaises(i) PROVE RunInv'
    <3>1. idx = i /\ idx' = i /\ phase \in {"run", "retry"} /\ phase' = "raised"
      BY <2>7 DEF VerifyRaises
    <3>2. /\ calls' = [calls EXCEPT ![i] = @ + IF Callable(i) THEN 1 ELSE 0]
          /\ result' = [result EXCEPT ![i] = "success"] /\ Callable(i)
      BY <2>7 DEF VerifyRaises, ExecuteStep
    <3>3. calls[i] \in {0, 1} /\ calls'[i] \in {1, 2}
      <4>1. calls[i] \in {0, 1}
        BY <3>1 DEF RunInv, CallsOf
      <4> QED
        BY <3>2, <4>1 DEF PlanTypeOK
    <3>4. \A j \in Steps \ {i} : calls'[j] = calls[j] /\ result'[j] = result[j]
      BY <3>2, Executed
    <3>5. CallsOf(i)'
      BY <1>0, <2>2, <3>1, <3>2, <3>3 DEF CallsOf
    <3>6. ASSUME NEW j \in Steps \ {i} PROVE CallsOf(j)'
      BY <1>0, <2>2, <3>1, <3>4 DEF RunInv, CallsOf
    <3> QED
      BY <2>2, <3>1, <3>5, <3>6 DEF RunInv
  <2> QED
    BY <1>4, <2>3, <2>4, <2>5, <2>6, <2>7
       DEF LoopStep, StepFails, StepPasses, CriterionUnmet, VerifyRaises, AtStep
<1> QED
  BY <1>1, <1>2, <1>3, <1>4, MoveKinds

-----------------------------------------------------------------------------
(* The search                                                              *)

\* _dfs is called for a WHITE step: from the outer loop, or from its loop over the
\* dependencies of the step at the end of the path.
LEMMA EnterStep ==
  ASSUME PlanTypeOK, PathInv, BlackInv, ErrorInv, NEW n \in Ids,
         SearchFrom(n) \/ VisitWhite(n)
  PROVE  PathInv' /\ BlackInv' /\ ErrorInv'
<1>1. plan' = plan /\ errors' = errors /\ color[n] = "WHITE"
  BY DEF SearchFrom, VisitWhite
<1>2. /\ Ids' = Ids /\ \A m : Dependencies(m)' = Dependencies(m)
      /\ Acyclic' = Acyclic /\ StructureOK(plan)' = StructureOK(plan)
  BY <1>1, SamePlan
<1>3. color' = [color EXCEPT ![n] = "GRAY"] /\ path' = Append(path, n)
  BY DEF SearchFrom, VisitWhite, Enter
<1>4. Black' = Black
  BY <1>1, <1>2, <1>3 DEF Black, PlanTypeOK
<1>5. BlackInv'
  BY <1>2, <1>4 DEF BlackInv
<1>6. path \in Seq(Ids) /\ DOMAIN path = 1..Len(path) /\ Len(path) \in Nat
  BY DEF PlanTypeOK
<1>7. /\ Len(path') = Len(path) + 1 /\ DOMAIN path' = 1..Len(path) + 1
      /\ path'[Len(path) + 1] = n /\ \A i \in 1..Len(path) : path'[i] = path[i]
  BY <1>3, <1>6
<1>8. \A i \in 1..Len(path) : path[i] \in Ids /\ path[i] # n
  BY <1>1, <1>6 DEF PathInv
<1>9. /\ todo'[n] = Dependencies(n) \cap Ids
      /\ \A m \in Ids \ {n} :
           \/ todo'[m] = todo[m]
           \/ path # <<>> /\ m = path[Len(path)] /\ todo'[m] = todo[m] \ {n}
      /\ path # <<>> => n \in Dependencies(path[Len(path)])
  <2>1. CASE SearchFrom(n)
    BY <2>1 DEF SearchFrom, PlanTypeOK
  <2>2. CASE VisitWhite(n)
    <3>1. path # <<>> /\ Len(path) \in 1..Len(path) /\ Current = path[Len(path)]
      BY <2>2, <1>6 DEF VisitWhite, Searching, Current
    <3>2. Current \in Ids /\ Current # n /\ n \in todo[Current]
      BY <2>2, <1>8, <3>1 DEF VisitWhite
    <3>3. todo' = [todo EXCEPT ![Current] = @ \ {n}, ![n] = Dependencies(n) \cap Ids]
      BY <2>2 DEF VisitWhite
    <3>4. todo \in [Ids -> SUBSET Ids]
      BY DEF PlanTypeOK
    <3>5. todo'[n] = Dependencies(n) \cap Ids /\ todo'[Current] = todo[Current] \ {n}
      BY <3>2, <3>3, <3>4
    <3>6. \A m \in Ids \ {n, Current} : todo'[m] = todo[m]
      BY <3>2, <3>3, <3>4
    <3>7. n \in Dependencies(Current)
      BY <3>2 DEF PathInv
    <3> QED
      BY <3>1, <3>5, <3>6, <3>7
  <2> QED
    BY <2>1, <2>2
<1>10. PathInv'
  <2>1. \A m \in Ids : todo'[m] \subseteq Dependencies(m)
    BY <1>9 DEF PathInv
  <2>2. \A i \in DOMAIN path' : color'[path'[i]] = "GRAY"
    BY <1>3, <1>6, <1>7, <1>8 DEF PathInv, PlanTypeOK
  <2>3. \A i, j \in DOMAIN path' : path'[i] = path'[j] => i = j
    BY <1>6, <1>7, <1>8 DEF PathInv
  <2>4. \A i, j \in DOMAIN path' : j = i + 1 => path'[j] \in Dependencies(path'[i])
    <3> SUFFICES ASSUME NEW i \in 1..Len(path) PROVE path'[i + 1] \in Dependencies(path[i])
      <4>1. ASSUME NEW i \in DOMAIN path', NEW j \in DOMAIN path', j = i + 1
            PROVE  i \in 1..Len(path) /\ path'[i] = path[i]
        BY <4>1, <1>6, <1>7
      <4> QED
        BY <4>1
    <3>1. CASE i = Len(path)
      <4>1. path # <<>>
        BY <3>1, <1>6
      <4> QED
        BY <3>1, <4>1, <1>7, <1>9
    <3>2. CASE i < Len(path)
      BY <3>2, <1>6, <1>7 DEF PathInv
    <3>3. i \in 1..Len(path) /\ Len(path) \in Nat
      BY <1>6
    <3>4. i = Len(path) \/ i < Len(path)
      BY <3>3
    <3> QED
      BY <3>1, <3>2, <3>4
  <2>5. ASSUME NEW i \in DOMAIN path', NEW d \in Dependencies(path'[i]) \cap Ids
        PROVE  d \in todo'[path'[i]] \/ d \in Black \/ (i < Len(path') /\ d = path'[i + 1])
    <3>1. CASE i = Len(path) + 1
      BY <3>1, <1>7, <1>9
    <3>2. CASE i \in 1..Len(path)
      <4>1. path'[i] = path[i] /\ path[i] \in Ids \ {n}
        BY <3>2, <1>7, <1>8
      <4>2. d \in todo[path[i]] \/ d \in Black \/ (i < Len(path) /\ d = path[i + 1])
        BY <3>2, <1>6, <4>1 DEF PathInv, Explored
      <4>3. CASE i < Len(path)
        <5>1. path[i] # path[Len(path)] /\ path'[i + 1] = path[i + 1] /\ i < Len(path')
          BY <4>3, <3>2, <1>6, <1>7 DEF PathInv
        <5>2. todo'[path[i]] = todo[path[i]]
          BY <5>1, <4>1, <1>9
        <5> QED
          BY <4>1, <4>2, <5>1, <5>2
      <4>4. CASE i = Len(path)
        <5>1. path'[i + 1] = n /\ i < Len(path')
          BY <4>4, <1>6, <1>7
        <5>2. d \in todo[path[i]] => d = n \/ d \in todo'[path[i]]
          BY <4>1, <1>9
        <5> QED
          BY <4>1, <4>2, <4>4, <1>6, <5>1, <5>2
      <4> QED
        BY <3>2, <4>3, <4>4, <1>6
    <3> QED
      BY <3>1, <3>2, <1>6, <1>7
  <2> QED
    BY <2>1, <2>2, <2>3, <2>4, <2>5, <1>2, <1>4 DEF PathInv, Explored
<1>11. ErrorInv'
  <2>1. ASSUME NEW m \in Ids, color'[m] = "GRAY", ~errors
        PROVE  \E i \in DOMAIN path' : path'[i] = m
    <3>1. CASE m = n
      BY <3>1, <1>6, <1>7
    <3>2. CASE m # n
      <4>1. color[m] = "GRAY"
        BY <2>1, <3>2, <1>3 DEF PlanTypeOK
      <4>2. PICK i \in DOMAIN path : path[i] = m
        BY <2>1, <4>1 DEF ErrorInv, OnPath
      <4> QED
        BY <4>2, <1>6, <1>7
    <3> QED
      BY <3>1, <3>2
  <2> QED
    BY <2>1, <1>1, <1>2 DEF ErrorInv, OnPath
<1> QED
  BY <1>5, <1>10, <1>11

\* A BLACK dependency is passed over.
LEMMA BlackStep ==
  ASSUME PlanTypeOK, PathInv, BlackInv, ErrorInv, NEW d, VisitBlack(d)
  PROVE  PathInv' /\ BlackInv' /\ ErrorInv'
<1>1. plan' = plan /\ errors' = errors /\ color' = color /\ path' = path
  BY DEF VisitBlack
<1>2. /\ Ids' = Ids /\ \A m : Dependencies(m)' = Dependencies(m)
      /\ Acyclic' = Acyclic /\ StructureOK(plan)' = StructureOK(plan)
  BY <1>1, SamePlan
<1>3. Black' = Black
  BY <1>1, <1>2 DEF Black
<1>4. BlackInv' /\ ErrorInv'
  BY <1>1, <1>2, <1>3 DEF BlackInv, ErrorInv, OnPath
<1>5. Current \in Ids /\ d \in Black
  BY CurrentStep DEF VisitBlack, Black
<1>6. \A m \in Ids : todo'[m] \subseteq todo[m] /\ todo[m] \ {d} \subseteq todo'[m]
  <2>1. todo' = [todo EXCEPT ![Current] = @ \ {d}] /\ todo \in [Ids -> SUBSET Ids]
    BY DEF VisitBlack, PlanTypeOK
  <2> QED
    BY <1>5, <2>1
<1>7. \A i \in DOMAIN path : path[i] \in Ids
  BY DEF PlanTypeOK
<1>8. \A i \in DOMAIN path : Explored(i)'
  BY <1>1, <1>2, <1>3, <1>5, <1>6, <1>7 DEF PathInv, Explored
<1>9. PathInv'
  BY <1>1, <1>2, <1>6, <1>8 DEF PathInv
<1> QED
  BY <1>4, <1>9

\* A GRAY dependency on the path closes a cycle: no step of the path from it on has
\* all its dependencies outside that part.
LEMMA GrayStep ==
  ASSUME PlanTypeOK, PathInv, BlackInv, ErrorInv, NEW d, VisitGray(d)
  PROVE  PathInv' /\ BlackInv' /\ ErrorInv'
<1>1. plan' = plan /\ errors' = TRUE /\ color' = color /\ todo' = todo /\ path' = <<>>
  BY DEF VisitGray
<1>2. /\ Ids' = Ids /\ \A m : Dependencies(m)' = Dependencies(m)
      /\ Acyclic' = Acyclic /\ StructureOK(plan)' = StructureOK(plan)
  BY <1>1, SamePlan
<1>3. Black' = Black
  BY <1>1, <1>2 DEF Black
<1>4. BlackInv'
  BY <1>2, <1>3 DEF BlackInv
<1>5. PathInv'
  BY <1>1, <1>2 DEF PathInv
<1>6. Len(path) \in Nat \ {0} /\ DOMAIN path = 1..Len(path) /\ path \in Seq(Ids)
  BY CurrentStep DEF VisitGray, PlanTypeOK
<1>7. PICK j \in 1..Len(path) : path[j] = d
  BY <1>6 DEF VisitGray, OnPath
<1>8. d \in Dependencies(path[Len(path)])
  BY CurrentStep DEF VisitGray, Current, PathInv
<1> DEFINE S == {path[k] : k \in j..Len(path)}
<1>9. S \subseteq Ids /\ d \in S
  BY <1>6, <1>7
<1>10. ASSUME NEW k \in j..Len(path) PROVE Dependencies(path[k]) \cap S # {}
  <2>1. CASE k = Len(path)
    BY <2>1, <1>8, <1>9
  <2>2. CASE k < Len(path)
    <3>1. k + 1 \in j..Len(path) /\ k \in DOMAIN path /\ k + 1 \in DOMAIN path
      BY <2>2, <1>6, <1>7
    <3>2. path[k + 1] \in Dependencies(path[k])
      BY <3>1 DEF PathInv
    <3> QED
      BY <3>1, <3>2
  <2>3. k = Len(path) \/ k < Len(path)
    <3>1. k \in j..Len(path) /\ j \in 1..Len(path) /\ Len(path) \in Nat
      BY <1>6
    <3> QED
      BY <3>1
  <2> QED
    BY <2>1, <2>2, <2>3
<1>11. ~Acyclic
  <2>1. S \in (SUBSET Ids) \ {{}}
    BY <1>9
  <2>2. \A n \in S : Dependencies(n) \cap S # {}
    BY <1>10
  <2> HIDE DEF S
  <2> QED
    BY <2>1, <2>2 DEF Acyclic
<1>12. ErrorInv'
  BY <1>1, <1>2, <1>11 DEF ErrorInv
<1> QED
  BY <1>4, <1>5, <1>12

\* A step whose dependencies are all BLACK becomes BLACK: no BLACK step depends on it,
\* so every set it joins still has a step that depends on none of the set.
LEMMA LeavingStep ==
  ASSUME PlanTypeOK, PathInv, BlackInv, ErrorInv, LeaveStep
  PROVE  PathInv' /\ BlackInv' /\ ErrorInv'
<1> DEFINE c == path[Len(path)]
           len == Len(path)
<1>1. plan' = plan /\ errors' = errors /\ todo' = todo
  BY DEF LeaveStep
<1>2. /\ Ids' = Ids /\ \A m : Dependencies(m)' = Dependencies(m)
      /\ Acyclic' = Acyclic /\ StructureOK(plan)' = StructureOK(plan)
  BY <1>1, SamePlan
<1>3. len \in Nat \ {0} /\ DOMAIN path = 1..len /\ path \in Seq(Ids) /\ c \in Ids /\ todo[c] = {}
  BY CurrentStep DEF LeaveStep, PlanTypeOK, Current
<1>4. color' = [color EXCEPT ![c] = "BLACK"] /\ color[c] = "GRAY"
  BY <1>3 DEF LeaveStep, Current, PathInv
<1>5. /\ DOMAIN path' = 1..len - 1 /\ Len(path') = len - 1
      /\ \A i \in 1..len - 1 : path'[i] = path[i]
  <2>1. path' = SubSeq(path, 1, len - 1)
    BY DEF LeaveStep
  <2> QED
    BY <1>3, <2>1, SubSeqProperties
<1>6. \A i \in 1..len - 1 : path[i] \in Ids /\ path[i] # c
  BY <1>3 DEF PathInv
<1>7. Black' = Black \cup {c} /\ c \notin Black
  BY <1>2, <1>3, <1>4 DEF Black, PlanTypeOK
<1>8. Dependencies(c) \cap Ids \subseteq Black
  <2>1. Explored(len)
    BY <1>3 DEF PathInv
  <2> QED
    BY <1>3, <2>1 DEF Explored
<1> HIDE DEF c, len
<1>9. BlackInv'
  <2>1. \A n \in Black \cup {c} : Dependencies(n) \cap Ids \subseteq Black
    BY <1>8 DEF BlackInv
  <2>2. ASSUME NEW S \in (SUBSET (Black \cup {c})) \ {{}}
        PROVE  \E n \in S : Dependencies(n) \cap S = {}
    <3>1. S \subseteq Ids
      BY <1>3 DEF Black
    <3>2. CASE S \subseteq {c}
      BY <3>1, <3>2, <1>7, <1>8
    <3>3. CASE S \cap Black # {}
      <4>1. S \cap Black \in (SUBSET Black) \ {{}}
        BY <3>3
      <4>2. PICK n \in S \cap Black : Dependencies(n) \cap (S \cap Black) = {}
        BY <4>1 DEF BlackInv
      <4> QED
        BY <4>2, <2>1, <3>1
    <3> QED
      BY <3>2, <3>3
  <2> QED
    BY <1>2, <1>7, <2>1, <2>2 DEF BlackInv
<1>10. PathInv'
  <2>1. \A i \in DOMAIN path' : color'[path'[i]] = "GRAY"
    BY <1>3, <1>4, <1>5, <1>6 DEF PathInv, PlanTypeOK
  <2>2. \A i, j \in DOMAIN path' : path'[i] = path'[j] => i = j
    BY <1>3, <1>5 DEF PathInv
  <2>3. \A i, j \in DOMAIN path' : j = i + 1 => path'[j] \in Dependencies(path'[i])
    BY <1>3, <1>5 DEF PathInv
  <2>4. ASSUME NEW i \in 1..len - 1, NEW d \in Dependencies(path[i]) \cap Ids
        PROVE  d \in todo[path[i]] \/ d \in Black \cup {c} \/ (i < len - 1 /\ d = path'[i + 1])
    <3>1. d \in todo[path[i]] \/ d \in Black \/ (i < len /\ d = path[i + 1])
      BY <1>3 DEF PathInv, Explored, len
    <3>2. CASE i = len - 1
      BY <3>1, <3>2, <1>3 DEF c, len
    <3>3. CASE i < len - 1
      BY <3>1, <3>3, <1>3, <1>5
    <3>4. i = len - 1 \/ i < len - 1
      BY <1>3
    <3> QED
      BY <3>2, <3>3, <3>4
  <2>5. \A m \in Ids : todo[m] \subseteq Dependencies(m)
    BY DEF PathInv
  <2>6. \A i \in DOMAIN path' : Explored(i)'
    BY <2>4, <1>1, <1>2, <1>5, <1>7 DEF Explored
  <2> QED
    BY <2>1, <2>2, <2>3, <2>5, <2>6, <1>1, <1>2 DEF PathInv
<1>11. ErrorInv'
  <2>1. ASSUME NEW m \in Ids, color'[m] = "GRAY", ~errors
        PROVE  \E i \in DOMAIN path' : path'[i] = m
    <3>1. m # c /\ color[m] = "GRAY"
      BY <2>1, <1>3, <1>4 DEF PlanTypeOK
    <3>2. PICK i \in 1..len : path[i] = m
      BY <2>1, <3>1, <1>3 DEF ErrorInv, OnPath
    <3>3. i \in 1..len - 1
      BY <3>1, <3>2, <1>3 DEF c, len
    <3> QED
      BY <3>2, <3>3, <1>5
  <2> QED
    BY <2>1, <1>1, <1>2 DEF ErrorInv, OnPath
<1> QED
  BY <1>9, <1>10, <1>11

\* SearchInv is established with every new plan and kept by every step of the search.
LEMMA SearchInvStep ==
  ASSUME PlanInv, PlanMove
  PROVE  SearchInv'
<1>1. CASE GeneratePlan
  <2>1. /\ path' = <<>> /\ color' = [n \in Ids' |-> "WHITE"] /\ todo' = [n \in Ids' |-> {}]
        /\ errors' = ~StructureOK(plan')
    BY <1>1 DEF GeneratePlan
  <2>2. PathInv'
    BY <2>1 DEF PathInv
  <2>3. Black' = {}
    BY <2>1 DEF Black
  <2>4. BlackInv'
    BY <2>3 DEF BlackInv
  <2>5. \A n \in Ids' : color'[n] # "GRAY"
    BY <2>1
  <2>6. ErrorInv'
    BY <2>1, <2>5 DEF ErrorInv
  <2> QED
    BY <2>2, <2>4, <2>6 DEF SearchInv
<1>2. CASE LosesPlan
  BY <1>2, LostAttempt DEF PlanInv, SearchInv
<1>3. CASE GiveUp \/ AcceptPlan \/ LoopStep
  <2>1. phase' # "validate"
    BY <1>3 DEF GiveUp, AcceptPlan, LoopStep, StepFails, StepPasses, CriterionUnmet, VerifyRaises, RetryStep,
                Complete, AtStep
  <2> QED
    BY <2>1 DEF SearchInv
<1>4. CASE SearchStep
  <2>1. phase = "validate"
    BY <1>4 DEF SearchStep, SearchFrom, VisitWhite, VisitBlack, VisitGray, LeaveStep, Searching
  <2>2. PlanTypeOK /\ PathInv /\ BlackInv /\ ErrorInv
    BY <2>1 DEF PlanInv, SearchInv
  <2>3. ASSUME NEW n \in StepIds, SearchFrom(n) \/ VisitWhite(n)
        PROVE  PathInv' /\ BlackInv' /\ ErrorInv'
    <3>1. n \in Ids
      BY <2>2, <2>3, CurrentStep DEF SearchFrom, VisitWhite
    <3> QED
      BY <2>2, <2>3, <3>1, EnterStep
  <2>4. PathInv' /\ BlackInv' /\ ErrorInv'
    BY <1>4, <2>2, <2>3, BlackStep, GrayStep, LeavingStep DEF SearchStep
  <2> QED
    BY <2>4 DEF SearchInv
<1> QED
  BY <1>1, <1>2, <1>3, <1>4, MoveKinds

\* PlanInv holds before the first attempt and is preserved by the steps of the route.
LEMMA PlanInvInit ==
  ASSUME PlanInit
  PROVE  PlanInv
<1>1. Steps = {} /\ Ids = {}
  BY DEF PlanInit, Steps, Ids, NoPlan
<1>2. \A S : <<>> \in [{} -> S] /\ <<>> \in Seq(S)
  OBVIOUS
<1>3. PlanTypeOK
  <2>1. /\ color \in [Ids -> {"WHITE", "GRAY", "BLACK"}] /\ path \in Seq(Ids)
        /\ todo \in [Ids -> SUBSET Ids]
    BY <1>1, <1>2 DEF PlanInit
  <2>2. calls \in [Steps -> Nat] /\ result \in [Steps -> {"none", "success", "failure"}]
    BY <1>1, <1>2 DEF PlanInit
  <2>3. attempt \in 0..MaxRetries /\ idx \in Nat
    BY PlanAssumption DEF PlanInit
  <2>4. phase = "generate" /\ plan = NoPlan /\ policy \in Policies /\ errors = FALSE
    BY DEF PlanInit
  <2> QED
    BY <2>1, <2>2, <2>3, <2>4 DEF PlanTypeOK
<1>4. SearchInv /\ AttemptInv /\ RunInv
  BY <1>1 DEF PlanInit, SearchInv, AttemptInv, RunInv
<1> QED
  BY <1>3, <1>4 DEF PlanInv

LEMMA PlanInvStep ==
  ASSUME PlanInv, PlanMove
  PROVE  PlanInv'
BY PlanTypeStep, SearchInvStep, AttemptStep, RunStep DEF PlanInv

\* The same holds when another part of the request makes a step.
LEMMA PlanInvStutter ==
  ASSUME PlanInv, UNCHANGED planVars
  PROVE  PlanInv'
<1> USE DEF planVars, searchVars, runVars
<1>1. /\ Steps' = Steps /\ Ids' = Ids /\ \A n : Dependencies(n)' = Dependencies(n)
      /\ Acyclic' = Acyclic /\ StructureOK(plan)' = StructureOK(plan)
      /\ \A i : Callable(i)' = Callable(i)
  BY SamePlan, SameCallable
<1>2. PlanTypeOK'
  BY <1>1 DEF PlanInv, PlanTypeOK
<1>3. Black' = Black
  BY <1>1 DEF Black
<1>4. SearchInv'
  BY <1>1, <1>3 DEF PlanInv, SearchInv, PathInv, Explored, BlackInv, ErrorInv, OnPath
<1>5. AttemptInv'
  BY DEF PlanInv, AttemptInv
<1>6. RunInv'
  BY <1>1 DEF PlanInv, RunInv, CallsOf
<1> QED
  BY <1>2, <1>4, <1>5, <1>6 DEF PlanInv

-----------------------------------------------------------------------------
(* What the invariant says                                                 *)

\* A step that ends validation accepts exactly the plans that are well formed and
\* without a cycle.
LEMMA VerdictIsExact ==
  ASSUME PlanInv, PlanMove, phase = "validate"
  PROVE  /\ phase' = "run" => StructureOK(plan) /\ Acyclic
         /\ phase' = "generate" => ~(StructureOK(plan) /\ Acyclic)
<1>1. PlanTypeOK /\ PathInv /\ BlackInv /\ ErrorInv
  BY DEF PlanInv, SearchInv
<1>2. CASE AcceptPlan
  <2>1. ~errors /\ path = <<>> /\ \A n \in Ids : color[n] # "WHITE"
    BY <1>2 DEF AcceptPlan, VerdictReached
  <2>2. \A n \in Ids : ~OnPath(n)
    BY <2>1 DEF OnPath
  <2>3. Black = Ids
    BY <1>1, <2>1, <2>2 DEF ErrorInv, Black, PlanTypeOK
  <2>4. Acyclic
    BY <1>1, <2>3 DEF BlackInv, Acyclic
  <2> QED
    BY <1>1, <1>2, <2>1, <2>4 DEF ErrorInv, AcceptPlan
<1>3. CASE LosesPlan
  <2>1. phase' = "generate"
    BY <1>3, LostAttempt DEF PlanInv
  <2>2. errors
    BY <1>1, <1>3, CurrentStep DEF LosesPlan, GenerationFails, RejectPlan, LookupRaises, ErrorInv
  <2> QED
    BY <1>1, <2>1, <2>2 DEF ErrorInv
<1>4. CASE SearchStep
  BY <1>4 DEF SearchStep, SearchFrom, VisitWhite, VisitBlack, VisitGray, LeaveStep
<1> QED
  BY <1>2, <1>3, <1>4, MoveKinds
     DEF GeneratePlan, GiveUp, LoopStep, StepFails, StepPasses, CriterionUnmet, VerifyRaises, RetryStep,
         Complete, AtStep

\* A later step is only called when every earlier one was called and succeeded at least once.
LEMMA LoopStopsAtFailure ==
  ASSUME PlanInv
  PROVE  FailureStopsPlan
<1>1. Steps \subseteq Nat /\ idx \in Nat /\ \A i \in Steps : calls[i] \in Nat /\ CallsOf(i)
  BY PlanShape DEF PlanInv, PlanTypeOK, RunInv
<1>2. ASSUME NEW i \in Steps PROVE calls[i] <= 2
  BY <1>1 DEF CallsOf
<1>3. ASSUME NEW i \in Steps, NEW j \in Steps, i < j, calls[j] > 0
      PROVE  calls[i] > 0 /\ (result[i] = "failure" => calls[i] = 2)
  <2>1. j <= idx
    BY <1>1, <1>3 DEF CallsOf
  <2>2. i < idx
    BY <1>1, <1>3, <2>1
  <2> QED
    BY <1>1, <2>2 DEF CallsOf
<1> QED
  BY <1>2, <1>3 DEF FailureStopsPlan

-----------------------------------------------------------------------------
(* The planner route only moves forward                                    *)

White == {n \in Ids : color[n] = "WHITE"}

\* A step of the search paints a white step, or shortens the stack, or takes a
\* dependency off the list of the step on top of it.
SearchForward ==
  /\ plan' = plan
  /\ \/ White' \subseteq White /\ White' # White
     \/ White' = White /\ Len(path') < Len(path)
     \/ /\ White' = White /\ path' = path
        /\ todo'[Current] \subseteq todo[Current] /\ todo'[Current] # todo[Current]

PhaseRank(p) ==
  CASE p = "generate" -> 0
    [] p = "validate" -> 1
    [] p \in {"run", "retry"} -> 2
    [] p \in {"rejected", "stopped", "completed", "raised"} -> 3

\* A step of the loop goes on to the next step of the plan, or repeats one once.
LoopForward ==
  /\ plan' = plan /\ idx \in Steps
  /\ \/ phase \in {"run", "retry"} /\ phase' = "run" /\ idx' = idx + 1
     \/ phase = "run" /\ phase' = "retry" /\ idx' = idx

\* Attempts are counted up to the limit, an attempt goes through its phases in order,
\* and within a phase the search or the loop goes forward.
PlanForward ==
  \/ attempt' = attempt + 1 /\ attempt' <= MaxRetries
  \/ /\ attempt' = attempt
     /\ \/ PhaseRank(phase) < PhaseRank(phase')
        \/ phase = "validate" /\ phase' = "validate" /\ SearchForward
        \/ LoopForward

\* Every step of the search is a step forward, whatever the order of the visits.
LEMMA SearchMovesForward ==
  ASSUME PlanTypeOK, SearchStep
  PROVE  SearchForward /\ phase = "validate" /\ UNCHANGED <<phase, attempt>>
<1>0. color \in [Ids -> {"WHITE", "GRAY", "BLACK"}] /\ path \in Seq(Ids) /\ todo \in [Ids -> SUBSET Ids]
  BY DEF PlanTypeOK
<1>1. plan' = plan /\ phase = "validate" /\ UNCHANGED <<phase, attempt>>
  BY DEF SearchStep, SearchFrom, VisitWhite, VisitBlack, VisitGray, LeaveStep, Searching
<1>2. Ids' = Ids
  BY <1>1, SamePlan
<1>3. ASSUME NEW n \in Ids, color[n] = "WHITE", Enter(n) PROVE White' \subseteq White /\ White' # White
  <2>1. color' = [color EXCEPT ![n] = "GRAY"]
    BY <1>3 DEF Enter
  <2>2. n \in White /\ n \notin White'
    BY <1>0, <1>2, <1>3, <2>1 DEF White
  <2>3. White' \subseteq White
    BY <1>0, <1>2, <2>1 DEF White
  <2> QED
    BY <2>2, <2>3
<1>4. ASSUME NEW n \in StepIds, SearchFrom(n) PROVE SearchForward
  BY <1>1, <1>3, <1>4 DEF SearchFrom, SearchForward
<1>5. ASSUME NEW n \in StepIds, VisitWhite(n) PROVE SearchForward
  <2>1. n \in Ids
    BY <1>5, CurrentStep DEF VisitWhite
  <2> QED
    BY <1>1, <1>3, <1>5, <2>1 DEF VisitWhite, SearchForward
<1>6. ASSUME NEW n \in StepIds, VisitBlack(n) PROVE SearchForward
  <2>1. White' = White /\ path' = path
    BY <1>2, <1>6 DEF VisitBlack, White
  <2>2. Current \in Ids /\ n \in todo[Current] /\ todo' = [todo EXCEPT ![Current] = todo[Current] \ {n}]
    BY <1>6, CurrentStep DEF VisitBlack
  <2>3. todo'[Current] = todo[Current] \ {n}
    BY <1>0, <2>2
  <2> QED
    BY <1>1, <2>1, <2>2, <2>3 DEF SearchForward
<1>7. ASSUME NEW n \in StepIds, VisitGray(n) PROVE SearchForward
  <2>1. White' = White /\ path' = <<>>
    BY <1>2, <1>7 DEF VisitGray, White
  <2>2. Len(path) \in Nat \ {0}
    BY <1>7, CurrentStep DEF VisitGray
  <2>3. Len(path') < Len(path)
    BY <2>1, <2>2
  <2> QED
    BY <1>1, <2>1, <2>3 DEF SearchForward
<1>8. CASE LeaveStep
  <2>1. /\ color' = [color EXCEPT ![Current] = "BLACK"]
        /\ path' = SubSeq(path, 1, Len(path) - 1)
        /\ Current \in Ids /\ Len(path) \in Nat \ {0}
    BY <1>8, CurrentStep DEF LeaveStep
  <2>2. White' \subseteq White
    BY <1>0, <1>2, <2>1 DEF White
  <2>3. Len(path') < Len(path)
    BY <1>0, <2>1
  <2> QED
    BY <1>1, <2>2, <2>3 DEF SearchForward
<1> QED
  BY <1>1, <1>4, <1>5, <1>6, <1>7, <1>8 DEF SearchStep

\* Every step of the planner route is a step forward.
LEMMA PlanMovesForward ==
  ASSUME PlanInv, PlanMove
  PROVE  PlanForward
<1>0. PlanTypeOK /\ AttemptInv /\ RunInv
  BY DEF PlanInv
<1>1. CASE GeneratePlan
  BY <1>1 DEF GeneratePlan, PlanForward, PhaseRank
<1>2. CASE LosesPlan
  BY <1>0, <1>2, LostAttempt DEF PlanForward
<1>3. CASE GiveUp
  BY <1>3 DEF GiveUp, PlanForward, PhaseRank
<1>4. CASE SearchStep
  BY <1>0, <1>4, SearchMovesForward DEF PlanForward
<1>5. CASE AcceptPlan
  BY <1>5 DEF AcceptPlan, VerdictReached, PlanForward, PhaseRank
<1>6. CASE LoopStep
  <2>1. ASSUME NEW i \in 1..MaxSteps, StepFails(i) PROVE PlanForward
    BY <2>1 DEF StepFails, AtStep, PlanForward, PhaseRank
  <2>2. ASSUME NEW i \in 1..MaxSteps, StepPasses(i) \/ CriterionUnmet(i) PROVE PlanForward
    BY <2>2 DEF StepPasses, CriterionUnmet, AtStep, PlanForward, LoopForward
  <2>3. CASE RetryStep
    BY <1>0, <2>3 DEF RetryStep, RunInv, PlanForward, LoopForward
  <2>4. CASE Complete
    BY <2>4 DEF Complete, PlanForward, PhaseRank
  <2>5. ASSUME NEW i \in 1..MaxSteps, VerifyRaises(i) PROVE PlanForward
    BY <2>5 DEF VerifyRaises, PlanForward, PhaseRank
  <2> QED
    BY <1>6, <2>1, <2>2, <2>3, <2>4, <2>5 DEF LoopStep
<1> QED
  BY <1>1, <1>2, <1>3, <1>4, <1>5, <1>6, MoveKinds

=============================================================================
