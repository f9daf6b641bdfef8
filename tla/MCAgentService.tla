--------------------------- MODULE MCAgentService --------------------------
(***************************************************************************)
(* Small instances of AgentService for TLC: every dependency graph over    *)
(* three steps, and a plan for each thing that can be wrong with a step.   *)
(***************************************************************************)
EXTENDS AgentService

Step(n, tools, deps) == [id |-> n, candidates |-> tools, deps |-> deps]
Read(n, deps) == Step(n, <<"get_balance">>, deps)
Write(n, deps) == Step(n, <<"submit_transfer">>, deps)
Plain(steps) == [steps |-> steps, criteria |-> "none"]
Judged(steps) == [steps |-> steps, criteria |-> "strings"]
Odd(steps) == [steps |-> steps, criteria |-> "other"]

EitherPolicy == {ReadOnlyPolicy, RequireApprovalPolicy}

Graphs ==
  {Plain(<<Read(1, x), Read(2, y), Read(3, z)>>) : x, y, z \in SUBSET {1, 2, 3}}
Faulty ==
  {Plain(<<>>), Plain(<<Read(1, {4})>>), Plain(<<Read(1, {}), Read(1, {2}), Read(2, {1})>>),
   Plain(<<Step(1, <<"get_balance", "no_such_tool">>, {})>>),
   Plain(<<Read(1, {}), Read(2, {}), Read(3, {}), Read(4, {})>>)}
Runnable ==
  {Judged(<<Read(1, {}), Write(2, {1}), Read(3, {2})>>), Judged(<<Write(1, {2}), Read(2, {})>>),
   Plain(<<Read(1, {}), Step(2, <<>>, {}), Read(3, {})>>), Odd(<<Read(1, {}), Read(2, {1})>>)}
AllPlans == Graphs \cup Faulty \cup Runnable

=============================================================================
