\* Two /agent requests on one conversation that may propose different writes, undisturbed,
\* under either policy.
SPECIFICATION SysLiveSpec
CONSTANTS
  a = a
  b = b
  c = c
  Sessions = {s1}
  ToolIds = {a, b, c}
  NoId = NoId
  Deadlined = {}
  Actors = {alice}
  NoActor = NoActor
  Requests = {r1}
  Drivers = {g1, g2, r1}
  PriorStatuses <- NoPrior
  Messages <- DifferentWrites
  Policies <- EitherPolicy
  MaxAgentSteps = 2
INVARIANTS
  ApprovedArguments
PROPERTIES
  RunsEnd
  ApprovedSessionSettles
CHECK_DEADLOCK FALSE
