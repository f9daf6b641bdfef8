\* Two /agent requests on one conversation, proposing different writes.
SPECIFICATION SysSpec
CONSTANTS
  a = a
  b = b
  c = c
  Sessions = {s1}
  ToolIds = {a, b, c}
  NoId = NoId
  Deadlined = {}
  Actors = {alice}
  NoActor = NoActor
  Requests = {r1}
  Drivers = {g1, g2, r1}
  PriorStatuses <- NoPrior
  Messages <- EitherWrite
  Policies <- Suspending
  MaxAgentSteps = 2
INVARIANTS
  OnlyApprovedCallRuns
CHECK_DEADLOCK FALSE
