\* One write, approved once: is it sent once?
SPECIFICATION SysSpec
CONSTANTS
  a = a
  b = b
  c = c
  Sessions = {s1}
  ToolIds = {a, b, c}
  NoId = NoId
  Deadlined = {}
  Actors = {alice}
  NoActor = NoActor
  Requests = {r1}
  Drivers = {g1, r1}
  PriorStatuses <- NoPrior
  Messages <- OneWrite
  Policies <- Suspending
  MaxAgentSteps = 2
INVARIANTS
  NoDoubleExecution
CHECK_DEADLOCK FALSE
