\* One conversation, one /agent request and two decisions on it.
SPECIFICATION SysSpec
SYMMETRY RequestSymmetry
CONSTANTS
  a = a
  b = b
  c = c
  Sessions = {s1}
  ToolIds = {a, b, c}
  NoId = NoId
  Deadlined = {}
  Actors = {alice}
  NoActor = NoActor
  Requests = {r1, r2}
  Drivers = {g1, r1, r2}
  PriorStatuses <- NoPrior
  Messages <- MixedCalls
  Policies <- Suspending
  MaxAgentSteps = 2
INVARIANTS
  SysTypeOK
  OnlyApprovedCallRuns
  AtMostTwice
  UnknownIsNotRetried
  ReadsOncePerRun
CHECK_DEADLOCK FALSE
