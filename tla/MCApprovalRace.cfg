\* Three concurrent decisions on one session with a deadline.
SPECIFICATION Spec
SYMMETRY RequestSymmetry
CONSTANTS
  Sessions = {s1}
  ToolIds = {t1}
  NoId = NoId
  Deadlined = {s1}
  Actors = {alice}
  NoActor = NoActor
  Requests = {r1, r2, r3}
  PriorStatuses <- AnyPrior
INVARIANTS
  AtMostOnceDispatch
  DispatchWasApproved
  RejectionWins
  SettlementAgrees
  TrailSound
PROPERTIES
  UnsettledNeverDispatched
  LateNeverClaimed
  DecisionsStand
  ImplementsSingleUseGrant
