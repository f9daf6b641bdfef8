\* Any intent, any plan, either policy.
SPECIFICATION ServiceSpec
CONSTANTS
  Subjects = {alice}
  DefaultSubject = alice
  ProviderRetries = 1
  NoSubject = NoSubject
  Tools <- BankingTools
  OtherTools = {"no_such_tool"}
  StepIds = {1, 2, 3, 4}
  KindOf <- BankingKind
  Plans <- AllPlans
  Policies <- EitherPolicy
  MaxRetries = 2
  MaxSteps = 3
  MaxAgentSteps = 3
INVARIANTS
  ServiceTypeOK
  FailureStopsPlan
  IdentityIsInjected
  NoDeniedWrite
  PostsBounded
PROPERTIES
  ValidationExact
  RequestEnds
CHECK_DEADLOCK FALSE
