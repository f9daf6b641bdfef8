\* Two keys, one caller, a cache of two ticks and a window of three.
SPECIFICATION EdgeSpec
CONSTANTS
  k1 = k1
  k2 = k2
  Keys = {k1, k2}
  NoKid = NoKid
  Tokens <- AllTokens
  TTL = 2
  Callers = {a}
  MaxRequests = 2
  Window = 3
INVARIANTS
  WithdrawalTakesEffect
  WithinLimit
PROPERTIES
  PublishedKeyIsLearnt
  LimitIsLifted
