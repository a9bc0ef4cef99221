SPECIFICATION Spec
CONSTANTS
  Callers = {c1, c2}
  s1 = s1
  s2 = s2
  Symbols <- MCSymbols
  Requests <- MCRequests
  Burst = 1
  Cost = 2
  Window = 3
  MaxConns = 2
INVARIANTS
  RateRespected
  SubscriptionsRestored
PROPERTY
  CallReturns
