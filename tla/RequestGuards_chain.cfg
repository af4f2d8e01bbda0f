\* A request, its retry and another, under both orders of the middlewares.
CONSTANTS
  r1 = r1  r2 = r2  r3 = r3  k1 = k1  k2 = k2
  Request <- Requests
  Key <- Keys
  KeyOf <- RetriedOnce
  Chains <- BothOrders
SPECIFICATION Spec
INVARIANTS BarredNeverHandled InProcessHasCause
