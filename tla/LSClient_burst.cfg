SPECIFICATION Spec
CONSTANTS
  k1 = k1
  k2 = k2
  c1 = c1
  c2 = c2
  None = None
  Keys = {k1}
  Flights = {f1, f2, f3}
  Clients = {c1}
  Requests = {r1, r2, r3}
  AuthKeys <- OneKeyOneClient
  Selected = {}
  Mortal = {}
  Revocable = {f1, f2, f3}
  RecheckAfterWait = TRUE
  BrokerMayFail = FALSE
  GrantedAges = {"fresh"}
  Loaded = {}
SYMMETRY Symmetry
INVARIANTS BurstSharesOneTokenCall
CHECK_DEADLOCK FALSE
