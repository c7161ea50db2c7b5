SPECIFICATION FairSpec
CONSTANTS
  k1 = k1
  k2 = k2
  c1 = c1
  c2 = c2
  None = None
  Keys = {k1, k2}
  Flights = {f1, f2, f3, f4, f5}
  Clients = {c1, c2}
  Requests = {r1, r2}
  AuthKeys <- SharedAndSwitched
  Selected = {c1}
  Mortal = {f1}
  Revocable = {}
  RecheckAfterWait = TRUE
  BrokerMayFail = TRUE
  GrantedAges = {"fresh"}
  Loaded = {f1}
INVARIANTS TypeOK TokenOfSelectedKey LoginFailsOnlyWithBroker
PROPERTIES AsksOnceAtATime EveryRequestReturns
CHECK_DEADLOCK FALSE
