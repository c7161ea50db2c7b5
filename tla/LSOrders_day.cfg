SPECIFICATION Spec
CONSTANTS
  Requests = {r1, r2}
  Numbers = {n1, n2, n3}
  Creds = {k1, k2}
  None = None
  Limit = 2
  Worlds <- OneHazardEach
SYMMETRY Symmetry
INVARIANTS TypeOK CallsOwnOrders AskedIsThere ToldIsKept FinalStatusIsTrue
