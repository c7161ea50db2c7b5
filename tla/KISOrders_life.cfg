SPECIFICATION Spec
CONSTANTS
  Requests = {r1, r2}
  Numbers = {n1, n2, n3}
  None = None
  Limit = 2
  Worlds <- OneHazardEach
SYMMETRY Symmetry
INVARIANTS TypeOK CancelledIsCancelled FilledIsFilled CancelledStays OpenOrderIsFound
