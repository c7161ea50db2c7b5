SPECIFICATION Spec
CONSTANTS
  Requests = {r1}
  Numbers = {n1, n2, n3}
  None = None
  Limit = 2
  Worlds <- OneAtATime
SYMMETRY Symmetry
INVARIANTS FilledAnswerIsTrue
