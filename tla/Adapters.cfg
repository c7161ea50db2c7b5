\* Requests of a Kiwoom account and of a Toss account, and every way the pages of an
\* answer may be cut.  Clients may stop asking, and an answer that is given is the end.
SPECIFICATION Spec
CONSTANTS
  Requests = {r1, r2}
  Numbers = {n1, n2, n3}
  None = None
  Limit = 2
  Shares = 2
  Worlds <- OneHazardEach
  OrderIds = {n1, n2, n3}
  NoId = NoId
  Base = 2
  Numerals = {1, 3}
  MaxScale = 1
  MaxInt = 2
  Days = 6
  PageRows = 2
  MaxPages = 4
  MaxRows = 5
  DefaultLimit = 3
  PeriodOf <- Weeks
  Listings <- AllListings
SYMMETRY Symmetry
VIEW AnswersOfGetOrder
INVARIANTS TypeOK CancelledIsGone FilledHasEnded OpenOrderIsFound TossAnswerIsTrue AnswerIsWhole
CHECK_DEADLOCK FALSE
