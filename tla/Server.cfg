\* The server's requests, the answers it keeps and the index it rebuilds.  Callers may
\* stop asking and files may stop being published.
SPECIFICATION Spec
CONSTANTS
  Callers = {c1, c2}
  NoCaller = NoCaller
  Asks <- AccountsAndPaths
  SoftTTL <- TTLs
  Retention = 1
  Capacity = 1
  Special = {"price"}
  Burst = 1
  Latest = 4
  EightDigits = {"8"}
  TenDigits = {"10"}
  Products = {"01", "22"}
  Configs <- UpToTwoAccounts
  Embedded <- SomeServed
  Requests <- AllRequests
  Documented <- Table
  Errors = {"symbol", "instrument not found", "server"}
  Builders = {g1, g2}
  Sources <- Files
  Listed <- SymbolsOf
  MarketNames <- AskedMarkets
  LastDay = 2
SYMMETRY Symmetry
INVARIANTS TypeOK ProxyAnswerIsCurrent RequestReachesItsAccount
PROPERTIES MasterNeverOlder
CHECK_DEADLOCK FALSE
