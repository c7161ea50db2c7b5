SPECIFICATION FilesSpec
CONSTANTS
  kis = kis
  kiwoom = kiwoom
  ls = ls
  toss = toss
  k1 = k1
  k2 = k2
  NoToken = NoToken
  BootOrder <- FourManagers
  Keys = {k1, k2}
  Owner <- LSAndKiwoom
  Tokens = {t1, t2, t3}
  Prefix <- Prefixes
  Buffer <- Buffers
  FullLife = 4
  Workers = {w1, w2}
  Orders = {o1, o2, o3}
  Inodes = {i1, i2, i3}
  None = None
  Adapters = {"LS", "KIS"}
  MayOverlap = FALSE
  Limit = 2
  MaxVersion = 4
SYMMETRY FilesSymmetry
INVARIANTS FilesTypeOK OnlyCurrentServed ServedAfterRestart FileIsWhole SavedWhenQuiet
PROPERTIES NoOlderContextOnDisk
