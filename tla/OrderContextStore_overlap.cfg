SPECIFICATION StoreSpec
CONSTANTS
  Workers = {w1, w2}
  Orders = {o1, o2, o3}
  Inodes = {i1, i2, i3, i4}
  None = None
  Adapters = {"KIS", "Kiwoom"}
  MayOverlap = TRUE
  Limit = 2
  MaxVersion = 3
SYMMETRY StoreSymmetry
INVARIANTS FileIsWhole
