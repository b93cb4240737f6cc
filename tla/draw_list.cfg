\* Two growths of each array, and fills after a clear.
SPECIFICATION DrawListSpec
CONSTANTS
  Vertices = {v1, v2}
  Unset = unset
  Capacity = 1
  MaxNum = 4
INVARIANTS DrawListInv IndicesInRange
PROPERTY KeepsLines
