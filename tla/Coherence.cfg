SPECIFICATION Spec
CONSTANTS
  L1s = {1, 2}
  Inner = {3, 4, 5}
  Parent <- PrivateL2s
  Ways <- PrivateL2sWays
  Lines = {la, lb}
  Mem = Mem
  Core = Core
  NoLine = NoLine
  MaxAccesses = 1
SYMMETRY LineSymmetry
INVARIANTS
  Coherent
  FilterBacked
  DirtyKept
  NoAssertFails
  NobodyStuck
