\* The table grows inside an operation, under two limits, and the cache after
\* it.
CONSTANTS
  VarNum = 2
  InitSize = 7
  MaxRef = 2
  HashNode <- MCHash
  MaxNodeNums = {8, 11}
  MaxIncreases = {50}
  MinFrees = {20}
  SlotBound = 11
  StackBound = 4
  Atoms = {2, 4}
  HeldBound = 1
  HeldNodes = 1
  Operators = {"xor", "not"}
  CacheSize = 1
  CacheRatios = {3}
  ApplyHash <- MCApplyHash
SPECIFICATION ApplySpec
INVARIANTS CacheSound RecursionBounded UniqueTable FreeListExact IInv
PROPERTIES ResultRight ImplementsNodeTable ExhaustedOnlyWhenFull
