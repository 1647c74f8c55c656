\* A diagram of five raw nodes in a table of seven slots, where the walk collects, and
\* one function built three ways, in a table that grows; and sums and
\* differences with results the table has no room for.
CONSTANTS
  InitSize = 7
  MaxRef = 2
  Modulus = 3
  Terminal = 3
  One = One
  Names = {"b", "c", "d", "e", "r", "n", "t", "p", "q", "s", "k", "l", "m", "u", "f", "h", "v", "w"}
  Calls <- MCCalls
  Normalizes <- MCNormalizes
  SlotBound = 13
  CacheSize = 2
  Applies <- MCApplies
  Operator <- MCOperator
  ApplyHash <- MCApplyHash
SPECIFICATION MCSpec
INVARIANTS WalkProtected Canonical
PROPERTIES ResultsRight HeldMeaning
