\* Three variables and three free slots: children that are not literals are
\* collected and rebuilt; the table may not grow, and a count saturates.
CONSTANTS
  VarNum = 3
  InitSize = 11
  MaxRef = 2
  HashNode <- MCHash
  MaxNodeNums = {12}
  MaxIncreases = {50}
  MinFrees = {20}
  SlotBound = 11
  StackBound = 2
  Atoms = {0, 6}
  HeldBound = 2
  HeldNodes = 1
SPECIFICATION Spec
INVARIANTS TypeOK ReducedOrdered ProtectedLive
PROPERTIES ProtectedUnchanged ImplementsDiagramStore SaturatedForEver
