\* Two variables, five slots that are not literals: terminals and diagrams are
\* collected in the middle of operations, and the table runs full.
CONSTANTS
  VarNum = 2
  InitSize = 11
  MaxRef = 5
  MAXLEVEL = 9
  INITIAL_TERMINAL_SIZE = 1
  Values = {0, 1}
  Names <- MCNames
  Terminals <- MCTerminals
  Nodes <- MCNodes
  Operations <- MCOperations
  Callback <- MCCallback
  CacheSize = 1
  CacheHash <- MCHash
SPECIFICATION ApplySpec
INVARIANTS ValueSlotsOwned Canonical
PROPERTIES DiagramsRight
