\* Held nodes in any slots.
CONSTANTS
  VarNum = 3
  MaxRef = 4
  MaxNodeSize = 15
  MaxIncrease = 2
  InitialTables <- MCAnyTables
  Sessions = 1
  Requests = {"setvarorder"}
  MoveBound = 4
SPECIFICATION ClientSpec
INVARIANTS TableCanonical
CHECK_DEADLOCK FALSE
