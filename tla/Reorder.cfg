\* Three variables; two sessions of any request, tables that run full and grow.
CONSTANTS
  VarNum = 3
  MaxRef = 4
  MaxNodeSize = 13
  MaxIncrease = 2
  InitialTables <- MCTables
  Sessions = 2
  Requests = {"setvarorder", "swapvar", "reorder"}
  MoveBound = 4
SPECIFICATION ClientSpec
INVARIANTS FunctionsKept TableCanonical CountsRight OrderInstalled
CHECK_DEADLOCK FALSE
