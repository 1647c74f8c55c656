\* Three variables; the identifier of the quantified variables starts again
\* after three sets, that of the support after two.  Files have up to five
\* nodes, in tables that start with three slots.
CONSTANTS
  VarNum = 3
  IntMax = 5
  CallBound = 2
  IdRange = 65536
  SupportIdMax = 2
  Operands <- MCOperands
  LaterOperands <- MCLaterOperands
  Varsets <- MCVarsets
  Cubes <- MCCubes
  AppOperators = {"and", "nor"}
  SavedFunctions <- MCSavedFunctions
  SaveOrders <- MCSaveOrders
  NumberSteps = {1, 4}
  LoadSessions <- MCLoadSessions
  NodeCounts <- MCNodeCounts
  LH_INIT_VALUE = 3
SPECIFICATION MCSpec
INVARIANTS OperatorsRight CountsRight SearchesRight LoadRight LoadBalanced
CHECK_DEADLOCK FALSE
