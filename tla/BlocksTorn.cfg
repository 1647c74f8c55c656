CONSTANTS
  VarNum = 4
  CallBound = 2
  ExchangeBound = 1
  Orders = {}
SPECIFICATION MCSpec
INVARIANTS BlocksAdjacent
CHECK_DEADLOCK FALSE
