\* A parent, two blocks in it and one beside or below them.
CONSTANTS
  VarNum = 4
  CallBound = 3
  ExchangeBound = 2
  Orders <- MCOrders
SPECIFICATION MCSpec
INVARIANTS AcceptedKept BlocksInOrder
PROPERTIES ExchangeEnds FixedKept
CHECK_DEADLOCK FALSE
