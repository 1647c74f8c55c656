CONSTANTS
  BlockNum = 3
  Setups <- MCSetups
  Methods = {"win2", "win2ite", "win3", "win3ite", "sift", "siftite", "random"}
SPECIFICATION SiftingSpec
INVARIANTS ProgressExhausted
PROPERTIES MethodsEnd
CHECK_DEADLOCK FALSE
