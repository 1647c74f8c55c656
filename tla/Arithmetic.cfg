\* Blocks on up to five variables, vectors of two and three bits and of the
\* blocks.  Primes: every small argument, arguments near squares of primes,
\* and 2701 = 37 * 73, which has many liars if only the power is looked at.
\* A client may stop anywhere, and bdd_setcacheratio may stop the program by
\* a division by zero: no deadlock check.
CONSTANTS
  VarNum = 5
  Declarations <- MCDeclarations
  DomainBound = 3
  Constants = {1, 3, 5}
  CHECKTIMES = 2
  Requests = {3, 4, 8, 9, 14, 15, 24, 26, 90, 284, 288, 292, 360, 2700, 2702}
  NodeSizes = {101}
  Ratios = {2, 7, 50, 101}
SPECIFICATION MCSpec
INVARIANTS CalculatesRight BlocksRight PrimesRight
CHECK_DEADLOCK FALSE
