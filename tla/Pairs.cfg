\* Two variables in both orders, two tables, five identifiers.
CONSTANTS
  VarNum = 2
  Tables = {1, 2}
  IdMax = 4
  Substitutes <- MCSubstitutes
  Arguments <- MCArguments
SPECIFICATION MCSpec
INVARIANTS SubstitutionsRight
