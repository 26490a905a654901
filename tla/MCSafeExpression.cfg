CONSTANTS
  MaxBits = 4
  MaxExponent = 3
  MaxShift = 3
  MaxNodes = 11
  Parameters = {"x"}
  Inputs <- MCInputs
  Expressions <- MCExpressions
SPECIFICATION FormulaSpec
INVARIANTS
  WorkBounded
  IntegersExact
  AcceptedIsEvaluable
CHECK_DEADLOCK FALSE
