CONSTANTS
  Formulas <- MCFormulas
SPECIFICATION Spec
INVARIANTS
  RpnMeansTheFormula
  RpnOrder
  NothingLostOrRepeated
  RefusedOnlyIfStrange
CHECK_DEADLOCK FALSE
