CONSTANTS
  Configs <- MCConfigs
  None = None
SPECIFICATION Spec
INVARIANTS
  EarlierElementsConverted
  ZeroIsAllOrNothing
  WrongYamlWritesNothing
  FaultyConfigWritesNothing
