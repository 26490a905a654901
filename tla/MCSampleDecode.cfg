CONSTANTS
  ByteBits = 2
  ContainerBytes = 2
  Regions <- MCRegions
  Aggregators <- MCAggregators
  Interfaces <- MCInterfaces
  Defined = {"sum", "broken"}
  Failing = {"broken"}
  Allowlists <- MCAllowlists
SPECIFICATION Spec
INVARIANTS
  GoDecodesWhatFits
  MetricsFromDecodedInputs
  CollectorsAgree
  AllowlistOnlyFilters
CHECK_DEADLOCK FALSE
