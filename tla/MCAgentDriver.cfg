CONSTANTS
  i1 = i1
  i2 = i2
  a1 = a1
  a2 = a2
  b = b
  None = None
  Instances <- MCInstances
  Lists <- MCLists
  GuidOf <- MCGuidOf
  SizeOf <- MCSizeOf
  Within <- MCWithin
  MaxEntries = 2
SPECIFICATION FairSpec
INVARIANTS
  NoHandleLeft
  DecodesOwnGuid
PROPERTIES
  CallReturns
