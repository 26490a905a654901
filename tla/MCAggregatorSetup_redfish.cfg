CONSTANTS
  x = x
  y = y
  t1 = t1
  t2 = t2
  None = None
  Sets <- MCSets
  Basedir <- MCBasedir
  Wide <- MCWide
  Mappings <- MCMappings
  Names <- MCNames
  Reports <- MCReports
  Versions = {1, 2}
  Fragile <- MCFragile
SPECIFICATION FairSpec
INVARIANTS
  TypeOK
  DecodedWithOwnFiles
PROPERTIES
  FirstReadCounts
  RecoversFromFailedReads
