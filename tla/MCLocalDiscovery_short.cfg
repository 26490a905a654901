CONSTANTS
  x = x
  y = y
  f1 = f1
  f2 = f2
  d1 = d1
  d2 = d2
  d3 = d3
  None = None
  Sets <- MCSets
  Basedir <- MCBasedir
  Wide <- MCWide
  Mappings <- MCMappings
  Versions = {1}
  Fragile <- MCFragile
  Folders <- MCFolders
  Devices <- MCDevices
  Identity <- MCIdentity
  Malformed = {}
  Home <- MCHomeShort
  Stable = {f1, f2}
SPECIFICATION Spec
INVARIANTS
  ListedDeviceIsKnown
