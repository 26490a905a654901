CONSTANTS
  f1 = f1
  f2 = f2
  f3 = f3
  dA = dA
  dA3 = dA3
  dA9 = dA9
  dX = dX
  dB = dB
  dC = dC
  dD = dD
  dE = dE
  None = None
  Modes = {"agent"}
  MetaKinds = {"xml"}
  Mapped <- MCMapped
  PrefixOf <- MCPrefixOf
  Sound <- MCSound
  Loadable <- MCMappedKeys
  SamplesIn <- MCSamplesIn
  MetricsIn <- MCMetricsIn
  Allowlist <- MCAllow
  Folders <- MCFolders
  Devices <- MCDevices
  UidOf <- MCUidOf
  Home <- MCHome
  Stable = {f2, f3}
SPECIFICATION Spec
INVARIANTS
  AllowedMetricsAreRead
