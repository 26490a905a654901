CONSTANTS
  f1 = f1
  f2 = f2
  f3 = f3
  dA = dA
  dA3 = dA3
  dA9 = dA9
  dX = dX
  dB = dB
  dC = dC
  dD = dD
  dE = dE
  None = None
  Modes = {"agent", "once", "collectd"}
  MetaKinds = {"xml", "json", "other"}
  Mapped <- MCMapped
  PrefixOf <- MCPrefixOf
  Sound <- MCSound
  Loadable <- MCLoadable
  SamplesIn <- MCSamplesIn
  MetricsIn <- MCMetricsIn
  Allowlist <- MCAllow
  Folders <- MCFolders
  Devices <- MCDevices
  UidOf <- MCUidOf
  Home <- MCHome
  Stable = {f2, f3}
SPECIFICATION FairSpec
INVARIANTS
  ReadFailsOnlyIfMisconfigured
  StableReported
  ExactMatchWins
  MisreadOnlyIfRenumbered
PROPERTIES
  StableReportedAgain
