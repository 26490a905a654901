CONSTANTS
  a = a
  b = b
  c = c
  None = None
  Endpoints = {a, b, c}
  Triggered = {a, b}
  Timed = {b}
  Healthy = {a}
SPECIFICATION FairSpec
INVARIANTS
  TypeOK
  NoConnectionLeft
  ConnectionsBounded
  HealthyEndpointsReported
PROPERTIES
  FatalOnlyWhileClientsMissing
  RefinesScrapeLoop
  GoroutineStops
  HealthyAlwaysReportedAgain
