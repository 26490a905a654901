CONSTANTS
  m1 = m1
  m2 = m2
  m3 = m3
  Odd = Odd
  Refused = Refused
  Null = Null
  Missing = Missing
  Absent = Absent
  Metrics = {m1, m2}
  Others = {m3}
  Types = {"Power"}
  Allowed = {"Streaming", "Threshold"}
  Written <- MCWritten
SPECIFICATION SensorSpec
INVARIANTS
  RoundTrip
  MadeForOneVersion
