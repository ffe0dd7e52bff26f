\* Two requests at a time that may fail half-way, every limit set, one alert, and a link
\* that lets one of the two viewers pass or both.
SPECIFICATION Spec
CONSTANTS
  Requests = {r1, r2}
  Viewers = {v1, v2}
  SessionKeys = {s1, s2, s3, s4}
  ViewLimits = {1, 2}
  DeviceLimits = {1}
  SessionLimits = {2}
  ConcurrentLimits = {1}
  AllowLists = {{v1}, {v1, v2}}
  Rules <- OneRule
  MayFail = TRUE
  LapsedResume = FALSE
  None = None
SYMMETRY Interchangeable
INVARIANTS
  TypeOK
  ConcurrencyBounded
  GrantsAccounted
PROPERTIES
  ViewQuota
  DeviceQuota
  SessionQuota
