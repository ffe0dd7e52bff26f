\* Two viewers and an admin who changes limits, the allowlist and the status under them.
SPECIFICATION LinkSpec
CONSTANTS
  Requests = {r1, r2}
  Viewers = {v1}
  SessionKeys = {s1, s2}
  ViewLimits = {1, 2}
  DeviceLimits = {1}
  SessionLimits = {1, 2}
  ConcurrentLimits = {1, 2}
  AllowLists = {{v1}, {}}
  Rules <- NoRules
  MayFail = FALSE
  LapsedResume = FALSE
  Admins = {a1}
  Offered = {"status", "update"}
  Bodies <- LimitBodies
  Sweeps = {}
  None = None
SYMMETRY Interchangeable
INVARIANTS
  LimitsBounded
PROPERTIES
  ViewsDrain
