\* Two requests that may overlap and fail, and an admin who moves the view limit.
SPECIFICATION AlertSpec
CONSTANTS
  Requests = {r1, r2}
  Viewers = {v1}
  SessionKeys = {s1, s2}
  ViewLimits = {1, 2}
  DeviceLimits = {0}
  SessionLimits = {0}
  ConcurrentLimits = {0}
  AllowLists = {{v1}}
  Rules <- TwoRules
  MayFail = TRUE
  LapsedResume = FALSE
  Admins = {a1}
  Offered = {"limit"}
  Bodies = {}
  Sweeps = {}
  None = None
SYMMETRY Interchangeable
INVARIANTS
  MarkedMeansSent
  NoThresholdMissed
  SentOnceSerially
