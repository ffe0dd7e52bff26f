\* Two views are counted before either records the threshold it fired.
SPECIFICATION Spec
CONSTANTS
  Requests = {r1, r2}
  Viewers = {v1}
  SessionKeys = {s1, s2}
  ViewLimits = {0}
  DeviceLimits = {0}
  SessionLimits = {0}
  ConcurrentLimits = {0}
  AllowLists = {{v1}}
  Rules <- TwoRules
  MayFail = FALSE
  LapsedResume = FALSE
  None = None
SYMMETRY Interchangeable
INVARIANT AlertSentOnce
