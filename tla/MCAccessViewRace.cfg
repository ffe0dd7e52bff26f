\* Two requests race for the last view.
SPECIFICATION Spec
CONSTANTS
  Requests = {r1, r2}
  Viewers = {v1}
  SessionKeys = {s1, s2}
  ViewLimits = {1}
  DeviceLimits = {0}
  SessionLimits = {0}
  ConcurrentLimits = {0}
  AllowLists = {{v1}}
  Rules <- NoRules
  MayFail = FALSE
  LapsedResume = FALSE
  None = None
SYMMETRY Interchangeable
INVARIANT MaxViewsRespected
