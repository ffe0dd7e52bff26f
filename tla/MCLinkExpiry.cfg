\* A viewer, an admin who edits the expiry and the status, one tick at a time; all may fail.
SPECIFICATION FairHistorySpec
CONSTANTS
  Requests = {r1}
  Viewers = {v1}
  SessionKeys = {s1}
  ViewLimits = {0}
  DeviceLimits = {0}
  SessionLimits = {0}
  ConcurrentLimits = {0}
  AllowLists = {{v1}}
  Rules <- NoRules
  MayFail = TRUE
  LapsedResume = FALSE
  Admins = {a1}
  Offered = {"status", "extend", "update"}
  Bodies <- ExpiryBodies
  Sweeps = {w1}
  None = None
PROPERTIES
  OverdueEnforced
  AnnouncedUnlessFailed
  AgainstTheRowByRaceOnly
