\* Two processes boot, stop anywhere and start again, while two users administer
\* each other with up to two requests at a time.
SPECIFICATION HistorySpec
CONSTANTS
  Users = {u1, u2}
  Bootstrap = u1
  Requests = {r1, r2}
  Processes = {p1, p2}
  Obsolete = {"user:impersonate"}
  Bodies <- PageBodies
  None = None
INVARIANTS
  TypeOK
  ManagerLeftSerially
  GrantsWhole
PROPERTIES
  SuspensionDrains
  GrantsRestored
