\* Two users and every page with one row, two calls of a page at a time.
SPECIFICATION HistorySpec
CONSTANTS
  admin = admin
  reader = reader
  root = root
  outer = outer
  inner = inner
  None = None
  Users = {admin, reader}
  RoleOf <- MCRoleOf
  Chosen = {"ACTIVE", "DELETED", "action", "link"}
  Total <- MCTotal
  Children <- MCChildren
  Root = root
  Rows = {row}
  MaxLoads = 2
  MaxCommands = 2
  MaxAsk = 2
INVARIANTS
  TypeOK
  ListHonest
  SessionHonest
PROPERTIES
  ModalKept
  Settles
