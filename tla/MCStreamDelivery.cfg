\* One page with two requests for access and two ranges at a time, against every change of the link.
SPECIFICATION HistorySpec
CONSTANTS
  Pages = {w1}
  Keys = {k1, k2}
  Calls = {c1, c2}
  Transfers = {t1}
  FileTypes = {"VIDEO", "PDF"}
  None = None
INVARIANTS
  TypeOK
  RefusalTold
  OneViewPerVisit
PROPERTIES
  ServedDrains
  PageSettles
