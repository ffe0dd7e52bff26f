\* Two rules and two views whose evaluations overlap and fail anywhere, with one edit of the rules.
SPECIFICATION HistorySpec
CONSTANTS
  Rules = {r1, r2}
  Thresholds = {1, 2}
  Recipients = {a, d}
  Evaluations = {e1, e2}
  MaxViews = 2
  MaxEdits = 1
  None = None
SYMMETRY Interchangeable
INVARIANTS
  TypeOK
  StatusHonest
  RulesServed
CHECK_DEADLOCK FALSE
