\* Two views of a film whose duration is on record or not; two heartbeats at a time
\* overtake each other and get lost.
SPECIFICATION Spec
CONSTANTS
  MaxViews = 2
  Length = 3
  MinResume = 1
  NearEnds = {2}
  Beats = {b1, b2}
  None = None
SYMMETRY Interchangeable
INVARIANTS
  TypeOK
  ProgressHonest
  OfferHonest
PROPERTY TakenBackByRaceOnly
