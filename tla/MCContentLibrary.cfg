\* A form and up to two requests beside it, over at most two contents of two files.
SPECIFICATION HistorySpec
CONSTANTS
  Files = {f1, f2}
  MaxContents = 2
  TagSets = {{"t1"}, {"t2"}}
  Bodies <- LibraryBodies
  Requests = {form, r1, r2}
  Form = form
  None = None
SYMMETRY Interchangeable
INVARIANTS
  TypeOK
  OncePerFile
  TagsWhole
  LinkedAsShown
CHECK_DEADLOCK FALSE
