SPECIFICATION Spec
CONSTANTS
  old = old
  q1 = q1
  q2 = q2
  Ids = {old}
  First <- FirstTable
  Filters = {"paused"}
  Wanted = {"paused"}
  Calls = {q1, q2}
  MaxCommits = 2
  None = None
INVARIANTS TypeOK ScreenShowsOwnWrites
PROPERTY TransitionsWereOffered
SYMMETRY Symmetry
