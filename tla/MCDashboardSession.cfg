SPECIFICATION Spec
CONSTANTS
  ann = ann
  bob = bob
  list = list
  detail = detail
  q1 = q1
  q2 = q2
  Accounts = {ann, bob}
  Views = {list, detail}
  List = list
  Calls = {q1, q2}
  MaxTokens = 2
  MaxCommits = 1
  MaxLapses = 1
  Expires = {1}
  None = None
INVARIANTS TypeOK TabShowsItsAccount FreshViewsShowOwnWrites
SYMMETRY Symmetry
