SPECIFICATION Spec
CONSTANTS
  Editors = {e1}
  Joiners = {j1}
  Objects = {o1}
  MaxEdits = 2
INVARIANT
  JoinerSeesSameBoard
CHECK_DEADLOCK FALSE
