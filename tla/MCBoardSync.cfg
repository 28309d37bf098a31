SPECIFICATION Spec
CONSTANTS
  Editors = {e1, e2}
  Joiners = {j1}
  Objects = {o1, o2}
  MaxEdits = 3
SYMMETRY Symmetry
INVARIANTS
  TypeOK
  UncontestedObjectsAgree
CHECK_DEADLOCK FALSE
