SPECIFICATION Spec
CONSTANTS
  Shapes = {s1}
  Connectors = {k1}
  Texts = {t1}
  NoObject = NoObject
  Overlaps = {"keys", "pointer", "remote"}
  MaxChanges = 3
INVARIANTS
  TypeOK
  ChangesAreRelayed
