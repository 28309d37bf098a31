SPECIFICATION Spec
CONSTANTS
  Nodes = {n1, n2}
  Boards = {b1, b2}
  QueueLimit = 2
  BatchLimit = 2
  Faults = {"insert", "delete", "crash"}
  MaxRecords = 5
SYMMETRY Symmetry
INVARIANTS
  TypeOK
  FifoPerNode
  ClearedStaysCleared
CHECK_DEADLOCK FALSE
