SPECIFICATION FairSpec
CONSTANTS
  Nodes = {n1}
  Boards = {b1, b2}
  QueueLimit = 3
  BatchLimit = 2
  Faults = {}
  MaxRecords = 5
PROPERTIES
  ImplementsRecorder
  EventuallyWritten
CHECK_DEADLOCK FALSE
