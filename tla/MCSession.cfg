SPECIFICATION FairSpec
CONSTANTS
  Objects = {a}
  Peer = Peer
  MaxSockets = 2
  MaxEdits = 2
  MaxCursors = 1
INVARIANTS
  TypeOK
  OneSocket
  ReplayRestores
PROPERTY Reconnects
CHECK_DEADLOCK FALSE
