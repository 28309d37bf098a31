SPECIFICATION FairSpec
CONSTANTS
  SendBuffer = 2
  MaxReplay = 4
  MaxLive = 3
INVARIANTS
  TypeOK
  ReplayComplete
  LiveInOrder
PROPERTIES
  ReplayEnds
  PumpsEndTogether
CHECK_DEADLOCK FALSE
