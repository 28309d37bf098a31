SPECIFICATION FairSpec
CONSTANTS
  SendBuffer = 2
  MaxReplay = 4
  MaxLive = 3
PROPERTY
  HandlerReturns
CHECK_DEADLOCK FALSE
