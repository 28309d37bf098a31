SPECIFICATION Spec
CONSTANTS
  Ids = {b1, b2}
  Objects = {o1}
  MaxDrawn = 1
  Faults = {"statement", "network"}
  Requests = {1, 2}
  MaxRequests = 2
  NoId = NoId
INVARIANTS
  TypeOK
  NoRequestHangs
  DeleteTakesTheDrawing
PROPERTIES
  StatementsInOrder
  ImplementsDirectory
  ResponseConforms
  EntitiesBySlot
  AnswerTells
  DeletionsShowTruly
CHECK_DEADLOCK FALSE
