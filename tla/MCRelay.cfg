SPECIFICATION RelaySpec
CONSTANTS
  Clients = {c1, c2, c3}
  Nodes = {n1, n2}
  Boards = {b1}
  Nowhere = Nowhere
  RelayFaults = {"publish", "lose", "crash"}
  MaxFrames = 2
SYMMETRY Symmetry
INVARIANTS
  RelayTypeOK
  HeardOnceInOrder
  HearsTheRest
  StoredOnce
CHECK_DEADLOCK FALSE
