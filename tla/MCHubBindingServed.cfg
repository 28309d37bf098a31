SPECIFICATION Spec
CONSTANTS
  Clients = {c1, c2}
  Nodes = {n1}
  Boards = {b1}
  Nowhere = Nowhere
INVARIANT
  ServedBoardIsSubscribed
