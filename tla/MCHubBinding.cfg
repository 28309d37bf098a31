SPECIFICATION FairSpec
CONSTANTS
  Clients = {c1, c2, c3, c4}
  Nodes = {n1, n2}
  Boards = {b1}
  Nowhere = Nowhere
INVARIANTS
  TypeOK
  RefsBalanced
  NoLeakedSubscription
PROPERTY
  DropsIdleBoard
