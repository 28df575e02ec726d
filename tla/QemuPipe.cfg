SPECIFICATION Spec
CONSTANTS
  w1 = w1
  w2 = w2
  p1 = p1
  p2 = p2
  h1 = h1
  h2 = h2
  Workers = {w1, w2}
  Pipes = {p1, p2}
  Hosts = {h1, h2}
  header_size = 1
  BodySize <- MCBodySize
  MaxData = 2
SYMMETRY Symmetry
INVARIANTS
  TypeOK
  OneListener
  
  
  CommandsInOrder
CHECK_DEADLOCK FALSE
