CONSTANTS
  g1 = g1
  g2 = g2
  Guests = {g1, g2}
  Workers = {w1, w2}
  InCapacity = 1
  Requests <- MCRequests
  NoOne = NoOne
SPECIFICATION FairSpec
INVARIANTS
  
  NobodyUsesDestroyed
PROPERTIES
  RequestsDecoded
  ClosedGuestsGo
  GuestsGetIn
CHECK_DEADLOCK FALSE
