SPECIFICATION Spec
CONSTANTS
  Devices = {d1, d2}
  d1 = d1
  d2 = d2
  Workers = {w1, w2}
  w1 = w1
  w2 = w2
  Requests = {r1}
  r1 = r1
  Capacity = 2
  MaxTicks = 2
  NoEvent = NoEvent
SYMMETRY Symmetry
INVARIANTS
  TypeOK
  GatewayInv
  NeverPanics
  EventsConserved
  CountsMatch
  TriedOnce
  ReportsInOrder
  ShutdownFinishesRequests
PROPERTIES
  ImplementsPipeline
