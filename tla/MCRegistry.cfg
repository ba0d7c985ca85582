SPECIFICATION FairSpec
CONSTANTS
  Devices = {d1, d2}
  Times = {1}
  Modulus = 2
  Workers = {w1, w2}
  Requests = {q1, q2}
  None = None
INVARIANTS
  TypeOK
PROPERTIES
  ImplementsRegistry
  TouchReturns
  StatusAnswered
