SPECIFICATION Spec
CONSTANTS
  playback = playback
  recovered = recovered
  s1 = s1
  Segments <- MCSegments
  Recovered <- MCRecovered
  Ueis <- ColonUeis
  Streams <- ColonStreams
  Messages = {m1, m2}
  m1 = m1
  m2 = m2
  Recorders = {r1, r2}
  r1 = r1
  r2 = r2
  Readers = {q1}
  q1 = q1
  MaxEvents = 4
  None = None
SYMMETRY Symmetry
INVARIANTS
  TypeOK
  AlarmPerKey
  AlarmSummarisesEvents
PROPERTIES
  ImplementsService
  ClearedByCollision
  ClearedIsFinal
