SPECIFICATION Spec
CONSTANTS
  playback = playback
  recovered = recovered
  s1 = s1
  Segments <- MCSegments
  Recovered <- MCRecovered
  Ueis <- SimpleUeis
  Streams <- SimpleStreams
  Messages = {m1}
  m1 = m1
  Recorders = {r1, r2}
  r1 = r1
  r2 = r2
  Readers = {q1}
  q1 = q1
  MaxEvents = 2
  None = None
PROPERTIES
  RecoveryClears
