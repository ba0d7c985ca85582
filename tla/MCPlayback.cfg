SPECIFICATION Spec
CONSTANTS
  Plays = {p1, p2}
  Agents = {a1}
  Scrapes = {s1}
  ada = ada
  drift = drift
  harbor = harbor
  nobody = nobody
  missing = missing
  Wanted <- MCWanted
  Users = {ada}
  Titles = {drift, harbor}
  healthcheckPassed = healthcheckPassed
  healthcheckFailed = healthcheckFailed
  inducedFailure = inducedFailure
INVARIANTS
  TypeOK
  CountsBacked
  MetricsConsistent
PROPERTIES
  PlaybackAnswered
