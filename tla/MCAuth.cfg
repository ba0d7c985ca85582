SPECIFICATION Spec
CONSTANTS
  Emails = {admin, bob}
  SeedEmail = admin
  SeedId = seed
  Passwords = {pw}
  SeedPassword = pw
  RolesAsked = {"admin", ""}
  Requests = {r1, r2}
  TTL = 1
  Resolution = 2
  MaxTime = 4
  MaxTokens = 2
  Secrets = {x, y}
  NoToken = NoToken
SYMMETRY Symmetry
INVARIANTS
  TypeOK
  ExpiryWindow
  RevocationTakesEffect
PROPERTIES
  AdminsOnly
