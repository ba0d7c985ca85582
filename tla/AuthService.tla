---------------------------- MODULE AuthService ----------------------------
(***************************************************************************)
(* auth-service: POST /login looks an account up and issues a signed token *)
(* with the account's role in it; /me and /admin/users check the token's   *)
(* signature, its expiry and the permissions of the role it carries, never *)
(* the account.  The store is a map under a lock, one critical section per *)
(* call, and is lost with the process; tokens are not, but a restart may   *)
(* bring another secret.                                                   *)
(*                                                                         *)
(* A handler is two steps, because other requests and the clock come in    *)
(* between: lookup and issue, or authorisation and effect.  A token is its *)
(* claims and the secret it is signed with.  SHA-256 and HMAC are taken to *)
(* be injective.                                                           *)
(***************************************************************************)
EXTENDS Integers, FiniteSets

CONSTANTS
  Emails,      \* emails accounts are created for, SeedEmail among them
  SeedEmail,   \* "admin@streamflix.local"
  SeedId,      \* "admin-seed"; ids of other accounts are their emails
  Passwords,   \* passwords, SeedPassword among them
  SeedPassword,
  RolesAsked,  \* roles POST /admin/users asks for; "" is a role left out
  Requests,    \* requests served at the same time
  TTL,         \* lifetime of a token in seconds (3600)
  Resolution,  \* clock ticks in a second; the claims only hold whole seconds
  MaxTime,     \* bound: the clock, in ticks
  MaxTokens,   \* bound: tokens issued in all
  Secrets,     \* values AUTH_SECRET may have
  NoToken      \* no text that ParseToken takes apart as it was put together

Ids == Emails \cup {SeedId}
Permissions == {"users:read", "users:write", "devices:read", "devices:write", "devices:admin"}

(* The RBAC table; "guest" is a role it does not know. *)
rolePermissions ==
  [admin    |-> Permissions,
   operator |-> {"devices:read", "devices:write"},
   viewer   |-> {"devices:read"}]
Roles == DOMAIN rolePermissions \cup {"guest"}

ASSUME AuthAssumption ==
  /\ SeedEmail \in Emails
  /\ SeedPassword \in Passwords
  /\ RolesAsked \subseteq Roles \cup {""}
  /\ TTL \in Nat \ {0}
  /\ Resolution \in Nat \ {0}
  /\ MaxTime \in Nat
  /\ MaxTokens \in Nat

hashPassword(pw) == [sha256 |-> pw]
User == [id : Ids, passwordHash : {hashPassword(pw) : pw \in Passwords}, role : Roles]
Token == [sub : Ids, role : Roles, exp : Nat, signedWith : Secrets, issuedAt : 0..MaxTime]

ASSUME TokenAssumption == NoToken \notin Token

VARIABLES
  now,     \* the clock, in ticks
  secret,  \* AUTH_SECRET of the process
  users,   \* the store: accounts by email
  issued,  \* tokens handed out; issuedAt is a history, not a claim
  pc,      \* pc[r]: where request r is; "refused" with 400, 403 or 405
  found,   \* found[r]: the account its login looked up
  token,   \* token[r]: the token it presented
  since,   \* since[r]: when its token was checked
  heldAt,  \* history: when an id last had a role that some token claims for it
  hadAt    \* history: what heldAt was for r's token when it was checked

reqVars == <<pc, found, token, since>>
vars == <<now, secret, users, issued, reqVars, heldAt, hadAt>>

Seconds(ticks) == ticks \div Resolution
Never == -1
Claimed == {<<t.sub, t.role>> : t \in issued}

(* Every variable stays in its range. *)
TypeOK ==
  /\ now \in 0..MaxTime
  /\ secret \in Secrets
  /\ users \in UNION {[E -> User] : E \in SUBSET Emails}
  /\ issued \in SUBSET Token
  /\ pc \in [Requests -> {"idle", "issue", "me", "list", "create", "401", "refused"}]
  /\ \A r \in Requests : pc[r] = "issue" => found[r] \in User
  /\ \A r \in Requests : pc[r] \in {"me", "list", "create"} => token[r] \in issued
  /\ since \in [Requests -> 0..MaxTime]
  /\ heldAt \in [Claimed -> Never..MaxTime]
  /\ hadAt \in [Requests -> Never..MaxTime]

Seed == [id |-> SeedId, passwordHash |-> hashPassword(SeedPassword), role |-> "admin"]
SeededStore == [e \in {SeedEmail} |-> Seed]

Init ==
  /\ now = 0
  /\ secret \in Secrets
  /\ users = SeededStore
  /\ issued = {}
  /\ pc = [r \in Requests |-> "idle"]
  /\ found = [r \in Requests |-> Seed]
  /\ token = [r \in Requests |-> NoToken]
  /\ since = [r \in Requests |-> 0]
  /\ heldAt = <<>>
  /\ hadAt = [r \in Requests |-> Never]

-----------------------------------------------------------------------------
(* The store's critical sections.  GetByEmail is empty where the code has  *)
(* false for its second result; List changes nothing.                      *)
GetByEmail(email) == {users[e] : e \in DOMAIN users \cap {email}}

Create(email, u) ==
  users' = [e \in DOMAIN users \cup {email} |-> IF e = email THEN u ELSE users[e]]

-----------------------------------------------------------------------------
(* POST /login, by whatever method.  No account or another password: 401.  *)

Login(r, email, password) ==
  LET accounts == {u \in GetByEmail(email) : u.passwordHash = hashPassword(password)}
  IN  /\ pc[r] = "idle"
      /\ \/ /\ pc' = [pc EXCEPT ![r] = "issue"]
            /\ \E user \in accounts : found' = [found EXCEPT ![r] = user]
         \/ /\ accounts = {}
            /\ pc' = [pc EXCEPT ![r] = "401"]
            /\ UNCHANGED found
      /\ UNCHANGED <<now, secret, users, issued, token, since>>

(* A fault against RevocationTakesEffect: the time to live is doubled.     *)
ExpiresAt_Twice == Seconds(now) + 2 * TTL

ExpiresAt == Seconds(now) + TTL

NewToken(r) ==
  /\ pc[r] = "issue"
  /\ Cardinality(issued) < MaxTokens
  /\ issued' = issued \cup {[sub |-> found[r].id, role |-> found[r].role,
                             exp |-> ExpiresAt, signedWith |-> secret,
                             issuedAt |-> now]}
  /\ pc' = [pc EXCEPT ![r] = "idle"]
  /\ found' = [found EXCEPT ![r] = Seed]
  /\ UNCHANGED <<now, secret, users, token, since>>

-----------------------------------------------------------------------------
(* RequireAuth and RequirePermission in front of the three handlers.       *)

(* A fault against ExpiryWindow: the last second no longer counts.         *)
Expired_Early(t) == Seconds(now) >= t.exp

Expired(t) == Seconds(now) > t.exp

HasPermission(role, perm) ==
  role \in DOMAIN rolePermissions /\ perm \in rolePermissions[role]

(* A fault against AdminsOnly: the handlers are only behind RequireAuth.   *)
Permitted_AnyRole(t, op) == TRUE

Permitted(t, op) ==
  CASE op = "me"     -> TRUE
    [] op = "list"   -> HasPermission(t.role, "users:read")
    [] op = "create" -> HasPermission(t.role, "users:write")

(* hmac.Equal of the signature found and the one this process would make. *)
SignatureHolds(t) == t # NoToken /\ t.signedWith = secret

ParseToken(t) == SignatureHolds(t) /\ ~Expired(t)

(* A header that does not begin with "Bearer " carries no token.           *)
claimsFromRequest(header) == IF header.bearer THEN header.token ELSE NoToken

Authorize(r, op, header) ==
  LET t == claimsFromRequest(header)
  IN  /\ pc[r] = "idle"
      /\ token' = [token EXCEPT ![r] = t]
      /\ since' = [since EXCEPT ![r] = now]
      /\ pc' = [pc EXCEPT ![r] = IF ~ParseToken(t) THEN "401"
                                 ELSE IF Permitted(t, op) THEN op ELSE "refused"]
      /\ UNCHANGED <<now, secret, users, issued, found>>

(* methodSwitch looks at the method before anyone looks at the token.      *)
MethodNotAllowed(r) ==
  /\ pc[r] = "idle"
  /\ pc' = [pc EXCEPT ![r] = "refused"]
  /\ UNCHANGED <<now, secret, users, issued, found, token, since>>

(* What cannot be decoded: a login, or an account by one who may create it.*)
BadBody(r) ==
  /\ pc[r] \in {"idle", "create"}
  /\ pc' = [pc EXCEPT ![r] = "refused"]
  /\ token' = [token EXCEPT ![r] = NoToken]
  /\ since' = [since EXCEPT ![r] = 0]
  /\ UNCHANGED <<now, secret, users, issued, found>>

(* meHandler and listUsersHandler answer with what they read. *)
Answer(r) ==
  /\ pc[r] \in {"me", "list", "401", "refused"}
  /\ pc' = [pc EXCEPT ![r] = "idle"]
  /\ token' = [token EXCEPT ![r] = NoToken]
  /\ since' = [since EXCEPT ![r] = 0]
  /\ UNCHANGED <<now, secret, users, issued, found>>

(* A fault against TypeOK: the role a request leaves out stays empty. *)
DefaultRole_None(role) == role

DefaultRole(role) == IF role = "" THEN "viewer" ELSE role

(* createUserHandler: an account that is there already is replaced. *)
CreateUser(r, email, password, role) ==
  /\ pc[r] = "create"
  /\ Create(email, [id |-> email, passwordHash |-> hashPassword(password),
                    role |-> DefaultRole(role)])
  /\ pc' = [pc EXCEPT ![r] = "idle"]
  /\ token' = [token EXCEPT ![r] = NoToken]
  /\ since' = [since EXCEPT ![r] = 0]
  /\ UNCHANGED <<now, secret, issued, found>>

-----------------------------------------------------------------------------
Tick ==
  /\ now < MaxTime
  /\ now' = now + 1
  /\ UNCHANGED <<secret, users, issued, reqVars>>

(* The process ends and is started again, with the AUTH_SECRET it had or   *)
(* with another.                                                           *)
Restart ==
  /\ secret' \in Secrets
  /\ users' = SeededStore
  /\ pc' = [r \in Requests |-> "idle"]
  /\ found' = [r \in Requests |-> Seed]
  /\ token' = [r \in Requests |-> NoToken]
  /\ since' = [r \in Requests |-> 0]
  /\ UNCHANGED <<now, issued>>

RequestStep(r) ==
  \/ \E email \in Emails, password \in Passwords : Login(r, email, password)
  \/ NewToken(r)
  \/ \E op \in {"me", "list", "create"}, t \in issued \cup {NoToken}, bearer \in BOOLEAN :
       Authorize(r, op, [bearer |-> bearer, token |-> t])
  \/ MethodNotAllowed(r)
  \/ BadBody(r)
  \/ Answer(r)
  \/ \E email \in Emails, password \in Passwords, role \in RolesAsked :
       CreateUser(r, email, password, role)

Accepted(r) == pc[r] \in {"me", "list", "create"}

(* The role is an account's, or is on its way into a token. *)
Has(id, role) ==
  \/ \E e \in DOMAIN users : users[e].id = id /\ users[e].role = role
  \/ \E r \in Requests : pc[r] = "issue" /\ found[r].id = id /\ found[r].role = role

(* heldAt and hadAt are no part of the program: what it does not remember. *)
Remember ==
  /\ heldAt' = [p \in Claimed' |->
                 IF Has(p[1], p[2]) \/ Has(p[1], p[2])' THEN now'
                 ELSE IF p \in Claimed THEN heldAt[p] ELSE Never]
  /\ hadAt' = [r \in Requests |->
                IF ~Accepted(r)' THEN Never
                ELSE IF Accepted(r) THEN hadAt[r]
                ELSE heldAt[<<token'[r].sub, token'[r].role>>]]

Next ==
  /\ \/ \E r \in Requests : RequestStep(r)
     \/ Tick
     \/ Restart
  /\ Remember

Spec == Init /\ [][Next]_vars

-----------------------------------------------------------------------------
(* Properties.                                                             *)

Age(r) == since[r] - token[r].issuedAt

(* A token is good for its whole time to live, however the two roundings   *)
(* to seconds fall, and for less than a second more: as long as the        *)
(* process has the secret it was signed with, and no longer.               *)
ExpiryWindow ==
  \A r \in Requests : token[r] # NoToken =>
    /\ Accepted(r) => token[r].signedWith = secret /\ Age(r) < (TTL + 1) * Resolution
    /\ pc[r] = "401" => token[r].signedWith # secret \/ Age(r) > TTL * Resolution

(* A role taken from an account still passes, but not for longer than the  *)
(* time to live and less than a second, once the logins that saw it are    *)
(* through: at every check of a token the role it passes with had been     *)
(* held that short a time before.                                          *)
RevocationTakesEffect ==
  \A r \in Requests : Accepted(r) =>
    hadAt[r] # Never /\ since[r] < hadAt[r] + (TTL + 1) * Resolution

(* Whatever changes the store, but for a restart, is the last step of one  *)
(* request; its token says "admin" of an id that had been an admin less    *)
(* than the time to live and a second before the token was checked.  That  *)
(* id is the seed's, or its account was made in this same way, so along    *)
(* any chain of accounts that make others the right goes back to the seed. *)
AdminsOnly ==
  [][users' # users =>
       \/ Restart
       \/ \E r \in Requests :
            /\ pc[r] = "create" /\ pc'[r] = "idle"
            /\ token[r].role = "admin"
            /\ hadAt[r] # Never /\ since[r] < hadAt[r] + (TTL + 1) * Resolution]_vars
=============================================================================
