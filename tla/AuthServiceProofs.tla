------------------------- MODULE AuthServiceProofs -------------------------
(***************************************************************************)
(* What is proved about auth-service for any number of accounts, tokens    *)
(* and requests, any clock resolution and any time to live: how long a     *)
(* token passes, how long a role that was taken away still does, and who   *)
(* can change the store.                                                   *)
(***************************************************************************)
EXTENDS AuthService, TLAPS

(* TypeOK says nothing of found and token where no property looks. *)
StateOK ==
  /\ TypeOK
  /\ DOMAIN found = Requests
  /\ token \in [Requests -> issued \cup {NoToken}]

(* An account's role, or one a login is about to put into a token, is held *)
(* now, and nothing was held later than now.                               *)
HeldInv ==
  \A p \in Claimed : heldAt[p] <= now /\ (Has(p[1], p[2]) => heldAt[p] = now)

(* A token's role was held when the token was made. *)
TokenInv ==
  \A t \in issued :
    /\ t.issuedAt <= now
    /\ t.exp = Seconds(t.issuedAt) + TTL
    /\ t.issuedAt <= heldAt[<<t.sub, t.role>>]

(* What the check of the token has found still holds of it: the secret     *)
(* changes only when every request is gone.                                *)
Checked(r) ==
  /\ pc[r] \in {"idle", "issue"} => token[r] = NoToken
  /\ Accepted(r) => /\ SignatureHolds(token[r])
                    /\ Seconds(since[r]) <= token[r].exp
                    /\ Permitted(token[r], pc[r])
  /\ pc[r] = "401" /\ token[r] # NoToken =>
       token[r].signedWith # secret \/ Seconds(since[r]) > token[r].exp
CheckedInv == \A r \in Requests : since[r] <= now /\ Checked(r)

(* The role a request passed with was held no earlier than its token was   *)
(* made.                                                                   *)
HadInv == \A r \in Requests : Accepted(r) => token[r].issuedAt <= hadAt[r]

AuthInv == StateOK /\ HeldInv /\ TokenInv /\ CheckedInv /\ HadInv

-----------------------------------------------------------------------------
(* Seconds and ticks.                                                      *)

(* A number of ticks lies within the second it is rounded down to. *)
LEMMA SecondsBounds ==
  ASSUME NEW ticks \in Nat
  PROVE  /\ Seconds(ticks) \in Nat
         /\ Resolution * Seconds(ticks) <= ticks
         /\ ticks < Resolution * Seconds(ticks) + Resolution
<1> DEFINE R == Resolution
<1>1. R \in Nat \ {0}
  BY AuthAssumption DEF AuthAssumption
<1> HIDE DEF R
<1>2. ticks \div R \in Nat
  BY ONLY <1>1, ticks \in Nat
<1>3. R * (ticks \div R) <= ticks
  BY ONLY <1>1, ticks \in Nat
<1>4. ticks < R * (ticks \div R) + R
  BY ONLY <1>1, ticks \in Nat
<1> QED
  BY <1>2, <1>3, <1>4 DEF R, Seconds

(* Rounding both ends of an interval is off by less than a second. *)
LEMMA WithinSeconds ==
  ASSUME NEW from \in Nat, NEW to \in Nat
  PROVE  /\ Seconds(to) <= Seconds(from) + TTL => to - from < (TTL + 1) * Resolution
         /\ Seconds(to) > Seconds(from) + TTL => to - from > TTL * Resolution
<1> DEFINE R == Resolution
           x == Seconds(from)
           y == Seconds(to)
<1>1. /\ x \in Nat /\ R * x <= from /\ from < R * x + R
      /\ y \in Nat /\ R * y <= to /\ to < R * y + R
  BY SecondsBounds
<1>2. R \in Nat /\ TTL \in Nat
  BY AuthAssumption DEF AuthAssumption
<1> HIDE DEF R, x, y
<1>3. \A a, b \in Nat : a <= b => R * a <= R * b
  BY <1>2
<1>4. ASSUME y <= x + TTL
      PROVE  to - from < (TTL + 1) * R
  <2>1. R * y <= R * (x + TTL)
    BY <1>1, <1>2, <1>3, <1>4
  <2>2. R * (x + TTL) = R * x + TTL * R /\ (TTL + 1) * R = TTL * R + R
    BY <1>1, <1>2
  <2>3. R * x \in Nat /\ R * y \in Nat /\ TTL * R \in Nat
    BY <1>1, <1>2
  <2> QED
    BY <1>1, <1>2, <2>1, <2>2, <2>3
<1>5. ASSUME y > x + TTL
      PROVE  to - from > TTL * R
  <2>1. R * (x + TTL + 1) <= R * y
    BY <1>1, <1>2, <1>3, <1>5
  <2>2. R * (x + TTL + 1) = R * x + TTL * R + R
    BY <1>1, <1>2
  <2>3. R * x \in Nat /\ R * y \in Nat /\ TTL * R \in Nat
    BY <1>1, <1>2
  <2> QED
    BY <1>1, <1>2, <2>1, <2>2, <2>3
<1> QED
  BY <1>4, <1>5 DEF R, x, y

-----------------------------------------------------------------------------
(* The initial state, and what every step keeps.                           *)

(* A store is a function of some of the emails. *)
LEMMA IsStore ==
  ASSUME NEW store
  PROVE  store \in UNION {[E -> User] : E \in SUBSET Emails}
           <=> \E E \in SUBSET Emails : store \in [E -> User]
OBVIOUS

LEMMA SeedIsUser == Seed \in User /\ SeededStore \in UNION {[E -> User] : E \in SUBSET Emails}
<1>1. Seed \in User
  BY AuthAssumption DEF AuthAssumption, Seed, User, Ids, Roles, rolePermissions
<1>2. SeededStore \in [{SeedEmail} -> User] /\ {SeedEmail} \in SUBSET Emails
  BY <1>1, AuthAssumption DEF AuthAssumption, SeededStore
<1> QED
  BY <1>1, <1>2, IsStore

LEMMA AuthInvInit == Init => AuthInv
<1> SUFFICES ASSUME Init PROVE AuthInv
  OBVIOUS
<1> USE DEF Init
<1>1. 0 \in 0..MaxTime /\ Never \in Never..MaxTime
  <2>1. MaxTime \in Nat
    BY AuthAssumption DEF AuthAssumption
  <2> QED
    BY ONLY <2>1 DEF Never
<1>2. StateOK
  <2>1. now \in 0..MaxTime /\ secret \in Secrets /\ issued \in SUBSET Token
    BY <1>1
  <2>2. users \in UNION {[E -> User] : E \in SUBSET Emails}
    BY SeedIsUser
  <2>3. /\ pc \in [Requests -> {"idle", "issue", "me", "list", "create", "401", "refused"}]
        /\ \A r \in Requests : pc[r] = "issue" => found[r] \in User
        /\ \A r \in Requests : pc[r] \in {"me", "list", "create"} => token[r] \in issued
    OBVIOUS
  <2>4. since \in [Requests -> 0..MaxTime] /\ hadAt \in [Requests -> Never..MaxTime]
    BY <1>1
  <2>6. heldAt \in [Claimed -> Never..MaxTime]
    BY DEF Claimed
  <2>5. DOMAIN found = Requests /\ token \in [Requests -> issued \cup {NoToken}]
    OBVIOUS
  <2> QED
    BY <2>1, <2>2, <2>3, <2>4, <2>5, <2>6 DEF StateOK, TypeOK
<1>3. HeldInv
  BY DEF HeldInv, Claimed
<1>4. TokenInv
  BY DEF TokenInv
<1>5. CheckedInv
  BY DEF CheckedInv, Checked, Accepted
<1>6. HadInv
  BY DEF HadInv, Accepted
<1> QED
  BY <1>2, <1>3, <1>4, <1>5, <1>6 DEF AuthInv

(* Time does not go back, tokens and what was held are not forgotten.      *)
LEMMA HistoryGrows ==
  ASSUME AuthInv, Next
  PROVE  /\ now <= now' /\ now' \in 0..MaxTime
         /\ issued \subseteq issued'
         /\ heldAt' \in [Claimed' -> Never..MaxTime]
         /\ \A p \in Claimed : p \in Claimed' /\ heldAt[p] <= heldAt'[p]
         /\ \A p \in Claimed' : Has(p[1], p[2]) => heldAt'[p] = now'
         /\ HeldInv'
<1> USE DEF AuthInv, StateOK, TypeOK
<1>1. now \in 0..MaxTime /\ MaxTime \in Nat
  BY AuthAssumption DEF AuthAssumption
<1>2. now <= now' /\ now' \in 0..MaxTime
  <2>1. CASE Tick
    BY <1>1, <2>1 DEF Tick
  <2>2. CASE now' = now
    BY <1>1, <2>2
  <2>3. Tick \/ now' = now
    BY DEF Next, RequestStep, Login, NewToken, Authorize, MethodNotAllowed, BadBody, Answer,
           CreateUser, Restart
  <2> QED
    BY <2>1, <2>2, <2>3
<1>3. issued \subseteq issued'
  BY DEF Next, RequestStep, Login, NewToken, Authorize, MethodNotAllowed, BadBody, Answer,
         CreateUser, Restart, Tick
<1>4. heldAt' = [p \in Claimed' |->
                    IF Has(p[1], p[2]) \/ Has(p[1], p[2])' THEN now'
                    ELSE IF p \in Claimed THEN heldAt[p] ELSE Never]
  BY DEF Next, Remember
<1>5. \A p \in Claimed : heldAt[p] \in Never..MaxTime /\ heldAt[p] <= now
  BY DEF HeldInv
<1>6. \A p \in Claimed : p \in Claimed'
  BY <1>3 DEF Claimed
<1>7. ASSUME NEW p \in Claimed'
      PROVE  /\ heldAt'[p] \in Never..MaxTime /\ heldAt'[p] <= now'
             /\ Has(p[1], p[2]) \/ Has(p[1], p[2])' => heldAt'[p] = now'
             /\ p \in Claimed => heldAt[p] <= heldAt'[p]
  <2> DEFINE had == Has(p[1], p[2]) \/ Has(p[1], p[2])'
  <2>1. heldAt'[p] = IF had THEN now' ELSE IF p \in Claimed THEN heldAt[p] ELSE Never
    BY <1>4
  <2>2. p \in Claimed => heldAt[p] \in Never..MaxTime /\ heldAt[p] <= now
    BY <1>5
  <2> HIDE DEF had
  <2>3. /\ heldAt'[p] \in Never..MaxTime /\ heldAt'[p] <= now'
        /\ had => heldAt'[p] = now'
        /\ p \in Claimed => heldAt[p] <= heldAt'[p]
    BY ONLY <1>1, <1>2, <2>1, <2>2 DEF Never
  <2> QED
    BY <2>3 DEF had
<1>8. heldAt' \in [Claimed' -> Never..MaxTime]
  BY <1>4, <1>7
<1>9. HeldInv'
  BY <1>7 DEF HeldInv
<1> QED
  BY <1>2, <1>3, <1>6, <1>7, <1>8, <1>9

-----------------------------------------------------------------------------
(* The store and the tokens.                                               *)

LEMMA StoreKept ==
  ASSUME AuthInv, Next
  PROVE  secret' \in Secrets /\ users' \in UNION {[E -> User] : E \in SUBSET Emails}
<1> USE DEF AuthInv, StateOK, TypeOK
<1>1. ASSUME NEW r \in Requests, NEW email \in Emails, NEW password \in Passwords,
             NEW role \in RolesAsked, CreateUser(r, email, password, role)
      PROVE  users' \in UNION {[E -> User] : E \in SUBSET Emails}
  <2> DEFINE u == [id |-> email, passwordHash |-> hashPassword(password),
                   role |-> DefaultRole(role)]
  <2>1. PICK E \in SUBSET Emails : users \in [E -> User]
    BY IsStore
  <2>2. u \in User
    <3>1. email \in Ids /\ hashPassword(password) \in {hashPassword(pw) : pw \in Passwords}
      BY DEF Ids
    <3>2. DefaultRole(role) \in Roles
      BY AuthAssumption DEF AuthAssumption, DefaultRole, Roles, rolePermissions
    <3> QED
      BY ONLY <3>1, <3>2 DEF User
  <2>3. users' = [e \in DOMAIN users \cup {email} |-> IF e = email THEN u ELSE users[e]]
    BY <1>1 DEF CreateUser, Create
  <2> HIDE DEF u
  <2>4. E \cup {email} \in SUBSET Emails /\ users' \in [E \cup {email} -> User]
    BY <2>1, <2>2, <2>3
  <2> QED
    BY <2>4, IsStore
<1>2. CASE Restart
  BY <1>2, SeedIsUser DEF Restart
<1>3. \/ Restart
      \/ secret' = secret
         /\ \/ users' = users
            \/ \E r \in Requests, email \in Emails, password \in Passwords, role \in RolesAsked :
                 CreateUser(r, email, password, role)
  BY DEF Next, RequestStep, Login, NewToken, Authorize, MethodNotAllowed, BadBody, Answer,
         CreateUser, Tick
<1> QED
  BY <1>1, <1>2, <1>3

(* A new token tells the truth: its role is held at the moment it is made. *)
LEMMA TokensKept ==
  ASSUME AuthInv, Next
  PROVE  issued' \in SUBSET Token /\ TokenInv'
<1> USE DEF AuthInv, StateOK, TypeOK
<1>1. /\ now \in Nat /\ now' \in Nat /\ now <= now' /\ now \in 0..MaxTime
      /\ heldAt \in [Claimed -> Never..MaxTime] /\ heldAt' \in [Claimed' -> Never..MaxTime]
      /\ \A p \in Claimed : p \in Claimed' /\ heldAt[p] <= heldAt'[p]
      /\ \A p \in Claimed' : Has(p[1], p[2]) => heldAt'[p] = now'
  BY HistoryGrows
<1>2. MaxTime \in Nat /\ TTL \in Nat
  BY AuthAssumption DEF AuthAssumption
<1>3. ASSUME NEW r \in Requests, NewToken(r)
      PROVE  \E t \in Token : /\ issued' = issued \cup {t}
                              /\ t.issuedAt = now
                              /\ t.exp = Seconds(t.issuedAt) + TTL
                              /\ t.issuedAt <= heldAt'[<<t.sub, t.role>>]
  <2> DEFINE t == [sub |-> found[r].id, role |-> found[r].role, exp |-> ExpiresAt,
                   signedWith |-> secret, issuedAt |-> now]
  <2>1. found[r] \in User /\ pc[r] = "issue"
    BY <1>3 DEF NewToken
  <2>2. found[r].id \in Ids /\ found[r].role \in Roles
    BY <2>1 DEF User
  <2>3. ExpiresAt = Seconds(now) + TTL /\ ExpiresAt \in Nat
    BY <1>1, <1>2, SecondsBounds DEF ExpiresAt
  <2>4. t \in Token
    BY <1>1, <2>2, <2>3 DEF Token
  <2>5. Has(found[r].id, found[r].role)
    BY <2>1 DEF Has
  <2>6. issued' = issued \cup {t}
    BY <1>3 DEF NewToken
  <2>7. /\ t.issuedAt = now /\ t.exp = Seconds(now) + TTL
        /\ t.sub = found[r].id /\ t.role = found[r].role
    BY <2>3
  <2> HIDE DEF t
  <2>8. PICK p : p = <<t.sub, t.role>>
    OBVIOUS
  <2>9. p \in Claimed' /\ Has(p[1], p[2])
    BY <2>5, <2>6, <2>7, <2>8 DEF Claimed
  <2>10. heldAt'[p] = now'
    BY <1>1, <2>9
  <2> QED
    BY <1>1, <2>4, <2>6, <2>7, <2>8, <2>10
<1>4. issued' = issued \/ \E r \in Requests : NewToken(r)
  BY DEF Next, RequestStep, Login, Authorize, MethodNotAllowed, BadBody, Answer, CreateUser,
         Tick, Restart
<1>5. PICK new \in SUBSET Token :
        /\ issued' = issued \cup new
        /\ \A t \in new : /\ t.issuedAt = now /\ t.exp = Seconds(t.issuedAt) + TTL
                          /\ t.issuedAt <= heldAt'[<<t.sub, t.role>>]
  <2>1. CASE issued' = issued
    <3>1. {} \in SUBSET Token
      OBVIOUS
    <3> QED
      BY <2>1, <3>1
  <2>2. CASE \E r \in Requests : NewToken(r)
    <3>1. PICK t \in Token : /\ issued' = issued \cup {t}
                             /\ t.issuedAt = now
                             /\ t.exp = Seconds(t.issuedAt) + TTL
                             /\ t.issuedAt <= heldAt'[<<t.sub, t.role>>]
      BY <1>3, <2>2
    <3>2. {t} \in SUBSET Token
      OBVIOUS
    <3> QED
      BY ONLY <3>1, <3>2
  <2> QED
    BY <1>4, <2>1, <2>2
<1>6. issued' \in SUBSET Token
  BY <1>5
<1>7. ASSUME NEW t \in issued'
      PROVE  /\ t.issuedAt <= now'
             /\ t.exp = Seconds(t.issuedAt) + TTL
             /\ t.issuedAt <= heldAt'[<<t.sub, t.role>>]
  <2>1. t.issuedAt \in 0..MaxTime
    BY <1>6 DEF Token
  <2>2. CASE t \in new
    BY <1>1, <1>5, <2>2
  <2>3. CASE t \in issued
    <3> DEFINE p == <<t.sub, t.role>>
    <3>1. /\ t.exp = Seconds(t.issuedAt) + TTL
          /\ t.issuedAt <= now /\ t.issuedAt <= heldAt[p]
      BY <2>3 DEF TokenInv
    <3>2. p \in Claimed
      BY <2>3 DEF Claimed
    <3> HIDE DEF p
    <3>3. /\ heldAt[p] \in Never..MaxTime /\ heldAt'[p] \in Never..MaxTime
          /\ heldAt[p] <= heldAt'[p]
      BY ONLY <1>1, <3>2
    <3>4. t.issuedAt <= now' /\ t.issuedAt <= heldAt'[p]
      BY ONLY <1>1, <1>2, <2>1, <3>1, <3>3 DEF Never
    <3> QED
      BY <3>1, <3>4 DEF p
  <2> QED
    BY <1>5, <2>2, <2>3
<1>8. TokenInv'
  BY <1>7 DEF TokenInv, Seconds
<1> QED
  BY <1>6, <1>8

-----------------------------------------------------------------------------
(* The requests.                                                           *)

(* Outside a restart a request's variables change only for itself, to      *)
(* values that were there before or are new in the step.                   *)
LEMMA RequestsKept ==
  ASSUME AuthInv, Next
  PROVE  /\ pc' \in [Requests -> {"idle", "issue", "me", "list", "create", "401", "refused"}]
         /\ DOMAIN found' = Requests
         /\ token' \in [Requests -> issued' \cup {NoToken}]
         /\ since' \in [Requests -> 0..MaxTime]
         /\ \A r \in Requests : pc'[r] = "issue" => found'[r] \in User
         /\ \A r \in Requests : since'[r] <= now'
<1> USE DEF AuthInv, StateOK, TypeOK
<1> DEFINE Places == {"idle", "issue", "me", "list", "create", "401", "refused"}
           Shown == issued \cup {NoToken}
           Times == 0..MaxTime
<1>1. /\ pc \in [Requests -> Places] /\ token \in [Requests -> Shown]
      /\ since \in [Requests -> Times] /\ DOMAIN found = Requests
      /\ 0 \in Times /\ now \in Times /\ NoToken \in Shown
      /\ \A r \in Requests : since[r] <= now /\ (pc[r] = "issue" => found[r] \in User)
  <2>1. MaxTime \in Nat
    BY AuthAssumption DEF AuthAssumption
  <2>2. 0 \in Times
    BY ONLY <2>1
  <2>3. \A r \in Requests : since[r] <= now
    BY DEF CheckedInv
  <2> QED
    BY <2>2, <2>3
<1>2. now' \in Times /\ now <= now' /\ issued \subseteq issued' /\ MaxTime \in Nat
  BY HistoryGrows, AuthAssumption DEF AuthAssumption
<1>3. \A n \in Times : n <= now => n <= now'
  BY <1>1, <1>2
<1>4. now <= now' /\ 0 <= now'
  BY <1>2
<1> DEFINE Kept == /\ pc' \in [Requests -> Places]
                   /\ DOMAIN found' = Requests
                   /\ token' \in [Requests -> Shown]
                   /\ since' \in [Requests -> Times]
                   /\ \A q \in Requests : pc'[q] = "issue" => found'[q] \in User
                   /\ \A q \in Requests : since'[q] <= now'
<1> HIDE DEF Times, Shown
<1>5. ASSUME NEW r \in Requests, NEW email \in Emails, NEW password \in Passwords,
             Login(r, email, password)
      PROVE  Kept
  <2>1. \A u \in GetByEmail(email) : u \in User
    <3>1. PICK E \in SUBSET Emails : users \in [E -> User]
      BY IsStore
    <3> QED
      BY <3>1 DEF GetByEmail
  <2>2. /\ UNCHANGED <<token, since>>
        /\ \/ /\ pc' = [pc EXCEPT ![r] = "issue"]
              /\ \E user \in User : found' = [found EXCEPT ![r] = user]
           \/ /\ pc' = [pc EXCEPT ![r] = "401"]
              /\ UNCHANGED found
    BY <1>5, <2>1 DEF Login
  <2>3. \A q \in Requests : since'[q] <= now'
    BY <1>1, <1>3, <2>2
  <2> QED
    BY ONLY <1>1, <2>2, <2>3, r \in Requests
<1>6. ASSUME NEW r \in Requests, NewToken(r)
      PROVE  Kept
  <2>1. /\ UNCHANGED <<token, since>>
        /\ pc' = [pc EXCEPT ![r] = "idle"] /\ found' = [found EXCEPT ![r] = Seed]
    BY <1>6 DEF NewToken
  <2>2. \A q \in Requests : since'[q] <= now'
    BY <1>1, <1>3, <2>1
  <2> QED
    BY ONLY <1>1, <2>1, <2>2, r \in Requests
<1>7. ASSUME NEW r \in Requests, NEW op \in {"me", "list", "create"}, NEW t \in Shown,
             NEW bearer \in BOOLEAN, Authorize(r, op, [bearer |-> bearer, token |-> t])
      PROVE  Kept
  <2>1. /\ UNCHANGED found
        /\ \E shown \in Shown : token' = [token EXCEPT ![r] = shown]
        /\ since' = [since EXCEPT ![r] = now]
        /\ \E place \in {"401", "refused", "me", "list", "create"} : pc' = [pc EXCEPT ![r] = place]
    BY <1>1, <1>7 DEF Authorize, claimsFromRequest
  <2>2. \A q \in Requests : since'[q] <= now'
    BY <1>1, <1>3, <1>4, <2>1
  <2> QED
    BY ONLY <1>1, <2>1, <2>2, r \in Requests
<1>8. ASSUME NEW r \in Requests, MethodNotAllowed(r)
      PROVE  Kept
  <2>1. UNCHANGED <<found, token, since>> /\ pc' = [pc EXCEPT ![r] = "refused"]
    BY <1>8 DEF MethodNotAllowed
  <2>2. \A q \in Requests : since'[q] <= now'
    BY <1>1, <1>3, <2>1
  <2> QED
    BY ONLY <1>1, <2>1, <2>2, r \in Requests
<1>9. ASSUME NEW r \in Requests,
             BadBody(r) \/ Answer(r)
               \/ \E email \in Emails, password \in Passwords, role \in RolesAsked :
                    CreateUser(r, email, password, role)
      PROVE  Kept
  <2>1. /\ UNCHANGED found
        /\ token' = [token EXCEPT ![r] = NoToken]
        /\ since' = [since EXCEPT ![r] = 0]
        /\ \E place \in {"idle", "refused"} : pc' = [pc EXCEPT ![r] = place]
    BY <1>9 DEF BadBody, Answer, CreateUser
  <2>2. \A q \in Requests : since'[q] <= now'
    BY <1>1, <1>3, <1>4, <2>1
  <2> QED
    BY ONLY <1>1, <2>1, <2>2, r \in Requests
<1>10. ASSUME NEW r \in Requests, RequestStep(r)
       PROVE  Kept
  BY <1>5, <1>6, <1>7, <1>8, <1>9, <1>10 DEF RequestStep, Shown
<1>11. ASSUME Kept
       PROVE  token' \in [Requests -> issued' \cup {NoToken}]
  BY <1>2, <1>11 DEF Shown
<1>12. CASE \E r \in Requests : RequestStep(r)
  <2>1. Kept
    BY ONLY <1>10, <1>12
  <2>2. token' \in [Requests -> issued' \cup {NoToken}]
    BY ONLY <1>11, <2>1
  <2> QED
    BY ONLY <2>1, <2>2 DEF Times
<1>13. CASE Tick
  <2>1. UNCHANGED reqVars
    BY <1>13 DEF Tick
  <2>2. \A r \in Requests : since'[r] <= now'
    BY <1>1, <1>3, <2>1 DEF reqVars
  <2> QED
    BY <1>1, <1>2, <2>1, <2>2 DEF reqVars, Shown, Times
<1>14. CASE Restart
  <2>1. /\ pc' = [r \in Requests |-> "idle"] /\ found' = [r \in Requests |-> Seed]
        /\ token' = [r \in Requests |-> NoToken] /\ since' = [r \in Requests |-> 0]
    BY <1>14 DEF Restart
  <2>2. since' \in [Requests -> Times] /\ \A r \in Requests : since'[r] <= now'
    BY ONLY <1>1, <1>4, <2>1
  <2>3. /\ pc' \in [Requests -> Places] /\ DOMAIN found' = Requests
        /\ token' \in [Requests -> issued' \cup {NoToken}]
        /\ \A r \in Requests : pc'[r] # "issue"
    BY ONLY <2>1
  <2> QED
    BY ONLY <2>2, <2>3 DEF Times
<1> QED
  BY <1>12, <1>13, <1>14 DEF Next

(* No step but a restart touches what the check of another request found.  *)
LEMMA CheckedOfOthers ==
  ASSUME AuthInv, NEW r \in Requests, secret' = secret,
         pc'[r] = pc[r], token'[r] = token[r], since'[r] = since[r]
  PROVE  Checked(r)'
<1>1. Checked(r)
  BY DEF AuthInv, CheckedInv
<1> QED
  BY <1>1 DEF Checked, Accepted, SignatureHolds, Seconds, Permitted, HasPermission

LEMMA CheckedKept ==
  ASSUME AuthInv, Next
  PROVE  CheckedInv'
<1> SUFFICES ASSUME NEW q \in Requests PROVE Checked(q)'
  BY RequestsKept DEF CheckedInv
<1> USE DEF AuthInv, StateOK, TypeOK
<1>1. /\ pc \in [Requests -> {"idle", "issue", "me", "list", "create", "401", "refused"}]
      /\ token \in [Requests -> issued \cup {NoToken}] /\ since \in [Requests -> 0..MaxTime]
      /\ now \in Nat
      /\ \A r \in Requests : Checked(r)
  BY DEF CheckedInv
<1>2. ASSUME NEW t \in issued
      PROVE  t.exp \in Nat /\ Seconds(now) \in Nat
  BY <1>1, SecondsBounds DEF Token
<1>3. ASSUME NEW r \in Requests, RequestStep(r), q # r
      PROVE  Checked(q)'
  <2>1. secret' = secret /\ pc'[q] = pc[q] /\ token'[q] = token[q] /\ since'[q] = since[q]
    BY <1>3 DEF RequestStep, Login, NewToken, Authorize, MethodNotAllowed, BadBody, Answer,
                CreateUser
  <2> QED
    BY <2>1, CheckedOfOthers
<1>4. ASSUME NEW op \in {"me", "list", "create"}, NEW t \in issued \cup {NoToken},
             NEW bearer \in BOOLEAN, Authorize(q, op, [bearer |-> bearer, token |-> t])
      PROVE  Checked(q)'
  <2> DEFINE shown == IF bearer THEN t ELSE NoToken
  <2>1. /\ shown \in issued \cup {NoToken} /\ secret' = secret
        /\ token'[q] = shown /\ since'[q] = now
        /\ pc'[q] = IF ~ParseToken(shown) THEN "401" ELSE IF Permitted(shown, op) THEN op ELSE "refused"
    BY <1>1, <1>4 DEF Authorize, claimsFromRequest
  <2> HIDE DEF shown
  <2>2. CASE ~ParseToken(shown)
    <3>1. pc'[q] = "401"
      BY <2>1, <2>2
    <3>2. shown # NoToken => shown.signedWith # secret \/ Seconds(now) > shown.exp
      BY <2>2 DEF ParseToken, SignatureHolds, Expired
    <3> QED
      BY ONLY <2>1, <3>1, <3>2 DEF Checked, Accepted, Seconds
  <2>3. CASE ParseToken(shown) /\ Permitted(shown, op)
    <3>1. pc'[q] = op
      BY <2>1, <2>3
    <3>2. shown \in issued /\ shown.signedWith = secret /\ ~(Seconds(now) > shown.exp)
      BY <2>1, <2>3 DEF ParseToken, SignatureHolds, Expired
    <3>3. Seconds(now) <= shown.exp /\ shown # NoToken
      BY <1>2, <2>3, <3>2 DEF ParseToken, SignatureHolds
    <3> QED
      BY ONLY <2>1, <2>3, <3>1, <3>2, <3>3, op \in {"me", "list", "create"}
         DEF Checked, Accepted, Seconds, SignatureHolds, Permitted, HasPermission
  <2>4. CASE ParseToken(shown) /\ ~Permitted(shown, op)
    <3>1. pc'[q] = "refused"
      BY <2>1, <2>4
    <3> QED
      BY ONLY <3>1 DEF Checked, Accepted
  <2> QED
    BY <2>2, <2>3, <2>4
<1>5. ASSUME RequestStep(q)
      PROVE  Checked(q)'
  <2>1. ASSUME pc'[q] \in {"idle", "issue", "401", "refused"}, token'[q] = NoToken
        PROVE  Checked(q)'
    BY <2>1 DEF Checked, Accepted
  <2>2. pc[q] = "idle" \/ pc[q] = "issue" => token[q] = NoToken
    BY <1>1 DEF Checked
  <2>3. \/ /\ pc'[q] \in {"idle", "issue", "401", "refused"}
           /\ token'[q] = NoToken
        \/ \E op \in {"me", "list", "create"}, t \in issued \cup {NoToken}, bearer \in BOOLEAN :
             Authorize(q, op, [bearer |-> bearer, token |-> t])
    BY <1>1, <1>5, <2>2
       DEF RequestStep, Login, NewToken, MethodNotAllowed, BadBody, Answer, CreateUser
  <2> QED
    BY <1>4, <2>1, <2>3
<1>6. CASE Tick
  BY <1>6, CheckedOfOthers DEF Tick, reqVars
<1>7. CASE Restart
  <2>1. pc'[q] = "idle" /\ token'[q] = NoToken
    BY <1>7 DEF Restart
  <2> QED
    BY ONLY <2>1 DEF Checked, Accepted
<1> QED
  BY <1>3, <1>5, <1>6, <1>7 DEF Next

(* A request that passes has passed before, or is checked in this step.    *)
LEMMA AcceptedSteps ==
  ASSUME AuthInv, Next, NEW r \in Requests, Accepted(r)'
  PROVE  \/ Accepted(r) /\ token'[r] = token[r]
         \/ ~Accepted(r) /\ issued' = issued
<1> USE DEF AuthInv, StateOK, TypeOK
<1>1. ASSUME NEW q \in Requests, RequestStep(q), q # r
      PROVE  Accepted(r) /\ token'[r] = token[r]
  <2>1. pc'[r] = pc[r] /\ token'[r] = token[r]
    BY <1>1 DEF RequestStep, Login, NewToken, Authorize, MethodNotAllowed, BadBody, Answer,
                CreateUser
  <2> QED
    BY <2>1 DEF Accepted
<1>2. ASSUME RequestStep(r)
      PROVE  ~Accepted(r) /\ issued' = issued
  <2>1. pc'[r] \in {"me", "list", "create"}
    BY DEF Accepted
  <2>2. pc[r] = "idle" /\ issued' = issued
    BY <1>2, <2>1 DEF RequestStep, Login, NewToken, Authorize, MethodNotAllowed, BadBody, Answer,
                CreateUser
  <2> QED
    BY <2>2 DEF Accepted
<1>3. CASE Tick
  BY <1>3 DEF Tick, reqVars, Accepted
<1>4. ~Restart
  BY DEF Restart, Accepted
<1> QED
  BY <1>1, <1>2, <1>3, <1>4 DEF Next

LEMMA HadKept ==
  ASSUME AuthInv, Next
  PROVE  hadAt' \in [Requests -> Never..MaxTime] /\ HadInv'
<1> USE DEF AuthInv, StateOK, TypeOK
<1>1. hadAt' = [r \in Requests |->
                  IF ~Accepted(r)' THEN Never
                  ELSE IF Accepted(r) THEN hadAt[r]
                  ELSE heldAt[<<token'[r].sub, token'[r].role>>]]
  BY DEF Next, Remember
<1>2. Never \in Never..MaxTime
  <2>1. MaxTime \in Nat
    BY AuthAssumption DEF AuthAssumption
  <2> QED
    BY ONLY <2>1 DEF Never
<1>3. ASSUME NEW r \in Requests
      PROVE  /\ hadAt'[r] \in Never..MaxTime
             /\ Accepted(r)' => token'[r].issuedAt <= hadAt'[r]
  <2>1. CASE ~Accepted(r)'
    BY <1>1, <1>2, <2>1
  <2>2. CASE Accepted(r)' /\ Accepted(r)
    <3>1. hadAt'[r] = hadAt[r] /\ token'[r] = token[r]
      BY <1>1, <2>2, AcceptedSteps
    <3> QED
      BY <2>2, <3>1 DEF HadInv
  <2>3. CASE Accepted(r)' /\ ~Accepted(r)
    <3> DEFINE t == token'[r]
    <3>1. hadAt'[r] = heldAt[<<t.sub, t.role>>]
      BY <1>1, <2>3
    <3>2. t \in issued
      <4>1. issued' = issued
        BY <2>3, AcceptedSteps
      <4>2. t \in issued' \cup {NoToken}
        BY RequestsKept
      <4>3. t # NoToken
        BY <2>3, CheckedKept DEF CheckedInv, Checked, SignatureHolds
      <4> QED
        BY <4>1, <4>2, <4>3
    <3> HIDE DEF t
    <3>3. <<t.sub, t.role>> \in Claimed
      BY <3>2 DEF Claimed
    <3>4. t.issuedAt <= heldAt[<<t.sub, t.role>>]
      BY <3>2 DEF TokenInv
    <3> QED
      BY <3>1, <3>3, <3>4 DEF t
  <2> QED
    BY <2>1, <2>2, <2>3
<1> QED
  BY <1>1, <1>3 DEF HadInv

LEMMA AuthInvStep ==
  ASSUME AuthInv, Next
  PROVE  AuthInv'
<1>1. TypeOK'
  <2>1. \A r \in Requests : pc'[r] \in {"me", "list", "create"} => token'[r] \in issued'
    BY RequestsKept, CheckedKept DEF CheckedInv, Checked, Accepted, SignatureHolds
  <2> QED
    BY <2>1, HistoryGrows, StoreKept, TokensKept, RequestsKept, HadKept DEF TypeOK
<1>2. DOMAIN found' = Requests /\ token' \in [Requests -> issued' \cup {NoToken}]
  BY RequestsKept
<1> QED
  BY <1>1, <1>2, HistoryGrows, TokensKept, CheckedKept, HadKept DEF AuthInv, StateOK

LEMMA AuthInvAlways == Spec => []AuthInv
<1>1. AuthInv /\ UNCHANGED vars => AuthInv'
  <2> SUFFICES ASSUME AuthInv, UNCHANGED vars PROVE AuthInv'
    OBVIOUS
  <2> USE DEF vars, reqVars
  <2>1. StateOK'
    BY DEF AuthInv, StateOK, TypeOK, Claimed
  <2>2. HeldInv'
    BY DEF AuthInv, HeldInv, Has, Claimed
  <2>3. TokenInv'
    BY DEF AuthInv, TokenInv, Seconds
  <2>4. CheckedInv'
    BY CheckedOfOthers DEF AuthInv, CheckedInv
  <2>5. HadInv'
    BY DEF AuthInv, HadInv, Accepted
  <2> QED
    BY <2>1, <2>2, <2>3, <2>4, <2>5 DEF AuthInv
<1>2. AuthInv /\ [Next]_vars => AuthInv'
  BY <1>1, AuthInvStep
<1> QED
  BY <1>2, AuthInvInit, PTL DEF Spec

-----------------------------------------------------------------------------
(* The theorems.                                                           *)

(* Every variable of auth-service stays in its range; a request that is    *)
(* being served holds a token that was handed out.                         *)
THEOREM AuthTypes == Spec => []TypeOK
<1>1. AuthInv => TypeOK
  BY DEF AuthInv, StateOK
<1> QED
  BY <1>1, AuthInvAlways, PTL

(* What a token that is looked at says about time. *)
LEMMA TokenTimes ==
  ASSUME AuthInv, NEW r \in Requests, token[r] # NoToken
  PROVE  /\ token[r] \in issued
         /\ since[r] \in Nat /\ token[r].issuedAt \in Nat
         /\ token[r].exp = Seconds(token[r].issuedAt) + TTL
         /\ Seconds(since[r]) <= token[r].exp => Age(r) < (TTL + 1) * Resolution
         /\ Seconds(since[r]) > token[r].exp => Age(r) > TTL * Resolution
<1>1. token[r] \in issued
  BY DEF AuthInv, StateOK
<1>2. token[r].issuedAt \in Nat /\ token[r].exp = Seconds(token[r].issuedAt) + TTL
  <2>1. token[r].exp = Seconds(token[r].issuedAt) + TTL
    BY <1>1 DEF AuthInv, TokenInv
  <2>2. token[r] \in Token
    BY <1>1 DEF AuthInv, StateOK, TypeOK
  <2>3. token[r].issuedAt \in Nat
    BY ONLY <2>2 DEF Token
  <2> QED
    BY <2>1, <2>3
<1>3. since[r] \in Nat
  BY DEF AuthInv, StateOK, TypeOK
<1> DEFINE from == token[r].issuedAt
           to == since[r]
<1>4. /\ Seconds(to) <= Seconds(from) + TTL => to - from < (TTL + 1) * Resolution
      /\ Seconds(to) > Seconds(from) + TTL => to - from > TTL * Resolution
  <2>1. from \in Nat /\ to \in Nat
    BY <1>2, <1>3
  <2> HIDE DEF from, to
  <2> QED
    BY <2>1, WithinSeconds
<1> QED
  BY ONLY <1>1, <1>2, <1>3, <1>4 DEF Age

(* ParseToken takes a token for its whole time to live and for less than a *)
(* second more, with the secret it was signed with and no other.           *)
THEOREM TokenLifetime == Spec => []ExpiryWindow
<1>1. AuthInv => ExpiryWindow
  <2> SUFFICES ASSUME AuthInv, NEW r \in Requests, token[r] # NoToken
               PROVE  /\ Accepted(r) => /\ token[r].signedWith = secret
                                        /\ Age(r) < (TTL + 1) * Resolution
                      /\ pc[r] = "401" => \/ token[r].signedWith # secret
                                          \/ Age(r) > TTL * Resolution
    BY DEF ExpiryWindow
  <2>1. Checked(r)
    BY DEF AuthInv, CheckedInv
  <2> QED
    BY <2>1, TokenTimes DEF Checked, SignatureHolds
<1> QED
  BY <1>1, AuthInvAlways, PTL

(* What the check of a token that passed says about its role. *)
LEMMA HadTimes ==
  ASSUME AuthInv, NEW r \in Requests, Accepted(r)
  PROVE  hadAt[r] # Never /\ since[r] < hadAt[r] + (TTL + 1) * Resolution
<1> DEFINE limit == (TTL + 1) * Resolution
<1>1. token[r] # NoToken /\ Seconds(since[r]) <= token[r].exp
  BY DEF AuthInv, CheckedInv, Checked, SignatureHolds
<1>2. /\ since[r] \in Nat /\ token[r].issuedAt \in Nat
      /\ since[r] - token[r].issuedAt < limit
  BY <1>1, TokenTimes DEF Age
<1>3. token[r].issuedAt <= hadAt[r]
  BY DEF AuthInv, HadInv
<1>4. hadAt[r] \in Never..MaxTime /\ MaxTime \in Nat /\ TTL \in Nat /\ Resolution \in Nat
  BY AuthAssumption DEF AuthAssumption, AuthInv, StateOK, TypeOK
<1>5. limit \in Nat
  BY ONLY <1>4
<1> HIDE DEF limit
<1>6. hadAt[r] # Never /\ since[r] < hadAt[r] + limit
  BY ONLY <1>2, <1>3, <1>4, <1>5 DEF Never
<1> QED
  BY <1>6 DEF limit

(* A role that was taken away, or whose account was replaced or lost, no   *)
(* longer passes once the time to live and a second have gone by.          *)
THEOREM RevokedRolesExpire == Spec => []RevocationTakesEffect
<1>1. AuthInv => RevocationTakesEffect
  BY HadTimes DEF RevocationTakesEffect
<1> QED
  BY <1>1, AuthInvAlways, PTL

(* Only the admin's permissions contain users:write. *)
LEMMA WritersAreAdmins ==
  ASSUME NEW role, HasPermission(role, "users:write")
  PROVE  role = "admin"
BY DEF HasPermission, rolePermissions, Permissions

(* Whatever changes the store, but for a restart, is the CreateUser step   *)
(* of one request, with a token that says "admin" of an id that had been   *)
(* an admin less than the time to live and a second before the check.      *)
THEOREM OnlyAdminsChangeTheStore == Spec => AdminsOnly
<1> DEFINE ByAdmin(r) == /\ pc[r] = "create" /\ pc'[r] = "idle"
                         /\ token[r].role = "admin"
                         /\ hadAt[r] # Never /\ since[r] < hadAt[r] + (TTL + 1) * Resolution
<1>1. ASSUME AuthInv, NEW r \in Requests, pc[r] = "create", pc'[r] = "idle"
      PROVE  ByAdmin(r)
  <2>1. Accepted(r)
    BY <1>1 DEF Accepted
  <2>2. Permitted(token[r], "create")
    BY <1>1, <2>1 DEF AuthInv, CheckedInv, Checked
  <2>3. token[r].role = "admin"
    BY <2>2, WritersAreAdmins DEF Permitted
  <2> QED
    BY <1>1, <2>1, <2>3, HadTimes
<1>2. ASSUME AuthInv, [Next]_vars, users' # users
      PROVE  Restart \/ \E r \in Requests : ByAdmin(r)
  <2>1. Restart \/ \E r \in Requests, email \in Emails, password \in Passwords,
                      role \in RolesAsked : CreateUser(r, email, password, role)
    BY <1>2 DEF Next, RequestStep, Login, NewToken, Authorize, MethodNotAllowed, BadBody, Answer,
                Tick, vars
  <2>2. ASSUME NEW r \in Requests, NEW email \in Emails, NEW password \in Passwords,
               NEW role \in RolesAsked, CreateUser(r, email, password, role)
        PROVE  pc[r] = "create" /\ pc'[r] = "idle"
    BY <1>2, <2>2 DEF CreateUser, AuthInv, StateOK, TypeOK
  <2> QED
    BY <1>1, <1>2, <2>1, <2>2
<1>3. AuthInv /\ [Next]_vars =>
        [users' # users => Restart \/ \E r \in Requests : ByAdmin(r)]_vars
  BY <1>2
<1> QED
  BY <1>3, AuthInvAlways, PTL DEF Spec, AdminsOnly
=============================================================================
