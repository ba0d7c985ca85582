--------------------------- MODULE RegistryProofs ---------------------------
(***************************************************************************)
(* The registry implements RegistrySpec for any number of devices, workers *)
(* and requests: Touch's three writes and Snapshot's copies, one device at *)
(* a time, look like one instant each.                                     *)
(***************************************************************************)
EXTENDS Registry, Integers, TLAPS

(* The read-write mutex: at most one worker past the announcement, no      *)
(* reader beside a worker inside, and those who copy hold the read lock.   *)
MutexInv ==
  /\ \A w \in Workers : wpc[w] \notin {"idle", "lock"} => writer = w
  /\ \A w \in Workers : wpc[w] \notin {"idle", "lock", "announced"} => readers = {}
  /\ readers = {q \in Requests : qpc[q] = "copy"}

(* How far the worker inside is with its entry; an entry that is not in    *)
(* the map has counted nothing, and one that is has been seen, unless the  *)
(* worker inside is just making it.                                        *)
TouchInv ==
  /\ \A w \in Workers :
       /\ wpc[w] # "idle" => target[w] \in Devices \X Times
       /\ wpc[w] \in {"lastSeen", "count", "unlock"} => target[w][1] \in known
       /\ wpc[w] \in {"count", "unlock"} => lastSeen[target[w][1]] = target[w][2]
  /\ \A d \in Devices \ known : count[d] = 0
  /\ \A d \in known :
       \/ lastSeen[d] \in Times
       \/ \E w \in Workers : wpc[w] = "lastSeen" /\ target[w][1] = d

(* What a request has copied is still what the map has. *)
Entry(d) == [lastSeen |-> lastSeen[d], count |-> count[d]]
CopyInv ==
  \A q \in Requests :
    /\ qpc[q] # "copy" => out[q] = <<>>
    /\ DOMAIN out[q] \subseteq known
    /\ out[q] = [d \in DOMAIN out[q] |-> Entry(d)]

RegistryInv == TypeOK /\ MutexInv /\ TouchInv /\ CopyInv

-----------------------------------------------------------------------------
(* Copies and counters.                                                    *)

LEMMA EmptyCopy ==
  /\ DOMAIN <<>> = {} /\ <<>> \in Fleet
  /\ <<>> = [d \in DOMAIN <<>> |-> Entry(d)]
  /\ <<>> = [d \in DOMAIN <<>> |-> Entry(d)']
<1>1. DOMAIN <<>> = {}
  OBVIOUS
<1>2. <<>> \in [{} -> Status] /\ {} \in SUBSET Devices
  OBVIOUS
<1>3. <<>> \in Fleet
  BY <1>2 DEF Fleet
<1> QED
  BY <1>1, <1>3

LEMMA SuccessorType ==
  ASSUME NEW n \in 0..Modulus - 1
  PROVE  Successor(n) \in 0..Modulus - 1
<1> DEFINE M == Modulus
<1>1. M \in Nat \ {0, 1}
  BY RegistryAssumption DEF RegistryAssumption
<1> HIDE DEF M
<1>2. \A k \in Nat : k % M \in 0..M - 1
  BY ONLY <1>1
<1>3. n + 1 \in Nat
  <2>1. n \in 0..M - 1
    BY DEF M
  <2> QED
    BY ONLY <1>1, <2>1
<1> QED
  BY <1>2, <1>3 DEF Successor, M

LEMMA RegistryInvInit == Init => RegistryInv
<1> SUFFICES ASSUME Init PROVE RegistryInv
  OBVIOUS
<1> USE DEF Init
<1>1. TypeOK
  <2>1. 0 \in 0..Modulus - 1
    <3>1. Modulus \in Nat \ {0, 1}
      BY RegistryAssumption DEF RegistryAssumption
    <3> QED
      BY ONLY <3>1
  <2> QED
    BY <2>1, EmptyCopy DEF TypeOK, Zero
<1>2. MutexInv
  BY DEF MutexInv
<1>3. TouchInv
  BY DEF TouchInv
<1>4. CopyInv
  BY EmptyCopy DEF CopyInv
<1> QED
  BY <1>1, <1>2, <1>3, <1>4 DEF RegistryInv

-----------------------------------------------------------------------------
(* Every step keeps the invariant.                                         *)

LEMMA TypesKept ==
  ASSUME RegistryInv, [Next]_vars
  PROVE  TypeOK'
<1> USE DEF RegistryInv, TypeOK
<1>1. ASSUME NEW w \in Workers, NEW d \in Devices, NEW at \in Times, CallTouch(w, d, at)
      PROVE  TypeOK'
  BY <1>1 DEF CallTouch, mapVars
<1>2. ASSUME NEW w \in Workers, Announce(w) \/ Enter(w)
      PROVE  TypeOK'
  BY <1>2 DEF Announce, Enter, mapVars
<1>3. ASSUME NEW w \in Workers, wpc[w] # "idle"
      PROVE  target[w] \in Devices \X Times
  BY <1>3 DEF TouchInv
<1>4. ASSUME NEW w \in Workers, Find(w) \/ SetLastSeen(w)
      PROVE  TypeOK'
  BY <1>3, <1>4 DEF Find, SetLastSeen
<1>5. ASSUME NEW w \in Workers, Increment(w)
      PROVE  TypeOK'
  <2>1. target[w][1] \in Devices
    BY <1>3, <1>5 DEF Increment
  <2>2. Successor(count[target[w][1]]) \in 0..Modulus - 1
    BY <2>1, SuccessorType
  <2>3. count' \in [Devices -> 0..Modulus - 1]
    BY <1>5, <2>2 DEF Increment
  <2> QED
    BY <1>5, <2>3 DEF Increment
<1>6. ASSUME NEW w \in Workers, Unlock(w)
      PROVE  TypeOK'
  BY <1>6 DEF Unlock, mapVars, Admitted, Blocked
<1>7. ASSUME NEW q \in Requests, CallSnapshot(q) \/ RLock(q)
      PROVE  TypeOK'
  BY <1>7, EmptyCopy DEF CallSnapshot, RLock, mapVars, workerVars
<1>8. ASSUME NEW q \in Requests, NEW d \in Devices, Copy(q, d)
      PROVE  TypeOK'
  <2> DEFINE D == DOMAIN out[q]
             copied == [e \in D \cup {d} |->
                          IF e = d THEN [lastSeen |-> lastSeen[d], count |-> count[d]] ELSE out[q][e]]
  <2>1. PICK E \in SUBSET Devices : out[q] \in [E -> Status]
    BY DEF Fleet
  <2>2. D = E /\ D \cup {d} \in SUBSET Devices
    BY <2>1
  <2>3. [lastSeen |-> lastSeen[d], count |-> count[d]] \in Status
    <3>1. \A w \in Workers : wpc[w] # "lastSeen"
      BY <1>8 DEF Copy, MutexInv
    <3>2. lastSeen[d] \in Times
      BY <1>8, <3>1 DEF Copy, TouchInv
    <3> QED
      BY <3>2 DEF Status
  <2>4. copied \in [D \cup {d} -> Status]
    BY <2>1, <2>2, <2>3
  <2>5. out' = [out EXCEPT ![q] = copied]
    BY <1>8 DEF Copy
  <2> HIDE DEF copied, D
  <2>6. copied \in Fleet
    BY <2>2, <2>4 DEF Fleet
  <2> QED
    BY <1>8, <2>5, <2>6 DEF Copy, mapVars, workerVars
<1>9. ASSUME NEW q \in Requests, SnapshotReturns(q)
      PROVE  TypeOK'
  BY <1>9, EmptyCopy DEF SnapshotReturns, mapVars, workerVars
<1>10. CASE UNCHANGED vars
  BY <1>10 DEF vars, mapVars, workerVars
<1> QED
  BY <1>1, <1>2, <1>4, <1>5, <1>6, <1>7, <1>8, <1>9, <1>10 DEF Next, TouchStep, SnapshotStep

LEMMA MutexKept ==
  ASSUME RegistryInv, [Next]_vars
  PROVE  MutexInv'
<1> USE DEF RegistryInv, TypeOK, MutexInv
<1>1. ASSUME NEW w \in Workers, NEW d \in Devices, NEW at \in Times, CallTouch(w, d, at)
      PROVE  MutexInv'
  BY <1>1 DEF CallTouch
<1>2. ASSUME NEW w \in Workers, Announce(w)
      PROVE  MutexInv'
  <2>1. \A v \in Workers : wpc[v] \in {"idle", "lock"}
    BY <1>2, RegistryAssumption DEF Announce, RegistryAssumption
  <2> QED
    BY <1>2, <2>1 DEF Announce
<1>3. ASSUME NEW w \in Workers, Enter(w)
      PROVE  MutexInv'
  BY <1>3 DEF Enter, MayEnter
<1>4. ASSUME NEW w \in Workers, Find(w) \/ SetLastSeen(w) \/ Increment(w)
      PROVE  MutexInv'
  BY <1>4 DEF Find, SetLastSeen, Increment
<1>5. ASSUME NEW w \in Workers, Unlock(w)
      PROVE  MutexInv'
  <2>1. \A v \in Workers : v # w => wpc'[v] \in {"idle", "lock"}
    BY <1>5 DEF Unlock
  <2>2. \A v \in Workers : wpc'[v] \in {"idle", "lock"}
    BY <1>5, <2>1 DEF Unlock
  <2>3. readers' = {q \in Requests : qpc'[q] = "copy"}
    BY <1>5 DEF Unlock, Admitted, Blocked
  <2> QED
    BY <2>2, <2>3
<1>6. ASSUME NEW q \in Requests, CallSnapshot(q)
      PROVE  MutexInv'
  BY <1>6 DEF CallSnapshot, workerVars
<1>7. ASSUME NEW q \in Requests, RLock(q)
      PROVE  MutexInv'
  <2>1. \A v \in Workers : wpc[v] \in {"idle", "lock"}
    BY <1>7, RegistryAssumption DEF RLock, MayRead, RegistryAssumption
  <2> QED
    BY <1>7, <2>1 DEF RLock, workerVars
<1>8. ASSUME NEW q \in Requests, NEW d \in Devices, Copy(q, d)
      PROVE  MutexInv'
  BY <1>8 DEF Copy, workerVars
<1>9. ASSUME NEW q \in Requests, SnapshotReturns(q)
      PROVE  MutexInv'
  BY <1>9 DEF SnapshotReturns, workerVars
<1>10. CASE UNCHANGED vars
  BY <1>10 DEF vars, workerVars
<1> QED
  BY <1>1, <1>2, <1>3, <1>4, <1>5, <1>6, <1>7, <1>8, <1>9, <1>10
     DEF Next, TouchStep, SnapshotStep

(* Nobody but the worker inside is past "lock", so what it has written     *)
(* stays until it leaves.                                                  *)
LEMMA TouchKept ==
  ASSUME RegistryInv, [Next]_vars
  PROVE  TouchInv'
<1> USE DEF RegistryInv, TypeOK, TouchInv
<1>1. ASSUME NEW w \in Workers, NEW d \in Devices, NEW at \in Times, CallTouch(w, d, at)
      PROVE  TouchInv'
  BY <1>1 DEF CallTouch, mapVars
<1>2. ASSUME NEW w \in Workers, Announce(w) \/ Enter(w)
      PROVE  TouchInv'
  BY <1>2 DEF Announce, Enter, mapVars
<1>3. ASSUME NEW w \in Workers, wpc[w] \in {"find", "lastSeen", "count", "unlock"}
      PROVE  \A v \in Workers : v # w => wpc[v] \in {"idle", "lock"}
  BY <1>3 DEF MutexInv
<1>4. ASSUME NEW w \in Workers, Find(w)
      PROVE  TouchInv'
  BY <1>3, <1>4 DEF Find
<1>5. ASSUME NEW w \in Workers, SetLastSeen(w)
      PROVE  TouchInv'
  BY <1>3, <1>5 DEF SetLastSeen
<1>6. ASSUME NEW w \in Workers, Increment(w)
      PROVE  TouchInv'
  BY <1>3, <1>6 DEF Increment
<1>7. ASSUME NEW w \in Workers, Unlock(w)
      PROVE  TouchInv'
  BY <1>7 DEF Unlock, mapVars
<1>8. CASE UNCHANGED <<mapVars, workerVars>>
  BY <1>8 DEF mapVars, workerVars
<1>9. \/ \E w \in Workers :
           \/ Announce(w) \/ Enter(w) \/ Find(w) \/ SetLastSeen(w) \/ Increment(w) \/ Unlock(w)
           \/ \E d \in Devices, at \in Times : CallTouch(w, d, at)
      \/ UNCHANGED <<mapVars, workerVars>>
  BY DEF Next, TouchStep, SnapshotStep, CallSnapshot, RLock, Copy, SnapshotReturns, vars
<1> QED
  BY <1>1, <1>2, <1>4, <1>5, <1>6, <1>7, <1>8, <1>9

(* While somebody copies, nobody writes. *)
LEMMA CopyKept ==
  ASSUME RegistryInv, [Next]_vars
  PROVE  CopyInv'
<1> SUFFICES ASSUME NEW q \in Requests
             PROVE  /\ qpc'[q] # "copy" => out'[q] = <<>>
                    /\ DOMAIN out'[q] \subseteq known'
                    /\ out'[q] = [d \in DOMAIN out'[q] |-> Entry(d)']
  BY DEF CopyInv
<1> USE DEF RegistryInv, TypeOK
<1>1. /\ qpc[q] # "copy" => out[q] = <<>>
      /\ DOMAIN out[q] \subseteq known
      /\ out[q] = [d \in DOMAIN out[q] |-> Entry(d)]
  BY DEF CopyInv
<1>2. CASE out'[q] = <<>>
  BY <1>2, EmptyCopy
<1>3. CASE \E w \in Workers : Find(w) \/ SetLastSeen(w) \/ Increment(w)
  <2>1. readers = {} /\ out' = out
    BY <1>3 DEF Find, SetLastSeen, Increment, MutexInv
  <2>2. out[q] = <<>>
    BY <1>1, <2>1 DEF MutexInv
  <2> QED
    BY <1>2, <2>1, <2>2
<1>4. ASSUME UNCHANGED mapVars, out'[q] = out[q], qpc[q] = "copy" => qpc'[q] = "copy"
      PROVE  /\ qpc'[q] # "copy" => out'[q] = <<>>
             /\ DOMAIN out'[q] \subseteq known'
             /\ out'[q] = [d \in DOMAIN out'[q] |-> Entry(d)']
  BY <1>1, <1>4 DEF mapVars, Entry
<1>5. CASE \E w \in Workers :
             \/ Announce(w) \/ Enter(w) \/ Unlock(w)
             \/ \E d \in Devices, at \in Times : CallTouch(w, d, at)
  <2>1. UNCHANGED <<mapVars, out>> /\ (qpc[q] = "copy" => qpc'[q] = "copy")
    BY <1>5 DEF Announce, Enter, Unlock, CallTouch, Admitted, Blocked
  <2> QED
    BY <1>4, <2>1
<1>6. ASSUME NEW r \in Requests, r # q,
             CallSnapshot(r) \/ RLock(r) \/ SnapshotReturns(r) \/ \E d \in Devices : Copy(r, d)
      PROVE  UNCHANGED mapVars /\ out'[q] = out[q] /\ qpc'[q] = qpc[q]
  BY <1>6 DEF CallSnapshot, RLock, SnapshotReturns, Copy
<1>7. CASE CallSnapshot(q) \/ SnapshotReturns(q)
  <2>1. out'[q] = <<>>
    BY <1>7 DEF CallSnapshot, SnapshotReturns
  <2> QED
    BY <1>2, <2>1
<1>8. CASE RLock(q)
  <2>1. UNCHANGED <<mapVars, out>> /\ qpc'[q] = "copy"
    BY <1>8 DEF RLock
  <2> QED
    BY <1>4, <2>1
<1>9. ASSUME NEW d \in Devices, Copy(q, d)
      PROVE  /\ qpc'[q] # "copy" => out'[q] = <<>>
             /\ DOMAIN out'[q] \subseteq known'
             /\ out'[q] = [e \in DOMAIN out'[q] |-> Entry(e)']
  <2> DEFINE D == DOMAIN out[q]
  <2>1. /\ qpc[q] = "copy" /\ qpc' = qpc /\ UNCHANGED mapVars /\ d \in known
        /\ out'[q] = [e \in D \cup {d} |-> IF e = d THEN Entry(d) ELSE out[q][e]]
    BY <1>9 DEF Copy, Entry
  <2>2. \A e \in D : out[q][e] = Entry(e)
    BY <1>1
  <2>3. \A e : Entry(e)' = Entry(e)
    BY <2>1 DEF mapVars, Entry
  <2>4. DOMAIN out'[q] = D \cup {d}
    BY <2>1
  <2>5. out'[q] = [e \in D \cup {d} |-> Entry(e)]
    BY ONLY <2>1, <2>2
  <2>6. out'[q] = [e \in D \cup {d} |-> Entry(e)']
    BY ONLY <2>3, <2>5
  <2>7. D \cup {d} \subseteq known'
    BY <1>1, <2>1 DEF mapVars
  <2> HIDE DEF D
  <2> QED
    BY ONLY <2>1, <2>4, <2>6, <2>7
<1>10. CASE UNCHANGED vars
  BY <1>4, <1>10 DEF vars
<1>11. CASE \E r \in Requests : SnapshotStep(r) \/ CallSnapshot(r)
  BY <1>4, <1>6, <1>7, <1>8, <1>9, <1>11 DEF SnapshotStep
<1> QED
  BY <1>3, <1>5, <1>10, <1>11 DEF Next, TouchStep

LEMMA RegistryInvAlways == Spec => []RegistryInv
<1>1. RegistryInv /\ [Next]_vars => RegistryInv'
  BY TypesKept, MutexKept, TouchKept, CopyKept DEF RegistryInv
<1> QED
  BY <1>1, RegistryInvInit, PTL DEF Spec

(* Every variable of the registry stays in its range, and neither a copy   *)
(* nor a report ever has the zero LastSeen of an entry in the making.      *)
THEOREM RegistryTypes == Spec => []TypeOK
<1>1. RegistryInv => TypeOK
  BY DEF RegistryInv
<1> QED
  BY <1>1, RegistryInvAlways, PTL

-----------------------------------------------------------------------------
(* The refinement.                                                         *)

(* With no worker inside, the settled registry is the map. *)
LEMMA SettledQuiet ==
  /\ Inside = {} => settled = [d \in known |-> Entry(d)]
  /\ Inside' = {} => settled' = [d \in known' |-> Entry(d)']
BY DEF settled, Entry

(* With one inside, its entry has been written already. *)
LEMMA SettledBusy ==
  ASSUME NEW w \in Workers
  PROVE  /\ Inside = {w} =>
              settled = [d \in known \cup {target[w][1]} |->
                           IF d = target[w][1]
                           THEN [lastSeen |-> target[w][2], count |-> Successor(count[d])]
                           ELSE Entry(d)]
         /\ Inside' = {w} =>
              settled' = [d \in known' \cup {target'[w][1]} |->
                            IF d = target'[w][1]
                            THEN [lastSeen |-> target'[w][2], count |-> Successor(count'[d])]
                            ELSE Entry(d)']
<1>1. \A d, k : (k = target[w][1] /\ d = k) => (CHOOSE v \in {w} : target[v][1] = d) = w
  OBVIOUS
<1>2. \A d, k : (k = target'[w][1] /\ d = k) => (CHOOSE v \in {w} : target'[v][1] = d) = w
  OBVIOUS
<1>3. Inside = {w} =>
        settled = [d \in known \cup {target[w][1]} |->
                     IF d = target[w][1]
                     THEN [lastSeen |-> target[w][2], count |-> Successor(count[d])]
                     ELSE Entry(d)]
  BY <1>1 DEF settled, Entry
<1>4. Inside' = {w} =>
        settled' = [d \in known' \cup {target'[w][1]} |->
                      IF d = target'[w][1]
                      THEN [lastSeen |-> target'[w][2], count |-> Successor(count'[d])]
                      ELSE Entry(d)']
  BY <1>2 DEF settled, Entry, Successor
<1> QED
  BY <1>3, <1>4

LEMMA WhoIsInside ==
  ASSUME RegistryInv
  PROVE  /\ \A w \in Workers : wpc[w] \in {"find", "lastSeen", "count"} => Inside = {w}
         /\ \A w \in Workers : wpc[w] \in {"announced", "unlock"} => Inside = {}
         /\ readers # {} => Inside = {}
BY DEF RegistryInv, MutexInv, Inside

(* Touch takes effect when its worker gets the lock. *)
LEMMA EnterIsTouch ==
  ASSUME RegistryInv, NEW w \in Workers, Enter(w)
  PROVE  \E d \in Devices, at \in Times : Atomic!Touch(d, at)
<1> USE DEF RegistryInv, TypeOK
<1> DEFINE d == target[w][1]
           at == target[w][2]
<1>1. d \in Devices /\ at \in Times
  BY DEF Enter, TouchInv
<1>2. UNCHANGED <<known, lastSeen, count, target, report>> /\ Inside = {} /\ Inside' = {w}
  <2>1. Inside = {} /\ wpc[w] = "announced"
    BY WhoIsInside DEF Enter
  <2>2. Inside' = {w}
    BY <2>1 DEF Enter, Inside
  <2> QED
    BY <2>1, <2>2 DEF Enter, mapVars
<1>3. settled = [e \in known |-> Entry(e)]
  BY <1>2, SettledQuiet
<1>4. \A e : Entry(e)' = Entry(e)
  BY <1>2 DEF Entry
<1>5. settled' = [e \in known \cup {d} |->
                    IF e = d THEN [lastSeen |-> at, count |-> Successor(count[e])] ELSE Entry(e)]
  <2>1. settled' = [e \in known' \cup {target'[w][1]} |->
                      IF e = target'[w][1]
                      THEN [lastSeen |-> target'[w][2], count |-> Successor(count'[e])]
                      ELSE Entry(e)']
    BY <1>2, SettledBusy
  <2> QED
    BY ONLY <1>2, <1>4, <2>1
<1>6. DOMAIN settled = known /\ \A e \in known : settled[e] = Entry(e)
  BY ONLY <1>3
<1>7. Atomic!CountOf(settled, d) = count[d]
  <2>1. d \notin known => count[d] = 0
    BY <1>1 DEF TouchInv
  <2> QED
    BY <1>6, <2>1 DEF Atomic!CountOf, Entry
<1>8. settled' = Atomic!WithTouch(settled, d, at)
  <2>1. settled' = [e \in known \cup {d} |->
                      IF e = d THEN [lastSeen |-> at, count |-> (count[d] + 1) % Modulus]
                      ELSE settled[e]]
    BY ONLY <1>5, <1>6 DEF Successor
  <2> HIDE DEF d, at
  <2> QED
    BY ONLY <1>6, <1>7, <2>1 DEF Atomic!WithTouch
<1>9. Atomic!Touch(d, at)
  BY <1>2, <1>8 DEF Atomic!Touch
<1> HIDE DEF d, at
<1> QED
  BY <1>1, <1>9

(* The writes of the worker inside change nothing that can be seen. *)
LEMMA WritesAreInvisible ==
  ASSUME RegistryInv, NEW w \in Workers, Find(w) \/ SetLastSeen(w) \/ Increment(w)
  PROVE  UNCHANGED <<settled, report>>
<1> USE DEF RegistryInv, TypeOK
<1> DEFINE d == target[w][1]
           at == target[w][2]
<1>1. /\ UNCHANGED <<target, report>> /\ Inside = {w}
      /\ wpc[w] \in {"find", "lastSeen", "count"} /\ d \in Devices
  BY WhoIsInside DEF Find, SetLastSeen, Increment, TouchInv
<1>2. settled = [e \in known \cup {d} |->
                   IF e = d THEN [lastSeen |-> at, count |-> Successor(count[e])] ELSE Entry(e)]
  BY <1>1, SettledBusy
<1>3. CASE Find(w) \/ SetLastSeen(w)
  <2>1. Inside' = {w}
    BY <1>1, <1>3 DEF Find, SetLastSeen, Inside
  <2>2. settled' = [e \in known' \cup {d} |->
                      IF e = d THEN [lastSeen |-> at, count |-> Successor(count'[e])] ELSE Entry(e)']
    <3>1. settled' = [e \in known' \cup {target'[w][1]} |->
                        IF e = target'[w][1]
                        THEN [lastSeen |-> target'[w][2], count |-> Successor(count'[e])]
                        ELSE Entry(e)']
      BY <2>1, SettledBusy
    <3> QED
      BY ONLY <1>1, <3>1
  <2>3. known' \cup {d} = known \cup {d} /\ count' = count
    BY <1>1, <1>3 DEF Find, SetLastSeen, TouchInv
  <2>4. \A e \in known \cup {d} : e # d => Entry(e)' = Entry(e)
    BY <1>3 DEF Find, SetLastSeen, Entry
  <2>5. settled' = settled
    BY ONLY <1>2, <2>2, <2>3, <2>4
  <2> QED
    BY <1>1, <2>5
<1>4. CASE Increment(w)
  <2>1. Inside' = {}
    BY <1>1, <1>4 DEF Increment, Inside
  <2>2. settled' = [e \in known' |-> Entry(e)']
    BY <2>1, SettledQuiet
  <2>3. known' = known \cup {d} /\ known \subseteq Devices
    BY <1>4 DEF Increment, TouchInv
  <2>4. \A e : e = d => Entry(e)' = [lastSeen |-> at, count |-> Successor(count[e])]
    BY <1>1, <1>4 DEF Increment, Entry, TouchInv
  <2>5. \A e \in known : e # d => Entry(e)' = Entry(e)
    BY <1>4 DEF Increment, Entry
  <2>6. settled' = settled
    <3>1. \A e \in known \cup {d} :
            Entry(e)' = IF e = d THEN [lastSeen |-> at, count |-> Successor(count[e])] ELSE Entry(e)
      BY ONLY <2>4, <2>5
    <3> HIDE DEF d, at
    <3> QED
      BY ONLY <1>2, <2>2, <2>3, <3>1
  <2> QED
    BY <1>1, <2>6
<1> QED
  BY <1>3, <1>4

(* What Snapshot returns is the registry at the moment it returns. *)
LEMMA ReturnIsSnapshot ==
  ASSUME RegistryInv, NEW q \in Requests, SnapshotReturns(q)
  PROVE  Atomic!Snapshot(q)
<1> USE DEF RegistryInv, TypeOK
<1>1. /\ UNCHANGED <<mapVars, workerVars>> /\ qpc[q] = "copy" /\ known \subseteq DOMAIN out[q]
      /\ report' = [report EXCEPT ![q] = out[q]]
  BY DEF SnapshotReturns
<1>2. Inside = {} /\ Inside' = {}
  <2>1. Inside = {}
    BY <1>1, WhoIsInside DEF MutexInv
  <2> QED
    BY <1>1, <2>1 DEF workerVars, Inside
<1>3. settled = [d \in known |-> Entry(d)] /\ settled' = [d \in known' |-> Entry(d)']
  BY <1>2, SettledQuiet
<1>4. known' = known /\ \A d : Entry(d)' = Entry(d)
  BY <1>1 DEF mapVars, Entry
<1>5. DOMAIN out[q] = known /\ out[q] = [d \in DOMAIN out[q] |-> Entry(d)]
  BY <1>1 DEF CopyInv
<1>6. out[q] = settled
  BY ONLY <1>3, <1>5
<1>7. settled' = settled
  BY ONLY <1>3, <1>4
<1> QED
  BY ONLY <1>1, <1>6, <1>7 DEF Atomic!Snapshot

(* All else is invisible: calls, the announcement, leaving, and copying.   *)
LEMMA OthersAreInvisible ==
  ASSUME RegistryInv,
         \/ \E w \in Workers : \/ Announce(w) \/ Unlock(w)
                              \/ \E d \in Devices, at \in Times : CallTouch(w, d, at)
         \/ \E q \in Requests : \/ CallSnapshot(q) \/ RLock(q)
                               \/ \E d \in Devices : Copy(q, d)
         \/ UNCHANGED vars
  PROVE  UNCHANGED <<settled, report>>
<1> USE DEF RegistryInv, TypeOK
<1>1. UNCHANGED <<known, lastSeen, count, report>>
  BY DEF Announce, Unlock, CallTouch, CallSnapshot, RLock, Copy, vars, mapVars
<1>2. /\ Inside' = Inside
      /\ \A v \in Inside : target'[v] = target[v]
  <2>1. \A v \in Workers : v \in Inside' <=> v \in Inside
    BY DEF Announce, Unlock, CallTouch, CallSnapshot, RLock, Copy, vars, workerVars, Inside
  <2>2. \A v \in Inside : target'[v] = target[v]
    BY DEF Announce, Unlock, CallTouch, CallSnapshot, RLock, Copy, vars, workerVars, Inside
  <2> QED
    BY <2>1, <2>2 DEF Inside
<1>3. \A d : Entry(d)' = Entry(d)
  BY <1>1 DEF Entry
<1>4. CASE Inside = {}
  <2>1. settled = [d \in known |-> Entry(d)] /\ settled' = [d \in known' |-> Entry(d)']
    BY <1>2, <1>4, SettledQuiet
  <2> QED
    BY ONLY <1>1, <1>3, <2>1
<1>5. CASE Inside # {}
  <2>1. PICK v \in Workers : v \in Inside
    BY <1>5 DEF Inside
  <2>2. Inside = {v} /\ Inside' = {v} /\ target'[v] = target[v]
    <3>1. wpc[v] \in {"find", "lastSeen", "count"}
      BY <2>1 DEF Inside
    <3> QED
      BY <1>2, <2>1, <3>1, WhoIsInside
  <2>3. settled = [d \in known \cup {target[v][1]} |->
                     IF d = target[v][1]
                     THEN [lastSeen |-> target[v][2], count |-> Successor(count[d])]
                     ELSE Entry(d)]
    BY <2>2, SettledBusy
  <2>4. settled' = [d \in known' \cup {target'[v][1]} |->
                      IF d = target'[v][1]
                      THEN [lastSeen |-> target'[v][2], count |-> Successor(count'[d])]
                      ELSE Entry(d)']
    BY <2>2, SettledBusy
  <2> QED
    BY ONLY <1>1, <1>3, <2>2, <2>3, <2>4
<1> QED
  BY <1>4, <1>5

(* The registry implements its specification: every report is the state of *)
(* the whole fleet at one moment, no entry torn between its two writes,    *)
(* and no Touch lost or counted twice.                                     *)
THEOREM RegistryIsAtomic == Spec => ImplementsRegistry
<1>1. Init => Atomic!Init
  <2> SUFFICES ASSUME Init PROVE Atomic!Init
    OBVIOUS
  <2>1. Inside = {} /\ known = {}
    BY DEF Init, Inside
  <2>2. settled = [d \in {} |-> Entry(d)]
    BY <2>1, SettledQuiet
  <2>3. settled = <<>>
    BY ONLY <2>2
  <2> QED
    BY <2>3 DEF Init, Atomic!Init
<1>2. RegistryInv /\ [Next]_vars => [Atomic!Next]_(Atomic!vars)
  <2> SUFFICES ASSUME RegistryInv, [Next]_vars
               PROVE  Atomic!Next \/ UNCHANGED <<settled, report>>
    BY DEF Atomic!vars
  <2>1. ASSUME NEW w \in Workers, Enter(w)
        PROVE  Atomic!Next
    BY <2>1, EnterIsTouch DEF Atomic!Next
  <2>2. ASSUME NEW q \in Requests, SnapshotReturns(q)
        PROVE  Atomic!Next
    BY <2>2, ReturnIsSnapshot DEF Atomic!Next
  <2>3. ASSUME NEW w \in Workers,
               \/ Announce(w) \/ Unlock(w)
               \/ \E d \in Devices, at \in Times : CallTouch(w, d, at)
        PROVE  UNCHANGED <<settled, report>>
    BY <2>3, OthersAreInvisible
  <2>4. ASSUME NEW q \in Requests,
               CallSnapshot(q) \/ RLock(q) \/ \E d \in Devices : Copy(q, d)
        PROVE  UNCHANGED <<settled, report>>
    BY <2>4, OthersAreInvisible
  <2>5. CASE UNCHANGED vars
    BY <2>5, OthersAreInvisible
  <2> QED
    BY <2>1, <2>2, <2>3, <2>4, <2>5, WritesAreInvisible DEF Next, TouchStep, SnapshotStep
<1> QED
  BY <1>1, <1>2, RegistryInvAlways, PTL DEF Spec, ImplementsRegistry, Atomic!Spec
=============================================================================
