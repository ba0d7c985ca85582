------------------------------ MODULE Registry ------------------------------
(***************************************************************************)
(* The device registry of the device-gateway: a map of DeviceStatus values *)
(* that workers write with Touch and status requests read with Snapshot,   *)
(* both under a sync.RWMutex.  Here Touch is its separate writes and       *)
(* Snapshot its copies, one device at a time in Go's arbitrary map order.  *)
(*                                                                         *)
(* sync.RWMutex, as far as its callers can tell: writers queue for an      *)
(* inner mutex; the one that has it announces itself, which holds back new *)
(* readers, and enters when the readers inside have left.  Unlock lets in  *)
(* every reader that waits before the next writer can announce itself.     *)
(***************************************************************************)
EXTENDS Naturals

CONSTANTS
  Devices,   \* device ids
  Times,     \* event timestamps
  Modulus,   \* EventCount wraps here (2^64)
  Workers,   \* goroutines that call Touch
  Requests,  \* goroutines that call Snapshot
  None       \* no worker

ASSUME RegistryAssumption ==
  /\ Modulus \in Nat \ {0, 1}
  /\ None \notin Workers \cup (Devices \X Times)

VARIABLES
  known,     \* devices that have an entry in the map
  lastSeen,  \* lastSeen[d]: LastSeen of d's entry
  count,     \* count[d]: EventCount of d's entry
  wpc,       \* wpc[w]: where worker w is in Touch
  target,    \* target[w]: the device and time w records
  writer,    \* the worker that has the inner mutex, or None
  readers,   \* requests that hold the read lock
  qpc,       \* qpc[q]: where request q is in Snapshot
  out,       \* out[q]: the copies q has made, by device
  report     \* report[q]: what Snapshot last returned to q

workerVars == <<wpc, target>>
mapVars == <<known, lastSeen, count>>
vars == <<mapVars, workerVars, writer, readers, qpc, out, report>>

(* Time.IsZero: the LastSeen of an entry that has just been made. *)
Zero == 0
Status == [lastSeen : Times, count : 0..Modulus - 1]
Fleet == UNION {[D -> Status] : D \in SUBSET Devices}

(* Every variable stays in its range.  Copies and reports are narrower     *)
(* than the map: no one gets to see the zero LastSeen that an entry has    *)
(* between its making and Touch's first write to it.                       *)
TypeOK ==
  /\ known \in SUBSET Devices
  /\ lastSeen \in [Devices -> Times \cup {Zero}]
  /\ count \in [Devices -> 0..Modulus - 1]
  /\ wpc \in [Workers -> {"idle", "lock", "announced", "find", "lastSeen", "count", "unlock"}]
  /\ target \in [Workers -> (Devices \X Times) \cup {None}]
  /\ writer \in Workers \cup {None}
  /\ readers \in SUBSET Requests
  /\ qpc \in [Requests -> {"idle", "rlock", "copy"}]
  /\ out \in [Requests -> Fleet]
  /\ report \in [Requests -> Fleet]

Init ==
  /\ known = {}
  /\ lastSeen = [d \in Devices |-> Zero]
  /\ count = [d \in Devices |-> 0]
  /\ wpc = [w \in Workers |-> "idle"]
  /\ target = [w \in Workers |-> None]
  /\ writer = None
  /\ readers = {}
  /\ qpc = [q \in Requests |-> "idle"]
  /\ out = [q \in Requests |-> <<>>]
  /\ report = [q \in Requests |-> <<>>]

-----------------------------------------------------------------------------
(* Touch. *)

CallTouch(w, d, at) ==
  /\ wpc[w] = "idle"
  /\ wpc' = [wpc EXCEPT ![w] = "lock"]
  /\ target' = [target EXCEPT ![w] = <<d, at>>]
  /\ UNCHANGED <<mapVars, writer, readers, qpc, out, report>>

(* The inner mutex, and the announcement. *)
Announce(w) ==
  /\ wpc[w] = "lock"
  /\ writer = None
  /\ writer' = w
  /\ wpc' = [wpc EXCEPT ![w] = "announced"]
  /\ UNCHANGED <<mapVars, target, readers, qpc, out, report>>

(* A fault against ImplementsRegistry: Touch takes the read lock. *)
MayEnter_Reader == TRUE

MayEnter == readers = {}

Enter(w) ==
  /\ wpc[w] = "announced"
  /\ MayEnter
  /\ wpc' = [wpc EXCEPT ![w] = "find"]
  /\ UNCHANGED <<mapVars, target, writer, readers, qpc, out, report>>

Find(w) ==
  /\ wpc[w] = "find"
  /\ known' = known \cup {target[w][1]}
  /\ wpc' = [wpc EXCEPT ![w] = "lastSeen"]
  /\ UNCHANGED <<lastSeen, count, target, writer, readers, qpc, out, report>>

SetLastSeen(w) ==
  /\ wpc[w] = "lastSeen"
  /\ lastSeen' = [lastSeen EXCEPT ![target[w][1]] = target[w][2]]
  /\ wpc' = [wpc EXCEPT ![w] = "count"]
  /\ UNCHANGED <<known, count, target, writer, readers, qpc, out, report>>

Successor(n) == (n + 1) % Modulus

Increment(w) ==
  /\ wpc[w] = "count"
  /\ count' = [count EXCEPT ![target[w][1]] = Successor(@)]
  /\ wpc' = [wpc EXCEPT ![w] = "unlock"]
  /\ UNCHANGED <<known, lastSeen, target, writer, readers, qpc, out, report>>

Blocked == {q \in Requests : qpc[q] = "rlock"}

(* A fault against StatusAnswered: Unlock wakes no reader, so the next     *)
(* writer can be there first.                                              *)
Admitted_None == {}

(* The readers that Unlock lets in. *)
Admitted == Blocked

Unlock(w) ==
  /\ wpc[w] = "unlock"
  /\ writer' = None
  /\ readers' = readers \cup Admitted
  /\ qpc' = [q \in Requests |-> IF q \in Admitted THEN "copy" ELSE qpc[q]]
  /\ wpc' = [wpc EXCEPT ![w] = "idle"]
  /\ target' = [target EXCEPT ![w] = None]
  /\ UNCHANGED <<mapVars, out, report>>

-----------------------------------------------------------------------------
(* Snapshot. *)

CallSnapshot(q) ==
  /\ qpc[q] = "idle"
  /\ qpc' = [qpc EXCEPT ![q] = "rlock"]
  /\ out' = [out EXCEPT ![q] = <<>>]
  /\ UNCHANGED <<mapVars, workerVars, writer, readers, report>>

(* A fault against TypeOK: Snapshot takes no lock. *)
MayRead_Unlocked == TRUE

(* A fault against TouchReturns: readers pass a writer that waits. *)
MayRead_Passing == \A w \in Workers : wpc[w] \in {"idle", "lock", "announced"}

MayRead == writer = None

RLock(q) ==
  /\ qpc[q] = "rlock"
  /\ MayRead
  /\ readers' = readers \cup {q}
  /\ qpc' = [qpc EXCEPT ![q] = "copy"]
  /\ UNCHANGED <<mapVars, workerVars, writer, out, report>>

Copy(q, d) ==
  /\ qpc[q] = "copy"
  /\ d \in known \ DOMAIN out[q]
  /\ out' = [out EXCEPT ![q] = [e \in DOMAIN @ \cup {d} |->
               IF e = d THEN [lastSeen |-> lastSeen[d], count |-> count[d]] ELSE @[e]]]
  /\ UNCHANGED <<mapVars, workerVars, writer, readers, qpc, report>>

SnapshotReturns(q) ==
  /\ qpc[q] = "copy"
  /\ known \subseteq DOMAIN out[q]
  /\ report' = [report EXCEPT ![q] = out[q]]
  /\ out' = [out EXCEPT ![q] = <<>>]
  /\ readers' = readers \ {q}
  /\ qpc' = [qpc EXCEPT ![q] = "idle"]
  /\ UNCHANGED <<mapVars, workerVars, writer>>

-----------------------------------------------------------------------------
TouchStep(w) ==
  Announce(w) \/ Enter(w) \/ Find(w) \/ SetLastSeen(w) \/ Increment(w) \/ Unlock(w)

SnapshotStep(q) ==
  RLock(q) \/ SnapshotReturns(q) \/ \E d \in Devices : Copy(q, d)

Next ==
  \/ \E w \in Workers :
       TouchStep(w) \/ \E d \in Devices, at \in Times : CallTouch(w, d, at)
  \/ \E q \in Requests : SnapshotStep(q) \/ CallSnapshot(q)

Spec == Init /\ [][Next]_vars

(* Runnable goroutines run.  sync.Mutex hands itself to a goroutine that   *)
(* has waited for a millisecond, so a writer that finds the inner mutex    *)
(* free again and again gets it.                                           *)
FairSpec ==
  /\ Spec
  /\ \A w \in Workers : WF_vars(TouchStep(w)) /\ SF_vars(Announce(w))
  /\ \A q \in Requests : WF_vars(SnapshotStep(q))

-----------------------------------------------------------------------------
(* Properties.                                                             *)

(* A worker gets through Touch however many status requests keep coming.   *)
TouchReturns == \A w \in Workers : wpc[w] = "lock" ~> wpc[w] = "idle"

(* A status request is answered however fast the devices report.           *)
StatusAnswered == \A q \in Requests : qpc[q] = "rlock" ~> qpc[q] = "idle"

(* A Touch takes effect when its worker gets the lock, so seen from outside *)
(* a worker inside has already made all its writes.                        *)
Inside == {w \in Workers : wpc[w] \in {"find", "lastSeen", "count"}}
settled ==
  [d \in known \cup {target[w][1] : w \in Inside} |->
     [lastSeen |-> IF \E w \in Inside : target[w][1] = d
                   THEN target[CHOOSE w \in Inside : target[w][1] = d][2]
                   ELSE lastSeen[d],
      count |-> IF \E w \in Inside : target[w][1] = d
                THEN Successor(count[d]) ELSE count[d]]]

Atomic == INSTANCE RegistrySpec WITH devices <- settled

(* Every report is the state of all devices at one moment: no entry is     *)
(* torn between its two writes, and no two entries are of different times. *)
ImplementsRegistry == Atomic!Spec
=============================================================================
