----------------------------- MODULE AlarmStore -----------------------------
(***************************************************************************)
(* core-engine's AlarmStore: POST /events records an event, collapsing     *)
(* events with the same reduction key into one alarm; GET /alarms lists    *)
(* the alarms that are not cleared.                                        *)
(*                                                                         *)
(* Request threads run concurrently.  ConcurrentHashMap.compute holds the  *)
(* key's bin for the whole remapping function, so recorders of one key     *)
(* take turns; getActiveAlarms takes no lock, and the Alarm objects it     *)
(* returns are the live ones, read only when the response is serialised.   *)
(*                                                                         *)
(* A name is a sequence of ":"-free segments, so that joining two names    *)
(* with ":" is concatenation.                                              *)
(***************************************************************************)
EXTENDS Naturals, Sequences, FiniteSets

CONSTANTS
  Segments,   \* ":"-free pieces of names
  Recovered,  \* those that end in "Recovered"
  Ueis,       \* event names
  Streams,    \* stream ids
  Messages,   \* event messages
  Recorders,  \* threads that serve POST /events
  Readers,    \* threads that serve GET /alarms
  MaxEvents,  \* bound: events posted in all
  None        \* no thread

ASSUME AlarmAssumption ==
  /\ Ueis \subseteq Seq(Segments) \ {<<>>}
  /\ Streams \subseteq Seq(Segments)
  /\ MaxEvents \in Nat
  /\ None \notin Recorders

(* A fault against ClearedByCollision: alarms are keyed by stream alone. *)
ReductionKey_Stream(uei, streamId) == streamId

ReductionKey(uei, streamId) == uei \o streamId
Keys == {ReductionKey(u, s) : u \in Ueis, s \in Streams}

Event == [uei : Ueis, streamId : Streams, message : Messages]
Alarm == [key : Keys, uei : Ueis, lastMessage : Messages, occurrenceCount : Nat,
          cleared : BOOLEAN]
KeyOf(e) == ReductionKey(e.uei, e.streamId)

EndsWithRecovered(uei) == uei[Len(uei)] \in Recovered

VARIABLES
  heap,      \* the Alarm objects, in the order of their creation
  alarms,    \* alarms[k]: index in heap of the alarm under key k, 0 if none
  locked,    \* locked[k]: the recorder inside compute for k, or None
  posted,    \* events posted so far
  rpc,       \* rpc[r]: where recorder r is
  event,     \* event[r]: the event r records
  existing,  \* existing[r]: the alarm its remapping function was given
  old,       \* old[r]: the occurrenceCount that ++ has read
  qpc,       \* qpc[q]: where reader q is
  todo,      \* todo[q]: keys forEach has still to visit
  active,    \* active[q]: alarms put into the map to be returned
  report,    \* report[q]: the occurrenceCounts serialised so far, by alarm
  handled,   \* history: handled[i], the events alarm i stands for: how many, the last message
  since      \* history: since[q][k], the alarm under k and its count when q began

recorderVars == <<posted, rpc, event, existing, old>>
readerVars == <<qpc, todo, active, report, since>>
vars == <<heap, alarms, locked, recorderVars, readerVars, handled>>

Ids == 1..Len(heap)
IsActive(i) == ~heap[i].cleared
InForce == {i \in Ids : IsActive(i)}
CountOf(k) == IF alarms[k] \in InForce THEN heap[alarms[k]].occurrenceCount ELSE 0

(* Every variable stays in its range. *)
TypeOK ==
  /\ heap \in Seq(Alarm)
  /\ alarms \in [Keys -> Ids \cup {0}]
  /\ locked \in [Keys -> Recorders \cup {None}]
  /\ posted \in 0..MaxEvents
  /\ rpc \in [Recorders -> {"idle", "compute", "apply", "increment", "message"}]
  /\ \A r \in Recorders : rpc[r] # "idle" => event[r] \in Event
  /\ existing \in [Recorders -> Ids \cup {0}]
  /\ old \in [Recorders -> 0..MaxEvents]
  /\ qpc \in [Readers -> {"idle", "forEach", "serialise", "done"}]
  /\ todo \in [Readers -> SUBSET Keys]
  /\ active \in [Readers -> SUBSET Ids]
  /\ \A q \in Readers : DOMAIN report[q] \subseteq active[q]
  /\ handled \in Seq([events : Nat, last : Messages])

Init ==
  /\ posted = 0
  /\ heap = <<>>
  /\ alarms = [k \in Keys |-> 0]
  /\ locked = [k \in Keys |-> None]
  /\ rpc = [r \in Recorders |-> "idle"]
  /\ event = [r \in Recorders |-> None]
  /\ existing = [r \in Recorders |-> 0]
  /\ old = [r \in Recorders |-> 0]
  /\ qpc = [q \in Readers |-> "idle"]
  /\ todo = [q \in Readers |-> {}]
  /\ active = [q \in Readers |-> {}]
  /\ report = [q \in Readers |-> <<>>]
  /\ handled = <<>>
  /\ since = [q \in Readers |-> [k \in Keys |-> [alarm |-> 0, count |-> 0]]]

-----------------------------------------------------------------------------
(* POST /events: recordEvent.  A body without a "uei" makes the remapping  *)
(* function throw before it changes anything; such a request is no step.   *)

Post(r, e) ==
  /\ rpc[r] = "idle"
  /\ posted < MaxEvents
  /\ posted' = posted + 1
  /\ event' = [event EXCEPT ![r] = e]
  /\ rpc' = [rpc EXCEPT ![r] = "compute"]
  /\ UNCHANGED <<heap, alarms, locked, existing, old, readerVars, handled>>

(* A fault against AlarmPerKey and AlarmSummarisesEvents: get and put      *)
(* instead of compute.                                                     *)
MayCompute_Unlocked(k) == TRUE

MayCompute(k) == locked[k] = None

EnterCompute(r) ==
  LET k == KeyOf(event[r])
  IN  /\ rpc[r] = "compute"
      /\ MayCompute(k)
      /\ locked' = [locked EXCEPT ![k] = r]
      /\ existing' = [existing EXCEPT ![r] = alarms[k]]
      /\ rpc' = [rpc EXCEPT ![r] = "apply"]
      /\ UNCHANGED <<heap, alarms, posted, event, old, readerVars, handled>>

(* compute returns, and with it recordEvent. *)
Return(r) ==
  /\ locked' = [locked EXCEPT ![KeyOf(event[r])] = None]
  /\ rpc' = [rpc EXCEPT ![r] = "idle"]
  /\ event' = [event EXCEPT ![r] = None]
  /\ existing' = [existing EXCEPT ![r] = 0]

Recover(r) ==
  /\ rpc[r] = "apply"
  /\ EndsWithRecovered(event[r].uei)
  /\ heap' = IF existing[r] = 0 THEN heap
             ELSE [heap EXCEPT ![existing[r]].cleared = TRUE]
  /\ Return(r)
  /\ UNCHANGED <<alarms, posted, old, readerVars, handled>>

(* A fault against ClearedIsFinal: a cleared alarm is used again. *)
NeedsNewAlarm_OnlyFirst(i) == i = 0

NeedsNewAlarm(i) == i \notin InForce

Create(r) ==
  LET k == KeyOf(event[r])
  IN  /\ rpc[r] = "apply"
      /\ ~EndsWithRecovered(event[r].uei)
      /\ NeedsNewAlarm(existing[r])
      /\ heap' = Append(heap, [key |-> k, uei |-> event[r].uei,
                               lastMessage |-> event[r].message,
                               occurrenceCount |-> 1, cleared |-> FALSE])
      /\ alarms' = [alarms EXCEPT ![k] = Len(heap) + 1]
      /\ handled' = Append(handled, [events |-> 1, last |-> event[r].message])
      /\ Return(r)
      /\ UNCHANGED <<posted, old, readerVars>>

(* occurrenceCount++ reads, then writes; a reader can come in between. *)
Repeat(r) ==
  /\ rpc[r] = "apply"
  /\ ~EndsWithRecovered(event[r].uei)
  /\ ~NeedsNewAlarm(existing[r])
  /\ old' = [old EXCEPT ![r] = heap[existing[r]].occurrenceCount]
  /\ rpc' = [rpc EXCEPT ![r] = "increment"]
  /\ UNCHANGED <<heap, alarms, locked, posted, event, existing, readerVars, handled>>

(* A fault against TypeOK: the map applies the function once more, as a    *)
(* ConcurrentSkipListMap may, and the count runs ahead of the events.      *)
Increment_Reapplied(r) ==
  /\ rpc[r] = "increment"
  /\ heap' = [heap EXCEPT ![existing[r]].occurrenceCount = old[r] + 1]
  /\ rpc' = [rpc EXCEPT ![r] = "apply"]
  /\ UNCHANGED <<alarms, locked, posted, event, existing, old, readerVars, handled>>

Increment(r) ==
  /\ rpc[r] = "increment"
  /\ heap' = [heap EXCEPT ![existing[r]].occurrenceCount = old[r] + 1]
  /\ old' = [old EXCEPT ![r] = 0]
  /\ rpc' = [rpc EXCEPT ![r] = "message"]
  /\ UNCHANGED <<alarms, locked, posted, event, existing, readerVars, handled>>

SetMessage(r) ==
  /\ rpc[r] = "message"
  /\ heap' = [heap EXCEPT ![existing[r]].lastMessage = event[r].message]
  /\ handled' = [handled EXCEPT ![existing[r]] = [events |-> @.events + 1, last |-> event[r].message]]
  /\ Return(r)
  /\ UNCHANGED <<alarms, posted, old, readerVars>>

-----------------------------------------------------------------------------
(* GET /alarms: getActiveAlarms, then the serialiser.  forEach follows the *)
(* table's order, which the hash codes decide: any order.                  *)

List(q) ==
  /\ qpc[q] \in {"idle", "done"}
  /\ qpc' = [qpc EXCEPT ![q] = "forEach"]
  /\ todo' = [todo EXCEPT ![q] = Keys]
  /\ active' = [active EXCEPT ![q] = {}]
  /\ report' = [report EXCEPT ![q] = <<>>]
  /\ since' = [since EXCEPT ![q] = [k \in Keys |-> [alarm |-> alarms[k], count |-> CountOf(k)]]]
  /\ UNCHANGED <<heap, alarms, locked, recorderVars, handled>>

(* A fault against ImplementsService: only alarms that have repeated count. *)
Reportable_Repeated(i) == IsActive(i) /\ heap[i].occurrenceCount > 1

Reportable(i) == IsActive(i)

Visit(q, k) ==
  /\ qpc[q] = "forEach"
  /\ k \in todo[q]
  /\ todo' = [todo EXCEPT ![q] = @ \ {k}]
  /\ active' = [active EXCEPT ![q] =
                  IF alarms[k] # 0 /\ Reportable(alarms[k]) THEN @ \cup {alarms[k]} ELSE @]
  /\ UNCHANGED <<heap, alarms, locked, recorderVars, qpc, report, since, handled>>

HandlerReturns(q) ==
  /\ qpc[q] = "forEach"
  /\ todo[q] = {}
  /\ qpc' = [qpc EXCEPT ![q] = "serialise"]
  /\ UNCHANGED <<heap, alarms, locked, recorderVars, todo, active, report, since, handled>>

(* The fields are plain, so a serialiser may see any value written since   *)
(* the handler visited the key: it reads them at any time after that.      *)
Serialise(q, i) ==
  /\ qpc[q] \in {"forEach", "serialise"}
  /\ i \in active[q] \ DOMAIN report[q]
  /\ report' = [report EXCEPT ![q] =
                  [j \in DOMAIN @ \cup {i} |-> IF j = i THEN heap[i].occurrenceCount ELSE @[j]]]
  /\ UNCHANGED <<heap, alarms, locked, recorderVars, qpc, todo, active, since, handled>>

Respond(q) ==
  /\ qpc[q] = "serialise"
  /\ active[q] = DOMAIN report[q]
  /\ qpc' = [qpc EXCEPT ![q] = "done"]
  /\ UNCHANGED <<heap, alarms, locked, recorderVars, todo, active, report, since, handled>>

-----------------------------------------------------------------------------
(* The alarms are kept in memory only: a restart begins with none, and the *)
(* requests it interrupts are not taken up again.                          *)
Restart ==
  /\ heap' = <<>>
  /\ alarms' = [k \in Keys |-> 0]
  /\ locked' = [k \in Keys |-> None]
  /\ rpc' = [r \in Recorders |-> "idle"]
  /\ event' = [r \in Recorders |-> None]
  /\ existing' = [r \in Recorders |-> 0]
  /\ old' = [r \in Recorders |-> 0]
  /\ qpc' = [q \in Readers |-> "idle"]
  /\ todo' = [q \in Readers |-> {}]
  /\ active' = [q \in Readers |-> {}]
  /\ report' = [q \in Readers |-> <<>>]
  /\ handled' = <<>>
  /\ since' = [q \in Readers |-> [k \in Keys |-> [alarm |-> 0, count |-> 0]]]
  /\ UNCHANGED posted

RecorderStep(r) ==
  \/ EnterCompute(r) \/ Recover(r) \/ Create(r) \/ Repeat(r) \/ Increment(r) \/ SetMessage(r)

ReaderStep(q) ==
  \/ \E k \in Keys : Visit(q, k)
  \/ HandlerReturns(q)
  \/ \E i \in Ids : Serialise(q, i)
  \/ Respond(q)

Next ==
  \/ \E r \in Recorders : RecorderStep(r) \/ \E e \in Event : Post(r, e)
  \/ \E q \in Readers : ReaderStep(q) \/ List(q)
  \/ Restart

Spec == Init /\ [][Next]_vars

-----------------------------------------------------------------------------
(* Properties.                                                             *)

(* "Ten identical failures collapse into one alarm" (glossary.md): however *)
(* many threads record the same key, one alarm at most is in force for it. *)
AlarmPerKey ==
  \A i, j \in InForce : heap[i].key = heap[j].key => i = j

(* No update is lost: between two computes an alarm's occurrenceCount is   *)
(* the number of events it stands for and its message that of the last.    *)
AlarmSummarisesEvents ==
  \A i \in Ids : locked[heap[i].key] = None =>
    /\ heap[i].occurrenceCount = handled[i].events
    /\ heap[i].lastMessage = handled[i].last

(* A cleared alarm never changes again: a later failure starts a new one,  *)
(* so a report that already holds the old object is not disturbed by it.   *)
ClearedIsFinal ==
  [][Restart \/ \A i \in Ids : heap[i].cleared => heap'[i] = heap[i]]_vars

(* core-engine is the alarm service of AlarmSpec: each event counts once,  *)
(* and although the traversal is weakly consistent and what it returns are *)
(* live objects, a report misses no alarm in force all the time the        *)
(* request ran, and shows no count the key did not have in that time.      *)
Listing(q) == qpc[q] \in {"forEach", "serialise"}
CountsSince(q, k) ==
  LET began == since[q][k]
      OfKey == {i \in Ids : heap[i].key = k /\ i >= began.alarm}
  IN  {began.count}
        \cup (UNION {IF i = began.alarm /\ began.count = 0 THEN {0}
                     ELSE (IF i = began.alarm THEN began.count ELSE 1)..heap[i].occurrenceCount
                       : i \in OfKey})
        \cup {0 : i \in OfKey \ InForce}
Reported(q, k) ==
  LET OfKey == {i \in DOMAIN report[q] : qpc[q] = "done" /\ heap[i].key = k}
  IN  IF OfKey = {} THEN 0 ELSE report[q][CHOOSE i \in OfKey : TRUE]
Service == INSTANCE AlarmSpec WITH
  count  <- [k \in Keys |-> CountOf(k)],
  asking <- {q \in Readers : Listing(q)},
  seen   <- [q \in Readers |-> [k \in Keys |-> IF Listing(q) THEN CountsSince(q, k) ELSE {}]],
  report <- [q \in Readers |-> [k \in Keys |-> Reported(q, k)]]
ImplementsService == Service!Spec

(* Deliberately broken things are watched to "recover" (README.md): an     *)
(* event that says a stream recovered leaves fewer of its alarms in force. *)
RecoveryClears ==
  [][\A r \in Recorders :
       LET OfStream == {i \in InForce : \E u \in Ueis :
                          heap[i].key = ReductionKey(u, event[r].streamId)}
       IN  Recover(r) /\ OfStream # {} => \E i \in OfStream : heap'[i].cleared]_vars

(* Only a coincidence clears an alarm: what takes it out of force is a     *)
(* recovery of another event name, of another length, that makes the same  *)
(* key with another stream.  Where no event name contains ":" there is no  *)
(* such recovery, and nothing is cleared.                                  *)
ClearedByCollision ==
  [][Restart \/ \A i \in InForce : i \notin InForce' =>
       \E r \in Recorders :
         /\ rpc[r] = "apply" /\ rpc'[r] = "idle"
         /\ EndsWithRecovered(event[r].uei)
         /\ event[r].uei # heap[i].uei
         /\ event[r].uei \o event[r].streamId = heap[i].key]_vars

(* Nothing leaves GET /alarms; so it is with the names the clients send. *)
NeverCleared == \A i \in Ids : IsActive(i)
PlainUeis == \A u \in Ueis : Len(u) = 1
=============================================================================
