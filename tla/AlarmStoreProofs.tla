-------------------------- MODULE AlarmStoreProofs --------------------------
(***************************************************************************)
(* What is proved about AlarmStore for any names, messages, threads and    *)
(* number of events.  First, what is true of names: only a collision of    *)
(* names clears an alarm, and without ":" in event names nothing does.     *)
(* Then what is true of locks, counts and listings: the lock that compute  *)
(* holds keeps one alarm in force per key and loses no update, a cleared   *)
(* alarm is final, and a reader never sees less than it has seen before.   *)
(***************************************************************************)
EXTENDS AlarmStore, SequenceTheorems, FiniteSetTheorems, TLAPS

LEMMA SeqElement ==
  ASSUME NEW S, NEW s \in Seq(S), NEW i \in 1..Len(s)
  PROVE  s[i] \in S
BY SMT

LEMMA SeqUpdate ==
  ASSUME NEW S, NEW s \in Seq(S), NEW i, NEW e, i \in 1..Len(s) => e \in S
  PROVE  /\ [s EXCEPT ![i] = e] \in Seq(S)
         /\ Len([s EXCEPT ![i] = e]) = Len(s)
         /\ i \in 1..Len(s) => [s EXCEPT ![i] = e][i] = e
         /\ \A j \in 1..Len(s) : j # i => [s EXCEPT ![i] = e][j] = s[j]
<1>. DEFINE t == [s EXCEPT ![i] = e]
<1>1. CASE i \in 1..Len(s)
  <2>1. s \in [1..Len(s) -> S] /\ Len(s) \in Nat /\ DOMAIN s = 1..Len(s)
    BY LenProperties
  <2>2. t \in [1..Len(s) -> S] /\ DOMAIN t = 1..Len(s)
    BY <1>1, <2>1
  <2>3. t \in Seq(S)
    BY <2>1, <2>2, SeqDef
  <2>4. Len(t) = Len(s)
    BY <2>1, <2>2, <2>3, LenProperties
  <2>. QED
    BY <1>1, <2>1, <2>3, <2>4
<1>2. CASE i \notin 1..Len(s)
  <2>1. s \in [1..Len(s) -> S]
    BY LenProperties
  <2>2. [s EXCEPT ![i] = e] = s
    BY <1>2, <2>1
  <2>. QED
    BY <1>2, <2>2
<1>. QED
  BY <1>1, <1>2

(* The alarm a thread is given, and the one under a key, are alarms of     *)
(* that key.                                                               *)
KeysMatch ==
  /\ \A k \in Keys : alarms[k] # 0 => alarms[k] \in Ids /\ heap[alarms[k]].key = k
  /\ \A r \in Recorders :
       rpc[r] # "idle" => event[r] \in Event
  /\ \A r \in Recorders :
       existing[r] # 0 => /\ rpc[r] # "idle"
                          /\ existing[r] \in Ids
                          /\ heap[existing[r]].key = KeyOf(event[r])

(* No alarm was created by a Recovered event; its key starts with its uei. *)
KeysOfFailures ==
  \A i \in Ids :
    /\ heap[i].uei \in Ueis /\ ~EndsWithRecovered(heap[i].uei)
    /\ \E s \in Streams : heap[i].key = ReductionKey(heap[i].uei, s)

ShapeOK ==
  /\ heap \in Seq(Alarm)
  /\ alarms \in [Keys -> Nat]
  /\ rpc \in [Recorders -> {"idle", "compute", "apply", "increment", "message"}]
  /\ DOMAIN event = Recorders
  /\ existing \in [Recorders -> Nat]
  /\ old \in [Recorders -> Nat]

(* The key of a cleared alarm is one that a recovery makes too. *)
Colliding(uei, key) ==
  \E u \in Ueis, streamId \in Streams :
    EndsWithRecovered(u) /\ u # uei /\ u \o streamId = key

ClearedCollides ==
  \A i \in Ids : ~IsActive(i) => Colliding(heap[i].uei, heap[i].key)

ClearInv == ShapeOK /\ KeysMatch /\ KeysOfFailures /\ ClearedCollides

LEMMA FirstOfConcat ==
  ASSUME NEW u \in Seq(Segments), NEW s \in Seq(Segments), Len(u) = 1
  PROVE  (u \o s)[1] = u[1]
<1>1. Len(s) \in Nat
  BY SMT
<1>2. 1 \in 1..Len(u) + Len(s) /\ 1 <= Len(u)
  BY <1>1, SMT
<1> QED
  BY <1>2, ConcatProperties

(* With a one-segment uei in front, equal keys have equal ueis. *)
LEMMA PlainKeys ==
  ASSUME PlainUeis, NEW u \in Ueis, NEW v \in Ueis, NEW s \in Streams, NEW t \in Streams,
         ReductionKey(u, s) = ReductionKey(v, t)
  PROVE  u = v
<1>1. /\ u \in Seq(Segments) /\ v \in Seq(Segments)
      /\ s \in Seq(Segments) /\ t \in Seq(Segments)
      /\ Len(u) = 1 /\ Len(v) = 1
  BY AlarmAssumption DEF AlarmAssumption, PlainUeis
<1>2. (u \o s)[1] = u[1] /\ (v \o t)[1] = v[1]
  BY <1>1, FirstOfConcat
<1>3. u[1] = v[1]
  BY <1>2 DEF ReductionKey
<1> QED
  BY <1>1, <1>3, SMT

LEMMA ClearInvInit == Init => ClearInv
<1> SUFFICES ASSUME Init PROVE ClearInv
  OBVIOUS
<1>1. Ids = {}
  BY SMT DEF Init, Ids
<1>2. ShapeOK
  BY SMT DEF Init, ShapeOK
<1>3. KeysMatch
  BY SMT DEF Init, KeysMatch
<1>4. KeysOfFailures /\ ClearedCollides
  BY <1>1 DEF KeysOfFailures, ClearedCollides
<1> QED
  BY <1>2, <1>3, <1>4 DEF ClearInv

(* recordEvent's return. *)
LEMMA ReturnKeepsKeys ==
  ASSUME ShapeOK, KeysMatch, NEW r \in Recorders, Return(r),
         Len(heap') \in Nat, Len(heap) \in Nat, Len(heap) <= Len(heap'),
         \A i \in Ids : heap'[i].key = heap[i].key,
         \A k \in Keys : alarms'[k] # 0 => alarms'[k] \in Ids' /\ heap'[alarms'[k]].key = k
  PROVE  KeysMatch'
<1>1. \A c \in Recorders \ {r} : rpc'[c] = rpc[c] /\ event'[c] = event[c] /\ existing'[c] = existing[c]
  BY DEF Return, ShapeOK
<1>2. rpc'[r] = "idle" /\ existing'[r] = 0
  BY DEF Return, ShapeOK
<1>3. Ids \subseteq Ids'
  BY SMT DEF Ids
<1>4. \A c \in Recorders : rpc'[c] # "idle" => event'[c] \in Event
  BY <1>1, <1>2 DEF KeysMatch
<1>5. \A c \in Recorders :
         existing'[c] # 0 => /\ rpc'[c] # "idle"
                             /\ existing'[c] \in Ids'
                             /\ heap'[existing'[c]].key = KeyOf(event'[c])
  BY <1>1, <1>2, <1>3 DEF KeysMatch
<1> QED
  BY <1>4, <1>5 DEF KeysMatch

(* A Recovered event that finds an alarm has another name than the failure *)
(* that raised it.                                                         *)
LEMMA RecoverCollides ==
  ASSUME ClearInv, NEW r \in Recorders, Recover(r), existing[r] # 0
  PROVE  /\ existing[r] \in Ids
         /\ event[r].uei \in Ueis /\ event[r].streamId \in Streams
         /\ EndsWithRecovered(event[r].uei)
         /\ event[r].uei # heap[existing[r]].uei
         /\ event[r].uei \o event[r].streamId = heap[existing[r]].key
<1> DEFINE e == event[r]
<1>1. e \in Event /\ EndsWithRecovered(e.uei)
  BY DEF Recover, ClearInv, KeysMatch
<1>2. e.uei \in Ueis /\ e.streamId \in Streams
  BY <1>1 DEF Event
<1>3. existing[r] \in Ids /\ heap[existing[r]].key = e.uei \o e.streamId
  BY DEF ClearInv, KeysMatch, KeyOf, ReductionKey
<1>4. ~EndsWithRecovered(heap[existing[r]].uei)
  BY <1>3 DEF ClearInv, KeysOfFailures
<1> QED
  BY <1>1, <1>2, <1>3, <1>4

LEMMA ClearInvStep ==
  ASSUME ClearInv, [Next]_vars
  PROVE  ClearInv'
<1> USE DEF ClearInv
<1>1. Len(heap) \in Nat
  BY SMT DEF ShapeOK
<1>2. ASSUME NEW r \in Recorders, NEW e \in Event, Post(r, e) PROVE ClearInv'
  <2>1. /\ rpc' = [rpc EXCEPT ![r] = "compute"] /\ event' = [event EXCEPT ![r] = e]
        /\ UNCHANGED <<heap, alarms, existing, old>> /\ rpc[r] = "idle"
    BY <1>2 DEF Post
  <2>2. ShapeOK'
    BY <2>1, SMT DEF ShapeOK
  <2>3. existing[r] = 0
    BY <2>1 DEF KeysMatch
  <2>4. KeysMatch'
    BY <2>1, <2>3 DEF KeysMatch, ShapeOK, Ids
  <2> QED
    BY <2>1, <2>2, <2>4 DEF KeysOfFailures, ClearedCollides, IsActive, Ids
<1>3. ASSUME NEW r \in Recorders, EnterCompute(r) PROVE ClearInv'
  <2> DEFINE k == KeyOf(event[r])
  <2>1. /\ rpc' = [rpc EXCEPT ![r] = "apply"] /\ existing' = [existing EXCEPT ![r] = alarms[k]]
        /\ UNCHANGED <<heap, alarms, event, old>> /\ rpc[r] = "compute"
    BY <1>3 DEF EnterCompute
  <2>2. event[r] \in Event /\ k \in Keys
    BY <2>1 DEF KeysMatch, Event, KeyOf, Keys
  <2>3. ShapeOK'
    BY <2>1, <2>2, SMT DEF ShapeOK
  <2>4. KeysMatch'
    BY <2>1, <2>2 DEF KeysMatch, ShapeOK, Ids
  <2> QED
    BY <2>1, <2>3, <2>4 DEF KeysOfFailures, ClearedCollides, IsActive, Ids
<1>4. ASSUME NEW r \in Recorders, Recover(r) PROVE ClearInv'
  <2> DEFINE x == existing[r]
             c == [heap[x] EXCEPT !.cleared = TRUE]
  <2>1. UNCHANGED <<alarms, old>> /\ Return(r)
    BY <1>4 DEF Recover
  <2>2. CASE x = 0
    <3>1. heap' = heap
      BY <1>4, <2>2 DEF Recover
    <3>2. KeysMatch'
      BY <1>1, <2>1, <3>1, ReturnKeepsKeys DEF KeysMatch, Ids
    <3>3. ShapeOK'
      BY <2>1, <3>1, SMT DEF Return, ShapeOK
    <3> QED
      BY <3>1, <3>2, <3>3 DEF KeysOfFailures, ClearedCollides, IsActive, Ids
  <2>3. CASE x # 0
    <3>1. x \in Ids /\ heap' = [heap EXCEPT ![x] = c]
      BY <1>4, <2>3, RecoverCollides DEF Recover
    <3>2. heap[x] \in Alarm
      BY <1>1, <3>1, SeqElement DEF ShapeOK, Ids
    <3>3. c \in Alarm /\ c.key = heap[x].key /\ c.uei = heap[x].uei
      <4>1. c.key = heap[x].key /\ c.uei = heap[x].uei
        BY <3>2 DEF Alarm
      <4>2. c \in Alarm
        <5>1. TRUE \in BOOLEAN
          OBVIOUS
        <5> QED
          BY <3>2, <5>1, Zenon DEF Alarm
      <4> QED
        BY <4>1, <4>2
    <3> HIDE DEF c
    <3>4. /\ heap' \in Seq(Alarm)
          /\ Len(heap') = Len(heap)
          /\ heap'[x] = c
          /\ \A j \in Ids : j # x => heap'[j] = heap[j]
      BY <3>1, <3>3, SeqUpdate DEF ShapeOK, Ids
    <3>5. Ids' = Ids /\ \A i \in Ids : heap'[i].key = heap[i].key /\ heap'[i].uei = heap[i].uei
      BY <3>3, <3>4 DEF Ids
    <3>6. ShapeOK'
      BY <2>1, <3>4, SMT DEF Return, ShapeOK
    <3>7. KeysMatch'
      <4>1. Len(heap') \in Nat /\ Len(heap) <= Len(heap')
        BY <1>1, <3>4, SMT
      <4>2. \A k \in Keys : alarms'[k] # 0 => alarms'[k] \in Ids' /\ heap'[alarms'[k]].key = k
        BY <2>1, <3>5 DEF KeysMatch
      <4> QED
        BY <1>1, <2>1, <3>5, <4>1, <4>2, ReturnKeepsKeys
    <3>8. KeysOfFailures'
      BY <3>5 DEF KeysOfFailures
    <3>9. ClearedCollides'
      <4>1. Colliding(heap[x].uei, heap[x].key)
        BY <1>4, <2>3, RecoverCollides DEF Colliding
      <4>2. \A i \in Ids : heap'[i].cleared => Colliding(heap[i].uei, heap[i].key)
        <5> TAKE i \in Ids
        <5> HAVE heap'[i].cleared
        <5>1. CASE i = x
          BY <4>1, <5>1
        <5>2. CASE i # x
          <6>1. ~IsActive(i)
            BY <3>4, <5>2 DEF IsActive
          <6> QED
            BY <6>1 DEF ClearedCollides
        <5> QED
          BY <5>1, <5>2
      <4> QED
        BY <3>5, <4>2 DEF ClearedCollides, IsActive
    <3> QED
      BY <3>6, <3>7, <3>8, <3>9
  <2> QED
    BY <2>2, <2>3
<1>5. ASSUME NEW r \in Recorders, Create(r) PROVE ClearInv'
  <2> DEFINE k == KeyOf(event[r])
             a == [key |-> k, uei |-> event[r].uei, lastMessage |-> event[r].message,
                   occurrenceCount |-> 1, cleared |-> FALSE]
  <2>1. /\ rpc[r] = "apply" /\ ~EndsWithRecovered(event[r].uei)
        /\ heap' = Append(heap, a)
        /\ alarms' = [alarms EXCEPT ![k] = Len(heap) + 1]
        /\ Return(r) /\ old' = old
    BY <1>5 DEF Create
  <2>2. event[r] \in Event
    BY <2>1 DEF KeysMatch
  <2>3. k \in Keys /\ event[r].uei \in Ueis /\ event[r].streamId \in Streams
        /\ event[r].message \in Messages
    BY <2>2 DEF Event, KeyOf, Keys
  <2>4. a \in Alarm
    BY <2>3, SMT DEF Alarm
  <2>5. a.key = k /\ a.uei = event[r].uei /\ a.cleared = FALSE
    OBVIOUS
  <2> HIDE DEF a
  <2>6. ShapeOK'
    <3>1. heap' \in Seq(Alarm)
      BY <2>1, <2>4, SMT DEF ShapeOK
    <3>2. alarms' \in [Keys -> Nat]
      BY <1>1, <2>1, <2>3, SMT DEF ShapeOK
    <3>3. /\ rpc' \in [Recorders -> {"idle", "compute", "apply", "increment", "message"}]
          /\ existing' \in [Recorders -> Nat]
      BY <2>1, SMT DEF Return, ShapeOK
    <3> QED
      BY <2>1, <3>1, <3>2, <3>3 DEF Return, ShapeOK
  <2>7. /\ Len(heap') = Len(heap) + 1
        /\ heap'[Len(heap) + 1] = a
        /\ \A i \in Ids : heap'[i] = heap[i]
    BY <2>1, SMT DEF ShapeOK, Ids
  <2>8. Ids' = Ids \cup {Len(heap) + 1}
    BY <1>1, <2>7, SMT DEF Ids
  <2>9. \A j \in Keys : alarms'[j] # 0 => alarms'[j] \in Ids' /\ heap'[alarms'[j]].key = j
    <3> TAKE j \in Keys
    <3>1. CASE j = k
      BY <2>1, <2>3, <2>5, <2>7, <2>8, <3>1 DEF ShapeOK
    <3>2. CASE j # k
      <4>1. alarms'[j] = alarms[j]
        BY <2>1, <3>2 DEF ShapeOK
      <4> QED
        BY <2>7, <2>8, <4>1 DEF KeysMatch
    <3> QED
      BY <3>1, <3>2
  <2>10. KeysMatch'
    <3>1. Len(heap') \in Nat /\ Len(heap) <= Len(heap')
      BY <1>1, <2>7, SMT
    <3>2. \A i \in Ids : heap'[i].key = heap[i].key
      BY <2>7
    <3> QED
      BY <1>1, <2>1, <2>9, <3>1, <3>2, ReturnKeepsKeys
  <2>11. KeysOfFailures'
    <3>1. /\ heap'[Len(heap) + 1].uei = event[r].uei
          /\ heap'[Len(heap) + 1].key = ReductionKey(event[r].uei, event[r].streamId)
      BY <2>5, <2>7 DEF KeyOf
    <3> QED
      BY <2>1, <2>3, <2>7, <2>8, <3>1 DEF KeysOfFailures
  <2>12. ClearedCollides'
    BY <2>5, <2>7, <2>8 DEF ClearedCollides, IsActive
  <2> QED
    BY <2>6, <2>10, <2>11, <2>12
<1>6. ASSUME NEW r \in Recorders, Repeat(r) PROVE ClearInv'
  <2>1. /\ rpc' = [rpc EXCEPT ![r] = "increment"] /\ rpc[r] = "apply"
        /\ old' = [old EXCEPT ![r] = heap[existing[r]].occurrenceCount]
        /\ existing[r] \in Ids
        /\ UNCHANGED <<heap, alarms, event, existing>>
    BY <1>6 DEF Repeat, NeedsNewAlarm, InForce
  <2>2. heap[existing[r]].occurrenceCount \in Nat
    <3>1. heap[existing[r]] \in Alarm
      BY <1>1, <2>1, SeqElement DEF ShapeOK, Ids
    <3> QED
      BY <3>1 DEF Alarm
  <2>3. ShapeOK'
    BY <2>1, <2>2, SMT DEF ShapeOK
  <2>4. KeysMatch'
    BY <2>1 DEF KeysMatch, ShapeOK, Ids
  <2> QED
    BY <2>1, <2>3, <2>4 DEF KeysOfFailures, ClearedCollides, IsActive, Ids
<1>7. ASSUME NEW r \in Recorders, Increment(r) \/ SetMessage(r) PROVE ClearInv'
  <2> DEFINE x == existing[r]
  <2>1. rpc[r] # "idle" /\ event[r] \in Event
    BY <1>7 DEF Increment, SetMessage, KeysMatch
  <2>2. /\ \/ heap' = [heap EXCEPT ![x].occurrenceCount = old[r] + 1]
           \/ heap' = [heap EXCEPT ![x].lastMessage = event[r].message]
        /\ UNCHANGED alarms
        /\ old' = old \/ old' = [old EXCEPT ![r] = 0]
        /\ \/ Return(r)
           \/ rpc' = [rpc EXCEPT ![r] = "message"] /\ UNCHANGED <<event, existing>>
    BY <1>7 DEF Increment, SetMessage
  <2>3. old[r] + 1 \in Nat /\ event[r].message \in Messages
    BY <2>1, SMT DEF ShapeOK, Event
  <2>4. /\ heap' \in Seq(Alarm)
        /\ Len(heap') = Len(heap)
        /\ \A i \in Ids : /\ heap'[i].key = heap[i].key
                           /\ heap'[i].uei = heap[i].uei
                           /\ heap'[i].cleared = heap[i].cleared
    <3> DEFINE a == [heap[x] EXCEPT !.occurrenceCount = old[r] + 1]
               b == [heap[x] EXCEPT !.lastMessage = event[r].message]
    <3>1. PICK c \in {a, b} : heap' = [heap EXCEPT ![x] = c]
      BY <2>2
    <3>2. ASSUME x \in Ids
          PROVE  /\ c \in Alarm
                 /\ c.key = heap[x].key
                 /\ c.uei = heap[x].uei
                 /\ c.cleared = heap[x].cleared
      <4>1. heap[x] \in Alarm
        BY <3>2, SeqElement DEF ShapeOK, Ids
      <4> QED
        BY <2>3, <3>1, <4>1, SMT DEF Alarm
    <3> HIDE DEF a, b
    <3>3. /\ heap' \in Seq(Alarm)
          /\ Len(heap') = Len(heap)
          /\ x \in Ids => heap'[x] = c
          /\ \A j \in Ids : j # x => heap'[j] = heap[j]
      BY <3>1, <3>2, SeqUpdate DEF ShapeOK, Ids
    <3> QED
      BY <3>2, <3>3
  <2>5. ShapeOK'
    <3>0. old' \in [Recorders -> Nat]
      BY <2>2, SMT DEF ShapeOK
    <3>1. CASE Return(r)
      BY <2>2, <2>4, <3>0, <3>1, SMT DEF Return, ShapeOK
    <3>2. CASE rpc' = [rpc EXCEPT ![r] = "message"] /\ UNCHANGED <<event, existing>>
      BY <2>2, <2>4, <3>0, <3>2, SMT DEF ShapeOK
    <3> QED
      BY <2>2, <3>1, <3>2
  <2>6. Ids' = Ids
    BY <2>4 DEF Ids
  <2>7. \A k \in Keys : alarms'[k] # 0 => alarms'[k] \in Ids' /\ heap'[alarms'[k]].key = k
    BY <2>2, <2>4, <2>6 DEF KeysMatch
  <2>8. KeysMatch'
    <3>1. CASE Return(r)
      <4>1. Len(heap) <= Len(heap')
        BY <1>1, <2>4, SMT
      <4> QED
        BY <1>1, <2>4, <2>7, <3>1, <4>1, ReturnKeepsKeys
    <3>2. CASE rpc' = [rpc EXCEPT ![r] = "message"] /\ UNCHANGED <<event, existing>>
      BY <2>1, <2>4, <2>6, <2>7, <3>2 DEF KeysMatch, ShapeOK
    <3> QED
      BY <2>2, <3>1, <3>2
  <2>9. KeysOfFailures'
    BY <2>4, <2>6 DEF KeysOfFailures
  <2>10. ClearedCollides'
    BY <2>4, <2>6 DEF ClearedCollides, IsActive
  <2> QED
    BY <2>5, <2>8, <2>9, <2>10
<1>8. ASSUME UNCHANGED <<heap, alarms, recorderVars>> PROVE ClearInv'
  <2>1. ShapeOK' /\ KeysMatch'
    BY <1>8 DEF recorderVars, ShapeOK, KeysMatch, Ids
  <2>2. KeysOfFailures'
    BY <1>8 DEF KeysOfFailures, Ids
  <2>3. ClearedCollides'
    BY <1>8 DEF ClearedCollides, IsActive, Ids
  <2> QED
    BY <2>1, <2>2, <2>3
<1>9. ASSUME NEW q \in Readers, ReaderStep(q) \/ List(q)
      PROVE  UNCHANGED <<heap, alarms, recorderVars>>
  BY <1>9 DEF ReaderStep, Visit, HandlerReturns, Serialise, Respond, List
<1>10. ASSUME Restart PROVE ClearInv'
  <2>1. Ids' = {}
    BY <1>10, SMT DEF Restart, Ids
  <2>2. ShapeOK'
    BY <1>10, SMT DEF Restart, ShapeOK
  <2>3. KeysMatch'
    BY <1>10, SMT DEF Restart, KeysMatch
  <2>4. KeysOfFailures' /\ ClearedCollides'
    BY <2>1 DEF KeysOfFailures, ClearedCollides
  <2> QED
    BY <2>2, <2>3, <2>4
<1>11. UNCHANGED vars => UNCHANGED <<heap, alarms, recorderVars>>
  BY DEF vars
<1> QED
  BY <1>2, <1>3, <1>4, <1>5, <1>6, <1>7, <1>8, <1>9, <1>10, <1>11 DEF Next, RecorderStep

(* Where no event name contains ":", as in everything catalog-api and      *)
(* chaos-agent send, a Recovered event never finds the alarm it is about:  *)
(* the clearing branch of recordEvent (AlarmStore.java:17-21) is dead.     *)
THEOREM NothingIsCleared ==
  ASSUME PlainUeis
  PROVE  Spec => []NeverCleared
<1>1. Init => ClearInv
  BY ClearInvInit
<1>2. ClearInv /\ [Next]_vars => ClearInv'
  BY ClearInvStep
<1>3. ASSUME ClearInv PROVE NeverCleared
  <2> SUFFICES ASSUME NEW i \in Ids, ~IsActive(i) PROVE FALSE
    BY DEF NeverCleared
  <2>1. PICK u \in Ueis, streamId \in Streams :
           u # heap[i].uei /\ ReductionKey(u, streamId) = heap[i].key
    BY <1>3 DEF ClearInv, ClearedCollides, Colliding, ReductionKey
  <2>2. heap[i].uei \in Ueis /\ \E s \in Streams : heap[i].key = ReductionKey(heap[i].uei, s)
    BY <1>3 DEF ClearInv, KeysOfFailures
  <2> QED
    BY <2>1, <2>2, PlainKeys
<1> QED
  BY <1>1, <1>2, <1>3, PTL DEF Spec

-----------------------------------------------------------------------------
(* Locks, counts and listings.                                             *)

(* A recorder inside compute holds the key and knows the alarm under it,   *)
(* and the one it is about to change is in force.                          *)
Inside(r) == rpc[r] \in {"apply", "increment", "message"}
Writing(r) == rpc[r] \in {"increment", "message"}

LockInv ==
  /\ locked \in [Keys -> Recorders \cup {None}]
  /\ \A r \in Recorders :
       Inside(r) => /\ locked[KeyOf(event[r])] = r
                    /\ existing[r] = alarms[KeyOf(event[r])]
  /\ \A r \in Recorders : Writing(r) => existing[r] \in InForce

(* The alarm under a key is its newest; an older one is not in force. *)
NewestInv ==
  /\ \A i \in InForce : alarms[heap[i].key] = i
  /\ \A i \in Ids : i <= alarms[heap[i].key]

(* A recorder between the two writes has counted an event whose message    *)
(* is not there yet.                                                       *)
Counted(i) == \E r \in Recorders : rpc[r] = "message" /\ existing[r] = i

CountInv ==
  /\ handled \in Seq([events : Nat, last : Messages])
  /\ Len(handled) = Len(heap)
  /\ \A i \in Ids :
       /\ heap[i].occurrenceCount >= 1
       /\ heap[i].lastMessage = handled[i].last
       /\ Counted(i) => heap[i].occurrenceCount = handled[i].events + 1
       /\ ~Counted(i) => heap[i].occurrenceCount = handled[i].events
  /\ \A r \in Recorders : rpc[r] = "increment" => old[r] = heap[existing[r]].occurrenceCount

(* Every event posted is counted once at most: what an alarm has counted   *)
(* and what is still on its way do not exceed what was posted.             *)
Uncounted == {r \in Recorders : rpc[r] \in {"compute", "apply", "increment"}}

TallyInv ==
  /\ IsFiniteSet(Uncounted)
  /\ posted \in 0..MaxEvents
  /\ Cardinality(Uncounted) <= posted
  /\ \A i \in Ids : heap[i].occurrenceCount + Cardinality(Uncounted) <= posted
  /\ old \in [Recorders -> 0..MaxEvents]

StoreInv == ClearInv /\ LockInv /\ NewestInv /\ CountInv

-----------------------------------------------------------------------------
(* What the actions do to the alarms.                                      *)

LEMMA HeapElement ==
  ASSUME ClearInv, NEW i \in Ids
  PROVE  /\ heap[i] \in Alarm
         /\ heap[i].key \in Keys
         /\ heap[i].occurrenceCount \in Nat
         /\ i \in Nat \ {0}
<1>1. heap \in Seq(Alarm) /\ Len(heap) \in Nat
  BY SMT DEF ClearInv, ShapeOK
<1>2. heap[i] \in Alarm
  BY <1>1, SeqElement DEF Ids
<1> QED
  BY <1>1, <1>2, SMT DEF Alarm, Ids

LEMMA KeyOfEvent ==
  ASSUME ClearInv, NEW r \in Recorders, rpc[r] # "idle"
  PROVE  event[r] \in Event /\ KeyOf(event[r]) \in Keys
BY DEF ClearInv, KeysMatch, Event, KeyOf, Keys

(* recordEvent's return takes the thread out of compute. *)
LEMMA Returned ==
  ASSUME ClearInv, LockInv, NEW r \in Recorders, rpc[r] # "idle", Return(r)
  PROVE  /\ rpc' = [rpc EXCEPT ![r] = "idle"]
         /\ rpc'[r] = "idle" /\ event'[r] = None /\ existing'[r] = 0
         /\ \A c \in Recorders \ {r} :
              rpc'[c] = rpc[c] /\ event'[c] = event[c] /\ existing'[c] = existing[c]
         /\ locked'[KeyOf(event[r])] = None
         /\ \A k \in Keys \ {KeyOf(event[r])} : locked'[k] = locked[k]
         /\ locked' \in [Keys -> Recorders \cup {None}]
<1>1. KeyOf(event[r]) \in Keys
  BY KeyOfEvent
<1> QED
  BY <1>1 DEF Return, ClearInv, ShapeOK, LockInv

LEMMA RecoverEffect ==
  ASSUME ClearInv, NEW r \in Recorders, Recover(r), existing[r] # 0
  PROVE  /\ existing[r] \in Ids
         /\ heap' \in Seq(Alarm) /\ Ids' = Ids /\ Len(heap') = Len(heap)
         /\ \A i \in Ids : /\ heap'[i].key = heap[i].key
                           /\ heap'[i].lastMessage = heap[i].lastMessage
                           /\ heap'[i].occurrenceCount = heap[i].occurrenceCount
                           /\ i # existing[r] => heap'[i] = heap[i]
         /\ heap'[existing[r]].cleared = TRUE
         /\ heap[existing[r]].cleared => heap'[existing[r]] = heap[existing[r]]
<1> DEFINE x == existing[r]
           c == [heap[x] EXCEPT !.cleared = TRUE]
<1>1. x \in Ids /\ heap' = [heap EXCEPT ![x] = c]
  BY RecoverCollides DEF Recover
<1>2. heap[x] \in Alarm
  BY <1>1, HeapElement
<1>3. /\ c.key = heap[x].key /\ c.lastMessage = heap[x].lastMessage
      /\ c.occurrenceCount = heap[x].occurrenceCount /\ c.cleared = TRUE
  BY <1>2 DEF Alarm
<1>4. c \in Alarm
  <2>1. TRUE \in BOOLEAN
    OBVIOUS
  <2> QED
    BY <1>2, <2>1, Zenon DEF Alarm
<1>5. ASSUME heap[x].cleared PROVE c = heap[x]
  <2>1. heap[x].cleared = TRUE
    BY <1>2, <1>5 DEF Alarm
  <2> QED
    BY <1>2, <2>1, Zenon DEF Alarm
<1> HIDE DEF c
<1>6. /\ heap' \in Seq(Alarm) /\ Len(heap') = Len(heap)
      /\ heap'[x] = c
      /\ \A j \in Ids : j # x => heap'[j] = heap[j]
  BY <1>1, <1>4, SeqUpdate DEF ClearInv, ShapeOK, Ids
<1> QED
  BY <1>1, <1>3, <1>5, <1>6 DEF Ids

LEMMA CreateEffect ==
  ASSUME ClearInv, NEW r \in Recorders, Create(r)
  PROVE  /\ heap' \in Seq(Alarm) /\ Len(heap') = Len(heap) + 1 /\ Len(heap) \in Nat
         /\ Ids' = Ids \cup {Len(heap) + 1} /\ Len(heap) + 1 \notin Ids
         /\ \A i \in Ids : heap'[i] = heap[i] /\ i # Len(heap) + 1
         /\ heap'[Len(heap) + 1].key = KeyOf(event[r])
         /\ heap'[Len(heap) + 1].occurrenceCount = 1
         /\ heap'[Len(heap) + 1].lastMessage = event[r].message
         /\ heap'[Len(heap) + 1].cleared = FALSE
         /\ KeyOf(event[r]) \in Keys
         /\ alarms'[KeyOf(event[r])] = Len(heap) + 1
         /\ \A k \in Keys \ {KeyOf(event[r])} : alarms'[k] = alarms[k]
<1> DEFINE k == KeyOf(event[r])
           a == [key |-> k, uei |-> event[r].uei, lastMessage |-> event[r].message,
                 occurrenceCount |-> 1, cleared |-> FALSE]
<1>1. event[r] \in Event /\ k \in Keys
  BY KeyOfEvent DEF Create
<1>2. heap' = Append(heap, a) /\ alarms' = [alarms EXCEPT ![k] = Len(heap) + 1]
  BY DEF Create
<1>3. a \in Alarm
  BY <1>1, SMT DEF Alarm, Event
<1>4. a.key = k /\ a.occurrenceCount = 1 /\ a.lastMessage = event[r].message /\ a.cleared = FALSE
  OBVIOUS
<1> HIDE DEF a
<1>5. /\ heap' \in Seq(Alarm) /\ Len(heap') = Len(heap) + 1 /\ Len(heap) \in Nat
      /\ heap'[Len(heap) + 1] = a
      /\ \A i \in Ids : heap'[i] = heap[i] /\ i # Len(heap) + 1
  BY <1>2, <1>3, SMT DEF ClearInv, ShapeOK, Ids
<1>6. Ids' = Ids \cup {Len(heap) + 1} /\ Len(heap) + 1 \notin Ids
  BY <1>5, SMT DEF Ids
<1>7. alarms'[k] = Len(heap) + 1 /\ \A j \in Keys \ {k} : alarms'[j] = alarms[j]
  BY <1>1, <1>2 DEF ClearInv, ShapeOK
<1> QED
  BY <1>1, <1>4, <1>5, <1>6, <1>7

LEMMA IncrementEffect ==
  ASSUME ClearInv, NEW r \in Recorders, Increment(r), existing[r] \in Ids
  PROVE  /\ heap' \in Seq(Alarm) /\ Ids' = Ids /\ Len(heap') = Len(heap)
         /\ \A i \in Ids : /\ heap'[i].key = heap[i].key
                           /\ heap'[i].lastMessage = heap[i].lastMessage
                           /\ heap'[i].cleared = heap[i].cleared
                           /\ i # existing[r] => heap'[i] = heap[i]
         /\ heap'[existing[r]].occurrenceCount = old[r] + 1
<1> DEFINE x == existing[r]
           c == [heap[x] EXCEPT !.occurrenceCount = old[r] + 1]
<1>1. x \in Ids /\ heap' = [heap EXCEPT ![x] = c]
  BY DEF Increment
<1>2. heap[x] \in Alarm /\ old[r] + 1 \in Nat
  BY <1>1, HeapElement, SMT DEF ClearInv, ShapeOK
<1>3. /\ c.key = heap[x].key /\ c.lastMessage = heap[x].lastMessage
      /\ c.occurrenceCount = old[r] + 1 /\ c.cleared = heap[x].cleared
  BY <1>2 DEF Alarm
<1>4. c \in Alarm
  BY <1>2, SMT DEF Alarm
<1> HIDE DEF c
<1>5. /\ heap' \in Seq(Alarm) /\ Len(heap') = Len(heap)
      /\ heap'[x] = c
      /\ \A j \in Ids : j # x => heap'[j] = heap[j]
  BY <1>1, <1>4, SeqUpdate DEF ClearInv, ShapeOK, Ids
<1> QED
  BY <1>1, <1>3, <1>5 DEF Ids

LEMMA SetMessageEffect ==
  ASSUME ClearInv, NEW r \in Recorders, SetMessage(r), existing[r] \in Ids
  PROVE  /\ heap' \in Seq(Alarm) /\ Ids' = Ids /\ Len(heap') = Len(heap)
         /\ \A i \in Ids : /\ heap'[i].key = heap[i].key
                           /\ heap'[i].occurrenceCount = heap[i].occurrenceCount
                           /\ heap'[i].cleared = heap[i].cleared
                           /\ i # existing[r] => heap'[i] = heap[i]
         /\ heap'[existing[r]].lastMessage = event[r].message
<1> DEFINE x == existing[r]
           c == [heap[x] EXCEPT !.lastMessage = event[r].message]
<1>1. x \in Ids /\ heap' = [heap EXCEPT ![x] = c]
  BY DEF SetMessage
<1>2. heap[x] \in Alarm /\ event[r].message \in Messages
  <2>1. event[r] \in Event
    BY KeyOfEvent DEF SetMessage
  <2> QED
    BY <1>1, <2>1, HeapElement DEF Event
<1>3. /\ c.key = heap[x].key /\ c.lastMessage = event[r].message
      /\ c.occurrenceCount = heap[x].occurrenceCount /\ c.cleared = heap[x].cleared
  BY <1>2 DEF Alarm
<1>4. c \in Alarm
  BY <1>2, SMT DEF Alarm
<1> HIDE DEF c
<1>5. /\ heap' \in Seq(Alarm) /\ Len(heap') = Len(heap)
      /\ heap'[x] = c
      /\ \A j \in Ids : j # x => heap'[j] = heap[j]
  BY <1>1, <1>4, SeqUpdate DEF ClearInv, ShapeOK, Ids
<1> QED
  BY <1>1, <1>3, <1>5 DEF Ids

(* What readers do leaves the store alone. *)
LEMMA ReadersOnlyRead ==
  ASSUME NEW q \in Readers, ReaderStep(q) \/ List(q)
  PROVE  UNCHANGED <<heap, alarms, locked, recorderVars, handled>>
BY DEF ReaderStep, Visit, HandlerReturns, Serialise, Respond, List

LEMMA NoIdsAtFirst == (Init => Ids = {}) /\ (Restart => Ids' = {})
BY SMT DEF Init, Restart, Ids

-----------------------------------------------------------------------------
(* LockInv.                                                                *)

(* compute takes the recorders of one key in turn (AlarmStore.java:16). *)
LEMMA OneInside ==
  ASSUME ClearInv, LockInv, NEW r \in Recorders, NEW c \in Recorders, r # c,
         Inside(r), Inside(c)
  PROVE  /\ KeyOf(event[r]) # KeyOf(event[c])
         /\ existing[r] # 0 => existing[r] # existing[c]
<1>1. KeyOf(event[r]) # KeyOf(event[c])
  BY DEF LockInv
<1>2. ASSUME existing[r] # 0, existing[r] = existing[c] PROVE FALSE
  BY <1>1, <1>2 DEF ClearInv, KeysMatch
<1> QED
  BY <1>1, <1>2

LEMMA ReturnKeepsLocks ==
  ASSUME ClearInv, LockInv, NEW r \in Recorders, Inside(r), Return(r),
         \A c \in Recorders \ {r} :
           /\ Inside(c) => alarms'[KeyOf(event[c])] = alarms[KeyOf(event[c])]
           /\ Writing(c) => existing[c] \in InForce'
  PROVE  LockInv'
<1>1. rpc[r] # "idle"
  BY DEF Inside
<1>2. /\ rpc'[r] = "idle" /\ locked' \in [Keys -> Recorders \cup {None}]
      /\ \A c \in Recorders \ {r} :
           rpc'[c] = rpc[c] /\ event'[c] = event[c] /\ existing'[c] = existing[c]
      /\ \A k \in Keys \ {KeyOf(event[r])} : locked'[k] = locked[k]
  BY <1>1, Returned
<1>3. ASSUME NEW c \in Recorders, Inside(c)'
      PROVE  locked'[KeyOf(event'[c])] = c /\ existing'[c] = alarms'[KeyOf(event'[c])]
  <2>1. c # r
    BY <1>2, <1>3 DEF Inside
  <2>2. Inside(c)
    BY <1>2, <1>3, <2>1 DEF Inside
  <2>3. KeyOf(event[c]) # KeyOf(event[r])
    BY <2>1, <2>2, OneInside
  <2>4. KeyOf(event[c]) \in Keys
    BY <2>2, KeyOfEvent DEF Inside
  <2> QED
    BY <1>2, <2>1, <2>2, <2>3, <2>4 DEF LockInv
<1>4. \A c \in Recorders : Writing(c)' => existing'[c] \in InForce'
  BY <1>2 DEF Writing
<1> QED
  BY <1>2, <1>3, <1>4 DEF LockInv

LEMMA LockInvInit == Init => LockInv
BY SMT DEF Init, LockInv, Inside, Writing

LEMMA LockInvStep ==
  ASSUME ClearInv, LockInv, [Next]_vars
  PROVE  LockInv'
<1>1. ASSUME NEW r \in Recorders, NEW e \in Event, Post(r, e) PROVE LockInv'
  <2>1. /\ rpc' = [rpc EXCEPT ![r] = "compute"] /\ event' = [event EXCEPT ![r] = e]
        /\ UNCHANGED <<heap, alarms, locked, existing>>
    BY <1>1 DEF Post
  <2> QED
    BY <2>1 DEF ClearInv, ShapeOK, LockInv, Inside, Writing, InForce, Ids, IsActive
<1>2. ASSUME NEW r \in Recorders, EnterCompute(r) PROVE LockInv'
  <2> DEFINE k == KeyOf(event[r])
  <2>1. /\ rpc' = [rpc EXCEPT ![r] = "apply"] /\ rpc[r] = "compute"
        /\ locked[k] = None /\ locked' = [locked EXCEPT ![k] = r]
        /\ existing' = [existing EXCEPT ![r] = alarms[k]]
        /\ UNCHANGED <<heap, alarms, event>>
    BY <1>2 DEF EnterCompute, MayCompute
  <2>2. k \in Keys
    BY <2>1, KeyOfEvent
  <2>3. locked' \in [Keys -> Recorders \cup {None}]
    BY <2>1, <2>2 DEF LockInv
  <2>4. locked'[k] = r /\ existing'[r] = alarms[k] /\ ~Writing(r)' /\ event'[r] = event[r]
    BY <2>1, <2>2 DEF LockInv, ClearInv, ShapeOK, Writing
  <2>5. ASSUME NEW c \in Recorders \ {r}, Inside(c)
        PROVE  locked'[KeyOf(event[c])] = c /\ existing'[c] = alarms[KeyOf(event[c])]
    <3>1. locked[KeyOf(event[c])] = c /\ c # None
      BY <2>5, AlarmAssumption DEF LockInv, AlarmAssumption
    <3>2. KeyOf(event[c]) # k /\ KeyOf(event[c]) \in Keys
      BY <2>1, <2>5, <3>1, KeyOfEvent DEF Inside
    <3> QED
      BY <2>1, <2>5, <3>1, <3>2 DEF LockInv, ClearInv, ShapeOK
  <2>6. \A c \in Recorders \ {r} : rpc'[c] = rpc[c] /\ existing'[c] = existing[c]
    BY <2>1 DEF ClearInv, ShapeOK
  <2>7. \A c \in Recorders : Inside(c)' =>
          locked'[KeyOf(event'[c])] = c /\ existing'[c] = alarms'[KeyOf(event'[c])]
    BY <2>1, <2>4, <2>5, <2>6 DEF Inside
  <2>8. \A c \in Recorders : Writing(c)' => existing'[c] \in InForce'
    BY <2>1, <2>4, <2>6 DEF LockInv, Writing, InForce, Ids, IsActive
  <2> QED
    BY <2>3, <2>7, <2>8 DEF LockInv
<1>3. ASSUME NEW r \in Recorders, Recover(r) PROVE LockInv'
  <2>1. Inside(r) /\ Return(r) /\ alarms' = alarms
    BY <1>3 DEF Recover, Inside
  <2>2. ASSUME NEW c \in Recorders \ {r}, Writing(c) PROVE existing[c] \in InForce'
    <3>1. existing[c] \in Ids /\ ~heap[existing[c]].cleared /\ Inside(c)
      BY <2>2 DEF LockInv, InForce, IsActive, Writing, Inside
    <3>2. CASE existing[r] = 0
      <4>1. heap' = heap
        BY <1>3, <3>2 DEF Recover
      <4> QED
        BY <3>1, <4>1 DEF InForce, IsActive, Ids
    <3>3. CASE existing[r] # 0
      <4>1. existing[c] # existing[r]
        BY <2>1, <3>1, <3>3, OneInside
      <4> QED
        BY <1>3, <3>1, <3>3, <4>1, RecoverEffect DEF InForce, IsActive
    <3> QED
      BY <3>2, <3>3
  <2> QED
    BY <2>1, <2>2, ReturnKeepsLocks
<1>4. ASSUME NEW r \in Recorders, Create(r) PROVE LockInv'
  <2>1. Inside(r) /\ Return(r)
    BY <1>4 DEF Create, Inside
  <2>2. ASSUME NEW c \in Recorders \ {r}, Inside(c)
        PROVE  alarms'[KeyOf(event[c])] = alarms[KeyOf(event[c])]
    <3>1. KeyOf(event[c]) # KeyOf(event[r]) /\ KeyOf(event[c]) \in Keys
      BY <2>1, <2>2, OneInside, KeyOfEvent DEF Inside
    <3> QED
      BY <1>4, <3>1, CreateEffect
  <2>3. InForce \subseteq InForce'
    BY <1>4, CreateEffect DEF InForce, IsActive
  <2> QED
    BY <2>1, <2>2, <2>3, ReturnKeepsLocks DEF LockInv
<1>5. ASSUME NEW r \in Recorders, Repeat(r) PROVE LockInv'
  <2>1. /\ rpc' = [rpc EXCEPT ![r] = "increment"] /\ rpc[r] = "apply"
        /\ existing[r] \in InForce
        /\ UNCHANGED <<heap, alarms, locked, event, existing>>
    BY <1>5 DEF Repeat, NeedsNewAlarm
  <2> QED
    BY <2>1 DEF ClearInv, ShapeOK, LockInv, Inside, Writing, InForce, Ids, IsActive
<1>6. ASSUME NEW r \in Recorders, Increment(r) PROVE LockInv'
  <2>1. /\ rpc' = [rpc EXCEPT ![r] = "message"] /\ rpc[r] = "increment"
        /\ UNCHANGED <<alarms, locked, event, existing>>
    BY <1>6 DEF Increment
  <2>2. existing[r] \in Ids
    BY <2>1 DEF LockInv, Writing, InForce
  <2>3. InForce' = InForce
    BY <1>6, <2>2, IncrementEffect DEF InForce, IsActive
  <2> QED
    BY <2>1, <2>3 DEF ClearInv, ShapeOK, LockInv, Inside, Writing
<1>7. ASSUME NEW r \in Recorders, SetMessage(r) PROVE LockInv'
  <2>1. Inside(r) /\ Writing(r) /\ Return(r) /\ alarms' = alarms
    BY <1>7 DEF SetMessage, Inside, Writing
  <2>2. existing[r] \in Ids
    BY <2>1 DEF LockInv, InForce
  <2>3. InForce' = InForce
    BY <1>7, <2>2, SetMessageEffect DEF InForce, IsActive
  <2> QED
    BY <2>1, <2>3, ReturnKeepsLocks DEF LockInv
<1>8. ASSUME UNCHANGED <<heap, alarms, locked, recorderVars, handled>> PROVE LockInv'
  BY <1>8 DEF recorderVars, LockInv, Inside, Writing, InForce, Ids, IsActive
<1>9. ASSUME Restart PROVE LockInv'
  BY <1>9, SMT DEF Restart, LockInv, Inside, Writing
<1>10. UNCHANGED vars => UNCHANGED <<heap, alarms, locked, recorderVars, handled>>
  BY DEF vars
<1> QED
  BY <1>1, <1>2, <1>3, <1>4, <1>5, <1>6, <1>7, <1>8, <1>9, <1>10, ReadersOnlyRead
  DEF Next, RecorderStep

-----------------------------------------------------------------------------
(* NewestInv.                                                              *)

LEMMA NewestInvInit == Init => NewestInv
BY NoIdsAtFirst DEF NewestInv, InForce

LEMMA NewestInvStep ==
  ASSUME ClearInv, LockInv, NewestInv, [Next]_vars
  PROVE  NewestInv'
<1>1. ASSUME alarms' = alarms, Ids' = Ids,
             \A i \in Ids : heap'[i].key = heap[i].key /\ (heap[i].cleared => heap'[i].cleared)
      PROVE  NewestInv'
  BY <1>1 DEF NewestInv, InForce, IsActive
<1>2. ASSUME NEW r \in Recorders, Recover(r) PROVE NewestInv'
  <2>1. alarms' = alarms
    BY <1>2 DEF Recover
  <2>2. CASE existing[r] = 0
    <3>1. heap' = heap
      BY <1>2, <2>2 DEF Recover
    <3> QED
      BY <1>1, <2>1, <3>1 DEF Ids
  <2>3. CASE existing[r] # 0
    <3>1. \A i \in Ids : heap[i].cleared => heap'[i].cleared
      BY <1>2, <2>3, RecoverEffect
    <3> QED
      BY <1>1, <1>2, <2>1, <2>3, <3>1, RecoverEffect
  <2> QED
    BY <2>2, <2>3
<1>3. ASSUME NEW r \in Recorders, Create(r) PROVE NewestInv'
  <2> DEFINE k == KeyOf(event[r])
             n == Len(heap) + 1
  <2>1. /\ Ids' = Ids \cup {n} /\ heap'[n].key = k /\ alarms'[k] = n /\ Len(heap) \in Nat
        /\ \A i \in Ids : heap'[i] = heap[i] /\ i # n
        /\ \A j \in Keys \ {k} : alarms'[j] = alarms[j]
    BY <1>3, CreateEffect
  <2>2. existing[r] = alarms[k] /\ existing[r] \notin InForce
    BY <1>3 DEF Create, NeedsNewAlarm, LockInv, Inside
  <2>3. \A i \in InForce : heap[i].key # k
    BY <2>2 DEF NewestInv
  <2>4. \A i \in Ids : heap[i].key \in Keys /\ i <= n
    BY <2>1, HeapElement, SMT DEF Ids
  <2>5. ASSUME NEW i \in InForce' PROVE alarms'[heap'[i].key] = i
    <3>1. CASE i = n
      BY <2>1, <3>1
    <3>2. CASE i # n
      <4>1. i \in InForce /\ heap'[i] = heap[i]
        BY <2>1, <3>2 DEF InForce, IsActive
      <4> QED
        BY <2>1, <2>3, <2>4, <4>1 DEF NewestInv, InForce
    <3> QED
      BY <3>1, <3>2
  <2>6. ASSUME NEW i \in Ids' PROVE i <= alarms'[heap'[i].key]
    <3>1. CASE i = n
      BY <2>1, <3>1
    <3>2. CASE i # n
      <4>1. i \in Ids /\ heap'[i] = heap[i]
        BY <2>1, <3>2
      <4>2. CASE heap[i].key = k
        BY <2>1, <2>4, <4>1, <4>2
      <4>3. CASE heap[i].key # k
        BY <2>1, <2>4, <4>1, <4>3 DEF NewestInv
      <4> QED
        BY <4>2, <4>3
    <3> QED
      BY <3>1, <3>2
  <2> QED
    BY <2>5, <2>6 DEF NewestInv
<1>4. ASSUME NEW r \in Recorders, Increment(r) \/ SetMessage(r) PROVE NewestInv'
  <2>1. alarms' = alarms /\ Writing(r)
    BY <1>4 DEF Increment, SetMessage, Writing
  <2>2. existing[r] \in Ids
    BY <2>1 DEF LockInv, InForce
  <2>3. Ids' = Ids /\ \A i \in Ids : heap'[i].key = heap[i].key /\ heap'[i].cleared = heap[i].cleared
    BY <1>4, <2>2, IncrementEffect, SetMessageEffect
  <2> QED
    BY <1>1, <2>1, <2>3
<1>5. ASSUME UNCHANGED <<heap, alarms>> PROVE NewestInv'
  BY <1>1, <1>5 DEF Ids
<1>6. ASSUME NEW r \in Recorders,
             EnterCompute(r) \/ Repeat(r) \/ \E e \in Event : Post(r, e)
      PROVE  UNCHANGED <<heap, alarms>>
  BY <1>6 DEF EnterCompute, Repeat, Post
<1>7. Restart => NewestInv'
  BY NoIdsAtFirst DEF NewestInv, InForce
<1>8. UNCHANGED vars => UNCHANGED <<heap, alarms>>
  BY DEF vars
<1> QED
  BY <1>2, <1>3, <1>4, <1>5, <1>6, <1>7, <1>8, ReadersOnlyRead DEF Next, RecorderStep

-----------------------------------------------------------------------------
(* CountInv.                                                               *)

(* Who is between the two writes to an alarm is alone with it. *)
LEMMA NoOtherCounted ==
  ASSUME ClearInv, LockInv, NEW r \in Recorders, Inside(r), existing[r] # 0
  PROVE  /\ \A c \in Recorders \ {r} : Inside(c) => existing[c] # existing[r]
         /\ rpc[r] # "message" => ~Counted(existing[r])
<1>1. \A c \in Recorders \ {r} : Inside(c) => existing[c] # existing[r]
  BY OneInside
<1> QED
  BY <1>1 DEF Counted, Inside

(* CountInv survives where neither the alarms nor who has counted changes. *)
LEMMA SameCounts ==
  ASSUME CountInv, handled' = handled, Len(heap') = Len(heap),
         \A i \in Ids : /\ heap'[i].occurrenceCount = heap[i].occurrenceCount
                        /\ heap'[i].lastMessage = heap[i].lastMessage
                        /\ Counted(i)' <=> Counted(i),
         \A c \in Recorders : rpc'[c] = "increment" =>
            old'[c] = heap'[existing'[c]].occurrenceCount
  PROVE  CountInv'
BY DEF CountInv, Ids

(* A recorder that is not between the two writes, before or after. *)
LEMMA SameCounted ==
  ASSUME NEW r \in Recorders, rpc[r] # "message", rpc'[r] # "message",
         \A c \in Recorders \ {r} : rpc'[c] = rpc[c] /\ existing'[c] = existing[c]
  PROVE  \A i : Counted(i)' <=> Counted(i)
BY DEF Counted

LEMMA CountInvInit == Init => CountInv
<1> SUFFICES ASSUME Init PROVE CountInv
  OBVIOUS
<1>1. handled \in Seq([events : Nat, last : Messages]) /\ Len(handled) = Len(heap)
  BY SMT DEF Init
<1>2. \A r \in Recorders : rpc[r] # "increment"
  BY SMT DEF Init
<1> QED
  BY <1>1, <1>2, NoIdsAtFirst DEF CountInv

LEMMA CountInvStep ==
  ASSUME StoreInv, [Next]_vars
  PROVE  CountInv'
<1> USE DEF StoreInv
<1>1. ASSUME NEW r \in Recorders, NEW e \in Event, Post(r, e) PROVE CountInv'
  <2>1. /\ rpc[r] = "idle" /\ rpc'[r] = "compute"
        /\ \A c \in Recorders \ {r} : rpc'[c] = rpc[c]
        /\ UNCHANGED <<heap, existing, old, handled>>
    BY <1>1 DEF Post, ClearInv, ShapeOK
  <2>2. \A i \in Ids : Counted(i)' <=> Counted(i)
    BY <2>1, SameCounted
  <2> QED
    BY <2>1, <2>2, SameCounts DEF CountInv
<1>2. ASSUME NEW r \in Recorders, EnterCompute(r) PROVE CountInv'
  <2>1. /\ rpc[r] = "compute" /\ rpc'[r] = "apply"
        /\ \A c \in Recorders \ {r} : rpc'[c] = rpc[c] /\ existing'[c] = existing[c]
        /\ UNCHANGED <<heap, old, handled>>
    BY <1>2 DEF EnterCompute, ClearInv, ShapeOK
  <2>2. \A i \in Ids : Counted(i)' <=> Counted(i)
    BY <2>1, SameCounted
  <2> QED
    BY <2>1, <2>2, SameCounts DEF CountInv
<1>3. ASSUME NEW r \in Recorders, Recover(r) PROVE CountInv'
  <2>1. rpc[r] = "apply" /\ Return(r) /\ old' = old /\ handled' = handled
    BY <1>3 DEF Recover
  <2>2. /\ rpc'[r] = "idle"
        /\ \A c \in Recorders \ {r} : rpc'[c] = rpc[c] /\ existing'[c] = existing[c]
    BY <2>1, Returned
  <2>3. /\ Len(heap') = Len(heap)
        /\ \A i \in Ids : /\ heap'[i].occurrenceCount = heap[i].occurrenceCount
                          /\ heap'[i].lastMessage = heap[i].lastMessage
    <3>1. existing[r] = 0 => heap' = heap
      BY <1>3 DEF Recover
    <3> QED
      BY <1>3, <3>1, RecoverEffect
  <2>4. \A i \in Ids : Counted(i)' <=> Counted(i)
    BY <2>1, <2>2, SameCounted
  <2>5. ASSUME NEW c \in Recorders, rpc'[c] = "increment"
        PROVE  old'[c] = heap'[existing'[c]].occurrenceCount
    <3>1. c # r /\ rpc[c] = "increment" /\ existing'[c] = existing[c]
      BY <2>2, <2>5
    <3>2. existing[c] \in Ids
      BY <3>1 DEF LockInv, Writing, InForce
    <3> QED
      BY <2>1, <2>3, <3>1, <3>2 DEF CountInv
  <2> QED
    BY <2>1, <2>3, <2>4, <2>5, SameCounts
<1>4. ASSUME NEW r \in Recorders, Create(r) PROVE CountInv'
  <2> DEFINE n == Len(heap) + 1
             h == [events |-> 1, last |-> event[r].message]
  <2>1. /\ Len(heap') = n /\ Len(heap) \in Nat /\ Ids' = Ids \cup {n} /\ n \notin Ids
        /\ \A i \in Ids : heap'[i] = heap[i]
        /\ heap'[n].occurrenceCount = 1 /\ heap'[n].lastMessage = event[r].message
    BY <1>4, CreateEffect
  <2>2. rpc[r] = "apply" /\ Return(r) /\ old' = old /\ handled' = Append(handled, h)
    BY <1>4 DEF Create
  <2>3. h \in [events : Nat, last : Messages]
    BY <2>2, KeyOfEvent, SMT DEF Event
  <2>4. h.events = 1 /\ h.last = event[r].message
    OBVIOUS
  <2> HIDE DEF h
  <2>5. /\ handled' \in Seq([events : Nat, last : Messages])
        /\ Len(handled') = n /\ handled'[n] = h
        /\ \A i \in Ids : handled'[i] = handled[i]
    BY <2>1, <2>2, <2>3, SMT DEF CountInv, Ids
  <2>6. /\ rpc'[r] = "idle"
        /\ \A c \in Recorders \ {r} : rpc'[c] = rpc[c] /\ existing'[c] = existing[c]
    BY <2>2, Returned
  <2>7. \A i : Counted(i)' <=> Counted(i)
    BY <2>2, <2>6, SameCounted
  <2>8. \A i : i = n => ~Counted(i)'
    <3>1. ~Counted(n)
      BY <2>1 DEF Counted, LockInv, Writing, InForce
    <3> QED
      BY <2>7, <3>1
  <2>9. \A i \in Ids' :
          /\ heap'[i].occurrenceCount >= 1
          /\ heap'[i].lastMessage = handled'[i].last
          /\ Counted(i)' => heap'[i].occurrenceCount = handled'[i].events + 1
          /\ ~Counted(i)' => heap'[i].occurrenceCount = handled'[i].events
    <3> TAKE i \in Ids'
    <3>1. CASE i = n
      BY <2>1, <2>4, <2>5, <2>8, <3>1
    <3>2. CASE i # n
      BY <2>1, <2>5, <2>7, <3>2 DEF CountInv
    <3> QED
      BY <3>1, <3>2
  <2>10. ASSUME NEW c \in Recorders, rpc'[c] = "increment"
         PROVE  old'[c] = heap'[existing'[c]].occurrenceCount
    <3>1. c # r /\ rpc[c] = "increment" /\ existing'[c] = existing[c]
      BY <2>6, <2>10
    <3>2. existing[c] \in Ids
      BY <3>1 DEF LockInv, Writing, InForce
    <3> QED
      BY <2>1, <2>2, <3>1, <3>2 DEF CountInv
  <2> QED
    BY <2>1, <2>5, <2>9, <2>10 DEF CountInv
<1>5. ASSUME NEW r \in Recorders, Repeat(r) PROVE CountInv'
  <2>1. /\ rpc[r] = "apply" /\ rpc'[r] = "increment"
        /\ \A c \in Recorders \ {r} : rpc'[c] = rpc[c] /\ old'[c] = old[c]
        /\ old'[r] = heap[existing[r]].occurrenceCount
        /\ UNCHANGED <<heap, existing, handled>>
    BY <1>5 DEF Repeat, ClearInv, ShapeOK
  <2>2. \A i \in Ids : Counted(i)' <=> Counted(i)
    BY <2>1, SameCounted
  <2> QED
    BY <2>1, <2>2, SameCounts DEF CountInv
<1>6. ASSUME NEW r \in Recorders, Increment(r) PROVE CountInv'
  <2> DEFINE x == existing[r]
  <2>1. /\ rpc[r] = "increment" /\ rpc'[r] = "message"
        /\ \A c \in Recorders \ {r} : rpc'[c] = rpc[c] /\ old'[c] = old[c]
        /\ UNCHANGED <<existing, handled>>
    BY <1>6 DEF Increment, ClearInv, ShapeOK
  <2>2. x \in Ids /\ x # 0 /\ Inside(r)
    BY <2>1, HeapElement DEF LockInv, Writing, InForce, Inside
  <2>3. /\ Ids' = Ids /\ Len(heap') = Len(heap)
        /\ \A i \in Ids : heap'[i].lastMessage = heap[i].lastMessage /\ (i # x => heap'[i] = heap[i])
        /\ heap'[x].occurrenceCount = old[r] + 1
    BY <1>6, <2>2, IncrementEffect
  <2>4. old[r] = heap[x].occurrenceCount /\ heap[x].occurrenceCount \in Nat
    BY <2>1, <2>2, HeapElement DEF CountInv
  <2>5. ~Counted(x) /\ \A i \in Ids : IF i = x THEN Counted(i)' ELSE Counted(i)' <=> Counted(i)
    <3>1. ~Counted(x)
      BY <2>1, <2>2, NoOtherCounted
    <3>2. \A i : i = x => Counted(i)'
      BY <2>1 DEF Counted
    <3>3. \A i \in Ids : i # x => (Counted(i)' <=> Counted(i))
      BY <2>1 DEF Counted
    <3> QED
      BY <3>1, <3>2, <3>3
  <2>6. \A i \in Ids' :
          /\ heap'[i].occurrenceCount >= 1
          /\ heap'[i].lastMessage = handled'[i].last
          /\ Counted(i)' => heap'[i].occurrenceCount = handled'[i].events + 1
          /\ ~Counted(i)' => heap'[i].occurrenceCount = handled'[i].events
    <3> TAKE i \in Ids'
    <3>1. CASE i = x
      <4>1. heap[x].occurrenceCount = handled[x].events /\ heap[x].lastMessage = handled[x].last
        BY <2>2, <2>5 DEF CountInv
      <4> QED
        BY <2>1, <2>2, <2>3, <2>4, <2>5, <3>1, <4>1
    <3>2. CASE i # x
      BY <2>1, <2>3, <2>5, <3>2 DEF CountInv
    <3> QED
      BY <3>1, <3>2
  <2>7. ASSUME NEW c \in Recorders, rpc'[c] = "increment"
        PROVE  old'[c] = heap'[existing'[c]].occurrenceCount
    <3>1. c # r /\ rpc[c] = "increment" /\ existing'[c] = existing[c] /\ old'[c] = old[c]
      BY <2>1, <2>7
    <3>2. existing[c] \in Ids /\ existing[c] # x
      BY <2>2, <3>1, NoOtherCounted DEF LockInv, Writing, InForce, Inside
    <3> QED
      BY <2>3, <3>1, <3>2 DEF CountInv
  <2> QED
    BY <2>1, <2>3, <2>6, <2>7 DEF CountInv
<1>7. ASSUME NEW r \in Recorders, SetMessage(r) PROVE CountInv'
  <2> DEFINE x == existing[r]
             h == [events |-> handled[x].events + 1, last |-> event[r].message]
  <2>1. /\ rpc[r] = "message" /\ Return(r) /\ old' = old
        /\ handled' = [handled EXCEPT ![x] = h]
    BY <1>7 DEF SetMessage
  <2>2. x \in Ids /\ x # 0 /\ Inside(r)
    BY <2>1, HeapElement DEF LockInv, Writing, InForce, Inside
  <2>3. /\ Ids' = Ids /\ Len(heap') = Len(heap)
        /\ \A i \in Ids : /\ heap'[i].occurrenceCount = heap[i].occurrenceCount
                          /\ i # x => heap'[i] = heap[i]
        /\ heap'[x].lastMessage = event[r].message
    BY <1>7, <2>2, SetMessageEffect
  <2>4. handled[x].events \in Nat
    <3>1. handled[x] \in [events : Nat, last : Messages]
      BY <2>2, SeqElement DEF CountInv, Ids
    <3> QED
      BY <3>1
  <2>5. h \in [events : Nat, last : Messages]
    BY <2>1, <2>4, KeyOfEvent, SMT DEF Event
  <2>6. h.events = handled[x].events + 1 /\ h.last = event[r].message
    OBVIOUS
  <2> HIDE DEF h
  <2>7. /\ handled' \in Seq([events : Nat, last : Messages])
        /\ Len(handled') = Len(heap)
        /\ handled'[x] = h
        /\ \A i \in Ids : i # x => handled'[i] = handled[i]
    BY <2>1, <2>2, <2>5, SeqUpdate DEF CountInv, Ids
  <2>8. /\ rpc'[r] = "idle"
        /\ \A c \in Recorders \ {r} : rpc'[c] = rpc[c] /\ existing'[c] = existing[c]
    BY <2>1, Returned
  <2>9. Counted(x) /\ \A i \in Ids : IF i = x THEN ~Counted(i)' ELSE Counted(i)' <=> Counted(i)
    <3>1. Counted(x)
      BY <2>1 DEF Counted
    <3>2. \A i : i = x => ~Counted(i)'
      BY <2>2, <2>8, NoOtherCounted DEF Counted, Inside
    <3>3. \A i \in Ids : i # x => (Counted(i)' <=> Counted(i))
      BY <2>8 DEF Counted
    <3> QED
      BY <3>1, <3>2, <3>3
  <2>10. \A i \in Ids' :
          /\ heap'[i].occurrenceCount >= 1
          /\ heap'[i].lastMessage = handled'[i].last
          /\ Counted(i)' => heap'[i].occurrenceCount = handled'[i].events + 1
          /\ ~Counted(i)' => heap'[i].occurrenceCount = handled'[i].events
    <3> TAKE i \in Ids'
    <3>1. CASE i = x
      <4>1. heap[x].occurrenceCount = handled[x].events + 1 /\ heap[x].occurrenceCount >= 1
        BY <2>2, <2>9 DEF CountInv
      <4> QED
        BY <2>2, <2>3, <2>6, <2>7, <2>9, <3>1, <4>1
    <3>2. CASE i # x
      BY <2>3, <2>7, <2>9, <3>2 DEF CountInv
    <3> QED
      BY <3>1, <3>2
  <2>11. ASSUME NEW c \in Recorders, rpc'[c] = "increment"
         PROVE  old'[c] = heap'[existing'[c]].occurrenceCount
    <3>1. c # r /\ rpc[c] = "increment" /\ existing'[c] = existing[c]
      BY <2>8, <2>11
    <3>2. existing[c] \in Ids
      BY <3>1 DEF LockInv, Writing, InForce
    <3> QED
      BY <2>1, <2>3, <3>1, <3>2 DEF CountInv
  <2> QED
    BY <2>3, <2>7, <2>10, <2>11 DEF CountInv
<1>8. ASSUME UNCHANGED <<heap, alarms, locked, recorderVars, handled>> PROVE CountInv'
  <2>1. \A i \in Ids : Counted(i)' <=> Counted(i)
    BY <1>8 DEF recorderVars, Counted
  <2> QED
    BY <1>8, <2>1, SameCounts DEF CountInv, recorderVars
<1>9. ASSUME Restart PROVE CountInv'
  <2>1. handled' \in Seq([events : Nat, last : Messages]) /\ Len(handled') = Len(heap')
    BY <1>9, SMT DEF Restart
  <2>2. \A r \in Recorders : rpc'[r] # "increment"
    BY <1>9, SMT DEF Restart
  <2> QED
    BY <1>9, <2>1, <2>2, NoIdsAtFirst DEF CountInv
<1>10. UNCHANGED vars => UNCHANGED <<heap, alarms, locked, recorderVars, handled>>
  BY DEF vars
<1> QED
  BY <1>1, <1>2, <1>3, <1>4, <1>5, <1>6, <1>7, <1>8, <1>9, <1>10, ReadersOnlyRead
  DEF Next, RecorderStep

-----------------------------------------------------------------------------
(* TallyInv.                                                               *)

LEMMA TallyInvInit == Init => TallyInv
<1> SUFFICES ASSUME Init PROVE TallyInv
  OBVIOUS
<1>1. Uncounted = {}
  BY SMT DEF Init, Uncounted
<1>2. IsFiniteSet(Uncounted) /\ Cardinality(Uncounted) = 0
  BY <1>1, FS_EmptySet
<1>3. posted = 0 /\ posted \in 0..MaxEvents /\ old \in [Recorders -> 0..MaxEvents]
  BY AlarmAssumption, SMT DEF Init, AlarmAssumption
<1> QED
  BY <1>2, <1>3, NoIdsAtFirst, SMT DEF TallyInv

(* A step that counts no event, or counts one for good. *)
LEMMA SameUncounted ==
  ASSUME TallyInv, Uncounted' = Uncounted, posted' = posted, Ids' = Ids,
         \A i \in Ids : heap'[i].occurrenceCount = heap[i].occurrenceCount,
         old' \in [Recorders -> 0..MaxEvents]
  PROVE  TallyInv'
BY DEF TallyInv

LEMMA OneLessUncounted ==
  ASSUME TallyInv, NEW r \in Recorders, rpc[r] \in {"apply", "increment"},
         rpc'[r] \notin {"compute", "apply", "increment"},
         \A c \in Recorders \ {r} : rpc'[c] = rpc[c]
  PROVE  /\ IsFiniteSet(Uncounted') /\ Cardinality(Uncounted') \in Nat
         /\ Cardinality(Uncounted) = Cardinality(Uncounted') + 1
<1>1. r \in Uncounted /\ Uncounted' = Uncounted \ {r}
  BY DEF Uncounted
<1>2. IsFiniteSet(Uncounted)
  BY DEF TallyInv
<1>3. /\ IsFiniteSet(Uncounted \ {r})
      /\ Cardinality(Uncounted \ {r}) = Cardinality(Uncounted) - 1
  BY <1>1, <1>2, FS_RemoveElement
<1>4. Cardinality(Uncounted) \in Nat /\ Cardinality(Uncounted \ {r}) \in Nat
  BY <1>2, <1>3, FS_CardinalityType
<1> QED
  BY <1>1, <1>3, <1>4

LEMMA TallyInvStep ==
  ASSUME StoreInv, TallyInv, [Next]_vars
  PROVE  TallyInv'
<1> USE DEF StoreInv
<1> DEFINE n == Cardinality(Uncounted)
<1>0. n \in Nat /\ posted \in Nat
  BY FS_CardinalityType DEF TallyInv
<1>1. ASSUME NEW r \in Recorders, NEW e \in Event, Post(r, e) PROVE TallyInv'
  <2>1. /\ rpc[r] = "idle" /\ rpc'[r] = "compute"
        /\ \A c \in Recorders \ {r} : rpc'[c] = rpc[c]
        /\ posted < MaxEvents /\ posted' = posted + 1
        /\ UNCHANGED <<heap, old>>
    BY <1>1 DEF Post, ClearInv, ShapeOK
  <2>2. r \notin Uncounted /\ Uncounted' = Uncounted \cup {r}
    BY <2>1 DEF Uncounted
  <2>3. IsFiniteSet(Uncounted') /\ Cardinality(Uncounted') = n + 1
    BY <2>2, FS_AddElement DEF TallyInv
  <2>4. posted' \in 0..MaxEvents
    BY <1>0, <2>1, AlarmAssumption DEF AlarmAssumption
  <2>5. \A i \in Ids : heap[i].occurrenceCount \in Nat
    BY HeapElement
  <2>6. \A i \in Ids' : heap'[i].occurrenceCount + Cardinality(Uncounted') <= posted'
    BY <1>0, <2>1, <2>3, <2>5 DEF TallyInv, Ids
  <2>7. Cardinality(Uncounted') <= posted'
    BY <1>0, <2>1, <2>3 DEF TallyInv
  <2> QED
    BY <2>1, <2>3, <2>4, <2>6, <2>7 DEF TallyInv
<1>2. ASSUME NEW r \in Recorders, EnterCompute(r) PROVE TallyInv'
  <2>1. /\ rpc[r] = "compute" /\ rpc'[r] = "apply"
        /\ \A c \in Recorders \ {r} : rpc'[c] = rpc[c]
        /\ UNCHANGED <<heap, posted, old>>
    BY <1>2 DEF EnterCompute, ClearInv, ShapeOK
  <2>2. Uncounted' = Uncounted
    BY <2>1 DEF Uncounted
  <2> QED
    BY <2>1, <2>2, SameUncounted DEF TallyInv, Ids
<1>3. ASSUME NEW r \in Recorders, Recover(r) PROVE TallyInv'
  <2>1. rpc[r] = "apply" /\ Return(r) /\ old' = old /\ posted' = posted
    BY <1>3 DEF Recover
  <2>2. rpc'[r] = "idle" /\ \A c \in Recorders \ {r} : rpc'[c] = rpc[c]
    BY <2>1, Returned
  <2>3. Ids' = Ids /\ \A i \in Ids : heap'[i].occurrenceCount = heap[i].occurrenceCount
    <3>1. existing[r] = 0 => heap' = heap
      BY <1>3 DEF Recover
    <3> QED
      BY <1>3, <3>1, RecoverEffect DEF Ids
  <2>4. /\ IsFiniteSet(Uncounted') /\ Cardinality(Uncounted') \in Nat
        /\ n = Cardinality(Uncounted') + 1
    BY <2>1, <2>2, OneLessUncounted
  <2>5. \A i \in Ids : heap[i].occurrenceCount \in Nat
    BY HeapElement
  <2>6. \A i \in Ids' : heap'[i].occurrenceCount + Cardinality(Uncounted') <= posted'
    BY <1>0, <2>1, <2>3, <2>4, <2>5 DEF TallyInv
  <2>7. Cardinality(Uncounted') <= posted'
    BY <1>0, <2>1, <2>4 DEF TallyInv
  <2> QED
    BY <2>1, <2>4, <2>6, <2>7 DEF TallyInv
<1>4. ASSUME NEW r \in Recorders, Create(r) PROVE TallyInv'
  <2>1. rpc[r] = "apply" /\ Return(r) /\ old' = old /\ posted' = posted
    BY <1>4 DEF Create
  <2>2. rpc'[r] = "idle" /\ \A c \in Recorders \ {r} : rpc'[c] = rpc[c]
    BY <2>1, Returned
  <2>3. /\ Ids' = Ids \cup {Len(heap) + 1} /\ heap'[Len(heap) + 1].occurrenceCount = 1
        /\ \A i \in Ids : heap'[i] = heap[i]
    BY <1>4, CreateEffect
  <2>4. /\ IsFiniteSet(Uncounted') /\ Cardinality(Uncounted') \in Nat
        /\ n = Cardinality(Uncounted') + 1
    BY <2>1, <2>2, OneLessUncounted
  <2>5. \A i \in Ids : heap[i].occurrenceCount \in Nat
    BY HeapElement
  <2>6. \A i \in Ids : heap'[i].occurrenceCount + Cardinality(Uncounted') <= posted'
    BY <1>0, <2>1, <2>3, <2>4, <2>5 DEF TallyInv
  <2>7. heap'[Len(heap) + 1].occurrenceCount + Cardinality(Uncounted') <= posted'
    BY <1>0, <2>1, <2>3, <2>4 DEF TallyInv
  <2>8. Cardinality(Uncounted') <= posted'
    BY <1>0, <2>1, <2>4 DEF TallyInv
  <2> QED
    BY <2>1, <2>3, <2>4, <2>6, <2>7, <2>8 DEF TallyInv
<1>5. ASSUME NEW r \in Recorders, Repeat(r) PROVE TallyInv'
  <2>1. /\ rpc[r] = "apply" /\ rpc'[r] = "increment" /\ existing[r] \in Ids
        /\ \A c \in Recorders \ {r} : rpc'[c] = rpc[c]
        /\ old' = [old EXCEPT ![r] = heap[existing[r]].occurrenceCount]
        /\ UNCHANGED <<heap, posted>>
    BY <1>5 DEF Repeat, ClearInv, ShapeOK, NeedsNewAlarm, InForce
  <2>2. Uncounted' = Uncounted
    BY <2>1 DEF Uncounted
  <2>3. heap[existing[r]].occurrenceCount \in 0..MaxEvents
    <3>1. heap[existing[r]].occurrenceCount \in Nat
      BY <2>1, HeapElement
    <3>2. heap[existing[r]].occurrenceCount + n <= posted /\ posted <= MaxEvents
      BY <2>1 DEF TallyInv
    <3> QED
      BY <1>0, <3>1, <3>2, AlarmAssumption DEF AlarmAssumption
  <2>4. old' \in [Recorders -> 0..MaxEvents]
    BY <2>1, <2>3 DEF TallyInv
  <2> QED
    BY <2>1, <2>2, <2>4, SameUncounted DEF Ids
<1>6. ASSUME NEW r \in Recorders, Increment(r) PROVE TallyInv'
  <2> DEFINE x == existing[r]
  <2>1. /\ rpc[r] = "increment" /\ rpc'[r] = "message"
        /\ \A c \in Recorders \ {r} : rpc'[c] = rpc[c]
        /\ old' = [old EXCEPT ![r] = 0] /\ posted' = posted
    BY <1>6 DEF Increment, ClearInv, ShapeOK
  <2>2. x \in Ids /\ old[r] = heap[x].occurrenceCount
    BY <2>1 DEF LockInv, Writing, InForce, CountInv
  <2>3. /\ Ids' = Ids /\ \A i \in Ids : i # x => heap'[i] = heap[i]
        /\ heap'[x].occurrenceCount = heap[x].occurrenceCount + 1
    BY <1>6, <2>2, IncrementEffect
  <2>4. /\ IsFiniteSet(Uncounted') /\ Cardinality(Uncounted') \in Nat
        /\ n = Cardinality(Uncounted') + 1
    BY <2>1, OneLessUncounted
  <2>5. \A i \in Ids : heap[i].occurrenceCount \in Nat
    BY HeapElement
  <2>6. \A i \in Ids' : heap'[i].occurrenceCount + Cardinality(Uncounted') <= posted'
    <3> TAKE i \in Ids'
    <3>1. heap[i].occurrenceCount \in Nat /\ heap[i].occurrenceCount + n <= posted
      BY <2>3, <2>5 DEF TallyInv
    <3>2. heap'[i].occurrenceCount \in {heap[i].occurrenceCount, heap[i].occurrenceCount + 1}
      BY <2>3
    <3> QED
      BY <1>0, <2>1, <2>4, <3>1, <3>2
  <2>7. Cardinality(Uncounted') <= posted'
    BY <1>0, <2>1, <2>4 DEF TallyInv
  <2>8. old' \in [Recorders -> 0..MaxEvents]
    BY <2>1, AlarmAssumption DEF TallyInv, AlarmAssumption
  <2> QED
    BY <2>1, <2>4, <2>6, <2>7, <2>8 DEF TallyInv
<1>7. ASSUME NEW r \in Recorders, SetMessage(r) PROVE TallyInv'
  <2>1. rpc[r] = "message" /\ Return(r) /\ old' = old /\ posted' = posted
    BY <1>7 DEF SetMessage
  <2>2. rpc'[r] = "idle" /\ \A c \in Recorders \ {r} : rpc'[c] = rpc[c]
    BY <2>1, Returned
  <2>3. existing[r] \in Ids
    BY <2>1 DEF LockInv, Writing, InForce
  <2>4. Ids' = Ids /\ \A i \in Ids : heap'[i].occurrenceCount = heap[i].occurrenceCount
    BY <1>7, <2>3, SetMessageEffect
  <2>5. Uncounted' = Uncounted
    BY <2>1, <2>2 DEF Uncounted
  <2> QED
    BY <2>1, <2>4, <2>5, SameUncounted DEF TallyInv
<1>8. ASSUME UNCHANGED <<heap, alarms, locked, recorderVars, handled>> PROVE TallyInv'
  BY <1>8 DEF recorderVars, TallyInv, Uncounted, Ids
<1>9. ASSUME Restart PROVE TallyInv'
  <2>1. Uncounted' = {} /\ posted' = posted
    BY <1>9, SMT DEF Restart, Uncounted
  <2>2. IsFiniteSet(Uncounted') /\ Cardinality(Uncounted') = 0
    BY <2>1, FS_EmptySet
  <2>3. old' \in [Recorders -> 0..MaxEvents]
    BY <1>9, AlarmAssumption, SMT DEF Restart, AlarmAssumption
  <2>4. Ids' = {}
    BY <1>9, NoIdsAtFirst
  <2> QED
    BY <1>0, <2>1, <2>2, <2>3, <2>4 DEF TallyInv
<1>10. UNCHANGED vars => UNCHANGED <<heap, alarms, locked, recorderVars, handled>>
  BY DEF vars
<1> QED
  BY <1>1, <1>2, <1>3, <1>4, <1>5, <1>6, <1>7, <1>8, <1>9, <1>10, ReadersOnlyRead
  DEF Next, RecorderStep

-----------------------------------------------------------------------------
(* What readers may rely on: between restarts no alarm goes, counts only   *)
(* rise, and what is cleared is final.                                     *)
OnlyGrows ==
  /\ Ids \subseteq Ids'
  /\ \A i \in Ids : /\ heap'[i].key = heap[i].key
                    /\ heap[i].occurrenceCount <= heap'[i].occurrenceCount
                    /\ heap[i].cleared => heap'[i] = heap[i]
  /\ \A k \in Keys : alarms[k] <= alarms'[k]

LEMMA UnchangedGrows ==
  ASSUME ClearInv, UNCHANGED <<heap, alarms>>
  PROVE  OnlyGrows
<1>1. \A i \in Ids : heap[i].occurrenceCount \in Nat
  BY HeapElement
<1>2. \A k \in Keys : alarms[k] \in Nat
  BY DEF ClearInv, ShapeOK
<1> QED
  BY <1>1, <1>2 DEF OnlyGrows, Ids

LEMMA StoreOnlyGrows ==
  ASSUME StoreInv, [Next]_vars
  PROVE  Restart \/ OnlyGrows
<1> USE DEF StoreInv
<1>1. \A i \in Ids : heap[i].occurrenceCount \in Nat
  BY HeapElement
<1>2. \A k \in Keys : alarms[k] \in Nat
  BY DEF ClearInv, ShapeOK
<1>3. ASSUME NEW r \in Recorders, Recover(r) PROVE OnlyGrows
  <2>1. alarms' = alarms
    BY <1>3 DEF Recover
  <2>2. CASE existing[r] = 0
    BY <1>3, <2>1, <2>2, UnchangedGrows DEF Recover
  <2>3. CASE existing[r] # 0
    <3>1. Ids \subseteq Ids'
      BY <1>3, <2>3, RecoverEffect
    <3>2. \A i \in Ids : /\ heap'[i].key = heap[i].key
                         /\ heap'[i].occurrenceCount = heap[i].occurrenceCount
      BY <1>3, <2>3, RecoverEffect
    <3>3. \A i \in Ids : heap[i].cleared => heap'[i] = heap[i]
      BY <1>3, <2>3, RecoverEffect
    <3> QED
      BY <1>1, <1>2, <2>1, <3>1, <3>2, <3>3 DEF OnlyGrows
  <2> QED
    BY <2>2, <2>3
<1>4. ASSUME NEW r \in Recorders, Create(r) PROVE OnlyGrows
  <2>1. /\ Ids \subseteq Ids' /\ \A i \in Ids : heap'[i] = heap[i]
        /\ Len(heap) \in Nat
        /\ alarms'[KeyOf(event[r])] = Len(heap) + 1
        /\ \A k \in Keys \ {KeyOf(event[r])} : alarms'[k] = alarms[k]
    BY <1>4, CreateEffect
  <2>2. \A k \in Keys : alarms[k] <= Len(heap)
    BY <1>2, <2>1 DEF ClearInv, KeysMatch, Ids
  <2>3. ASSUME NEW k \in Keys PROVE alarms[k] <= alarms'[k]
    BY <1>2, <2>1, <2>2
  <2> QED
    BY <1>1, <2>1, <2>3 DEF OnlyGrows
<1>5. ASSUME NEW r \in Recorders, Increment(r) PROVE OnlyGrows
  <2>1. alarms' = alarms /\ Writing(r) /\ rpc[r] = "increment"
    BY <1>5 DEF Increment, Writing
  <2>2. existing[r] \in Ids /\ ~heap[existing[r]].cleared /\ old[r] = heap[existing[r]].occurrenceCount
    BY <2>1 DEF LockInv, InForce, IsActive, CountInv
  <2>3. /\ Ids' = Ids
        /\ \A i \in Ids : heap'[i].key = heap[i].key /\ (i # existing[r] => heap'[i] = heap[i])
        /\ heap'[existing[r]].occurrenceCount = heap[existing[r]].occurrenceCount + 1
    BY <1>5, <2>2, IncrementEffect
  <2>4. \A i \in Ids : heap[i].occurrenceCount <= heap'[i].occurrenceCount
    BY <1>1, <2>2, <2>3
  <2> QED
    BY <1>2, <2>1, <2>2, <2>3, <2>4 DEF OnlyGrows
<1>6. ASSUME NEW r \in Recorders, SetMessage(r) PROVE OnlyGrows
  <2>1. alarms' = alarms /\ Writing(r)
    BY <1>6 DEF SetMessage, Writing
  <2>2. existing[r] \in Ids /\ ~heap[existing[r]].cleared
    BY <2>1 DEF LockInv, InForce, IsActive
  <2>3. /\ Ids' = Ids
        /\ \A i \in Ids : /\ heap'[i].key = heap[i].key
                          /\ heap'[i].occurrenceCount = heap[i].occurrenceCount
                          /\ i # existing[r] => heap'[i] = heap[i]
    BY <1>6, <2>2, SetMessageEffect
  <2> QED
    BY <1>1, <1>2, <2>1, <2>2, <2>3 DEF OnlyGrows
<1>7. ASSUME NEW r \in Recorders,
             EnterCompute(r) \/ Repeat(r) \/ \E e \in Event : Post(r, e)
      PROVE  UNCHANGED <<heap, alarms>>
  BY <1>7 DEF EnterCompute, Repeat, Post
<1>8. UNCHANGED vars => UNCHANGED <<heap, alarms>>
  BY DEF vars
<1> QED
  BY <1>3, <1>4, <1>5, <1>6, <1>7, <1>8, UnchangedGrows, ReadersOnlyRead
  DEF Next, RecorderStep

-----------------------------------------------------------------------------
(* What a reader has seen since it began.                                  *)

(* The alarm that was under the key, if any, and its count if it was in    *)
(* force: both are still behind what the store holds.                      *)
Moment == [alarm : Nat, count : Nat]

SinceInv ==
  /\ since \in [Readers -> [Keys -> Moment]]
  /\ \A q \in Readers, k \in Keys : Listing(q) =>
       /\ since[q][k].alarm <= alarms[k]
       /\ since[q][k].alarm = 0 => since[q][k].count = 0
       /\ since[q][k].alarm # 0 =>
            /\ since[q][k].alarm \in Ids /\ heap[since[q][k].alarm].key = k
            /\ since[q][k].count = 0 => heap[since[q][k].alarm].cleared
            /\ since[q][k].count <= heap[since[q][k].alarm].occurrenceCount

(* Count n may be shown for alarm i: the alarm had it in that time. *)
Shown(q, i, n) ==
  LET began == since[q][heap[i].key]
  IN  /\ n \in Nat \ {0} /\ n <= heap[i].occurrenceCount
      /\ i >= began.alarm
      /\ i = began.alarm => began.count # 0 /\ began.count <= n

(* Key k may be left out: there was a moment without an alarm in force. *)
Absent(q, k) ==
  \/ since[q][k].count = 0
  \/ \E i \in Ids : heap[i].key = k /\ i >= since[q][k].alarm /\ heap[i].cleared

ReportInv ==
  /\ qpc \in [Readers -> {"idle", "forEach", "serialise", "done"}]
  /\ todo \in [Readers -> SUBSET Keys]
  /\ active \in [Readers -> SUBSET Ids]
  /\ DOMAIN report = Readers
  /\ \A q \in Readers : DOMAIN report[q] \subseteq active[q]
  /\ \A q \in Readers : Listing(q) =>
       /\ \A i \in active[q] : Shown(q, i, heap[i].occurrenceCount)
       /\ \A i \in DOMAIN report[q] : Shown(q, i, report[q][i])
       /\ \A k \in Keys \ todo[q] : (\A i \in active[q] : heap[i].key # k) => Absent(q, k)
       /\ qpc[q] = "serialise" => todo[q] = {}

ReadInv == SinceInv /\ ReportInv

LEMMA ReadInvInit == Init => ReadInv
<1> SUFFICES ASSUME Init PROVE ReadInv
  OBVIOUS
<1>1. \A q \in Readers : ~Listing(q)
  BY SMT DEF Init, Listing
<1>2. SinceInv
  BY <1>1, SMT DEF Init, SinceInv, Moment
<1>3. /\ qpc \in [Readers -> {"idle", "forEach", "serialise", "done"}]
      /\ todo \in [Readers -> SUBSET Keys]
      /\ active \in [Readers -> SUBSET Ids]
  BY SMT DEF Init
<1>4. DOMAIN report = Readers /\ \A q \in Readers : DOMAIN report[q] \subseteq active[q]
  <2>1. DOMAIN <<>> = {}
    OBVIOUS
  <2> QED
    BY <2>1 DEF Init
<1> QED
  BY <1>1, <1>2, <1>3, <1>4 DEF ReadInv, ReportInv

(* The facts about a state that are needed of the next one. *)
LEMMA NextTypes ==
  ASSUME ClearInv'
  PROVE  /\ \A i \in Ids' : heap'[i].occurrenceCount \in Nat /\ heap'[i].key \in Keys /\ i \in Nat \ {0}
         /\ \A k \in Keys : alarms'[k] \in Nat
<1>1. heap' \in Seq(Alarm) /\ Len(heap') \in Nat /\ alarms' \in [Keys -> Nat]
  BY SMT DEF ClearInv, ShapeOK
<1>2. ASSUME NEW i \in Ids' PROVE heap'[i] \in Alarm
  BY <1>1, SeqElement DEF Ids
<1> QED
  BY <1>1, <1>2, SMT DEF Alarm, Ids

(* One reader's part of the two invariants, kept while the store grows. *)
LEMMA GrowthKeepsRead ==
  ASSUME ClearInv, ClearInv', ReadInv, OnlyGrows,
         NEW q \in Readers, Listing(q), since'[q] = since[q]
  PROVE  /\ \A k \in Keys :
              /\ since'[q][k].alarm <= alarms'[k]
              /\ since'[q][k].alarm = 0 => since'[q][k].count = 0
              /\ since'[q][k].alarm # 0 =>
                   /\ since'[q][k].alarm \in Ids' /\ heap'[since'[q][k].alarm].key = k
                   /\ since'[q][k].count = 0 => heap'[since'[q][k].alarm].cleared
                   /\ since'[q][k].count <= heap'[since'[q][k].alarm].occurrenceCount
         /\ \A i \in Ids : \A n : Shown(q, i, n) => Shown(q, i, n)'
         /\ \A i \in active[q] : Shown(q, i, heap[i].occurrenceCount)'
         /\ \A k \in Keys : Absent(q, k) => Absent(q, k)'
<1>1. \A k \in Keys : since[q][k].alarm \in Nat /\ since[q][k].count \in Nat
  BY DEF ReadInv, SinceInv, Moment
<1>2. \A k \in Keys : alarms[k] \in Nat /\ alarms'[k] \in Nat
  BY NextTypes DEF ClearInv, ShapeOK
<1>3. \A i \in Ids : /\ heap[i].occurrenceCount \in Nat /\ heap'[i].occurrenceCount \in Nat
                     /\ heap[i].key \in Keys /\ heap'[i].key = heap[i].key
                     /\ heap[i].occurrenceCount <= heap'[i].occurrenceCount
                     /\ heap[i].cleared => heap'[i].cleared
                     /\ i \in Ids' /\ i \in Nat
  BY HeapElement, NextTypes DEF OnlyGrows
<1>4. ASSUME NEW k \in Keys
      PROVE  /\ since[q][k].alarm <= alarms'[k]
             /\ since[q][k].alarm = 0 => since[q][k].count = 0
             /\ since[q][k].alarm # 0 =>
                  /\ since[q][k].alarm \in Ids' /\ heap'[since[q][k].alarm].key = k
                  /\ since[q][k].count = 0 => heap'[since[q][k].alarm].cleared
                  /\ since[q][k].count <= heap'[since[q][k].alarm].occurrenceCount
  <2>1. since[q][k].alarm <= alarms[k] /\ alarms[k] <= alarms'[k]
    BY DEF ReadInv, SinceInv, OnlyGrows
  <2>2. since[q][k].alarm <= alarms'[k]
    BY <1>1, <1>2, <2>1
  <2>3. ASSUME since[q][k].alarm # 0
        PROVE  /\ since[q][k].alarm \in Ids /\ heap[since[q][k].alarm].key = k
               /\ since[q][k].count = 0 => heap[since[q][k].alarm].cleared
               /\ since[q][k].count <= heap[since[q][k].alarm].occurrenceCount
    BY <2>3 DEF ReadInv, SinceInv
  <2>4. since[q][k].alarm = 0 => since[q][k].count = 0
    BY DEF ReadInv, SinceInv
  <2> QED
    BY <1>1, <1>3, <2>2, <2>3, <2>4
<1>5. ASSUME NEW i \in Ids, NEW n, Shown(q, i, n)
      PROVE  Shown(q, i, n)'
  BY <1>3, <1>5 DEF Shown
<1>6. ASSUME NEW i \in active[q] PROVE Shown(q, i, heap[i].occurrenceCount)'
  <2>1. i \in Ids /\ Shown(q, i, heap[i].occurrenceCount)
    BY DEF ReadInv, ReportInv
  <2>2. heap'[i].occurrenceCount \in Nat \ {0} /\ heap'[i].occurrenceCount <= heap'[i].occurrenceCount
    BY <1>3, <2>1 DEF Shown
  <2> QED
    BY <1>1, <1>3, <2>1, <2>2 DEF Shown
<1>7. ASSUME NEW k \in Keys, Absent(q, k) PROVE Absent(q, k)'
  BY <1>3, <1>7 DEF Absent
<1> QED
  BY <1>4, <1>5, <1>6, <1>7

(* The step leaves this reader alone. *)
LEMMA OtherReader ==
  ASSUME ClearInv, ClearInv', ReadInv, OnlyGrows, NEW q \in Readers,
         qpc'[q] = qpc[q], todo'[q] = todo[q], active'[q] = active[q],
         report'[q] = report[q], since'[q] = since[q]
  PROVE  /\ DOMAIN report'[q] \subseteq active'[q]
         /\ Listing(q)' =>
              /\ \A i \in active'[q] : Shown(q, i, heap[i].occurrenceCount)'
              /\ \A i \in DOMAIN report'[q] : Shown(q, i, report[q][i])'
              /\ \A k \in Keys \ todo'[q] :
                    (\A i \in active'[q] : heap'[i].key # k) => Absent(q, k)'
              /\ qpc'[q] = "serialise" => todo'[q] = {}
<1>1. DOMAIN report'[q] \subseteq active'[q] /\ active[q] \subseteq Ids
  BY DEF ReadInv, ReportInv
<1> SUFFICES ASSUME Listing(q)'
             PROVE  /\ \A i \in active[q] : Shown(q, i, heap[i].occurrenceCount)'
                    /\ \A i \in DOMAIN report[q] : Shown(q, i, report[q][i])'
                    /\ \A k \in Keys \ todo[q] :
                          (\A i \in active[q] : heap'[i].key # k) => Absent(q, k)'
                    /\ qpc[q] = "serialise" => todo[q] = {}
  BY <1>1
<1>2. Listing(q)
  BY DEF Listing
<1>3. ASSUME NEW i \in DOMAIN report[q] PROVE Shown(q, i, report[q][i])'
  <2>1. i \in Ids /\ Shown(q, i, report[q][i])
    BY <1>1, <1>2 DEF ReadInv, ReportInv
  <2>2. \A n : Shown(q, i, n) => Shown(q, i, n)'
    BY <1>2, <2>1, GrowthKeepsRead
  <2>3. PICK n : n = report[q][i] /\ n = report'[q][i]
    OBVIOUS
  <2>4. Shown(q, i, n)'
    BY <2>1, <2>2, <2>3
  <2> QED
    BY <2>3, <2>4 DEF Shown
<1>4. ASSUME NEW k \in Keys \ todo[q], \A i \in active[q] : heap'[i].key # k
      PROVE  Absent(q, k)'
  <2>1. \A i \in active[q] : heap[i].key # k
    BY <1>1, <1>4 DEF OnlyGrows
  <2>2. Absent(q, k)
    BY <1>2, <2>1 DEF ReadInv, ReportInv
  <2> QED
    BY <1>2, <2>2, GrowthKeepsRead
<1>5. qpc[q] = "serialise" => todo[q] = {}
  BY <1>2 DEF ReadInv, ReportInv
<1>6. \A i \in active[q] : Shown(q, i, heap[i].occurrenceCount)'
  BY <1>2, GrowthKeepsRead
<1> QED
  BY <1>3, <1>4, <1>5, <1>6

(* No reader moves, except q, which may only stop listing. *)
LEMMA SinceKept ==
  ASSUME ClearInv, ClearInv', ReadInv, OnlyGrows, since' = since,
         \A q \in Readers : Listing(q)' => Listing(q)
  PROVE  SinceInv'
<1>1. since' \in [Readers -> [Keys -> Moment]]
  BY DEF ReadInv, SinceInv
<1>2. ASSUME NEW q \in Readers, NEW k \in Keys, Listing(q)'
      PROVE  /\ since'[q][k].alarm <= alarms'[k]
             /\ since'[q][k].alarm = 0 => since'[q][k].count = 0
             /\ since'[q][k].alarm # 0 =>
                  /\ since'[q][k].alarm \in Ids' /\ heap'[since'[q][k].alarm].key = k
                  /\ since'[q][k].count = 0 => heap'[since'[q][k].alarm].cleared
                  /\ since'[q][k].count <= heap'[since'[q][k].alarm].occurrenceCount
  BY <1>2, GrowthKeepsRead
<1> QED
  BY <1>1, <1>2 DEF SinceInv

LEMMA ReadersIdle ==
  ASSUME ClearInv, ClearInv', ReadInv, OnlyGrows, UNCHANGED readerVars
  PROVE  ReadInv'
<1>1. UNCHANGED <<qpc, todo, active, report, since>>
  BY DEF readerVars
<1>2. SinceInv'
  BY <1>1, SinceKept DEF Listing
<1>3. /\ qpc' \in [Readers -> {"idle", "forEach", "serialise", "done"}]
      /\ todo' \in [Readers -> SUBSET Keys]
      /\ active' \in [Readers -> SUBSET Ids']
      /\ DOMAIN report' = Readers
  BY <1>1 DEF ReadInv, ReportInv, OnlyGrows
<1> QED
  BY <1>1, <1>2, <1>3, OtherReader DEF ReadInv, ReportInv

(* Reader q moves, and the store does not. *)
LEMMA OneReader ==
  ASSUME ClearInv, ClearInv', ReadInv, NEW q \in Readers, UNCHANGED <<heap, alarms>>, SinceInv',
         qpc' \in [Readers -> {"idle", "forEach", "serialise", "done"}],
         todo' \in [Readers -> SUBSET Keys],
         active' \in [Readers -> SUBSET Ids],
         DOMAIN report' = Readers,
         DOMAIN report'[q] \subseteq active'[q],
         \A p \in Readers \ {q} : /\ qpc'[p] = qpc[p] /\ todo'[p] = todo[p]
                                  /\ active'[p] = active[p] /\ report'[p] = report[p]
                                  /\ since'[p] = since[p],
         Listing(q)' =>
              /\ \A i \in active'[q] : Shown(q, i, heap[i].occurrenceCount)'
              /\ \A i \in DOMAIN report'[q] : Shown(q, i, report[q][i])'
              /\ \A k \in Keys \ todo'[q] :
                    (\A i \in active'[q] : heap'[i].key # k) => Absent(q, k)'
              /\ qpc'[q] = "serialise" => todo'[q] = {}
  PROVE  ReadInv'
<1>1. OnlyGrows
  BY UnchangedGrows
<1>2. \A p \in Readers \ {q} :
         /\ DOMAIN report'[p] \subseteq active'[p]
         /\ Listing(p)' =>
              /\ \A i \in active'[p] : Shown(p, i, heap[i].occurrenceCount)'
              /\ \A i \in DOMAIN report'[p] : Shown(p, i, report[p][i])'
              /\ \A k \in Keys \ todo'[p] :
                    (\A i \in active'[p] : heap'[i].key # k) => Absent(p, k)'
              /\ qpc'[p] = "serialise" => todo'[p] = {}
  BY <1>1, OtherReader
<1>3. active' \in [Readers -> SUBSET Ids']
  BY DEF Ids
<1> QED
  BY <1>2, <1>3 DEF ReadInv, ReportInv

LEMMA ReadInvStep ==
  ASSUME StoreInv, ClearInv', ReadInv, [Next]_vars
  PROVE  ReadInv'
<1> USE DEF StoreInv
<1>0. /\ qpc \in [Readers -> {"idle", "forEach", "serialise", "done"}]
      /\ todo \in [Readers -> SUBSET Keys]
      /\ active \in [Readers -> SUBSET Ids]
      /\ DOMAIN report = Readers
      /\ since \in [Readers -> [Keys -> Moment]]
  BY DEF ReadInv, ReportInv, SinceInv
<1>1. ASSUME Restart PROVE ReadInv'
  <2>1. qpc' = [q \in Readers |-> "idle"]
    BY <1>1 DEF Restart
  <2>2. \A q \in Readers : ~Listing(q)'
    BY <2>1 DEF Listing
  <2>3. since' \in [Readers -> [Keys -> Moment]]
    BY <1>1, SMT DEF Restart, Moment
  <2>4. /\ qpc' \in [Readers -> {"idle", "forEach", "serialise", "done"}]
        /\ todo' \in [Readers -> SUBSET Keys]
        /\ active' \in [Readers -> SUBSET Ids']
    BY <1>1, SMT DEF Restart
  <2>5. DOMAIN report' = Readers /\ \A q \in Readers : DOMAIN report'[q] \subseteq active'[q]
    <3>1. DOMAIN <<>> = {}
      OBVIOUS
    <3> QED
      BY <1>1, <3>1 DEF Restart
  <2>6. SinceInv'
    BY <2>2, <2>3 DEF SinceInv
  <2> QED
    BY <2>2, <2>4, <2>5, <2>6 DEF ReadInv, ReportInv
<1>2. ASSUME UNCHANGED readerVars PROVE ReadInv'
  BY <1>1, <1>2, ReadersIdle, StoreOnlyGrows
<1>3. ASSUME NEW q \in Readers, List(q) PROVE ReadInv'
  <2>1. /\ qpc' = [qpc EXCEPT ![q] = "forEach"] /\ todo' = [todo EXCEPT ![q] = Keys]
        /\ active' = [active EXCEPT ![q] = {}] /\ report' = [report EXCEPT ![q] = <<>>]
        /\ since' = [since EXCEPT ![q] =
                       [k \in Keys |-> [alarm |-> alarms[k], count |-> CountOf(k)]]]
        /\ UNCHANGED <<heap, alarms>>
    BY <1>3 DEF List
  <2>2. \A k \in Keys :
          /\ alarms[k] \in Nat /\ CountOf(k) \in Nat
          /\ alarms[k] = 0 => CountOf(k) = 0
          /\ alarms[k] # 0 =>
               /\ alarms[k] \in Ids /\ heap[alarms[k]].key = k
               /\ CountOf(k) = 0 => heap[alarms[k]].cleared
               /\ CountOf(k) <= heap[alarms[k]].occurrenceCount
    <3> TAKE k \in Keys
    <3>1. alarms[k] \in Nat
      BY DEF ClearInv, ShapeOK
    <3>2. CASE alarms[k] \in InForce
      <4>1. alarms[k] \in Ids /\ alarms[k] # 0 /\ heap[alarms[k]].occurrenceCount \in Nat
        BY <3>2, HeapElement DEF InForce
      <4>2. heap[alarms[k]].occurrenceCount >= 1
        BY <4>1 DEF CountInv
      <4> QED
        BY <3>1, <3>2, <4>1, <4>2 DEF CountOf, ClearInv, KeysMatch
    <3>3. CASE alarms[k] \notin InForce
      <4>1. CountOf(k) = 0
        BY <3>3 DEF CountOf
      <4>2. ASSUME alarms[k] # 0
            PROVE  /\ alarms[k] \in Ids /\ heap[alarms[k]].key = k
                   /\ heap[alarms[k]].cleared /\ heap[alarms[k]].occurrenceCount \in Nat
        BY <3>3, <4>2, HeapElement DEF ClearInv, KeysMatch, InForce, IsActive
      <4> QED
        BY <3>1, <4>1, <4>2
    <3> QED
      BY <3>2, <3>3
  <2>3. /\ \A k \in Keys : since'[q][k].alarm = alarms[k] /\ since'[q][k].count = CountOf(k)
        /\ \A p \in Readers \ {q} : since'[p] = since[p] /\ (Listing(p)' => Listing(p))
    BY <1>0, <2>1 DEF Listing
  <2>4. since' \in [Readers -> [Keys -> Moment]]
    <3>1. [k \in Keys |-> [alarm |-> alarms[k], count |-> CountOf(k)]] \in [Keys -> Moment]
      BY <2>2 DEF Moment
    <3> QED
      BY <1>0, <2>1, <3>1
  <2>5. SinceInv'
    <3>1. ASSUME NEW p \in Readers, NEW k \in Keys, Listing(p)'
          PROVE  /\ since'[p][k].alarm <= alarms'[k]
                 /\ since'[p][k].alarm = 0 => since'[p][k].count = 0
                 /\ since'[p][k].alarm # 0 =>
                      /\ since'[p][k].alarm \in Ids' /\ heap'[since'[p][k].alarm].key = k
                      /\ since'[p][k].count = 0 => heap'[since'[p][k].alarm].cleared
                      /\ since'[p][k].count <= heap'[since'[p][k].alarm].occurrenceCount
      <4>1. CASE p = q
        BY <2>1, <2>2, <2>3, <4>1 DEF Ids
      <4>2. CASE p # q
        <5>1. Listing(p) /\ since'[p] = since[p] /\ OnlyGrows
          BY <2>1, <2>3, <3>1, <4>2, UnchangedGrows
        <5> QED
          BY <5>1, GrowthKeepsRead
      <4> QED
        BY <4>1, <4>2
    <3> QED
      BY <2>4, <3>1 DEF SinceInv
  <2>6. /\ qpc' \in [Readers -> {"idle", "forEach", "serialise", "done"}]
        /\ todo' \in [Readers -> SUBSET Keys]
        /\ active' \in [Readers -> SUBSET Ids]
        /\ DOMAIN report' = Readers
        /\ qpc'[q] = "forEach" /\ todo'[q] = Keys /\ active'[q] = {} /\ DOMAIN report'[q] = {}
        /\ \A p \in Readers \ {q} : /\ qpc'[p] = qpc[p] /\ todo'[p] = todo[p]
                                    /\ active'[p] = active[p] /\ report'[p] = report[p]
    BY <1>0, <2>1
  <2> QED
    BY <2>1, <2>3, <2>5, <2>6, OneReader
<1>4. ASSUME NEW q \in Readers, NEW k \in Keys, Visit(q, k) PROVE ReadInv'
  <2> DEFINE i == alarms[k]
  <2>1. /\ qpc[q] = "forEach" /\ todo' = [todo EXCEPT ![q] = @ \ {k}]
        /\ active' = [active EXCEPT ![q] = IF i # 0 /\ IsActive(i) THEN @ \cup {i} ELSE @]
        /\ UNCHANGED <<heap, alarms, qpc, report, since>>
    BY <1>4 DEF Visit, Reportable
  <2>2. Listing(q) /\ OnlyGrows
    BY <2>1, UnchangedGrows DEF Listing
  <2>3. SinceInv'
    BY <2>1, <2>2, SinceKept DEF Listing
  <2>4. i # 0 => i \in Ids /\ heap[i].key = k /\ heap[i].occurrenceCount \in Nat
    BY HeapElement DEF ClearInv, KeysMatch
  <2>5. /\ todo' \in [Readers -> SUBSET Keys] /\ active' \in [Readers -> SUBSET Ids]
        /\ todo'[q] = todo[q] \ {k}
        /\ active'[q] = IF i # 0 /\ IsActive(i) THEN active[q] \cup {i} ELSE active[q]
        /\ \A p \in Readers \ {q} : todo'[p] = todo[p] /\ active'[p] = active[p]
    BY <1>0, <2>1, <2>4
  <2>6. /\ DOMAIN report[q] \subseteq active[q]
        /\ \A j \in active[q] : Shown(q, j, heap[j].occurrenceCount)
        /\ \A j \in DOMAIN report[q] : Shown(q, j, report[q][j])
        /\ \A j \in Keys \ todo[q] : (\A a \in active[q] : heap[a].key # j) => Absent(q, j)
    BY <2>2 DEF ReadInv, ReportInv
  <2>7. /\ since[q][k].alarm \in Nat /\ since[q][k].count \in Nat /\ i \in Nat
        /\ since[q][k].alarm <= i
        /\ since[q][k].alarm = 0 => since[q][k].count = 0
        /\ since[q][k].alarm # 0 =>
             /\ since[q][k].count = 0 => heap[since[q][k].alarm].cleared
             /\ since[q][k].count <= heap[since[q][k].alarm].occurrenceCount
    BY <1>0, <2>2 DEF ReadInv, SinceInv, Moment, ClearInv, ShapeOK
  <2>8. ASSUME i # 0, IsActive(i) PROVE Shown(q, i, heap[i].occurrenceCount)
    <3>1. heap[i].occurrenceCount >= 1
      BY <2>4, <2>8 DEF CountInv
    <3> QED
      BY <2>4, <2>7, <2>8, <3>1 DEF Shown, IsActive
  <2>9. ASSUME \A a \in active'[q] : heap[a].key # k PROVE Absent(q, k)
    <3>1. ~(i # 0 /\ IsActive(i))
      BY <2>4, <2>5, <2>9
    <3> QED
      BY <2>4, <2>7, <3>1 DEF Absent, IsActive
  <2>10. \A j \in active'[q] : Shown(q, j, heap[j].occurrenceCount)
    BY <2>5, <2>6, <2>8
  <2>11. \A j \in Keys \ todo'[q] : (\A a \in active'[q] : heap[a].key # j) => Absent(q, j)
    BY <2>5, <2>6, <2>9
  <2>12. /\ \A j \in active'[q] : Shown(q, j, heap[j].occurrenceCount)'
         /\ \A j \in DOMAIN report'[q] : Shown(q, j, report[q][j])'
         /\ \A j \in Keys \ todo'[q] : (\A a \in active'[q] : heap'[a].key # j) => Absent(q, j)'
    BY <2>1, <2>6, <2>10, <2>11 DEF Shown, Absent, Ids
  <2>13. DOMAIN report'[q] \subseteq active'[q]
    BY <2>1, <2>5, <2>6
  <2>14. qpc'[q] # "serialise"
    BY <2>1
  <2> QED
    BY <1>0, <2>1, <2>3, <2>5, <2>12, <2>13, <2>14, OneReader
<1>5. ASSUME NEW q \in Readers, HandlerReturns(q) \/ Respond(q) PROVE ReadInv'
  <2>1. /\ \/ qpc[q] = "forEach" /\ todo[q] = {} /\ qpc' = [qpc EXCEPT ![q] = "serialise"]
           \/ qpc' = [qpc EXCEPT ![q] = "done"]
        /\ UNCHANGED <<heap, alarms, todo, active, report, since>>
    BY <1>5 DEF HandlerReturns, Respond
  <2>2. \A p \in Readers : Listing(p)' => Listing(p)
    BY <1>0, <2>1 DEF Listing
  <2>3. OnlyGrows
    BY <2>1, UnchangedGrows
  <2>4. SinceInv'
    BY <2>1, <2>2, <2>3, SinceKept
  <2>5. /\ qpc' \in [Readers -> {"idle", "forEach", "serialise", "done"}]
        /\ \A p \in Readers \ {q} : qpc'[p] = qpc[p]
        /\ qpc'[q] = "serialise" => todo'[q] = {}
        /\ DOMAIN report'[q] \subseteq active'[q]
    BY <1>0, <2>1 DEF ReadInv, ReportInv
  <2>6. ASSUME Listing(q)'
        PROVE  /\ \A i \in active'[q] : Shown(q, i, heap[i].occurrenceCount)'
               /\ \A i \in DOMAIN report'[q] : Shown(q, i, report[q][i])'
               /\ \A k \in Keys \ todo'[q] : (\A i \in active'[q] : heap'[i].key # k) => Absent(q, k)'
    <3>1. /\ \A i \in active[q] : Shown(q, i, heap[i].occurrenceCount)
          /\ \A i \in DOMAIN report[q] : Shown(q, i, report[q][i])
          /\ \A k \in Keys \ todo[q] : (\A i \in active[q] : heap[i].key # k) => Absent(q, k)
      BY <2>2, <2>6 DEF ReadInv, ReportInv
    <3> QED
      BY <2>1, <3>1 DEF Shown, Absent, Ids
  <2> QED
    BY <1>0, <2>1, <2>4, <2>5, <2>6, OneReader
<1>6. ASSUME NEW q \in Readers, NEW i \in Ids, Serialise(q, i) PROVE ReadInv'
  <2> DEFINE n == heap[i].occurrenceCount
  <2>1. /\ qpc[q] \in {"forEach", "serialise"} /\ i \in active[q] \ DOMAIN report[q]
        /\ report' = [report EXCEPT ![q] = [j \in DOMAIN @ \cup {i} |-> IF j = i THEN n ELSE @[j]]]
        /\ UNCHANGED <<heap, alarms, qpc, todo, active, since>>
    BY <1>6 DEF Serialise
  <2>2. Listing(q) /\ OnlyGrows
    BY <2>1, UnchangedGrows DEF Listing
  <2>3. SinceInv'
    BY <2>1, <2>2, SinceKept DEF Listing
  <2>4. /\ DOMAIN report' = Readers
        /\ report'[q] = [j \in DOMAIN report[q] \cup {i} |-> IF j = i THEN n ELSE report[q][j]]
        /\ \A p \in Readers \ {q} : report'[p] = report[p]
    BY <1>0, <2>1
  <2>5. /\ DOMAIN report[q] \subseteq active[q]
        /\ \A j \in active[q] : Shown(q, j, heap[j].occurrenceCount)
        /\ \A j \in DOMAIN report[q] : Shown(q, j, report[q][j])
        /\ \A k \in Keys \ todo[q] : (\A a \in active[q] : heap[a].key # k) => Absent(q, k)
        /\ qpc[q] = "serialise" => todo[q] = {}
    BY <2>2 DEF ReadInv, ReportInv
  <2>6. ASSUME NEW j \in DOMAIN report'[q] PROVE Shown(q, j, report'[q][j])
    <3>1. CASE j = i
      BY <2>1, <2>4, <2>5, <3>1
    <3>2. CASE j # i
      BY <2>4, <2>5, <3>2
    <3> QED
      BY <3>1, <3>2
  <2>7. DOMAIN report'[q] \subseteq active'[q]
    BY <2>1, <2>4, <2>5
  <2>8. /\ \A j \in active'[q] : Shown(q, j, heap[j].occurrenceCount)'
        /\ \A j \in DOMAIN report'[q] : Shown(q, j, report[q][j])'
        /\ \A k \in Keys \ todo'[q] : (\A a \in active'[q] : heap'[a].key # k) => Absent(q, k)'
        /\ qpc'[q] = "serialise" => todo'[q] = {}
    BY <2>1, <2>5, <2>6 DEF Shown, Absent, Ids
  <2>9. /\ UNCHANGED <<heap, alarms>>
        /\ qpc' \in [Readers -> {"idle", "forEach", "serialise", "done"}]
        /\ todo' \in [Readers -> SUBSET Keys]
        /\ active' \in [Readers -> SUBSET Ids]
        /\ \A p \in Readers \ {q} : /\ qpc'[p] = qpc[p] /\ todo'[p] = todo[p]
                                    /\ active'[p] = active[p] /\ report'[p] = report[p]
                                    /\ since'[p] = since[p]
    BY <1>0, <2>1, <2>4
  <2> HIDE DEF n
  <2> QED
    BY <2>3, <2>4, <2>7, <2>8, <2>9, OneReader
<1>7. ASSUME NEW r \in Recorders, RecorderStep(r) \/ \E e \in Event : Post(r, e)
      PROVE  UNCHANGED readerVars
  BY <1>7 DEF RecorderStep, Post, EnterCompute, Recover, Create, Repeat, Increment, SetMessage
<1>8. UNCHANGED vars => UNCHANGED readerVars
  BY DEF vars, readerVars
<1> QED
  BY <1>1, <1>2, <1>3, <1>4, <1>5, <1>6, <1>7, <1>8 DEF Next, ReaderStep

-----------------------------------------------------------------------------
(* The inductive invariant, and what follows from it.                      *)
ServiceInv == StoreInv /\ TallyInv /\ ReadInv

LEMMA ServiceInvInit == Init => ServiceInv
BY ClearInvInit, LockInvInit, NewestInvInit, CountInvInit, TallyInvInit, ReadInvInit
DEF ServiceInv, StoreInv

LEMMA ServiceInvStep ==
  ASSUME ServiceInv, [Next]_vars
  PROVE  ServiceInv'
<1> USE DEF ServiceInv
<1>1. StoreInv'
  BY ClearInvStep, LockInvStep, NewestInvStep, CountInvStep DEF StoreInv
<1>2. TallyInv'
  BY TallyInvStep
<1>3. ReadInv'
  BY <1>1, ReadInvStep DEF StoreInv
<1> QED
  BY <1>1, <1>2, <1>3

LEMMA ServiceInvHolds == Spec => []ServiceInv
<1>1. Init => ServiceInv
  BY ServiceInvInit
<1>2. ServiceInv /\ [Next]_vars => ServiceInv'
  BY ServiceInvStep
<1> QED
  BY <1>1, <1>2, PTL DEF Spec

(* Every variable of core-engine stays in its range; in particular no      *)
(* occurrenceCount a thread has read exceeds the events posted.            *)
THEOREM AlarmStoreTypes == Spec => []TypeOK
<1>1. ASSUME ServiceInv PROVE TypeOK
  <2>1. ClearInv /\ LockInv /\ CountInv /\ TallyInv /\ ReadInv
    BY <1>1 DEF ServiceInv, StoreInv
  <2>2. /\ heap \in Seq(Alarm)
        /\ rpc \in [Recorders -> {"idle", "compute", "apply", "increment", "message"}]
        /\ \A r \in Recorders : rpc[r] # "idle" => event[r] \in Event
    BY <2>1 DEF ClearInv, ShapeOK, KeysMatch
  <2>3. alarms \in [Keys -> Ids \cup {0}] /\ existing \in [Recorders -> Ids \cup {0}]
    BY <2>1 DEF ClearInv, ShapeOK, KeysMatch
  <2>4. /\ posted \in 0..MaxEvents /\ old \in [Recorders -> 0..MaxEvents]
        /\ locked \in [Keys -> Recorders \cup {None}]
        /\ handled \in Seq([events : Nat, last : Messages])
    BY <2>1 DEF TallyInv, LockInv, CountInv
  <2>5. /\ qpc \in [Readers -> {"idle", "forEach", "serialise", "done"}]
        /\ todo \in [Readers -> SUBSET Keys]
        /\ active \in [Readers -> SUBSET Ids]
        /\ \A q \in Readers : DOMAIN report[q] \subseteq active[q]
    BY <2>1 DEF ReadInv, ReportInv
  <2> QED
    BY <2>2, <2>3, <2>4, <2>5 DEF TypeOK
<1> QED
  BY <1>1, ServiceInvHolds, PTL

(* However many threads record the same key, one alarm at most is in force *)
(* for it (AlarmStore.java:16, glossary.md).                               *)
THEOREM OneAlarmPerKey == Spec => []AlarmPerKey
<1>1. ServiceInv => AlarmPerKey
  BY DEF ServiceInv, StoreInv, NewestInv, AlarmPerKey
<1> QED
  BY <1>1, ServiceInvHolds, PTL

(* Between two computes an alarm's count and message are those of the      *)
(* events it stands for: no update is lost (AlarmStore.java:26-27).        *)
THEOREM NoEventIsLost == Spec => []AlarmSummarisesEvents
<1>1. ASSUME ServiceInv PROVE AlarmSummarisesEvents
  <2> SUFFICES ASSUME NEW i \in Ids, locked[heap[i].key] = None
               PROVE  /\ heap[i].occurrenceCount = handled[i].events
                      /\ heap[i].lastMessage = handled[i].last
    BY DEF AlarmSummarisesEvents
  <2>1. ClearInv /\ LockInv /\ CountInv
    BY <1>1 DEF ServiceInv, StoreInv
  <2>2. ~Counted(i)
    <3> SUFFICES ASSUME NEW r \in Recorders, rpc[r] = "message", existing[r] = i
                 PROVE  FALSE
      BY DEF Counted
    <3>1. i # 0
      BY <2>1, HeapElement
    <3>2. heap[i].key = KeyOf(event[r])
      BY <2>1, <3>1 DEF ClearInv, KeysMatch
    <3>3. locked[KeyOf(event[r])] = r
      BY <2>1 DEF LockInv, Inside
    <3> QED
      BY <3>2, <3>3, AlarmAssumption DEF AlarmAssumption
  <2> QED
    BY <2>1, <2>2 DEF CountInv
<1> QED
  BY <1>1, ServiceInvHolds, PTL

(* recordEvent never touches a cleared alarm again (AlarmStore.java:17-28),*)
(* so a report that holds the old object is not disturbed by a new one.    *)
THEOREM ClearedStaysCleared == Spec => ClearedIsFinal
<1>1. ASSUME ServiceInv, [Next]_vars
      PROVE  Restart \/ \A i \in Ids : heap[i].cleared => heap'[i] = heap[i]
  BY <1>1, StoreOnlyGrows DEF ServiceInv, OnlyGrows
<1> QED
  BY <1>1, ServiceInvHolds, PTL DEF Spec, ClearedIsFinal

(* Only a recovery that happens to make an alarm's key clears the alarm,   *)
(* and never one of the name the alarm was raised for                      *)
(* (AlarmStore.java:14-21).                                                *)
THEOREM OnlyCollisionsClear == Spec => ClearedByCollision
<1> DEFINE Collides(r, i) ==
             /\ rpc[r] = "apply" /\ rpc'[r] = "idle"
             /\ EndsWithRecovered(event[r].uei)
             /\ event[r].uei # heap[i].uei
             /\ event[r].uei \o event[r].streamId = heap[i].key
<1>1. ASSUME ServiceInv, [Next]_vars, ~Restart, NEW i \in InForce, i \notin InForce'
      PROVE  \E r \in Recorders : Collides(r, i)
  <2>1. ClearInv /\ LockInv /\ i \in Ids /\ ~heap[i].cleared
    BY <1>1 DEF ServiceInv, StoreInv, InForce, IsActive
  <2>2. ~(Ids \subseteq Ids' /\ heap'[i].cleared = heap[i].cleared)
    BY <1>1, <2>1 DEF InForce, IsActive
  <2>3. ASSUME NEW r \in Recorders, Recover(r) PROVE Collides(r, i)
    <3>1. existing[r] # 0
      BY <2>2, <2>3 DEF Recover, Ids
    <3>2. i = existing[r]
      BY <2>1, <2>2, <2>3, <3>1, RecoverEffect
    <3>3. rpc[r] = "apply" /\ rpc'[r] = "idle"
      BY <2>1, <2>3 DEF Recover, Return, ClearInv, ShapeOK
    <3> QED
      BY <2>1, <2>3, <3>1, <3>2, <3>3, RecoverCollides
  <2>4. ASSUME NEW r \in Recorders, Create(r) PROVE FALSE
    BY <2>1, <2>2, <2>4, CreateEffect
  <2>5. ASSUME NEW r \in Recorders, Increment(r) \/ SetMessage(r) PROVE FALSE
    <3>1. existing[r] \in Ids
      BY <2>1, <2>5 DEF Increment, SetMessage, LockInv, Writing, InForce
    <3> QED
      BY <2>1, <2>2, <2>5, <3>1, IncrementEffect, SetMessageEffect
  <2>6. heap' # heap
    BY <2>2 DEF Ids
  <2>7. ASSUME NEW r \in Recorders,
               EnterCompute(r) \/ Repeat(r) \/ \E e \in Event : Post(r, e)
        PROVE  heap' = heap
    BY <2>7 DEF EnterCompute, Repeat, Post
  <2>8. UNCHANGED vars => heap' = heap
    BY DEF vars
  <2> HIDE DEF Collides
  <2> QED
    BY <1>1, <2>3, <2>4, <2>5, <2>6, <2>7, <2>8, ReadersOnlyRead DEF Next, RecorderStep
<1>2. ServiceInv /\ [Next]_vars =>
        Restart \/ \A i \in InForce : i \notin InForce' => \E r \in Recorders : Collides(r, i)
  BY <1>1
<1> QED
  BY <1>2, ServiceInvHolds, PTL DEF Spec, ClearedByCollision
=============================================================================
