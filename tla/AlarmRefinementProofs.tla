----------------------- MODULE AlarmRefinementProofs -----------------------
(***************************************************************************)
(* AlarmStore implements AlarmSpec.  To its clients an event counts when   *)
(* its count is written or its alarm is put into the map; entering         *)
(* compute, writing the message, visiting a key and serialising an alarm   *)
(* are invisible.  CountsSince, the counts a key had since a listing       *)
(* began, is computed from what the alarms hold now, so the proof has to   *)
(* show that it grows by exactly the new count.                            *)
(***************************************************************************)
EXTENDS AlarmStoreProofs

(* CountsSince over alarms h for a reader that began with the moment b, so *)
(* that lemmas about it serve the next state as well.                      *)
CountsIn(h, b, k) ==
  LET OfKey == {i \in 1..Len(h) : h[i].key = k /\ i >= b.alarm}
  IN  {b.count}
        \cup (UNION {IF i = b.alarm /\ b.count = 0 THEN {0}
                     ELSE (IF i = b.alarm THEN b.count ELSE 1)..h[i].occurrenceCount
                       : i \in OfKey})
        \cup {0 : i \in OfKey \ {i \in 1..Len(h) : ~h[i].cleared}}

LEMMA CountsSinceIn ==
  ASSUME NEW q, NEW k
  PROVE  /\ CountsSince(q, k) = CountsIn(heap, since[q][k], k)
         /\ CountsSince(q, k)' = CountsIn(heap', since'[q][k], k)
BY DEF CountsSince, CountsIn, Ids, InForce, IsActive

(* Count n is one that alarm i contributes. *)
HadBy(h, b, k, i, n) ==
  /\ h[i].key = k /\ i >= b.alarm
  /\ \/ i = b.alarm /\ b.count = 0 /\ n = 0
     \/ i = b.alarm /\ b.count # 0 /\ n \in b.count..h[i].occurrenceCount
     \/ i # b.alarm /\ n \in 1..h[i].occurrenceCount
     \/ h[i].cleared /\ n = 0

LEMMA InCountsIn ==
  ASSUME NEW h, NEW b, NEW k, NEW n
  PROVE  n \in CountsIn(h, b, k) <=> n = b.count \/ \E i \in 1..Len(h) : HadBy(h, b, k, i, n)
<1> DEFINE OfKey == {i \in 1..Len(h) : h[i].key = k /\ i >= b.alarm}
           Active == {i \in 1..Len(h) : ~h[i].cleared}
           Had(i) == IF i = b.alarm /\ b.count = 0 THEN {0}
                     ELSE (IF i = b.alarm THEN b.count ELSE 1)..h[i].occurrenceCount
<1>1. CountsIn(h, b, k) = {b.count} \cup (UNION {Had(i) : i \in OfKey}) \cup {0 : i \in OfKey \ Active}
  BY DEF CountsIn
<1>2. ASSUME NEW i \in OfKey
      PROVE  n \in Had(i) <=> \/ i = b.alarm /\ b.count = 0 /\ n = 0
                              \/ i = b.alarm /\ b.count # 0 /\ n \in b.count..h[i].occurrenceCount
                              \/ i # b.alarm /\ n \in 1..h[i].occurrenceCount
  <2>1. CASE i = b.alarm /\ b.count = 0
    BY <2>1
  <2>2. CASE i = b.alarm /\ b.count # 0
    <3>1. Had(i) = b.count..h[i].occurrenceCount
      BY <2>2
    <3> HIDE DEF Had
    <3> QED
      BY <2>2, <3>1
  <2>3. CASE i # b.alarm
    <3>1. Had(i) = 1..h[i].occurrenceCount
      BY <2>3
    <3> HIDE DEF Had
    <3> QED
      BY <2>3, <3>1
  <2> QED
    BY <2>1, <2>2, <2>3
<1> HIDE DEF Had
<1>3. n \in UNION {Had(i) : i \in OfKey} <=> \E i \in OfKey : n \in Had(i)
  BY Zenon
<1>4. n \in {0 : i \in OfKey \ Active} <=> \E i \in OfKey : h[i].cleared /\ n = 0
  OBVIOUS
<1>5. (\E i \in 1..Len(h) : HadBy(h, b, k, i, n))
        <=> (\E i \in OfKey : n \in Had(i)) \/ (\E i \in OfKey : h[i].cleared /\ n = 0)
  BY <1>2 DEF HadBy
<1>6. n \in CountsIn(h, b, k)
        <=> \/ n = b.count
            \/ n \in UNION {Had(i) : i \in OfKey}
            \/ n \in {0 : i \in OfKey \ Active}
  BY <1>1, Zenon
<1> QED
  BY <1>3, <1>4, <1>5, <1>6, Zenon

(* The count of a key is 0 exactly when no alarm is in force for it. *)
LEMMA CountOfType ==
  ASSUME StoreInv, NEW k \in Keys
  PROVE  /\ CountOf(k) \in Nat
         /\ CountOf(k) = 0 <=> alarms[k] \notin InForce
         /\ CountOf(k) # 0 => CountOf(k) = heap[alarms[k]].occurrenceCount
<1>1. ASSUME alarms[k] \in InForce
      PROVE  heap[alarms[k]].occurrenceCount \in Nat /\ heap[alarms[k]].occurrenceCount >= 1
  BY <1>1, HeapElement DEF StoreInv, CountInv, InForce
<1> QED
  BY <1>1 DEF CountOf

-----------------------------------------------------------------------------
(* What clients see.                                                       *)

LEMMA SameReport ==
  ASSUME ReadInv, OnlyGrows, NEW q \in Readers, NEW k \in Keys,
         qpc'[q] = "done" <=> qpc[q] = "done", report'[q] = report[q]
  PROVE  Reported(q, k)' = Reported(q, k)
<1> DEFINE OfKey == {i \in DOMAIN report[q] : qpc[q] = "done" /\ heap[i].key = k}
<1>1. DOMAIN report[q] \subseteq Ids
  BY DEF ReadInv, ReportInv
<1>2. OfKey' = OfKey
  BY <1>1 DEF OnlyGrows
<1>3. /\ Reported(q, k) = IF OfKey = {} THEN 0 ELSE report[q][CHOOSE i \in OfKey : TRUE]
      /\ Reported(q, k)' = IF OfKey' = {} THEN 0 ELSE report'[q][CHOOSE i \in OfKey' : TRUE]
  BY DEF Reported
<1> HIDE DEF OfKey
<1> QED
  BY <1>2, <1>3

(* A step that none of them sees. *)
LEMMA Unseen ==
  ASSUME \A k \in Keys : CountOf(k)' = CountOf(k),
         \A q \in Readers : Listing(q)' = Listing(q),
         \A q \in Readers, k \in Keys : Listing(q) => CountsSince(q, k)' = CountsSince(q, k),
         \A q \in Readers, k \in Keys : Reported(q, k)' = Reported(q, k)
  PROVE  UNCHANGED Service!vars
BY DEF Service!vars

(* A step after which key k counts n. *)
LEMMA Counts ==
  ASSUME NEW k \in Keys, NEW n, CountOf(k)' = n,
         \A j \in Keys \ {k} : CountOf(j)' = CountOf(j),
         \A q \in Readers : Listing(q)' = Listing(q),
         \A q \in Readers : Listing(q) => CountsSince(q, k)' = CountsSince(q, k) \cup {n},
         \A q \in Readers, j \in Keys \ {k} : Listing(q) => CountsSince(q, j)' = CountsSince(q, j),
         \A q \in Readers, j \in Keys : Reported(q, j)' = Reported(q, j)
  PROVE  Service!SetCount(k, n)
BY DEF Service!SetCount

-----------------------------------------------------------------------------
(* How CountsIn changes from alarms h to alarms g.                         *)

LEMMA SameCountsIn ==
  ASSUME NEW h, NEW g, NEW b, NEW k,
         \A i : (i \in 1..Len(g) /\ g[i].key = k) <=> (i \in 1..Len(h) /\ h[i].key = k),
         \A i \in 1..Len(h) : h[i].key = k =>
            g[i].occurrenceCount = h[i].occurrenceCount /\ (g[i].cleared <=> h[i].cleared)
  PROVE  CountsIn(g, b, k) = CountsIn(h, b, k)
<1>1. ASSUME NEW n PROVE n \in CountsIn(g, b, k) <=> n \in CountsIn(h, b, k)
  <2>1. (\E i \in 1..Len(g) : HadBy(g, b, k, i, n)) <=> (\E i \in 1..Len(h) : HadBy(h, b, k, i, n))
    BY DEF HadBy
  <2> QED
    BY <2>1, InCountsIn
<1> QED
  BY <1>1

(* Alarm x alone contributes another count, m. *)
Contributes(h, g, b, k, x, m) ==
  /\ x \in 1..Len(g)
  /\ \A i : i # x => (i \in 1..Len(g) <=> i \in 1..Len(h))
  /\ \A i \in 1..Len(h) : \A n : i # x => (HadBy(g, b, k, i, n) <=> HadBy(h, b, k, i, n))
  /\ \A n : HadBy(g, b, k, x, n) <=> (x \in 1..Len(h) /\ HadBy(h, b, k, x, n)) \/ n = m

LEMMA OneMoreCountIn ==
  ASSUME NEW h, NEW g, NEW b, NEW k, NEW m, NEW x, Contributes(h, g, b, k, x, m)
  PROVE  CountsIn(g, b, k) = CountsIn(h, b, k) \cup {m}
<1>1. ASSUME NEW n PROVE n \in CountsIn(g, b, k) <=> n \in CountsIn(h, b, k) \/ n = m
  <2>1. (\E i \in 1..Len(g) : HadBy(g, b, k, i, n))
          <=> (\E i \in 1..Len(h) : HadBy(h, b, k, i, n)) \/ n = m
    BY DEF Contributes
  <2> QED
    BY <2>1, InCountsIn
<1> QED
  BY <1>1

(* Alarm x of key k, and no other, changes. *)
Changes(h, g, b, k, x) ==
  /\ x \in 1..Len(h) /\ Len(g) = Len(h) /\ \A i \in 1..Len(h) : i # x => g[i] = h[i]
  /\ h[x].key = k /\ g[x].key = k /\ x >= b.alarm

LEMMA ClearedCountsIn ==
  ASSUME NEW h, NEW g, NEW b, NEW k, NEW x, Changes(h, g, b, k, x),
         g[x].occurrenceCount = h[x].occurrenceCount, g[x].cleared, ~h[x].cleared
  PROVE  CountsIn(g, b, k) = CountsIn(h, b, k) \cup {0}
<1>1. \A i \in 1..Len(h) : \A n : i # x => (HadBy(g, b, k, i, n) <=> HadBy(h, b, k, i, n))
  BY DEF HadBy, Changes
<1>2. \A n : HadBy(g, b, k, x, n) <=> (x \in 1..Len(h) /\ HadBy(h, b, k, x, n)) \/ n = 0
  BY DEF HadBy, Changes
<1>3. x \in 1..Len(g) /\ \A i : i # x => (i \in 1..Len(g) <=> i \in 1..Len(h))
  BY DEF Changes
<1>4. Contributes(h, g, b, k, x, 0)
  BY <1>1, <1>2, <1>3 DEF Contributes
<1> QED
  BY <1>4, OneMoreCountIn

LEMMA IncrementedCountsIn ==
  ASSUME NEW h, NEW g, NEW b \in Moment, NEW k, NEW x, Changes(h, g, b, k, x),
         h[x].occurrenceCount \in Nat, g[x].occurrenceCount = h[x].occurrenceCount + 1,
         x = b.alarm => b.count # 0 /\ b.count <= h[x].occurrenceCount,
         ~g[x].cleared, ~h[x].cleared
  PROVE  CountsIn(g, b, k) = CountsIn(h, b, k) \cup {g[x].occurrenceCount}
<1>. DEFINE m == h[x].occurrenceCount
<1>0. b.count \in Nat /\ m \in Nat /\ g[x].occurrenceCount = m + 1
  BY DEF Moment
<1>1. \A i \in 1..Len(h) : \A n : i # x => (HadBy(g, b, k, i, n) <=> HadBy(h, b, k, i, n))
  BY DEF HadBy, Changes
<1>2. ASSUME NEW n PROVE HadBy(g, b, k, x, n) <=> HadBy(h, b, k, x, n) \/ n = m + 1
  <2>1. n \in 1..(m + 1) <=> n \in 1..m \/ n = m + 1
    BY <1>0
  <2>2. x = b.alarm => (n \in b.count..(m + 1) <=> n \in b.count..m \/ n = m + 1)
    BY <1>0
  <2> QED
    BY <1>0, <2>1, <2>2 DEF HadBy, Changes
<1>3. \A n : HadBy(g, b, k, x, n) <=> (x \in 1..Len(h) /\ HadBy(h, b, k, x, n)) \/ n = m + 1
  BY <1>2 DEF Changes
<1>4. x \in 1..Len(g) /\ \A i : i # x => (i \in 1..Len(g) <=> i \in 1..Len(h))
  BY DEF Changes
<1>5. Contributes(h, g, b, k, x, g[x].occurrenceCount)
  BY <1>0, <1>1, <1>3, <1>4 DEF Contributes
<1> QED
  BY <1>5, OneMoreCountIn

(* Alarm x of key k is new. *)
Adds(h, g, b, k, x) ==
  /\ x \notin 1..Len(h) /\ 1..Len(g) = 1..Len(h) \cup {x}
  /\ \A i \in 1..Len(h) : g[i] = h[i]
  /\ g[x].key = k /\ x >= b.alarm /\ x # b.alarm

LEMMA CreatedCountsIn ==
  ASSUME NEW h, NEW g, NEW b, NEW k, NEW x, Adds(h, g, b, k, x),
         g[x].occurrenceCount = 1, ~g[x].cleared
  PROVE  CountsIn(g, b, k) = CountsIn(h, b, k) \cup {1}
<1>1. \A i \in 1..Len(h) : \A n : HadBy(g, b, k, i, n) <=> HadBy(h, b, k, i, n)
  BY DEF HadBy, Adds
<1>2. \A n : HadBy(g, b, k, x, n) <=> (x \in 1..Len(h) /\ HadBy(h, b, k, x, n)) \/ n = 1
  BY DEF HadBy, Adds
<1>3. x \in 1..Len(g) /\ \A i : i # x => (i \in 1..Len(g) <=> i \in 1..Len(h))
  BY DEF Adds
<1>4. Contributes(h, g, b, k, x, 1)
  BY <1>1, <1>2, <1>3 DEF Contributes
<1> QED
  BY <1>4, OneMoreCountIn

(* A listing that has just begun has seen the count there is. *)
LEMMA FirstCounts ==
  ASSUME StoreInv, NEW k \in Keys, NEW b,
         b.alarm = alarms[k], b.count = CountOf(k)
  PROVE  CountsIn(heap, b, k) = {CountOf(k)}
<1>1. ASSUME NEW i \in Ids, NEW n, HadBy(heap, b, k, i, n) PROVE n = CountOf(k)
  <2>1. heap[i].key = k /\ i >= alarms[k] /\ i \in Nat /\ alarms[k] \in Nat
    BY <1>1, HeapElement DEF HadBy, StoreInv, ClearInv, ShapeOK
  <2>2. i = alarms[k]
    <3>1. i <= alarms[k]
      BY <2>1 DEF StoreInv, NewestInv
    <3> QED
      BY <2>1, <3>1
  <2>3. heap[i].cleared => CountOf(k) = 0
    BY <2>2, CountOfType DEF InForce, IsActive
  <2>4. CountOf(k) # 0 => heap[i].occurrenceCount = CountOf(k)
    BY <2>2, CountOfType
  <2>5. CountOf(k) \in Nat
    BY CountOfType
  <2> QED
    BY <1>1, <2>2, <2>3, <2>4, <2>5 DEF HadBy
<1>2. \A n : n \in CountsIn(heap, b, k) <=> n = CountOf(k)
  BY <1>1, InCountsIn DEF Ids
<1> QED
  BY <1>2

-----------------------------------------------------------------------------
(* Recorders.                                                              *)

LEMMA ReadersWait ==
  ASSUME ServiceInv, OnlyGrows, UNCHANGED readerVars
  PROVE  /\ since' = since
         /\ \A q \in Readers : Listing(q)' = Listing(q)
         /\ \A q \in Readers, k \in Keys : Reported(q, k)' = Reported(q, k)
<1>1. UNCHANGED <<qpc, report, since>>
  BY DEF readerVars
<1>2. \A q \in Readers : Listing(q)' = Listing(q)
  BY <1>1 DEF Listing
<1> QED
  BY <1>1, <1>2, SameReport DEF ServiceInv

LEMMA SameAlarmsUnseen ==
  ASSUME ServiceInv, OnlyGrows, UNCHANGED readerVars, alarms' = alarms, Ids' = Ids,
         \A i \in Ids : /\ heap'[i].occurrenceCount = heap[i].occurrenceCount
                        /\ heap'[i].cleared <=> heap[i].cleared
  PROVE  UNCHANGED Service!vars
<1>1. \A i \in Ids : heap'[i].key = heap[i].key
  BY DEF OnlyGrows
<1>2. \A q \in Readers, k \in Keys : CountsSince(q, k)' = CountsSince(q, k)
  <2> TAKE q \in Readers, k \in Keys
  <2>1. CountsIn(heap', since[q][k], k) = CountsIn(heap, since[q][k], k)
    <3>1. \A i : (i \in 1..Len(heap') /\ heap'[i].key = k) <=> (i \in 1..Len(heap) /\ heap[i].key = k)
      BY <1>1 DEF Ids
    <3>2. \A i \in 1..Len(heap) : heap[i].key = k =>
            /\ heap'[i].occurrenceCount = heap[i].occurrenceCount
            /\ heap'[i].cleared <=> heap[i].cleared
      BY DEF Ids
    <3> QED
      BY <3>1, <3>2, SameCountsIn
  <2> QED
    BY <2>1, ReadersWait, CountsSinceIn
<1>3. InForce' = InForce
  BY DEF InForce, IsActive
<1>4. \A k \in Keys : CountOf(k)' = CountOf(k)
  BY <1>3 DEF CountOf, InForce
<1> QED
  BY <1>2, <1>4, ReadersWait, Unseen

(* What a listing reader knows of the alarm in force under k. *)
LEMMA SinceInForce ==
  ASSUME ServiceInv, NEW q \in Readers, Listing(q), NEW k \in Keys
  PROVE  LET x == alarms[k]
             b == since[q][k]
         IN  /\ b \in Moment /\ x \in Nat
             /\ x \in Nat /\ b.alarm \in Nat /\ x >= b.alarm
             /\ x \in InForce /\ x = b.alarm =>
                  b.count # 0 /\ b.count <= heap[x].occurrenceCount
<1>1. since[q][k] \in Moment /\ alarms[k] \in Nat
  BY DEF ServiceInv, ReadInv, SinceInv, StoreInv, ClearInv, ShapeOK
<1>2. since[q][k].alarm \in Nat
  BY <1>1 DEF Moment
<1>3. since[q][k].alarm <= alarms[k]
  BY DEF ServiceInv, ReadInv, SinceInv
<1>4. ASSUME alarms[k] \in InForce, alarms[k] = since[q][k].alarm
      PROVE  since[q][k].count # 0 /\ since[q][k].count <= heap[alarms[k]].occurrenceCount
  <2>1. alarms[k] # 0 /\ ~heap[alarms[k]].cleared
    BY <1>4, HeapElement DEF ServiceInv, StoreInv, InForce, IsActive
  <2> QED
    BY <1>4, <2>1 DEF ServiceInv, ReadInv, SinceInv
<1> QED
  BY <1>1, <1>2, <1>3, <1>4

(* The alarm in force under k changes, and with it what k counts. *)
LEMMA OneKeyCounts ==
  ASSUME ServiceInv, OnlyGrows, UNCHANGED readerVars, NEW k \in Keys, NEW n,
         CountOf(k)' = n,
         \A j \in Keys \ {k} : alarms'[j] = alarms[j],
         \A i \in Ids : heap[i].key # k => heap'[i] = heap[i],
         \A i \in Ids' \ Ids : heap'[i].key = k,
         \A q \in Readers : Listing(q) =>
            CountsIn(heap', since[q][k], k) = CountsIn(heap, since[q][k], k) \cup {n}
  PROVE  Service!SetCount(k, n)
<1>1. Ids \subseteq Ids' /\ \A i \in Ids : heap'[i].key = heap[i].key
  BY DEF OnlyGrows
<1>2. \A q \in Readers : Listing(q) => CountsSince(q, k)' = CountsSince(q, k) \cup {n}
  BY ReadersWait, CountsSinceIn
<1>3. \A q \in Readers, j \in Keys \ {k} : CountsSince(q, j)' = CountsSince(q, j)
  <2> TAKE q \in Readers, j \in Keys \ {k}
  <2>1. CountsIn(heap', since[q][j], j) = CountsIn(heap, since[q][j], j)
    <3>1. \A i : (i \in 1..Len(heap') /\ heap'[i].key = j) <=> (i \in 1..Len(heap) /\ heap[i].key = j)
      BY <1>1 DEF Ids
    <3>2. \A i \in 1..Len(heap) : heap[i].key = j =>
            /\ heap'[i].occurrenceCount = heap[i].occurrenceCount
            /\ heap'[i].cleared <=> heap[i].cleared
      BY DEF Ids
    <3> QED
      BY <3>1, <3>2, SameCountsIn
  <2> QED
    BY <2>1, ReadersWait, CountsSinceIn
<1>4. \A j \in Keys \ {k} : CountOf(j)' = CountOf(j)
  <2> TAKE j \in Keys \ {k}
  <2>1. alarms'[j] = alarms[j] /\ (alarms[j] # 0 => alarms[j] \in Ids /\ heap[alarms[j]].key = j)
    BY DEF ServiceInv, StoreInv, ClearInv, KeysMatch
  <2>2. CASE alarms[j] = 0
    <3>1. 0 \notin InForce /\ 0 \notin InForce'
      BY SMT DEF InForce, Ids
    <3> QED
      BY <2>1, <2>2, <3>1 DEF CountOf
  <2>3. CASE alarms[j] # 0
    <3>1. heap'[alarms[j]] = heap[alarms[j]] /\ alarms[j] \in Ids'
      BY <1>1, <2>1, <2>3
    <3>2. alarms[j] \in InForce' <=> alarms[j] \in InForce
      BY <2>1, <2>3, <3>1 DEF InForce, IsActive
    <3> QED
      BY <2>1, <3>1, <3>2 DEF CountOf
  <2> QED
    BY <2>2, <2>3
<1> QED
  BY <1>2, <1>3, <1>4, ReadersWait, Counts

(* A recovery that finds an alarm in force clears its key. *)
LEMMA RecoverImplements ==
  ASSUME ServiceInv, OnlyGrows, NEW r \in Recorders, Recover(r)
  PROVE  UNCHANGED Service!vars \/ \E k \in Keys : Service!Clear(k)
<1>1. UNCHANGED readerVars /\ alarms' = alarms /\ ClearInv
  BY DEF Recover, ServiceInv, StoreInv
<1>2. PICK k \in Keys, x \in Nat : k = KeyOf(event[r]) /\ x = existing[r] /\ x = alarms[k]
  <2>1. existing[r] \in Nat
    BY <1>1 DEF ClearInv, ShapeOK, Ids
  <2> QED
    BY <1>1, <2>1, KeyOfEvent DEF Recover, ServiceInv, StoreInv, LockInv, Inside
<1>3. CASE x = 0
  <2>1. heap' = heap
    BY <1>2, <1>3 DEF Recover
  <2> QED
    BY <1>1, <2>1, SameAlarmsUnseen DEF Ids
<1>4. CASE x # 0
  <2>1. /\ x \in Ids /\ Ids' = Ids /\ Len(heap') = Len(heap)
        /\ \A i \in Ids : /\ heap'[i].key = heap[i].key
                          /\ heap'[i].occurrenceCount = heap[i].occurrenceCount
                          /\ i # x => heap'[i] = heap[i]
        /\ heap'[x].cleared = TRUE
    BY <1>1, <1>2, <1>4, RecoverEffect
  <2>2. CASE heap[x].cleared
    <3>1. \A i \in Ids : heap'[i].cleared <=> heap[i].cleared
      BY <2>1, <2>2
    <3> QED
      BY <1>1, <2>1, <3>1, SameAlarmsUnseen
  <2>3. CASE ~heap[x].cleared
    <3>1. x \in InForce /\ x \notin InForce' /\ heap[x].key = k
      BY <1>1, <1>2, <1>4, <2>1, <2>3 DEF InForce, IsActive, ClearInv, KeysMatch
    <3>2. CountOf(k)' = 0 /\ CountOf(k) > 0
      BY <1>1, <1>2, <3>1, CountOfType DEF CountOf, ServiceInv
    <3>3. ASSUME NEW q \in Readers, Listing(q)
          PROVE  CountsIn(heap', since[q][k], k) = CountsIn(heap, since[q][k], k) \cup {0}
      <4>1. x >= since[q][k].alarm
        BY <1>2, <3>3, SinceInForce
      <4>2. Changes(heap, heap', since[q][k], k, x)
        BY <2>1, <3>1, <4>1 DEF Changes, Ids
      <4> QED
        BY <2>1, <2>3, <4>2, ClearedCountsIn
    <3>4. Service!SetCount(k, 0)
      <4>1. \A i \in Ids : heap[i].key # k => heap'[i] = heap[i]
        BY <2>1, <3>1
      <4>2. Ids' \ Ids = {} /\ \A j \in Keys : alarms'[j] = alarms[j]
        BY <1>1, <2>1
      <4> QED
        BY <1>1, <3>2, <3>3, <4>1, <4>2, OneKeyCounts
    <3> QED
      BY <1>2, <3>2, <3>4 DEF Service!Clear
  <2> QED
    BY <2>2, <2>3
<1> QED
  BY <1>3, <1>4

LEMMA CreateImplements ==
  ASSUME ServiceInv, OnlyGrows, NEW r \in Recorders, Create(r)
  PROVE  \E k \in Keys : Service!Record(k)
<1>1. UNCHANGED readerVars /\ ClearInv
  BY DEF Create, ServiceInv, StoreInv
<1>2. PICK k \in Keys, x \in Nat :
        /\ k = KeyOf(event[r]) /\ x = Len(heap) + 1
        /\ Ids' = Ids \cup {x} /\ x \notin Ids /\ Len(heap) \in Nat
        /\ \A i \in Ids : heap'[i] = heap[i]
        /\ heap'[x].key = k /\ heap'[x].occurrenceCount = 1 /\ heap'[x].cleared = FALSE
        /\ alarms'[k] = x
        /\ \A j \in Keys \ {k} : alarms'[j] = alarms[j]
  <2>1. Len(heap) \in Nat /\ KeyOf(event[r]) \in Keys
    BY <1>1, CreateEffect
  <2>2. Len(heap) + 1 \in Nat
    BY <2>1
  <2> QED
    BY <1>1, <2>1, <2>2, CreateEffect
<1>3. CountOf(k) = 0
  <2>1. existing[r] = alarms[k] /\ alarms[k] \notin InForce
    BY <1>2 DEF Create, NeedsNewAlarm, ServiceInv, StoreInv, LockInv, Inside
  <2> QED
    BY <2>1 DEF CountOf
<1>4. CountOf(k)' = 1
  <2>1. x \in InForce'
    BY <1>2 DEF InForce, IsActive
  <2> QED
    BY <1>2, <2>1 DEF CountOf
<1>5. ASSUME NEW q \in Readers, Listing(q)
      PROVE  CountsIn(heap', since[q][k], k) = CountsIn(heap, since[q][k], k) \cup {1}
  <2>1. alarms[k] <= Len(heap) /\ alarms[k] \in Nat
    BY <1>1, <1>2 DEF ClearInv, ShapeOK, KeysMatch, Ids
  <2>2. x >= since[q][k].alarm /\ x # since[q][k].alarm
    BY <1>2, <1>5, <2>1, SinceInForce
  <2>3. 1..Len(heap') = 1..Len(heap) \cup {x} /\ x \notin 1..Len(heap)
    BY <1>2 DEF Ids
  <2>4. \A i \in 1..Len(heap) : heap'[i] = heap[i]
    BY <1>2 DEF Ids
  <2>5. Adds(heap, heap', since[q][k], k, x)
    BY <1>2, <2>2, <2>3, <2>4 DEF Adds
  <2> QED
    BY <1>2, <2>5, CreatedCountsIn
<1>6. Service!SetCount(k, 1)
  BY <1>1, <1>2, <1>4, <1>5, OneKeyCounts
<1> QED
  BY <1>2, <1>3, <1>6 DEF Service!Record

LEMMA IncrementImplements ==
  ASSUME ServiceInv, OnlyGrows, NEW r \in Recorders, Increment(r)
  PROVE  \E k \in Keys : Service!Record(k)
<1>1. UNCHANGED readerVars /\ alarms' = alarms /\ ClearInv
  BY DEF Increment, ServiceInv, StoreInv
<1>2. PICK k \in Keys, x \in Ids, m \in Nat :
        /\ k = KeyOf(event[r]) /\ x = existing[r] /\ x = alarms[k]
        /\ x \in InForce /\ x \in Ids /\ ~heap[x].cleared
        /\ m = heap[x].occurrenceCount /\ old[r] = m
  <2>1. /\ KeyOf(event[r]) \in Keys /\ existing[r] = alarms[KeyOf(event[r])]
        /\ existing[r] \in InForce /\ existing[r] \in Ids /\ ~heap[existing[r]].cleared
        /\ old[r] = heap[existing[r]].occurrenceCount
    BY <1>1, KeyOfEvent DEF Increment, ServiceInv, StoreInv, LockInv, CountInv, Inside, Writing, InForce, IsActive
  <2>2. heap[existing[r]].occurrenceCount \in Nat
    BY <1>1, <2>1, HeapElement
  <2> QED
    BY <2>1, <2>2
<1>3. m \in Nat /\ heap[x].key = k
  BY <1>1, <1>2, HeapElement DEF ClearInv, KeysMatch
<1>4. /\ Ids' = Ids /\ Len(heap') = Len(heap)
      /\ \A i \in Ids : /\ heap'[i].key = heap[i].key
                        /\ heap'[i].cleared = heap[i].cleared
                        /\ i # x => heap'[i] = heap[i]
      /\ heap'[x].occurrenceCount = m + 1
  BY <1>1, <1>2, IncrementEffect
<1>5. CountOf(k) = m /\ CountOf(k)' = m + 1
  <2>1. x \in InForce'
    BY <1>2, <1>4 DEF InForce, IsActive
  <2> QED
    BY <1>1, <1>2, <1>4, <2>1 DEF CountOf
<1>6. ASSUME NEW q \in Readers, Listing(q)
      PROVE  CountsIn(heap', since[q][k], k) = CountsIn(heap, since[q][k], k) \cup {m + 1}
  <2>1. /\ since[q][k] \in Moment /\ x >= since[q][k].alarm
        /\ x = since[q][k].alarm => since[q][k].count # 0 /\ since[q][k].count <= m
    BY <1>2, <1>6, SinceInForce
  <2>2. Changes(heap, heap', since[q][k], k, x)
    BY <1>2, <1>3, <1>4, <2>1 DEF Changes, Ids
  <2>3. ~heap'[x].cleared /\ ~heap[x].cleared
    BY <1>2, <1>4
  <2>4. /\ heap[x].occurrenceCount \in Nat
        /\ heap'[x].occurrenceCount = heap[x].occurrenceCount + 1
        /\ x = since[q][k].alarm =>
             since[q][k].count # 0 /\ since[q][k].count <= heap[x].occurrenceCount
    BY <1>2, <1>3, <1>4, <2>1
  <2>5. CountsIn(heap', since[q][k], k)
          = CountsIn(heap, since[q][k], k) \cup {heap'[x].occurrenceCount}
    BY ONLY <2>1, <2>2, <2>3, <2>4, IncrementedCountsIn
  <2> QED
    BY <1>4, <2>5
<1>7. Service!SetCount(k, m + 1)
  BY <1>1, <1>2, <1>3, <1>4, <1>5, <1>6, OneKeyCounts
<1> QED
  BY <1>2, <1>5, <1>7 DEF Service!Record

LEMMA RecorderImplements ==
  ASSUME ServiceInv, OnlyGrows, NEW r \in Recorders, RecorderStep(r) \/ \E e \in Event : Post(r, e)
  PROVE  [Service!Next]_(Service!vars)
<1>1. CASE Recover(r)
  BY <1>1, RecoverImplements DEF Service!Next
<1>2. CASE Create(r)
  BY <1>2, CreateImplements DEF Service!Next
<1>3. CASE Increment(r)
  BY <1>3, IncrementImplements DEF Service!Next
<1>4. CASE SetMessage(r)
  <2>1. existing[r] \in Ids /\ ClearInv
    BY <1>4 DEF SetMessage, ServiceInv, StoreInv, LockInv, Writing, InForce
  <2>2. /\ Ids' = Ids
        /\ \A i \in Ids : /\ heap'[i].occurrenceCount = heap[i].occurrenceCount
                          /\ heap'[i].cleared <=> heap[i].cleared
    BY <1>4, <2>1, SetMessageEffect
  <2>3. UNCHANGED readerVars /\ alarms' = alarms
    BY <1>4 DEF SetMessage
  <2> QED
    BY <2>2, <2>3, SameAlarmsUnseen
<1>5. CASE EnterCompute(r) \/ Repeat(r) \/ \E e \in Event : Post(r, e)
  <2>1. UNCHANGED readerVars /\ heap' = heap /\ alarms' = alarms
    BY <1>5 DEF EnterCompute, Repeat, Post
  <2> QED
    BY <2>1, SameAlarmsUnseen DEF Ids
<1> QED
  BY <1>1, <1>2, <1>3, <1>4, <1>5 DEF RecorderStep

-----------------------------------------------------------------------------
(* Readers.                                                                *)

LEMMA NotYetReported ==
  ASSUME NEW q, NEW k
  PROVE  /\ qpc[q] # "done" => Reported(q, k) = 0
         /\ qpc'[q] # "done" => Reported(q, k)' = 0
BY DEF Reported

(* What a reader's step leaves as it is. *)
LEMMA StoreWaits ==
  ASSUME UNCHANGED <<heap, alarms>>
  PROVE  /\ \A k \in Keys : CountOf(k)' = CountOf(k)
         /\ \A q \in Readers, k \in Keys :
              since'[q] = since[q] => CountsSince(q, k)' = CountsSince(q, k)
<1>1. \A k \in Keys : CountOf(k)' = CountOf(k)
  BY DEF CountOf, InForce, Ids, IsActive
<1> QED
  BY <1>1, CountsSinceIn

LEMMA ReadingUnseen ==
  ASSUME ServiceInv, NEW q \in Readers,
         (\E k \in Keys : Visit(q, k)) \/ HandlerReturns(q) \/ \E i \in Ids : Serialise(q, i)
  PROVE  UNCHANGED Service!vars
<1>0. DOMAIN qpc = Readers /\ DOMAIN report = Readers
  BY DEF ServiceInv, ReadInv, ReportInv
<1>1. /\ UNCHANGED <<heap, alarms, since>>
      /\ qpc[q] \in {"forEach", "serialise"}
      /\ qpc' = qpc \/ qpc' = [qpc EXCEPT ![q] = "serialise"]
      /\ \A p \in Readers \ {q} : report'[p] = report[p]
  BY <1>0 DEF Visit, HandlerReturns, Serialise
<1>2. \A p \in Readers \ {q} : qpc'[p] = qpc[p]
  BY <1>0, <1>1
<1>3. qpc'[q] \in {"forEach", "serialise"}
  BY <1>0, <1>1
<1>4. \A p \in Readers : Listing(p)' = Listing(p)
  BY <1>1, <1>2, <1>3 DEF Listing
<1>5. OnlyGrows
  BY <1>1, UnchangedGrows DEF ServiceInv, StoreInv
<1>6. ASSUME NEW p \in Readers, NEW k \in Keys PROVE Reported(p, k)' = Reported(p, k)
  <2>1. CASE p = q
    BY <1>1, <1>3, <2>1, NotYetReported
  <2>2. CASE p # q
    BY <1>1, <1>2, <1>5, <2>2, SameReport DEF ServiceInv
  <2> QED
    BY <2>1, <2>2
<1> QED
  BY <1>1, <1>4, <1>6, StoreWaits, Unseen

LEMMA ListImplements ==
  ASSUME ServiceInv, NEW q \in Readers, List(q)
  PROVE  Service!Ask(q)
<1>1. /\ UNCHANGED <<heap, alarms>>
      /\ qpc' = [qpc EXCEPT ![q] = "forEach"]
      /\ report' = [report EXCEPT ![q] = <<>>]
      /\ since' = [since EXCEPT ![q] =
                     [k \in Keys |-> [alarm |-> alarms[k], count |-> CountOf(k)]]]
  BY DEF List
<1>2. /\ qpc'[q] = "forEach"
      /\ \A k \in Keys : since'[q][k].alarm = alarms[k] /\ since'[q][k].count = CountOf(k)
      /\ \A p \in Readers \ {q} :
           qpc'[p] = qpc[p] /\ report'[p] = report[p] /\ since'[p] = since[p]
  BY <1>1 DEF ServiceInv, ReadInv, ReportInv, SinceInv
<1>3. Listing(q)' /\ \A p \in Readers \ {q} : Listing(p)' = Listing(p)
  BY <1>2 DEF Listing
<1>4. ASSUME NEW k \in Keys PROVE CountsSince(q, k)' = {CountOf(k)}
  <2>1. CountsIn(heap, since'[q][k], k) = {CountOf(k)}
    BY <1>2, FirstCounts DEF ServiceInv
  <2> QED
    BY <1>1, <2>1, CountsSinceIn
<1>5. OnlyGrows
  BY <1>1, UnchangedGrows DEF ServiceInv, StoreInv
<1>6. \A p \in Readers, k \in Keys :
        IF p = q THEN Reported(p, k)' = 0 ELSE Reported(p, k)' = Reported(p, k)
  BY <1>2, <1>5, NotYetReported, SameReport DEF ServiceInv
<1>7. {p \in Readers : Listing(p)'} = {p \in Readers : Listing(p)} \cup {q}
  BY <1>3
<1>8. [p \in Readers |-> [k \in Keys |-> IF Listing(p)' THEN CountsSince(p, k)' ELSE {}]]
        = [[p \in Readers |-> [k \in Keys |-> IF Listing(p) THEN CountsSince(p, k) ELSE {}]]
             EXCEPT ![q] = [k \in Keys |-> {CountOf(k)}]]
  <2>1. [k \in Keys |-> IF Listing(q)' THEN CountsSince(q, k)' ELSE {}] = [k \in Keys |-> {CountOf(k)}]
    BY <1>3, <1>4
  <2>2. ASSUME NEW p \in Readers \ {q}
        PROVE  [k \in Keys |-> IF Listing(p)' THEN CountsSince(p, k)' ELSE {}]
                 = [k \in Keys |-> IF Listing(p) THEN CountsSince(p, k) ELSE {}]
    BY <1>1, <1>2, <1>3, StoreWaits
  <2> QED
    BY <2>1, <2>2
<1>9. [p \in Readers |-> [k \in Keys |-> Reported(p, k)']]
        = [[p \in Readers |-> [k \in Keys |-> Reported(p, k)]] EXCEPT ![q] = [k \in Keys |-> 0]]
  BY <1>6
<1>10. [k \in Keys |-> CountOf(k)'] = [k \in Keys |-> CountOf(k)]
  BY <1>1, StoreWaits
<1>11. \A k \in Keys : [j \in Keys |-> CountOf(j)][k] = CountOf(k)
  OBVIOUS
<1> QED
  BY <1>7, <1>8, <1>9, <1>10, <1>11 DEF Service!Ask, Service!NoAlarms

(* What is shown for a key is a count it had since the listing began. *)
LEMMA ReportedWasCounted ==
  ASSUME ServiceInv, NEW q \in Readers, Respond(q), NEW k \in Keys
  PROVE  Reported(q, k)' \in CountsSince(q, k)
<1> DEFINE OfKey == {i \in DOMAIN report[q] : heap[i].key = k}
           b == since[q][k]
<1>1. /\ qpc[q] = "serialise" /\ active[q] = DOMAIN report[q]
      /\ qpc' = [qpc EXCEPT ![q] = "done"] /\ UNCHANGED <<heap, report>>
  BY DEF Respond
<1>2. Listing(q) /\ qpc'[q] = "done"
  BY <1>1 DEF Listing, ServiceInv, ReadInv, ReportInv
<1>3. /\ active[q] \subseteq Ids
      /\ \A i \in DOMAIN report[q] : Shown(q, i, report[q][i])
      /\ (\A i \in active[q] : heap[i].key # k) => Absent(q, k)
  BY <1>1, <1>2 DEF ServiceInv, ReadInv, ReportInv
<1>4. Reported(q, k)' = IF OfKey = {} THEN 0 ELSE report[q][CHOOSE i \in OfKey : TRUE]
  <2> DEFINE Now == {i \in DOMAIN report'[q] : qpc'[q] = "done" /\ heap'[i].key = k}
  <2>1. Reported(q, k)' = IF Now = {} THEN 0 ELSE report'[q][CHOOSE i \in Now : TRUE]
    BY DEF Reported
  <2>2. Now = OfKey
    BY <1>1, <1>2
  <2> HIDE DEF Now, OfKey
  <2> QED
    BY <1>1, <2>1, <2>2
<1>5. b.count \in Nat /\ b.alarm \in Nat
  BY DEF ServiceInv, ReadInv, SinceInv, Moment
<1>6. CASE OfKey = {}
  <2>1. Absent(q, k)
    BY <1>1, <1>3, <1>6
  <2>2. 0 = b.count \/ \E i \in 1..Len(heap) : HadBy(heap, b, k, i, 0)
    BY <2>1 DEF Absent, HadBy, Ids
  <2> QED
    BY <1>4, <1>6, <2>2, CountsSinceIn, InCountsIn
<1>7. CASE OfKey # {}
  <2>1. PICK i \in OfKey : Reported(q, k)' = report[q][i]
    BY <1>4, <1>7
  <2>2. i \in Ids /\ heap[i].key = k /\ Shown(q, i, report[q][i])
    BY <1>1, <1>3
  <2>3. heap[i].occurrenceCount \in Nat
    BY <2>2, HeapElement DEF ServiceInv, StoreInv
  <2>4. HadBy(heap, b, k, i, report[q][i])
    BY <1>5, <2>2, <2>3 DEF Shown, HadBy
  <2> QED
    BY <2>1, <2>2, <2>4, CountsSinceIn, InCountsIn DEF Ids
<1> QED
  BY <1>6, <1>7

LEMMA RespondImplements ==
  ASSUME ServiceInv, NEW q \in Readers, Respond(q)
  PROVE  Service!Answer(q)
<1> DEFINE seen == [p \in Readers |-> [k \in Keys |-> IF Listing(p) THEN CountsSince(p, k) ELSE {}]]
           f == [k \in Keys |-> Reported(q, k)']
<1>1. /\ qpc[q] = "serialise" /\ qpc' = [qpc EXCEPT ![q] = "done"]
      /\ UNCHANGED <<heap, alarms, since, report>>
  BY DEF Respond
<1>2. qpc'[q] = "done" /\ \A p \in Readers \ {q} : qpc'[p] = qpc[p]
  BY <1>1 DEF ServiceInv, ReadInv, ReportInv
<1>3. Listing(q) /\ ~Listing(q)' /\ \A p \in Readers \ {q} : Listing(p)' = Listing(p)
  BY <1>1, <1>2 DEF Listing
<1>4. OnlyGrows
  BY <1>1, UnchangedGrows DEF ServiceInv, StoreInv
<1>5. \A p \in Readers \ {q}, k \in Keys : Reported(p, k)' = Reported(p, k)
  BY <1>1, <1>2, <1>4, SameReport DEF ServiceInv
<1>6. q \in {p \in Readers : Listing(p)}
  BY <1>3
<1>7. {p \in Readers : Listing(p)'} = {p \in Readers : Listing(p)} \ {q}
  BY <1>3
<1>8. f \in Service!Listings(q)
  <2>1. \A k \in Keys : seen[q][k] = CountsSince(q, k)
    BY <1>3
  <2>2. \A k \in Keys : f[k] \in seen[q][k]
    BY <2>1, ReportedWasCounted
  <2>3. f \in [Keys -> UNION {seen[q][k] : k \in Keys}]
    BY <2>2
  <2> HIDE DEF f
  <2> QED
    BY <2>2, <2>3 DEF Service!Listings
<1>9. [p \in Readers |-> [k \in Keys |-> Reported(p, k)']]
        = [[p \in Readers |-> [k \in Keys |-> Reported(p, k)]] EXCEPT ![q] = f]
  BY <1>5
<1>10. [p \in Readers |-> [k \in Keys |-> IF Listing(p)' THEN CountsSince(p, k)' ELSE {}]]
         = [seen EXCEPT ![q] = [k \in Keys |-> {}]]
  BY <1>1, <1>3, StoreWaits
<1>11. [k \in Keys |-> CountOf(k)'] = [k \in Keys |-> CountOf(k)]
  BY <1>1, StoreWaits
<1> HIDE DEF f
<1> QED
  BY <1>6, <1>7, <1>8, <1>9, <1>10, <1>11 DEF Service!Answer, Service!Nothing

-----------------------------------------------------------------------------
(* The refinement.                                                         *)

LEMMA InitImplements == Init => Service!Init
<1> SUFFICES ASSUME Init PROVE Service!Init
  OBVIOUS
<1>1. \A q \in Readers : qpc[q] = "idle"
  BY DEF Init
<1>2. \A q \in Readers : ~Listing(q) /\ \A k \in Keys : Reported(q, k) = 0
  BY <1>1, NotYetReported DEF Listing
<1>3. \A k \in Keys : CountOf(k) = 0
  <2>1. \A k \in Keys : alarms[k] \notin InForce
    BY NoIdsAtFirst DEF InForce
  <2> QED
    BY <2>1 DEF CountOf
<1> QED
  BY <1>2, <1>3 DEF Service!Init, Service!NoAlarms, Service!Nothing

LEMMA RestartImplements == Restart => Service!Restart
<1> SUFFICES ASSUME Restart PROVE Service!Restart
  OBVIOUS
<1>1. \A q \in Readers : qpc'[q] = "idle"
  BY DEF Restart
<1>2. \A q \in Readers : ~Listing(q)' /\ \A k \in Keys : Reported(q, k)' = 0
  BY <1>1, NotYetReported DEF Listing
<1>3. \A k \in Keys : CountOf(k)' = 0
  <2>1. \A k \in Keys : alarms'[k] \notin InForce'
    BY NoIdsAtFirst DEF InForce
  <2> QED
    BY <2>1 DEF CountOf
<1> QED
  BY <1>2, <1>3 DEF Service!Restart, Service!NoAlarms, Service!Nothing

LEMMA StepImplements ==
  ASSUME ServiceInv, [Next]_vars
  PROVE  [Service!Next]_(Service!vars)
<1>1. CASE Restart
  BY <1>1, RestartImplements DEF Service!Next
<1>2. ASSUME OnlyGrows, NEW r \in Recorders, RecorderStep(r) \/ \E e \in Event : Post(r, e)
      PROVE  [Service!Next]_(Service!vars)
  BY <1>2, RecorderImplements
<1>3. ASSUME NEW q \in Readers, ReaderStep(q) PROVE [Service!Next]_(Service!vars)
  BY <1>3, ReadingUnseen, RespondImplements DEF ReaderStep, Service!Next
<1>4. ASSUME NEW q \in Readers, List(q) PROVE [Service!Next]_(Service!vars)
  BY <1>4, ListImplements DEF Service!Next
<1>5. CASE UNCHANGED vars
  <2>1. UNCHANGED <<heap, alarms, qpc, report, since, readerVars>>
    BY <1>5 DEF vars, readerVars
  <2>2. OnlyGrows
    BY <2>1, UnchangedGrows DEF ServiceInv, StoreInv
  <2> QED
    BY <2>1, <2>2, SameAlarmsUnseen DEF Ids
<1> QED
  BY <1>1, <1>2, <1>3, <1>4, <1>5, StoreOnlyGrows DEF Next, ServiceInv

(* core-engine with its threads, bins and live objects (AlarmStore.java)   *)
(* implements the alarm service of AlarmSpec.                              *)
THEOREM AlarmStoreImplementsService == Spec => ImplementsService
<1>1. Init => Service!Init
  BY InitImplements
<1>2. ServiceInv /\ [Next]_vars => [Service!Next]_(Service!vars)
  BY StepImplements
<1> QED
  BY <1>1, <1>2, ServiceInvHolds, PTL DEF Spec, ImplementsService, Service!Spec
=============================================================================
