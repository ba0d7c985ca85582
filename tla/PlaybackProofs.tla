--------------------------- MODULE PlaybackProofs ---------------------------
(***************************************************************************)
(* What is proved about the monitored path for any number of plays, agents *)
(* and scrapes: no play counts twice and none that is not stored, and      *)
(* northbound never shows more streams with an alarm than plays.           *)
(***************************************************************************)
EXTENDS Playback, FiniteSetTheorems, TLAPS

(* What TypeOK leaves open because no run needs it: core-engine's state,   *)
(* and that every poster has a subject.                                    *)
EngineOK ==
  /\ DOMAIN subject = Posters
  /\ count \in [Alarms -> Nat]
  /\ asking \subseteq Scrapes
  /\ seen \in [Scrapes -> [Alarms -> SUBSET Nat]]
  /\ report \in [Scrapes -> [Alarms -> Nat]]

(* Where a play is says whether its row and its event are out. *)
PathInv ==
  \A p \in Plays :
    /\ pc[p] = "insert" => subject[p][2] \in Titles
    /\ pc[p] = "commit" => subject[p] \in Streams
    /\ pc[p] \in {"new", "select", "insert", "commit"} => p \notin rows
    /\ pc[p] = "post" => p \in rows /\ p \notin underWay
    /\ p \in underWay => p \in rows

(* CountsBacked would not be kept by Post: what is committed and not yet   *)
(* posted has to be reckoned with.  A play is pending while core-engine    *)
(* may still count it.  The formula is over values, so that lemmas about   *)
(* it serve the next state as well.                                        *)
Pending == {p \in Plays : p \in underWay \/ pc[p] = "post"}
OfStream(plays, subjects, stream) == {p \in plays : subjects[p] = stream}
Backing(counts, subjects, pending, stored) ==
  \A stream \in Streams :
    counts[stream] + Cardinality(OfStream(pending, subjects, stream))
      <= Cardinality(OfStream(stored, subjects, stream))
BackingInv == Backing(count, subject, Pending, rows)

(* Nothing a scrape has been shown, or will be, is without a play. *)
Backed == {subject[p] : p \in rows}
SeenInv ==
  \A s \in Scrapes :
    /\ \A k \in Streams : (\E n \in seen[s][k] : n > 0) => k \in Backed
    /\ alarms[s] \cap Streams \subseteq Backed

PlayInv == TypeOK /\ EngineOK /\ PathInv /\ BackingInv /\ SeenInv /\ MetricsConsistent

-----------------------------------------------------------------------------
(* Counting plays.                                                         *)

(* The plays of a stream among finitely many are finitely many. *)
LEMMA OfStreamFinite ==
  ASSUME NEW plays, plays \subseteq Plays, NEW subjects, NEW stream
  PROVE  /\ IsFiniteSet(OfStream(plays, subjects, stream))
         /\ Cardinality(OfStream(plays, subjects, stream)) \in Nat
<1>1. OfStream(plays, subjects, stream) \in SUBSET Plays
  BY DEF OfStream
<1>2. IsFiniteSet(OfStream(plays, subjects, stream))
  BY <1>1, FS_Subset, PlaybackAssumption DEF PlaybackAssumption
<1> QED
  BY <1>2, FS_CardinalityType

(* Lower counts, fewer pending plays or more rows break no backing. *)
LEMMA BackingMonotone ==
  ASSUME NEW counts \in [Alarms -> Nat], NEW counts2 \in [Alarms -> Nat],
         NEW subjects, NEW subjects2,
         NEW pending, NEW pending2, NEW stored, NEW stored2,
         pending \subseteq Plays, pending2 \subseteq pending,
         stored \subseteq stored2, stored2 \subseteq Plays,
         \A stream \in Streams : counts2[stream] <= counts[stream],
         \A p \in Plays : subjects2[p] = subjects[p],
         Backing(counts, subjects, pending, stored)
  PROVE  Backing(counts2, subjects2, pending2, stored2)
<1> SUFFICES ASSUME NEW stream \in Streams
             PROVE  counts2[stream] + Cardinality(OfStream(pending2, subjects2, stream))
                      <= Cardinality(OfStream(stored2, subjects2, stream))
  BY DEF Backing
<1> DEFINE P == OfStream(pending, subjects, stream)
           P2 == OfStream(pending2, subjects2, stream)
           S == OfStream(stored, subjects, stream)
           S2 == OfStream(stored2, subjects2, stream)
<1>1. P2 \in SUBSET P /\ S \in SUBSET S2
  BY DEF OfStream
<1>2. /\ IsFiniteSet(P) /\ Cardinality(P) \in Nat /\ Cardinality(P2) \in Nat
      /\ Cardinality(S) \in Nat
      /\ IsFiniteSet(S2) /\ Cardinality(S2) \in Nat
  <2>1. pending2 \subseteq Plays /\ stored \subseteq Plays
    OBVIOUS
  <2> QED
    BY <2>1, OfStreamFinite
<1>3. Cardinality(P2) <= Cardinality(P) /\ Cardinality(S) <= Cardinality(S2)
  BY <1>1, <1>2, FS_Subset
<1>4. counts[stream] + Cardinality(P) <= Cardinality(S)
  BY DEF Backing
<1>5. counts[stream] \in Nat /\ counts2[stream] \in Nat /\ counts2[stream] <= counts[stream]
  BY DEF Alarms
<1> HIDE DEF P, P2, S, S2
<1> QED
  BY <1>2, <1>3, <1>4, <1>5 DEF P2, S2

(* A play that becomes pending with its row. *)
LEMMA BackingAdds ==
  ASSUME NEW counts \in [Alarms -> Nat], NEW subjects,
         NEW pending, NEW stored, pending \subseteq stored, stored \subseteq Plays,
         NEW p \in Plays, p \notin stored,
         Backing(counts, subjects, pending, stored)
  PROVE  Backing(counts, subjects, pending \cup {p}, stored \cup {p})
<1> SUFFICES ASSUME NEW stream \in Streams
             PROVE  counts[stream] + Cardinality(OfStream(pending \cup {p}, subjects, stream))
                      <= Cardinality(OfStream(stored \cup {p}, subjects, stream))
  BY DEF Backing
<1> DEFINE P == OfStream(pending, subjects, stream)
           S == OfStream(stored, subjects, stream)
<1>1. /\ IsFiniteSet(P) /\ Cardinality(P) \in Nat
      /\ IsFiniteSet(S) /\ Cardinality(S) \in Nat
  BY OfStreamFinite
<1>2. counts[stream] + Cardinality(P) <= Cardinality(S) /\ counts[stream] \in Nat
  BY DEF Backing, Alarms
<1>3. CASE subjects[p] = stream
  <2>1. /\ OfStream(pending \cup {p}, subjects, stream) = P \cup {p}
        /\ OfStream(stored \cup {p}, subjects, stream) = S \cup {p}
        /\ p \notin P /\ p \notin S
    BY <1>3 DEF OfStream
  <2>2. Cardinality(P \cup {p}) = Cardinality(P) + 1 /\ Cardinality(S \cup {p}) = Cardinality(S) + 1
    BY <1>1, <2>1, FS_AddElement
  <2>3. /\ Cardinality(OfStream(pending \cup {p}, subjects, stream)) = Cardinality(P) + 1
        /\ Cardinality(OfStream(stored \cup {p}, subjects, stream)) = Cardinality(S) + 1
    BY ONLY <2>1, <2>2, Zenon
  <2> HIDE DEF P, S
  <2> QED
    BY <1>1, <1>2, <2>3
<1>4. CASE subjects[p] # stream
  <2>1. /\ OfStream(pending \cup {p}, subjects, stream) = P
        /\ OfStream(stored \cup {p}, subjects, stream) = S
    BY <1>4 DEF OfStream
  <2> QED
    BY <1>2, <2>1
<1> QED
  BY <1>3, <1>4

(* A pending play that is counted. *)
LEMMA BackingCounts ==
  ASSUME NEW counts \in [Alarms -> Nat], NEW subjects,
         NEW pending, NEW stored, pending \subseteq Plays, stored \subseteq Plays,
         NEW p \in pending,
         Backing(counts, subjects, pending, stored)
  PROVE  Backing([counts EXCEPT ![subjects[p]] = counts[subjects[p]] + 1],
                 subjects, pending \ {p}, stored)
<1> DEFINE counted == [counts EXCEPT ![subjects[p]] = counts[subjects[p]] + 1]
<1> SUFFICES ASSUME NEW stream \in Streams
             PROVE  counted[stream] + Cardinality(OfStream(pending \ {p}, subjects, stream))
                      <= Cardinality(OfStream(stored, subjects, stream))
  BY DEF Backing
<1> DEFINE P == OfStream(pending, subjects, stream)
           S == OfStream(stored, subjects, stream)
<1>1. /\ IsFiniteSet(P) /\ Cardinality(P) \in Nat /\ Cardinality(S) \in Nat
  BY OfStreamFinite
<1>2. counts[stream] + Cardinality(P) <= Cardinality(S) /\ counts[stream] \in Nat
  BY DEF Backing, Alarms
<1>3. CASE subjects[p] = stream
  <2>1. OfStream(pending \ {p}, subjects, stream) = P \ {p} /\ p \in P
    BY <1>3 DEF OfStream
  <2>2. Cardinality(P \ {p}) = Cardinality(P) - 1
    BY <1>1, <2>1, FS_RemoveElement
  <2>3. counted[stream] = counts[stream] + 1
    BY <1>3 DEF Alarms
  <2> HIDE DEF P, S, counted
  <2> QED
    BY <1>1, <1>2, <2>1, <2>2, <2>3 DEF S
<1>4. CASE subjects[p] # stream
  <2>1. OfStream(pending \ {p}, subjects, stream) = P
    BY <1>4 DEF OfStream
  <2>2. counted[stream] = counts[stream]
    BY <1>4 DEF Alarms
  <2> QED
    BY <1>2, <2>1, <2>2
<1> QED
  BY <1>3, <1>4

(* A stream whose alarm counts something has a row. *)
LEMMA CountedIsStored ==
  ASSUME NEW counts \in [Alarms -> Nat], NEW subjects,
         NEW pending, NEW stored, pending \subseteq Plays, stored \subseteq Plays,
         Backing(counts, subjects, pending, stored),
         NEW stream \in Streams, counts[stream] > 0
  PROVE  \E p \in stored : subjects[p] = stream
<1> DEFINE P == OfStream(pending, subjects, stream)
           S == OfStream(stored, subjects, stream)
<1>1. Cardinality(P) \in Nat /\ Cardinality(S) \in Nat
  BY OfStreamFinite
<1>2. counts[stream] + Cardinality(P) <= Cardinality(S) /\ counts[stream] \in Nat
  BY DEF Backing, Alarms
<1>3. Cardinality(S) # 0
  <2> HIDE DEF P, S
  <2> QED
    BY <1>1, <1>2
<1>4. S # {}
  BY <1>3, FS_EmptySet
<1> QED
  BY <1>4 DEF OfStream

(* No more streams are played than there are plays. *)
LEMMA StreamsNoMoreThanPlays ==
  ASSUME NEW subjects, NEW stored, stored \subseteq Plays,
         NEW streams, streams \subseteq {subjects[p] : p \in stored}
  PROVE  Cardinality(streams) <= Cardinality(stored)
<1> DEFINE all == {subjects[p] : p \in stored}
           f == [p \in stored |-> subjects[p]]
<1>1. IsFiniteSet(stored) /\ Cardinality(stored) \in Nat
  <2>1. stored \in SUBSET Plays
    OBVIOUS
  <2>2. IsFiniteSet(stored)
    BY <2>1, FS_Subset, PlaybackAssumption DEF PlaybackAssumption
  <2> QED
    BY <2>2, FS_CardinalityType
<1>2. f \in Surjection(stored, all)
  BY DEF Surjection
<1>3. IsFiniteSet(all) /\ Cardinality(all) <= Cardinality(stored) /\ Cardinality(all) \in Nat
  BY <1>1, <1>2, FS_Surjection, FS_CardinalityType
<1>4. streams \in SUBSET all
  OBVIOUS
<1>5. IsFiniteSet(streams) /\ Cardinality(streams) <= Cardinality(all)
  BY <1>3, <1>4, FS_Subset
<1>6. Cardinality(streams) \in Nat
  BY <1>5, FS_CardinalityType
<1> HIDE DEF all
<1> QED
  BY <1>1, <1>3, <1>5, <1>6
-----------------------------------------------------------------------------
(* Every step keeps the invariant.                                         *)

LEMMA PlayInvInit == Init => PlayInv
<1> SUFFICES ASSUME Init PROVE PlayInv
  OBVIOUS
<1> USE DEF Init, NoAnswer
<1>1. PICK wanted \in [Plays -> Wanted] :
        subject = [p \in Posters |-> IF p \in Plays THEN wanted[p] ELSE healthcheckPassed]
  OBVIOUS
<1>2. DOMAIN subject = Posters /\ \A p \in Plays : subject[p] \in Wanted
  BY <1>1 DEF Posters
<1>3. \A a \in Agents : subject[a] \in Verdicts
  BY <1>1, PlaybackAssumption DEF PlaybackAssumption, Posters, Verdicts
<1>4. Cardinality({}) = 0 /\ Cardinality(Plays) \in Nat
  BY FS_EmptySet, FS_CardinalityType, PlaybackAssumption DEF PlaybackAssumption
<1>5. TypeOK
  BY <1>2, <1>3, <1>4 DEF TypeOK
<1>6. EngineOK
  BY <1>2 DEF EngineOK, Engine!Init, Engine!NoAlarms, Engine!Nothing
<1>7. PathInv
  BY DEF PathInv, Posters
<1>8. BackingInv
  <2>1. Pending = {}
    BY DEF Pending, Posters
  <2> SUFFICES ASSUME NEW stream \in Streams
               PROVE  count[stream] + Cardinality(OfStream({}, subject, stream))
                        <= Cardinality(OfStream({}, subject, stream))
    BY <2>1 DEF BackingInv, Backing
  <2>2. OfStream({}, subject, stream) = {}
    BY DEF OfStream
  <2>3. count[stream] = 0
    BY DEF Engine!Init, Engine!NoAlarms, Alarms
  <2>4. Cardinality(OfStream({}, subject, stream)) = 0
    BY ONLY <1>4, <2>2, Zenon
  <2> QED
    BY ONLY <2>3, <2>4
<1>9. SeenInv
  BY DEF SeenInv, Engine!Init, Engine!Nothing, Alarms
<1>10. MetricsConsistent
  <2> SUFFICES ASSUME NEW s \in Scrapes
               PROVE  Cardinality(metrics[s].alarms \cap Streams) <= metrics[s].plays
    BY DEF MetricsConsistent
  <2>1. metrics[s].alarms \cap Streams = {} /\ metrics[s].plays = 0
    OBVIOUS
  <2>2. Cardinality(metrics[s].alarms \cap Streams) = 0
    BY ONLY <1>4, <2>1, Zenon
  <2> QED
    BY ONLY <2>1, <2>2
<1> QED
  BY <1>5, <1>6, <1>7, <1>8, <1>9, <1>10 DEF PlayInv

(* No step takes a row back or changes what a play is about. *)
LEMMA NothingForgotten ==
  ASSUME PlayInv, [Next]_vars
  PROVE  rows \subseteq rows' /\ \A p \in Plays : subject'[p] = subject[p]
<1> USE DEF PlayInv, TypeOK, EngineOK
<1>1. ASSUME NEW p \in Plays, Request(p) \/ PlayStep(p)
      PROVE  rows \subseteq rows' /\ subject' = subject
  BY <1>1 DEF Request, PlayStep, Select, Insert, Commit, Post, PostReturns
<1>2. ASSUME NEW p \in Plays, DatabaseFails(p)
      PROVE  rows \subseteq rows' /\ subject' = subject
  BY <1>2 DEF DatabaseFails
<1>3. CASE CatalogDies
  BY <1>3 DEF CatalogDies
<1>4. CASE CatalogStarts
  BY <1>4 DEF CatalogStarts
<1>5. ASSUME NEW a \in Agents, RunChaosCheck(a) \/ SimulateOutage(a)
      PROVE  rows' = rows /\ \A p \in Plays : subject'[p] = subject[p]
  <2>1. \A p \in Plays : p # a /\ p \in DOMAIN subject
    BY PlaybackAssumption DEF PlaybackAssumption, Posters
  <2> QED
    BY <1>5, <2>1 DEF RunChaosCheck, SimulateOutage
<1>6. ASSUME NEW a \in Agents, CatalogStops(a) \/ Post(a) \/ AgentEnds(a)
      PROVE  rows' = rows /\ subject' = subject
  BY <1>6 DEF CatalogStops, Post, AgentEnds
<1>7. ASSUME NEW p \in Posters, EngineRecords(p) \/ EventLost(p)
      PROVE  rows' = rows /\ subject' = subject
  BY <1>7 DEF EngineRecords, EventLost, clientVars
<1>8. CASE EngineRestarts
  BY <1>8 DEF EngineRestarts, clientVars
<1>9. ASSUME NEW s \in Scrapes, GetAlarms(s) \/ AlarmsArrive(s) \/ MetricsFail(s) \/ CountPlays(s)
      PROVE  rows' = rows /\ subject' = subject
  BY <1>9 DEF GetAlarms, AlarmsArrive, MetricsFail, CountPlays, clientVars
<1>10. CASE UNCHANGED vars
  BY <1>10 DEF vars, clientVars
<1> QED
  BY <1>1, <1>2, <1>3, <1>4, <1>5, <1>6, <1>7, <1>8, <1>9, <1>10 DEF Next

(* Only playing, dying and an outage write pc and rows; where a play is    *)
(* stays in step with its row and its event.                               *)
LEMMA PathKept ==
  ASSUME PlayInv, [Next]_vars
  PROVE  PathInv'
<1> SUFFICES ASSUME NEW q \in Plays
             PROVE  /\ pc'[q] = "insert" => subject'[q][2] \in Titles
                    /\ pc'[q] = "commit" => subject'[q] \in Streams
                    /\ pc'[q] \in {"new", "select", "insert", "commit"} => q \notin rows'
                    /\ pc'[q] = "post" => q \in rows' /\ q \notin underWay'
                    /\ q \in underWay' => q \in rows'
  BY DEF PathInv
<1> USE DEF PlayInv, TypeOK, PathInv, Goto
<1>1. subject'[q] = subject[q] /\ q \in Posters /\ q \notin Agents /\ q \in DOMAIN pc
  BY NothingForgotten, PlaybackAssumption DEF PlaybackAssumption, Posters
<1>2. ASSUME NEW p \in Plays, Request(p) \/ Select(p)
      PROVE  /\ UNCHANGED <<rows, underWay>>
             /\ pc'[q] \in {pc[q]} \cup {"select", "404", "insert"}
             /\ pc'[q] # pc[q] => pc[q] \in {"new", "select"}
             /\ pc'[q] = "insert" => subject[q][2] \in Titles
  BY <1>1, <1>2 DEF Request, Select
<1>3. ASSUME NEW p \in Plays, Insert(p)
      PROVE  /\ UNCHANGED <<rows, underWay>>
             /\ pc'[q] \in {pc[q], "commit", "500"}
             /\ pc'[q] # pc[q] => pc[q] = "insert"
             /\ pc'[q] = "insert" => pc[q] = "insert"
             /\ pc'[q] = "commit" => pc[q] = "commit" \/ subject[q] \in Streams
  <2>1. subject[q] = <<subject[q][1], subject[q][2]>>
    BY PlaybackAssumption DEF PlaybackAssumption
  <2>2. CASE p = q
    <3>1. pc[q] = "insert" /\ pc'[q] = IF subject[q][1] \in Users THEN "commit" ELSE "500"
      BY <1>1, <1>3, <2>2 DEF Insert, ReferencesHold
    <3>2. subject[q][2] \in Titles
      BY <3>1
    <3>3. subject[q][1] \in Users => subject[q] \in Streams
      BY ONLY <2>1, <3>2 DEF Streams
    <3>4. UNCHANGED <<rows, underWay>>
      BY <1>3 DEF Insert
    <3> QED
      BY ONLY <3>1, <3>3, <3>4
  <2>3. CASE p # q
    BY <1>1, <1>3, <2>3 DEF Insert
  <2> QED
    BY <2>2, <2>3
<1>4. ASSUME NEW p \in Plays, Commit(p) \/ Post(p) \/ PostReturns(p) \/ DatabaseFails(p)
      PROVE  /\ pc'[q] \in {pc[q], "post", "wait", "playing", "500"}
             /\ pc'[q] = pc[q] => (q \in rows' <=> q \in rows) /\ (q \in underWay' <=> q \in underWay)
             /\ pc'[q] = "post" => pc[q] = "post" \/ (q \in rows' /\ q \notin underWay')
             /\ q \in underWay' => q \in rows'
  <2>1. CASE Commit(p)
    BY <1>1, <2>1 DEF Commit
  <2>2. CASE Post(p)
    BY <1>1, <2>2 DEF Post
  <2>3. CASE PostReturns(p)
    BY <1>1, <2>3 DEF PostReturns
  <2>4. CASE DatabaseFails(p)
    BY <1>1, <2>4 DEF DatabaseFails, Committing
  <2> QED
    BY <1>4, <2>1, <2>2, <2>3, <2>4
<1>5. CASE CatalogDies
  <2>1. pc'[q] = IF pc[q] \in InProgress THEN "gone" ELSE pc[q]
    BY <1>1, <1>5 DEF CatalogDies
  <2>2. rows \subseteq rows' /\ (q \in rows' => q \in rows \/ pc[q] = "commit") /\ underWay' = underWay
    BY <1>5 DEF CatalogDies, Committing
  <2> QED
    BY <1>1, <2>1, <2>2 DEF InProgress
<1>6. CASE CatalogStarts
  BY <1>1, <1>6 DEF CatalogStarts
<1>7. ASSUME NEW a \in Agents,
             RunChaosCheck(a) \/ SimulateOutage(a) \/ CatalogStops(a) \/ Post(a) \/ AgentEnds(a)
      PROVE  pc'[q] = pc[q] /\ rows' = rows /\ (q \in underWay' <=> q \in underWay)
  BY <1>1, <1>7 DEF RunChaosCheck, SimulateOutage, CatalogStops, Post, AgentEnds
<1>8. CASE \/ \E p \in Posters : EngineRecords(p) \/ EventLost(p)
           \/ EngineRestarts
           \/ \E s \in Scrapes : GetAlarms(s) \/ AlarmsArrive(s) \/ MetricsFail(s) \/ CountPlays(s)
           \/ UNCHANGED vars
  <2>1. UNCHANGED <<pc, rows>> /\ underWay' \subseteq underWay
    BY <1>8 DEF EngineRecords, EventLost, EngineRestarts, GetAlarms, AlarmsArrive, MetricsFail,
                CountPlays, vars, clientVars
  <2> QED
    BY <1>1, <2>1
<1>9. CASE \E p \in Plays : Request(p) \/ Select(p)
  BY <1>1, <1>2, <1>9
<1>10. CASE \E p \in Plays : Insert(p)
  BY <1>1, <1>3, <1>10
<1>11. CASE \E p \in Plays : Commit(p) \/ Post(p) \/ PostReturns(p) \/ DatabaseFails(p)
  BY <1>1, <1>4, <1>11
<1>12. CASE \E a \in Agents :
              RunChaosCheck(a) \/ SimulateOutage(a) \/ CatalogStops(a) \/ Post(a) \/ AgentEnds(a)
  BY <1>1, <1>7, <1>12
<1> QED
  BY <1>5, <1>6, <1>8, <1>9, <1>10, <1>11, <1>12 DEF Next, PlayStep
LEMMA TypesKept ==
  ASSUME PlayInv, [Next]_vars
  PROVE  TypeOK'
<1> USE DEF PlayInv, TypeOK, EngineOK, Goto
<1>1. /\ \A p \in Plays : p \in Posters /\ p \in DOMAIN subject /\ p \notin Agents
      /\ \A a \in Agents : a \in Posters /\ a \in DOMAIN subject /\ a \notin Plays
  BY PlaybackAssumption DEF PlaybackAssumption, Posters
<1>2. \A p \in Plays : subject'[p] \in Wanted
  BY NothingForgotten
<1>3. \A a \in Agents : subject'[a] \in Verdicts
  <2>1. CASE subject' = subject
    BY <2>1
  <2>2. ASSUME NEW b \in Agents, RunChaosCheck(b) \/ SimulateOutage(b)
        PROVE  \A a \in Agents : subject'[a] \in Verdicts
    BY <1>1, <2>2 DEF RunChaosCheck, SimulateOutage, Verdicts
  <2>3. \/ subject' = subject
        \/ \E b \in Agents : RunChaosCheck(b) \/ SimulateOutage(b)
    BY DEF Next, PlayStep, Request, Select, Insert, Commit, Post, PostReturns, DatabaseFails,
           CatalogDies, CatalogStarts, CatalogStops, AgentEnds, EngineRecords, EventLost,
           EngineRestarts, GetAlarms, AlarmsArrive, MetricsFail, CountPlays, vars, clientVars
  <2> QED
    BY <2>1, <2>2, <2>3
<1>4. rows' \subseteq Plays
  BY DEF Next, PlayStep, Request, Select, Insert, Commit, Post, PostReturns, DatabaseFails,
         CatalogDies, CatalogStarts, RunChaosCheck, SimulateOutage, CatalogStops, AgentEnds,
         EngineRecords, EventLost, EngineRestarts, GetAlarms, AlarmsArrive, MetricsFail, CountPlays,
         vars, clientVars, Committing
<1>5. \A p \in rows' : subject'[p] \in Streams
  <2>1. \A p \in rows' : p \in rows \/ pc[p] = "commit"
    BY DEF Next, PlayStep, Request, Select, Insert, Commit, Post, PostReturns, DatabaseFails,
           CatalogDies, CatalogStarts, RunChaosCheck, SimulateOutage, CatalogStops, AgentEnds,
           EngineRecords, EventLost, EngineRestarts, GetAlarms, AlarmsArrive, MetricsFail,
           CountPlays, vars, clientVars, Committing
  <2> QED
    BY <1>4, <2>1, NothingForgotten DEF PathInv
<1>6. underWay' \subseteq Posters
  BY <1>1 DEF Next, PlayStep, Request, Select, Insert, Commit, Post, PostReturns, DatabaseFails,
         CatalogDies, CatalogStarts, RunChaosCheck, SimulateOutage, CatalogStops, AgentEnds,
         EngineRecords, EventLost, EngineRestarts, GetAlarms, AlarmsArrive, MetricsFail, CountPlays,
         vars
<1> DEFINE Place == InProgress \cup {"new", "playing", "404", "500", "gone", "over"}
<1>7. accepting' \in BOOLEAN /\ pc' \in [Posters -> Place]
  <2>1. ASSUME NEW p \in Plays, Request(p) \/ PlayStep(p) \/ DatabaseFails(p)
        PROVE  accepting' = accepting /\ \E place \in Place : pc' = [pc EXCEPT ![p] = place]
    <3> SUFFICES accepting' = accepting
                 /\ \E place \in {"select", "insert", "404", "commit", "500", "post", "wait", "playing"} :
                      pc' = [pc EXCEPT ![p] = place]
      BY DEF InProgress
    <3>1. CASE Request(p)
      BY <3>1 DEF Request
    <3>2. CASE Select(p)
      BY <3>2 DEF Select
    <3>3. CASE Insert(p)
      BY <3>3 DEF Insert
    <3>4. CASE Commit(p) \/ Post(p) \/ PostReturns(p) \/ DatabaseFails(p)
      BY <3>4 DEF Commit, Post, PostReturns, DatabaseFails
    <3> QED
      BY <2>1, <3>1, <3>2, <3>3, <3>4 DEF PlayStep
  <2>2. ASSUME NEW a \in Agents, RunChaosCheck(a) \/ SimulateOutage(a) \/ Post(a) \/ AgentEnds(a)
        PROVE  accepting' = accepting /\ \E place \in Place : pc' = [pc EXCEPT ![a] = place]
    BY <2>2 DEF RunChaosCheck, SimulateOutage, Post, AgentEnds, InProgress
  <2>3. ASSUME NEW p \in Posters, NEW place \in Place, pc' = [pc EXCEPT ![p] = place]
        PROVE  pc' \in [Posters -> Place]
    BY <2>3
  <2>4. CASE CatalogDies
    <3> HIDE DEF Place
    <3>1. "gone" \in Place /\ pc \in [Posters -> Place]
      BY DEF Place
    <3> QED
      BY <2>4, <3>1 DEF CatalogDies
  <2>5. CASE CatalogStarts \/ \E a \in Agents : CatalogStops(a)
    BY <2>5 DEF CatalogStarts, CatalogStops
  <2>6. CASE \/ \E p \in Posters : EngineRecords(p) \/ EventLost(p)
             \/ EngineRestarts
             \/ \E s \in Scrapes : GetAlarms(s) \/ AlarmsArrive(s) \/ MetricsFail(s) \/ CountPlays(s)
             \/ UNCHANGED vars
    BY <2>6 DEF EngineRecords, EventLost, EngineRestarts, GetAlarms, AlarmsArrive, MetricsFail,
                CountPlays, vars, clientVars
  <2> HIDE DEF Place
  <2>7. CASE \/ \E p \in Plays : Request(p) \/ PlayStep(p) \/ DatabaseFails(p)
             \/ \E a \in Agents : RunChaosCheck(a) \/ SimulateOutage(a) \/ Post(a) \/ AgentEnds(a)
    BY <1>1, <2>1, <2>2, <2>3, <2>7
  <2> QED
    BY <2>4, <2>5, <2>6, <2>7 DEF Next
<1> HIDE DEF Place
<1> DEFINE Answers == [alarms : SUBSET Alarms, plays : 0..Cardinality(Plays)]
           ScrapesOK == /\ spc \in [Scrapes -> {"idle", "alarms", "count"}]
                        /\ alarms \in [Scrapes -> SUBSET Alarms]
                        /\ metrics \in [Scrapes -> Answers]
<1>8. ScrapesOK'
  <2>1. ASSUME NEW s \in Scrapes, GetAlarms(s)
        PROVE  ScrapesOK'
    <3>1. NoAnswer \in Answers
      BY FS_CardinalityType, PlaybackAssumption DEF PlaybackAssumption, NoAnswer
    <3> HIDE DEF Answers
    <3>2. metrics \in [Scrapes -> Answers]
      BY DEF Answers
    <3> QED
      BY <2>1, <3>1, <3>2 DEF GetAlarms
  <2>2. ASSUME NEW s \in Scrapes, AlarmsArrive(s) \/ MetricsFail(s)
        PROVE  ScrapesOK'
    <3>1. /\ \E place \in {"count", "idle"} : spc' = [spc EXCEPT ![s] = place]
          /\ \E shown \in SUBSET Alarms : alarms' = [alarms EXCEPT ![s] = shown]
          /\ metrics' = metrics
      BY <2>2 DEF AlarmsArrive, MetricsFail
    <3> QED
      BY <3>1
  <2>3. ASSUME NEW s \in Scrapes, CountPlays(s)
        PROVE  ScrapesOK'
    <3>1. Cardinality(rows) \in 0..Cardinality(Plays)
      <4>1. rows \in SUBSET Plays /\ IsFiniteSet(Plays)
        BY PlaybackAssumption DEF PlaybackAssumption
      <4>2. IsFiniteSet(rows) /\ Cardinality(rows) <= Cardinality(Plays)
        BY <4>1, FS_Subset
      <4>3. Cardinality(rows) \in Nat /\ Cardinality(Plays) \in Nat
        BY <4>1, <4>2, FS_CardinalityType
      <4> QED
        BY <4>2, <4>3
    <3>2. [alarms |-> alarms[s], plays |-> Cardinality(rows)] \in Answers
      BY <3>1
    <3> HIDE DEF Answers
    <3>3. metrics \in [Scrapes -> Answers]
      BY DEF Answers
    <3>4. metrics' \in [Scrapes -> Answers]
      BY <2>3, <3>2, <3>3 DEF CountPlays
    <3> QED
      BY <2>3, <3>4 DEF CountPlays
  <2>4. CASE UNCHANGED scrapeVars
    BY <2>4 DEF scrapeVars
  <2>5. \/ UNCHANGED scrapeVars
        \/ \E s \in Scrapes : GetAlarms(s) \/ AlarmsArrive(s) \/ MetricsFail(s) \/ CountPlays(s)
    BY DEF Next, PlayStep, Request, Select, Insert, Commit, Post, PostReturns, DatabaseFails,
           CatalogDies, CatalogStarts, RunChaosCheck, SimulateOutage, CatalogStops, AgentEnds,
           EngineRecords, EventLost, EngineRestarts, vars
  <2> QED
    BY <2>1, <2>2, <2>3, <2>4, <2>5
<1> QED
  BY <1>2, <1>3, <1>4, <1>5, <1>6, <1>7, <1>8 DEF Place

LEMMA EngineKept ==
  ASSUME PlayInv, [Next]_vars
  PROVE  EngineOK'
<1> USE DEF PlayInv, TypeOK, EngineOK
<1> DEFINE Counts == [Alarms -> Nat]
           EngineTypes == /\ count \in Counts
                          /\ asking \subseteq Scrapes
                          /\ seen \in [Scrapes -> [Alarms -> SUBSET Nat]]
                          /\ report \in [Scrapes -> Counts]
<1>1. DOMAIN subject' = Posters
  BY DEF Next, PlayStep, Request, Select, Insert, Commit, Post, PostReturns, DatabaseFails,
         CatalogDies, CatalogStarts, RunChaosCheck, SimulateOutage, CatalogStops, AgentEnds,
         EngineRecords, EventLost, EngineRestarts, GetAlarms, AlarmsArrive, MetricsFail, CountPlays,
         vars, clientVars
<1>2. ASSUME NEW p \in Posters, EngineRecords(p)
      PROVE  EngineTypes'
  <2> DEFINE k == subject[p]
             n == count[k] + 1
  <2>1. k \in Alarms
    BY <1>2 DEF EngineRecords, PathInv, Posters, Alarms
  <2>2. n \in Nat
    BY <2>1
  <2>3. /\ count' = [count EXCEPT ![k] = n]
        /\ seen' = [q \in Scrapes |->
                      IF q \in asking THEN [seen[q] EXCEPT ![k] = @ \cup {n}] ELSE seen[q]]
        /\ UNCHANGED <<asking, report>>
    BY <1>2 DEF EngineRecords, Engine!Record, Engine!SetCount
  <2> HIDE DEF k, n
  <2>4. seen' \in [Scrapes -> [Alarms -> SUBSET Nat]]
    <3> SUFFICES ASSUME NEW q \in Scrapes PROVE seen'[q] \in [Alarms -> SUBSET Nat]
      BY <2>3
    <3>1. seen[q] \in [Alarms -> SUBSET Nat]
      OBVIOUS
    <3>2. [seen[q] EXCEPT ![k] = seen[q][k] \cup {n}] \in [Alarms -> SUBSET Nat]
      BY <2>1, <2>2, <3>1
    <3> QED
      BY <2>3, <3>1, <3>2
  <2> QED
    BY <2>1, <2>2, <2>3, <2>4
<1>3. ASSUME NEW s \in Scrapes, GetAlarms(s)
      PROVE  EngineTypes'
  <2> DEFINE now == [k \in Alarms |-> {count[k]}]
  <2>1. now \in [Alarms -> SUBSET Nat]
    <3>1. \A k \in Alarms : {count[k]} \in SUBSET Nat
      OBVIOUS
    <3> QED
      BY ONLY <3>1
  <2>2. Engine!NoAlarms \in Counts
    BY DEF Engine!NoAlarms
  <2>3. /\ count' = count /\ asking' = asking \cup {s}
        /\ seen' = [seen EXCEPT ![s] = now]
        /\ report' = [report EXCEPT ![s] = Engine!NoAlarms]
    BY <1>3 DEF GetAlarms, Engine!Ask
  <2>4. report \in [Scrapes -> Counts] /\ seen \in [Scrapes -> [Alarms -> SUBSET Nat]]
    OBVIOUS
  <2> HIDE DEF now, Counts
  <2>5. report' \in [Scrapes -> Counts]
    BY ONLY <2>2, <2>3, <2>4
  <2>6. seen' \in [Scrapes -> [Alarms -> SUBSET Nat]]
    BY ONLY <2>1, <2>3, <2>4
  <2> QED
    BY <2>3, <2>5, <2>6 DEF Counts
<1>4. ASSUME NEW s \in Scrapes, AlarmsArrive(s)
      PROVE  EngineTypes'
  <2>1. PICK f \in Engine!Listings(s) : report' = [report EXCEPT ![s] = f]
    BY <1>4 DEF AlarmsArrive, Engine!Answer
  <2>2. f \in Counts
    BY DEF Engine!Listings
  <2>3. Engine!Nothing \in [Alarms -> SUBSET Nat]
    BY DEF Engine!Nothing
  <2> HIDE DEF Counts
  <2>4. report' \in [Scrapes -> Counts]
    BY <2>1, <2>2 DEF Counts
  <2> QED
    BY <1>4, <2>3, <2>4 DEF AlarmsArrive, Engine!Answer, Counts
<1>5. CASE EngineRestarts
  <2>1. Engine!NoAlarms \in Counts /\ Engine!Nothing \in [Alarms -> SUBSET Nat]
    BY DEF Engine!NoAlarms, Engine!Nothing
  <2> QED
    BY <1>1, <1>5, <2>1 DEF EngineRestarts, Engine!Restart
<1>6. CASE UNCHANGED engineVars
  BY <1>1, <1>6 DEF engineVars
<1>7. \/ UNCHANGED engineVars
      \/ \E p \in Posters : EngineRecords(p)
      \/ EngineRestarts
      \/ \E s \in Scrapes : GetAlarms(s) \/ AlarmsArrive(s)
  BY DEF Next, PlayStep, Request, Select, Insert, Commit, Post, PostReturns, DatabaseFails,
         CatalogDies, CatalogStarts, RunChaosCheck, SimulateOutage, CatalogStops, AgentEnds,
         EventLost, MetricsFail, CountPlays, vars
<1> QED
  BY <1>1, <1>2, <1>3, <1>4, <1>5, <1>6, <1>7

(* A play becomes pending with its row and is counted at most once; all    *)
(* else only takes from what is pending.                                   *)
LEMMA BackingKept ==
  ASSUME PlayInv, [Next]_vars
  PROVE  BackingInv'
<1> USE DEF PlayInv, TypeOK, EngineOK
<1>1. /\ Pending \subseteq rows /\ rows \subseteq Plays /\ rows \subseteq rows' /\ rows' \subseteq Plays
      /\ \A p \in Plays : subject'[p] = subject[p]
      /\ count \in [Alarms -> Nat] /\ count' \in [Alarms -> Nat]
      /\ Backing(count, subject, Pending, rows)
  BY NothingForgotten, TypesKept, EngineKept DEF Pending, PathInv, BackingInv
<1>2. ASSUME Pending' \subseteq Pending,
             \A stream \in Streams : count'[stream] <= count[stream]
      PROVE  BackingInv'
  <2>1. Pending \subseteq Plays
    BY <1>1
  <2>2. Backing(count', subject', Pending', rows')
    BY ONLY <1>1, <1>2, <2>1, BackingMonotone
  <2> QED
    BY <2>2 DEF BackingInv
<1>3. ASSUME count' = count
      PROVE  \A stream \in Streams : count'[stream] <= count[stream]
  <2>1. \A stream \in Streams : count[stream] \in Nat
    BY <1>1 DEF Alarms
  <2> QED
    BY <1>3, <2>1
<1>4. \A p \in Plays : p \in Posters /\ p \notin Agents
  BY PlaybackAssumption DEF PlaybackAssumption, Posters
<1>5. ASSUME NEW p \in Plays, Commit(p)
      PROVE  BackingInv'
  <2>1. p \notin rows /\ rows' = rows \cup {p} /\ UNCHANGED <<count, subject>>
    BY <1>4, <1>5 DEF Commit, PathInv, engineVars
  <2>2. Pending' = Pending \cup {p}
    BY <1>4, <1>5 DEF Commit, Pending, Goto
  <2>3. Backing(count, subject, Pending \cup {p}, rows \cup {p})
    BY <1>1, <2>1, BackingAdds
  <2> QED
    BY ONLY <2>1, <2>2, <2>3 DEF BackingInv
<1>6. ASSUME NEW p \in Plays, EngineRecords(p)
      PROVE  BackingInv'
  <2>1. /\ p \in underWay /\ underWay' = underWay \ {p} /\ UNCHANGED <<pc, subject, rows>>
        /\ count' = [count EXCEPT ![subject[p]] = count[subject[p]] + 1]
    BY <1>6 DEF EngineRecords, Engine!Record, Engine!SetCount, clientVars
  <2>2. p \in Pending /\ Pending' = Pending \ {p}
    BY <2>1 DEF Pending, PathInv
  <2>3. Backing([count EXCEPT ![subject[p]] = count[subject[p]] + 1], subject, Pending \ {p}, rows)
    <3>1. Pending \subseteq Plays
      BY <1>1
    <3> QED
      BY <1>1, <2>2, <3>1, BackingCounts
  <2> QED
    BY ONLY <2>1, <2>2, <2>3 DEF BackingInv
<1>7. ASSUME NEW a \in Agents, EngineRecords(a)
      PROVE  BackingInv'
  <2>1. /\ underWay' \subseteq underWay /\ UNCHANGED pc
        /\ count' = [count EXCEPT ![subject[a]] = count[subject[a]] + 1]
    BY <1>7 DEF EngineRecords, Engine!Record, Engine!SetCount, clientVars
  <2>2. \A stream \in Streams : stream # subject[a] /\ stream \in Alarms
    BY PlaybackAssumption DEF PlaybackAssumption, Alarms
  <2>3. \A stream \in Streams : count'[stream] = count[stream] /\ count[stream] \in Nat
    BY <1>1, <2>1, <2>2
  <2>4. \A stream \in Streams : count'[stream] <= count[stream]
    BY <2>3
  <2>5. Pending' \subseteq Pending
    BY <2>1 DEF Pending
  <2> QED
    BY <1>2, <2>4, <2>5
<1>8. CASE EngineRestarts
  <2>1. \A stream \in Streams : count'[stream] = 0 /\ count[stream] \in Nat
    BY <1>1, <1>8 DEF EngineRestarts, Engine!Restart, Engine!NoAlarms, Alarms
  <2>2. \A stream \in Streams : count'[stream] <= count[stream]
    BY <2>1
  <2>3. Pending' \subseteq Pending
    BY <1>8 DEF Pending, EngineRestarts, clientVars
  <2> QED
    BY <1>2, <2>2, <2>3
<1>9. ASSUME NEW p \in Plays,
             Request(p) \/ Select(p) \/ Insert(p) \/ Post(p) \/ PostReturns(p) \/ DatabaseFails(p)
      PROVE  count' = count /\ Pending' \subseteq Pending
  <2>1. count' = count
    BY <1>9 DEF Request, Select, Insert, Post, PostReturns, DatabaseFails, engineVars
  <2>2. ASSUME NEW q \in Pending' PROVE q \in Pending
    BY <1>4, <1>9, <2>2
       DEF Pending, Goto, Request, Select, Insert, Post, PostReturns, DatabaseFails
  <2> QED
    BY <2>1, <2>2
<1>10. ASSUME NEW a \in Agents,
              RunChaosCheck(a) \/ SimulateOutage(a) \/ CatalogStops(a) \/ Post(a) \/ AgentEnds(a)
       PROVE  count' = count /\ Pending' \subseteq Pending
  <2>1. count' = count
    BY <1>10 DEF RunChaosCheck, SimulateOutage, CatalogStops, Post, AgentEnds, engineVars
  <2>2. ASSUME NEW q \in Pending' PROVE q \in Pending
    BY <1>4, <1>10, <2>2
       DEF Pending, Goto, RunChaosCheck, SimulateOutage, CatalogStops, Post, AgentEnds
  <2> QED
    BY <2>1, <2>2
<1>11. ASSUME CatalogDies \/ CatalogStarts
       PROVE  count' = count /\ Pending' \subseteq Pending
  <2>1. count' = count
    BY <1>11 DEF CatalogDies, CatalogStarts, engineVars
  <2>2. ASSUME NEW q \in Pending' PROVE q \in Pending
    BY <1>4, <1>11, <2>2 DEF Pending, CatalogDies, CatalogStarts
  <2> QED
    BY <2>1, <2>2
<1>12. ASSUME \/ \E p \in Posters : EventLost(p)
              \/ \E s \in Scrapes : GetAlarms(s) \/ AlarmsArrive(s) \/ MetricsFail(s) \/ CountPlays(s)
              \/ UNCHANGED vars
       PROVE  count' = count /\ Pending' \subseteq Pending
  <2>1. count' = count /\ pc' = pc /\ underWay' \subseteq underWay
    BY <1>12 DEF EventLost, GetAlarms, AlarmsArrive, MetricsFail, CountPlays, Engine!Ask,
                 Engine!Answer, vars, clientVars, engineVars
  <2> QED
    BY <2>1 DEF Pending
<1>13. \/ \E p \in Plays : Commit(p) \/ EngineRecords(p)
       \/ \E a \in Agents : EngineRecords(a)
       \/ EngineRestarts
       \/ count' = count /\ Pending' \subseteq Pending
  BY <1>9, <1>10, <1>11, <1>12 DEF Next, PlayStep, Posters
<1> QED
  BY <1>2, <1>3, <1>5, <1>6, <1>7, <1>8, <1>13

(* A value of an alarm is shown only after its row is there, and rows      *)
(* stay.                                                                   *)
LEMMA SeenKept ==
  ASSUME PlayInv, [Next]_vars
  PROVE  SeenInv'
<1> USE DEF PlayInv, TypeOK, EngineOK, SeenInv
<1>1. Backed \subseteq Backed'
  BY NothingForgotten DEF Backed
<1>2. \A k \in Streams : k \in Alarms
  BY DEF Alarms
<1>3. ASSUME NEW s \in Scrapes, NEW k \in Streams, NEW n \in seen'[s][k], n > 0
      PROVE  k \in Backed'
  <2>1. CASE n \in seen[s][k]
    BY <1>1, <1>3, <2>1
  <2>2. ASSUME NEW p \in Posters, EngineRecords(p), k = subject[p]
        PROVE  k \in Backed'
    <3>1. p \in rows
      BY <2>2, PlaybackAssumption DEF PlaybackAssumption, EngineRecords, PathInv, Posters
    <3> QED
      BY <1>1, <2>2, <3>1 DEF Backed
  <2>3. ASSUME GetAlarms(s), n = count[k]
        PROVE  k \in Backed'
    <3>1. /\ count \in [Alarms -> Nat] /\ Pending \subseteq Plays /\ rows \subseteq Plays
          /\ Backing(count, subject, Pending, rows)
      BY DEF BackingInv, Pending
    <3>2. count[k] > 0
      BY <1>3, <2>3
    <3>3. \E p \in rows : subject[p] = k
      BY ONLY <3>1, <3>2, <1>3, CountedIsStored
    <3> QED
      BY <1>1, <3>3 DEF Backed
  <2>4. ASSUME n \notin seen[s][k]
        PROVE  \/ \E p \in Posters : EngineRecords(p) /\ k = subject[p]
               \/ GetAlarms(s) /\ n = count[k]
    <3>1. CASE \E p \in Posters : EngineRecords(p)
      <4>1. PICK p \in Posters : EngineRecords(p)
        BY <3>1
      <4> DEFINE key == subject[p]
                 new == count[key] + 1
      <4>2. seen' = [q \in Scrapes |->
                       IF q \in asking THEN [seen[q] EXCEPT ![key] = @ \cup {new}] ELSE seen[q]]
        BY <4>1 DEF EngineRecords, Engine!Record, Engine!SetCount
      <4> HIDE DEF key, new
      <4>3. k \in DOMAIN seen[s]
        BY <1>2
      <4>4. k # key => seen'[s][k] = seen[s][k]
        BY <4>2, <4>3
      <4> QED
        BY <1>3, <2>4, <4>1, <4>4 DEF key
    <3>2. CASE \E q \in Scrapes : GetAlarms(q)
      <4>1. PICK q \in Scrapes : GetAlarms(q)
        BY <3>2
      <4>2. seen' = [seen EXCEPT ![q] = [j \in Alarms |-> {count[j]}]]
        BY <4>1 DEF GetAlarms, Engine!Ask
      <4>3. CASE q = s
        BY <1>2, <1>3, <4>1, <4>2, <4>3
      <4>4. CASE q # s
        BY <1>3, <2>4, <4>2, <4>4
      <4> QED
        BY <4>3, <4>4
    <3>3. CASE \E q \in Scrapes : AlarmsArrive(q)
      BY <1>2, <1>3, <2>4, <3>3 DEF AlarmsArrive, Engine!Answer, Engine!Nothing
    <3>4. CASE EngineRestarts
      BY <1>2, <1>3, <3>4 DEF EngineRestarts, Engine!Restart, Engine!Nothing
    <3>5. CASE seen' = seen
      BY <1>3, <2>4, <3>5
    <3>6. \/ seen' = seen
          \/ \E p \in Posters : EngineRecords(p)
          \/ EngineRestarts
          \/ \E q \in Scrapes : GetAlarms(q) \/ AlarmsArrive(q)
      BY DEF Next, PlayStep, Request, Select, Insert, Commit, Post, PostReturns, DatabaseFails,
             CatalogDies, CatalogStarts, RunChaosCheck, SimulateOutage, CatalogStops, AgentEnds,
             EventLost, MetricsFail, CountPlays, vars, engineVars
    <3> QED
      BY <3>1, <3>2, <3>3, <3>4, <3>5, <3>6
  <2> QED
    BY <2>1, <2>2, <2>3, <2>4
<1>4. ASSUME NEW s \in Scrapes
      PROVE  alarms'[s] \cap Streams \subseteq Backed'
  <2>1. ASSUME NEW k \in alarms'[s] \cap Streams, k \notin alarms[s]
        PROVE  k \in Backed
    <3>1. AlarmsArrive(s) /\ report'[s][k] > 0
      <4>1. PICK q \in Scrapes : AlarmsArrive(q) \/ MetricsFail(q) \/ CountPlays(q)
        BY <2>1 DEF Next, PlayStep, Request, Select, Insert, Commit, Post, PostReturns,
                    DatabaseFails, CatalogDies, CatalogStarts, RunChaosCheck, SimulateOutage,
                    CatalogStops, AgentEnds, EngineRecords, EventLost, EngineRestarts, GetAlarms,
                    vars, scrapeVars
      <4>2. CASE AlarmsArrive(q)
        BY <2>1, <4>2 DEF AlarmsArrive
      <4>3. CASE MetricsFail(q) \/ CountPlays(q)
        BY <2>1, <4>3 DEF MetricsFail, CountPlays
      <4> QED
        BY <4>1, <4>2, <4>3
    <3>2. PICK f \in Engine!Listings(s) : report' = [report EXCEPT ![s] = f]
      BY <3>1 DEF AlarmsArrive, Engine!Answer
    <3>3. report'[s][k] = f[k] /\ f[k] \in seen[s][k]
      BY <1>2, <2>1, <3>2 DEF Engine!Listings
    <3> QED
      BY <2>1, <3>1, <3>3
  <2> QED
    BY <1>1, <2>1
<1> QED
  BY <1>3, <1>4

(* Rows stay, so the number counted last is not below the streams shown.   *)
LEMMA MetricsKept ==
  ASSUME PlayInv, [Next]_vars
  PROVE  MetricsConsistent'
<1> USE DEF PlayInv, TypeOK
<1> SUFFICES ASSUME NEW s \in Scrapes
             PROVE  Cardinality(metrics'[s].alarms \cap Streams) <= metrics'[s].plays
  BY DEF MetricsConsistent
<1>1. CASE metrics'[s] = metrics[s]
  <2>1. Cardinality(metrics[s].alarms \cap Streams) <= metrics[s].plays
    BY DEF MetricsConsistent
  <2> QED
    BY ONLY <1>1, <2>1, Zenon
<1>2. CASE GetAlarms(s)
  <2>1. metrics'[s].alarms \cap Streams = {} /\ metrics'[s].plays = 0
    BY <1>2 DEF GetAlarms, NoAnswer
  <2>2. Cardinality(metrics'[s].alarms \cap Streams) = 0
    BY ONLY <2>1, FS_EmptySet, Zenon
  <2> QED
    BY ONLY <2>1, <2>2
<1>3. CASE CountPlays(s)
  <2>1. metrics'[s].alarms = alarms[s] /\ metrics'[s].plays = Cardinality(rows)
    BY <1>3 DEF CountPlays
  <2>2. alarms[s] \cap Streams \subseteq {subject[p] : p \in rows}
    BY DEF SeenInv, Backed
  <2>3. Cardinality(alarms[s] \cap Streams) <= Cardinality(rows)
    BY <2>2, StreamsNoMoreThanPlays
  <2> QED
    BY ONLY <2>1, <2>3, Zenon
<1>4. metrics'[s] = metrics[s] \/ GetAlarms(s) \/ CountPlays(s)
  <2>1. metrics' = metrics \/ \E q \in Scrapes : GetAlarms(q) \/ CountPlays(q)
    BY DEF Next, PlayStep, Request, Select, Insert, Commit, Post, PostReturns, DatabaseFails,
           CatalogDies, CatalogStarts, RunChaosCheck, SimulateOutage, CatalogStops, AgentEnds,
           EngineRecords, EventLost, EngineRestarts, AlarmsArrive, MetricsFail, vars, scrapeVars
  <2> QED
    BY <2>1 DEF GetAlarms, CountPlays
<1> QED
  BY <1>1, <1>2, <1>3, <1>4

LEMMA PlayInvAlways == Spec => []PlayInv
<1>1. PlayInv /\ [Next]_vars => PlayInv'
  BY TypesKept, EngineKept, PathKept, BackingKept, SeenKept, MetricsKept DEF PlayInv
<1> QED
  BY <1>1, PlayInvInit, PTL DEF Spec

-----------------------------------------------------------------------------
(* The theorems.                                                           *)

(* Every variable of the monitored path stays in its range, and a row      *)
(* refers to a user and a title that exist, whoever dies or times out.     *)
THEOREM PlaybackTypes == Spec => []TypeOK
<1>1. PlayInv => TypeOK
  BY DEF PlayInv
<1> QED
  BY <1>1, PlayInvAlways, PTL

(* core-engine's alarms never count more plays of a stream than            *)
(* watch_history has rows of it, even once every event still under way has *)
(* been recorded.                                                          *)
THEOREM NoPlayCountsTwice == Spec => []CountsBacked
<1>1. PlayInv => CountsBacked
  <2> SUFFICES ASSUME PlayInv, NEW stream \in Streams
               PROVE  count[stream] + Cardinality({p \in underWay \cap Plays : subject[p] = stream})
                        <= Cardinality({p \in rows \cap Plays : subject[p] = stream})
    BY DEF CountsBacked
  <2>1. /\ count \in [Alarms -> Nat] /\ rows \subseteq Plays
        /\ Backing(count, subject, Pending, rows)
    BY DEF PlayInv, EngineOK, BackingInv, TypeOK
  <2>2. /\ Pending \subseteq Plays /\ underWay \cap Plays \subseteq Pending
        /\ rows \subseteq rows \cap Plays /\ rows \cap Plays \subseteq Plays
    BY <2>1 DEF Pending
  <2>3. \A k \in Streams : count[k] <= count[k]
    BY <2>1 DEF Alarms
  <2>4. Backing(count, subject, underWay \cap Plays, rows \cap Plays)
    BY ONLY <2>1, <2>2, <2>3, BackingMonotone
  <2> QED
    BY <2>4 DEF Backing, OfStream
<1> QED
  BY <1>1, PlayInvAlways, PTL

(* GET /metrics never answers with more streams under a playback alarm     *)
(* than plays, although it asks two services one after the other while     *)
(* plays go on and core-engine restarts.                                   *)
THEOREM MetricsAreConsistent == Spec => []MetricsConsistent
<1>1. PlayInv => MetricsConsistent
  BY DEF PlayInv
<1> QED
  BY <1>1, PlayInvAlways, PTL
=============================================================================
