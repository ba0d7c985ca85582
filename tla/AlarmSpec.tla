----------------------------- MODULE AlarmSpec -----------------------------
(***************************************************************************)
(* What core-engine promises those who post events and list alarms, with   *)
(* no word on threads, map bins or live objects: every event under a key   *)
(* counts once, and a listing shows for each key a count the key had while *)
(* the listing was being made.  It is no snapshot: entries may stem from   *)
(* different moments.  A restart forgets everything.                       *)
(*                                                                         *)
(* AlarmStore implements this specification; Playback builds on it.        *)
(***************************************************************************)
EXTENDS Naturals

CONSTANTS
  Keys,     \* reduction keys
  Readers   \* those who list alarms

VARIABLES
  count,    \* count[k]: occurrences of the alarm in force under k, 0 if none
  asking,   \* readers that wait for their listing
  seen,     \* seen[q][k]: values of count[k] since q asked, if it is waiting
  report    \* report[q]: the listing q was given, 0 for keys it lacks

vars == <<count, asking, seen, report>>

NoAlarms == [k \in Keys |-> 0]
Nothing == [k \in Keys |-> {}]

Init ==
  /\ count = NoAlarms
  /\ asking = {}
  /\ seen = [q \in Readers |-> Nothing]
  /\ report = [q \in Readers |-> NoAlarms]

SetCount(k, n) ==
  /\ count' = [count EXCEPT ![k] = n]
  /\ seen' = [q \in Readers |->
                IF q \in asking THEN [seen[q] EXCEPT ![k] = @ \cup {n}] ELSE seen[q]]
  /\ UNCHANGED <<asking, report>>

Record(k) == SetCount(k, count[k] + 1)

Clear(k) ==
  /\ count[k] > 0
  /\ SetCount(k, 0)

Ask(q) ==
  /\ asking' = asking \cup {q}
  /\ seen' = [seen EXCEPT ![q] = [k \in Keys |-> {count[k]}]]
  /\ report' = [report EXCEPT ![q] = NoAlarms]
  /\ UNCHANGED count

Listings(q) ==
  {f \in [Keys -> UNION {seen[q][k] : k \in Keys}] : \A k \in Keys : f[k] \in seen[q][k]}

Answer(q) ==
  /\ q \in asking
  /\ asking' = asking \ {q}
  /\ \E f \in Listings(q) : report' = [report EXCEPT ![q] = f]
  /\ seen' = [seen EXCEPT ![q] = Nothing]
  /\ UNCHANGED count

Restart ==
  /\ count' = NoAlarms
  /\ asking' = {}
  /\ seen' = [q \in Readers |-> Nothing]
  /\ report' = [q \in Readers |-> NoAlarms]

Next ==
  \/ \E k \in Keys : Record(k) \/ Clear(k)
  \/ \E q \in Readers : Ask(q) \/ Answer(q)
  \/ Restart

Spec == Init /\ [][Next]_vars
=============================================================================
