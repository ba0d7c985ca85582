------------------------------ MODULE Playback ------------------------------
(***************************************************************************)
(* The monitored path of StreamFlix: catalog-api stores a play and posts   *)
(* an event about it, chaos-agent checks or stops catalog-api and posts an *)
(* event about that, core-engine (AlarmSpec) turns events into alarms, and *)
(* northbound sets the alarms beside the number of plays.                  *)
(*                                                                         *)
(* Posting an event is best effort: the client waits two seconds for an    *)
(* answer it does not look at, and the event may be recorded before that,  *)
(* after that or never.                                                    *)
(***************************************************************************)
EXTENDS Naturals, FiniteSets

CONSTANTS
  Plays,             \* POST /play requests
  Agents,            \* runs of chaos-agent
  Scrapes,           \* clients of GET /metrics, each with one request at a time
  Wanted,            \* users and titles, in pairs, that clients ask for
  Users, Titles,     \* what the database has
  healthcheckPassed, healthcheckFailed, inducedFailure  \* what chaos-agent reports

Streams == Users \X Titles
Verdicts == {healthcheckPassed, healthcheckFailed, inducedFailure}

ASSUME PlaybackAssumption ==
  /\ IsFiniteSet(Plays)
  /\ Plays \cap Agents = {}
  /\ \A wanted \in Wanted : wanted = <<wanted[1], wanted[2]>>
  /\ Streams \cap Verdicts = {}

Posters == Plays \cup Agents
Alarms == Streams \cup Verdicts
NoAnswer == [alarms |-> {}, plays |-> 0]

VARIABLES
  accepting,  \* catalog-api takes new requests
  pc,         \* pc[p]: where p is, or what it was answered
  subject,    \* subject[p]: user and title of a play, verdict of an agent
  rows,       \* watch_history: the plays whose row is committed
  underWay,   \* posters whose event core-engine may yet record
  spc,        \* spc[s]: where the GET /metrics of s is
  alarms,     \* alarms[s]: the listing it holds while it counts the plays
  metrics,    \* metrics[s]: what the last request of s was answered
  count, asking, seen, report   \* core-engine

clientVars == <<accepting, pc, subject, rows>>
scrapeVars == <<spc, alarms, metrics>>
engineVars == <<count, asking, seen, report>>
vars == <<clientVars, underWay, scrapeVars, engineVars>>

(* Every event is an alarm of its own kind and stream. *)
Engine == INSTANCE AlarmSpec WITH Keys <- Alarms, Readers <- Scrapes

InProgress == {"select", "insert", "commit", "post", "wait"}

(* Every variable stays in its range, and watch_history's references hold. *)
TypeOK ==
  /\ accepting \in BOOLEAN
  /\ pc \in [Posters -> InProgress \cup {"new", "playing", "404", "500", "gone", "over"}]
  /\ \A p \in Plays : subject[p] \in Wanted
  /\ \A a \in Agents : subject[a] \in Verdicts
  /\ rows \subseteq Plays /\ \A p \in rows : subject[p] \in Streams
  /\ underWay \subseteq Posters
  /\ spc \in [Scrapes -> {"idle", "alarms", "count"}]
  /\ alarms \in [Scrapes -> SUBSET Alarms]
  /\ metrics \in [Scrapes -> [alarms : SUBSET Alarms, plays : 0..Cardinality(Plays)]]

Init ==
  /\ accepting = TRUE
  /\ pc = [p \in Posters |-> "new"]
  /\ \E wanted \in [Plays -> Wanted] :
       subject = [p \in Posters |-> IF p \in Plays THEN wanted[p] ELSE healthcheckPassed]
  /\ rows = {}
  /\ underWay = {}
  /\ spc = [s \in Scrapes |-> "idle"]
  /\ alarms = [s \in Scrapes |-> {}]
  /\ metrics = [s \in Scrapes |-> NoAnswer]
  /\ Engine!Init

Goto(p, place) == pc' = [pc EXCEPT ![p] = place]

-----------------------------------------------------------------------------
(* catalog-api: play_title.                                                *)

Request(p) ==
  /\ pc[p] = "new"
  /\ accepting
  /\ Goto(p, "select")
  /\ UNCHANGED <<accepting, subject, rows, underWay, scrapeVars, engineVars>>

Select(p) ==
  /\ pc[p] = "select"
  /\ Goto(p, IF subject[p][2] \in Titles THEN "insert" ELSE "404")
  /\ UNCHANGED <<accepting, subject, rows, underWay, scrapeVars, engineVars>>

(* A fault against TypeOK: watch_history references nothing. *)
ReferencesHold_Never(p) == TRUE

ReferencesHold(p) == subject[p][1] \in Users

(* A fault against MetricsConsistent: the event goes out before the row.   *)
Insert_PostFirst(p) ==
  /\ pc[p] = "insert"
  /\ Goto(p, "commit")
  /\ underWay' = underWay \cup {p}
  /\ UNCHANGED <<accepting, subject, rows, scrapeVars, engineVars>>

Insert(p) ==
  /\ pc[p] = "insert"
  /\ Goto(p, IF ReferencesHold(p) THEN "commit" ELSE "500")
  /\ UNCHANGED <<accepting, subject, rows, underWay, scrapeVars, engineVars>>

Commit(p) ==
  /\ pc[p] = "commit"
  /\ Goto(p, "post")
  /\ rows' = rows \cup {p}
  /\ UNCHANGED <<accepting, subject, underWay, scrapeVars, engineVars>>

Committing == {p \in Plays : pc[p] = "commit"}

(* Any exception of the database ends the request; one that hits the       *)
(* commit leaves open whether it took place.                               *)
DatabaseFails(p) ==
  /\ pc[p] \in {"select", "insert", "commit"}
  /\ Goto(p, "500")
  /\ rows' \in {rows} \cup {rows \cup {q} : q \in Committing \cap {p}}
  /\ UNCHANGED <<accepting, subject, underWay, scrapeVars, engineVars>>

(* requests.post, in catalog-api and in chaos-agent. *)
Post(p) ==
  /\ pc[p] = "post"
  /\ Goto(p, "wait")
  /\ underWay' = underWay \cup {p}
  /\ UNCHANGED <<accepting, subject, rows, scrapeVars, engineVars>>

(* A fault against PlaybackAnswered: no timeout. *)
PostEnds_NoTimeout(p) == p \notin underWay

PostEnds(p) ==
  \/ p \notin underWay  \* an answer, or a connection that broke
  \/ p \in underWay     \* the two seconds are over

(* A fault against CountsBacked: a post without answer is tried again.     *)
PostReturns_Retry(p) ==
  /\ p \in Plays
  /\ pc[p] = "wait"
  /\ Goto(p, IF p \in underWay THEN "post" ELSE "playing")
  /\ UNCHANGED <<accepting, subject, rows, underWay, scrapeVars, engineVars>>

PostReturns(p) ==
  /\ p \in Plays
  /\ pc[p] = "wait"
  /\ PostEnds(p)
  /\ Goto(p, "playing")
  /\ UNCHANGED <<accepting, subject, rows, underWay, scrapeVars, engineVars>>

(* The process dies; a commit it was waiting for may have taken place.     *)
CatalogDies ==
  /\ accepting' = FALSE
  /\ pc' = [p \in Posters |-> IF p \in Plays /\ pc[p] \in InProgress THEN "gone" ELSE pc[p]]
  /\ \E done \in SUBSET Committing : rows' = rows \cup done
  /\ UNCHANGED <<subject, underWay, scrapeVars, engineVars>>

CatalogStarts ==
  /\ ~accepting
  /\ accepting' = TRUE
  /\ UNCHANGED <<pc, subject, rows, underWay, scrapeVars, engineVars>>

-----------------------------------------------------------------------------
(* chaos-agent, which runs once and ends.                                  *)

(* The check may time out on a healthy catalog-api, and what it found is   *)
(* reported later.                                                         *)
RunChaosCheck(a) ==
  /\ pc[a] = "new"
  /\ Goto(a, "post")
  /\ \/ accepting /\ subject' = [subject EXCEPT ![a] = healthcheckPassed]
     \/ subject' = [subject EXCEPT ![a] = healthcheckFailed]
  /\ UNCHANGED <<accepting, rows, underWay, scrapeVars, engineVars>>

(* exec_command does not wait for the command.  Where no SSH server        *)
(* listens the agent ends without a report.                                *)
SimulateOutage(a) ==
  /\ pc[a] = "new"
  /\ \/ Goto(a, "post") /\ subject' = [subject EXCEPT ![a] = inducedFailure]
     \/ Goto(a, "over") /\ UNCHANGED subject
  /\ UNCHANGED <<accepting, rows, underWay, scrapeVars, engineVars>>

(* pkill's SIGTERM, any time after that or never: uvicorn refuses new      *)
(* requests and finishes those it has.                                     *)
CatalogStops(a) ==
  /\ accepting
  /\ subject[a] = inducedFailure
  /\ accepting' = FALSE
  /\ UNCHANGED <<pc, subject, rows, underWay, scrapeVars, engineVars>>

(* report_event returned, or its exception ended the process. *)
AgentEnds(a) ==
  /\ pc[a] = "wait"
  /\ PostEnds(a)
  /\ Goto(a, "over")
  /\ UNCHANGED <<accepting, subject, rows, underWay, scrapeVars, engineVars>>

-----------------------------------------------------------------------------
(* core-engine and the network before it.                                  *)

EngineRecords(p) ==
  /\ p \in underWay
  /\ underWay' = underWay \ {p}
  /\ Engine!Record(subject[p])
  /\ UNCHANGED <<clientVars, scrapeVars>>

EventLost(p) ==
  /\ p \in underWay
  /\ underWay' = underWay \ {p}
  /\ UNCHANGED <<clientVars, scrapeVars, engineVars>>

(* Requests not yet answered break, the alarms are gone. *)
EngineRestarts ==
  /\ Engine!Restart
  /\ underWay' = {}
  /\ UNCHANGED <<clientVars, scrapeVars>>

-----------------------------------------------------------------------------
(* northbound: metrics.                                                    *)

GetAlarms(s) ==
  /\ spc[s] = "idle"
  /\ spc' = [spc EXCEPT ![s] = "alarms"]
  /\ metrics' = [metrics EXCEPT ![s] = NoAnswer]
  /\ Engine!Ask(s)
  /\ UNCHANGED <<clientVars, underWay, alarms>>

AlarmsArrive(s) ==
  /\ spc[s] = "alarms"
  /\ spc' = [spc EXCEPT ![s] = "count"]
  /\ Engine!Answer(s)
  /\ alarms' = [alarms EXCEPT ![s] = {k \in Alarms : report'[s][k] > 0}]
  /\ UNCHANGED <<clientVars, underWay, metrics>>

(* Three seconds without the alarms, or any other exception: no answer.    *)
MetricsFail(s) ==
  /\ spc[s] # "idle"
  /\ spc' = [spc EXCEPT ![s] = "idle"]
  /\ alarms' = [alarms EXCEPT ![s] = {}]
  /\ UNCHANGED <<clientVars, underWay, metrics, engineVars>>

CountPlays(s) ==
  /\ spc[s] = "count"
  /\ spc' = [spc EXCEPT ![s] = "idle"]
  /\ metrics' = [metrics EXCEPT ![s] = [alarms |-> alarms[s], plays |-> Cardinality(rows)]]
  /\ alarms' = [alarms EXCEPT ![s] = {}]
  /\ UNCHANGED <<clientVars, underWay, engineVars>>

-----------------------------------------------------------------------------
PlayStep(p) ==
  p \in Plays /\ (Select(p) \/ Insert(p) \/ Commit(p) \/ Post(p) \/ PostReturns(p))

Next ==
  \/ \E p \in Plays : Request(p) \/ PlayStep(p) \/ DatabaseFails(p)
  \/ CatalogDies \/ CatalogStarts
  \/ \E a \in Agents :
       RunChaosCheck(a) \/ SimulateOutage(a) \/ CatalogStops(a) \/ Post(a) \/ AgentEnds(a)
  \/ \E p \in Posters : EngineRecords(p) \/ EventLost(p)
  \/ EngineRestarts
  \/ \E s \in Scrapes : GetAlarms(s) \/ AlarmsArrive(s) \/ MetricsFail(s) \/ CountPlays(s)

(* catalog-api's threads run and the database answers; core-engine owes    *)
(* nothing.                                                                *)
Spec == Init /\ [][Next]_vars /\ \A p \in Plays : WF_vars(PlayStep(p))

-----------------------------------------------------------------------------
(* Properties.                                                             *)

(* An alarm counts no play twice and none that is not stored: with every   *)
(* event still under way recorded, the occurrences of a stream's alarm are *)
(* no more than its rows, whatever times out, dies or restarts.            *)
CountsBacked ==
  \A stream \in Streams :
    LET Of(posters) == {p \in posters \cap Plays : subject[p] = stream}
    IN  count[stream] + Cardinality(Of(underWay)) <= Cardinality(Of(rows))

(* northbound never lists more streams with a playback alarm than plays:   *)
(* it asks for the alarms first and counts the plays after that, and every *)
(* alarm's play is committed before its event goes out.  /metrics prints   *)
(* the length of the list only, in which the chaos stream's alarm counts   *)
(* as well; this is about the listing behind that number.                  *)
MetricsConsistent ==
  \A s \in Scrapes : Cardinality(metrics[s].alarms \cap Streams) <= metrics[s].plays

(* "a monitoring hiccup shouldn't block playback itself" (catalog-api's    *)
(* main.py:59): a play that is taken is answered, or catalog-api dies, be  *)
(* core-engine slow, dead or restarting.  The timeout of requests is one   *)
(* for connecting and one for each read, not one for the whole post:       *)
(* core-engine is taken not to send its few bytes one at a time.           *)
PlaybackAnswered ==
  \A p \in Plays : pc[p] \in InProgress ~> pc[p] \notin InProgress
=============================================================================
