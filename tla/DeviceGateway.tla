--------------------------- MODULE DeviceGateway ---------------------------
(***************************************************************************)
(* The device-gateway process (streamflix-stack/device-gateway): one       *)
(* goroutine per simulated device, a buffered channel, a fixed pool of     *)
(* workers that record every event in the registry and publish it to the   *)
(* Redis broker, the closer goroutine, the HTTP status server, and main's  *)
(* graceful shutdown.                                                      *)
(*                                                                         *)
(* Every action is a stretch of code between two points where another      *)
(* goroutine, the broker or the operating system can get in between.       *)
(* Touch and Snapshot are single steps here; module Registry opens them    *)
(* up and shows that the RWMutex justifies it.                             *)
(***************************************************************************)
EXTENDS Naturals, Sequences, FiniteSets

CONSTANTS
  Devices,    \* device goroutines, NUM_DEVICES of them (12)
  Workers,    \* worker goroutines, NUM_WORKERS of them (4); may be empty
  Requests,   \* HTTP requests that can be in flight at the same time
  Capacity,   \* buffer size of the events channel (100)
  MaxTicks,   \* bound: how often each device's ticker fires
  NoEvent     \* what a worker without an event holds

Event == [device : Devices, at : 1..MaxTicks]

ASSUME GatewayAssumption ==
  /\ IsFiniteSet(Devices)
  /\ Capacity \in Nat \ {0}
  /\ MaxTicks \in Nat
  /\ NoEvent \notin Event

VARIABLES
  ctxDone,    \* SIGINT/SIGTERM has cancelled the context
  proc,       \* where main() is, or how the process ended
  http,       \* the goroutine that runs ListenAndServe
  inflight,   \* requests whose handler has not returned
  forced,     \* server.Shutdown gave up after its 5 seconds
  ticks,      \* ticks[d]: firings of d's ticker so far; also its clock
  tickC,      \* tickC[d]: the tick waiting in ticker.C (capacity 1), 0 if none
  dpc,        \* dpc[d]: which select of simulateDevice d is in
  pending,    \* pending[d]: timestamp of the event d is trying to send, or 0
  events,     \* contents of the events channel
  closed,     \* the events channel is closed
  accepted,   \* history: events that were sent into the channel
  wpc,        \* wpc[w]: where worker w is
  held,       \* held[w]: the event w is working on
  conn,       \* conn[w]: w's connection to the broker
  acked,      \* history: events whose publish returned nil
  failed,     \* history: events whose publish was logged as failed
  lastSeen,   \* registry: LastSeen of each device, 0 before the first Touch
  count,      \* registry: EventCount of each device
  published   \* broker: events it has handed to the device-events subscribers

mainVars == <<ctxDone, proc, forced>>
httpVars == <<http, inflight>>
devVars  == <<ticks, tickC, dpc, pending>>
chanVars == <<events, closed, accepted>>
workVars == <<wpc, held, conn, acked, failed>>
regVars  == <<lastSeen, count>>

vars == <<mainVars, httpVars, devVars, chanVars, workVars, regVars, published>>

Alive == proc \in {"running", "shutting", "draining"}

MainTypeOK ==
  /\ ctxDone \in BOOLEAN
  /\ proc \in {"running", "shutting", "draining", "stopped", "fatal", "panicked"}
  /\ forced \in BOOLEAN

HttpTypeOK ==
  /\ http \in {"new", "binding", "serving", "closed"}
  /\ inflight \in SUBSET Requests

DeviceTypeOK ==
  /\ ticks \in [Devices -> 0..MaxTicks]
  /\ tickC \in [Devices -> 0..MaxTicks]
  /\ dpc \in [Devices -> {"select", "send", "stopped"}]
  /\ pending \in [Devices -> 0..MaxTicks]

ChannelTypeOK ==
  /\ events \in Seq(Event)
  /\ Len(events) <= Capacity
  /\ closed \in BOOLEAN
  /\ accepted \in SUBSET Event

WorkerTypeOK ==
  /\ wpc \in [Workers -> {"recv", "touch", "dial", "write", "read", "exited"}]
  /\ held \in [Workers -> Event \cup {NoEvent}]
  /\ conn \in [Workers -> {"none", "open", "sent", "ok", "bad"}]
  /\ acked \in SUBSET Event
  /\ failed \in SUBSET Event

RegistryTypeOK ==
  /\ lastSeen \in [Devices -> 0..MaxTicks]
  /\ count \in [Devices -> Nat]

(* Every variable stays in its range; the channel never exceeds its buffer. *)
TypeOK ==
  /\ MainTypeOK
  /\ HttpTypeOK
  /\ DeviceTypeOK
  /\ ChannelTypeOK
  /\ WorkerTypeOK
  /\ RegistryTypeOK
  /\ published \in SUBSET Event

Init ==
  /\ ctxDone = FALSE
  /\ proc = "running"
  /\ http = "new"
  /\ inflight = {}
  /\ forced = FALSE
  /\ ticks = [d \in Devices |-> 0]
  /\ tickC = [d \in Devices |-> 0]
  /\ dpc = [d \in Devices |-> "select"]
  /\ pending = [d \in Devices |-> 0]
  /\ events = <<>>
  /\ closed = FALSE
  /\ accepted = {}
  /\ wpc = [w \in Workers |-> "recv"]
  /\ held = [w \in Workers |-> NoEvent]
  /\ conn = [w \in Workers |-> "none"]
  /\ acked = {}
  /\ failed = {}
  /\ lastSeen = [d \in Devices |-> 0]
  /\ count = [d \in Devices |-> 0]
  /\ published = {}

-----------------------------------------------------------------------------
(* Producers: simulateDevice.  A select whose cases are both ready picks   *)
(* either one, so a cancelled device may still take a tick or send.        *)

(* time.Ticker: a tick that finds the one-slot channel full is dropped.    *)
TickerFires(d) ==
  /\ Alive
  /\ dpc[d] # "stopped"
  /\ ticks[d] < MaxTicks
  /\ ticks' = [ticks EXCEPT ![d] = @ + 1]
  /\ tickC' = [tickC EXCEPT ![d] = IF @ = 0 THEN ticks[d] + 1 ELSE @]
  /\ UNCHANGED <<mainVars, httpVars, dpc, pending, chanVars, workVars, regVars, published>>

(* A fault against EventsConserved: the tick is read without being consumed. *)
TakeTick_Again(d) ==
  /\ Alive
  /\ dpc[d] = "select"
  /\ tickC[d] # 0
  /\ dpc' = [dpc EXCEPT ![d] = "send"]
  /\ pending' = [pending EXCEPT ![d] = tickC[d]]
  /\ UNCHANGED <<mainVars, httpVars, ticks, tickC, chanVars, workVars, regVars, published>>

TakeTick(d) ==
  /\ Alive
  /\ dpc[d] = "select"
  /\ tickC[d] # 0
  /\ dpc' = [dpc EXCEPT ![d] = "send"]
  /\ pending' = [pending EXCEPT ![d] = tickC[d]]
  /\ tickC' = [tickC EXCEPT ![d] = 0]
  /\ UNCHANGED <<mainVars, httpVars, ticks, chanVars, workVars, regVars, published>>

(* A fault against TypeOK: the buffer takes one event too many. *)
HasRoom_OffByOne == Len(events) <= Capacity

HasRoom == Len(events) < Capacity

(* A fault against ReportsInOrder: the newest event overtakes the others. *)
Enqueue_First(e) == <<e>> \o events

Enqueue(e) == Append(events, e)

(* A send on a closed channel is ready at once, and panics. *)
SendEvent(d) ==
  /\ Alive
  /\ dpc[d] = "send"
  /\ \/ /\ closed
        /\ proc' = "panicked"
        /\ UNCHANGED <<ctxDone, forced, dpc, pending, events, accepted>>
     \/ /\ ~closed
        /\ HasRoom
        /\ LET e == [device |-> d, at |-> pending[d]]
           IN  /\ events' = Enqueue(e)
               /\ accepted' = accepted \cup {e}
        /\ dpc' = [dpc EXCEPT ![d] = "select"]
        /\ pending' = [pending EXCEPT ![d] = 0]
        /\ UNCHANGED mainVars
  /\ UNCHANGED <<httpVars, ticks, tickC, closed, workVars, regVars, published>>

(* The <-ctx.Done() case of either select; an unsent event is dropped. *)
DeviceStops(d) ==
  /\ Alive
  /\ ctxDone
  /\ dpc[d] \in {"select", "send"}
  /\ dpc' = [dpc EXCEPT ![d] = "stopped"]
  /\ pending' = [pending EXCEPT ![d] = 0]
  /\ UNCHANGED <<mainVars, httpVars, ticks, tickC, chanVars, workVars, regVars, published>>

(* A fault against NeverPanics: close(events) as soon as ctx is cancelled. *)
ProducersDone_Signal == ctxDone

(* A fault against CancelStops: the closer waits for the wrong WaitGroup. *)
ProducersDone_Workers == \A w \in Workers : wpc[w] = "exited"

(* producers.Wait() has returned. *)
ProducersDone == \A d \in Devices : dpc[d] = "stopped"

CloseEvents ==
  /\ Alive
  /\ ~closed
  /\ ProducersDone
  /\ closed' = TRUE
  /\ UNCHANGED <<mainVars, httpVars, devVars, events, accepted, workVars, regVars, published>>

-----------------------------------------------------------------------------
(* Consumers: worker and publishToRedis.                                   *)

NextEvent == Head(events)

Receive(w) ==
  /\ Alive
  /\ wpc[w] = "recv"
  /\ events # <<>>
  /\ held' = [held EXCEPT ![w] = NextEvent]
  /\ events' = Tail(events)
  /\ wpc' = [wpc EXCEPT ![w] = "touch"]
  /\ UNCHANGED <<mainVars, httpVars, devVars, closed, accepted, conn, acked, failed,
                 regVars, published>>

(* A fault against ImplementsPipeline and AcceptedIsDecided: workers quit  *)
(* on cancellation instead of draining the channel.                        *)
RangeEnds_Cancelled == ctxDone

(* The range loop ends when the channel is closed and empty. *)
RangeEnds == closed /\ events = <<>>

WorkerExits(w) ==
  /\ Alive
  /\ wpc[w] = "recv"
  /\ RangeEnds
  /\ wpc' = [wpc EXCEPT ![w] = "exited"]
  /\ UNCHANGED <<mainVars, httpVars, devVars, chanVars, held, conn, acked, failed,
                 regVars, published>>

(* A fault against CountsMatch: the status is created anew on every event. *)
Touch_Fresh(d, at) ==
  /\ lastSeen' = [lastSeen EXCEPT ![d] = at]
  /\ count' = [count EXCEPT ![d] = 1]

Touch(d, at) ==
  /\ lastSeen' = [lastSeen EXCEPT ![d] = at]
  /\ count' = [count EXCEPT ![d] = @ + 1]

(* registry.Touch, then json.Marshal, which cannot fail on these events    *)
(* (rand.Float64() is finite); its error path is that of a failed publish. *)
TouchRegistry(w) ==
  /\ Alive
  /\ wpc[w] = "touch"
  /\ Touch(held[w].device, held[w].at)
  /\ wpc' = [wpc EXCEPT ![w] = "dial"]
  /\ UNCHANGED <<mainVars, httpVars, devVars, chanVars, held, conn, acked, failed, published>>

(* publishToRedis returned: the connection is closed (deferred Close) and  *)
(* the worker goes back to its range loop, whatever the outcome.           *)
PublishReturns(w) ==
  /\ wpc' = [wpc EXCEPT ![w] = "recv"]
  /\ held' = [held EXCEPT ![w] = NoEvent]
  /\ conn' = [conn EXCEPT ![w] = "none"]

(* A fault against NoDeviceStuck: return instead of continue on an error. *)
LogFailure_Return(w) ==
  /\ wpc' = [wpc EXCEPT ![w] = "exited"]
  /\ held' = [held EXCEPT ![w] = NoEvent]
  /\ conn' = [conn EXCEPT ![w] = "none"]
  /\ failed' = failed \cup {held[w]}
  /\ UNCHANGED acked

(* A fault against TriedOnce: a failed publish is tried again. *)
LogFailure_Retry(w) ==
  /\ wpc' = [wpc EXCEPT ![w] = "dial"]
  /\ conn' = [conn EXCEPT ![w] = "none"]
  /\ UNCHANGED <<held, acked, failed>>

LogFailure(w) ==
  /\ PublishReturns(w)
  /\ failed' = failed \cup {held[w]}
  /\ UNCHANGED acked

Dial(w) ==
  /\ Alive
  /\ wpc[w] = "dial"
  /\ \/ /\ wpc' = [wpc EXCEPT ![w] = "write"]
        /\ conn' = [conn EXCEPT ![w] = "open"]
        /\ UNCHANGED <<held, acked, failed>>
     \/ LogFailure(w)
  /\ UNCHANGED <<mainVars, httpVars, devVars, chanVars, regVars, published>>

WriteCommand(w) ==
  /\ Alive
  /\ wpc[w] = "write"
  /\ \/ /\ wpc' = [wpc EXCEPT ![w] = "read"]
        /\ conn' = [conn EXCEPT ![w] = "sent"]
        /\ UNCHANGED <<held, acked, failed>>
     \/ LogFailure(w)
  /\ UNCHANGED <<mainVars, httpVars, devVars, chanVars, regVars, published>>

(* ReadString has no deadline: it waits for a reply or for a lost          *)
(* connection, however long either takes.                                  *)
ReadReply(w) ==
  /\ Alive
  /\ wpc[w] = "read"
  /\ \/ /\ conn[w] = "ok"
        /\ PublishReturns(w)
        /\ acked' = acked \cup {held[w]}
        /\ UNCHANGED failed
     \/ /\ conn[w] = "bad"
        /\ LogFailure(w)
  /\ UNCHANGED <<mainVars, httpVars, devVars, chanVars, regVars, published>>

-----------------------------------------------------------------------------
(* The broker and the network, as publishToRedis meets them.  They do not  *)
(* stop when the process does.                                             *)

BrokerPublishes(w) ==
  /\ conn[w] = "sent"
  /\ published' = published \cup {held[w]}
  /\ conn' = [conn EXCEPT ![w] = "ok"]
  /\ UNCHANGED <<mainVars, httpVars, devVars, chanVars, wpc, held, acked, failed, regVars>>

(* An error reply, or a connection lost before or after the broker acted   *)
(* on the command: the worker cannot tell which.                           *)
BrokerFails(w) ==
  /\ conn[w] \in {"sent", "ok"}
  /\ conn' = [conn EXCEPT ![w] = "bad"]
  /\ UNCHANGED <<mainVars, httpVars, devVars, chanVars, wpc, held, acked, failed,
                 regVars, published>>

-----------------------------------------------------------------------------
(* The HTTP goroutine.  ListenAndServe looks at the server's shutdown flag *)
(* before it binds and again before it accepts.                            *)

(* A fault against GatewayInv: the server forgets that it was shut down.    *)
InShutdown_Never == FALSE

InShutdown == proc \in {"shutting", "draining"}

ListenAndServe ==
  /\ Alive
  /\ \/ /\ http = "new"
        /\ http' = IF InShutdown THEN "closed" ELSE "binding"
     \/ /\ http = "binding"
        /\ http' = IF InShutdown THEN "closed" ELSE "serving"
  /\ UNCHANGED <<mainVars, inflight, devVars, chanVars, workVars, regVars, published>>

(* The port is taken or the listener breaks: log.Fatalf ends the process,  *)
(* also while main is already draining.                                    *)
ListenFails ==
  /\ Alive
  /\ http \in {"binding", "serving"}
  /\ proc' = "fatal"
  /\ UNCHANGED <<ctxDone, forced, httpVars, devVars, chanVars, workVars, regVars, published>>

HandlerStarts(r) ==
  /\ Alive
  /\ http = "serving"
  /\ r \notin inflight
  /\ inflight' = inflight \cup {r}
  /\ UNCHANGED <<mainVars, http, devVars, chanVars, workVars, regVars, published>>

(* statusHandler encodes a Snapshot; healthHandler writes "ok". *)
HandlerReturns(r) ==
  /\ Alive
  /\ r \in inflight
  /\ inflight' = inflight \ {r}
  /\ UNCHANGED <<mainVars, http, devVars, chanVars, workVars, regVars, published>>

-----------------------------------------------------------------------------
(* main.                                                                   *)

Signal ==
  /\ Alive
  /\ ~ctxDone
  /\ ctxDone' = TRUE
  /\ UNCHANGED <<proc, forced, httpVars, devVars, chanVars, workVars, regVars, published>>

(* A fault against ShutdownFinishesRequests: the listener stays open. *)
ShutdownServer_Listening ==
  /\ proc = "running"
  /\ ctxDone
  /\ proc' = "shutting"
  /\ UNCHANGED <<ctxDone, forced, httpVars, devVars, chanVars, workVars, regVars, published>>

(* main wakes up and calls server.Shutdown, which closes the listener. *)
ShutdownServer ==
  /\ proc = "running"
  /\ ctxDone
  /\ proc' = "shutting"
  /\ http' = IF http = "serving" THEN "closed" ELSE http
  /\ UNCHANGED <<ctxDone, forced, inflight, devVars, chanVars, workVars, regVars, published>>

ShutdownReturns ==
  /\ proc = "shutting"
  /\ inflight = {}
  /\ proc' = "draining"
  /\ UNCHANGED <<ctxDone, forced, httpVars, devVars, chanVars, workVars, regVars, published>>

ShutdownTimesOut ==
  /\ proc = "shutting"
  /\ inflight # {}
  /\ proc' = "draining"
  /\ forced' = TRUE
  /\ UNCHANGED <<ctxDone, httpVars, devVars, chanVars, workVars, regVars, published>>

(* workers.Wait() has returned. *)
WorkersDone == \A w \in Workers : wpc[w] = "exited"

MainReturns ==
  /\ proc = "draining"
  /\ WorkersDone
  /\ proc' = "stopped"
  /\ UNCHANGED <<ctxDone, forced, httpVars, devVars, chanVars, workVars, regVars, published>>

(* A process that has ended does nothing more. *)
Ended ==
  /\ ~Alive
  /\ UNCHANGED vars

-----------------------------------------------------------------------------
DeviceStep(d) == TickerFires(d) \/ TakeTick(d) \/ SendEvent(d) \/ DeviceStops(d)

WorkerStep(w) ==
  \/ Receive(w) \/ WorkerExits(w) \/ TouchRegistry(w)
  \/ Dial(w) \/ WriteCommand(w) \/ ReadReply(w)

BrokerStep(w) == BrokerPublishes(w) \/ BrokerFails(w)

HttpStep ==
  \/ ListenAndServe \/ ListenFails
  \/ \E r \in Requests : HandlerStarts(r) \/ HandlerReturns(r)

MainStep == ShutdownServer \/ ShutdownReturns \/ ShutdownTimesOut \/ MainReturns

Next ==
  \/ \E d \in Devices : DeviceStep(d)
  \/ CloseEvents
  \/ \E w \in Workers : WorkerStep(w) \/ BrokerStep(w)
  \/ HttpStep
  \/ Signal
  \/ MainStep
  \/ Ended

Spec == Init /\ [][Next]_vars

(* What the Go runtime guarantees: a goroutine that stays runnable runs; a *)
(* select that keeps meeting a ready <-ctx.Done() takes it in the end;     *)
(* senders blocked on a full channel are served first come, first served,  *)
(* so one that finds room again and again gets it.  Dial is bounded by its *)
(* two-second timeout and Shutdown by its five seconds; no such bound      *)
(* exists for ReadReply.                                                   *)
SchedulerFairness ==
  /\ \A d \in Devices : /\ WF_vars(TakeTick(d))
                        /\ SF_vars(SendEvent(d))
                        /\ WF_vars(DeviceStops(d))
  /\ WF_vars(CloseEvents)
  /\ \A w \in Workers : WF_vars(WorkerStep(w))
  /\ WF_vars(MainStep)

(* The broker answers every command, or the connection breaks. *)
BrokerFairness == \A w \in Workers : WF_vars(BrokerStep(w))

SchedulerFairSpec == Spec /\ SchedulerFairness
FairSpec == SchedulerFairSpec /\ BrokerFairness

-----------------------------------------------------------------------------
(* Properties.                                                             *)

Queued == {events[i] : i \in DOMAIN events}
InHand == {w \in Workers : held[w] # NoEvent}
Held == {held[w] : w \in InHand}
Decided == acked \cup failed

(* close(events) never runs while a device goroutine may still send, so no *)
(* send finds the channel closed (the closer goroutine, main.go:243-249).  *)
NeverPanics == proc # "panicked"

(* No event that got into the channel is lost or duplicated on its way     *)
(* through the buffer and the pool: it is in exactly one place, the queue, *)
(* one worker's hands, or among the decided ones.                          *)
EventsConserved ==
  /\ accepted = Queued \cup Held \cup Decided
  /\ Queued \cap Held = {}
  /\ (Queued \cup Held) \cap Decided = {}
  /\ \A i, j \in DOMAIN events : events[i] = events[j] => i = j
  /\ \A v, w \in InHand : held[v] = held[w] => v = w

Untouched == Queued \cup {held[w] : w \in {v \in Workers : wpc[v] = "touch"}}
Touched(d) == {e \in accepted \ Untouched : e.device = d}

(* The EventCount a status request reports is the number of the device's   *)
(* events that left the queue and went through Touch: none is counted      *)
(* twice, none is skipped, whatever order the workers run in.              *)
CountsMatch == \A d \in Devices : count[d] = Cardinality(Touched(d))

(* No command goes to the broker for an event its subscribers have already *)
(* received: a publish of unknown outcome is logged, never tried again.    *)
TriedOnce ==
  \A w \in Workers : wpc[w] \in {"dial", "write"} => held[w] \notin published

(* Shutdown that returned in time leaves no request half answered, and     *)
(* none can start while main waits for the workers, even when the signal   *)
(* arrives before ListenAndServe has bound the port.                       *)
ShutdownFinishesRequests ==
  proc \in {"draining", "stopped"} /\ ~forced => inflight = {}

(* A device's events leave the channel in the order they were made, and no *)
(* event that waits in it is older than the LastSeen reported: however the *)
(* pool is scheduled, LastSeen goes back only among the events that several *)
(* workers hold at once, and never with a single worker.                   *)
ReportsInOrder ==
  /\ \A e \in Queued : lastSeen[e.device] < e.at
  /\ \A i, j \in DOMAIN events :
       i < j /\ events[i].device = events[j].device => events[i].at < events[j].at

(* Cancelling the one context ends the process: the devices stop, the      *)
(* channel is drained and closed, the workers exit, main returns.          *)
CancelStops == ctxDone ~> ~Alive

(* A device blocked on a full channel gets on: the pool keeps draining it  *)
(* however many publishes fail.                                            *)
NoDeviceStuck ==
  \A d \in Devices : dpc[d] = "send" ~> (dpc[d] # "send" \/ ~Alive)

(* Every event that got into the channel is published or reported as       *)
(* failed, cancellation included, unless log.Fatalf kills the process.     *)
AcceptedIsDecided ==
  \A e \in Event : e \in accepted ~> (e \in Decided \/ proc = "fatal")

-----------------------------------------------------------------------------
(* The inductive invariant behind these properties.                        *)

(* A worker holds an event exactly while it handles one, and a connection  *)
(* exactly between dial and reply.                                         *)
WorkerControl ==
  \A w \in Workers :
    /\ held[w] = NoEvent <=> wpc[w] \in {"recv", "exited"}
    /\ wpc[w] = "write" <=> conn[w] = "open"
    /\ wpc[w] = "read" <=> conn[w] \in {"sent", "ok", "bad"}

(* The order of the shutdown: devices, then the channel, then workers,     *)
(* then main.                                                              *)
ShutdownOrder ==
  /\ closed => ProducersDone
  /\ \A w \in Workers : wpc[w] = "exited" => RangeEnds
  /\ proc = "stopped" => WorkersDone

(* A server that was told to shut down does not accept. *)
ListenerClosed ==
  proc \in {"shutting", "draining", "stopped"} => http # "serving"

(* A device's clock is ahead of everything it has sent, and what it is     *)
(* about to send is newer than that.                                       *)
TimesAdvance ==
  \A d \in Devices :
    /\ dpc[d] = "send" <=> pending[d] # 0
    /\ pending[d] <= ticks[d]
    /\ tickC[d] <= ticks[d]
    /\ tickC[d] # 0 => pending[d] < tickC[d]
    /\ \A e \in accepted :
         e.device = d => /\ e.at <= ticks[d]
                         /\ pending[d] # 0 => e.at < pending[d]
                         /\ tickC[d] # 0 => e.at < tickC[d]

(* What the broker has published, seen from the pipeline. *)
PublishedOnce ==
  /\ published \subseteq accepted
  /\ acked \subseteq published
  /\ Queued \cap published = {}
  /\ \A w \in Workers :
       /\ wpc[w] \in {"touch", "dial", "write"} => held[w] \notin published
       /\ conn[w] = "sent" => held[w] \notin published
       /\ conn[w] = "ok" => held[w] \in published

(* All of the above is inductive; the proofs are in DeviceGatewayProofs. *)
GatewayInv ==
  /\ TypeOK
  /\ NeverPanics
  /\ WorkerControl
  /\ ShutdownOrder
  /\ ListenerClosed
  /\ ShutdownFinishesRequests
  /\ TimesAdvance
  /\ EventsConserved
  /\ PublishedOnce

-----------------------------------------------------------------------------
(* Refinement of EventPipeline. *)

pipelinePhase ==
  CASE proc = "stopped" -> "stopped"
    [] proc \in {"fatal", "panicked"} -> "aborted"
    [] OTHER -> "open"

Pipeline == INSTANCE EventPipeline WITH Events <- Event, phase <- pipelinePhase

(* Seen from outside, the gateway is an EventPipeline: one attempt and one *)
(* outcome per event, an acknowledged event was delivered, and a gateway   *)
(* that stops by itself has decided every event it accepted.               *)
ImplementsPipeline == Pipeline!Spec
=============================================================================
