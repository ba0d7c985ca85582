------------------------ MODULE DeviceGatewayProofs ------------------------
(***************************************************************************)
(* Proofs about DeviceGateway, for every number of devices, workers and    *)
(* requests, every buffer size and every bound on the ticks.  One lemma    *)
(* per part of GatewayInv shows that a step preserves it; the theorems     *)
(* are at the end.                                                         *)
(***************************************************************************)
EXTENDS DeviceGateway, FiniteSetTheorems, TLAPS

-----------------------------------------------------------------------------
(* Operators.                                                              *)

LEMMA QueueSend ==
  ASSUME events \in Seq(Event), NEW e \in Event
  PROVE  /\ Enqueue(e) \in Seq(Event)
         /\ Len(Enqueue(e)) = Len(events) + 1
BY SMT DEF Enqueue

LEMMA QueueReceive ==
  ASSUME events \in Seq(Event), events # <<>>
  PROVE  /\ NextEvent \in Event
         /\ Tail(events) \in Seq(Event)
         /\ Len(Tail(events)) = Len(events) - 1
BY SMT DEF NextEvent

LEMMA EventFields ==
  ASSUME NEW e \in Event
  PROVE  e.device \in Devices /\ e.at \in 1..MaxTicks
BY SMT DEF Event

LEMMA NoEventIsNone == NoEvent \notin Event
BY GatewayAssumption DEF GatewayAssumption

LEMMA HandsFull ==
  ASSUME WorkerTypeOK, WorkerControl, NEW w \in Workers, wpc[w] \notin {"recv", "exited"}
  PROVE  held[w] \in Event /\ held[w] # NoEvent /\ w \in InHand
<1>1. held[w] # NoEvent
  BY DEF WorkerControl
<1>2. held[w] \in Event \cup {NoEvent}
  BY DEF WorkerTypeOK
<1> QED
  BY <1>1, <1>2 DEF InHand

-----------------------------------------------------------------------------
(* Type correctness.                                                       *)

LEMMA TypeFrames ==
  ASSUME TypeOK
  PROVE  /\ UNCHANGED mainVars => MainTypeOK'
         /\ UNCHANGED httpVars => HttpTypeOK'
         /\ UNCHANGED devVars => DeviceTypeOK'
         /\ UNCHANGED chanVars => ChannelTypeOK'
         /\ UNCHANGED workVars => WorkerTypeOK'
         /\ UNCHANGED regVars => RegistryTypeOK'
         /\ UNCHANGED published => (published \in SUBSET Event)'
<1>1. UNCHANGED mainVars => MainTypeOK'
  BY DEF TypeOK, MainTypeOK, mainVars
<1>2. UNCHANGED httpVars => HttpTypeOK'
  BY DEF TypeOK, HttpTypeOK, httpVars
<1>3. UNCHANGED devVars => DeviceTypeOK'
  BY DEF TypeOK, DeviceTypeOK, devVars
<1>4. UNCHANGED chanVars => ChannelTypeOK'
  BY DEF TypeOK, ChannelTypeOK, chanVars
<1>5. UNCHANGED workVars => WorkerTypeOK'
  BY DEF TypeOK, WorkerTypeOK, workVars
<1>6. UNCHANGED regVars => RegistryTypeOK'
  BY DEF TypeOK, RegistryTypeOK, regVars
<1>7. UNCHANGED published => (published \in SUBSET Event)'
  BY DEF TypeOK
<1> QED
  BY <1>1, <1>2, <1>3, <1>4, <1>5, <1>6, <1>7

LEMMA TypeInit == Init => TypeOK
<1> SUFFICES ASSUME Init PROVE TypeOK
  OBVIOUS
<1>1. MainTypeOK
  BY DEF Init, MainTypeOK
<1>2. HttpTypeOK
  BY DEF Init, HttpTypeOK
<1>3. DeviceTypeOK
  BY GatewayAssumption, SMT DEF Init, DeviceTypeOK, GatewayAssumption
<1>4. ChannelTypeOK
  <2>1. events \in Seq(Event) /\ Len(events) <= Capacity
    BY GatewayAssumption, SMT DEF Init, GatewayAssumption
  <2>2. closed \in BOOLEAN /\ accepted \in SUBSET Event
    BY DEF Init
  <2> QED
    BY <2>1, <2>2 DEF ChannelTypeOK
<1>5. WorkerTypeOK
  BY SMT DEF Init, WorkerTypeOK
<1>6. RegistryTypeOK
  BY GatewayAssumption, SMT DEF Init, RegistryTypeOK, GatewayAssumption
<1>7. published \in SUBSET Event
  BY DEF Init
<1> QED
  BY <1>1, <1>2, <1>3, <1>4, <1>5, <1>6, <1>7 DEF TypeOK

(* The outcome of a publish keeps the workers' variables in range. *)
LEMMA LogFailureType ==
  ASSUME WorkerTypeOK, NEW w \in Workers, held[w] \in Event, LogFailure(w)
  PROVE  WorkerTypeOK'
<1>1. wpc' = [wpc EXCEPT ![w] = "recv"] /\ held' = [held EXCEPT ![w] = NoEvent]
      /\ conn' = [conn EXCEPT ![w] = "none"]
  BY DEF LogFailure, PublishReturns
<1>2. failed' = failed \cup {held[w]} /\ acked' = acked
  BY DEF LogFailure
<1>3. failed' \in SUBSET Event /\ acked' \in SUBSET Event
  BY <1>2 DEF WorkerTypeOK
<1> QED
  BY <1>1, <1>3, SMT DEF WorkerTypeOK

LEMMA TypeStep ==
  ASSUME TypeOK, WorkerControl, TimesAdvance, [Next]_vars
  PROVE  TypeOK'
<1> USE TypeFrames DEF TypeOK
<1>1. ASSUME NEW d \in Devices, TickerFires(d) PROVE TypeOK'
  <2>1. DeviceTypeOK'
    BY <1>1, GatewayAssumption, SMT DEF TickerFires, DeviceTypeOK, GatewayAssumption
  <2> QED
    BY <1>1, <2>1 DEF TickerFires
<1>2. ASSUME NEW d \in Devices, TakeTick(d) PROVE TypeOK'
  <2>1. DeviceTypeOK'
    BY <1>2, GatewayAssumption, SMT DEF TakeTick, DeviceTypeOK, GatewayAssumption
  <2> QED
    BY <1>2, <2>1 DEF TakeTick
<1>3. ASSUME NEW d \in Devices, SendEvent(d) PROVE TypeOK'
  <2> DEFINE e == [device |-> d, at |-> pending[d]]
  <2>1. CASE closed
    <3>1. MainTypeOK'
      BY <1>3, <2>1, SMT DEF SendEvent, MainTypeOK
    <3>2. UNCHANGED devVars /\ UNCHANGED chanVars
      BY <1>3, <2>1 DEF SendEvent, devVars, chanVars
    <3> QED
      BY <1>3, <3>1, <3>2 DEF SendEvent
  <2>2. CASE ~closed
    <3>1. dpc[d] = "send" /\ HasRoom /\ events' = Enqueue(e) /\ accepted' = accepted \cup {e}
          /\ closed' = closed
      BY <1>3, <2>2 DEF SendEvent
    <3>2. e \in Event
      BY <3>1, GatewayAssumption, SMT DEF TimesAdvance, DeviceTypeOK, Event, GatewayAssumption
    <3>3. events' \in Seq(Event) /\ Len(events') <= Capacity
      BY <3>1, <3>2, QueueSend, GatewayAssumption, SMT
      DEF ChannelTypeOK, HasRoom, GatewayAssumption
    <3>4. ChannelTypeOK'
      BY <3>1, <3>2, <3>3 DEF ChannelTypeOK
    <3>5. DeviceTypeOK'
      BY <1>3, <2>2, GatewayAssumption, SMT DEF SendEvent, DeviceTypeOK, GatewayAssumption
    <3>6. UNCHANGED mainVars
      BY <1>3, <2>2 DEF SendEvent
    <3> QED
      BY <1>3, <3>4, <3>5, <3>6 DEF SendEvent
  <2> QED
    BY <2>1, <2>2
<1>4. ASSUME NEW d \in Devices, DeviceStops(d) PROVE TypeOK'
  <2>1. DeviceTypeOK'
    BY <1>4, GatewayAssumption, SMT DEF DeviceStops, DeviceTypeOK, GatewayAssumption
  <2> QED
    BY <1>4, <2>1 DEF DeviceStops
<1>5. CASE CloseEvents
  <2>1. ChannelTypeOK'
    BY <1>5 DEF CloseEvents, ChannelTypeOK
  <2> QED
    BY <1>5, <2>1 DEF CloseEvents
<1>6. ASSUME NEW w \in Workers, Receive(w) PROVE TypeOK'
  <2>1. events # <<>> /\ events' = Tail(events) /\ UNCHANGED <<closed, accepted>>
    BY <1>6 DEF Receive
  <2>2. ChannelTypeOK'
    BY <2>1, QueueReceive, GatewayAssumption, SMT DEF ChannelTypeOK, GatewayAssumption
  <2>3. NextEvent \in Event
    BY <2>1, QueueReceive DEF ChannelTypeOK
  <2>4. WorkerTypeOK'
    BY <1>6, <2>3, SMT DEF Receive, WorkerTypeOK
  <2> QED
    BY <1>6, <2>2, <2>4 DEF Receive
<1>7. ASSUME NEW w \in Workers, WorkerExits(w) PROVE TypeOK'
  <2>1. WorkerTypeOK'
    BY <1>7, SMT DEF WorkerExits, WorkerTypeOK
  <2> QED
    BY <1>7, <2>1 DEF WorkerExits
<1>8. ASSUME NEW w \in Workers, TouchRegistry(w) PROVE TypeOK'
  <2>1. held[w] \in Event
    BY <1>8, HandsFull DEF TouchRegistry
  <2>2. held[w].device \in Devices /\ held[w].at \in 1..MaxTicks
    BY <2>1, EventFields
  <2>3. RegistryTypeOK'
    BY <1>8, <2>2, GatewayAssumption, SMT DEF TouchRegistry, Touch, RegistryTypeOK, GatewayAssumption
  <2>4. WorkerTypeOK'
    BY <1>8, SMT DEF TouchRegistry, WorkerTypeOK
  <2> QED
    BY <1>8, <2>3, <2>4 DEF TouchRegistry
<1>9. ASSUME NEW w \in Workers, Dial(w) PROVE TypeOK'
  <2>1. CASE LogFailure(w)
    BY <1>9, <2>1, HandsFull, LogFailureType DEF Dial
  <2>2. CASE ~LogFailure(w)
    <3>1. WorkerTypeOK'
      BY <1>9, <2>2, SMT DEF Dial, WorkerTypeOK
    <3> QED
      BY <1>9, <3>1 DEF Dial
  <2> QED
    BY <2>1, <2>2
<1>10. ASSUME NEW w \in Workers, WriteCommand(w) PROVE TypeOK'
  <2>1. CASE LogFailure(w)
    BY <1>10, <2>1, HandsFull, LogFailureType DEF WriteCommand
  <2>2. CASE ~LogFailure(w)
    <3>1. WorkerTypeOK'
      BY <1>10, <2>2, SMT DEF WriteCommand, WorkerTypeOK
    <3> QED
      BY <1>10, <3>1 DEF WriteCommand
  <2> QED
    BY <2>1, <2>2
<1>11. ASSUME NEW w \in Workers, ReadReply(w) PROVE TypeOK'
  <2>1. held[w] \in Event
    BY <1>11, HandsFull DEF ReadReply
  <2>2. CASE LogFailure(w)
    BY <1>11, <2>1, <2>2, LogFailureType DEF ReadReply
  <2>3. CASE ~LogFailure(w)
    <3>1. acked' \in SUBSET Event /\ failed' \in SUBSET Event
      BY <1>11, <2>1, <2>3 DEF ReadReply, WorkerTypeOK
    <3>2. PublishReturns(w)
      BY <1>11, <2>3 DEF ReadReply
    <3>3. WorkerTypeOK'
      BY <3>1, <3>2, SMT DEF PublishReturns, WorkerTypeOK
    <3> QED
      BY <1>11, <3>3 DEF ReadReply
  <2> QED
    BY <2>2, <2>3
<1>12. ASSUME NEW w \in Workers, BrokerPublishes(w) PROVE TypeOK'
  <2>1. held[w] \in Event
    BY <1>12, HandsFull DEF BrokerPublishes, WorkerControl
  <2>2. published' \in SUBSET Event
    BY <1>12, <2>1 DEF BrokerPublishes
  <2>3. WorkerTypeOK'
    BY <1>12, SMT DEF BrokerPublishes, WorkerTypeOK
  <2> QED
    BY <1>12, <2>2, <2>3 DEF BrokerPublishes
<1>13. ASSUME NEW w \in Workers, BrokerFails(w) PROVE TypeOK'
  <2>1. WorkerTypeOK'
    BY <1>13, SMT DEF BrokerFails, WorkerTypeOK
  <2> QED
    BY <1>13, <2>1 DEF BrokerFails
<1>14. CASE HttpStep
  <2>1. MainTypeOK' /\ HttpTypeOK'
    BY <1>14, SMT DEF HttpStep, ListenAndServe, ListenFails, HandlerStarts, HandlerReturns,
                      MainTypeOK, HttpTypeOK, mainVars, httpVars
  <2> QED
    BY <1>14, <2>1 DEF HttpStep, ListenAndServe, ListenFails, HandlerStarts, HandlerReturns
<1>15. CASE Signal
  <2>1. MainTypeOK'
    BY <1>15 DEF Signal, MainTypeOK
  <2> QED
    BY <1>15, <2>1 DEF Signal
<1>16. CASE MainStep
  <2>1. (ctxDone \in BOOLEAN)' /\ (forced \in BOOLEAN)'
    BY <1>16, Zenon DEF MainStep, ShutdownServer, ShutdownReturns, ShutdownTimesOut, MainReturns,
                        MainTypeOK
  <2>2. MainTypeOK'
    BY <1>16, <2>1 DEF MainStep, ShutdownServer, ShutdownReturns, ShutdownTimesOut, MainReturns,
                       MainTypeOK
  <2>3. HttpTypeOK'
    BY <1>16, SMT DEF MainStep, ShutdownServer, ShutdownReturns, ShutdownTimesOut, MainReturns,
                      HttpTypeOK, httpVars
  <2> QED
    BY <1>16, <2>2, <2>3 DEF MainStep, ShutdownServer, ShutdownReturns, ShutdownTimesOut, MainReturns
<1>17. CASE UNCHANGED vars
  BY <1>17 DEF vars
<1> QED
  BY <1>1, <1>2, <1>3, <1>4, <1>5, <1>6, <1>7, <1>8, <1>9, <1>10, <1>11, <1>12, <1>13, <1>14,
     <1>15, <1>16, <1>17
     DEF Next, DeviceStep, WorkerStep, BrokerStep, Ended

-----------------------------------------------------------------------------
(* What leaves a group of variables alone.                                 *)

LEMMA WorkersFrame ==
  ASSUME [Next]_vars
  PROVE  \/ \E w \in Workers : WorkerStep(w) \/ BrokerStep(w)
         \/ UNCHANGED <<workVars, published>>
<1>1. ASSUME NEW d \in Devices, DeviceStep(d) PROVE UNCHANGED <<workVars, published>>
  BY <1>1 DEF DeviceStep, TickerFires, TakeTick, SendEvent, DeviceStops
<1>2. CloseEvents => UNCHANGED <<workVars, published>>
  BY DEF CloseEvents
<1>3. HttpStep => UNCHANGED <<workVars, published>>
  BY DEF HttpStep, ListenAndServe, ListenFails, HandlerStarts, HandlerReturns
<1>4. Signal => UNCHANGED <<workVars, published>>
  BY DEF Signal
<1>5. MainStep => UNCHANGED <<workVars, published>>
  BY DEF MainStep, ShutdownServer, ShutdownReturns, ShutdownTimesOut, MainReturns
<1>6. (Ended \/ UNCHANGED vars) => UNCHANGED <<workVars, published>>
  BY DEF Ended, vars
<1> QED
  BY <1>1, <1>2, <1>3, <1>4, <1>5, <1>6 DEF Next

LEMMA DevicesFrame ==
  ASSUME [Next]_vars
  PROVE  (\E d \in Devices : DeviceStep(d)) \/ UNCHANGED <<devVars, accepted>>
<1>1. CloseEvents => UNCHANGED <<devVars, accepted>>
  BY DEF CloseEvents
<1>2. ASSUME NEW w \in Workers, WorkerStep(w) PROVE UNCHANGED <<devVars, accepted>>
  BY <1>2 DEF WorkerStep, Receive, WorkerExits, TouchRegistry, Dial, WriteCommand, ReadReply,
              chanVars
<1>3. ASSUME NEW w \in Workers, BrokerStep(w) PROVE UNCHANGED <<devVars, accepted>>
  BY <1>3 DEF BrokerStep, BrokerPublishes, BrokerFails, chanVars
<1>4. HttpStep => UNCHANGED <<devVars, accepted>>
  BY DEF HttpStep, ListenAndServe, ListenFails, HandlerStarts, HandlerReturns, chanVars
<1>5. Signal => UNCHANGED <<devVars, accepted>>
  BY DEF Signal, chanVars
<1>6. MainStep => UNCHANGED <<devVars, accepted>>
  BY DEF MainStep, ShutdownServer, ShutdownReturns, ShutdownTimesOut, MainReturns, chanVars
<1>7. (Ended \/ UNCHANGED vars) => UNCHANGED <<devVars, accepted>>
  BY DEF Ended, vars, chanVars
<1> QED
  BY <1>1, <1>2, <1>3, <1>4, <1>5, <1>6, <1>7 DEF Next

(* A publish that is over leaves the worker with nothing. *)
LEMMA PublishReturnsControl ==
  ASSUME WorkerTypeOK, WorkerControl, NEW w \in Workers, PublishReturns(w)
  PROVE  WorkerControl'
<1> SUFFICES ASSUME NEW v \in Workers
             PROVE  /\ held'[v] = NoEvent <=> wpc'[v] \in {"recv", "exited"}
                    /\ wpc'[v] = "write" <=> conn'[v] = "open"
                    /\ wpc'[v] = "read" <=> conn'[v] \in {"sent", "ok", "bad"}
  BY DEF WorkerControl
<1>1. CASE v = w
  BY <1>1, SMT DEF PublishReturns, WorkerTypeOK
<1>2. CASE v # w
  BY <1>2, SMT DEF PublishReturns, WorkerTypeOK, WorkerControl
<1> QED
  BY <1>1, <1>2

LEMMA WorkerControlStep ==
  ASSUME TypeOK, WorkerControl, [Next]_vars
  PROVE  WorkerControl'
<1> USE DEF TypeOK
<1>1. ASSUME NEW w \in Workers, Receive(w) PROVE WorkerControl'
  <2>1. NextEvent # NoEvent
    BY <1>1, QueueReceive, NoEventIsNone DEF Receive, ChannelTypeOK
  <2> QED
    BY <1>1, <2>1, SMT DEF Receive, WorkerControl, WorkerTypeOK
<1>2. ASSUME NEW w \in Workers, WorkerExits(w) PROVE WorkerControl'
  BY <1>2, SMT DEF WorkerExits, WorkerControl, WorkerTypeOK
<1>3. ASSUME NEW w \in Workers, TouchRegistry(w) PROVE WorkerControl'
  BY <1>3, SMT DEF TouchRegistry, WorkerControl, WorkerTypeOK
<1>4. ASSUME NEW w \in Workers, Dial(w), ~PublishReturns(w) PROVE WorkerControl'
  BY <1>4, SMT DEF Dial, LogFailure, WorkerControl, WorkerTypeOK
<1>5. ASSUME NEW w \in Workers, WriteCommand(w), ~PublishReturns(w) PROVE WorkerControl'
  BY <1>5, SMT DEF WriteCommand, LogFailure, WorkerControl, WorkerTypeOK
<1>6. ASSUME NEW w \in Workers, ReadReply(w) PROVE PublishReturns(w)
  BY <1>6 DEF ReadReply, LogFailure
<1>7. ASSUME NEW w \in Workers, BrokerStep(w) PROVE WorkerControl'
  <2>1. conn[w] \in {"sent", "ok"} /\ conn'[w] \in {"ok", "bad"}
    BY <1>7, SMT DEF BrokerStep, BrokerPublishes, BrokerFails, WorkerTypeOK
  <2>2. \A v \in Workers \ {w} : conn'[v] = conn[v]
    BY <1>7, SMT DEF BrokerStep, BrokerPublishes, BrokerFails, WorkerTypeOK
  <2>3. UNCHANGED <<wpc, held>>
    BY <1>7 DEF BrokerStep, BrokerPublishes, BrokerFails
  <2> QED
    BY <2>1, <2>2, <2>3, SMT DEF WorkerControl
<1>8. UNCHANGED workVars => WorkerControl'
  BY DEF WorkerControl, workVars
<1> QED
  BY WorkersFrame, PublishReturnsControl, <1>1, <1>2, <1>3, <1>4, <1>5, <1>6, <1>7, <1>8
     DEF WorkerStep

-----------------------------------------------------------------------------
(* Shutdown.                                                               *)

LEMMA NeverPanicsStep ==
  ASSUME NeverPanics, ShutdownOrder, [Next]_vars
  PROVE  NeverPanics'
<1>1. ASSUME NEW d \in Devices, SendEvent(d) PROVE proc' = proc
  BY <1>1, SMT DEF SendEvent, ShutdownOrder, ProducersDone, mainVars
<1>2. ASSUME NEW d \in Devices, TickerFires(d) \/ TakeTick(d) \/ DeviceStops(d) PROVE proc' = proc
  BY <1>2 DEF TickerFires, TakeTick, DeviceStops, mainVars
<1>3. CloseEvents => proc' = proc
  BY DEF CloseEvents, mainVars
<1>4. ASSUME NEW w \in Workers, WorkerStep(w) \/ BrokerStep(w) PROVE proc' = proc
  BY <1>4 DEF WorkerStep, BrokerStep, Receive, WorkerExits, TouchRegistry, Dial, WriteCommand,
              ReadReply, BrokerPublishes, BrokerFails, mainVars
<1>5. HttpStep => proc' \in {proc, "fatal"}
  BY DEF HttpStep, ListenAndServe, ListenFails, HandlerStarts, HandlerReturns, mainVars
<1>6. Signal => proc' = proc
  BY DEF Signal
<1>7. MainStep => proc' \in {"shutting", "draining", "stopped"}
  BY DEF MainStep, ShutdownServer, ShutdownReturns, ShutdownTimesOut, MainReturns
<1>8. (Ended \/ UNCHANGED vars) => proc' = proc
  BY DEF Ended, vars, mainVars
<1> QED
  BY <1>1, <1>2, <1>3, <1>4, <1>5, <1>6, <1>7, <1>8 DEF Next, DeviceStep, NeverPanics

(* The process ends only from inside main, the listener or a send; a       *)
(* process that has ended stays so.                                        *)
LEMMA ProcFrame ==
  ASSUME [Next]_vars, proc' # proc
  PROVE  Alive /\ (MainStep \/ proc' \in {"fatal", "panicked"})
<1>1. ASSUME NEW d \in Devices, DeviceStep(d) PROVE Alive /\ proc' \in {proc, "panicked"}
  BY <1>1 DEF DeviceStep, TickerFires, TakeTick, SendEvent, DeviceStops, mainVars
<1>2. CloseEvents => proc' = proc
  BY DEF CloseEvents, mainVars
<1>3. ASSUME NEW w \in Workers, WorkerStep(w) \/ BrokerStep(w) PROVE proc' = proc
  BY <1>3 DEF WorkerStep, BrokerStep, Receive, WorkerExits, TouchRegistry, Dial, WriteCommand,
              ReadReply, BrokerPublishes, BrokerFails, mainVars
<1>4. HttpStep => Alive /\ proc' \in {proc, "fatal"}
  BY DEF HttpStep, ListenAndServe, ListenFails, HandlerStarts, HandlerReturns, mainVars
<1>5. Signal => proc' = proc
  BY DEF Signal
<1>6. MainStep => Alive
  BY DEF MainStep, ShutdownServer, ShutdownReturns, ShutdownTimesOut, MainReturns, Alive
<1>7. (Ended \/ UNCHANGED vars) => proc' = proc
  BY DEF Ended, vars, mainVars
<1> QED
  BY <1>1, <1>2, <1>3, <1>4, <1>5, <1>6, <1>7 DEF Next

(* Once closed, the channel stays closed and only a worker takes from it. *)
LEMMA ChannelFrame ==
  ASSUME [Next]_vars
  PROVE  \/ \E d \in Devices : SendEvent(d)
         \/ CloseEvents
         \/ \E w \in Workers : Receive(w)
         \/ UNCHANGED chanVars
<1>1. ASSUME NEW d \in Devices, DeviceStep(d), ~SendEvent(d) PROVE UNCHANGED chanVars
  BY <1>1 DEF DeviceStep, TickerFires, TakeTick, DeviceStops
<1>2. ASSUME NEW w \in Workers, WorkerStep(w) \/ BrokerStep(w), ~Receive(w)
      PROVE  UNCHANGED chanVars
  BY <1>2 DEF WorkerStep, BrokerStep, WorkerExits, TouchRegistry, Dial, WriteCommand,
              ReadReply, BrokerPublishes, BrokerFails
<1>3. HttpStep => UNCHANGED chanVars
  BY DEF HttpStep, ListenAndServe, ListenFails, HandlerStarts, HandlerReturns
<1>4. Signal => UNCHANGED chanVars
  BY DEF Signal
<1>5. MainStep => UNCHANGED chanVars
  BY DEF MainStep, ShutdownServer, ShutdownReturns, ShutdownTimesOut, MainReturns
<1>6. (Ended \/ UNCHANGED vars) => UNCHANGED chanVars
  BY DEF Ended, vars
<1> QED
  BY <1>1, <1>2, <1>3, <1>4, <1>5, <1>6 DEF Next

(* The registry is written by Touch alone. *)
LEMMA RegistryFrame ==
  ASSUME [Next]_vars
  PROVE  (\E w \in Workers : TouchRegistry(w)) \/ UNCHANGED regVars
<1>1. ASSUME NEW d \in Devices, DeviceStep(d) PROVE UNCHANGED regVars
  BY <1>1 DEF DeviceStep, TickerFires, TakeTick, SendEvent, DeviceStops
<1>2. ASSUME NEW w \in Workers, WorkerStep(w) \/ BrokerStep(w), ~TouchRegistry(w)
      PROVE  UNCHANGED regVars
  BY <1>2 DEF WorkerStep, BrokerStep, Receive, WorkerExits, Dial, WriteCommand, ReadReply,
              BrokerPublishes, BrokerFails
<1>3. CloseEvents \/ Signal \/ Ended \/ UNCHANGED vars => UNCHANGED regVars
  BY DEF CloseEvents, Signal, Ended, vars
<1>4. HttpStep => UNCHANGED regVars
  BY DEF HttpStep, ListenAndServe, ListenFails, HandlerStarts, HandlerReturns
<1>5. MainStep => UNCHANGED regVars
  BY DEF MainStep, ShutdownServer, ShutdownReturns, ShutdownTimesOut, MainReturns
<1> QED
  BY <1>1, <1>2, <1>3, <1>4, <1>5 DEF Next

LEMMA ShutdownOrderStep ==
  ASSUME TypeOK, ShutdownOrder, [Next]_vars
  PROVE  ShutdownOrder'
<1>1. (closed => ProducersDone)'
  <2>1. ASSUME NEW d \in Devices, DeviceStep(d) PROVE ~closed /\ closed' = closed
    <3>1. dpc[d] # "stopped" /\ closed' = closed
      BY <2>1, SMT DEF DeviceStep, TickerFires, TakeTick, SendEvent, DeviceStops, chanVars
    <3>2. ~closed
      BY <3>1 DEF ShutdownOrder, ProducersDone
    <3> QED
      BY <3>1, <3>2
  <2>2. CASE UNCHANGED <<devVars, accepted>>
    <3>1. ProducersDone' <=> ProducersDone
      BY <2>2 DEF devVars, ProducersDone
    <3>2. CloseEvents => ProducersDone
      BY DEF CloseEvents
    <3>3. ASSUME NEW d \in Devices, SendEvent(d) PROVE ~closed /\ closed' = closed
      BY <2>1, <3>3 DEF DeviceStep
    <3>4. (\E w \in Workers : Receive(w)) \/ UNCHANGED chanVars => closed' = closed
      BY DEF Receive, chanVars
    <3> QED
      BY <3>1, <3>2, <3>3, <3>4, ChannelFrame DEF ShutdownOrder
  <2> QED
    BY <2>1, <2>2, DevicesFrame, TypeOK DEF ChannelTypeOK
<1>2. ASSUME NEW v \in Workers, wpc'[v] = "exited" PROVE RangeEnds'
  <2>1. CASE wpc[v] = "exited"
    <3>1. closed /\ events = <<>>
      BY <2>1 DEF ShutdownOrder, RangeEnds
    <3>2. ASSUME NEW d \in Devices PROVE ~SendEvent(d)
      <4>1. dpc[d] = "stopped"
        BY <3>1 DEF ShutdownOrder, ProducersDone
      <4> QED
        BY <4>1 DEF SendEvent
    <3>3. ASSUME NEW w \in Workers PROVE ~Receive(w)
      BY <3>1 DEF Receive
    <3>4. UNCHANGED chanVars
      BY <3>1, <3>2, <3>3, ChannelFrame DEF CloseEvents
    <3> QED
      BY <3>1, <3>4 DEF RangeEnds, chanVars
  <2>2. CASE wpc[v] # "exited"
    <3>1. PICK w \in Workers : WorkerStep(w) \/ BrokerStep(w)
      BY <1>2, <2>2, WorkersFrame DEF workVars
    <3>2. CASE WorkerExits(w)
      BY <3>2 DEF WorkerExits, RangeEnds, chanVars
    <3>3. CASE ~WorkerExits(w)
      <4>1. wpc' = wpc \/ \E p \in {"recv", "touch", "dial", "write", "read"} :
                            wpc' = [wpc EXCEPT ![w] = p]
        BY <3>1, <3>3, SMT DEF WorkerStep, BrokerStep, Receive, TouchRegistry, Dial, WriteCommand,
                   ReadReply, LogFailure, PublishReturns, BrokerPublishes, BrokerFails
      <4> QED
        BY <1>2, <2>2, <4>1, SMT DEF TypeOK, WorkerTypeOK
    <3> QED
      BY <3>2, <3>3
  <2> QED
    BY <2>1, <2>2
<1>3. (proc = "stopped" => WorkersDone)'
  <2>1. CASE proc = "stopped"
    <3>1. ASSUME NEW w \in Workers PROVE ~WorkerStep(w)
      BY <2>1, SMT DEF WorkerStep, Receive, WorkerExits, TouchRegistry, Dial, WriteCommand,
                       ReadReply, Alive
    <3>2. wpc' = wpc
      BY <3>1, WorkersFrame DEF BrokerStep, BrokerPublishes, BrokerFails, workVars
    <3> QED
      BY <2>1, <3>2 DEF ShutdownOrder, WorkersDone
  <2>2. CASE proc # "stopped" /\ proc' = "stopped"
    <3>1. MainReturns
      BY <2>2, ProcFrame, SMT DEF MainStep, ShutdownServer, ShutdownReturns, ShutdownTimesOut
    <3> QED
      BY <3>1 DEF MainReturns, WorkersDone, workVars
  <2> QED
    BY <2>1, <2>2
<1> QED
  BY <1>1, <1>2, <1>3 DEF ShutdownOrder

(* The listener and the requests change only in HttpStep and MainStep. *)
LEMMA HttpFrame ==
  ASSUME [Next]_vars
  PROVE  HttpStep \/ MainStep \/ UNCHANGED httpVars
<1>1. ASSUME NEW d \in Devices, DeviceStep(d) PROVE UNCHANGED httpVars
  BY <1>1 DEF DeviceStep, TickerFires, TakeTick, SendEvent, DeviceStops
<1>2. CloseEvents => UNCHANGED httpVars
  BY DEF CloseEvents
<1>3. ASSUME NEW w \in Workers, WorkerStep(w) \/ BrokerStep(w) PROVE UNCHANGED httpVars
  BY <1>3 DEF WorkerStep, BrokerStep, Receive, WorkerExits, TouchRegistry, Dial, WriteCommand,
              ReadReply, BrokerPublishes, BrokerFails
<1>4. Signal \/ Ended \/ UNCHANGED vars => UNCHANGED httpVars
  BY DEF Signal, Ended, vars
<1> QED
  BY <1>1, <1>2, <1>3, <1>4 DEF Next

LEMMA ListenerClosedStep ==
  ASSUME ListenerClosed, [Next]_vars
  PROVE  ListenerClosed'
<1>1. CASE HttpStep
  BY <1>1, SMT DEF HttpStep, ListenAndServe, ListenFails, HandlerStarts, HandlerReturns,
                   ListenerClosed, InShutdown, Alive, mainVars, httpVars
<1>2. CASE MainStep
  BY <1>2, SMT DEF MainStep, ShutdownServer, ShutdownReturns, ShutdownTimesOut, MainReturns,
                   ListenerClosed, httpVars
<1>3. CASE UNCHANGED httpVars /\ ~MainStep
  BY <1>3, ProcFrame, SMT DEF ListenerClosed, httpVars
<1> QED
  BY <1>1, <1>2, <1>3, HttpFrame

LEMMA ForcedFrame ==
  ASSUME [Next]_vars, ~MainStep
  PROVE  forced' = forced
<1>1. ASSUME NEW d \in Devices, DeviceStep(d) PROVE forced' = forced
  BY <1>1 DEF DeviceStep, TickerFires, TakeTick, SendEvent, DeviceStops, mainVars
<1>2. CloseEvents => forced' = forced
  BY DEF CloseEvents, mainVars
<1>3. ASSUME NEW w \in Workers, WorkerStep(w) \/ BrokerStep(w) PROVE forced' = forced
  BY <1>3 DEF WorkerStep, BrokerStep, Receive, WorkerExits, TouchRegistry, Dial, WriteCommand,
              ReadReply, BrokerPublishes, BrokerFails, mainVars
<1>4. HttpStep => forced' = forced
  BY DEF HttpStep, ListenAndServe, ListenFails, HandlerStarts, HandlerReturns, mainVars
<1>5. Signal \/ Ended \/ UNCHANGED vars => forced' = forced
  BY DEF Signal, Ended, vars, mainVars
<1> QED
  BY <1>1, <1>2, <1>3, <1>4, <1>5 DEF Next

LEMMA ShutdownFinishesRequestsStep ==
  ASSUME ShutdownFinishesRequests, ListenerClosed, [Next]_vars
  PROVE  ShutdownFinishesRequests'
<1>1. CASE MainStep
  BY <1>1, SMT DEF MainStep, ShutdownServer, ShutdownReturns, ShutdownTimesOut, MainReturns,
                   ShutdownFinishesRequests, httpVars
<1>2. CASE HttpStep /\ ~MainStep
  <2>1. proc' \in {"draining", "stopped"} => proc' = proc
    BY <1>2, ProcFrame
  <2>2. forced' = forced
    BY <1>2, ForcedFrame
  <2>3. proc \in {"draining", "stopped"} => inflight' \subseteq inflight
    BY <1>2, SMT DEF HttpStep, ListenAndServe, ListenFails, HandlerStarts, HandlerReturns,
                     ListenerClosed, httpVars
  <2> QED
    BY <2>1, <2>2, <2>3 DEF ShutdownFinishesRequests
<1>3. CASE UNCHANGED httpVars /\ ~MainStep
  <2>1. proc' \in {"draining", "stopped"} => proc' = proc
    BY <1>3, ProcFrame
  <2> QED
    BY <1>3, <2>1, ForcedFrame DEF ShutdownFinishesRequests, httpVars
<1> QED
  BY <1>1, <1>2, <1>3, HttpFrame

-----------------------------------------------------------------------------
(* Time stamps.                                                            *)

LEMMA TimesAdvanceStep ==
  ASSUME TypeOK, TimesAdvance, [Next]_vars
  PROVE  TimesAdvance'
<1> USE GatewayAssumption DEF TypeOK, GatewayAssumption
<1>1. \A e \in accepted : e \in Event /\ e.device \in Devices /\ e.at \in 1..MaxTicks
  BY EventFields DEF ChannelTypeOK
<1>2. ASSUME NEW d \in Devices, TickerFires(d) PROVE TimesAdvance'
  BY <1>1, <1>2, SMT DEF TickerFires, TimesAdvance, DeviceTypeOK, chanVars
<1>3. ASSUME NEW d \in Devices, TakeTick(d) PROVE TimesAdvance'
  BY <1>1, <1>3, SMT DEF TakeTick, TimesAdvance, DeviceTypeOK, chanVars
<1>4. ASSUME NEW d \in Devices, SendEvent(d) PROVE TimesAdvance'
  <2>1. CASE closed
    BY <1>4, <2>1 DEF SendEvent, TimesAdvance
  <2>2. CASE ~closed
    <3> DEFINE e == [device |-> d, at |-> pending[d]]
    <3>1. /\ dpc' = [dpc EXCEPT ![d] = "select"]
          /\ pending' = [pending EXCEPT ![d] = 0]
          /\ accepted' = accepted \cup {e}
          /\ UNCHANGED <<ticks, tickC>>
      BY <1>4, <2>2 DEF SendEvent
    <3>2. e.device = d /\ e.at = pending[d]
      OBVIOUS
    <3> HIDE DEF e
    <3> QED
      BY <1>1, <3>1, <3>2, SMT DEF TimesAdvance, DeviceTypeOK
  <2> QED
    BY <2>1, <2>2
<1>5. ASSUME NEW d \in Devices, DeviceStops(d) PROVE TimesAdvance'
  BY <1>1, <1>5, SMT DEF DeviceStops, TimesAdvance, DeviceTypeOK, chanVars
<1>6. UNCHANGED <<devVars, accepted>> => TimesAdvance'
  BY DEF devVars, TimesAdvance
<1> QED
  BY <1>2, <1>3, <1>4, <1>5, <1>6, DevicesFrame DEF DeviceStep

-----------------------------------------------------------------------------
(* Where the events are.                                                   *)

NoDuplicates == \A i, j \in DOMAIN events : events[i] = events[j] => i = j

LEMMA QueuedAfterSend ==
  ASSUME events \in Seq(Event), NoDuplicates, NEW e \in Event, e \notin Queued,
         events' = Enqueue(e)
  PROVE  Queued' = Queued \cup {e} /\ NoDuplicates'
<1>1. Len(events) \in Nat /\ DOMAIN events = 1..Len(events)
  BY SMT
<1>2. /\ DOMAIN events' = 1..(Len(events) + 1)
      /\ \A i \in 1..Len(events) : events'[i] = events[i]
      /\ events'[Len(events) + 1] = e
  BY SMT DEF Enqueue
<1>3. NoDuplicates'
  BY <1>1, <1>2, SMT DEF NoDuplicates, Queued
<1>4. Queued' = Queued \cup {e}
  BY <1>1, <1>2, SMT DEF Queued
<1> QED
  BY <1>3, <1>4

LEMMA QueuedAfterReceive ==
  ASSUME events \in Seq(Event), NoDuplicates, events # <<>>, events' = Tail(events)
  PROVE  /\ NextEvent \in Queued
         /\ Queued' = Queued \ {NextEvent}
         /\ NoDuplicates'
<1>1. /\ Len(events) \in Nat \ {0}
      /\ DOMAIN events = 1..Len(events)
      /\ NextEvent = events[1]
  BY SMT DEF NextEvent
<1>2. /\ DOMAIN events' = 1..(Len(events) - 1)
      /\ \A i \in 1..(Len(events) - 1) : events'[i] = events[i + 1]
  BY SMT
<1>3. NextEvent \in Queued
  BY <1>1, SMT DEF Queued
<1>4. NoDuplicates'
  BY <1>1, <1>2, SMT DEF NoDuplicates
<1>5. Queued' \subseteq Queued \ {NextEvent}
  BY <1>1, <1>2, SMT DEF NoDuplicates, Queued
<1>6. ASSUME NEW i \in 1..Len(events), i # 1 PROVE events[i] \in Queued'
  <2>1. i - 1 \in DOMAIN events' /\ events'[i - 1] = events[i]
    BY <1>1, <1>2, <1>6, SMT
  <2> QED
    BY <2>1 DEF Queued
<1>7. Queued \ {NextEvent} \subseteq Queued'
  BY <1>1, <1>6, SMT DEF Queued
<1> QED
  BY <1>3, <1>4, <1>5, <1>7

(* A worker that takes an event, and one that lets go of it. *)
LEMMA HeldAfterTaking ==
  ASSUME WorkerTypeOK, NEW w \in Workers, held[w] = NoEvent, NEW e \in Event,
         held' = [held EXCEPT ![w] = e]
  PROVE  /\ InHand' = InHand \cup {w}
         /\ Held' = Held \cup {e}
         /\ held'[w] = e
         /\ \A v \in Workers \ {w} : held'[v] = held[v]
<1>1. held'[w] = e /\ \A v \in Workers \ {w} : held'[v] = held[v]
  BY DEF WorkerTypeOK
<1>2. InHand' = InHand \cup {w}
  BY <1>1, NoEventIsNone DEF InHand
<1>3. Held' = Held \cup {e}
  <2>1. w \notin InHand
    BY DEF InHand
  <2> QED
    BY <1>1, <1>2, <2>1 DEF Held, InHand
<1> QED
  BY <1>1, <1>2, <1>3

LEMMA HeldAfterReturning ==
  ASSUME WorkerTypeOK, NEW w \in Workers, held[w] # NoEvent,
         \A u, v \in InHand : held[u] = held[v] => u = v,
         held' = [held EXCEPT ![w] = NoEvent]
  PROVE  /\ InHand' = InHand \ {w}
         /\ Held' = Held \ {held[w]}
         /\ held[w] \in Held
         /\ \A v \in Workers \ {w} : held'[v] = held[v]
<1>1. held'[w] = NoEvent /\ \A v \in Workers \ {w} : held'[v] = held[v]
  BY DEF WorkerTypeOK
<1>2. InHand' = InHand \ {w}
  BY <1>1 DEF InHand
<1>3. w \in InHand
  BY DEF InHand
<1>4. Held' = Held \ {held[w]}
  BY <1>1, <1>2, <1>3 DEF Held, InHand
<1> QED
  BY <1>1, <1>2, <1>3, <1>4 DEF Held

(* An event about to be sent has never been accepted: its time is newer. *)
LEMMA SentIsNew ==
  ASSUME TypeOK, TimesAdvance, NEW d \in Devices, SendEvent(d), ~closed,
         NEW e, e = [device |-> d, at |-> pending[d]]
  PROVE  /\ e \in Event
         /\ e \notin accepted
         /\ events' = Enqueue(e)
         /\ accepted' = accepted \cup {e}
<1>1. dpc[d] = "send" /\ events' = Enqueue(e) /\ accepted' = accepted \cup {e}
  BY DEF SendEvent
<1>2. e \in Event
  BY <1>1, GatewayAssumption, SMT
  DEF TypeOK, TimesAdvance, DeviceTypeOK, Event, GatewayAssumption
<1>3. e.device = d /\ e.at = pending[d] /\ pending[d] # 0 /\ pending[d] \in Nat
  BY <1>1, GatewayAssumption, SMT DEF TypeOK, TimesAdvance, DeviceTypeOK, GatewayAssumption
<1>4. e \notin accepted
  BY <1>3, SMT DEF TimesAdvance
<1> QED
  BY <1>1, <1>2, <1>4

LEMMA PublishReturnsConserves ==
  ASSUME TypeOK, EventsConserved, NEW w \in Workers, held[w] # NoEvent, PublishReturns(w),
         Decided' = Decided \cup {held[w]}, UNCHANGED chanVars
  PROVE  EventsConserved'
<1>1. /\ InHand' = InHand \ {w}
      /\ Held' = Held \ {held[w]}
      /\ held[w] \in Held
      /\ \A v \in Workers \ {w} : held'[v] = held[v]
  BY HeldAfterReturning DEF TypeOK, EventsConserved, PublishReturns
<1>2. Queued' = Queued /\ accepted' = accepted /\ events' = events
  BY DEF chanVars, Queued
<1>3. accepted' = Queued' \cup Held' \cup Decided'
  BY <1>1, <1>2 DEF EventsConserved
<1>4. Queued' \cap Held' = {} /\ (Queued' \cup Held') \cap Decided' = {}
  BY <1>1, <1>2 DEF EventsConserved
<1>5. \A u, v \in InHand' : held'[u] = held'[v] => u = v
  BY <1>1 DEF EventsConserved, InHand
<1> QED
  BY <1>2, <1>3, <1>4, <1>5 DEF EventsConserved

LEMMA EventsConservedStep ==
  ASSUME TypeOK, WorkerControl, TimesAdvance, EventsConserved, [Next]_vars
  PROVE  EventsConserved'
<1> USE DEF TypeOK
<1>1. ASSUME NEW d \in Devices, SendEvent(d) PROVE EventsConserved'
  <2>1. UNCHANGED <<held, acked, failed>>
    BY <1>1 DEF SendEvent, workVars
  <2>2. CASE closed
    BY <1>1, <2>1, <2>2
    DEF SendEvent, EventsConserved, Queued, Held, InHand, Decided
  <2>3. CASE ~closed
    <3> DEFINE e == [device |-> d, at |-> pending[d]]
    <3>1. /\ e \in Event
          /\ e \notin accepted
          /\ events' = Enqueue(e)
          /\ accepted' = accepted \cup {e}
      BY <1>1, <2>3, SentIsNew
    <3> HIDE DEF e
    <3>2. e \notin Queued /\ e \notin Held /\ e \notin Decided
      BY <3>1 DEF EventsConserved
    <3>3. Queued' = Queued \cup {e} /\ NoDuplicates'
      BY <3>1, <3>2, QueuedAfterSend DEF EventsConserved, NoDuplicates, ChannelTypeOK
    <3>4. Held' = Held /\ InHand' = InHand /\ held' = held /\ Decided' = Decided
      BY <2>1 DEF Held, InHand, Decided
    <3> QED
      BY <3>1, <3>2, <3>3, <3>4 DEF EventsConserved, NoDuplicates
  <2> QED
    BY <2>2, <2>3
<1>2. ASSUME NEW w \in Workers, Receive(w) PROVE EventsConserved'
  <2> DEFINE e == NextEvent
  <2>1. /\ held[w] = NoEvent
        /\ events # <<>> /\ events' = Tail(events)
        /\ held' = [held EXCEPT ![w] = e]
        /\ UNCHANGED <<accepted, acked, failed>>
    BY <1>2 DEF Receive, WorkerControl
  <2>2. e \in Event
    BY <2>1, QueueReceive DEF ChannelTypeOK
  <2>3. e \in Queued /\ Queued' = Queued \ {e} /\ NoDuplicates'
    BY <2>1, QueuedAfterReceive DEF EventsConserved, NoDuplicates, ChannelTypeOK
  <2>4. /\ InHand' = InHand \cup {w}
        /\ Held' = Held \cup {e}
        /\ held'[w] = e
        /\ \A v \in Workers \ {w} : held'[v] = held[v]
    BY <2>1, <2>2, HeldAfterTaking
  <2> HIDE DEF e
  <2>5. Decided' = Decided
    BY <2>1 DEF Decided
  <2>6. accepted' = Queued' \cup Held' \cup Decided'
    BY <2>1, <2>3, <2>4, <2>5 DEF EventsConserved
  <2>7. Queued' \cap Held' = {} /\ (Queued' \cup Held') \cap Decided' = {}
    BY <2>3, <2>4, <2>5 DEF EventsConserved
  <2>8. \A u, v \in InHand' : held'[u] = held'[v] => u = v
    <3>1. \A v \in InHand : held[v] # e
      BY <2>3 DEF EventsConserved, Held
    <3> QED
      BY <2>4, <3>1 DEF EventsConserved, InHand
  <2> QED
    BY <2>3, <2>6, <2>7, <2>8 DEF EventsConserved, NoDuplicates
<1>3. ASSUME NEW w \in Workers, Dial(w) \/ WriteCommand(w) \/ ReadReply(w)
      PROVE  EventsConserved'
  <2>1. held[w] # NoEvent /\ UNCHANGED chanVars
    BY <1>3, HandsFull DEF Dial, WriteCommand, ReadReply
  <2>2. CASE PublishReturns(w)
    <3>1. Decided' = Decided \cup {held[w]}
      BY <1>3, <2>1, <2>2, SMT DEF Dial, WriteCommand, ReadReply, LogFailure, PublishReturns,
                        Decided, WorkerTypeOK
    <3> QED
      BY <2>1, <2>2, <3>1, PublishReturnsConserves
  <2>3. CASE ~PublishReturns(w)
    BY <1>3, <2>1, <2>3
    DEF Dial, WriteCommand, ReadReply, LogFailure, EventsConserved, Queued, Held, InHand, Decided,
        chanVars
  <2> QED
    BY <2>2, <2>3
<1>4. ASSUME NEW w \in Workers, WorkerExits(w) \/ TouchRegistry(w) \/ BrokerStep(w)
      PROVE  EventsConserved'
  BY <1>4 DEF WorkerExits, TouchRegistry, BrokerStep, BrokerPublishes, BrokerFails,
              EventsConserved, Queued, Held, InHand, Decided, chanVars
<1>5. CASE CloseEvents
  BY <1>5 DEF CloseEvents, EventsConserved, Queued, Held, InHand, Decided, workVars
<1>6. CASE UNCHANGED <<chanVars, workVars>>
  BY <1>6 DEF EventsConserved, Queued, Held, InHand, Decided, workVars, chanVars
<1> QED
  BY <1>1, <1>2, <1>3, <1>4, <1>5, <1>6, WorkersFrame, ChannelFrame DEF WorkerStep

-----------------------------------------------------------------------------
(* What the broker has published.                                          *)

LEMMA PublishedOnceStep ==
  ASSUME TypeOK, WorkerControl, TimesAdvance, EventsConserved, PublishedOnce, [Next]_vars
  PROVE  PublishedOnce'
<1> USE DEF TypeOK
<1>1. ASSUME NEW d \in Devices, SendEvent(d) PROVE PublishedOnce'
  <2>1. UNCHANGED <<wpc, held, conn, acked, published>>
    BY <1>1 DEF SendEvent, workVars
  <2>2. CASE closed
    BY <1>1, <2>1, <2>2 DEF SendEvent, PublishedOnce, Queued
  <2>3. CASE ~closed
    <3> DEFINE e == [device |-> d, at |-> pending[d]]
    <3>1. /\ e \in Event
          /\ e \notin accepted
          /\ events' = Enqueue(e)
          /\ accepted' = accepted \cup {e}
      BY <1>1, <2>3, SentIsNew
    <3> HIDE DEF e
    <3>2. e \notin Queued
      BY <3>1 DEF EventsConserved
    <3>3. Queued' = Queued \cup {e}
      BY <3>1, <3>2, QueuedAfterSend DEF EventsConserved, NoDuplicates, ChannelTypeOK
    <3> QED
      BY <2>1, <3>1, <3>3 DEF PublishedOnce
  <2> QED
    BY <2>2, <2>3
<1>2. ASSUME NEW w \in Workers, Receive(w) PROVE PublishedOnce'
  <2> DEFINE e == NextEvent
  <2>1. /\ events # <<>> /\ events' = Tail(events)
        /\ wpc[w] = "recv" /\ wpc' = [wpc EXCEPT ![w] = "touch"]
        /\ held' = [held EXCEPT ![w] = e]
        /\ UNCHANGED <<accepted, conn, acked, published>>
    BY <1>2 DEF Receive
  <2>2. e \in Queued /\ Queued' = Queued \ {e}
    BY <2>1, QueuedAfterReceive DEF EventsConserved, NoDuplicates, ChannelTypeOK
  <2> HIDE DEF e
  <2>3. e \notin published
    BY <2>2 DEF PublishedOnce
  <2>4. conn[w] \notin {"sent", "ok"}
    BY <2>1 DEF WorkerControl
  <2> QED
    BY <2>1, <2>2, <2>3, <2>4, SMT DEF PublishedOnce, WorkerTypeOK
<1>3. ASSUME NEW w \in Workers, PublishReturns(w), acked' \subseteq published,
             UNCHANGED <<chanVars, published>>
      PROVE  PublishedOnce'
  <2>1. Queued' = Queued /\ accepted' = accepted
    BY <1>3 DEF chanVars, Queued
  <2> QED
    BY <1>3, <2>1, SMT DEF PublishReturns, PublishedOnce, WorkerTypeOK
<1>4. ASSUME NEW w \in Workers, Dial(w) \/ WriteCommand(w), ~PublishReturns(w)
      PROVE  PublishedOnce'
  <2>1. Queued' = Queued /\ UNCHANGED <<accepted, published, held, acked>>
    BY <1>4 DEF Dial, WriteCommand, LogFailure, chanVars, Queued
  <2>2. /\ wpc[w] \in {"dial", "write"}
        /\ \/ wpc' = [wpc EXCEPT ![w] = "write"] /\ conn' = [conn EXCEPT ![w] = "open"]
           \/ wpc' = [wpc EXCEPT ![w] = "read"] /\ conn' = [conn EXCEPT ![w] = "sent"]
    BY <1>4 DEF Dial, WriteCommand, LogFailure
  <2> QED
    BY <2>1, <2>2, SMT DEF PublishedOnce, WorkerTypeOK
<1>5. ASSUME NEW w \in Workers, Dial(w) \/ WriteCommand(w), PublishReturns(w)
      PROVE  acked' \subseteq published /\ UNCHANGED <<chanVars, published>>
  <2>1. acked' = acked /\ UNCHANGED <<chanVars, published>>
    BY <1>5, SMT DEF Dial, WriteCommand, LogFailure, PublishReturns, WorkerTypeOK
  <2> QED
    BY <2>1 DEF PublishedOnce
<1>6. ASSUME NEW w \in Workers, ReadReply(w)
      PROVE  PublishReturns(w) /\ acked' \subseteq published /\ UNCHANGED <<chanVars, published>>
  BY <1>6 DEF ReadReply, LogFailure, PublishedOnce
<1>7. ASSUME NEW w \in Workers, WorkerExits(w) \/ TouchRegistry(w) PROVE PublishedOnce'
  <2>1. /\ Queued' = Queued
        /\ UNCHANGED <<accepted, published, held, acked, conn>>
    BY <1>7 DEF WorkerExits, TouchRegistry, chanVars, Queued
  <2>2. \/ wpc' = [wpc EXCEPT ![w] = "exited"]
        \/ wpc[w] = "touch" /\ wpc' = [wpc EXCEPT ![w] = "dial"]
    BY <1>7 DEF WorkerExits, TouchRegistry
  <2> QED
    BY <2>1, <2>2, SMT DEF PublishedOnce, WorkerTypeOK
<1>8. ASSUME NEW w \in Workers, BrokerPublishes(w) PROVE PublishedOnce'
  <2>1. /\ wpc[w] = "read" /\ held[w] # NoEvent
        /\ published' = published \cup {held[w]}
        /\ conn' = [conn EXCEPT ![w] = "ok"]
        /\ Queued' = Queued
        /\ UNCHANGED <<accepted, wpc, held, acked>>
    BY <1>8 DEF BrokerPublishes, WorkerControl, chanVars, Queued
  <2>2. held[w] \in Held
    BY <2>1 DEF Held, InHand
  <2>3. published' \subseteq accepted' /\ acked' \subseteq published'
    BY <2>1, <2>2 DEF EventsConserved, PublishedOnce
  <2>4. Queued' \cap published' = {}
    BY <2>1, <2>2 DEF EventsConserved, PublishedOnce
  <2>5. ASSUME NEW v \in Workers, v # w
        PROVE  /\ wpc'[v] \in {"touch", "dial", "write"} => held'[v] \notin published'
               /\ conn'[v] = "sent" => held'[v] \notin published'
               /\ conn'[v] = "ok" => held'[v] \in published'
    <3>1. conn'[v] = conn[v]
      BY <2>1, <2>5, SMT DEF WorkerTypeOK
    <3>2. wpc[v] \in {"touch", "dial", "write"} \/ conn[v] = "sent" => held[v] # NoEvent
      BY DEF WorkerControl
    <3>3. held[v] # NoEvent => held[v] # held[w]
      BY <2>1, <2>5 DEF EventsConserved, InHand
    <3> QED
      BY <2>1, <3>1, <3>2, <3>3 DEF PublishedOnce
  <2>6. conn'[w] = "ok" /\ wpc'[w] = "read" /\ held'[w] \in published'
    BY <2>1, SMT DEF WorkerTypeOK
  <2> QED
    BY <2>3, <2>4, <2>5, <2>6 DEF PublishedOnce
<1>9. ASSUME NEW w \in Workers, BrokerFails(w) PROVE PublishedOnce'
  <2>1. /\ conn' = [conn EXCEPT ![w] = "bad"]
        /\ Queued' = Queued
        /\ UNCHANGED <<accepted, wpc, held, acked, published>>
    BY <1>9 DEF BrokerFails, chanVars, Queued
  <2> QED
    BY <2>1, SMT DEF PublishedOnce, WorkerTypeOK
<1>10. CASE CloseEvents
  BY <1>10 DEF CloseEvents, PublishedOnce, Queued, workVars
<1>11. CASE UNCHANGED <<chanVars, workVars, published>>
  BY <1>11 DEF PublishedOnce, Queued, workVars, chanVars
<1> QED
  BY <1>1, <1>2, <1>3, <1>4, <1>5, <1>6, <1>7, <1>8, <1>9, <1>10, <1>11, WorkersFrame, ChannelFrame
     DEF WorkerStep, BrokerStep

-----------------------------------------------------------------------------
(* The inductive invariant.                                                *)

LEMMA GatewayInvInit == Init => GatewayInv
<1> SUFFICES ASSUME Init PROVE GatewayInv
  OBVIOUS
<1>1. TypeOK
  BY TypeInit
<1>2. NeverPanics /\ ListenerClosed /\ ShutdownFinishesRequests
  BY DEF Init, NeverPanics, ListenerClosed, ShutdownFinishesRequests
<1>3. WorkerControl
  BY DEF Init, WorkerControl
<1>4. ShutdownOrder
  BY DEF Init, ShutdownOrder
<1>5. TimesAdvance
  BY SMT DEF Init, TimesAdvance
<1>6. EventsConserved
  <2>1. Queued = {} /\ Held = {} /\ Decided = {} /\ InHand = {} /\ DOMAIN events = {}
    BY SMT DEF Init, Queued, Held, InHand, Decided
  <2> QED
    BY <2>1 DEF Init, EventsConserved
<1>7. PublishedOnce
  BY SMT DEF Init, PublishedOnce
<1> QED
  BY <1>1, <1>2, <1>3, <1>4, <1>5, <1>6, <1>7 DEF GatewayInv

LEMMA GatewayInvStep == GatewayInv /\ [Next]_vars => GatewayInv'
BY TypeStep, NeverPanicsStep, WorkerControlStep, ShutdownOrderStep, ListenerClosedStep,
   ShutdownFinishesRequestsStep, TimesAdvanceStep, EventsConservedStep, PublishedOnceStep
   DEF GatewayInv

(* GatewayInv holds of every reachable state: the strengthening that makes *)
(* the properties below inductive.                                         *)
THEOREM Invariance == Spec => []GatewayInv
BY GatewayInvInit, GatewayInvStep, PTL DEF Spec

(* Every variable stays in its range, and the channel within its buffer.   *)
THEOREM TypeCorrect == Spec => []TypeOK
<1>1. GatewayInv => TypeOK
  BY DEF GatewayInv
<1> QED
  BY <1>1, Invariance, PTL

(* No device goroutine ever sends on the closed channel (main.go:243-249). *)
THEOREM PanicFree == Spec => []NeverPanics
<1>1. GatewayInv => NeverPanics
  BY DEF GatewayInv
<1> QED
  BY <1>1, Invariance, PTL

(* No event that entered the channel is lost or duplicated on its way      *)
(* through the buffer and the worker pool (main.go:126-143).               *)
THEOREM Conservation == Spec => []EventsConserved
<1>1. GatewayInv => EventsConserved
  BY DEF GatewayInv
<1> QED
  BY <1>1, Invariance, PTL

(* The broker never gets a command for an event it has already published.  *)
THEOREM AtMostOneAttempt == Spec => []TriedOnce
<1>1. GatewayInv => TriedOnce
  BY DEF GatewayInv, PublishedOnce, TriedOnce
<1> QED
  BY <1>1, Invariance, PTL

(* A shutdown that did not time out leaves no request half answered.       *)
THEOREM GracefulRequests == Spec => []ShutdownFinishesRequests
<1>1. GatewayInv => ShutdownFinishesRequests
  BY DEF GatewayInv
<1> QED
  BY <1>1, Invariance, PTL

-----------------------------------------------------------------------------
(* Event counts.                                                           *)

CountInv == IsFiniteSet(accepted) /\ CountsMatch

LEMMA TouchedFinite ==
  ASSUME IsFiniteSet(accepted), NEW d
  PROVE  IsFiniteSet(Touched(d))
<1>1. Touched(d) \subseteq accepted
  BY DEF Touched
<1> QED
  BY <1>1, FS_Subset

(* Only a Touch changes what counts as touched. *)
LEMMA CountKept ==
  ASSUME CountInv, accepted' \ Untouched' = accepted \ Untouched, count' = count,
         IsFiniteSet(accepted')
  PROVE  CountInv'
<1>1. \A d : Touched(d)' = Touched(d)
  BY DEF Touched
<1> QED
  BY <1>1 DEF CountInv, CountsMatch

LEMMA CountInvStep ==
  ASSUME GatewayInv, CountInv, [Next]_vars
  PROVE  CountInv'
<1> USE DEF GatewayInv, TypeOK
<1> DEFINE InTouch == {v \in Workers : wpc[v] = "touch"}
<1>1. ASSUME NEW d \in Devices, SendEvent(d) PROVE CountInv'
  <2>1. UNCHANGED <<wpc, held, count>>
    BY <1>1 DEF SendEvent, workVars, regVars
  <2>2. CASE closed
    BY <1>1, <2>2 DEF SendEvent, ShutdownOrder, ProducersDone
  <2>3. CASE ~closed
    <3> DEFINE e == [device |-> d, at |-> pending[d]]
    <3>1. /\ e \in Event
          /\ e \notin accepted
          /\ events' = Enqueue(e)
          /\ accepted' = accepted \cup {e}
      BY <1>1, <2>3, SentIsNew
    <3> HIDE DEF e
    <3>2. Queued' = Queued \cup {e}
      BY <3>1, QueuedAfterSend DEF EventsConserved, NoDuplicates, ChannelTypeOK
    <3>3. accepted' \ Untouched' = accepted \ Untouched
      BY <2>1, <3>1, <3>2 DEF Untouched
    <3>4. IsFiniteSet(accepted')
      BY <3>1, FS_AddElement DEF CountInv
    <3> QED
      BY <2>1, <3>3, <3>4, CountKept
  <2> QED
    BY <2>2, <2>3
<1>2. ASSUME NEW w \in Workers, Receive(w) PROVE CountInv'
  <2> DEFINE e == NextEvent
  <2>1. /\ events # <<>> /\ events' = Tail(events)
        /\ wpc[w] = "recv" /\ wpc' = [wpc EXCEPT ![w] = "touch"]
        /\ held' = [held EXCEPT ![w] = e]
        /\ UNCHANGED <<accepted, count>>
    BY <1>2 DEF Receive, regVars
  <2>2. e \in Queued /\ Queued' = Queued \ {e}
    BY <2>1, QueuedAfterReceive DEF EventsConserved, NoDuplicates, ChannelTypeOK
  <2> HIDE DEF e
  <2>3. InTouch' = InTouch \cup {w} /\ w \notin InTouch
    BY <2>1, SMT DEF WorkerTypeOK
  <2>4. held'[w] = e /\ \A v \in InTouch : held'[v] = held[v]
    BY <2>1, <2>3, SMT DEF WorkerTypeOK
  <2>5. {held'[v] : v \in InTouch'} = {held[v] : v \in InTouch} \cup {e}
    BY <2>3, <2>4
  <2>6. Untouched' = Untouched
    BY <2>2, <2>5 DEF Untouched
  <2> QED
    BY <2>1, <2>6, CountKept DEF CountInv
<1>3. ASSUME NEW w \in Workers, TouchRegistry(w) PROVE CountInv'
  <2> DEFINE e == held[w]
             d == held[w].device
  <2>1. /\ wpc[w] = "touch" /\ wpc' = [wpc EXCEPT ![w] = "dial"]
        /\ count' = [count EXCEPT ![d] = @ + 1]
        /\ UNCHANGED <<events, accepted, held>>
    BY <1>3 DEF TouchRegistry, Touch, chanVars
  <2>2. w \in InHand /\ e \in Held /\ e \in Event /\ d \in Devices
    BY <2>1, HandsFull, EventFields DEF Held
  <2>3. InTouch' = InTouch \ {w} /\ w \in InTouch /\ InTouch \subseteq InHand
    BY <2>1, SMT DEF WorkerTypeOK, WorkerControl, InHand
  <2>4. \A v \in InTouch' : held[v] # e
    BY <2>2, <2>3 DEF EventsConserved
  <2>5. Untouched' = Untouched \ {e} /\ e \in Untouched /\ e \in accepted
    <3>1. Queued' = Queued /\ e \notin Queued /\ e \in accepted
      BY <2>1, <2>2 DEF Queued, EventsConserved
    <3>2. {held'[v] : v \in InTouch'} = {held[v] : v \in InTouch} \ {e}
      BY <2>1, <2>3, <2>4
    <3> QED
      BY <2>3, <3>1, <3>2 DEF Untouched
  <2>6. ASSUME NEW c \in Devices PROVE count'[c] = Cardinality(Touched(c)')
    <3>1. CASE c = d
      <4>1. Touched(c)' = Touched(c) \cup {e} /\ e \notin Touched(c)
        BY <2>1, <2>5, <3>1 DEF Touched
      <4>2. Cardinality(Touched(c) \cup {e}) = Cardinality(Touched(c)) + 1
        BY <4>1, TouchedFinite, FS_AddElement DEF CountInv
      <4>3. count'[c] = count[c] + 1
        BY <2>1, <2>2, <3>1, SMT DEF RegistryTypeOK
      <4> QED
        BY <4>1, <4>2, <4>3 DEF CountInv, CountsMatch
    <3>2. CASE c # d
      <4>1. Touched(c)' = Touched(c)
        BY <2>1, <2>5, <3>2 DEF Touched
      <4>2. count'[c] = count[c]
        BY <2>1, <3>2 DEF RegistryTypeOK
      <4> QED
        BY <4>1, <4>2 DEF CountInv, CountsMatch
    <3> QED
      BY <3>1, <3>2
  <2> QED
    BY <2>1, <2>6 DEF CountInv, CountsMatch
<1>4. ASSUME NEW w \in Workers, Dial(w) \/ WriteCommand(w) \/ ReadReply(w) \/ WorkerExits(w)
      PROVE  CountInv'
  <2>1. UNCHANGED <<events, accepted, count>>
    BY <1>4 DEF Dial, WriteCommand, ReadReply, WorkerExits, chanVars, regVars
  <2>2. /\ wpc[w] # "touch" /\ wpc'[w] # "touch"
        /\ \A v \in Workers \ {w} : wpc'[v] = wpc[v] /\ held'[v] = held[v]
    BY <1>4, SMT DEF Dial, WriteCommand, ReadReply, WorkerExits, LogFailure, PublishReturns,
                     WorkerTypeOK
  <2>3. Untouched' = Untouched
    <3>1. InTouch' = InTouch /\ w \notin InTouch
      BY <2>2
    <3>2. \A v \in InTouch : held'[v] = held[v]
      BY <2>2, <3>1
    <3>3. {held'[v] : v \in InTouch'} = {held[v] : v \in InTouch}
      BY <3>1, <3>2
    <3> QED
      BY <2>1, <3>3 DEF Untouched, Queued
  <2> QED
    BY <2>1, <2>3, CountKept DEF CountInv
<1>5. ASSUME NEW w \in Workers, BrokerStep(w) PROVE CountInv'
  BY <1>5, CountKept
  DEF BrokerStep, BrokerPublishes, BrokerFails, Untouched, Queued, chanVars, regVars, CountInv
<1>6. CASE CloseEvents
  BY <1>6, CountKept DEF CloseEvents, Untouched, Queued, workVars, regVars, CountInv
<1>7. CASE UNCHANGED <<chanVars, workVars>>
  <2>1. count' = count
    <3>1. ASSUME NEW w \in Workers PROVE ~TouchRegistry(w)
      BY <1>7, SMT DEF TouchRegistry, workVars, WorkerTypeOK
    <3> QED
      BY <3>1, RegistryFrame DEF regVars
  <2> QED
    BY <1>7, <2>1, CountKept DEF Untouched, Queued, workVars, chanVars, CountInv
<1> QED
  BY <1>1, <1>2, <1>3, <1>4, <1>5, <1>6, <1>7, WorkersFrame, ChannelFrame DEF WorkerStep

(* EventCount never drifts from the events that were handled: the counter  *)
(* of every device equals the number of its events past Touch              *)
(* (main.go:65-75, 129).                                                   *)
THEOREM CountsAreExact == Spec => []CountsMatch
<1>1. Init => CountInv
  <2> SUFFICES ASSUME Init PROVE CountInv
    OBVIOUS
  <2>1. accepted = {} /\ \A d : Touched(d) = {}
    BY DEF Init, Touched
  <2> QED
    BY <2>1, FS_EmptySet DEF Init, CountInv, CountsMatch
<1>2. GatewayInv /\ CountInv /\ [Next]_vars => CountInv'
  BY CountInvStep
<1>3. CountInv => CountsMatch
  BY DEF CountInv
<1> QED
  BY <1>1, <1>2, <1>3, Invariance, PTL DEF Spec

-----------------------------------------------------------------------------
(* The order of a device's events.                                         *)

(* ReportsInOrder, with what keeps it so: an event in a worker's hands is  *)
(* older than those of its device that still wait, and what the registry   *)
(* reports is an event that was accepted.                                  *)
OrderInv ==
  /\ \A i \in DOMAIN events : lastSeen[events[i].device] < events[i].at
  /\ \A i, j \in DOMAIN events :
       i < j /\ events[i].device = events[j].device => events[i].at < events[j].at
  /\ \A w \in InHand : \A i \in DOMAIN events :
       held[w].device = events[i].device => held[w].at < events[i].at
  /\ \A d \in Devices :
       lastSeen[d] # 0 => [device |-> d, at |-> lastSeen[d]] \in accepted

LEMMA OrderFrame ==
  ASSUME WorkerTypeOK, [Next]_vars
  PROVE  \/ \E d \in Devices : SendEvent(d)
         \/ \E w \in Workers : Receive(w) \/ TouchRegistry(w)
         \/ /\ UNCHANGED <<events, accepted, lastSeen>>
            /\ \A v \in Workers : held'[v] \in {held[v], NoEvent}
<1>1. UNCHANGED workVars => \A v \in Workers : held'[v] = held[v]
  BY DEF workVars
<1>2. ASSUME NEW w \in Workers, PublishReturns(w)
      PROVE  \A v \in Workers : held'[v] \in {held[v], NoEvent}
  BY <1>2 DEF PublishReturns, WorkerTypeOK
<1>3. ASSUME NEW w \in Workers, WorkerStep(w) \/ BrokerStep(w),
             ~Receive(w), ~TouchRegistry(w)
      PROVE  /\ UNCHANGED <<events, accepted, lastSeen>>
             /\ \A v \in Workers : held'[v] \in {held[v], NoEvent}
  <2>1. PublishReturns(w) \/ held' = held
    BY <1>3 DEF WorkerStep, BrokerStep, WorkerExits, Dial, WriteCommand, ReadReply,
                LogFailure, BrokerPublishes, BrokerFails
  <2>2. UNCHANGED <<events, accepted, lastSeen>>
    BY <1>3 DEF WorkerStep, BrokerStep, WorkerExits, Dial, WriteCommand, ReadReply,
                BrokerPublishes, BrokerFails, chanVars, regVars
  <2> QED
    BY <2>1, <2>2, <1>2
<1>4. ASSUME NEW d \in Devices, DeviceStep(d), ~SendEvent(d)
      PROVE  UNCHANGED <<chanVars, workVars, regVars>>
  BY <1>4 DEF DeviceStep, TickerFires, TakeTick, DeviceStops
<1>5. CloseEvents => UNCHANGED <<events, accepted, workVars, regVars>>
  BY DEF CloseEvents
<1>6. HttpStep \/ Signal \/ MainStep => UNCHANGED <<chanVars, workVars, regVars>>
  BY DEF HttpStep, ListenAndServe, ListenFails, HandlerStarts, HandlerReturns, Signal,
         MainStep, ShutdownServer, ShutdownReturns, ShutdownTimesOut, MainReturns
<1>7. Ended \/ UNCHANGED vars => UNCHANGED <<chanVars, workVars, regVars>>
  BY DEF Ended, vars
<1> QED
  BY <1>1, <1>3, <1>4, <1>5, <1>6, <1>7 DEF Next, chanVars, regVars

(* What a device sends is newer than anything it has sent before.          *)
LEMMA OrderSend ==
  ASSUME GatewayInv, OrderInv, NEW d \in Devices, SendEvent(d)
  PROVE  OrderInv'
<1> USE DEF GatewayInv
<1> DEFINE e == [device |-> d, at |-> pending[d]]
<1>1. lastSeen' = lastSeen /\ held' = held
  BY DEF SendEvent, regVars, workVars
<1>2. InHand' = InHand
  BY <1>1 DEF InHand
<1>3. CASE closed
  <2>1. events' = events /\ accepted' = accepted
    BY <1>3 DEF SendEvent
  <2> QED
    BY <1>1, <1>2, <2>1 DEF OrderInv
<1>4. CASE ~closed
  <2>1. dpc[d] = "send" /\ events' = Append(events, e) /\ accepted' = accepted \cup {e}
    BY <1>4 DEF SendEvent, Enqueue
  <2>2. events \in Seq(Event) /\ pending[d] \in Nat /\ pending[d] # 0
    BY <2>1, GatewayAssumption, SMT
    DEF TypeOK, ChannelTypeOK, DeviceTypeOK, TimesAdvance, GatewayAssumption
  <2>3. \A f \in accepted : f.device = d => f.at < pending[d]
    BY <2>2 DEF TimesAdvance
  <2>4. \A i \in DOMAIN events : events[i] \in accepted
    BY DEF EventsConserved, Queued
  <2>5. lastSeen[d] < pending[d]
    <3>1. CASE lastSeen[d] = 0
      BY <2>2, <3>1
    <3>2. CASE lastSeen[d] # 0
      BY <2>3, <3>2 DEF OrderInv
    <3> QED
      BY <3>1, <3>2
  <2>6. \A w \in InHand : held[w].device = d => held[w].at < pending[d]
    BY <2>3 DEF EventsConserved, Held
  <2>7. /\ DOMAIN events' = 1..(Len(events) + 1)
        /\ DOMAIN events = 1..Len(events)
        /\ Len(events) \in Nat
        /\ \A i \in 1..Len(events) : events'[i] = events[i]
        /\ events'[Len(events) + 1] = e
    BY <2>1, <2>2
  <2>8. \A i \in DOMAIN events' :
          \/ i \in DOMAIN events /\ events'[i] = events[i]
          \/ i = Len(events) + 1 /\ events'[i].device = d /\ events'[i].at = pending[d]
    BY <2>7
  <2>9. \A i \in DOMAIN events' : lastSeen'[events'[i].device] < events'[i].at
    BY <1>1, <2>5, <2>8 DEF OrderInv
  <2>10. \A i, j \in DOMAIN events' :
           i < j /\ events'[i].device = events'[j].device => events'[i].at < events'[j].at
    <3> SUFFICES ASSUME NEW i \in DOMAIN events', NEW j \in DOMAIN events',
                        i < j, events'[i].device = events'[j].device
                 PROVE  events'[i].at < events'[j].at
      OBVIOUS
    <3>1. i \in DOMAIN events /\ events'[i] = events[i]
      BY <2>7
    <3>2. CASE j \in DOMAIN events
      BY <2>7, <3>1, <3>2 DEF OrderInv
    <3>3. CASE j = Len(events) + 1
      BY <2>3, <2>4, <2>7, <3>1, <3>3
    <3> QED
      BY <2>7, <3>2, <3>3
  <2>11. \A w \in InHand' : \A i \in DOMAIN events' :
           held'[w].device = events'[i].device => held'[w].at < events'[i].at
    BY <1>1, <1>2, <2>6, <2>8 DEF OrderInv
  <2>12. \A c \in Devices :
           lastSeen'[c] # 0 => [device |-> c, at |-> lastSeen'[c]] \in accepted'
    BY <1>1, <2>1 DEF OrderInv
  <2> QED
    BY <2>9, <2>10, <2>11, <2>12 DEF OrderInv
<1> QED
  BY <1>3, <1>4

(* The event a worker takes is the oldest of its device.                   *)
LEMMA OrderReceive ==
  ASSUME GatewayInv, OrderInv, NEW w \in Workers, Receive(w)
  PROVE  OrderInv'
<1> USE DEF GatewayInv
<1>1. /\ events # <<>>
      /\ events' = Tail(events)
      /\ held' = [held EXCEPT ![w] = Head(events)]
      /\ UNCHANGED <<accepted, lastSeen>>
  BY DEF Receive, NextEvent, regVars
<1>2. events \in Seq(Event) /\ held \in [Workers -> Event \cup {NoEvent}]
  BY DEF TypeOK, ChannelTypeOK, WorkerTypeOK
<1>3. /\ 1 \in DOMAIN events
      /\ Head(events) = events[1]
      /\ \A i \in DOMAIN events' : i + 1 \in DOMAIN events /\ events'[i] = events[i + 1] /\ 1 < i + 1
      /\ \A i, j \in DOMAIN events' : i < j => i + 1 < j + 1
  BY <1>1, <1>2
<1>4. \A i \in DOMAIN events' : lastSeen'[events'[i].device] < events'[i].at
  BY <1>1, <1>3 DEF OrderInv
<1>5. \A i, j \in DOMAIN events' :
        i < j /\ events'[i].device = events'[j].device => events'[i].at < events'[j].at
  BY <1>3 DEF OrderInv
<1>6. ASSUME NEW v \in InHand', NEW i \in DOMAIN events', held'[v].device = events'[i].device
      PROVE  held'[v].at < events'[i].at
  <2>1. v \in Workers
    BY DEF InHand
  <2>2. CASE v = w
    BY <1>1, <1>2, <1>3, <1>6, <2>2 DEF OrderInv
  <2>3. CASE v # w
    <3>1. held'[v] = held[v] /\ v \in InHand
      BY <1>1, <1>2, <2>1, <2>3 DEF InHand
    <3> QED
      BY <1>3, <1>6, <3>1 DEF OrderInv
  <2> QED
    BY <2>2, <2>3
<1>7. \A d \in Devices :
        lastSeen'[d] # 0 => [device |-> d, at |-> lastSeen'[d]] \in accepted'
  BY <1>1 DEF OrderInv
<1> QED
  BY <1>4, <1>5, <1>6, <1>7 DEF OrderInv

(* Touch records an event that is older than those of its device that wait. *)
LEMMA OrderTouch ==
  ASSUME GatewayInv, OrderInv, NEW w \in Workers, TouchRegistry(w)
  PROVE  OrderInv'
<1> USE DEF GatewayInv
<1> DEFINE c == held[w].device
           t == held[w].at
<1>1. w \in InHand /\ held[w] \in Event
  BY HandsFull DEF TouchRegistry, TypeOK
<1>2. /\ UNCHANGED <<events, accepted, held>>
      /\ lastSeen' = [lastSeen EXCEPT ![c] = t]
  BY DEF TouchRegistry, Touch, chanVars
<1>3. InHand' = InHand
  BY <1>2 DEF InHand
<1>4. lastSeen \in [Devices -> 0..MaxTicks]
  BY DEF TypeOK, RegistryTypeOK
<1>5. \A d \in Devices : lastSeen'[d] = IF d = c THEN t ELSE lastSeen[d]
  BY <1>2, <1>4
<1>6. held[w] \in accepted /\ held[w] = [device |-> c, at |-> t]
  BY <1>1 DEF EventsConserved, Held, Event
<1>7. \A i \in DOMAIN events : events[i].device \in Devices
  <2>1. \A i \in DOMAIN events : events[i] \in Event
    BY DEF TypeOK, ChannelTypeOK
  <2> QED
    BY <2>1, EventFields
<1>8. \A i \in DOMAIN events' : lastSeen'[events'[i].device] < events'[i].at
  BY <1>1, <1>2, <1>5, <1>7 DEF OrderInv
<1>9. \A d \in Devices :
        lastSeen'[d] # 0 => [device |-> d, at |-> lastSeen'[d]] \in accepted'
  BY <1>2, <1>5, <1>6 DEF OrderInv
<1> QED
  BY <1>2, <1>3, <1>8, <1>9 DEF OrderInv

LEMMA OrderInvStep == GatewayInv /\ OrderInv /\ [Next]_vars => OrderInv'
<1> SUFFICES ASSUME GatewayInv, OrderInv, [Next]_vars PROVE OrderInv'
  OBVIOUS
<1>1. ASSUME UNCHANGED <<events, accepted, lastSeen>>,
             \A v \in Workers : held'[v] \in {held[v], NoEvent}
      PROVE  OrderInv'
  <2>1. \A v \in InHand' : v \in InHand /\ held'[v] = held[v]
    BY <1>1 DEF InHand
  <2> QED
    BY <1>1, <2>1 DEF OrderInv
<1> QED
  BY <1>1, OrderFrame, OrderSend, OrderReceive, OrderTouch DEF GatewayInv, TypeOK

LEMMA OrderInvInit == Init => OrderInv
<1> SUFFICES ASSUME Init PROVE OrderInv
  OBVIOUS
<1>1. DOMAIN events = {} /\ InHand = {} /\ \A d \in Devices : lastSeen[d] = 0
  BY DEF Init, InHand
<1> QED
  BY <1>1 DEF OrderInv

LEMMA OrderInvariance == Spec => [](GatewayInv /\ OrderInv)
BY GatewayInvInit, GatewayInvStep, OrderInvInit, OrderInvStep, PTL DEF Spec

(* Events of one device leave the channel in the order they were made, and *)
(* none that waits is older than the LastSeen the registry reports.        *)
THEOREM EventsInOrder == Spec => []ReportsInOrder
<1>1. OrderInv => ReportsInOrder
  BY DEF OrderInv, ReportsInOrder, Queued
<1> QED
  BY <1>1, OrderInvariance, PTL

(* With one worker, what it is about to record is newer than what the      *)
(* registry holds.                                                         *)
OneWorker == \A v, w \in Workers : v = w
NewerInHand ==
  \A w \in Workers : wpc[w] = "touch" => lastSeen[held[w].device] < held[w].at

LEMMA NewerInHandStep ==
  ASSUME OneWorker, GatewayInv, OrderInv, NewerInHand, [Next]_vars
  PROVE  NewerInHand'
<1> USE DEF GatewayInv
<1> SUFFICES ASSUME NEW w \in Workers, wpc'[w] = "touch"
             PROVE  lastSeen'[held'[w].device] < held'[w].at
  BY DEF NewerInHand
<1>1. ASSUME NEW v \in Workers, WorkerStep(v) \/ BrokerStep(v)
      PROVE  \/ Receive(w)
             \/ wpc[w] = "touch" /\ UNCHANGED <<held, lastSeen>>
  <2>1. v = w
    BY DEF OneWorker
  <2>2. wpc \in [Workers -> {"recv", "touch", "dial", "write", "read", "exited"}]
    BY DEF TypeOK, WorkerTypeOK
  <2>3. ~WorkerExits(w) /\ ~TouchRegistry(w) /\ ~Dial(w) /\ ~WriteCommand(w) /\ ~ReadReply(w)
    BY <2>2, SMT DEF WorkerExits, TouchRegistry, Dial, WriteCommand, ReadReply, LogFailure, PublishReturns
  <2> QED
    BY <1>1, <2>1, <2>3
    DEF WorkerStep, BrokerStep, BrokerPublishes, BrokerFails, regVars
<1>2. CASE Receive(w)
  <2>1. /\ events # <<>>
        /\ held' = [held EXCEPT ![w] = Head(events)]
        /\ lastSeen' = lastSeen
    BY <1>2 DEF Receive, NextEvent, regVars
  <2>2. events \in Seq(Event) /\ held \in [Workers -> Event \cup {NoEvent}]
    BY DEF TypeOK, ChannelTypeOK, WorkerTypeOK
  <2>3. 1 \in DOMAIN events /\ held'[w] = events[1]
    BY <2>1, <2>2
  <2> QED
    BY <2>1, <2>3 DEF OrderInv
<1>3. CASE wpc[w] = "touch" /\ UNCHANGED <<held, lastSeen>>
  BY <1>3 DEF NewerInHand
<1>4. CASE UNCHANGED workVars /\ ~\E v \in Workers : WorkerStep(v)
  <2>1. UNCHANGED regVars
    BY <1>4, RegistryFrame DEF WorkerStep
  <2> QED
    BY <1>4, <2>1 DEF NewerInHand, workVars, regVars
<1> QED
  BY <1>1, <1>2, <1>3, <1>4, WorkersFrame

LastSeenAdvances == [][\A d \in Devices : lastSeen[d] <= lastSeen'[d]]_vars

(* With a single worker (NUM_WORKERS=1) the LastSeen the registry reports  *)
(* never goes back, which several workers do not promise.                  *)
THEOREM OneWorkerInOrder == OneWorker => (Spec => LastSeenAdvances)
<1> SUFFICES ASSUME OneWorker PROVE Spec => LastSeenAdvances
  OBVIOUS
<1>1. Init => NewerInHand
  BY DEF Init, NewerInHand
<1>2. GatewayInv /\ OrderInv /\ NewerInHand /\ [Next]_vars => NewerInHand'
  BY NewerInHandStep
<1>3. ASSUME GatewayInv, NewerInHand, [Next]_vars
      PROVE  [\A d \in Devices : lastSeen[d] <= lastSeen'[d]]_vars
  <2>1. lastSeen \in [Devices -> 0..MaxTicks] /\ MaxTicks \in Nat
    BY <1>3, GatewayAssumption DEF GatewayInv, TypeOK, RegistryTypeOK, GatewayAssumption
  <2>2. ASSUME NEW w \in Workers, TouchRegistry(w)
        PROVE  \A d \in Devices : lastSeen[d] <= lastSeen'[d]
    <3>1. lastSeen' = [lastSeen EXCEPT ![held[w].device] = held[w].at]
      BY <2>2 DEF TouchRegistry, Touch
    <3>2. lastSeen[held[w].device] < held[w].at
      BY <1>3, <2>2 DEF TouchRegistry, NewerInHand
    <3>3. held[w].at \in Nat
      BY <1>3, <2>2, HandsFull, EventFields, GatewayAssumption
      DEF TouchRegistry, GatewayInv, TypeOK, GatewayAssumption
    <3> QED
      BY <2>1, <3>1, <3>2, <3>3
  <2>3. UNCHANGED regVars => \A d \in Devices : lastSeen[d] <= lastSeen'[d]
    BY <2>1 DEF regVars
  <2> QED
    BY <1>3, <2>2, <2>3, RegistryFrame
<1> QED
  BY <1>1, <1>2, <1>3, OrderInvariance, PTL DEF Spec, LastSeenAdvances

-----------------------------------------------------------------------------
(* Refinement of EventPipeline.                                            *)

LEMMA PhaseFacts ==
  ASSUME TypeOK
  PROVE  /\ Alive <=> pipelinePhase = "open"
         /\ proc = "stopped" <=> pipelinePhase = "stopped"
         /\ proc \in {"fatal", "panicked"} <=> pipelinePhase = "aborted"
<1>1. proc \in {"running", "shutting", "draining", "stopped", "fatal", "panicked"}
  BY DEF TypeOK, MainTypeOK
<1> QED
  BY <1>1, SMT DEF pipelinePhase, Alive

LEMMA PhaseFrame ==
  ASSUME proc' = proc
  PROVE  pipelinePhase' = pipelinePhase
BY DEF pipelinePhase

(* A worker that holds an event works on one the pipeline still owes. *)
LEMMA HeldIsUndecided ==
  ASSUME GatewayInv, NEW w \in Workers, held[w] # NoEvent
  PROVE  held[w] \in Event /\ held[w] \in accepted \ Decided
<1>1. held[w] \in Held
  BY DEF Held, InHand
<1> QED
  BY <1>1 DEF GatewayInv, EventsConserved, TypeOK, WorkerTypeOK

LEMMA PipelineInit == Init => Pipeline!Init
BY DEF Init, Pipeline!Init, pipelinePhase

LEMMA PipelineStep ==
  ASSUME Workers # {}, GatewayInv, [Next]_vars
  PROVE  [Pipeline!Next]_(Pipeline!vars)
<1> USE DEF GatewayInv
<1>1. TypeOK'
  BY GatewayInvStep
<1>2. ASSUME NEW d \in Devices, DeviceStep(d) PROVE [Pipeline!Next]_(Pipeline!vars)
  <2>1. UNCHANGED <<published, acked, failed>>
    BY <1>2 DEF DeviceStep, TickerFires, TakeTick, SendEvent, DeviceStops, workVars
  <2>2. CASE SendEvent(d) /\ ~closed
    <3> DEFINE e == [device |-> d, at |-> pending[d]]
    <3>1. e \in Event /\ e \notin accepted /\ accepted' = accepted \cup {e}
      BY <2>2, SentIsNew
    <3>2. Alive /\ proc' = proc
      BY <2>2 DEF SendEvent, mainVars
    <3>3. pipelinePhase = "open" /\ pipelinePhase' = pipelinePhase
      BY <3>2, PhaseFacts, PhaseFrame
    <3> HIDE DEF e
    <3>4. Pipeline!Accept(e)
      BY <2>1, <3>1, <3>3 DEF Pipeline!Accept
    <3> QED
      BY <3>1, <3>4 DEF Pipeline!Next
  <2>3. CASE SendEvent(d) /\ closed
    BY <2>3 DEF SendEvent, ShutdownOrder, ProducersDone
  <2>4. CASE ~SendEvent(d)
    <3>1. UNCHANGED <<proc, accepted>>
      BY <1>2, <2>4 DEF DeviceStep, TickerFires, TakeTick, DeviceStops, mainVars, chanVars
    <3> QED
      BY <2>1, <3>1, PhaseFrame DEF Pipeline!vars
  <2> QED
    BY <2>2, <2>3, <2>4
<1>3. ASSUME NEW w \in Workers, Dial(w) \/ WriteCommand(w) \/ ReadReply(w)
      PROVE  [Pipeline!Next]_(Pipeline!vars)
  <2>1. held[w] \in Event /\ held[w] \in accepted \ Decided
    BY <1>3, HandsFull, HeldIsUndecided DEF Dial, WriteCommand, ReadReply, TypeOK
  <2>2. Alive /\ UNCHANGED <<proc, accepted, published>>
    BY <1>3 DEF Dial, WriteCommand, ReadReply, mainVars, chanVars
  <2>3. pipelinePhase = "open" /\ pipelinePhase' = pipelinePhase
    BY <2>2, PhaseFacts, PhaseFrame
  <2>4. CASE LogFailure(w)
    <3>1. Pipeline!Fail(held[w])
      BY <2>1, <2>2, <2>3, <2>4 DEF LogFailure, Pipeline!Fail, Pipeline!Decided, Decided
    <3> QED
      BY <2>1, <3>1 DEF Pipeline!Next
  <2>5. CASE ReadReply(w) /\ ~LogFailure(w)
    <3>1. conn[w] = "ok" /\ acked' = acked \cup {held[w]} /\ failed' = failed
      BY <2>5 DEF ReadReply
    <3>2. held[w] \in published
      BY <3>1 DEF PublishedOnce
    <3>3. Pipeline!Acknowledge(held[w])
      BY <2>1, <2>2, <2>3, <3>1, <3>2 DEF Pipeline!Acknowledge, Pipeline!Decided, Decided
    <3> QED
      BY <2>1, <3>3 DEF Pipeline!Next
  <2>6. CASE ~ReadReply(w) /\ ~LogFailure(w)
    <3>1. UNCHANGED <<acked, failed>>
      BY <1>3, <2>6 DEF Dial, WriteCommand
    <3> QED
      BY <2>2, <2>3, <3>1 DEF Pipeline!vars
  <2> QED
    BY <2>4, <2>5, <2>6
<1>4. ASSUME NEW w \in Workers, Receive(w) \/ WorkerExits(w) \/ TouchRegistry(w) \/ BrokerFails(w)
      PROVE  UNCHANGED Pipeline!vars
  <2>1. UNCHANGED <<proc, accepted, published, acked, failed>>
    BY <1>4 DEF Receive, WorkerExits, TouchRegistry, BrokerFails, mainVars, chanVars
  <2> QED
    BY <2>1, PhaseFrame DEF Pipeline!vars
<1>5. ASSUME NEW w \in Workers, BrokerPublishes(w) PROVE [Pipeline!Next]_(Pipeline!vars)
  <2>1. /\ wpc[w] = "read" /\ held[w] # NoEvent
        /\ held[w] \notin published
        /\ published' = published \cup {held[w]}
        /\ UNCHANGED <<proc, accepted, acked, failed>>
    BY <1>5 DEF BrokerPublishes, WorkerControl, PublishedOnce, mainVars, chanVars
  <2>2. held[w] \in Event /\ held[w] \in accepted \ Decided
    BY <2>1, HeldIsUndecided
  <2>3. pipelinePhase # "stopped" /\ pipelinePhase' = pipelinePhase
    BY <2>1, PhaseFacts, PhaseFrame DEF ShutdownOrder, WorkersDone
  <2>4. Pipeline!Deliver(held[w])
    BY <2>1, <2>2, <2>3 DEF Pipeline!Deliver, Pipeline!Decided, Decided
  <2> QED
    BY <2>2, <2>4 DEF Pipeline!Next
<1>6. CASE MainStep
  <2>1. UNCHANGED <<accepted, published, acked, failed>>
    BY <1>6 DEF MainStep, ShutdownServer, ShutdownReturns, ShutdownTimesOut, MainReturns,
                chanVars, workVars
  <2>2. pipelinePhase = "open"
    BY <1>6, PhaseFacts
    DEF MainStep, ShutdownServer, ShutdownReturns, ShutdownTimesOut, MainReturns, Alive
  <2>3. CASE MainReturns
    <3>1. WorkersDone /\ proc' = "stopped"
      BY <2>3 DEF MainReturns
    <3>2. events = <<>>
      BY <3>1 DEF ShutdownOrder, WorkersDone, RangeEnds
    <3>3. Queued = {} /\ Held = {}
      <4>1. DOMAIN events = {}
        BY <3>2, SMT
      <4> QED
        BY <3>1, <4>1 DEF Queued, Held, InHand, WorkersDone, WorkerControl
    <3>4. accepted \subseteq Pipeline!Decided
      BY <3>3 DEF EventsConserved, Pipeline!Decided, Decided
    <3>5. pipelinePhase' = "stopped"
      BY <3>1 DEF pipelinePhase
    <3>6. Pipeline!Stop
      BY <2>1, <2>2, <3>4, <3>5 DEF Pipeline!Stop
    <3> QED
      BY <3>6 DEF Pipeline!Next
  <2>4. CASE ~MainReturns
    <3>1. proc' \in {"shutting", "draining"}
      BY <1>6, <2>4 DEF MainStep, ShutdownServer, ShutdownReturns, ShutdownTimesOut
    <3>2. pipelinePhase' = "open"
      BY <3>1, SMT DEF pipelinePhase
    <3> QED
      BY <2>1, <2>2, <3>2 DEF Pipeline!vars
  <2> QED
    BY <2>3, <2>4
<1>7. CASE HttpStep
  <2>1. UNCHANGED <<accepted, published, acked, failed>>
    BY <1>7 DEF HttpStep, ListenAndServe, ListenFails, HandlerStarts, HandlerReturns,
                chanVars, workVars
  <2>2. CASE ListenFails
    <3>1. pipelinePhase = "open"
      BY <2>2, PhaseFacts DEF ListenFails
    <3>2. pipelinePhase' = "aborted"
      BY <2>2, SMT DEF ListenFails, pipelinePhase
    <3>3. Pipeline!Abort
      BY <2>1, <3>1, <3>2 DEF Pipeline!Abort
    <3> QED
      BY <3>3 DEF Pipeline!Next
  <2>3. CASE ~ListenFails
    <3>1. proc' = proc
      BY <1>7, <2>3 DEF HttpStep, ListenAndServe, HandlerStarts, HandlerReturns, mainVars
    <3> QED
      BY <2>1, <3>1, PhaseFrame DEF Pipeline!vars
  <2> QED
    BY <2>2, <2>3
<1>8. CASE CloseEvents \/ Signal \/ Ended \/ UNCHANGED vars
  <2>1. UNCHANGED <<proc, accepted, published, acked, failed>>
    BY <1>8 DEF CloseEvents, Signal, Ended, vars, mainVars, chanVars, workVars
  <2> QED
    BY <2>1, PhaseFrame DEF Pipeline!vars
<1> QED
  BY <1>2, <1>3, <1>4, <1>5, <1>6, <1>7, <1>8 DEF Next, WorkerStep, BrokerStep

(* Seen from outside, a gateway with at least one worker is an             *)
(* EventPipeline: each event gets one attempt and one outcome, and a       *)
(* gateway that stops by itself has decided all it accepted                *)
(* (main.go:264-272).                                                      *)
THEOREM Refinement ==
  ASSUME Workers # {}
  PROVE  Spec => ImplementsPipeline
<1>1. Init => Pipeline!Init
  BY PipelineInit
<1>2. GatewayInv /\ [Next]_vars => [Pipeline!Next]_(Pipeline!vars)
  BY PipelineStep
<1> QED
  BY <1>1, <1>2, Invariance, PTL DEF Spec, ImplementsPipeline, Pipeline!Spec

(* What EventPipeline promises whoever implements it.                      *)
Kept ==
  /\ acked \subseteq published
  /\ acked \cap failed = {}
  /\ published \cup Decided \subseteq accepted
  /\ pipelinePhase = "stopped" => accepted \subseteq Decided

LEMMA PipelineKeeps == Pipeline!Spec => []Kept
<1>1. Pipeline!Init => Kept
  BY DEF Pipeline!Init, Kept, Decided
<1>2. ASSUME Kept, [Pipeline!Next]_(Pipeline!vars)
      PROVE  Kept'
  <2> USE DEF Kept, Decided, Pipeline!Decided
  <2>1. ASSUME NEW e \in Event, Pipeline!Accept(e) PROVE Kept'
    BY <1>2, <2>1 DEF Pipeline!Accept
  <2>2. ASSUME NEW e \in Event, Pipeline!Deliver(e) PROVE Kept'
    BY <1>2, <2>2 DEF Pipeline!Deliver
  <2>3. ASSUME NEW e \in Event, Pipeline!Acknowledge(e) PROVE Kept'
    BY <1>2, <2>3 DEF Pipeline!Acknowledge
  <2>4. ASSUME NEW e \in Event, Pipeline!Fail(e) PROVE Kept'
    BY <1>2, <2>4 DEF Pipeline!Fail
  <2>5. CASE Pipeline!Stop \/ Pipeline!Abort
    BY <1>2, <2>5 DEF Pipeline!Stop, Pipeline!Abort
  <2>6. CASE UNCHANGED Pipeline!vars
    BY <1>2, <2>6 DEF Pipeline!vars
  <2> QED
    BY <1>2, <2>1, <2>2, <2>3, <2>4, <2>5, <2>6 DEF Pipeline!Next
<1> QED
  BY <1>1, <1>2, PTL DEF Pipeline!Spec

(* A process that returns from main has decided every event it accepted,   *)
(* has called a success only what the subscribers got, and nothing both a  *)
(* success and a failure: the refinement carries it down from the pipeline *)
(* (main.go:244-272).                                                      *)
THEOREM NothingLeftUndecided ==
  ASSUME Workers # {}
  PROVE  Spec => [](/\ acked \subseteq published /\ acked \cap failed = {}
                    /\ proc = "stopped" => accepted \subseteq acked \cup failed)
<1>1. Kept => /\ acked \subseteq published /\ acked \cap failed = {}
              /\ proc = "stopped" => accepted \subseteq acked \cup failed
  BY DEF Kept, Decided, pipelinePhase
<1>2. Spec => ImplementsPipeline
  BY Refinement
<1> QED
  BY <1>1, <1>2, PipelineKeeps, PTL DEF ImplementsPipeline
=============================================================================
