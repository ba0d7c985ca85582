--------------------------- MODULE EventPipeline ---------------------------
(***************************************************************************)
(* What the device-gateway promises about a telemetry event, with no word  *)
(* on goroutines, channels or connections: an event that got into the      *)
(* pipeline is tried once, its outcome is decided once, an acknowledged    *)
(* event did reach the subscribers, and a process that stops of its own    *)
(* accord leaves no event undecided.                                       *)
(*                                                                         *)
(* DeviceGateway implements this specification whenever it has a worker.   *)
(***************************************************************************)
CONSTANT Events

VARIABLES
  phase,      \* "open", "stopped" (main returned) or "aborted" (fatal, panic)
  accepted,   \* events that were put into the pipeline
  published,  \* events the broker handed to its subscribers
  acked,      \* events whose publication was reported as a success
  failed      \* events whose publication was reported as a failure

vars == <<phase, accepted, published, acked, failed>>

Decided == acked \cup failed

TypeOK ==
  /\ phase \in {"open", "stopped", "aborted"}
  /\ accepted \in SUBSET Events
  /\ published \in SUBSET Events
  /\ acked \in SUBSET Events
  /\ failed \in SUBSET Events

Init ==
  /\ phase = "open"
  /\ accepted = {}
  /\ published = {}
  /\ acked = {}
  /\ failed = {}

Accept(e) ==
  /\ phase = "open"
  /\ e \notin accepted
  /\ accepted' = accepted \cup {e}
  /\ UNCHANGED <<phase, published, acked, failed>>

(* The subscribers see an event at most once, and never after the process  *)
(* has decided its outcome; the broker may outlive an aborted process.     *)
Deliver(e) ==
  /\ phase # "stopped"
  /\ e \in accepted \ (published \cup Decided)
  /\ published' = published \cup {e}
  /\ UNCHANGED <<phase, accepted, acked, failed>>

Acknowledge(e) ==
  /\ phase = "open"
  /\ e \in published \ Decided
  /\ acked' = acked \cup {e}
  /\ UNCHANGED <<phase, accepted, published, failed>>

(* A failure says nothing about whether the event was delivered. *)
Fail(e) ==
  /\ phase = "open"
  /\ e \in accepted \ Decided
  /\ failed' = failed \cup {e}
  /\ UNCHANGED <<phase, accepted, published, acked>>

Stop ==
  /\ phase = "open"
  /\ accepted \subseteq Decided
  /\ phase' = "stopped"
  /\ UNCHANGED <<accepted, published, acked, failed>>

Abort ==
  /\ phase = "open"
  /\ phase' = "aborted"
  /\ UNCHANGED <<accepted, published, acked, failed>>

Next ==
  \/ \E e \in Events : Accept(e) \/ Deliver(e) \/ Acknowledge(e) \/ Fail(e)
  \/ Stop
  \/ Abort

Spec == Init /\ [][Next]_vars
=============================================================================
