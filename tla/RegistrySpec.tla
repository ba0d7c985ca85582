---------------------------- MODULE RegistrySpec ----------------------------
(***************************************************************************)
(* What the device registry promises its callers: Touch and Snapshot take  *)
(* effect at one instant each, so every report is the state of the whole   *)
(* fleet at one moment.                                                    *)
(***************************************************************************)
EXTENDS Naturals

CONSTANTS
  Devices,  \* device ids
  Times,    \* event timestamps
  Modulus,  \* EventCount is a machine integer: it wraps here (2^64)
  Requests  \* status requests

VARIABLES
  devices,  \* status of every device touched so far, by device
  report    \* report[q]: what request q was last answered, by device

vars == <<devices, report>>

Status == [lastSeen : Times, count : 0..Modulus - 1]
Fleet == UNION {[D -> Status] : D \in SUBSET Devices}

TypeOK == devices \in Fleet /\ report \in [Requests -> Fleet]

Init ==
  /\ devices = <<>>
  /\ report = [q \in Requests |-> <<>>]

CountOf(fleet, d) == IF d \in DOMAIN fleet THEN fleet[d].count ELSE 0

WithTouch(fleet, d, at) ==
  [e \in DOMAIN fleet \cup {d} |->
     IF e = d THEN [lastSeen |-> at, count |-> (CountOf(fleet, d) + 1) % Modulus]
     ELSE fleet[e]]

Touch(d, at) ==
  /\ devices' = WithTouch(devices, d, at)
  /\ UNCHANGED report

Snapshot(q) ==
  /\ report' = [report EXCEPT ![q] = devices]
  /\ UNCHANGED devices

Next ==
  \/ \E d \in Devices, at \in Times : Touch(d, at)
  \/ \E q \in Requests : Snapshot(q)

Spec == Init /\ [][Next]_vars
=============================================================================
