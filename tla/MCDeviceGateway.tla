-------------------------- MODULE MCDeviceGateway --------------------------
(* TLC instances of DeviceGateway.  Devices, workers and requests are       *)
(* interchangeable, so the safety runs identify their permutations.         *)
EXTENDS DeviceGateway, TLC

Symmetry == Permutations(Devices) \cup Permutations(Workers)
=============================================================================
