------------------------- MODULE MCMqttTransport -------------------------
(***************************************************************************)
(* Instances of MqttTransport for TLC.                                     *)
(***************************************************************************)
EXTENDS MqttTransport, TLC

\* The slots in which cleanup callbacks run are interchangeable.
Symmetry == Permutations(Timers)
=============================================================================
