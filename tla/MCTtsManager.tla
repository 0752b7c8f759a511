---------------------------- MODULE MCTtsManager ----------------------------
(* Small instances of TtsManager for TLC. *)
EXTENDS TtsManager, TLC
=============================================================================
