--------------------------- MODULE MCChatManager ---------------------------
(***************************************************************************)
(* Instances of ChatManager for TLC.                                       *)
(***************************************************************************)
EXTENDS ChatManager, TLC

\* Injectors are interchangeable.
Symmetry == Permutations(Injectors)
=============================================================================
