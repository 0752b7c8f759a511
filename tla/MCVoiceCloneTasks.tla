------------------------- MODULE MCVoiceCloneTasks --------------------------
(***************************************************************************)
(* Two clones, two workers as in the code and a retry, with a channel of   *)
(* one so that it fills, and one crash.                                    *)
(***************************************************************************)
EXTENDS VoiceCloneTasks
=============================================================================
