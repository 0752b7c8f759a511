-------------------------- MODULE SentencePipeline --------------------------
(***************************************************************************)
(* What speech output promises the turn that waits for its sentences: they *)
(* are handed over one by one, pass from stage to stage without overtaking *)
(* each other, may be given up at any stage, and whatever becomes of them  *)
(* each one's end callback is called, and called once.                     *)
(***************************************************************************)
EXTENDS Integers

CONSTANT Sentences      \* their numbers, in the order of the conversation

VARIABLE stage          \* 0 before and 7 after; 1 to 6 on the way

Init == stage = [i \in Sentences |-> 0]

\* The next sentence, once the one before has left the first stage.
HandOver(i) ==
    /\ stage[i] = 0
    /\ \A j \in Sentences : j < i => stage[j] > 1
    /\ stage' = [stage EXCEPT ![i] = 1]

\* The first of a stage goes on to the next one.
Advance(i) ==
    /\ stage[i] \in 1 .. 5
    /\ \A j \in Sentences : j < i => stage[j] > stage[i]
    /\ stage' = [stage EXCEPT ![i] = @ + 1]

\* The end callbacks of some sentences are called.
End(S) ==
    /\ \A i \in S : stage[i] \in 1 .. 6
    /\ stage' = [i \in Sentences |-> IF i \in S THEN 7 ELSE stage[i]]

Next ==
    \/ \E i \in Sentences : HandOver(i) \/ Advance(i)
    \/ \E S \in SUBSET Sentences : End(S)

Spec == Init /\ [][Next]_stage
=============================================================================
