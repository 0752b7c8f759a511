------------------------- MODULE TtsManager_proofs --------------------------
(***************************************************************************)
(* Proofs about speech output.                                             *)
(*                                                                         *)
(* The type invariant and the inductive invariant are conjunctions of      *)
(* named parts, and there is one lemma for each action: it proves the      *)
(* parts the action can disturb one by one, and the others together, from  *)
(* the variables it leaves alone.  The theorems at the end follow from the *)
(* invariant.                                                              *)
(***************************************************************************)
EXTENDS TtsManager, TLAPS

\* The type invariant, in the parts a step may leave alone.
TurnOK ==
    /\ closed \in BOOLEAN
    /\ turn \in 0 .. NumTurns /\ said \in 0 .. Sentences /\ tgen \in Nat
    /\ tp \in {"idle", "tstart", "speak", "push", "tstop"}
    /\ cancelled \subseteq 1 .. NumTurns

SeqOK ==
    /\ seq \in 0 .. NumTurns * Sentences /\ dropped \in 0 .. seq
    /\ \A c \in Calls : loaded[c] \in 0 .. seq

ItemOK == itemGen \in [Items -> Nat] /\ itemTurn \in [Items -> 0 .. NumTurns]

EndedOK == ended \subseteq Items

QueueOK == ttsQueue \in Seq(Items)

ConsumerOK ==
    /\ cp \in {"pop", "bind", "media", "recheck", "sstart", "frame", "send", "exited"}
    /\ citem \in Items \union {0} /\ cepoch \in Nat

GenOK == gen \in Nat /\ epoch \in Nat /\ settled \in Nat

AudioOK == audioQ \in Seq(Elems) /\ delayed \in Seq(Elems) /\ ready \in Seq(Elems)

SenderOK ==
    /\ sp \in {"idle", "frame", "tstop", "leaving", "exited"}
    /\ hand \in Elems
    /\ ttsActive \in BOOLEAN

InterruptOK ==
    /\ interruptCh \in Seq(Calls) /\ Len(interruptCh) <= 1
    /\ served \subseteq Calls
    /\ pendingStop \in BOOLEAN /\ mediaActive \in BOOLEAN

CallOK ==
    /\ ip \in [Calls -> {"new", "clear", "store", "drain", "record", "bump",
                         "rotate", "offer", "wait", "finish", "playing", "played",
                         "over", "late"}]
    /\ igen \in [Calls -> Nat] /\ loaded \in [Calls -> Nat]

Types == /\ TurnOK /\ SeqOK /\ ItemOK /\ EndedOK /\ QueueOK /\ ConsumerOK
         /\ GenOK /\ AudioOK /\ SenderOK /\ InterruptOK /\ CallOK

LEMMA TypesAreTypeOK == Types <=> TypeOK
<1>1. ASSUME loaded \in [Calls -> Nat], \A c \in Calls : loaded[c] \in 0 .. seq
      PROVE  loaded \in [Calls -> 0 .. seq]
  BY <1>1
<1>2. ASSUME loaded \in [Calls -> 0 .. seq]
      PROVE  /\ \A c \in Calls : loaded[c] \in 0 .. seq
             /\ loaded \in [Calls -> Nat]
  <2>1. \A c \in Calls : loaded[c] \in 0 .. seq /\ loaded[c] \in Nat
    BY <1>2
  <2>. QED  BY <1>2, <2>1
<1>3. Types => TypeOK
  BY <1>1 DEF Types, TypeOK, TurnOK, SeqOK, ItemOK, EndedOK, QueueOK, ConsumerOK,
              GenOK, AudioOK, SenderOK, InterruptOK, CallOK
<1>4. TypeOK => Types
  BY <1>2 DEF Types, TypeOK, TurnOK, SeqOK, ItemOK, EndedOK, QueueOK, ConsumerOK,
              GenOK, AudioOK, SenderOK, InterruptOK, CallOK
<1>. QED  BY <1>3, <1>4

-----------------------------------------------------------------------------
(***************************************************************************)
(* The inductive invariant.                                                *)
(***************************************************************************)
\* A turn hands over no more sentences than it may, so that every number is
\* that of a sentence.
CountInv ==
    /\ turn = 0 => seq = 0 /\ tp = "idle"
    /\ turn > 0 => seq + Sentences <= turn * Sentences + said
    /\ tp = "push" => seq > 0

\* The consumer and its queue know sentences that have been handed over.
KnownInv ==
    /\ cp \notin {"pop", "exited"} => citem \in Items
    /\ citem <= seq
    /\ \A n \in 1 .. Len(ttsQueue) : ttsQueue[n] <= seq

\* An element that carries an end callback carries a sentence's.
Sound(q) == \A n \in 1 .. Len(q) : q[n].kind = "send" => q[n].item \in Items

CallbackInv == Sound(audioQ) /\ Sound(delayed) /\ Sound(ready)

\* The frames in q are of generations before g.
Older(q, g) == \A n \in 1 .. Len(q) : q[n].kind = "frame" => q[n].gen < g

\* Nothing is of a generation to come.
PastInv ==
    /\ \A i \in Items : itemGen[i] <= gen
    /\ Older(audioQ, gen + 1)
    /\ \A c \in Calls : igen[c] <= gen
    /\ settled <= gen

\* Only a request that has its generation is in the channel or served; once it
\* is served, the sender has no older frame in hand.
Waiting == {"wait", "finish", "playing", "played", "over", "late"}

ServedInv ==
    /\ \A n \in 1 .. Len(interruptCh) : ip[interruptCh[n]] \in Waiting
    /\ \A c \in served :
         /\ ip[c] \in Waiting
         /\ sp = "frame" => hand.gen >= igen[c]

\* A media playback that has begun to take the output, or has it.
Engaged(c) == c \in Medias /\ ip[c] \notin {"new", "over", "late"}

\* At most one has, and the flag says so; only a playback plays.
EngagedInv ==
    /\ \A c \in Calls : Engaged(c) => mediaActive
    /\ \A c, d \in Calls : Engaged(c) /\ Engaged(d) => c = d
    /\ \A c \in Calls : ip[c] \in {"playing", "played"} => c \in Medias
    /\ \A c \in Medias : ip[c] # "record" /\ (ip[c] = "finish" => sp = "exited")

\* Once it has its generation, every sentence that got past the wait for the
\* flag is of an older one, and so are its frames: the sender will drop them.
\* After the answer the sender has none in hand.
HasGen(c) == ip[c] \in {"rotate", "offer", "wait", "finish", "playing", "played"}

MediaInv ==
    \A c \in Medias : HasGen(c) =>
        /\ cp \in {"recheck", "sstart", "frame", "send"} => itemGen[citem] < igen[c]
        /\ Older(audioQ, igen[c])
        /\ c \in served \/ ip[c] \in {"playing", "played"}
               => ~(sp = "frame" /\ hand.kind = "frame")

Inv == /\ CountInv /\ KnownInv /\ CallbackInv /\ PastInv /\ ServedInv
       /\ NoStaleSpeech /\ EngagedInv /\ MediaInv

-----------------------------------------------------------------------------
(***************************************************************************)
(* The queues of elements.                                                 *)
(***************************************************************************)
LEMMA Appended ==
    ASSUME NEW S, NEW q \in Seq(S), NEW e \in S
    PROVE  /\ Append(q, e) \in Seq(S)
           /\ \A n \in 1 .. Len(Append(q, e)) :
                 \/ n \in 1 .. Len(q) /\ Append(q, e)[n] = q[n]
                 \/ Append(q, e)[n] = e
<1>1. /\ Append(q, e) \in Seq(S) /\ Len(q) \in Nat /\ Len(Append(q, e)) = Len(q) + 1
      /\ \A n \in 1 .. Len(q) : Append(q, e)[n] = q[n]
      /\ Append(q, e)[Len(q) + 1] = e
  OBVIOUS
<1>2. \A n \in 1 .. Len(q) + 1 : n \in 1 .. Len(q) \/ n = Len(q) + 1
  BY <1>1
<1>. QED  BY <1>1, <1>2

LEMMA Shortened ==
    ASSUME NEW S, NEW q \in Seq(S), q # <<>>
    PROVE  /\ Head(q) \in S /\ 1 \in 1 .. Len(q) /\ Head(q) = q[1]
           /\ Tail(q) \in Seq(S)
           /\ \A n \in 1 .. Len(Tail(q)) : n + 1 \in 1 .. Len(q) /\ Tail(q)[n] = q[n + 1]
<1>1. /\ Len(q) \in Nat \ {0} /\ Tail(q) \in Seq(S) /\ Len(Tail(q)) = Len(q) - 1
      /\ \A n \in 1 .. Len(q) - 1 : Tail(q)[n] = q[n + 1]
      /\ Head(q) = q[1]
  OBVIOUS
<1>2. \A n \in 1 .. Len(q) - 1 : n + 1 \in 1 .. Len(q)
  BY <1>1
<1>3. 1 \in 1 .. Len(q) /\ q[1] \in S
  BY <1>1
<1>. QED  BY <1>1, <1>2, <1>3

LEMMA SoundAppended ==
    ASSUME NEW q \in Seq(Elems), Sound(q),
           NEW e \in Elems, e.kind = "send" => e.item \in Items
    PROVE  Append(q, e) \in Seq(Elems) /\ Sound(Append(q, e))
BY Appended DEF Sound

LEMMA SoundShortened ==
    ASSUME NEW q \in Seq(Elems), Sound(q), q # <<>>
    PROVE  /\ Tail(q) \in Seq(Elems) /\ Sound(Tail(q)) /\ Head(q) \in Elems
           /\ Head(q).kind = "send" => Head(q).item \in Items
BY Shortened DEF Sound

LEMMA SoundEnds ==
    ASSUME NEW q \in Seq(Elems), Sound(q)
    PROVE  EndsIn(q) \subseteq Items
BY DEF Sound, EndsIn

LEMMA SoundOne ==
    ASSUME NEW e \in Elems, e.kind = "send" => e.item \in Items
    PROVE  <<e>> \in Seq(Elems) /\ Sound(<<e>>)
BY DEF Sound

LEMMA NothingIsElem == Nothing \in Elems
BY DEF Nothing, Elems, Kinds

LEMMA NoneSound == <<>> \in Seq(Elems) /\ Sound(<<>>) /\ \A g : Older(<<>>, g)
BY DEF Sound, Older

LEMMA OlderAppended ==
    ASSUME NEW q \in Seq(Elems), NEW g, Older(q, g),
           NEW e \in Elems, e.kind = "frame" => e.gen < g
    PROVE  Older(Append(q, e), g)
BY Appended DEF Older

LEMMA OlderShortened ==
    ASSUME NEW q \in Seq(Elems), NEW g, Older(q, g), q # <<>>
    PROVE  /\ Older(Tail(q), g)
           /\ Head(q).kind = "frame" => Head(q).gen < g
BY Shortened DEF Older

LEMMA OlderStays ==
    ASSUME NEW q \in Seq(Elems), NEW g \in Nat, NEW h \in Nat, g <= h, Older(q, g)
    PROVE  Older(q, h)
<1>1. ASSUME NEW n \in 1 .. Len(q)
      PROVE  q[n].gen \in Nat
  <2>1. q[n] \in Elems
    OBVIOUS
  <2>. QED  BY <2>1 DEF Elems
<1>. QED  BY <1>1 DEF Older

-----------------------------------------------------------------------------
(***************************************************************************)
(* What a step does to sessionAudioQueue.                                  *)
(***************************************************************************)
LEMMA AudioGrows ==
    ASSUME Types, Inv, NEW e \in Elems, e.kind = "send" => e.item \in Items,
           e.kind = "frame" => e.gen < gen + 1,
           \A c \in Medias : HasGen(c) /\ e.kind = "frame" => e.gen < igen[c],
           audioQ' = Append(audioQ, e), UNCHANGED <<delayed, ready>>
    PROVE  /\ AudioOK' /\ CallbackInv' /\ Older(audioQ', gen + 1)
           /\ \A c \in Medias : HasGen(c) => Older(audioQ', igen[c])
<1>1. audioQ \in Seq(Elems)
  BY DEF Types, AudioOK
<1>2. AudioOK' /\ CallbackInv'
  BY <1>1, SoundAppended DEF Types, AudioOK, Inv, CallbackInv
<1>3. Older(audioQ', gen + 1)
  BY <1>1, OlderAppended DEF Inv, PastInv
<1>4. \A c \in Medias : HasGen(c) => Older(audioQ', igen[c])
  BY <1>1, OlderAppended DEF Inv, MediaInv
<1>. QED  BY <1>2, <1>3, <1>4

LEMMA AudioShrinks ==
    ASSUME Types, Inv, audioQ # <<>>, audioQ' = Tail(audioQ)
    PROVE  /\ audioQ' \in Seq(Elems) /\ Sound(audioQ') /\ Older(audioQ', gen + 1)
           /\ \A c \in Medias : HasGen(c) => Older(audioQ', igen[c])
           /\ Head(audioQ) \in Elems
           /\ Head(audioQ).kind = "send" => Head(audioQ).item \in Items
           /\ \A c \in Medias : HasGen(c) /\ Head(audioQ).kind = "frame"
                                   => Head(audioQ).gen < igen[c]
<1>1. audioQ \in Seq(Elems)
  BY DEF Types, AudioOK
<1>2. /\ audioQ' \in Seq(Elems) /\ Sound(audioQ') /\ Head(audioQ) \in Elems
      /\ Head(audioQ).kind = "send" => Head(audioQ).item \in Items
  BY <1>1, SoundShortened DEF Inv, CallbackInv
<1>3. Older(audioQ', gen + 1)
  BY <1>1, OlderShortened DEF Inv, PastInv
<1>4. \A c \in Medias : HasGen(c) => Older(audioQ', igen[c])
  BY <1>1, OlderShortened DEF Inv, MediaInv
<1>5. \A c \in Medias : HasGen(c) /\ Head(audioQ).kind = "frame"
                           => Head(audioQ).gen < igen[c]
  BY <1>1, OlderShortened DEF Inv, MediaInv
<1>. QED  BY <1>2, <1>3, <1>4, <1>5

-----------------------------------------------------------------------------
LEMMA TurnStartsInv ==
    ASSUME Types, Inv,
           TurnStarts
    PROVE  Types' /\ Inv'
<1>1. TurnOK'
  <2>1. turn + 1 \in 0 .. NumTurns
    BY TtsAssumption DEF Types, TurnOK, TurnStarts
  <2>2. gen \in Nat /\ 0 \in 0 .. Sentences
    BY TtsAssumption DEF Types, GenOK
  <2>. QED  BY <2>1, <2>2 DEF Types, TurnOK, TurnStarts
<1>2. CountInv'
  <2>1. /\ turn \in Nat /\ seq \in Nat /\ Sentences \in Nat /\ said \in 0 .. Sentences
       /\ NumTurns * Sentences \in Nat
    BY TtsAssumption DEF Types, TurnOK, SeqOK
  <2>2. (turn + 1) * Sentences = turn * Sentences + Sentences /\ turn * Sentences \in Nat
    BY <2>1
  <2>3. seq <= turn * Sentences
    BY <2>1, <2>2 DEF Inv, CountInv
  <2>. QED  BY <2>1, <2>2, <2>3 DEF Inv, CountInv, TurnStarts, itemVars
<1>3. /\ SeqOK' /\ ItemOK' /\ EndedOK' /\ QueueOK' /\ ConsumerOK' /\ GenOK'
      /\ AudioOK' /\ SenderOK' /\ InterruptOK' /\ CallOK' /\ KnownInv'
      /\ CallbackInv' /\ PastInv' /\ ServedInv' /\ NoStaleSpeech' /\ EngagedInv'
      /\ MediaInv'
  BY DEF Types, Inv, SeqOK, ItemOK, EndedOK, QueueOK, ConsumerOK, GenOK, AudioOK,
         SenderOK, InterruptOK, CallOK, KnownInv, CallbackInv, PastInv, ServedInv,
         NoStaleSpeech, EngagedInv, MediaInv, Waiting, Engaged, HasGen, TurnStarts,
         itemVars, consumerVars, senderVars, delayVars, interruptVars, callVars,
         epochVars
<1>. QED  BY <1>1, <1>2, <1>3 DEF Types, Inv

LEMMA TurnEnqueuesInv ==
    ASSUME Types, Inv, NEW kind, NEW next,
           <<kind, next>> \in {<<"tstart", "speak">>, <<"tstop", "idle">>},
           TurnEnqueues(kind, next)
    PROVE  Types' /\ Inv'
<1>e. /\ Elem(kind, tgen, 0) \in Elems
      /\ Elem(kind, tgen, 0).kind \notin {"send", "frame"}
  BY DEF Types, TurnOK, Elem, Elems, Kinds
<1>a. /\ AudioOK' /\ CallbackInv' /\ Older(audioQ', gen + 1)
      /\ \A c \in Medias : HasGen(c) => Older(audioQ', igen[c])
  <2>1. CASE audioQ' = audioQ
    BY <2>1 DEF TurnEnqueues, delayVars, Types, AudioOK, Inv, CallbackInv, PastInv,
       MediaInv
  <2>2. CASE audioQ' = Append(audioQ, Elem(kind, tgen, 0))
    BY <1>e, <2>2, AudioGrows DEF TurnEnqueues, delayVars
  <2>. QED  BY <2>1, <2>2 DEF TurnEnqueues
<1>1. TurnOK'
  BY DEF Types, TurnOK, TurnEnqueues
<1>2. AudioOK'
  BY <1>a
<1>3. CountInv'
  BY DEF Types, Inv, TurnOK, SeqOK, CountInv, TurnEnqueues, itemVars, epochVars
<1>4. CallbackInv'
  BY <1>a
<1>5. PastInv'
  BY <1>a DEF Inv, PastInv, TurnEnqueues, itemVars, callVars, epochVars
<1>6. MediaInv'
  BY <1>a DEF Inv, MediaInv, HasGen, TurnEnqueues, itemVars, consumerVars,
              senderVars, interruptVars, callVars
<1>7. /\ SeqOK' /\ ItemOK' /\ EndedOK' /\ QueueOK' /\ ConsumerOK' /\ GenOK'
      /\ SenderOK' /\ InterruptOK' /\ CallOK' /\ KnownInv' /\ ServedInv'
      /\ NoStaleSpeech' /\ EngagedInv'
  BY DEF Types, Inv, SeqOK, ItemOK, EndedOK, QueueOK, ConsumerOK, GenOK, SenderOK,
         InterruptOK, CallOK, KnownInv, ServedInv, NoStaleSpeech, EngagedInv,
         Waiting, Engaged, TurnEnqueues, itemVars, consumerVars, senderVars,
         interruptVars, callVars, epochVars
<1>. QED  BY <1>1, <1>2, <1>3, <1>4, <1>5, <1>6, <1>7 DEF Types, Inv

LEMMA TurnSpeaksInv ==
    ASSUME Types, Inv,
           TurnSpeaks
    PROVE  Types' /\ Inv'
<1>s. ASSUME ~TurnDone(turn)
      PROVE  /\ seq + 1 \in Items /\ seq + 1 \in 0 .. NumTurns * Sentences
             /\ seq + 1 + Sentences <= turn * Sentences + said + 1
  <2>1. /\ turn \in 0 .. NumTurns /\ seq \in Nat /\ Sentences \in Nat
        /\ said \in 0 .. Sentences /\ said < Sentences /\ NumTurns \in Nat /\ turn > 0
    BY TtsAssumption DEF Types, TurnOK, SeqOK, TurnSpeaks, Inv, CountInv
  <2>2. seq + Sentences <= turn * Sentences + said
    BY <2>1 DEF Inv, CountInv
  <2>3. /\ turn * Sentences \in Nat /\ NumTurns * Sentences \in Nat
        /\ turn * Sentences <= NumTurns * Sentences
    <3>1. NumTurns - turn \in Nat
      BY <2>1
    <3>2. (NumTurns - turn) * Sentences \in Nat
      BY <2>1, <3>1
    <3>3. (NumTurns - turn) * Sentences = NumTurns * Sentences - turn * Sentences
      BY <2>1
    <3>4. turn * Sentences \in Nat /\ NumTurns * Sentences \in Nat
      BY <2>1
    <3>. QED  BY <3>2, <3>3, <3>4
  <2>. QED  BY <2>1, <2>2, <2>3 DEF Items
<1>t. /\ turn \in 0 .. NumTurns /\ said \in 0 .. Sentences /\ gen \in Nat /\ seq \in Nat
      /\ Sentences \in Nat /\ NumTurns \in Nat /\ said < Sentences
  BY TtsAssumption DEF Types, TurnOK, GenOK, SeqOK, TurnSpeaks
<1>k. /\ cp \in {"recheck", "sstart", "frame", "send"} => citem \in Items
      /\ citem # seq + 1
      /\ seq' \in {seq, seq + 1}
  BY <1>t DEF TurnSpeaks, itemVars, Inv, KnownInv, Items
<1>1. TurnOK'
  <2>1. said + 1 \in 0 .. Sentences
    BY <1>t
  <2>. QED  BY <2>1 DEF Types, TurnOK, TurnSpeaks, itemVars
<1>2. SeqOK'
  <2>1. seq' \in {seq, seq + 1} /\ seq' \in 0 .. NumTurns * Sentences
    BY <1>s, <1>k DEF Types, SeqOK, TurnSpeaks, itemVars
  <2>2. 0 .. seq \subseteq 0 .. seq'
    BY <1>t, <2>1
  <2>. QED  BY <2>1, <2>2 DEF Types, SeqOK, TurnSpeaks, epochVars, callVars
<1>3. ItemOK'
  BY <1>s, <1>t DEF Types, ItemOK, TurnSpeaks, itemVars
<1>4. CountInv'
  <2>1. turn > 0 /\ turn * Sentences \in Nat
    BY <1>t DEF Inv, CountInv, TurnSpeaks, itemVars
  <2>2. CASE TurnDone(turn)
    BY <1>t, <2>1, <2>2 DEF Inv, CountInv, TurnSpeaks, itemVars
  <2>3. CASE ~TurnDone(turn)
    BY <1>s, <1>t, <2>1, <2>3 DEF Inv, CountInv, TurnSpeaks, itemVars
  <2>. QED  BY <2>2, <2>3
<1>5. KnownInv'
  <2>1. Items \subseteq Nat
    BY DEF Items
  <2>2. citem \in Nat
    BY <2>1 DEF Types, ConsumerOK
  <2>3. \A m \in 1 .. Len(ttsQueue) : ttsQueue[m] \in Nat
    <3>1. \A m \in 1 .. Len(ttsQueue) : ttsQueue[m] \in Items
      BY DEF Types, QueueOK
    <3>. QED  BY <2>1, <3>1
  <2>. QED  BY <1>k, <1>t, <2>2, <2>3 DEF Inv, KnownInv, TurnSpeaks, itemVars,
                                          consumerVars
<1>6. PastInv'
  <2>1. \A i \in Items : itemGen'[i] \in {itemGen[i], gen}
    BY DEF Types, ItemOK, TurnSpeaks, itemVars
  <2>. QED  BY <1>t, <2>1 DEF Inv, PastInv, TurnSpeaks, itemVars, callVars,
                              epochVars
<1>7. MediaInv'
  <2>1. cp \in {"recheck", "sstart", "frame", "send"} => itemGen'[citem] = itemGen[citem]
    BY <1>k DEF Types, ItemOK, TurnSpeaks, itemVars
  <2>. QED  BY <2>1 DEF Inv, MediaInv, HasGen, TurnSpeaks, itemVars, consumerVars,
                        senderVars, interruptVars, callVars
<1>8. /\ EndedOK' /\ QueueOK' /\ ConsumerOK' /\ GenOK' /\ AudioOK' /\ SenderOK'
      /\ InterruptOK' /\ CallOK' /\ CallbackInv' /\ ServedInv' /\ NoStaleSpeech'
      /\ EngagedInv'
  BY DEF Types, Inv, EndedOK, QueueOK, ConsumerOK, GenOK, AudioOK, SenderOK,
         InterruptOK, CallOK, CallbackInv, ServedInv, NoStaleSpeech, EngagedInv,
         Waiting, Engaged, TurnSpeaks, consumerVars, senderVars, delayVars,
         interruptVars, callVars, epochVars
<1>. QED  BY <1>1, <1>2, <1>3, <1>4, <1>5, <1>6, <1>7, <1>8 DEF Types, Inv

LEMMA TurnPushesInv ==
    ASSUME Types, Inv,
           TurnPushes
    PROVE  Types' /\ Inv'
<1>s. seq \in Items
  BY DEF TurnPushes, Types, SeqOK, Inv, CountInv, Items
<1>1. TurnOK'
  BY DEF Types, TurnOK, TurnPushes
<1>2. EndedOK'
  BY <1>s DEF Types, EndedOK, TurnPushes
<1>3. QueueOK'
  BY <1>s DEF Types, QueueOK, TurnPushes
<1>4. CountInv'
  BY DEF Types, Inv, TurnOK, SeqOK, CountInv, TurnPushes, itemVars, epochVars
<1>5. KnownInv'
  BY DEF Types, Inv, SeqOK, QueueOK, ConsumerOK, KnownInv, TurnPushes, itemVars,
         consumerVars, epochVars
<1>6. /\ SeqOK' /\ ItemOK' /\ ConsumerOK' /\ GenOK' /\ AudioOK' /\ SenderOK'
      /\ InterruptOK' /\ CallOK' /\ CallbackInv' /\ PastInv' /\ ServedInv'
      /\ NoStaleSpeech' /\ EngagedInv' /\ MediaInv'
  BY DEF Types, Inv, SeqOK, ItemOK, ConsumerOK, GenOK, AudioOK, SenderOK,
         InterruptOK, CallOK, CallbackInv, PastInv, ServedInv, NoStaleSpeech,
         EngagedInv, MediaInv, Waiting, Engaged, HasGen, TurnPushes, itemVars,
         consumerVars, senderVars, delayVars, interruptVars, callVars, epochVars
<1>. QED  BY <1>1, <1>2, <1>3, <1>4, <1>5, <1>6 DEF Types, Inv

LEMMA TurnDrainsInv ==
    ASSUME Types, Inv,
           TurnDrains
    PROVE  Types' /\ Inv'
<1>1. TurnOK'
  BY DEF Types, TurnOK, GenOK, TurnDrains, callVars, epochVars
<1>2. CountInv'
  BY DEF Types, Inv, TurnOK, SeqOK, CountInv, TurnDrains, itemVars, epochVars
<1>3. /\ SeqOK' /\ ItemOK' /\ EndedOK' /\ QueueOK' /\ ConsumerOK' /\ GenOK'
      /\ AudioOK' /\ SenderOK' /\ InterruptOK' /\ CallOK' /\ KnownInv'
      /\ CallbackInv' /\ PastInv' /\ ServedInv' /\ NoStaleSpeech' /\ EngagedInv'
      /\ MediaInv'
  BY DEF Types, Inv, SeqOK, ItemOK, EndedOK, QueueOK, ConsumerOK, GenOK, AudioOK,
         SenderOK, InterruptOK, CallOK, KnownInv, CallbackInv, PastInv, ServedInv,
         NoStaleSpeech, EngagedInv, MediaInv, Waiting, Engaged, HasGen, TurnDrains,
         itemVars, consumerVars, senderVars, delayVars, interruptVars, callVars,
         epochVars
<1>. QED  BY <1>1, <1>2, <1>3 DEF Types, Inv

LEMMA ConsumerPopsInv ==
    ASSUME Types, Inv,
           ConsumerPops
    PROVE  Types' /\ Inv'
<1>h. Head(ttsQueue) \in Items
  BY Shortened DEF ConsumerPops, Types, QueueOK
<1>1. EndedOK'
  BY <1>h DEF Types, EndedOK, ConsumerPops, ConsumerEnds
<1>2. QueueOK'
  BY DEF Types, QueueOK, ConsumerPops, ConsumerEnds
<1>3. ConsumerOK'
  BY <1>h DEF Types, ConsumerOK, ConsumerPops, ConsumerEnds, consumerVars
<1>4. KnownInv'
  BY DEF Types, Inv, SeqOK, QueueOK, ConsumerOK, KnownInv, ConsumerPops,
         ConsumerEnds, itemVars, epochVars
<1>5. MediaInv'
  BY DEF Types, Inv, ItemOK, ConsumerOK, AudioOK, SenderOK, InterruptOK, CallOK,
         MediaInv, HasGen, ConsumerPops, ConsumerEnds, itemVars, senderVars,
         delayVars, interruptVars, callVars
<1>6. /\ TurnOK' /\ SeqOK' /\ ItemOK' /\ GenOK' /\ AudioOK' /\ SenderOK'
      /\ InterruptOK' /\ CallOK' /\ CountInv' /\ CallbackInv' /\ PastInv'
      /\ ServedInv' /\ NoStaleSpeech' /\ EngagedInv'
  BY DEF Types, Inv, TurnOK, SeqOK, ItemOK, GenOK, AudioOK, SenderOK, InterruptOK,
         CallOK, CountInv, CallbackInv, PastInv, ServedInv, NoStaleSpeech,
         EngagedInv, Waiting, Engaged, ConsumerPops, ConsumerEnds, turnVars,
         itemVars, senderVars, delayVars, interruptVars, callVars, epochVars
<1>. QED  BY <1>1, <1>2, <1>3, <1>4, <1>5, <1>6 DEF Types, Inv

LEMMA ConsumerBindsInv ==
    ASSUME Types, Inv,
           ConsumerBinds
    PROVE  Types' /\ Inv'
<1>1. ConsumerOK'
  BY DEF Types, ConsumerOK, GenOK, ConsumerBinds, callVars, epochVars
<1>2. KnownInv'
  BY DEF Types, Inv, SeqOK, QueueOK, ConsumerOK, KnownInv, ConsumerBinds, itemVars,
         epochVars
<1>3. MediaInv'
  BY DEF Types, Inv, ItemOK, ConsumerOK, AudioOK, SenderOK, InterruptOK, CallOK,
         MediaInv, HasGen, ConsumerBinds, itemVars, senderVars, delayVars,
         interruptVars, callVars
<1>4. /\ TurnOK' /\ SeqOK' /\ ItemOK' /\ EndedOK' /\ QueueOK' /\ GenOK' /\ AudioOK'
      /\ SenderOK' /\ InterruptOK' /\ CallOK' /\ CountInv' /\ CallbackInv'
      /\ PastInv' /\ ServedInv' /\ NoStaleSpeech' /\ EngagedInv'
  BY DEF Types, Inv, TurnOK, SeqOK, ItemOK, EndedOK, QueueOK, GenOK, AudioOK,
         SenderOK, InterruptOK, CallOK, CountInv, CallbackInv, PastInv, ServedInv,
         NoStaleSpeech, EngagedInv, Waiting, Engaged, ConsumerBinds, turnVars,
         itemVars, senderVars, delayVars, interruptVars, callVars, epochVars
<1>. QED  BY <1>1, <1>2, <1>3, <1>4 DEF Types, Inv

LEMMA ConsumerWaitsInv ==
    ASSUME Types, Inv,
           ConsumerWaits
    PROVE  Types' /\ Inv'
<1>1. EndedOK'
  BY DEF Types, EndedOK, Inv, KnownInv, ConsumerWaits, ConsumerEnds, itemVars
<1>2. ConsumerOK'
  BY DEF Types, ConsumerOK, ConsumerWaits, ConsumerEnds
<1>3. KnownInv'
  BY DEF Types, Inv, SeqOK, QueueOK, ConsumerOK, KnownInv, ConsumerWaits,
         ConsumerEnds, itemVars, epochVars
<1>4. MediaInv'
  <2>1. \A c \in Medias : HasGen(c) => mediaActive
    BY DEF Calls, Inv, EngagedInv, Engaged, HasGen
  <2>. QED  BY <2>1 DEF Inv, MediaInv, HasGen, ConsumerWaits, ConsumerEnds,
                        itemVars, senderVars, interruptVars, callVars
<1>5. /\ TurnOK' /\ SeqOK' /\ ItemOK' /\ QueueOK' /\ GenOK' /\ AudioOK' /\ SenderOK'
      /\ InterruptOK' /\ CallOK' /\ CountInv' /\ CallbackInv' /\ PastInv'
      /\ ServedInv' /\ NoStaleSpeech' /\ EngagedInv'
  BY DEF Types, Inv, TurnOK, SeqOK, ItemOK, QueueOK, GenOK, AudioOK, SenderOK,
         InterruptOK, CallOK, CountInv, CallbackInv, PastInv, ServedInv,
         NoStaleSpeech, EngagedInv, Waiting, Engaged, ConsumerWaits, ConsumerEnds,
         turnVars, itemVars, senderVars, delayVars, interruptVars, callVars,
         epochVars
<1>. QED  BY <1>1, <1>2, <1>3, <1>4, <1>5 DEF Types, Inv

LEMMA ConsumerRechecksInv ==
    ASSUME Types, Inv,
           ConsumerRechecks
    PROVE  Types' /\ Inv'
<1>1. EndedOK'
  BY DEF Types, EndedOK, Inv, KnownInv, ConsumerRechecks, ConsumerEnds, itemVars
<1>2. ConsumerOK'
  BY DEF Types, ConsumerOK, ConsumerRechecks, ConsumerEnds
<1>3. KnownInv'
  BY DEF Types, Inv, SeqOK, QueueOK, ConsumerOK, KnownInv, ConsumerRechecks,
         ConsumerEnds, itemVars, epochVars
<1>4. MediaInv'
  BY DEF Types, Inv, ItemOK, ConsumerOK, AudioOK, SenderOK, InterruptOK, CallOK,
         MediaInv, HasGen, ConsumerRechecks, ConsumerEnds, itemVars, senderVars,
         delayVars, interruptVars, callVars
<1>5. /\ TurnOK' /\ SeqOK' /\ ItemOK' /\ QueueOK' /\ GenOK' /\ AudioOK' /\ SenderOK'
      /\ InterruptOK' /\ CallOK' /\ CountInv' /\ CallbackInv' /\ PastInv'
      /\ ServedInv' /\ NoStaleSpeech' /\ EngagedInv'
  BY DEF Types, Inv, TurnOK, SeqOK, ItemOK, QueueOK, GenOK, AudioOK, SenderOK,
         InterruptOK, CallOK, CountInv, CallbackInv, PastInv, ServedInv,
         NoStaleSpeech, EngagedInv, Waiting, Engaged, ConsumerRechecks,
         ConsumerEnds, turnVars, itemVars, senderVars, delayVars, interruptVars,
         callVars, epochVars
<1>. QED  BY <1>1, <1>2, <1>3, <1>4, <1>5 DEF Types, Inv

LEMMA ConsumerEnqueuesInv ==
    ASSUME Types, Inv,
           ConsumerEnqueues
    PROVE  Types' /\ Inv'
<1>c. /\ citem \in Items /\ cp \in {"recheck", "sstart", "frame", "send"}
      /\ cp \in {"sstart", "frame", "send"}
  BY DEF ConsumerEnqueues, Inv, KnownInv
<1>e. /\ Elem(cp, itemGen[citem], citem) \in Elems
      /\ Elem(cp, itemGen[citem], citem).item = citem
      /\ Elem(cp, itemGen[citem], citem).gen = itemGen[citem]
  BY <1>c DEF Types, ItemOK, Elem, Elems, Kinds
<1>g. /\ itemGen[citem] < gen + 1
      /\ \A c \in Medias : HasGen(c) => itemGen[citem] < igen[c]
  <2>1. itemGen[citem] <= gen /\ itemGen[citem] \in Nat /\ gen \in Nat
    BY <1>c DEF Inv, PastInv, Types, ItemOK, GenOK
  <2>. QED  BY <1>c, <2>1 DEF Inv, MediaInv
<1>a. /\ AudioOK' /\ CallbackInv' /\ Older(audioQ', gen + 1)
      /\ \A c \in Medias : HasGen(c) => Older(audioQ', igen[c])
  <2>1. /\ audioQ' = Append(audioQ, Elem(cp, itemGen[citem], citem))
        /\ UNCHANGED <<delayed, ready>>
    BY DEF ConsumerEnqueues, delayVars
  <2>. QED  BY <1>c, <1>e, <1>g, <2>1, AudioGrows
<1>1. ConsumerOK'
  BY DEF Types, ConsumerOK, ConsumerEnqueues
<1>2. AudioOK'
  BY <1>a
<1>3. KnownInv'
  BY DEF Types, Inv, SeqOK, QueueOK, ConsumerOK, KnownInv, ConsumerEnqueues,
         itemVars, epochVars
<1>4. CallbackInv'
  BY <1>a
<1>5. PastInv'
  BY <1>a DEF Inv, PastInv, ConsumerEnqueues, itemVars, callVars, epochVars
<1>6. MediaInv'
  BY <1>a, <1>c DEF Inv, MediaInv, HasGen, ConsumerEnqueues, itemVars, senderVars,
                    interruptVars, callVars
<1>7. /\ TurnOK' /\ SeqOK' /\ ItemOK' /\ EndedOK' /\ QueueOK' /\ GenOK' /\ SenderOK'
      /\ InterruptOK' /\ CallOK' /\ CountInv' /\ ServedInv' /\ NoStaleSpeech'
      /\ EngagedInv'
  BY DEF Types, Inv, TurnOK, SeqOK, ItemOK, EndedOK, QueueOK, GenOK, SenderOK,
         InterruptOK, CallOK, CountInv, ServedInv, NoStaleSpeech, EngagedInv,
         Waiting, Engaged, ConsumerEnqueues, turnVars, itemVars, senderVars,
         interruptVars, callVars, epochVars
<1>. QED  BY <1>1, <1>2, <1>3, <1>4, <1>5, <1>6, <1>7 DEF Types, Inv

LEMMA ConsumerHasNoFrameInv ==
    ASSUME Types, Inv,
           ConsumerHasNoFrame
    PROVE  Types' /\ Inv'
<1>1. ConsumerOK'
  BY DEF Types, ConsumerOK, ConsumerHasNoFrame
<1>2. KnownInv'
  BY DEF Types, Inv, SeqOK, QueueOK, ConsumerOK, KnownInv, ConsumerHasNoFrame,
         itemVars, epochVars
<1>3. MediaInv'
  BY DEF Types, Inv, ItemOK, ConsumerOK, AudioOK, SenderOK, InterruptOK, CallOK,
         MediaInv, HasGen, ConsumerHasNoFrame, itemVars, senderVars, delayVars,
         interruptVars, callVars
<1>4. /\ TurnOK' /\ SeqOK' /\ ItemOK' /\ EndedOK' /\ QueueOK' /\ GenOK' /\ AudioOK'
      /\ SenderOK' /\ InterruptOK' /\ CallOK' /\ CountInv' /\ CallbackInv'
      /\ PastInv' /\ ServedInv' /\ NoStaleSpeech' /\ EngagedInv'
  BY DEF Types, Inv, TurnOK, SeqOK, ItemOK, EndedOK, QueueOK, GenOK, AudioOK,
         SenderOK, InterruptOK, CallOK, CountInv, CallbackInv, PastInv, ServedInv,
         NoStaleSpeech, EngagedInv, Waiting, Engaged, ConsumerHasNoFrame, turnVars,
         itemVars, senderVars, delayVars, interruptVars, callVars, epochVars
<1>. QED  BY <1>1, <1>2, <1>3, <1>4 DEF Types, Inv

LEMMA ConsumerGivesUpInv ==
    ASSUME Types, Inv,
           ConsumerGivesUp
    PROVE  Types' /\ Inv'
<1>1. EndedOK'
  BY DEF Types, EndedOK, Inv, KnownInv, ConsumerGivesUp, ConsumerEnds, itemVars
<1>2. ConsumerOK'
  BY DEF Types, ConsumerOK, ConsumerGivesUp, ConsumerEnds
<1>3. KnownInv'
  BY DEF Types, Inv, SeqOK, QueueOK, ConsumerOK, KnownInv, ConsumerGivesUp,
         ConsumerEnds, itemVars, epochVars
<1>4. MediaInv'
  BY DEF Types, Inv, ItemOK, ConsumerOK, AudioOK, SenderOK, InterruptOK, CallOK,
         MediaInv, HasGen, ConsumerGivesUp, ConsumerEnds, itemVars, senderVars,
         delayVars, interruptVars, callVars
<1>5. /\ TurnOK' /\ SeqOK' /\ ItemOK' /\ QueueOK' /\ GenOK' /\ AudioOK' /\ SenderOK'
      /\ InterruptOK' /\ CallOK' /\ CountInv' /\ CallbackInv' /\ PastInv'
      /\ ServedInv' /\ NoStaleSpeech' /\ EngagedInv'
  BY DEF Types, Inv, TurnOK, SeqOK, ItemOK, QueueOK, GenOK, AudioOK, SenderOK,
         InterruptOK, CallOK, CountInv, CallbackInv, PastInv, ServedInv,
         NoStaleSpeech, EngagedInv, Waiting, Engaged, ConsumerGivesUp, ConsumerEnds,
         turnVars, itemVars, senderVars, delayVars, interruptVars, callVars,
         epochVars
<1>. QED  BY <1>1, <1>2, <1>3, <1>4, <1>5 DEF Types, Inv

LEMMA ConsumerExitsInv ==
    ASSUME Types, Inv,
           ConsumerExits
    PROVE  Types' /\ Inv'
<1>1. ConsumerOK'
  BY DEF Types, ConsumerOK, ConsumerExits
<1>2. KnownInv'
  BY DEF Types, Inv, SeqOK, QueueOK, ConsumerOK, KnownInv, ConsumerExits, itemVars,
         epochVars
<1>3. MediaInv'
  BY DEF Types, Inv, ItemOK, ConsumerOK, AudioOK, SenderOK, InterruptOK, CallOK,
         MediaInv, HasGen, ConsumerExits, itemVars, senderVars, delayVars,
         interruptVars, callVars
<1>4. /\ TurnOK' /\ SeqOK' /\ ItemOK' /\ EndedOK' /\ QueueOK' /\ GenOK' /\ AudioOK'
      /\ SenderOK' /\ InterruptOK' /\ CallOK' /\ CountInv' /\ CallbackInv'
      /\ PastInv' /\ ServedInv' /\ NoStaleSpeech' /\ EngagedInv'
  BY DEF Types, Inv, TurnOK, SeqOK, ItemOK, EndedOK, QueueOK, GenOK, AudioOK,
         SenderOK, InterruptOK, CallOK, CountInv, CallbackInv, PastInv, ServedInv,
         NoStaleSpeech, EngagedInv, Waiting, Engaged, ConsumerExits, turnVars,
         itemVars, senderVars, delayVars, interruptVars, callVars, epochVars
<1>. QED  BY <1>1, <1>2, <1>3, <1>4 DEF Types, Inv

LEMMA DelayFiresInv ==
    ASSUME Types, Inv,
           DelayFires
    PROVE  Types' /\ Inv'
<1>h. /\ Tail(delayed) \in Seq(Elems) /\ Sound(Tail(delayed)) /\ Head(delayed) \in Elems
      /\ Head(delayed).kind = "send" => Head(delayed).item \in Items
  BY SoundShortened DEF DelayFires, Types, AudioOK, Inv, CallbackInv
<1>o. /\ EndsIn(<<Head(delayed)>>) \subseteq Items
      /\ Append(ready, Head(delayed)) \in Seq(Elems) /\ Sound(Append(ready, Head(delayed)))
  BY <1>h, SoundOne, SoundEnds, SoundAppended DEF Types, AudioOK, Inv, CallbackInv
<1>1. EndedOK'
  BY <1>h, <1>o DEF Types, EndedOK, DelayFires
<1>2. AudioOK'
  BY <1>h, <1>o DEF Types, AudioOK, DelayFires
<1>3. CallbackInv'
  BY <1>h, <1>o DEF Inv, CallbackInv, DelayFires
<1>4. /\ TurnOK' /\ SeqOK' /\ ItemOK' /\ QueueOK' /\ ConsumerOK' /\ GenOK'
      /\ SenderOK' /\ InterruptOK' /\ CallOK' /\ CountInv' /\ KnownInv' /\ PastInv'
      /\ ServedInv' /\ NoStaleSpeech' /\ EngagedInv' /\ MediaInv'
  BY DEF Types, Inv, TurnOK, SeqOK, ItemOK, QueueOK, ConsumerOK, GenOK, SenderOK,
         InterruptOK, CallOK, CountInv, KnownInv, PastInv, ServedInv, NoStaleSpeech,
         EngagedInv, MediaInv, Waiting, Engaged, HasGen, DelayFires, turnVars,
         itemVars, consumerVars, senderVars, interruptVars, callVars, epochVars
<1>. QED  BY <1>1, <1>2, <1>3, <1>4 DEF Types, Inv

LEMMA SenderMarksInv ==
    ASSUME Types, Inv,
           SenderMarks
    PROVE  Types' /\ Inv'
<1>h. /\ Tail(ready) \in Seq(Elems) /\ Sound(Tail(ready)) /\ Head(ready) \in Elems
      /\ Head(ready).kind = "send" => Head(ready).item \in Items
  BY SoundShortened DEF SenderMarks, Types, AudioOK, Inv, CallbackInv
<1>o. EndsIn(<<Head(ready)>>) \subseteq Items
  BY <1>h, SoundOne, SoundEnds
<1>1. EndedOK'
  BY <1>h, <1>o DEF Types, EndedOK, SenderMarks, delayVars
<1>2. AudioOK'
  BY DEF Types, AudioOK, SenderMarks
<1>3. CallbackInv'
  BY <1>h, <1>o DEF Inv, CallbackInv, SenderMarks, delayVars
<1>4. /\ TurnOK' /\ SeqOK' /\ ItemOK' /\ QueueOK' /\ ConsumerOK' /\ GenOK'
      /\ SenderOK' /\ InterruptOK' /\ CallOK' /\ CountInv' /\ KnownInv' /\ PastInv'
      /\ ServedInv' /\ NoStaleSpeech' /\ EngagedInv' /\ MediaInv'
  BY DEF Types, Inv, TurnOK, SeqOK, ItemOK, QueueOK, ConsumerOK, GenOK, SenderOK,
         InterruptOK, CallOK, CountInv, KnownInv, PastInv, ServedInv, NoStaleSpeech,
         EngagedInv, MediaInv, Waiting, Engaged, HasGen, SenderMarks, turnVars,
         itemVars, consumerVars, senderVars, interruptVars, callVars, epochVars
<1>. QED  BY <1>1, <1>2, <1>3, <1>4 DEF Types, Inv

LEMMA SenderTakesInv ==
    ASSUME Types, Inv,
           SenderTakes
    PROVE  Types' /\ Inv'
<1>. DEFINE e == Head(audioQ)
<1>h. /\ audioQ' \in Seq(Elems) /\ Sound(audioQ') /\ Older(audioQ', gen + 1)
      /\ \A c \in Medias : HasGen(c) => Older(audioQ', igen[c])
      /\ e \in Elems /\ (e.kind = "send" => e.item \in Items)
      /\ \A c \in Medias : HasGen(c) /\ e.kind = "frame" => e.gen < igen[c]
  BY AudioShrinks DEF SenderTakes
<1>o. /\ EndsIn(<<e>>) \subseteq Items
      /\ Append(delayed, e) \in Seq(Elems) /\ Sound(Append(delayed, e))
  BY <1>h, SoundOne, SoundEnds, SoundAppended DEF Types, AudioOK, Inv, CallbackInv
<1>d. /\ ended' \in {ended, ended \union EndsIn(<<e>>)}
      /\ delayed' \in {delayed, Append(delayed, e)}
      /\ \/ sp' = sp /\ hand' = hand
         \/ e.gen = gen /\ sp' \in {"tstop", "frame"} /\ hand' = e
      /\ ttsActive' \in {ttsActive, TRUE} /\ sp = "idle"
  BY DEF SenderTakes, senderVars
<1>. HIDE DEF e
<1>1. EndedOK'
  BY <1>d, <1>o DEF Types, EndedOK
<1>2. AudioOK'
  BY <1>d, <1>h, <1>o DEF Types, AudioOK, SenderTakes
<1>3. SenderOK'
  BY <1>d, <1>h DEF Types, SenderOK
<1>4. CallbackInv'
  BY <1>d, <1>h, <1>o DEF Inv, CallbackInv, SenderTakes
<1>5. PastInv'
  BY <1>h DEF Inv, PastInv, SenderTakes, itemVars, callVars, epochVars
<1>6. ServedInv'
  <2>1. gen \in Nat /\ \A c \in Calls : igen[c] \in Nat /\ igen[c] <= gen
    BY DEF Types, GenOK, CallOK, Inv, PastInv
  <2>2. served \subseteq Calls
    BY DEF Types, InterruptOK
  <2>3. UNCHANGED <<interruptCh, ip, served, igen>>
    BY DEF SenderTakes, interruptVars, callVars
  <2>4. CASE sp' = sp /\ hand' = hand
    BY <2>3, <2>4 DEF Inv, ServedInv, Waiting
  <2>5. CASE e.gen = gen /\ hand' = e
    BY <2>1, <2>2, <2>3, <2>5 DEF Inv, ServedInv, Waiting
  <2>. QED  BY <1>d, <2>4, <2>5
<1>7. NoStaleSpeech'
  <2>1. gen >= settled /\ settled' = settled
    BY DEF SenderTakes, callVars, Types, GenOK, Inv, PastInv
  <2>. QED  BY <1>d, <2>1 DEF Inv, NoStaleSpeech
<1>8. EngagedInv'
  BY DEF Types, Inv, SenderOK, InterruptOK, CallOK, EngagedInv, Engaged,
         SenderTakes, senderVars, interruptVars, callVars
<1>9. MediaInv'
  <2>1. UNCHANGED <<ip, cp, citem, itemGen, igen, served>>
    BY DEF SenderTakes, callVars, consumerVars, itemVars, interruptVars
  <2>2. \A c \in Medias : HasGen(c) =>
         ~(e.gen = gen /\ e.kind = "frame")
    <3>1. gen \in Nat /\ \A c \in Medias : igen[c] \in Nat /\ igen[c] <= gen
      BY DEF Types, GenOK, CallOK, Calls, Inv, PastInv
    <3>. QED  BY <1>h, <3>1
  <2>3. \A c \in Medias : HasGen(c) /\ (c \in served \/ ip[c] \in {"playing", "played"})
         => ~(sp' = "frame" /\ hand'.kind = "frame")
    BY <1>d, <2>2 DEF Inv, MediaInv
  <2>. QED  BY <1>h, <2>1, <2>3 DEF Inv, MediaInv, HasGen
<1>10. /\ TurnOK' /\ SeqOK' /\ ItemOK' /\ QueueOK' /\ ConsumerOK' /\ GenOK'
       /\ InterruptOK' /\ CallOK' /\ CountInv' /\ KnownInv'
  BY DEF Types, Inv, TurnOK, SeqOK, ItemOK, QueueOK, ConsumerOK, GenOK, InterruptOK,
         CallOK, CountInv, KnownInv, SenderTakes, turnVars, itemVars, consumerVars,
         interruptVars, callVars, epochVars
<1>. QED  BY <1>1, <1>2, <1>3, <1>4, <1>5, <1>6, <1>7, <1>8, <1>9, <1>10
             DEF Types, Inv

LEMMA SenderSendsInv ==
    ASSUME Types, Inv,
           SenderSends
    PROVE  Types' /\ Inv'
<1>1. SenderOK'
  BY NothingIsElem DEF SenderSends, Types, SenderOK
<1>2. ServedInv'
  BY DEF Types, Inv, SenderOK, InterruptOK, CallOK, ServedInv, Waiting, SenderSends,
         Nothing, interruptVars, callVars
<1>3. NoStaleSpeech'
  BY DEF Types, Inv, GenOK, SenderOK, NoStaleSpeech, SenderSends, Nothing, callVars,
         epochVars
<1>4. EngagedInv'
  BY DEF Types, Inv, SenderOK, InterruptOK, CallOK, EngagedInv, Engaged,
         SenderSends, Nothing, interruptVars, callVars
<1>5. MediaInv'
  BY DEF Types, Inv, ItemOK, ConsumerOK, AudioOK, SenderOK, InterruptOK, CallOK,
         MediaInv, HasGen, SenderSends, Nothing, itemVars, consumerVars, delayVars,
         interruptVars, callVars
<1>6. /\ TurnOK' /\ SeqOK' /\ ItemOK' /\ EndedOK' /\ QueueOK' /\ ConsumerOK'
      /\ GenOK' /\ AudioOK' /\ InterruptOK' /\ CallOK' /\ CountInv' /\ KnownInv'
      /\ CallbackInv' /\ PastInv'
  BY DEF Types, Inv, TurnOK, SeqOK, ItemOK, EndedOK, QueueOK, ConsumerOK, GenOK,
         AudioOK, InterruptOK, CallOK, CountInv, KnownInv, CallbackInv, PastInv,
         SenderSends, Nothing, turnVars, itemVars, consumerVars, delayVars,
         interruptVars, callVars, epochVars
<1>. QED  BY <1>1, <1>2, <1>3, <1>4, <1>5, <1>6 DEF Types, Inv

LEMMA SenderStopsInv ==
    ASSUME Types, Inv,
           SenderStops
    PROVE  Types' /\ Inv'
<1>1. SenderOK'
  BY NothingIsElem DEF SenderStops, Types, SenderOK
<1>2. ServedInv'
  BY DEF Types, Inv, SenderOK, InterruptOK, CallOK, ServedInv, Waiting, SenderStops,
         Nothing, interruptVars, callVars
<1>3. NoStaleSpeech'
  BY DEF Types, Inv, GenOK, SenderOK, NoStaleSpeech, SenderStops, Nothing, callVars,
         epochVars
<1>4. EngagedInv'
  BY DEF Types, Inv, SenderOK, InterruptOK, CallOK, EngagedInv, Engaged,
         SenderStops, Nothing, interruptVars, callVars
<1>5. MediaInv'
  BY DEF Types, Inv, ItemOK, ConsumerOK, AudioOK, SenderOK, InterruptOK, CallOK,
         MediaInv, HasGen, SenderStops, Nothing, itemVars, consumerVars, delayVars,
         interruptVars, callVars
<1>6. /\ TurnOK' /\ SeqOK' /\ ItemOK' /\ EndedOK' /\ QueueOK' /\ ConsumerOK'
      /\ GenOK' /\ AudioOK' /\ InterruptOK' /\ CallOK' /\ CountInv' /\ KnownInv'
      /\ CallbackInv' /\ PastInv'
  BY DEF Types, Inv, TurnOK, SeqOK, ItemOK, EndedOK, QueueOK, ConsumerOK, GenOK,
         AudioOK, InterruptOK, CallOK, CountInv, KnownInv, CallbackInv, PastInv,
         SenderStops, Nothing, turnVars, itemVars, consumerVars, delayVars,
         interruptVars, callVars, epochVars
<1>. QED  BY <1>1, <1>2, <1>3, <1>4, <1>5, <1>6 DEF Types, Inv

LEMMA SenderInterruptedInv ==
    ASSUME Types, Inv,
           SenderInterrupted
    PROVE  Types' /\ Inv'
<1>1. EndedOK'
  <2>1. EndsIn(audioQ) \subseteq Items /\ EndsIn(ready) \subseteq Items
    BY SoundEnds DEF Types, AudioOK, Inv, CallbackInv
  <2>. QED  BY <2>1 DEF SenderInterrupted, DrainOutput, Types, EndedOK
<1>2. AudioOK'
  BY DEF Types, AudioOK, SenderInterrupted, DrainOutput, Nothing
<1>3. SenderOK'
  BY NothingIsElem DEF SenderInterrupted, DrainOutput, Types, SenderOK
<1>4. InterruptOK'
  <2>1. interruptCh[1] \in Calls /\ <<>> \in Seq(Calls) /\ Len(<<>>) = 0
    BY DEF SenderInterrupted, Types, InterruptOK
  <2>2. /\ interruptCh' = <<>> /\ served' = served \union {interruptCh[1]}
        /\ served \subseteq Calls
       /\ pendingStop' \in BOOLEAN /\ mediaActive' \in BOOLEAN
    BY DEF SenderInterrupted, Types, InterruptOK
  <2>. QED  BY <2>1, <2>2 DEF InterruptOK
<1>5. CallbackInv'
  BY NoneSound DEF SenderInterrupted, DrainOutput, Inv, CallbackInv
<1>6. PastInv'
  BY NoneSound DEF SenderInterrupted, DrainOutput, itemVars, epochVars, callVars,
                   Inv, PastInv
<1>7. ServedInv'
  BY DEF Types, Inv, SenderOK, InterruptOK, CallOK, ServedInv, Waiting,
         SenderInterrupted, DrainOutput, Nothing, callVars
<1>8. NoStaleSpeech'
  BY DEF Types, Inv, GenOK, SenderOK, NoStaleSpeech, SenderInterrupted, DrainOutput,
         Nothing, callVars, epochVars
<1>9. EngagedInv'
  BY DEF Types, Inv, SenderOK, InterruptOK, CallOK, EngagedInv, Engaged,
         SenderInterrupted, DrainOutput, Nothing, callVars
<1>10. MediaInv'
  BY NoneSound DEF SenderInterrupted, DrainOutput, itemVars, consumerVars, callVars,
                   Inv, MediaInv, HasGen
<1>11. /\ TurnOK' /\ SeqOK' /\ ItemOK' /\ QueueOK' /\ ConsumerOK' /\ GenOK'
       /\ CallOK' /\ CountInv' /\ KnownInv'
  BY DEF Types, Inv, TurnOK, SeqOK, ItemOK, QueueOK, ConsumerOK, GenOK, CallOK,
         CountInv, KnownInv, SenderInterrupted, DrainOutput, Nothing, turnVars,
         itemVars, consumerVars, callVars, epochVars
<1>. QED  BY <1>1, <1>2, <1>3, <1>4, <1>5, <1>6, <1>7, <1>8, <1>9, <1>10, <1>11
             DEF Types, Inv

LEMMA SenderLeavesInv ==
    ASSUME Types, Inv,
           SenderLeaves
    PROVE  Types' /\ Inv'
<1>1. EndedOK'
  <2>1. EndsIn(audioQ) \subseteq Items /\ EndsIn(ready) \subseteq Items
    BY SoundEnds DEF Types, AudioOK, Inv, CallbackInv
  <2>. QED  BY <2>1 DEF SenderLeaves, DrainOutput, Types, EndedOK
<1>2. AudioOK'
  BY DEF Types, AudioOK, SenderLeaves, DrainOutput, Nothing
<1>3. SenderOK'
  BY NothingIsElem DEF SenderLeaves, DrainOutput, Types, SenderOK
<1>4. CallbackInv'
  BY NoneSound DEF SenderLeaves, DrainOutput, Inv, CallbackInv
<1>5. PastInv'
  BY NoneSound DEF SenderLeaves, DrainOutput, itemVars, epochVars, callVars, Inv,
                   PastInv
<1>6. ServedInv'
  BY DEF Types, Inv, SenderOK, InterruptOK, CallOK, ServedInv, Waiting,
         SenderLeaves, DrainOutput, Nothing, interruptVars, callVars
<1>7. NoStaleSpeech'
  BY DEF Types, Inv, GenOK, SenderOK, NoStaleSpeech, SenderLeaves, DrainOutput,
         Nothing, callVars, epochVars
<1>8. EngagedInv'
  BY DEF Types, Inv, SenderOK, InterruptOK, CallOK, EngagedInv, Engaged,
         SenderLeaves, DrainOutput, Nothing, interruptVars, callVars
<1>9. MediaInv'
  BY NoneSound DEF SenderLeaves, DrainOutput, itemVars, consumerVars, callVars,
                   interruptVars, Inv, MediaInv, HasGen
<1>10. /\ TurnOK' /\ SeqOK' /\ ItemOK' /\ QueueOK' /\ ConsumerOK' /\ GenOK'
       /\ InterruptOK' /\ CallOK' /\ CountInv' /\ KnownInv'
  BY DEF Types, Inv, TurnOK, SeqOK, ItemOK, QueueOK, ConsumerOK, GenOK, InterruptOK,
         CallOK, CountInv, KnownInv, SenderLeaves, DrainOutput, Nothing, turnVars,
         itemVars, consumerVars, interruptVars, callVars, epochVars
<1>. QED  BY <1>1, <1>2, <1>3, <1>4, <1>5, <1>6, <1>7, <1>8, <1>9, <1>10
             DEF Types, Inv

LEMMA SenderExitsInv ==
    ASSUME Types, Inv,
           SenderExits
    PROVE  Types' /\ Inv'
<1>1. SenderOK'
  BY DEF Types, SenderOK, SenderExits
<1>2. ServedInv'
  BY DEF Types, Inv, SenderOK, InterruptOK, CallOK, ServedInv, Waiting, SenderExits,
         interruptVars, callVars
<1>3. NoStaleSpeech'
  BY DEF Types, Inv, GenOK, SenderOK, NoStaleSpeech, SenderExits, callVars,
         epochVars
<1>4. EngagedInv'
  BY DEF Types, Inv, SenderOK, InterruptOK, CallOK, EngagedInv, Engaged,
         SenderExits, interruptVars, callVars
<1>5. MediaInv'
  BY DEF Types, Inv, ItemOK, ConsumerOK, AudioOK, SenderOK, InterruptOK, CallOK,
         MediaInv, HasGen, SenderExits, itemVars, consumerVars, delayVars,
         interruptVars, callVars
<1>6. /\ TurnOK' /\ SeqOK' /\ ItemOK' /\ EndedOK' /\ QueueOK' /\ ConsumerOK'
      /\ GenOK' /\ AudioOK' /\ InterruptOK' /\ CallOK' /\ CountInv' /\ KnownInv'
      /\ CallbackInv' /\ PastInv'
  BY DEF Types, Inv, TurnOK, SeqOK, ItemOK, EndedOK, QueueOK, ConsumerOK, GenOK,
         AudioOK, InterruptOK, CallOK, CountInv, KnownInv, CallbackInv, PastInv,
         SenderExits, turnVars, itemVars, consumerVars, delayVars, interruptVars,
         callVars, epochVars
<1>. QED  BY <1>1, <1>2, <1>3, <1>4, <1>5, <1>6 DEF Types, Inv

LEMMA StopBeginsInv ==
    ASSUME Types, Inv, NEW c \in Calls,
           StopBegins(c)
    PROVE  Types' /\ Inv'
<1>p. \A d \in Calls : ip'[d] = IF d = c THEN "clear" ELSE ip[d]
  BY DEF StopBegins, Step, Types, CallOK
<1>1. TurnOK'
  <2>1. 1 .. turn \subseteq 1 .. NumTurns
    BY TtsAssumption DEF Types, TurnOK
  <2>. QED  BY <2>1 DEF Types, TurnOK, StopBegins, Step
<1>2. CallOK'
  BY DEF Types, CallOK, StopBegins, Step
<1>3. ServedInv'
  BY DEF Types, Inv, SenderOK, InterruptOK, CallOK, ServedInv, Waiting, StopBegins,
         Step, senderVars, interruptVars
<1>4. EngagedInv'
  BY <1>p, TtsAssumption DEF StopBegins, senderVars, Inv, EngagedInv, Engaged, Calls
<1>5. MediaInv'
  BY DEF Types, Inv, ItemOK, ConsumerOK, AudioOK, SenderOK, InterruptOK, CallOK,
         MediaInv, HasGen, StopBegins, Step, itemVars, consumerVars, senderVars,
         delayVars, interruptVars
<1>6. /\ SeqOK' /\ ItemOK' /\ EndedOK' /\ QueueOK' /\ ConsumerOK' /\ GenOK'
      /\ AudioOK' /\ SenderOK' /\ InterruptOK' /\ CountInv' /\ KnownInv'
      /\ CallbackInv' /\ PastInv' /\ NoStaleSpeech'
  BY DEF Types, Inv, SeqOK, ItemOK, EndedOK, QueueOK, ConsumerOK, GenOK, AudioOK,
         SenderOK, InterruptOK, CountInv, KnownInv, CallbackInv, PastInv,
         NoStaleSpeech, StopBegins, Step, itemVars, consumerVars, senderVars,
         delayVars, interruptVars, epochVars
<1>. QED  BY <1>1, <1>2, <1>3, <1>4, <1>5, <1>6 DEF Types, Inv

LEMMA MediaBeginsInv ==
    ASSUME Types, Inv, NEW c \in Calls,
           MediaBegins(c)
    PROVE  Types' /\ Inv'
<1>1. InterruptOK'
  BY DEF Types, InterruptOK, MediaBegins, Step, interruptVars
<1>2. CallOK'
  BY DEF Types, CallOK, MediaBegins, Step
<1>3. ServedInv'
  BY DEF Types, Inv, SenderOK, InterruptOK, CallOK, ServedInv, Waiting, MediaBegins,
         Step, senderVars, interruptVars
<1>4. EngagedInv'
  BY DEF Types, Inv, SenderOK, InterruptOK, CallOK, EngagedInv, Engaged,
         MediaBegins, Step, senderVars, interruptVars
<1>5. MediaInv'
  BY DEF Types, Inv, ItemOK, ConsumerOK, AudioOK, SenderOK, InterruptOK, CallOK,
         MediaInv, HasGen, MediaBegins, Step, itemVars, consumerVars, senderVars,
         delayVars, interruptVars
<1>6. /\ TurnOK' /\ SeqOK' /\ ItemOK' /\ EndedOK' /\ QueueOK' /\ ConsumerOK'
      /\ GenOK' /\ AudioOK' /\ SenderOK' /\ CountInv' /\ KnownInv' /\ CallbackInv'
      /\ PastInv' /\ NoStaleSpeech'
  BY DEF Types, Inv, TurnOK, SeqOK, ItemOK, EndedOK, QueueOK, ConsumerOK, GenOK,
         AudioOK, SenderOK, CountInv, KnownInv, CallbackInv, PastInv, NoStaleSpeech,
         MediaBegins, Step, turnVars, itemVars, consumerVars, senderVars, delayVars,
         epochVars
<1>. QED  BY <1>1, <1>2, <1>3, <1>4, <1>5, <1>6 DEF Types, Inv

LEMMA CallClearsInv ==
    ASSUME Types, Inv, NEW c \in Calls,
           CallClears(c)
    PROVE  Types' /\ Inv'
<1>1. SeqOK'
  BY DEF Types, SeqOK, CallOK, CallClears, Step, itemVars, epochVars
<1>2. CallOK'
  BY DEF Types, SeqOK, CallOK, CallClears, Step
<1>3. ServedInv'
  BY DEF Types, Inv, SenderOK, InterruptOK, CallOK, ServedInv, Waiting, CallClears,
         Step, senderVars, interruptVars
<1>4. EngagedInv'
  BY DEF Types, Inv, SenderOK, InterruptOK, CallOK, EngagedInv, Engaged, CallClears,
         Step, senderVars, interruptVars
<1>5. MediaInv'
  BY DEF Types, Inv, ItemOK, ConsumerOK, AudioOK, SenderOK, InterruptOK, CallOK,
         MediaInv, HasGen, CallClears, Step, itemVars, consumerVars, senderVars,
         delayVars, interruptVars, epochVars
<1>6. /\ TurnOK' /\ ItemOK' /\ EndedOK' /\ QueueOK' /\ ConsumerOK' /\ GenOK'
      /\ AudioOK' /\ SenderOK' /\ InterruptOK' /\ CountInv' /\ KnownInv'
      /\ CallbackInv' /\ PastInv' /\ NoStaleSpeech'
  BY DEF Types, Inv, TurnOK, ItemOK, EndedOK, QueueOK, ConsumerOK, GenOK, AudioOK,
         SenderOK, InterruptOK, CountInv, KnownInv, CallbackInv, PastInv,
         NoStaleSpeech, CallClears, Step, turnVars, itemVars, consumerVars,
         senderVars, delayVars, interruptVars, epochVars
<1>. QED  BY <1>1, <1>2, <1>3, <1>4, <1>5, <1>6 DEF Types, Inv

LEMMA CallStoresInv ==
    ASSUME Types, Inv, NEW c \in Calls,
           CallStores(c)
    PROVE  Types' /\ Inv'
<1>1. SeqOK'
  BY DEF Types, SeqOK, CallOK, CallStores, Step, itemVars
<1>2. CallOK'
  BY DEF Types, CallOK, CallStores, Step
<1>3. ServedInv'
  BY DEF Types, Inv, SenderOK, InterruptOK, CallOK, ServedInv, Waiting, CallStores,
         Step, senderVars, interruptVars
<1>4. EngagedInv'
  BY DEF Types, Inv, SenderOK, InterruptOK, CallOK, EngagedInv, Engaged, CallStores,
         Step, senderVars, interruptVars
<1>5. MediaInv'
  BY DEF Types, Inv, ItemOK, ConsumerOK, AudioOK, SenderOK, InterruptOK, CallOK,
         MediaInv, HasGen, CallStores, Step, itemVars, consumerVars, senderVars,
         delayVars, interruptVars
<1>6. /\ TurnOK' /\ ItemOK' /\ EndedOK' /\ QueueOK' /\ ConsumerOK' /\ GenOK'
      /\ AudioOK' /\ SenderOK' /\ InterruptOK' /\ CountInv' /\ KnownInv'
      /\ CallbackInv' /\ PastInv' /\ NoStaleSpeech'
  BY DEF Types, Inv, TurnOK, ItemOK, EndedOK, QueueOK, ConsumerOK, GenOK, AudioOK,
         SenderOK, InterruptOK, CountInv, KnownInv, CallbackInv, PastInv,
         NoStaleSpeech, CallStores, Step, turnVars, itemVars, consumerVars,
         senderVars, delayVars, interruptVars
<1>. QED  BY <1>1, <1>2, <1>3, <1>4, <1>5, <1>6 DEF Types, Inv

LEMMA CallDrainsInv ==
    ASSUME Types, Inv, NEW c \in Calls,
           CallDrains(c)
    PROVE  Types' /\ Inv'
<1>1. EndedOK'
  <2>1. {ttsQueue[m] : m \in 1 .. Len(ttsQueue)} \subseteq Items
    BY DEF Types, QueueOK
  <2>. QED  BY <2>1 DEF CallDrains, Types, EndedOK
<1>2. QueueOK'
  BY DEF Types, QueueOK, CallDrains, Step
<1>3. CallOK'
  BY DEF Types, CallOK, CallDrains, Step
<1>4. KnownInv'
  BY DEF Types, Inv, SeqOK, QueueOK, ConsumerOK, KnownInv, CallDrains, Step,
         itemVars, consumerVars, epochVars
<1>5. ServedInv'
  BY DEF Types, Inv, SenderOK, InterruptOK, CallOK, ServedInv, Waiting, CallDrains,
         Step, senderVars, interruptVars
<1>6. EngagedInv'
  BY DEF Types, Inv, SenderOK, InterruptOK, CallOK, EngagedInv, Engaged, CallDrains,
         Step, senderVars, interruptVars
<1>7. MediaInv'
  BY DEF Types, Inv, ItemOK, ConsumerOK, AudioOK, SenderOK, InterruptOK, CallOK,
         MediaInv, HasGen, CallDrains, Step, itemVars, consumerVars, senderVars,
         delayVars, interruptVars
<1>8. /\ TurnOK' /\ SeqOK' /\ ItemOK' /\ ConsumerOK' /\ GenOK' /\ AudioOK'
      /\ SenderOK' /\ InterruptOK' /\ CountInv' /\ CallbackInv' /\ PastInv'
      /\ NoStaleSpeech'
  BY DEF Types, Inv, TurnOK, SeqOK, ItemOK, ConsumerOK, GenOK, AudioOK, SenderOK,
         InterruptOK, CountInv, CallbackInv, PastInv, NoStaleSpeech, CallDrains,
         Step, turnVars, itemVars, consumerVars, senderVars, delayVars,
         interruptVars, epochVars
<1>. QED  BY <1>1, <1>2, <1>3, <1>4, <1>5, <1>6, <1>7, <1>8 DEF Types, Inv

LEMMA CallRecordsInv ==
    ASSUME Types, Inv, NEW c \in Calls,
           CallRecords(c)
    PROVE  Types' /\ Inv'
<1>1. InterruptOK'
  BY DEF Types, InterruptOK, CallRecords, Step
<1>2. CallOK'
  BY DEF Types, CallOK, CallRecords, Step
<1>3. ServedInv'
  BY DEF Types, Inv, SenderOK, InterruptOK, CallOK, ServedInv, Waiting, CallRecords,
         Step, senderVars
<1>4. EngagedInv'
  BY DEF Types, Inv, SenderOK, InterruptOK, CallOK, EngagedInv, Engaged,
         CallRecords, Step, senderVars
<1>5. MediaInv'
  BY DEF Types, Inv, ItemOK, ConsumerOK, AudioOK, SenderOK, InterruptOK, CallOK,
         MediaInv, HasGen, CallRecords, Step, itemVars, consumerVars, senderVars,
         delayVars
<1>6. /\ TurnOK' /\ SeqOK' /\ ItemOK' /\ EndedOK' /\ QueueOK' /\ ConsumerOK'
      /\ GenOK' /\ AudioOK' /\ SenderOK' /\ CountInv' /\ KnownInv' /\ CallbackInv'
      /\ PastInv' /\ NoStaleSpeech'
  BY DEF Types, Inv, TurnOK, SeqOK, ItemOK, EndedOK, QueueOK, ConsumerOK, GenOK,
         AudioOK, SenderOK, CountInv, KnownInv, CallbackInv, PastInv, NoStaleSpeech,
         CallRecords, Step, turnVars, itemVars, consumerVars, senderVars, delayVars,
         epochVars
<1>. QED  BY <1>1, <1>2, <1>3, <1>4, <1>5, <1>6 DEF Types, Inv

LEMMA CallBumpsInv ==
    ASSUME Types, Inv, NEW c \in Calls,
           CallBumps(c)
    PROVE  Types' /\ Inv'
<1>p. \A d \in Calls : ip'[d] = IF d = c THEN "rotate" ELSE ip[d]
  BY DEF CallBumps, Step, Types, CallOK
<1>g. /\ gen \in Nat /\ gen' = gen + 1 /\ igen \in [Calls -> Nat]
      /\ igen' = [igen EXCEPT ![c] = gen + 1]
  BY DEF CallBumps, Types, GenOK, CallOK
<1>i. \A d \in Calls : igen'[d] = IF d = c THEN gen + 1 ELSE igen[d]
  BY <1>g
<1>q. /\ audioQ \in Seq(Elems) /\ Older(audioQ, gen + 1)
      /\ \A i \in Items : itemGen[i] \in Nat /\ itemGen[i] <= gen
  BY DEF Types, AudioOK, ItemOK, Inv, PastInv
<1>1. GenOK'
  BY DEF Types, GenOK, CallBumps, Step
<1>2. CallOK'
  BY <1>g DEF CallBumps, Step, Types, CallOK
<1>3. PastInv'
  <2>1. Older(audioQ, gen + 1 + 1)
    <3>1. gen + 1 \in Nat /\ gen + 1 + 1 \in Nat /\ gen + 1 <= gen + 1 + 1
      BY <1>g
    <3>. QED  BY <1>q, <3>1, OlderStays
  <2>2. \A i \in Items : itemGen[i] <= gen + 1
    BY <1>g, <1>q
  <2>3. \A d \in Calls : igen'[d] <= gen + 1
    BY <1>g, <1>i DEF Inv, PastInv
  <2>4. settled <= gen + 1
    BY <1>g DEF Types, GenOK, Inv, PastInv
  <2>. QED  BY <1>g, <2>1, <2>2, <2>3, <2>4 DEF CallBumps, itemVars, PastInv
<1>4. ServedInv'
  BY DEF Types, Inv, SenderOK, InterruptOK, CallOK, ServedInv, Waiting, CallBumps,
         Step, senderVars, interruptVars
<1>5. EngagedInv'
  BY DEF Types, Inv, SenderOK, InterruptOK, CallOK, EngagedInv, Engaged, CallBumps,
         Step, senderVars, interruptVars
<1>6. MediaInv'
  <2>1. UNCHANGED <<cp, citem, itemGen, audioQ, served, sp, hand>>
    BY DEF CallBumps, consumerVars, itemVars, interruptVars, senderVars
  <2>2. ASSUME NEW d \in Medias, d # c, HasGen(d)'
        PROVE  HasGen(d) /\ igen'[d] = igen[d] /\ ip'[d] = ip[d]
    BY <1>i, <1>p, <2>2 DEF HasGen, Calls
  <2>3. ASSUME c \in Medias
        PROVE  /\ cp \in {"recheck", "sstart", "frame", "send"} => itemGen[citem] < igen'[c]
               /\ Older(audioQ, igen'[c])
               /\ c \notin served /\ ip'[c] \notin {"playing", "played"}
    <3>1. cp \in {"recheck", "sstart", "frame", "send"} => itemGen[citem] < gen + 1
      BY <1>g, <1>q DEF Inv, KnownInv
    <3>2. c \notin served
      BY DEF CallBumps, Step, Inv, ServedInv, Waiting
    <3>. QED  BY <1>i, <1>p, <1>q, <3>1, <3>2
  <2>. QED  BY <2>1, <2>2, <2>3 DEF Inv, MediaInv
<1>7. /\ TurnOK' /\ SeqOK' /\ ItemOK' /\ EndedOK' /\ QueueOK' /\ ConsumerOK'
      /\ AudioOK' /\ SenderOK' /\ InterruptOK' /\ CountInv' /\ KnownInv'
      /\ CallbackInv' /\ NoStaleSpeech'
  BY DEF Types, Inv, TurnOK, SeqOK, ItemOK, EndedOK, QueueOK, ConsumerOK, AudioOK,
         SenderOK, InterruptOK, CountInv, KnownInv, CallbackInv, NoStaleSpeech,
         CallBumps, Step, turnVars, itemVars, consumerVars, senderVars, delayVars,
         interruptVars
<1>. QED  BY <1>1, <1>2, <1>3, <1>4, <1>5, <1>6, <1>7 DEF Types, Inv

LEMMA CallRotatesInv ==
    ASSUME Types, Inv, NEW c \in Calls,
           CallRotates(c)
    PROVE  Types' /\ Inv'
<1>1. GenOK'
  BY DEF Types, GenOK, CallRotates, Step
<1>2. CallOK'
  BY DEF Types, CallOK, CallRotates, Step
<1>3. ServedInv'
  BY DEF Types, Inv, SenderOK, InterruptOK, CallOK, ServedInv, Waiting, CallRotates,
         Step, senderVars, interruptVars
<1>4. EngagedInv'
  BY DEF Types, Inv, SenderOK, InterruptOK, CallOK, EngagedInv, Engaged,
         CallRotates, Step, senderVars, interruptVars
<1>5. MediaInv'
  BY DEF Types, Inv, ItemOK, ConsumerOK, AudioOK, SenderOK, InterruptOK, CallOK,
         MediaInv, HasGen, CallRotates, Step, itemVars, consumerVars, senderVars,
         delayVars, interruptVars
<1>6. /\ TurnOK' /\ SeqOK' /\ ItemOK' /\ EndedOK' /\ QueueOK' /\ ConsumerOK'
      /\ AudioOK' /\ SenderOK' /\ InterruptOK' /\ CountInv' /\ KnownInv'
      /\ CallbackInv' /\ PastInv' /\ NoStaleSpeech'
  BY DEF Types, Inv, TurnOK, SeqOK, ItemOK, EndedOK, QueueOK, ConsumerOK, AudioOK,
         SenderOK, InterruptOK, CountInv, KnownInv, CallbackInv, PastInv,
         NoStaleSpeech, CallRotates, Step, turnVars, itemVars, consumerVars,
         senderVars, delayVars, interruptVars
<1>. QED  BY <1>1, <1>2, <1>3, <1>4, <1>5, <1>6 DEF Types, Inv

LEMMA CallOffersInv ==
    ASSUME Types, Inv, NEW c \in Calls,
           CallOffers(c)
    PROVE  Types' /\ Inv'
<1>p. \A d \in Calls :
         ip'[d] = IF d = c THEN IF c \in Asyncs THEN "finish" ELSE "wait" ELSE ip[d]
  BY DEF CallOffers, Step, Types, CallOK
<1>1. InterruptOK'
  <2>1. <<c>> \in Seq(Calls) /\ Len(<<c>>) = 1
    OBVIOUS
  <2>2. /\ interruptCh' \in {<<c>>, interruptCh} /\ served' \subseteq Calls
       /\ pendingStop' \in BOOLEAN /\ mediaActive' \in BOOLEAN
    BY DEF CallOffers, interruptVars, Types, InterruptOK
  <2>3. interruptCh \in Seq(Calls) /\ Len(interruptCh) <= 1
    BY DEF Types, InterruptOK
  <2>4. interruptCh' \in Seq(Calls) /\ Len(interruptCh') <= 1
    <3>1. CASE interruptCh' = interruptCh
      BY <2>3, <3>1
    <3>2. CASE interruptCh' = <<c>>
      <4>1. Len(interruptCh') = 1
        BY <2>1, <3>2
      <4>. QED  BY <2>1, <3>2, <4>1
    <3>. QED  BY <2>2, <3>1, <3>2
  <2>. QED  BY <2>2, <2>4 DEF InterruptOK
<1>2. CallOK'
  BY DEF Types, CallOK, CallOffers, Step
<1>3. ServedInv'
  BY DEF Types, Inv, SenderOK, InterruptOK, CallOK, ServedInv, Waiting, CallOffers,
         Step, senderVars
<1>4. EngagedInv'
  <2>1. c \in Medias => c \notin Asyncs
    BY TtsAssumption
  <2>. QED  BY <1>p, <2>1 DEF CallOffers, Step, senderVars, Inv, EngagedInv,
                              Engaged, Calls
<1>5. MediaInv'
  BY DEF Types, Inv, ItemOK, ConsumerOK, AudioOK, SenderOK, InterruptOK, CallOK,
         MediaInv, HasGen, CallOffers, Step, itemVars, consumerVars, senderVars,
         delayVars
<1>6. /\ TurnOK' /\ SeqOK' /\ ItemOK' /\ EndedOK' /\ QueueOK' /\ ConsumerOK'
      /\ GenOK' /\ AudioOK' /\ SenderOK'
  BY DEF Types, TurnOK, SeqOK, ItemOK, EndedOK, QueueOK, ConsumerOK, GenOK, AudioOK,
         SenderOK, CallOffers, turnVars, itemVars, consumerVars, senderVars,
         delayVars, epochVars
<1>7. CountInv' /\ KnownInv' /\ CallbackInv' /\ PastInv' /\ NoStaleSpeech'
  BY DEF Inv, CountInv, KnownInv, CallbackInv, PastInv, NoStaleSpeech, CallOffers,
         turnVars, itemVars, consumerVars, senderVars, delayVars, epochVars
<1>. QED  BY <1>1, <1>2, <1>3, <1>4, <1>5, <1>6, <1>7 DEF Types, Inv

LEMMA CallReturnsInv ==
    ASSUME Types, Inv, NEW c \in Calls,
           CallReturns(c)
    PROVE  Types' /\ Inv'
<1>1. GenOK'
  BY DEF Types, GenOK, CallOK, CallReturns, FinishPendingStop, epochVars
<1>2. SenderOK'
  BY DEF Types, SenderOK, CallReturns, FinishPendingStop
<1>3. InterruptOK'
  BY DEF Types, InterruptOK, CallReturns, FinishPendingStop
<1>4. CallOK'
  BY DEF Types, CallOK, CallReturns, FinishPendingStop
<1>5. PastInv'
  BY DEF Types, Inv, ItemOK, GenOK, AudioOK, CallOK, PastInv, CallReturns,
         FinishPendingStop, itemVars, delayVars, epochVars
<1>6. ServedInv'
  BY DEF Types, Inv, SenderOK, InterruptOK, CallOK, ServedInv, Waiting, CallReturns,
         FinishPendingStop
<1>7. NoStaleSpeech'
  <2>1. settled' \in {settled, igen[c]} /\ sp' = sp /\ hand' = hand
    BY DEF CallReturns
  <2>2. sp = "frame" => c \in served
    BY DEF CallReturns
  <2>. QED  BY <2>1, <2>2 DEF Inv, ServedInv, NoStaleSpeech
<1>8. EngagedInv'
  BY DEF Types, Inv, SenderOK, InterruptOK, CallOK, EngagedInv, Engaged,
         CallReturns, FinishPendingStop
<1>9. MediaInv'
  BY DEF Types, Inv, ItemOK, ConsumerOK, AudioOK, SenderOK, InterruptOK, CallOK,
         MediaInv, HasGen, CallReturns, FinishPendingStop, itemVars, consumerVars,
         delayVars
<1>10. /\ TurnOK' /\ SeqOK' /\ ItemOK' /\ EndedOK' /\ QueueOK' /\ ConsumerOK'
       /\ AudioOK' /\ CountInv' /\ KnownInv' /\ CallbackInv'
  BY DEF Types, Inv, TurnOK, SeqOK, ItemOK, EndedOK, QueueOK, ConsumerOK, AudioOK,
         CountInv, KnownInv, CallbackInv, CallReturns, FinishPendingStop, turnVars,
         itemVars, consumerVars, delayVars, epochVars
<1>. QED  BY <1>1, <1>2, <1>3, <1>4, <1>5, <1>6, <1>7, <1>8, <1>9, <1>10
             DEF Types, Inv

LEMMA CallTimesOutInv ==
    ASSUME Types, Inv, NEW c \in Calls,
           CallTimesOut(c)
    PROVE  Types' /\ Inv'
<1>1. SenderOK'
  BY DEF Types, SenderOK, CallTimesOut, FinishPendingStop
<1>2. InterruptOK'
  BY DEF Types, InterruptOK, CallTimesOut, FinishPendingStop
<1>3. CallOK'
  BY DEF Types, CallOK, CallTimesOut, FinishPendingStop
<1>4. ServedInv'
  BY DEF Types, Inv, SenderOK, InterruptOK, CallOK, ServedInv, Waiting,
         CallTimesOut, FinishPendingStop
<1>5. EngagedInv'
  <2>1. \A d \in Calls : ip'[d] = IF d = c THEN "late" ELSE ip[d]
    BY DEF CallTimesOut, Types, CallOK
  <2>2. \A d \in Calls : Engaged(d)' => Engaged(d) /\ d # c
    BY <2>1 DEF Engaged
  <2>3. c \in Medias => Engaged(c)
    BY DEF CallTimesOut, Engaged
  <2>4. /\ \A d \in Calls : Engaged(d)' => mediaActive'
        /\ \A d, e \in Calls : Engaged(d)' /\ Engaged(e)' => d = e
    BY <2>2, <2>3 DEF Inv, EngagedInv, CallTimesOut
  <2>5. /\ \A d \in Calls : ip'[d] \in {"playing", "played"} => d \in Medias
        /\ \A d \in Medias :
              ip'[d] # "record" /\ (ip'[d] = "finish" => sp' = "exited")
    BY <2>1 DEF Inv, EngagedInv, CallTimesOut, Calls
  <2>. QED  BY <2>4, <2>5 DEF EngagedInv
<1>6. MediaInv'
  BY DEF Types, Inv, ItemOK, ConsumerOK, AudioOK, SenderOK, InterruptOK, CallOK,
         MediaInv, HasGen, CallTimesOut, FinishPendingStop, itemVars, consumerVars,
         delayVars
<1>7. /\ TurnOK' /\ SeqOK' /\ ItemOK' /\ EndedOK' /\ QueueOK' /\ ConsumerOK'
      /\ GenOK' /\ AudioOK' /\ CountInv' /\ KnownInv' /\ CallbackInv' /\ PastInv'
      /\ NoStaleSpeech'
  BY DEF Types, Inv, TurnOK, SeqOK, ItemOK, EndedOK, QueueOK, ConsumerOK, GenOK,
         AudioOK, CountInv, KnownInv, CallbackInv, PastInv, NoStaleSpeech,
         CallTimesOut, FinishPendingStop, turnVars, itemVars, consumerVars,
         delayVars, epochVars
<1>. QED  BY <1>1, <1>2, <1>3, <1>4, <1>5, <1>6, <1>7 DEF Types, Inv

LEMMA CallFinishesInv ==
    ASSUME Types, Inv, NEW c \in Calls,
           CallFinishes(c)
    PROVE  Types' /\ Inv'
<1>p. \A d \in Calls :
         ip'[d] = IF d = c THEN IF c \in Medias THEN "playing" ELSE "over" ELSE ip[d]
  BY DEF CallFinishes, Step, Types, CallOK
<1>1. SenderOK'
  BY DEF Types, SenderOK, CallFinishes, Step, FinishPendingStop
<1>2. InterruptOK'
  BY DEF Types, InterruptOK, CallFinishes, Step, FinishPendingStop
<1>3. CallOK'
  BY DEF Types, CallOK, CallFinishes, Step, FinishPendingStop
<1>4. ServedInv'
  BY DEF Types, Inv, SenderOK, InterruptOK, CallOK, ServedInv, Waiting,
         CallFinishes, Step, FinishPendingStop
<1>5. EngagedInv'
  BY DEF Types, Inv, SenderOK, InterruptOK, CallOK, EngagedInv, Engaged,
         CallFinishes, Step, FinishPendingStop
<1>6. MediaInv'
  <2>1. UNCHANGED <<cp, citem, itemGen, audioQ, igen, served, sp, hand>>
    BY DEF CallFinishes, consumerVars, itemVars
  <2>2. ip[c] = "finish" /\ (c \in Medias => sp # "frame")
    BY DEF CallFinishes, Step, Inv, EngagedInv
  <2>. QED  BY <1>p, <2>1, <2>2 DEF Inv, MediaInv, HasGen, Calls
<1>7. /\ TurnOK' /\ SeqOK' /\ ItemOK' /\ EndedOK' /\ QueueOK' /\ ConsumerOK'
      /\ GenOK' /\ AudioOK' /\ CountInv' /\ KnownInv' /\ CallbackInv' /\ PastInv'
      /\ NoStaleSpeech'
  BY DEF Types, Inv, TurnOK, SeqOK, ItemOK, EndedOK, QueueOK, ConsumerOK, GenOK,
         AudioOK, CountInv, KnownInv, CallbackInv, PastInv, NoStaleSpeech,
         CallFinishes, Step, FinishPendingStop, turnVars, itemVars, consumerVars,
         delayVars, epochVars
<1>. QED  BY <1>1, <1>2, <1>3, <1>4, <1>5, <1>6, <1>7 DEF Types, Inv

LEMMA MediaPlaysInv ==
    ASSUME Types, Inv, NEW c \in Calls,
           MediaPlays(c)
    PROVE  Types' /\ Inv'
<1>p. \A d \in Calls : ip'[d] = IF d = c THEN "played" ELSE ip[d]
  BY DEF MediaPlays, Step, Types, CallOK
<1>e. /\ Elem("media", gen, 0) \in Elems
      /\ Elem("media", gen, 0).kind \notin {"send", "frame"}
  BY DEF Types, GenOK, Elem, Elems, Kinds
<1>a. /\ AudioOK' /\ CallbackInv' /\ Older(audioQ', gen + 1)
      /\ \A d \in Medias : HasGen(d) => Older(audioQ', igen[d])
  <2>1. /\ audioQ' = Append(audioQ, Elem("media", gen, 0))
        /\ UNCHANGED <<delayed, ready>>
    BY DEF MediaPlays, delayVars
  <2>. QED  BY <1>e, <2>1, AudioGrows
<1>1. AudioOK'
  BY <1>a
<1>2. CallOK'
  BY DEF Types, CallOK, MediaPlays, Step
<1>3. CallbackInv'
  BY <1>a
<1>4. PastInv'
  BY <1>a DEF Inv, PastInv, MediaPlays, Step, itemVars, epochVars
<1>5. ServedInv'
  BY DEF Types, Inv, SenderOK, InterruptOK, CallOK, ServedInv, Waiting, MediaPlays,
         Step, senderVars, interruptVars
<1>6. EngagedInv'
  BY DEF Types, Inv, SenderOK, InterruptOK, CallOK, EngagedInv, Engaged, MediaPlays,
         Step, senderVars, interruptVars
<1>7. MediaInv'
  <2>1. UNCHANGED <<cp, citem, itemGen, igen, served, sp, hand>>
    BY DEF MediaPlays, consumerVars, itemVars, interruptVars, senderVars
  <2>2. ip[c] = "playing" /\ c \in Medias
    BY DEF MediaPlays, Step
  <2>. QED  BY <1>a, <1>p, <2>1, <2>2 DEF Inv, MediaInv, HasGen, Calls
<1>8. /\ TurnOK' /\ SeqOK' /\ ItemOK' /\ EndedOK' /\ QueueOK' /\ ConsumerOK'
      /\ GenOK' /\ SenderOK' /\ InterruptOK' /\ CountInv' /\ KnownInv'
      /\ NoStaleSpeech'
  BY DEF Types, Inv, TurnOK, SeqOK, ItemOK, EndedOK, QueueOK, ConsumerOK, GenOK,
         SenderOK, InterruptOK, CountInv, KnownInv, NoStaleSpeech, MediaPlays, Step,
         turnVars, itemVars, consumerVars, senderVars, interruptVars, epochVars
<1>. QED  BY <1>1, <1>2, <1>3, <1>4, <1>5, <1>6, <1>7, <1>8 DEF Types, Inv

LEMMA MediaEndsInv ==
    ASSUME Types, Inv, NEW c \in Calls,
           MediaEnds(c)
    PROVE  Types' /\ Inv'
<1>p. \A d \in Calls : ip'[d] = IF d = c THEN "over" ELSE ip[d]
  BY DEF MediaEnds, Types, CallOK
<1>1. InterruptOK'
  BY DEF Types, InterruptOK, MediaEnds, interruptVars
<1>2. CallOK'
  BY DEF Types, CallOK, MediaEnds
<1>3. ServedInv'
  BY DEF Types, Inv, SenderOK, InterruptOK, CallOK, ServedInv, Waiting, MediaEnds,
         senderVars, interruptVars
<1>4. EngagedInv'
  <2>1. c \in Medias => Engaged(c)
    BY DEF MediaEnds, Engaged
  <2>. QED  BY <1>p, <2>1 DEF MediaEnds, senderVars, Inv, EngagedInv, Engaged, Calls
<1>5. MediaInv'
  BY DEF Types, Inv, ItemOK, ConsumerOK, AudioOK, SenderOK, InterruptOK, CallOK,
         MediaInv, HasGen, MediaEnds, itemVars, consumerVars, senderVars, delayVars,
         interruptVars
<1>6. /\ TurnOK' /\ SeqOK' /\ ItemOK' /\ EndedOK' /\ QueueOK' /\ ConsumerOK'
      /\ GenOK' /\ AudioOK' /\ SenderOK' /\ CountInv' /\ KnownInv' /\ CallbackInv'
      /\ PastInv' /\ NoStaleSpeech'
  BY DEF Types, Inv, TurnOK, SeqOK, ItemOK, EndedOK, QueueOK, ConsumerOK, GenOK,
         AudioOK, SenderOK, CountInv, KnownInv, CallbackInv, PastInv, NoStaleSpeech,
         MediaEnds, turnVars, itemVars, consumerVars, senderVars, delayVars,
         epochVars
<1>. QED  BY <1>1, <1>2, <1>3, <1>4, <1>5, <1>6 DEF Types, Inv

LEMMA CloseSessionInv ==
    ASSUME Types, Inv,
           CloseSession
    PROVE  Types' /\ Inv'
<1>1. TurnOK'
  BY DEF Types, TurnOK, CloseSession, turnVars
<1>2. /\ SeqOK' /\ ItemOK' /\ EndedOK' /\ QueueOK' /\ ConsumerOK' /\ GenOK'
      /\ AudioOK' /\ SenderOK' /\ InterruptOK' /\ CallOK'
  BY DEF Types, SeqOK, ItemOK, EndedOK, QueueOK, ConsumerOK, GenOK, AudioOK, SenderOK,
         InterruptOK, CallOK, CloseSession, itemVars, consumerVars, senderVars,
         delayVars, interruptVars, callVars, epochVars
<1>3. CountInv' /\ KnownInv' /\ CallbackInv' /\ PastInv'
  BY DEF Inv, CountInv, KnownInv, CallbackInv, PastInv, CloseSession, turnVars,
         itemVars, consumerVars, delayVars, callVars, epochVars
<1>4. ServedInv' /\ NoStaleSpeech' /\ EngagedInv' /\ MediaInv'
  BY DEF Inv, ServedInv, NoStaleSpeech, EngagedInv, MediaInv, Engaged, HasGen,
         CloseSession, itemVars, consumerVars, senderVars, interruptVars, callVars
<1>. QED  BY <1>1, <1>2, <1>3, <1>4 DEF Types, Inv

-----------------------------------------------------------------------------
(***************************************************************************)
(* The invariant holds for ever.                                           *)
(***************************************************************************)
LEMMA InitInv == Init => Types /\ Inv
<1>. SUFFICES ASSUME Init PROVE Types /\ Inv
  OBVIOUS
<1>1. NumTurns \in Nat /\ Sentences \in Nat /\ NumTurns * Sentences \in Nat
  BY TtsAssumption
<1>2. TurnOK /\ SeqOK /\ EndedOK /\ ConsumerOK /\ GenOK
  <2>1. /\ 0 \in 0 .. NumTurns /\ 0 \in 0 .. Sentences /\ 0 \in Nat /\ 1 \in Nat
        /\ 0 \in 0 .. NumTurns * Sentences /\ 0 \in 0 .. 0
    BY <1>1
  <2>2. TurnOK
    BY <2>1 DEF Init, TurnOK
  <2>3. SeqOK
    BY <2>1 DEF Init, SeqOK
  <2>4. EndedOK /\ ConsumerOK /\ GenOK
    BY <2>1 DEF Init, EndedOK, ConsumerOK, GenOK
  <2>. QED  BY <2>2, <2>3, <2>4
<1>3. ItemOK
  <2>1. 0 \in Nat /\ 0 \in 0 .. NumTurns
    BY <1>1
  <2>. QED  BY <2>1 DEF Init, ItemOK
<1>4. QueueOK /\ AudioOK
  BY NoneSound DEF Init, QueueOK, AudioOK
<1>5. SenderOK
  BY NothingIsElem DEF Init, SenderOK
<1>a. InterruptOK
  <2>1. <<>> \in Seq(Calls) /\ Len(<<>>) = 0
    OBVIOUS
  <2>2. interruptCh \in Seq(Calls) /\ Len(interruptCh) <= 1
    BY <2>1 DEF Init
  <2>. QED  BY <2>2 DEF Init, InterruptOK
<1>b. CallOK
  <2>1. 0 \in Nat
    OBVIOUS
  <2>. QED  BY <2>1 DEF Init, CallOK
<1>6. CountInv /\ KnownInv /\ ServedInv /\ NoStaleSpeech
  BY <1>1 DEF Init, CountInv, KnownInv, ServedInv, NoStaleSpeech
<1>7. CallbackInv /\ PastInv
  BY NoneSound DEF Init, CallbackInv, PastInv
<1>8. \A c \in Calls : ip[c] = "new"
  BY DEF Init
<1>9. EngagedInv /\ MediaInv
  BY <1>8 DEF EngagedInv, Engaged, MediaInv, HasGen, Calls
<1>. QED  BY <1>2, <1>3, <1>4, <1>5, <1>a, <1>b, <1>6, <1>7, <1>9 DEF Types, Inv

LEMMA StutterInv == Types /\ Inv /\ UNCHANGED vars => Types' /\ Inv'
<1>. SUFFICES ASSUME Types, Inv, UNCHANGED vars PROVE Types' /\ Inv'
  OBVIOUS
<1>. USE DEF vars, turnVars, itemVars, consumerVars, senderVars, delayVars,
         interruptVars, callVars, epochVars
<1>1. Types'
  BY DEF Types, TurnOK, SeqOK, ItemOK, EndedOK, QueueOK, ConsumerOK, GenOK, AudioOK,
         SenderOK, InterruptOK, CallOK
<1>2. CountInv' /\ KnownInv' /\ CallbackInv' /\ PastInv'
  BY DEF Inv, CountInv, KnownInv, CallbackInv, PastInv
<1>3. ServedInv' /\ NoStaleSpeech'
  BY DEF Inv, ServedInv, Waiting, NoStaleSpeech
<1>4. EngagedInv' /\ MediaInv'
  BY DEF Inv, EngagedInv, Engaged, MediaInv, HasGen
<1>. QED  BY <1>1, <1>2, <1>3, <1>4 DEF Inv

LEMMA StepInv == Types /\ Inv /\ [Next]_vars => Types' /\ Inv'
<1>. SUFFICES ASSUME Types, Inv, Next PROVE Types' /\ Inv'
  BY StutterInv
<1>1. CASE Turn
  <2>1. <<"tstart", "speak">> \in {<<"tstart", "speak">>, <<"tstop", "idle">>}
    OBVIOUS
  <2>2. <<"tstop", "idle">> \in {<<"tstart", "speak">>, <<"tstop", "idle">>}
    OBVIOUS
  <2>3. CASE EnqueueTtsStart
    BY <2>1, <2>3, TurnEnqueuesInv DEF EnqueueTtsStart
  <2>4. CASE EnqueueTtsStop
    BY <2>2, <2>4, TurnEnqueuesInv DEF EnqueueTtsStop
  <2>. QED  BY <1>1, <2>3, <2>4, TurnStartsInv, TurnSpeaksInv, TurnPushesInv,
               TurnDrainsInv DEF Turn
<1>2. CASE Consumer
  BY <1>2, ConsumerPopsInv, ConsumerBindsInv, ConsumerWaitsInv, ConsumerRechecksInv,
     ConsumerEnqueuesInv, ConsumerHasNoFrameInv, ConsumerGivesUpInv, ConsumerExitsInv
     DEF Consumer
<1>3. CASE DelayFires
  BY <1>3, DelayFiresInv
<1>4. CASE Sender
  BY <1>4, SenderMarksInv, SenderTakesInv, SenderSendsInv, SenderStopsInv,
     SenderInterruptedInv, SenderLeavesInv, SenderExitsInv DEF Sender
<1>5. ASSUME NEW c \in Calls, Call(c)
      PROVE  Types' /\ Inv'
  BY <1>5, CallClearsInv, CallStoresInv, CallDrainsInv, CallRecordsInv,
     CallBumpsInv, CallRotatesInv, CallOffersInv, CallReturnsInv, CallFinishesInv, MediaEndsInv DEF Call
<1>6. ASSUME NEW c \in Calls,
             StopBegins(c) \/ MediaBegins(c) \/ CallTimesOut(c) \/ MediaPlays(c)
      PROVE  Types' /\ Inv'
  BY <1>6, StopBeginsInv, MediaBeginsInv, CallTimesOutInv, MediaPlaysInv
<1>7. CASE CloseSession
  BY <1>7, CloseSessionInv
<1>. QED  BY <1>1, <1>2, <1>3, <1>4, <1>5, <1>6, <1>7 DEF Next

LEMMA AlwaysInv == Spec => [](Types /\ Inv)
<1>. QED  BY InitInv, StepInv, PTL DEF Spec

-----------------------------------------------------------------------------
\* Every variable keeps its type: the number up to which ClearTTSQueue voids
\* sentences never runs ahead of ttsQueueSeq, a turn numbers no more sentences
\* than it may, and audioInterruptRequests holds one request at most.
THEOREM TtsTypeCorrect == Spec => []TypeOK
<1>1. Types /\ Inv => TypeOK
  BY TypesAreTypeOK
<1>. QED  BY <1>1, AlwaysInv, PTL

\* Once stopSpeaking has returned, or a media playback has the output, the
\* sender (runSenderLoop) has no frame of an earlier generation in hand,
\* however the interruption met the turn, the consumer, the delay loop and
\* other interruptions.
THEOREM TtsNoStaleSpeech == Spec => []NoStaleSpeech
<1>1. Types /\ Inv => NoStaleSpeech
  BY DEF Inv
<1>. QED  BY <1>1, AlwaysInv, PTL

\* While a playback has the output (from BeginExclusiveMediaPlayback's return
\* to EndExclusiveMediaPlayback) no sentence is spoken over it.
THEOREM TtsMediaExclusive == Spec => []MediaExclusive
<1>1. Types /\ Inv => MediaExclusive
  BY DEF Inv, MediaInv, HasGen, MediaExclusive
<1>. QED  BY <1>1, AlwaysInv, PTL

\* At most one playback has the output, although BeginExclusiveMediaPlayback
\* only tests and sets a flag that other calls reset.
THEOREM TtsOnePlayback ==
    Spec => [](\A c, d \in Medias : /\ ip[c] \in {"playing", "played"}
                                    /\ ip[d] \in {"playing", "played"}
                                    => c = d)
<1>1. Types /\ Inv => \A c, d \in Medias : /\ ip[c] \in {"playing", "played"}
                                           /\ ip[d] \in {"playing", "played"}
                                           => c = d
  BY DEF Inv, EngagedInv, Engaged, Calls
<1>. QED  BY <1>1, AlwaysInv, PTL
=============================================================================
