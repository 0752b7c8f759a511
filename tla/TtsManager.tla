----------------------------- MODULE TtsManager -----------------------------
(***************************************************************************)
(* Speech output of one chat session: TTSManager of                        *)
(* internal/app/server/chat/tts.go, with the queue of internal/util and    *)
(* the turn that LLMManager drives through it.                             *)
(*                                                                         *)
(* Sentences travel from the turn's goroutine through ttsQueue to the      *)
(* consumer, which synthesises them; from there as elements of             *)
(* sessionAudioQueue to the sender, the only goroutine that writes to the  *)
(* device; sentence marks make a detour through the delay loop.  The turn  *)
(* waits until the end callback of each of its sentences has been called,  *)
(* wherever along this way the sentence was played, dropped or drained.    *)
(*                                                                         *)
(* Against this flow run the interruptions: stopSpeaking (synchronous),    *)
(* InterruptAndClearTTSQueue (asynchronous) and a media playback that      *)
(* takes the output for itself.  They share no lock with it: an audio      *)
(* generation, a sequence number and a rotated channel make everything     *)
(* older than the interruption disappear.                                  *)
(*                                                                         *)
(* Text, audio, timing, tracing, the listen state that follows a stop and  *)
(* the stream modes, in which one queue item carries several sentences,    *)
(* are left out.                                                           *)
(***************************************************************************)
EXTENDS Integers, Sequences

CONSTANTS
    Stops,      \* calls of ChatSession.stopSpeaking
    Asyncs,     \* calls of ChatSession.InterruptAndClearTTSQueue
    Medias,     \* media playbacks that take the output
    NumTurns,   \* turns of the conversation
    Sentences,  \* sentences of a turn
    Stories,    \* turns that tell a story: what was said of it is played out
    AudioCap,   \* SessionAudioQueueCap
    MayFail,    \* whether synthesis may fail
    MayClose    \* whether the session may be closed

ASSUME TtsAssumption ==
    /\ Stops \intersect Asyncs = {}
    /\ Medias \intersect (Stops \union Asyncs) = {}
    /\ NumTurns \in Nat
    /\ Sentences \in Nat
    /\ Stories \subseteq 1 .. NumTurns
    /\ AudioCap \in Nat \ {0}
    /\ MayFail \in BOOLEAN
    /\ MayClose \in BOOLEAN

VARIABLES
    closed,      \* the session's context is cancelled
    turn, tp,    \* the LLM goroutine: its current turn, and where it is
    said,        \* sentences of the current turn handed over so far
    tgen,        \* the generation it has read and not yet used
    cancelled,   \* turns whose context is cancelled
    seq,         \* ttsQueueSeq: number of the sentence handed over last
    dropped,     \* droppedTTSSeq
    itemGen,     \* generation of each sentence
    itemTurn,    \* turn of each sentence
    ended,       \* sentences whose end callback was called
    ttsQueue,
    cp, citem,   \* the consumer: where it is, and with which sentence
    cepoch,      \* the interrupt channel the sentence's context listens to
    gen,         \* audioGeneration
    epoch,       \* identity of audioInterruptCh; an older one is closed
    audioQ,      \* sessionAudioQueue
    delayed,     \* delayedSentenceQueue and the delay loop's pending tasks
    ready,       \* delayedSentenceReadyQueue
    sp, hand,    \* the sender: where it is, and with which element
    ttsActive,   \* a tts_start was sent and no tts_stop yet
    interruptCh, \* a channel of capacity one
    served,      \* interruptions whose done channel is closed
    pendingStop, \* interruptStopPending
    mediaActive, \* mediaPlaybackActive
    ip,          \* progress of each interruption
    igen,        \* generation each interruption has established
    loaded,      \* the value of ttsQueueSeq each has read and not yet used
    settled      \* highest generation whose interruption was waited for

turnVars == <<turn, tp, said, tgen, cancelled>>
itemVars == <<seq, itemGen, itemTurn>>
consumerVars == <<cp, citem, cepoch>>
senderVars == <<sp, hand, ttsActive>>
delayVars == <<delayed, ready>>
interruptVars == <<interruptCh, served, pendingStop>>
callVars == <<ip, igen, loaded, settled>>
epochVars == <<gen, epoch, dropped>>
vars == <<closed, turnVars, itemVars, ended, ttsQueue, consumerVars, epochVars,
          audioQ, delayVars, senderVars, interruptVars, mediaActive, callVars>>

Calls == Stops \union Asyncs \union Medias
Items == 1 .. NumTurns * Sentences
Kinds == {"tstart", "sstart", "frame", "send", "tstop", "media"}
Elems == [kind : Kinds, gen : Nat, item : Items \union {0}]
Nothing == [kind |-> "tstop", gen |-> 0, item |-> 0]

Elem(k, g, i) == [kind |-> k, gen |-> g, item |-> i]

\* The sentences whose end callback travels with the elements of q.
EndsIn(q) == {q[n].item : n \in {m \in 1 .. Len(q) : q[m].kind = "send"}}

\* The contexts of a turn and of a sentence in the consumer's hands.  The
\* second is cancelled through a goroutine that watches the channel, so a
\* stale epoch may be noticed late.
TurnDone(t) == closed \/ t \in cancelled
ItemDone(i) == TurnDone(itemTurn[i]) \/ cepoch # epoch
HasRoom == Len(audioQ) < AudioCap

Init ==
    /\ closed = FALSE
    /\ turn = 0 /\ tp = "idle" /\ said = 0 /\ tgen = 0 /\ cancelled = {}
    /\ seq = 0 /\ dropped = 0
    /\ itemGen = [i \in Items |-> 0] /\ itemTurn = [i \in Items |-> 0]
    /\ ended = {} /\ ttsQueue = <<>>
    /\ cp = "pop" /\ citem = 0 /\ cepoch = 0
    /\ gen = 1 /\ epoch = 0
    /\ audioQ = <<>> /\ delayed = <<>> /\ ready = <<>>
    /\ sp = "idle" /\ hand = Nothing /\ ttsActive = FALSE
    /\ interruptCh = <<>> /\ served = {} /\ pendingStop = FALSE
    /\ mediaActive = FALSE
    /\ ip = [c \in Calls |-> "new"] /\ igen = [c \in Calls |-> 0]
    /\ loaded = [c \in Calls |-> 0]
    /\ settled = 0

-----------------------------------------------------------------------------
(***************************************************************************)
(* A turn: tts_start, the sentences, wait for their end, tts_stop.  Turns  *)
(* follow each other in one goroutine (processLLMResponseQueue).           *)
(***************************************************************************)
TurnStarts ==
    /\ tp = "idle" /\ turn < NumTurns /\ ~closed
    /\ turn' = turn + 1
    /\ said' = 0
    /\ tgen' = gen
    /\ tp' = "tstart"
    /\ UNCHANGED <<closed, cancelled, itemVars, ended, ttsQueue, consumerVars,
                   epochVars, audioQ, delayVars, senderVars, interruptVars,
                   mediaActive, callVars>>

\* enqueueSessionElem: an element of the generation read when the call was
\* made; nothing is queued once the context is cancelled.
TurnEnqueues(kind, next) ==
    /\ tp = kind
    /\ IF TurnDone(turn)
         THEN audioQ' = audioQ
         ELSE HasRoom /\ audioQ' = Append(audioQ, Elem(kind, tgen, 0))
    /\ tp' = next
    /\ UNCHANGED <<closed, turn, said, tgen, cancelled, itemVars, ended,
                   ttsQueue, consumerVars, epochVars, delayVars, senderVars,
                   interruptVars, mediaActive, callVars>>

EnqueueTtsStart == TurnEnqueues("tstart", "speak")
EnqueueTtsStop == TurnEnqueues("tstop", "idle")

\* handleTextResponse: a cancelled turn says nothing; otherwise the sentence
\* takes the generation of now, is registered with the turn's tracker and,
\* in pushTTSQueueItem, gets its number ...
TurnSpeaks ==
    /\ tp = "speak" /\ said < Sentences
    /\ said' = said + 1
    /\ IF TurnDone(turn)
         THEN UNCHANGED <<tp, itemVars>>
         ELSE /\ seq' = seq + 1
              /\ itemGen' = [itemGen EXCEPT ![seq + 1] = gen]
              /\ itemTurn' = [itemTurn EXCEPT ![seq + 1] = turn]
              /\ tp' = "push"
    /\ UNCHANGED <<closed, turn, tgen, cancelled, ended, ttsQueue,
                   consumerVars, epochVars, audioQ, delayVars, senderVars,
                   interruptVars, mediaActive, callVars>>

\* ... then PushBlocking, which fails only with the context.
TurnPushes ==
    /\ tp = "push"
    /\ \/ /\ ttsQueue' = Append(ttsQueue, seq)
          /\ ended' = ended
       \/ /\ TurnDone(turn)
          /\ ended' = ended \union {seq}
          /\ ttsQueue' = ttsQueue
    /\ tp' = "speak"
    /\ UNCHANGED <<closed, turn, said, tgen, cancelled, itemVars, consumerVars,
                   epochVars, audioQ, delayVars, senderVars, interruptVars,
                   mediaActive, callVars>>

\* waitForTTSTurnDrain, and the generation of the tts_stop that follows.  A
\* cancelled turn waits no longer, unless it tells a story.
Drained(t) == \A i \in Items : itemTurn[i] = t => i \in ended

TurnDrains ==
    /\ tp = "speak" /\ said = Sentences
    /\ Drained(turn) \/ (TurnDone(turn) /\ turn \notin Stories)
    /\ tgen' = gen
    /\ tp' = "tstop"
    /\ UNCHANGED <<closed, turn, said, cancelled, itemVars, ended, ttsQueue,
                   consumerVars, epochVars, audioQ, delayVars, senderVars,
                   interruptVars, mediaActive, callVars>>

Turn ==
    \/ TurnStarts \/ EnqueueTtsStart \/ TurnSpeaks \/ TurnPushes
    \/ TurnDrains \/ EnqueueTtsStop

-----------------------------------------------------------------------------
(***************************************************************************)
(* processTTSQueue and handleTts.                                          *)
(***************************************************************************)
\* dismissTTSQueueItem, and every other path on which the consumer is rid of
\* its sentence and calls the end callback itself.
ConsumerEnds(i) ==
    /\ ended' = ended \union {i}
    /\ cp' = "pop"
    /\ citem' = 0

ConsumerPops ==
    /\ cp = "pop" /\ ttsQueue # <<>>
    /\ ttsQueue' = Tail(ttsQueue)
    /\ IF Head(ttsQueue) <= dropped
         THEN ConsumerEnds(Head(ttsQueue))
         ELSE cp' = "bind" /\ citem' = Head(ttsQueue) /\ ended' = ended
    /\ UNCHANGED <<closed, turnVars, itemVars, cepoch, epochVars, audioQ,
                   delayVars, senderVars, interruptVars, mediaActive, callVars>>

\* withAudioInterruptContext: the sentence listens to the channel of now.
ConsumerBinds ==
    /\ cp = "bind"
    /\ cepoch' = epoch
    /\ cp' = "media"
    /\ UNCHANGED <<closed, turnVars, itemVars, ended, ttsQueue, citem,
                   epochVars, audioQ, delayVars, senderVars, interruptVars,
                   mediaActive, callVars>>

\* waitForMediaPlaybackRelease
ConsumerWaits ==
    /\ cp = "media"
    /\ \/ /\ ~mediaActive
          /\ cp' = "recheck"
          /\ UNCHANGED <<citem, ended>>
       \/ /\ mediaActive /\ ItemDone(citem)
          /\ ConsumerEnds(citem)
    /\ UNCHANGED <<closed, turnVars, itemVars, ttsQueue, cepoch, epochVars,
                   audioQ, delayVars, senderVars, interruptVars, mediaActive,
                   callVars>>

ConsumerRechecks ==
    /\ cp = "recheck"
    /\ IF citem <= dropped
         THEN ConsumerEnds(citem)
         ELSE cp' = "sstart" /\ UNCHANGED <<citem, ended>>
    /\ UNCHANGED <<closed, turnVars, itemVars, ttsQueue, cepoch, epochVars,
                   audioQ, delayVars, senderVars, interruptVars, mediaActive,
                   callVars>>

\* handleTts: the mark, the frames that synthesis yields, the end mark with
\* the callback.
ConsumerEnqueues ==
    /\ cp \in {"sstart", "frame", "send"}
    /\ ~TurnDone(itemTurn[citem])
    /\ HasRoom
    /\ audioQ' = Append(audioQ, Elem(cp, itemGen[citem], citem))
    /\ cp' = CASE cp = "sstart" -> "frame"
               [] cp = "frame" -> "send"
               [] cp = "send" -> "pop"
    /\ citem' = IF cp = "send" THEN 0 ELSE citem
    /\ UNCHANGED <<closed, turnVars, itemVars, ended, ttsQueue, cepoch,
                   epochVars, delayVars, senderVars, interruptVars,
                   mediaActive, callVars>>

\* Synthesis ends without another frame.
ConsumerHasNoFrame ==
    /\ cp = "frame"
    /\ cp' = "send"
    /\ UNCHANGED <<closed, turnVars, itemVars, ended, ttsQueue, citem, cepoch,
                   epochVars, audioQ, delayVars, senderVars, interruptVars,
                   mediaActive, callVars>>

\* Synthesis fails at once, or the context is found cancelled.
ConsumerGivesUp ==
    /\ \/ cp = "sstart" /\ MayFail
       \/ cp \in {"sstart", "frame", "send"} /\ ItemDone(citem)
    /\ ConsumerEnds(citem)
    /\ UNCHANGED <<closed, turnVars, itemVars, ttsQueue, cepoch, epochVars,
                   audioQ, delayVars, senderVars, interruptVars, mediaActive,
                   callVars>>

ConsumerExits ==
    /\ cp = "pop" /\ closed
    /\ cp' = "exited"
    /\ UNCHANGED <<closed, turnVars, itemVars, ended, ttsQueue, citem, cepoch,
                   epochVars, audioQ, delayVars, senderVars, interruptVars,
                   mediaActive, callVars>>

Consumer ==
    \/ ConsumerPops \/ ConsumerBinds \/ ConsumerWaits \/ ConsumerRechecks
    \/ ConsumerEnqueues \/ ConsumerHasNoFrame \/ ConsumerGivesUp \/ ConsumerExits

-----------------------------------------------------------------------------
(***************************************************************************)
(* runSenderLoop and runDelayedSentenceLoop.                               *)
(***************************************************************************)
\* Fault: the delay loop drops a stale mark without calling back.
DelayFiresSilent ==
    /\ delayed # <<>> /\ ~closed
    /\ delayed' = Tail(delayed)
    /\ ended' = ended
    /\ ready' = IF Head(delayed).gen # gen THEN ready
                                           ELSE Append(ready, Head(delayed))
    /\ UNCHANGED <<closed, turnVars, itemVars, ttsQueue, consumerVars, epochVars,
                   audioQ, senderVars, interruptVars, mediaActive, callVars>>

\* The next sentence mark is due; the delay loop drops a stale one.
DelayFires ==
    /\ delayed # <<>> /\ ~closed
    /\ delayed' = Tail(delayed)
    /\ IF Head(delayed).gen # gen
         THEN ended' = ended \union EndsIn(<<Head(delayed)>>) /\ ready' = ready
         ELSE ended' = ended /\ ready' = Append(ready, Head(delayed))
    /\ UNCHANGED <<closed, turnVars, itemVars, ttsQueue, consumerVars, epochVars,
                   audioQ, senderVars, interruptVars, mediaActive, callVars>>

\* handleDelayedSentence: sent or, if stale, not sent, the end callback is
\* called.  The sender does so between elements and while it waits.
SenderMarks ==
    /\ sp \in {"idle", "frame", "tstop"} /\ ready # <<>>
    /\ ready' = Tail(ready)
    /\ ended' = ended \union EndsIn(<<Head(ready)>>)
    /\ UNCHANGED <<closed, turnVars, itemVars, ttsQueue, consumerVars, epochVars,
                   audioQ, delayed, senderVars, interruptVars, mediaActive,
                   callVars>>

\* An element of another generation is dropped; a mark goes to the delay
\* loop; a frame is held until it is due; tts_start is sent; tts_stop waits
\* for the end of playback.
SenderTakes ==
    /\ sp = "idle" /\ audioQ # <<>>
    /\ audioQ' = Tail(audioQ)
    /\ LET e == Head(audioQ) IN
         \/ /\ e.gen # gen \/ (e.kind \in {"sstart", "send"} /\ closed)
            /\ ended' = ended \union EndsIn(<<e>>)
            /\ UNCHANGED <<delayed, senderVars>>
         \/ /\ e.gen = gen /\ e.kind \in {"sstart", "send"} /\ ~closed
            /\ delayed' = Append(delayed, e)
            /\ UNCHANGED <<ended, senderVars>>
         \/ /\ e.gen = gen /\ e.kind \in {"frame", "media", "tstop"}
            /\ sp' = IF e.kind = "tstop" THEN "tstop" ELSE "frame"
            /\ hand' = e
            /\ UNCHANGED <<ended, delayed, ttsActive>>
         \/ /\ e.gen = gen /\ e.kind = "tstart"
            /\ ttsActive' = TRUE
            /\ UNCHANGED <<ended, delayed, sp, hand>>
    /\ UNCHANGED <<closed, turnVars, itemVars, ttsQueue, consumerVars, epochVars,
                   ready, interruptVars, mediaActive, callVars>>

\* The frame in hand is due and goes to the device.
SenderSends ==
    /\ sp = "frame"
    /\ sp' = "idle"
    /\ hand' = Nothing
    /\ UNCHANGED <<closed, turnVars, itemVars, ended, ttsQueue, consumerVars,
                   epochVars, audioQ, delayVars, ttsActive, interruptVars,
                   mediaActive, callVars>>

\* Playback has settled: finishTtsStop.
SenderStops ==
    /\ sp = "tstop"
    /\ sp' = "idle"
    /\ hand' = Nothing
    /\ ttsActive' = FALSE
    /\ UNCHANGED <<closed, turnVars, itemVars, ended, ttsQueue, consumerVars,
                   epochVars, audioQ, delayVars, interruptVars, mediaActive,
                   callVars>>

\* Both drains: whatever was queued is gone and its callbacks are called.
DrainOutput ==
    /\ audioQ' = <<>>
    /\ ready' = <<>>
    /\ ended' = ended \union EndsIn(audioQ) \union EndsIn(ready)
    /\ hand' = Nothing

\* Fault: an interrupted wait sends the frame it was waiting to send.
SenderInterruptedLate ==
    /\ sp \in {"idle", "frame", "tstop"} /\ interruptCh # <<>>
    /\ interruptCh' = <<>>
    /\ audioQ' = <<>>
    /\ ready' = <<>>
    /\ ended' = ended \union EndsIn(audioQ) \union EndsIn(ready)
    /\ UNCHANGED <<sp, hand>>
    /\ pendingStop' = FALSE
    /\ ttsActive' = (ttsActive /\ ~pendingStop)
    /\ served' = served \union {interruptCh[1]}
    /\ UNCHANGED <<closed, turnVars, itemVars, ttsQueue, consumerVars, epochVars,
                   delayed, mediaActive, callVars>>

\* Fault: the interruption is only drained for; no stop is carried out and
\* nobody is told.
SenderInterruptedMute ==
    /\ sp \in {"idle", "frame", "tstop"} /\ interruptCh # <<>>
    /\ interruptCh' = <<>>
    /\ DrainOutput
    /\ sp' = "idle"
    /\ UNCHANGED <<closed, turnVars, itemVars, ttsQueue, consumerVars, epochVars,
                   delayed, ttsActive, served, pendingStop, mediaActive, callVars>>

\* Fault: the drained elements' callbacks are not called.
SenderInterruptedSilent ==
    /\ sp \in {"idle", "frame", "tstop"} /\ interruptCh # <<>>
    /\ interruptCh' = <<>>
    /\ audioQ' = <<>>
    /\ ready' = <<>>
    /\ hand' = Nothing
    /\ ended' = ended
    /\ sp' = "idle"
    /\ pendingStop' = FALSE
    /\ ttsActive' = (ttsActive /\ ~pendingStop)
    /\ served' = served \union {interruptCh[1]}
    /\ UNCHANGED <<closed, turnVars, itemVars, ttsQueue, consumerVars, epochVars,
                   delayed, mediaActive, callVars>>

\* handleInterrupt, from the select or from a wait: the element in hand is
\* forgotten, a recorded stop is carried out, and whoever waits is told.
SenderInterrupted ==
    /\ sp \in {"idle", "frame", "tstop"} /\ interruptCh # <<>>
    /\ interruptCh' = <<>>
    /\ DrainOutput
    /\ sp' = "idle"
    /\ pendingStop' = FALSE
    /\ ttsActive' = (ttsActive /\ ~pendingStop)
    /\ served' = served \union {interruptCh[1]}
    /\ UNCHANGED <<closed, turnVars, itemVars, ttsQueue, consumerVars, epochVars,
                   delayed, mediaActive, callVars>>

\* The session's context is done: drain, stop, and only then let
\* senderLoopActive and senderLoopDone tell.
SenderLeaves ==
    /\ sp \in {"idle", "frame", "tstop"} /\ closed
    /\ DrainOutput
    /\ ttsActive' = FALSE
    /\ sp' = "leaving"
    /\ UNCHANGED <<closed, turnVars, itemVars, ttsQueue, consumerVars, epochVars,
                   delayed, interruptVars, mediaActive, callVars>>

SenderExits ==
    /\ sp = "leaving"
    /\ sp' = "exited"
    /\ UNCHANGED <<closed, turnVars, itemVars, ended, ttsQueue, consumerVars,
                   epochVars, audioQ, delayVars, hand, ttsActive, interruptVars,
                   mediaActive, callVars>>

Sender ==
    \/ SenderMarks \/ SenderTakes \/ SenderSends \/ SenderStops
    \/ SenderInterrupted \/ SenderLeaves \/ SenderExits

-----------------------------------------------------------------------------
(***************************************************************************)
(* The interruptions.                                                      *)
(***************************************************************************)
Step(c, from, to) ==
    /\ ip[c] = from
    /\ ip' = [ip EXCEPT ![c] = to]

\* stopSpeaking, one at a time (stopSpeakingMu), cancels the turns first;
\* the asynchronous form does not.
StopBegins(c) ==
    /\ c \in Stops => \A d \in Stops : ip[d] \in {"new", "over", "late"}
    /\ c \in Stops \union Asyncs
    /\ Step(c, "new", "clear")
    /\ cancelled' = IF c \in Stops THEN 1 .. turn ELSE cancelled
    /\ UNCHANGED <<closed, turn, tp, said, tgen, itemVars, ended, ttsQueue,
                   consumerVars, epochVars, audioQ, delayVars, senderVars,
                   interruptVars, mediaActive, igen, loaded, settled>>

\* BeginExclusiveMediaPlayback; refused while another playback has it.
MediaBegins(c) ==
    /\ c \in Medias /\ ~mediaActive
    /\ Step(c, "new", "clear")
    /\ mediaActive' = TRUE
    /\ UNCHANGED <<closed, turnVars, itemVars, ended, ttsQueue, consumerVars,
                   epochVars, audioQ, delayVars, senderVars, interruptVars,
                   igen, loaded, settled>>

\* Fault: the next sentence is to be dropped too.
CallClearsAhead(c) ==
    /\ Step(c, "clear", "store")
    /\ loaded' = [loaded EXCEPT ![c] = seq + 1]
    /\ UNCHANGED <<closed, turnVars, itemVars, ended, ttsQueue, consumerVars,
                   epochVars, audioQ, delayVars, senderVars, interruptVars,
                   mediaActive, igen, settled>>

\* ClearTTSQueue: everything numbered so far ...
CallClears(c) ==
    /\ Step(c, "clear", "store")
    /\ loaded' = [loaded EXCEPT ![c] = seq]
    /\ UNCHANGED <<closed, turnVars, itemVars, ended, ttsQueue, consumerVars,
                   epochVars, audioQ, delayVars, senderVars, interruptVars,
                   mediaActive, igen, settled>>

\* ... is to be dropped, even if another call has stored a higher number
\* since ...
CallStores(c) ==
    /\ Step(c, "store", "drain")
    /\ dropped' = loaded[c]
    /\ loaded' = [loaded EXCEPT ![c] = 0]
    /\ UNCHANGED <<closed, turnVars, itemVars, ended, ttsQueue, consumerVars,
                   gen, epoch, audioQ, delayVars, senderVars, interruptVars,
                   mediaActive, igen, settled>>

\* ... and what is still queued is dismissed.
CallDrains(c) ==
    /\ Step(c, "drain", IF c \in Medias THEN "bump" ELSE "record")
    /\ ttsQueue' = <<>>
    /\ ended' = ended \union {ttsQueue[n] : n \in 1 .. Len(ttsQueue)}
    /\ UNCHANGED <<closed, turnVars, itemVars, consumerVars, epochVars, audioQ,
                   delayVars, senderVars, interruptVars, mediaActive, igen, loaded,
                   settled>>

\* recordPendingInterruptStop
CallRecords(c) ==
    /\ Step(c, "record", "bump")
    /\ pendingStop' = TRUE
    /\ UNCHANGED <<closed, turnVars, itemVars, ended, ttsQueue, consumerVars,
                   epochVars, audioQ, delayVars, senderVars, interruptCh,
                   served, mediaActive, igen, loaded, settled>>

\* Fault: the interruption keeps the generation.
CallBumpsNot(c) ==
    /\ Step(c, "bump", "rotate")
    /\ igen' = [igen EXCEPT ![c] = gen + 1]
    /\ UNCHANGED <<closed, turnVars, itemVars, ended, ttsQueue, consumerVars,
                   epochVars, audioQ, delayVars, senderVars, interruptVars,
                   mediaActive, loaded, settled>>

\* nextAudioGeneration
CallBumps(c) ==
    /\ Step(c, "bump", "rotate")
    /\ gen' = gen + 1
    /\ igen' = [igen EXCEPT ![c] = gen + 1]
    /\ UNCHANGED <<closed, turnVars, itemVars, ended, ttsQueue, consumerVars,
                   epoch, dropped, audioQ, delayVars, senderVars, interruptVars,
                   mediaActive, loaded, settled>>

\* rotateAudioInterruptCh, and a look at senderLoopActive.
CallRotates(c) ==
    /\ Step(c, "rotate", IF sp = "exited" THEN "finish" ELSE "offer")
    /\ epoch' = epoch + 1
    /\ UNCHANGED <<closed, turnVars, itemVars, ended, ttsQueue, consumerVars,
                   gen, dropped, audioQ, delayVars, senderVars, interruptVars,
                   mediaActive, igen, loaded, settled>>

\* The synchronous form sends its request when there is room and waits; the
\* asynchronous one leaves it when there is none: an older request is still
\* to be handled.
CallOffers(c) ==
    /\ Step(c, "offer", IF c \in Asyncs THEN "finish" ELSE "wait")
    /\ \/ interruptCh = <<>> /\ interruptCh' = <<c>>
       \/ interruptCh # <<>> /\ c \in Asyncs /\ interruptCh' = interruptCh
    /\ UNCHANGED <<closed, turnVars, itemVars, ended, ttsQueue, consumerVars,
                   epochVars, audioQ, delayVars, senderVars, served,
                   pendingStop, mediaActive, igen, loaded, settled>>

\* finishPendingInterruptStopIfSenderLoopExited
FinishPendingStop(c) ==
    IF c \notin Medias /\ sp = "exited" /\ pendingStop
      THEN pendingStop' = FALSE /\ ttsActive' = FALSE
      ELSE UNCHANGED <<pendingStop, ttsActive>>

\* The sender is done with the request, or has exited: a stop is over and a
\* playback may begin.
CallReturns(c) ==
    /\ \/ ip[c] = "wait" /\ c \in served
       \/ ip[c] \in {"offer", "wait"} /\ c \notin Asyncs /\ sp = "exited"
    /\ ip' = [ip EXCEPT ![c] = IF c \in Medias THEN "playing" ELSE "over"]
    /\ settled' = IF igen[c] > settled THEN igen[c] ELSE settled
    /\ FinishPendingStop(c)
    /\ UNCHANGED <<closed, turnVars, itemVars, ended, ttsQueue, consumerVars,
                   epochVars, audioQ, delayVars, sp, hand, interruptCh, served,
                   mediaActive, igen, loaded>>

\* The caller's context ends first (stopSpeakingInterruptTimeout; a playback
\* that is cancelled gives the output back).
CallTimesOut(c) ==
    /\ ip[c] \in {"offer", "wait"} /\ c \notin Asyncs
    /\ ip' = [ip EXCEPT ![c] = "late"]
    /\ mediaActive' = (mediaActive /\ c \notin Medias)
    /\ FinishPendingStop(c)
    /\ UNCHANGED <<closed, turnVars, itemVars, ended, ttsQueue, consumerVars,
                   epochVars, audioQ, delayVars, sp, hand, interruptCh, served,
                   igen, loaded, settled>>

\* The end of an interruption that did not wait for the sender.
CallFinishes(c) ==
    /\ Step(c, "finish", IF c \in Medias THEN "playing" ELSE "over")
    /\ FinishPendingStop(c)
    /\ UNCHANGED <<closed, turnVars, itemVars, ended, ttsQueue, consumerVars,
                   epochVars, audioQ, delayVars, sp, hand, interruptCh, served,
                   mediaActive, igen, loaded, settled>>

\* EnqueueMediaFrame
MediaPlays(c) ==
    /\ c \in Medias /\ Step(c, "playing", "played")
    /\ HasRoom /\ ~closed
    /\ audioQ' = Append(audioQ, Elem("media", gen, 0))
    /\ UNCHANGED <<closed, turnVars, itemVars, ended, ttsQueue, consumerVars,
                   epochVars, delayVars, senderVars, interruptVars, mediaActive,
                   igen, loaded, settled>>

\* EndExclusiveMediaPlayback
MediaEnds(c) ==
    /\ ip[c] \in {"playing", "played"}
    /\ ip' = [ip EXCEPT ![c] = "over"]
    /\ mediaActive' = FALSE
    /\ UNCHANGED <<closed, turnVars, itemVars, ended, ttsQueue, consumerVars,
                   epochVars, audioQ, delayVars, senderVars, interruptVars,
                   igen, loaded, settled>>

\* An interruption that has begun and goes on by itself.
Call(c) ==
    \/ CallClears(c) \/ CallStores(c) \/ CallDrains(c) \/ CallRecords(c)
    \/ CallBumps(c) \/ CallRotates(c) \/ CallOffers(c) \/ CallReturns(c) \/ CallFinishes(c)
    \/ MediaEnds(c)

\* The session ends: its context is the parent of all others.
CloseSession ==
    /\ MayClose /\ ~closed
    /\ closed' = TRUE
    /\ UNCHANGED <<turnVars, itemVars, ended, ttsQueue, consumerVars, epochVars,
                   audioQ, delayVars, senderVars, interruptVars, mediaActive,
                   callVars>>

-----------------------------------------------------------------------------
Next ==
    \/ Turn \/ Consumer \/ DelayFires \/ Sender
    \/ \E c \in Calls : Call(c) \/ StopBegins(c) \/ MediaBegins(c)
                          \/ CallTimesOut(c) \/ MediaPlays(c)
    \/ CloseSession

Spec == Init /\ [][Next]_vars

\* Every goroutine keeps running; a media playback ends.  Nothing makes an
\* interruption start, a timeout fire or the session close.
Fairness ==
    /\ WF_vars(Turn) /\ WF_vars(Consumer) /\ WF_vars(DelayFires)
    /\ WF_vars(Sender)
    /\ \A c \in Calls : WF_vars(Call(c))

FairSpec == Spec /\ Fairness

-----------------------------------------------------------------------------
\* Every variable has its type; the number up to which sentences are void is
\* never ahead of the last one handed over, and the request slot holds one.
TypeOK ==
    /\ closed \in BOOLEAN
    /\ turn \in 0 .. NumTurns /\ said \in 0 .. Sentences /\ tgen \in Nat
    /\ tp \in {"idle", "tstart", "speak", "push", "tstop"}
    /\ cancelled \subseteq 1 .. NumTurns
    /\ seq \in 0 .. NumTurns * Sentences /\ dropped \in 0 .. seq
    /\ itemGen \in [Items -> Nat] /\ itemTurn \in [Items -> 0 .. NumTurns]
    /\ ended \subseteq Items
    /\ ttsQueue \in Seq(Items)
    /\ cp \in {"pop", "bind", "media", "recheck", "sstart", "frame", "send", "exited"}
    /\ citem \in Items \union {0} /\ cepoch \in Nat
    /\ gen \in Nat /\ epoch \in Nat
    /\ audioQ \in Seq(Elems) /\ delayed \in Seq(Elems) /\ ready \in Seq(Elems)
    /\ sp \in {"idle", "frame", "tstop", "leaving", "exited"}
    /\ hand \in Elems
    /\ ttsActive \in BOOLEAN
    /\ interruptCh \in Seq(Calls) /\ Len(interruptCh) <= 1
    /\ served \subseteq Calls
    /\ pendingStop \in BOOLEAN /\ mediaActive \in BOOLEAN
    /\ ip \in [Calls -> {"new", "clear", "store", "drain", "record", "bump",
                         "rotate", "offer", "wait", "finish", "playing", "played",
                         "over", "late"}]
    /\ igen \in [Calls -> Nat] /\ loaded \in [Calls -> 0 .. seq] /\ settled \in Nat

\* After an interruption that was waited for (stopSpeaking, the begin of a
\* media playback) not one frame synthesised for an earlier generation goes
\* out: not from the queues, and not the one the sender held while it waited
\* for the frame's time to come.
NoStaleSpeech == sp = "frame" => hand.gen >= settled

\* While a media playback has the output nothing is spoken over it: the sender
\* holds no frame of a sentence.  Marks of sentences may still be sent.
MediaExclusive ==
    (\E c \in Medias : ip[c] \in {"playing", "played"})
        => ~(sp = "frame" /\ hand.kind = "frame")

\* Where a sentence is on its way from pushTTSQueueItem to its end callback.
Places ==
    << IF tp = "push" THEN {seq} ELSE {},
       {ttsQueue[n] : n \in 1 .. Len(ttsQueue)},
       {citem} \ {0},
       EndsIn(audioQ), EndsIn(delayed), EndsIn(ready) >>

\* A sentence that is neither on its way nor ended would be lost.
Stage ==
    [i \in Items |->
        IF i > seq THEN 0
        ELSE IF i \in ended THEN 7
        ELSE IF \E a \in 1 .. 6 : i \in Places[a]
               THEN CHOOSE a \in 1 .. 6 : i \in Places[a]
               ELSE 8]

\* Speech output implements SentencePipeline: through all the queues, drops
\* and drains no sentence's end callback is lost or called twice, and none
\* overtakes another.
Pipeline == INSTANCE SentencePipeline WITH Sentences <- Items, stage <- Stage

PipelineSpec == Pipeline!Spec

\* A turn comes to its end.  It waits for the end callback of each of its
\* sentences, so each is called whether the sentence is played, dropped by
\* number or by generation, drained from one of the four queues, or given up
\* by the consumer; a callback that gets lost leaves the turn waiting for ever.
TurnEnds == (tp # "idle") ~> (tp = "idle" \/ closed)

\* A turn comes to its end even when the session is closed.  Not so for one
\* that tells a story: see tts_story.cfg.
StoryEnds == (tp # "idle") ~> (tp = "idle")

\* Whoever waits for an interruption is answered, without its timeout.
InterruptReturns ==
    \A c \in Calls : (ip[c] = "clear") ~> (ip[c] \in {"playing", "over", "late"})

\* A stop that was recorded is carried out, even when its request found the
\* channel full; a call that times out may leave its stop behind.
StopCarriedOut ==
    pendingStop ~> (~pendingStop \/ closed \/ \E c \in Calls : ip[c] = "late")
=============================================================================
