---------------------------- MODULE MediaPlayer ----------------------------
(***************************************************************************)
(* Media playback of one device: deviceMediaRuntime of                     *)
(* internal/app/server/chat/media_player.go.                               *)
(*                                                                         *)
(* The runtime outlives the chat sessions of its device.  A session        *)
(* attaches itself as the output when it starts and detaches when it is    *)
(* closed; a playback goroutine streams the tracks of a queue through      *)
(* whatever session is attached, and must have that session's speech       *)
(* output for itself while it does (BeginExclusiveMediaPlayback of         *)
(* TTSManager, here the flag of TtsManager.tla's mediaActive).  Control    *)
(* calls start, pause, resume and stop playbacks from other goroutines.    *)
(*                                                                         *)
(* Every step below is one critical section of r.mu, one call on a         *)
(* session's speech output, or one wait.  The hazard is in the gaps: who   *)
(* takes exclusiveAttachment under the lock ends the exclusivity only      *)
(* after unlocking, and a playback begins it before it has the lock again. *)
(*                                                                         *)
(* Tracks are their index in the queue; sources, audio, titles, positions  *)
(* and the decoding goroutines are left out.                               *)
(***************************************************************************)
EXTENDS Integers, FiniteSets

CONSTANTS
    Calls,         \* control calls, each made once
    Kinds,         \* what each of them may ask for
    Sessions,      \* chat sessions of the device, each attached at most once
    None,          \* nil
    ListedBefore,  \* tracks the agent's playlist has from other devices
    MaxPlaybacks   \* bound on playbacks started

AllKinds == {"play", "list", "next", "prev", "append", "pause", "suspend",
             "stop", "resume"}

ASSUME MediaAssumption ==
    /\ Calls \intersect Sessions = {}
    /\ None \notin Sessions
    /\ \A c \in Calls : Kinds[c] \subseteq AllKinds
    /\ ListedBefore \in Nat
    /\ MaxPlaybacks \in Nat \ {0}

Playbacks == 1 .. MaxPlaybacks
Nobody == 0                         \* the nil playback
Procs == Calls \union Sessions      \* a session: its recovery goroutine

VARIABLES
    \* deviceMediaRuntime, under r.mu
    active,          \* the current playback or Nobody
    status,          \* state.Status
    pauseReason,
    resumeOnAttach,
    attachment,      \* the attached session or None
    exclusive,       \* exclusiveAttachment
    mode, index,     \* mode and playbackIndex
    playlist,        \* length of the agent's playlist, which only grows
    \* activeMediaPlayback
    created,         \* number of playbacks started
    paused,
    held,            \* exclusiveHeld
    cancelled,       \* playbacks whose context is cancelled, until they end
    \* the playback goroutines
    pp,              \* where each one is
    track,           \* index of its track
    out,             \* the attachment it read last
    prel,            \* the attachment it has yet to release
    sent,            \* session that got its last frame of the track; None
                     \* unless enqueuedFrames
    \* the sessions
    excl,            \* mediaPlaybackActive of each session's TTSManager
    sess,            \* new, attached (at some time) or closing
    failing,         \* sessions whose sender has yet to release after a failure
    \* the calls
    cp,              \* where each one is
    mem,             \* what it read under r.mu
    rel,             \* the attachment it has yet to release
    new              \* the playback it has yet to start

runtimeVars == <<active, status, pauseReason, resumeOnAttach>>
queueVars == <<mode, index, playlist>>
flagVars == <<created, paused, cancelled>>
holdVars == <<exclusive, held, excl>>
playVars == <<pp, track, out, prel, sent>>
sessionVars == <<sess, failing>>
callVars == <<cp, mem, rel, new>>
vars == <<runtimeVars, attachment, queueVars, flagVars, holdVars, playVars,
          sessionVars, callVars>>

NoMem == [active |-> Nobody, mode |-> "standalone", index |-> 0]

\* The model begins when the first session of the device is attached and its
\* first playback has just been started.
Init ==
    /\ active = 1 /\ status = "playing" /\ pauseReason = "none"
    /\ resumeOnAttach = FALSE /\ exclusive = None
    /\ mode = "standalone" /\ index = 0 /\ playlist = ListedBefore
    /\ created = 1 /\ cancelled = {}
    /\ paused = [p \in Playbacks |-> FALSE]
    /\ held = [p \in Playbacks |-> FALSE]
    /\ pp = [p \in Playbacks |-> IF p = 1 THEN "begin" ELSE "none"]
    /\ track = [p \in Playbacks |-> 0]
    /\ out = [p \in Playbacks |-> None] /\ prel = [p \in Playbacks |-> None]
    /\ sent = [p \in Playbacks |-> None]
    /\ excl = [s \in Sessions |-> FALSE]
    /\ attachment \in Sessions
    /\ sess = [s \in Sessions |-> IF s = attachment THEN "attached" ELSE "new"]
    /\ failing = {}
    /\ cp = [c \in Procs |-> IF c = attachment THEN "done" ELSE "new"]
    /\ mem = [c \in Procs |-> NoMem]
    /\ rel = [c \in Procs |-> None] /\ new = [c \in Procs |-> Nobody]

\* The queue of the current mode; a standalone queue has one track.
InPlaylist == mode = "agent_playlist"
QueueLen == IF InPlaylist THEN playlist ELSE 1

\* The goroutine of p is past its deferred releaseExclusivePlayback.
Over(p) == pp[p] \in {"endrel", "done"}

\* EndExclusiveMediaPlayback of session s, or of none.
Ended(s) == [t \in Sessions |-> excl[t] /\ t # s]

\* state, pauseReason and resumeOnAttach when a playback is no longer active.
Ends(st) ==
    /\ active' = Nobody /\ status' = st
    /\ pauseReason' = "none" /\ resumeOnAttach' = FALSE

-----------------------------------------------------------------------------
(***************************************************************************)
(* Sessions.  attachSession is called when a session has started, and      *)
(* starts a recovery goroutine when a playback waits for an output.        *)
(***************************************************************************)
Attach(s) ==
    /\ sess[s] = "new"
    /\ sess' = [sess EXCEPT ![s] = "attached"]
    /\ attachment' = s
    /\ cp' = [cp EXCEPT ![s] = IF resumeOnAttach THEN "should" ELSE "done"]
    /\ UNCHANGED <<runtimeVars, queueVars, flagVars, holdVars, playVars,
                   failing, mem, rel, new>>

\* Fault: the playback is reported as paused and goes on.
AwaitAttachmentUnpaused ==
    /\ paused' = paused
    /\ status' = "paused"
    /\ resumeOnAttach' = TRUE

\* Pauses the current playback until the next attachment.
AwaitAttachment ==
    /\ paused' = [paused EXCEPT ![active] = TRUE]
    /\ status' = "paused"
    /\ resumeOnAttach' = TRUE

\* exclusiveAttachment and the flag of the active playback, when s goes.
Unhold(s) ==
    IF exclusive = s
      THEN /\ exclusive' = None
           /\ held' = [p \in Playbacks |-> held[p] /\ p # active]
      ELSE UNCHANGED <<exclusive, held>>

\* detachSession with preserve, from ChatSession.Close.  Of a session that is
\* no longer the attachment it changes nothing.
Detach(s) ==
    /\ attachment = s
    /\ IF active # Nobody /\ status = "playing"
         THEN AwaitAttachment
         ELSE UNCHANGED <<paused, status, resumeOnAttach>>
    /\ attachment' = None
    /\ Unhold(s)
    /\ sess' = [sess EXCEPT ![s] = IF exclusive = s THEN "closing" ELSE @]
    /\ UNCHANGED <<active, pauseReason, queueVars, created, cancelled, excl,
                   playVars, failing, callVars>>

DetachReleases(s) ==
    /\ sess[s] = "closing"
    /\ excl' = Ended(s)
    /\ sess' = [sess EXCEPT ![s] = "attached"]
    /\ UNCHANGED <<runtimeVars, attachment, queueVars, flagVars, exclusive, held,
                   playVars, failing, callVars>>

(***************************************************************************)
(* handleAttachmentFailure(p, s): when p and s are still current, p waits  *)
(* for another attachment.  The session itself is not told.                *)
(***************************************************************************)
Current(p, s) == active = p /\ attachment = s

HandleAttachmentFailure(p, s) ==
    /\ Unhold(s)
    /\ IF status = "playing"
         THEN AwaitAttachment
         ELSE UNCHANGED <<paused, status, resumeOnAttach>>
    /\ attachment' = None

(***************************************************************************)
(* The sender of a session calls back when it fails to write a frame or    *)
(* the sentence end; for a playback or session that is no longer current   *)
(* that changes nothing.  A frame left in the queue of an earlier session  *)
(* needs no record, because no session is attached again.                  *)
(***************************************************************************)
SenderFails(s, p) ==
    /\ sent[p] = s
    /\ Current(p, s)
    /\ HandleAttachmentFailure(p, s)
    /\ failing' = IF exclusive = s THEN failing \union {s} ELSE failing
    /\ \/ pp' = pp
       \/ pp[p] = "endwait" /\ pp' = [pp EXCEPT ![p] = "enderr"]
    /\ UNCHANGED <<active, pauseReason, queueVars, created, cancelled, excl,
                   track, out, prel, sent, sess, callVars>>

SenderReleases(s) ==
    /\ s \in failing
    /\ excl' = Ended(s)
    /\ failing' = failing \ {s}
    /\ UNCHANGED <<runtimeVars, attachment, queueVars, flagVars, exclusive, held,
                   playVars, sess, callVars>>

-----------------------------------------------------------------------------
(***************************************************************************)
(* The goroutine of playback p, runPlayback with playItem,                 *)
(* streamMediaAudio and waitMediaSentenceEnd.                              *)
(***************************************************************************)
Goto(p, l) == pp' = [pp EXCEPT ![p] = l]

\* waitIfPaused looks at the context only while it has to wait.
WaitIfPaused(p, here, next) ==
    /\ pp[p] = here
    /\ \/ ~paused[p] /\ Goto(p, next)
       \/ paused[p] /\ p \in cancelled /\ Goto(p, "stopped")
    /\ UNCHANGED <<runtimeVars, attachment, queueVars, flagVars, holdVars, track,
                   out, prel, sent, sessionVars, callVars>>

\* currentIndexForActive
PlaybackBegins(p) ==
    /\ pp[p] = "begin"
    /\ IF active = p
         THEN track' = [track EXCEPT ![p] = index] /\ Goto(p, "wait")
         ELSE track' = track /\ Goto(p, "release")
    /\ UNCHANGED <<runtimeVars, attachment, queueVars, flagVars, holdVars, out,
                   prel, sent, sessionVars, callVars>>

\* prepareTrack, and opening the source, which may fail.
PrepareTrack(p) ==
    /\ pp[p] = "prepare"
    /\ IF active = p /\ track[p] < QueueLen
         THEN /\ index' = track[p]
              /\ status' = IF paused[p] THEN "paused" ELSE "playing"
              /\ Goto(p, "read") \/ Goto(p, "errored")
         ELSE UNCHANGED <<index, status>> /\ Goto(p, "release")
    /\ UNCHANGED <<active, pauseReason, resumeOnAttach, attachment, mode,
                   playlist, flagVars, holdVars, track, out, prel, sent,
                   sessionVars, callVars>>

\* streamMediaAudio gets a frame, which no pause has held back, or the end of
\* the track, which may be seen although a pause has just come; or the context
\* ends the wait.
ReadFrame(p) ==
    /\ pp[p] = "read"
    /\ \/ ~paused[p] /\ Goto(p, "attach")
       \/ Goto(p, IF sent[p] # None THEN "endread" ELSE "advance")
       \/ p \in cancelled /\ Goto(p, "stopped")
    /\ UNCHANGED <<runtimeVars, attachment, queueVars, flagVars, holdVars, track,
                   out, prel, sent, sessionVars, callVars>>

\* waitForAttachment, and the check with which ensureExclusivePlayback
\* begins: if the attachment is already this playback's the frame is sent.
\* A frame that meanwhile goes to a session no longer current is as good as
\* sent before.  A call on the output that fails because the playback is
\* cancelled changes nothing: handleAttachmentFailure finds the playback no
\* longer active and returns, and this step is next.
WaitForAttachment(p) ==
    /\ pp[p] = "attach"
    /\ \/ /\ active # p
          /\ Goto(p, "stopped")
          /\ UNCHANGED <<out, sent>>
       \/ /\ active = p /\ attachment # None
          /\ exclusive = attachment /\ held[p]
          /\ sent' = [sent EXCEPT ![p] = attachment]
          /\ Goto(p, "read")
          /\ out' = out
       \/ /\ active = p /\ attachment # None
          /\ ~(exclusive = attachment /\ held[p])
          /\ out' = [out EXCEPT ![p] = attachment]
          /\ Goto(p, "acquire")
          /\ sent' = sent
    /\ UNCHANGED <<runtimeVars, attachment, queueVars, flagVars, holdVars, track,
                   prel, sessionVars, callVars>>

(***************************************************************************)
(* ensureExclusivePlayback: BeginExclusiveMediaPlayback, and the second    *)
(* look at the runtime under the lock.                                     *)
(***************************************************************************)
BeginExclusive(p) ==
    /\ pp[p] = "acquire"
    /\ IF excl[out[p]]
         THEN excl' = excl /\ Goto(p, "fail")
         ELSE excl' = [excl EXCEPT ![out[p]] = TRUE] /\ Goto(p, "confirm")
    /\ UNCHANGED <<runtimeVars, attachment, queueVars, flagVars, exclusive, held,
                   track, out, prel, sent, sessionVars, callVars>>

\* The interruption BeginExclusiveMediaPlayback waits for is given up when
\* the playback's context is cancelled.
BeginGivesUp(p) ==
    /\ pp[p] = "confirm"
    /\ p \in cancelled
    /\ Goto(p, "undo")
    /\ UNCHANGED <<runtimeVars, attachment, queueVars, flagVars, holdVars, track,
                   out, prel, sent, sessionVars, callVars>>

ConfirmExclusive(p) ==
    /\ pp[p] = "confirm"
    /\ IF Current(p, out[p])
         THEN /\ exclusive' = out[p]
              /\ held' = [held EXCEPT ![p] = TRUE]
              /\ sent' = [sent EXCEPT ![p] = out[p]]
              /\ out' = [out EXCEPT ![p] = None]
              /\ IF exclusive \in {None, out[p]}
                   THEN prel' = prel /\ Goto(p, "read")
                   ELSE /\ prel' = [prel EXCEPT ![p] = exclusive]
                        /\ Goto(p, "swap")
         ELSE Goto(p, "undo") /\ UNCHANGED <<prel, exclusive, held, sent, out>>
    /\ UNCHANGED <<runtimeVars, attachment, queueVars, flagVars, excl, track,
                   sessionVars, callVars>>

\* Fault: the playback is given up, its exclusivity is not.
UndoExclusiveKeeps(p) ==
    /\ pp[p] = "undo"
    /\ out' = [out EXCEPT ![p] = None]
    /\ Goto(p, "stopped")
    /\ UNCHANGED <<runtimeVars, attachment, queueVars, flagVars, holdVars, track,
                   prel, sent, sessionVars, callVars>>

UndoExclusive(p) ==
    /\ pp[p] = "undo"
    /\ excl' = Ended(out[p])
    /\ out' = [out EXCEPT ![p] = None]
    /\ Goto(p, "stopped")
    /\ UNCHANGED <<runtimeVars, attachment, queueVars, flagVars, exclusive, held,
                   track, prel, sent, sessionVars, callVars>>

\* releaseMediaAttachment, after a new hold (swap), a failure or the end.
AfterRelease == [swap |-> "read", failrel |-> "gate", endrel |-> "done"]

PlaybackReleases(p) ==
    /\ pp[p] \in DOMAIN AfterRelease
    /\ excl' = Ended(prel[p])
    /\ prel' = [prel EXCEPT ![p] = None]
    /\ Goto(p, AfterRelease[pp[p]])
    /\ UNCHANGED <<runtimeVars, attachment, queueVars, flagVars, exclusive, held,
                   track, out, sent, sessionVars, callVars>>

\* The output is in use: handleAttachmentFailure, and the next attempt.
BeginFails(p) ==
    /\ pp[p] = "fail"
    /\ IF Current(p, out[p])
         THEN HandleAttachmentFailure(p, out[p])
         ELSE UNCHANGED <<exclusive, held, paused, status, resumeOnAttach,
                          attachment>>
    /\ IF Current(p, out[p]) /\ exclusive = out[p]
         THEN prel' = [prel EXCEPT ![p] = out[p]] /\ Goto(p, "failrel")
         ELSE prel' = prel /\ Goto(p, "gate")
    /\ out' = [out EXCEPT ![p] = None]
    /\ UNCHANGED <<active, pauseReason, queueVars, created, cancelled, excl,
                   track, sent, sessionVars, callVars>>

\* waitMediaSentenceEnd: without an attachment there is nothing to wait for.
SentenceEnd(p) ==
    /\ pp[p] = "endread"
    /\ IF active = p /\ attachment # None
         THEN sent' = [sent EXCEPT ![p] = attachment] /\ Goto(p, "endwait")
         ELSE sent' = sent /\ Goto(p, "advance")
    /\ UNCHANGED <<runtimeVars, attachment, queueVars, flagVars, holdVars, track,
                   out, prel, sessionVars, callVars>>

\* The sender calls back: the sentence end was written, drained by an
\* interruption or could not be written; or the context ends the wait.
SentenceEnded(p) ==
    /\ \/ pp[p] = "endwait" /\ Goto(p, "advance")
       \/ pp[p] = "endwait" /\ Goto(p, "stopped")
       \/ pp[p] = "endwait" /\ ~Current(p, sent[p]) /\ Goto(p, "errored")
       \/ pp[p] = "enderr" /\ sent[p] \notin failing /\ Goto(p, "errored")
       \/ pp[p] = "enderr" /\ p \in cancelled /\ Goto(p, "stopped")
    /\ UNCHANGED <<runtimeVars, attachment, queueVars, flagVars, holdVars, track,
                   out, prel, sent, sessionVars, callVars>>

\* advanceAfterTrack
AdvanceAfterTrack(p) ==
    LET len == QueueLen
        next == (IF index < len THEN index ELSE track[p]) + 1
    IN /\ pp[p] = "advance"
       /\ \/ /\ active # p
             /\ Goto(p, "release")
             /\ UNCHANGED <<runtimeVars, index, track>>
          \/ /\ active = p /\ next >= len
             /\ Ends("stopped")
             /\ Goto(p, "release")
             /\ UNCHANGED <<index, track>>
          \/ /\ active = p /\ next < len
             /\ index' = next
             /\ status' = "playing"
             /\ track' = [track EXCEPT ![p] = next]
             /\ Goto(p, "wait")
             /\ UNCHANGED <<active, pauseReason, resumeOnAttach>>
       /\ sent' = [sent EXCEPT ![p] = None]
       /\ UNCHANGED <<attachment, mode, playlist, flagVars, holdVars, out, prel,
                      sessionVars, callVars>>

\* Fault: only an error makes the playback inactive.
MarkPlaybackErrorOnly(p) ==
    /\ pp[p] \in {"stopped", "errored"}
    /\ IF active = p /\ pp[p] = "errored"
         THEN Ends("error")
         ELSE UNCHANGED runtimeVars
    /\ Goto(p, "release")
    /\ out' = [out EXCEPT ![p] = None]
    /\ sent' = [sent EXCEPT ![p] = None]
    /\ UNCHANGED <<attachment, queueVars, flagVars, holdVars, track, prel,
                   sessionVars, callVars>>

\* markPlaybackStopped and markPlaybackError
MarkPlayback(p) ==
    /\ pp[p] \in {"stopped", "errored"}
    /\ IF active = p
         THEN Ends(IF pp[p] = "stopped" THEN "stopped" ELSE "error")
         ELSE UNCHANGED runtimeVars
    /\ Goto(p, "release")
    /\ out' = [out EXCEPT ![p] = None]
    /\ sent' = [sent EXCEPT ![p] = None]
    /\ UNCHANGED <<attachment, queueVars, flagVars, holdVars, track, prel,
                   sessionVars, callVars>>

\* Fault: an inactive playback leaves the release to the next one.
ReleaseExclusiveIfActive(p) ==
    /\ pp[p] = "release"
    /\ IF held[p] /\ active = p
         THEN /\ prel' = [prel EXCEPT ![p] = exclusive]
              /\ exclusive' = None
              /\ held' = [held EXCEPT ![p] = FALSE]
              /\ Goto(p, "endrel")
         ELSE UNCHANGED <<prel, exclusive, held>> /\ Goto(p, "done")
    /\ track' = [track EXCEPT ![p] = 0]
    /\ cancelled' = cancelled \ {p}
    /\ UNCHANGED <<runtimeVars, attachment, queueVars, created, paused, excl, out,
                   sent, sessionVars, callVars>>

\* releaseExclusivePlayback, deferred: it releases what is registered now,
\* which may be another playback's.
ReleaseExclusive(p) ==
    /\ pp[p] = "release"
    /\ IF held[p]
         THEN /\ prel' = [prel EXCEPT ![p] = exclusive]
              /\ exclusive' = None
              /\ held' = [held EXCEPT ![p] = FALSE]
              /\ Goto(p, "endrel")
         ELSE UNCHANGED <<prel, exclusive, held>> /\ Goto(p, "done")
    /\ track' = [track EXCEPT ![p] = 0]
    /\ cancelled' = cancelled \ {p}
    /\ UNCHANGED <<runtimeVars, attachment, queueVars, created, paused, excl, out,
                   sent, sessionVars, callVars>>

PlaybackNext(p) ==
    \/ PlaybackBegins(p)
    \/ WaitIfPaused(p, "wait", "prepare")
    \/ PrepareTrack(p)
    \/ ReadFrame(p)
    \/ WaitIfPaused(p, "gate", "attach")
    \/ WaitForAttachment(p)
    \/ BeginExclusive(p)
    \/ BeginGivesUp(p)
    \/ ConfirmExclusive(p)
    \/ UndoExclusive(p)
    \/ BeginFails(p)
    \/ SentenceEnd(p)
    \/ SentenceEnded(p)
    \/ AdvanceAfterTrack(p)
    \/ MarkPlayback(p)
    \/ ReleaseExclusive(p)
    \/ PlaybackReleases(p)

-----------------------------------------------------------------------------
(***************************************************************************)
(* Control calls.  What a call read under one critical section is in mem   *)
(* and may be stale in the next.                                           *)
(***************************************************************************)
Step(c, l) == cp' = [cp EXCEPT ![c] = l]
Asks(c, k) == c \in Calls /\ cp[c] = "new" /\ k \in Kinds[c]

\* After the lock: release the output that was taken under it, if any.
ReleaseThen(c, l) == Step(c, IF exclusive = None THEN l ELSE "release")

\* replaceActivePlaybackLocked, and what both kinds of queue reset with it.
\* The call then releases the output of the old playback, cancels it, waits
\* at most two seconds for its end, and starts the new goroutine.
Replace(c, m, i) ==
    /\ created < MaxPlaybacks
    /\ created' = created + 1
    /\ active' = created + 1
    /\ held' = [p \in Playbacks |-> held[p] /\ p # active]
    /\ exclusive' = None
    /\ rel' = [rel EXCEPT ![c] = exclusive]
    /\ mem' = [mem EXCEPT ![c] = [NoMem EXCEPT !.active = active]]
    /\ new' = [new EXCEPT ![c] = created + 1]
    /\ mode' = m /\ index' = i
    /\ pauseReason' = "none" /\ resumeOnAttach' = FALSE /\ status' = "playing"
    /\ ReleaseThen(c, "cancel")
    /\ UNCHANGED <<attachment, playlist, paused, cancelled, excl, playVars,
                   sessionVars>>

\* ReplaceStandaloneQueueAndPlay: of a new source, or of the one read.
PlayStandalone(c) ==
    /\ Asks(c, "play") \/ cp[c] = "replay"
    /\ Replace(c, "standalone", 0)

\* PlayAgentPlaylistIndex, at the index the call has chosen.
PlayPlaylist(c) ==
    /\ cp[c] = "playlist"
    /\ Replace(c, "agent_playlist", mem[c].index)

\* PlayAgentPlaylist goes on where the playlist was, jumpToRelative wraps
\* around; both read the index under r.mu and replace under it later.  (A
\* PlayAgentPlaylist whose copy of the list misses an append starts at 0.)
ChooseTrack(c, i) ==
    /\ mem' = [mem EXCEPT ![c].index = i]
    /\ Step(c, "playlist")
    /\ UNCHANGED <<runtimeVars, attachment, queueVars, flagVars, holdVars,
                   playVars, sessionVars, rel, new>>

Jump(d) == (index + d + playlist) % playlist

List(c) ==
    /\ Asks(c, "list") /\ playlist > 0
    /\ ChooseTrack(c, IF InPlaylist THEN index ELSE 0)

Skip(c) ==
    /\ InPlaylist
    /\ \/ Asks(c, "next") /\ ChooseTrack(c, Jump(1))
       \/ Asks(c, "prev") /\ ChooseTrack(c, Jump(-1))

\* Pause and Suspend
Pause(c, k, reason) ==
    /\ Asks(c, k)
    /\ active # Nobody
    /\ paused' = [paused EXCEPT ![active] = TRUE]
    /\ rel' = [rel EXCEPT ![c] = exclusive]
    /\ exclusive' = None
    /\ held' = [held EXCEPT ![active] = FALSE]
    /\ pauseReason' = reason
    /\ resumeOnAttach' = FALSE
    /\ status' = "paused"
    /\ ReleaseThen(c, "done")
    /\ UNCHANGED <<active, attachment, queueVars, created, cancelled, excl,
                   playVars, sessionVars, mem, new>>

Stop(c) ==
    /\ Asks(c, "stop")
    /\ held' = [p \in Playbacks |-> held[p] /\ p # active]
    /\ exclusive' = None
    /\ rel' = [rel EXCEPT ![c] = exclusive]
    /\ mem' = [mem EXCEPT ![c] = [NoMem EXCEPT !.active = active]]
    /\ Ends("stopped")
    /\ ReleaseThen(c, "cancel")
    /\ UNCHANGED <<attachment, queueVars, flagVars, excl, playVars, sessionVars,
                   new>>

\* releaseMediaAttachment of what the call took under the lock.
CallReleases(c) ==
    /\ cp[c] = "release"
    /\ excl' = Ended(rel[c])
    /\ rel' = [rel EXCEPT ![c] = None]
    /\ Step(c, IF mem[c].active = Nobody /\ new[c] = Nobody
                 THEN "done" ELSE "cancel")
    /\ UNCHANGED <<runtimeVars, attachment, queueVars, flagVars, exclusive, held,
                   playVars, sessionVars, mem, new>>

\* stopOldPlayback and, for a new playback, its goroutine.  The wait for the
\* old goroutine in between is given up after two seconds and promises
\* nothing.
CallCancels(c) ==
    /\ cp[c] = "cancel"
    /\ cancelled' = cancelled \union
                      {p \in Playbacks : p = mem[c].active /\ ~Over(p)}
    /\ pp' = [p \in Playbacks |-> IF p = new[c] THEN "begin" ELSE pp[p]]
    /\ mem' = [mem EXCEPT ![c] = NoMem]
    /\ new' = [new EXCEPT ![c] = Nobody]
    /\ Step(c, "done")
    /\ UNCHANGED <<runtimeVars, attachment, queueVars, created, paused, holdVars,
                   track, out, prel, sent, sessionVars, rel>>

(***************************************************************************)
(* RecoverPlayback, by the user (resume) or by the goroutine a new         *)
(* attachment starts; recoverActivePlayback is its last step and does not  *)
(* ask again why the playback was paused.                                  *)
(***************************************************************************)
ShouldResume(c) ==
    /\ cp[c] = "should"
    /\ Step(c, IF resumeOnAttach THEN "resume" ELSE "done")
    /\ UNCHANGED <<runtimeVars, attachment, queueVars, flagVars, holdVars,
                   playVars, sessionVars, mem, rel, new>>

RecoverReads(c) ==
    /\ Asks(c, "resume") \/ cp[c] = "resume"
    /\ mem' = [mem EXCEPT ![c] = [active |-> active, mode |-> mode,
                                  index |-> index]]
    /\ Step(c, "decide")
    /\ UNCHANGED <<runtimeVars, attachment, queueVars, flagVars, holdVars,
                   playVars, sessionVars, rel, new>>

\* A paused playback is resumed, one that plays is left alone, and without
\* one the current source is played again.
RecoverDecides(c) ==
    LET m == mem[c]
        stopped == m.active = Nobody
    IN /\ cp[c] = "decide"
       /\ \/ ~stopped /\ paused[m.active] /\ Step(c, "unpause")
          \/ ~stopped /\ ~paused[m.active] /\ Step(c, "done")
          \/ stopped /\ m.mode = "agent_playlist" /\ Step(c, "playlist")
          \/ stopped /\ m.mode = "standalone" /\ Step(c, "replay")
       /\ resumeOnAttach' =
            (resumeOnAttach /\ (c \in Calls \/ stopped \/ paused[m.active]))
       /\ mem' = [mem EXCEPT ![c] = [NoMem EXCEPT !.index = m.index]]
       /\ UNCHANGED <<active, status, pauseReason, attachment, queueVars,
                      flagVars, holdVars, playVars, sessionVars, rel, new>>

RecoverActive(c) ==
    /\ cp[c] = "unpause"
    /\ IF active = Nobody \/ attachment = None
         THEN UNCHANGED <<paused, pauseReason, resumeOnAttach, status>>
         ELSE /\ paused' = [paused EXCEPT ![active] = FALSE]
              /\ resumeOnAttach' = FALSE
              /\ IF paused[active]
                   THEN pauseReason' = "none" /\ status' = "playing"
                   ELSE UNCHANGED <<pauseReason, status>>
    /\ Step(c, "done")
    /\ UNCHANGED <<active, attachment, queueVars, created, cancelled, holdVars,
                   playVars, sessionVars, mem, rel, new>>

(***************************************************************************)
(* enqueue_current: AppendCurrentToAgentPlaylist in three steps, then      *)
(* ResumeIfInterruptedPause in two.                                        *)
(***************************************************************************)
AppendReads(c) ==
    /\ Asks(c, "append")
    /\ mem' = [mem EXCEPT ![c] = [NoMem EXCEPT !.mode = mode, !.index = index]]
    /\ Step(c, "extend")
    /\ UNCHANGED <<runtimeVars, attachment, queueVars, flagVars, holdVars,
                   playVars, sessionVars, rel, new>>

\* Fault: the length of the list for the index of its last item.
AppendExtendsPast(c) ==
    /\ cp[c] = "extend"
    /\ playlist' = playlist + 1
    /\ mem' = [mem EXCEPT ![c].index =
                 IF mem[c].mode = "agent_playlist" THEN @ ELSE playlist + 1]
    /\ Step(c, "rebind")
    /\ UNCHANGED <<runtimeVars, attachment, mode, index, flagVars, holdVars,
                   playVars, sessionVars, rel, new>>

AppendExtends(c) ==
    /\ cp[c] = "extend"
    /\ playlist' = playlist + 1
    /\ mem' = [mem EXCEPT ![c].index =
                 IF mem[c].mode = "agent_playlist" THEN @ ELSE playlist]
    /\ Step(c, "rebind")
    /\ UNCHANGED <<runtimeVars, attachment, mode, index, flagVars,
                   holdVars, playVars, sessionVars, rel, new>>

AppendRebinds(c) ==
    /\ cp[c] = "rebind"
    /\ mode' = "agent_playlist" /\ index' = mem[c].index
    /\ mem' = [mem EXCEPT ![c] = NoMem]
    /\ Step(c, "ifint")
    /\ UNCHANGED <<runtimeVars, attachment, playlist, flagVars, holdVars,
                   playVars, sessionVars, rel, new>>

ResumeIfInterrupted(c) ==
    /\ cp[c] = "ifint"
    /\ Step(c, IF active # Nobody /\ pauseReason = "interrupt"
                 THEN "unpause" ELSE "done")
    /\ UNCHANGED <<runtimeVars, attachment, queueVars, flagVars, holdVars,
                   playVars, sessionVars, mem, rel, new>>

CallNext(c) ==
    \/ PlayStandalone(c)
    \/ PlayPlaylist(c)
    \/ List(c)
    \/ Skip(c)
    \/ Pause(c, "pause", "user")
    \/ Pause(c, "suspend", "interrupt")
    \/ Stop(c)
    \/ CallReleases(c)
    \/ CallCancels(c)
    \/ ShouldResume(c)
    \/ RecoverReads(c)
    \/ RecoverDecides(c)
    \/ RecoverActive(c)
    \/ AppendReads(c)
    \/ AppendExtends(c)
    \/ AppendRebinds(c)
    \/ ResumeIfInterrupted(c)

Next ==
    \/ \E s \in Sessions : \/ Attach(s) \/ Detach(s) \/ DetachReleases(s)
                           \/ SenderReleases(s)
                           \/ \E p \in Playbacks : SenderFails(s, p)
    \/ \E p \in {q \in Playbacks : pp[q] \notin {"none", "done"}} : PlaybackNext(p)
    \/ \E c \in {d \in Procs : cp[d] # "done"} : CallNext(c)

Spec == Init /\ [][Next]_vars

-----------------------------------------------------------------------------
Labels == {"none", "begin", "wait", "prepare", "read", "gate", "attach",
           "acquire", "confirm", "undo", "swap", "fail", "failrel",
           "endread", "endwait", "enderr",
           "advance", "stopped", "errored", "release", "endrel", "done"}
CallLabels == {"new", "should", "resume", "decide", "unpause", "replay",
               "playlist", "extend", "rebind", "ifint", "release", "cancel",
               "done"}
Modes == {"standalone", "agent_playlist"}
MaybeSession == Sessions \union {None}
MaybePlayback == Playbacks \union {Nobody}

\* Every variable has its type: playbacks are numbered in the order in which
\* they were started, and a standalone queue is only ever at its one track.
TypeOK ==
    /\ active \in 0 .. created /\ created \in Playbacks
    /\ status \in {"idle", "playing", "paused", "stopped", "error"}
    /\ pauseReason \in {"none", "user", "interrupt"}
    /\ resumeOnAttach \in BOOLEAN
    /\ attachment \in MaybeSession /\ exclusive \in MaybeSession
    /\ mode \in Modes
    /\ playlist \in Nat /\ index \in Nat /\ index < QueueLen
    /\ paused \in [Playbacks -> BOOLEAN] /\ held \in [Playbacks -> BOOLEAN]
    /\ cancelled \in SUBSET Playbacks
    /\ pp \in [Playbacks -> Labels] /\ track \in [Playbacks -> Nat]
    /\ out \in [Playbacks -> MaybeSession]
    /\ prel \in [Playbacks -> MaybeSession]
    /\ sent \in [Playbacks -> MaybeSession]
    /\ excl \in [Sessions -> BOOLEAN]
    /\ sess \in [Sessions -> {"new", "attached", "closing"}]
    /\ failing \in SUBSET Sessions
    /\ cp \in [Procs -> CallLabels]
    /\ mem \in [Procs -> [active : MaybePlayback, mode : Modes, index : Nat]]
    /\ rel \in [Procs -> MaybeSession] /\ new \in [Procs -> MaybePlayback]

\* The parties that will end, or may still register, the exclusivity of s.
Holders(s) ==
    {<<"runtime", 0>> : x \in {y \in {exclusive} : y = s}}
      \union {<<"call", c>> : c \in {d \in Procs : rel[d] = s}}
      \union {<<"playback", p>> : p \in {q \in Playbacks : prel[q] = s}}
      \union {<<"begun", p>> : p \in {q \in Playbacks :
                  pp[q] \in {"confirm", "undo"} /\ out[q] = s}}
      \union {<<"sender", x>> : x \in failing \intersect {s}}
      \union {<<"close", x>> : x \in {t \in {s} : sess[t] = "closing"}}

(***************************************************************************)
(* A session's speech output is exclusive exactly while one party is       *)
(* answerable for it: the runtime, a call or goroutine that has taken it   *)
(* under r.mu and has yet to call EndExclusiveMediaPlayback, or a playback *)
(* that has begun it and not yet confirmed.  So no exclusivity is leaked,  *)
(* which would silence the session's speech for good, and none is ended    *)
(* twice, which would end another playback's.                              *)
(***************************************************************************)
OneHolder ==
    \A s \in Sessions : Cardinality(Holders(s)) = (IF excl[s] THEN 1 ELSE 0)

(***************************************************************************)
(* While the runtime registers an exclusive output, some playback whose    *)
(* goroutine has not passed its deferred releaseExclusivePlayback believes *)
(* it holds it, so that the output is given back when that goroutine ends. *)
(***************************************************************************)
HolderWillRelease ==
    exclusive # None =>
        \E p \in Playbacks : held[p] /\ pp[p] # "none" /\ ~Over(p)

(***************************************************************************)
(* The active playback has a goroutine, or a call that is about to start   *)
(* it, and is not cancelled; otherwise RecoverPlayback would answer for    *)
(* ever that it is already playing.                                        *)
(***************************************************************************)
ActiveRuns ==
    active # Nobody =>
        /\ active \notin cancelled
        /\ \/ \E c \in Procs : new[c] = active
           \/ pp[active] \notin {"none", "release"} /\ ~Over(active)

(***************************************************************************)
(* What the runtime reports fits what it does: playing or paused is said   *)
(* of an active playback only, paused only of one that is, and a resume    *)
(* is armed for the next attachment only if there is one to resume.        *)
(* Playing may be said of a playback that is paused: advanceAfterTrack     *)
(* does not look.                                                          *)
(***************************************************************************)
StatusFits ==
    /\ (status \in {"playing", "paused"}) = (active # Nobody)
    /\ status = "paused" => paused[active]
    /\ resumeOnAttach => active # Nobody /\ paused[active]
=============================================================================
