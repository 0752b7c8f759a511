------------------------- MODULE MediaPlayer_proofs -------------------------
(***************************************************************************)
(* Proofs about media playback.                                            *)
(*                                                                         *)
(* What OneHolder counts, the invariant has to say pointwise: who is       *)
(* answerable for a session's output (Holds), that there is exactly one    *)
(* such party while the output is exclusive, and none otherwise (Owned).   *)
(* One lemma for each action proves the parts of the invariant it can      *)
(* disturb one by one and the others together; the theorems, and the step  *)
(* from Owned to the cardinality, are at the end.                          *)
(***************************************************************************)
EXTENDS MediaPlayer, FiniteSetTheorems, TLAPS

\* The type invariant, in the parts a step may leave alone.
RuntimeOK ==
    /\ active \in 0 .. created /\ created \in Playbacks
    /\ status \in {"idle", "playing", "paused", "stopped", "error"}
    /\ pauseReason \in {"none", "user", "interrupt"}
    /\ resumeOnAttach \in BOOLEAN
    /\ attachment \in MaybeSession /\ exclusive \in MaybeSession

QueueOK ==
    mode \in Modes /\ playlist \in Nat /\ index \in Nat /\ index < QueueLen

FlagsOK ==
    /\ paused \in [Playbacks -> BOOLEAN] /\ held \in [Playbacks -> BOOLEAN]
    /\ cancelled \in SUBSET Playbacks

PlayOK ==
    /\ pp \in [Playbacks -> Labels] /\ track \in [Playbacks -> Nat]
    /\ out \in [Playbacks -> MaybeSession]
    /\ prel \in [Playbacks -> MaybeSession]
    /\ sent \in [Playbacks -> MaybeSession]

SessionOK ==
    /\ excl \in [Sessions -> BOOLEAN]
    /\ sess \in [Sessions -> {"new", "attached", "closing"}]
    /\ failing \in SUBSET Sessions

Mems == [active : MaybePlayback, mode : Modes, index : Nat]

CallOK ==
    /\ cp \in [Procs -> CallLabels]
    /\ mem \in [Procs -> Mems]
    /\ rel \in [Procs -> MaybeSession] /\ new \in [Procs -> MaybePlayback]

Types == RuntimeOK /\ QueueOK /\ FlagsOK /\ PlayOK /\ SessionOK /\ CallOK

LEMMA TypesAreTypeOK == Types <=> TypeOK
BY DEF Types, TypeOK, RuntimeOK, QueueOK, FlagsOK, PlayOK, SessionOK, CallOK, Mems

-----------------------------------------------------------------------------
(***************************************************************************)
(* The inductive invariant.                                                *)
(***************************************************************************)
\* What a playback has in hand fits where its goroutine is; one that has not
\* been started has none.
PlayInv ==
    \A p \in Playbacks :
        /\ p > created => pp[p] = "none"
        /\ pp[p] = "none" => out[p] = None
        /\ pp[p] \in {"acquire", "confirm", "undo", "fail"} => out[p] \in Sessions
        /\ prel[p] # None => pp[p] \in {"swap", "failrel", "endrel"}

\* What a call has in hand fits where it is; the recovery of a session has not
\* begun before the session is attached.
CallInv ==
    /\ \A s \in Sessions : sess[s] = "new" => cp[s] = "new"
    /\ \A c \in Procs :
         /\ rel[c] # None => cp[c] = "release"
         /\ cp[c] = "new" => mem[c] = NoMem
         /\ new[c] # Nobody => /\ cp[c] \in {"release", "cancel"}
                               /\ new[c] <= created /\ pp[new[c]] = "none"
         /\ \A d \in Procs : new[c] # Nobody /\ new[c] = new[d] => c = d

\* What a call remembers of the queue stays within the playlist, which only
\* grows.
IndexInv ==
    \A c \in Procs :
        mem[c].mode = "agent_playlist" \/ cp[c] \in {"playlist", "rebind"}
            => mem[c].index < playlist

\* A playback a call is going to cancel is not the current one, nor becomes so
\* again: playbacks are numbered upwards.
CancelInv ==
    /\ \A p \in cancelled : p <= created
    /\ \A c \in Procs :
         /\ mem[c].active <= created
         /\ cp[c] \in {"release", "cancel"} /\ mem[c].active # Nobody
              => mem[c].active # active

\* The current playback does not find its track missing from the queue.
TrackInv ==
    \A p \in Playbacks :
        active = p /\ pp[p] \in {"wait", "prepare"} => track[p] < QueueLen

\* Who is answerable for the exclusivity of session s, as in Holders.
Holds(k, x, s) ==
    \/ k = "runtime" /\ x = 0 /\ exclusive = s
    \/ k = "call" /\ x \in Procs /\ rel[x] = s
    \/ k = "playback" /\ x \in Playbacks /\ prel[x] = s
    \/ k = "begun" /\ x \in Playbacks /\ pp[x] \in {"confirm", "undo"} /\ out[x] = s
    \/ k = "sender" /\ x = s /\ s \in failing
    \/ k = "close" /\ x = s /\ sess[s] = "closing"

\* The output of s is exclusive just when somebody is, and then one is.
Owned(s) ==
    /\ excl[s] => \E k, x : Holds(k, x, s)
    /\ \A k, x : Holds(k, x, s) => excl[s]
    /\ \A k, x, l, y : Holds(k, x, s) /\ Holds(l, y, s) => k = l /\ x = y

AllOwned == \A s \in Sessions : Owned(s)

Inv == /\ PlayInv /\ CallInv /\ IndexInv /\ CancelInv /\ TrackInv
       /\ ActiveRuns /\ StatusFits /\ HolderWillRelease /\ AllOwned
-----------------------------------------------------------------------------
(***************************************************************************)
(* Who is answerable for an output.                                        *)
(***************************************************************************)
LEMMA OwnerSame ==
    ASSUME NEW s, Owned(s), excl'[s] = excl[s],
           \A k, x : Holds(k, x, s)' <=> Holds(k, x, s)
    PROVE  Owned(s)'
BY DEF Owned

\* The exclusivity of s passes from one party to another.
Passes(s, k, x, l, y) ==
    \A m, z : Holds(m, z, s)' <=> \/ Holds(m, z, s) /\ ~(m = k /\ z = x)
                                  \/ m = l /\ z = y

LEMMA OwnerChanges ==
    ASSUME NEW s, Owned(s), excl'[s] = excl[s],
           NEW k, NEW x, NEW l, NEW y, Holds(k, x, s), Passes(s, k, x, l, y)
    PROVE  Owned(s)'
<1>1. \A m, z : Holds(m, z, s) => m = k /\ z = x
  BY DEF Owned
<1>2. \A m, z : Holds(m, z, s)' <=> m = l /\ z = y
  BY <1>1 DEF Passes
<1>3. excl'[s]
  BY DEF Owned
<1>. QED  BY <1>2, <1>3 DEF Owned

LEMMA OwnerGone ==
    ASSUME NEW s, Owned(s), excl'[s] = FALSE,
           NEW k, NEW x, Holds(k, x, s),
           \A m, z : Holds(m, z, s)' => Holds(m, z, s) /\ ~(m = k /\ z = x)
    PROVE  Owned(s)'
<1>1. \A m, z : Holds(m, z, s) => m = k /\ z = x
  BY DEF Owned
<1>2. \A m, z : ~Holds(m, z, s)'
  BY <1>1
<1>. QED  BY <1>2 DEF Owned

\* A party joins those answerable for s.
Joins(s, l, y) ==
    \A m, z : Holds(m, z, s)' <=> Holds(m, z, s) \/ (m = l /\ z = y)

LEMMA OwnerComes ==
    ASSUME NEW s, Owned(s), ~excl[s], excl'[s] = TRUE,
           NEW l, NEW y, Joins(s, l, y)
    PROVE  Owned(s)'
<1>1. \A m, z : ~Holds(m, z, s)
  BY DEF Owned
<1>2. \A m, z : Holds(m, z, s)' <=> m = l /\ z = y
  BY <1>1 DEF Joins
<1>. QED  BY <1>2 DEF Owned

Begun(p) == pp[p] \in {"confirm", "undo"}

\* A step that neither takes over an exclusivity nor begins or ends one.
LEMMA SameOwners ==
    ASSUME AllOwned, UNCHANGED <<exclusive, rel, prel, failing, excl>>,
           \A p \in Playbacks : Begun(p)' <=> Begun(p),
           \A p \in Playbacks : Begun(p) => out'[p] = out[p],
           \A s \in Sessions : sess'[s] = "closing" <=> sess[s] = "closing"
    PROVE  AllOwned'
<1>. SUFFICES ASSUME NEW s \in Sessions
              PROVE  Owned(s)'
  BY DEF AllOwned
<1>1. \A k, x : Holds(k, x, s)' <=> Holds(k, x, s)
  BY DEF Holds, Begun
<1>. QED  BY <1>1, OwnerSame DEF AllOwned

\* A call takes the runtime's output, if any, and has none yet.
LEMMA CallTakes ==
    ASSUME AllOwned, RuntimeOK, CallOK, MediaAssumption,
           NEW c \in Procs, rel[c] = None,
           rel' = [rel EXCEPT ![c] = exclusive], exclusive' = None,
           UNCHANGED <<prel, pp, out, failing, sess, excl>>
    PROVE  AllOwned'
<1>. SUFFICES ASSUME NEW s \in Sessions
              PROVE  Owned(s)'
  BY DEF AllOwned
<1>0. Owned(s) /\ s # None
  BY MediaAssumption DEF AllOwned
<1>1. CASE exclusive # s
  <2>1. \A x \in Procs : rel'[x] = s <=> rel[x] = s
    BY <1>0, <1>1 DEF CallOK
  <2>2. \A k, x : Holds(k, x, s)' <=> Holds(k, x, s)
    BY <1>0, <1>1, <2>1 DEF Holds
  <2>. QED  BY <1>0, <2>2, OwnerSame
<1>2. CASE exclusive = s
  <2>1. \A x \in Procs : rel'[x] = s <=> rel[x] = s \/ x = c
    BY <1>2 DEF CallOK
  <2>2. Holds("runtime", 0, s)
    BY <1>2 DEF Holds
  <2>3. Passes(s, "runtime", 0, "call", c)
    BY <1>0, <1>2, <2>1 DEF Passes, Holds
  <2>. QED  BY <1>0, <2>2, <2>3, OwnerChanges
<1>. QED  BY <1>1, <1>2

\* A playback takes the runtime's output, if any, and has none yet.
LEMMA PlaybackTakes ==
    ASSUME AllOwned, RuntimeOK, PlayOK, MediaAssumption,
           NEW p \in Playbacks, prel[p] = None,
           prel' = [prel EXCEPT ![p] = exclusive], exclusive' = None,
           \A q \in Playbacks : Begun(q)' <=> Begun(q),
           \A q \in Playbacks : Begun(q) => out'[q] = out[q],
           UNCHANGED <<rel, failing, sess, excl>>
    PROVE  AllOwned'
<1>. SUFFICES ASSUME NEW s \in Sessions
              PROVE  Owned(s)'
  BY DEF AllOwned
<1>0. Owned(s) /\ s # None
  BY MediaAssumption DEF AllOwned
<1>1. CASE exclusive # s
  <2>1. \A x \in Playbacks : prel'[x] = s <=> prel[x] = s
    BY <1>0, <1>1 DEF PlayOK
  <2>2. \A k, x : Holds(k, x, s)' <=> Holds(k, x, s)
    BY <1>0, <1>1, <2>1 DEF Holds, Begun
  <2>. QED  BY <1>0, <2>2, OwnerSame
<1>2. CASE exclusive = s
  <2>1. \A x \in Playbacks : prel'[x] = s <=> prel[x] = s \/ x = p
    BY <1>2 DEF PlayOK
  <2>2. Holds("runtime", 0, s)
    BY <1>2 DEF Holds
  <2>3. Passes(s, "runtime", 0, "playback", p)
    BY <1>0, <1>2, <2>1 DEF Passes, Holds, Begun
  <2>. QED  BY <1>0, <2>2, <2>3, OwnerChanges
<1>. QED  BY <1>1, <1>2

\* The answerable party of s ends the exclusivity.
LEMMA HolderEnds ==
    ASSUME AllOwned, SessionOK, NEW s \in Sessions, NEW k, NEW x, Holds(k, x, s),
           excl' = Ended(s),
           \A m, z : Holds(m, z, s)' => Holds(m, z, s) /\ ~(m = k /\ z = x),
           \A t \in Sessions \ {s} : \A m, z : Holds(m, z, t)' <=> Holds(m, z, t)
    PROVE  AllOwned'
<1>. SUFFICES ASSUME NEW t \in Sessions
              PROVE  Owned(t)'
  BY DEF AllOwned
<1>0. Owned(t)
  BY DEF AllOwned
<1>1. CASE t = s
  <2>1. excl'[s] = FALSE
    BY DEF Ended
  <2>. QED  BY <1>0, <1>1, <2>1, OwnerGone
<1>2. CASE t # s
  <2>1. excl'[t] = excl[t]
    BY <1>2 DEF Ended, SessionOK
  <2>. QED  BY <1>0, <1>2, <2>1, OwnerSame
<1>. QED  BY <1>1, <1>2

\* The goroutine of p has begun and its deferred release is still to come.
Running(p) == pp[p] # "none" /\ ~Over(p)

LEMMA HolderStays ==
    ASSUME HolderWillRelease, UNCHANGED <<exclusive, held>>,
           \A q \in Playbacks : Running(q) => Running(q)'
    PROVE  HolderWillRelease'
BY DEF HolderWillRelease, Running

LEMMA RuntimeEnds ==
    ASSUME RuntimeOK, MediaAssumption, NEW st \in {"stopped", "error"}, Ends(st),
           UNCHANGED <<created, attachment, exclusive>>
    PROVE  RuntimeOK'
<1>1. 0 \in 0 .. created
  BY MediaAssumption DEF RuntimeOK, Playbacks
<1>. QED  BY <1>1 DEF RuntimeOK, Ends, Nobody

-----------------------------------------------------------------------------
LEMMA AttachInv ==
    ASSUME Types, Inv, NEW s \in Sessions,
           Attach(s)
    PROVE  Types' /\ Inv'
<1>1. RuntimeOK'
  BY DEF Types, RuntimeOK, MaybeSession, Playbacks, Nobody, Attach, runtimeVars,
         flagVars, holdVars
<1>2. SessionOK'
  BY DEF Types, SessionOK, Attach, holdVars
<1>3. CallOK'
  BY DEF Types, CallOK, Mems, CallLabels, MaybeSession, MaybePlayback, Modes,
         Nobody, Attach
<1>4. CallInv'
  BY DEF Types, Inv, RuntimeOK, PlayOK, SessionOK, CallOK, CallInv, MaybeSession,
         Playbacks, Nobody, Labels, Mems, CallLabels, MaybePlayback, Modes, Procs,
         Attach, runtimeVars, flagVars, holdVars, playVars
<1>5. IndexInv'
  BY DEF Types, Inv, QueueOK, CallOK, IndexInv, QueueLen, InPlaylist, Modes, Mems,
         CallLabels, MaybeSession, MaybePlayback, Nobody, Attach, queueVars
<1>6. CancelInv'
  BY DEF Types, Inv, RuntimeOK, FlagsOK, CallOK, CancelInv, MaybeSession, Playbacks,
         Nobody, Mems, CallLabels, MaybePlayback, Modes, Attach, runtimeVars,
         flagVars, holdVars
<1>7. AllOwned'
  <2>1. \A t \in Sessions : sess'[t] = "closing" <=> sess[t] = "closing"
    BY DEF Types, SessionOK, Attach, runtimeVars, queueVars, flagVars, holdVars,
           playVars
  <2>2. UNCHANGED <<exclusive, rel, prel, failing, excl, pp, out>>
    BY DEF Attach, runtimeVars, queueVars, flagVars, holdVars, playVars
  <2>. QED  BY <2>1, <2>2, SameOwners DEF Inv, Begun
<1>8. /\ QueueOK' /\ FlagsOK' /\ PlayOK' /\ PlayInv' /\ TrackInv' /\ ActiveRuns'
      /\ StatusFits' /\ HolderWillRelease'
  BY DEF Types, Inv, QueueOK, FlagsOK, PlayOK, PlayInv, TrackInv, ActiveRuns,
         StatusFits, HolderWillRelease, QueueLen, InPlaylist, Modes, Labels,
         MaybeSession, Playbacks, Over, Nobody, Attach, runtimeVars, queueVars,
         flagVars, holdVars, playVars
<1>. QED  BY <1>1, <1>2, <1>3, <1>4, <1>5, <1>6, <1>7, <1>8 DEF Types, Inv

LEMMA DetachInv ==
    ASSUME Types, Inv, NEW s \in Sessions,
           Detach(s)
    PROVE  Types' /\ Inv'
<1>1. RuntimeOK'
  BY DEF Types, RuntimeOK, MaybeSession, Playbacks, Nobody, Detach, Unhold,
         AwaitAttachment
<1>2. FlagsOK'
  BY DEF Types, FlagsOK, Detach, Unhold, AwaitAttachment
<1>3. SessionOK'
  BY DEF Types, SessionOK, Detach, Unhold, AwaitAttachment
<1>4. CallInv'
  BY DEF Types, Inv, RuntimeOK, PlayOK, SessionOK, CallOK, CallInv, MaybeSession,
         Playbacks, Nobody, Labels, Mems, CallLabels, MaybePlayback, Modes, Procs,
         Detach, Unhold, AwaitAttachment, playVars, callVars
<1>5. StatusFits'
  BY MediaAssumption DEF Types, Inv, RuntimeOK, FlagsOK, StatusFits, MaybeSession,
                         Playbacks, Nobody, Detach, Unhold, AwaitAttachment
<1>6. HolderWillRelease'
  BY DEF Types, Inv, RuntimeOK, FlagsOK, PlayOK, HolderWillRelease, MaybeSession,
         Playbacks, Nobody, Labels, Over, Detach, Unhold, AwaitAttachment, playVars
<1>7. AllOwned'
  <2>. SUFFICES ASSUME NEW t \in Sessions
                PROVE  Owned(t)'
    BY DEF AllOwned
  <2>0. Owned(t) /\ t # None /\ excl'[t] = excl[t]
    BY MediaAssumption DEF Inv, AllOwned, Detach, Unhold, AwaitAttachment,
                           queueVars, playVars, callVars
  <2>1. CASE exclusive = s /\ t = s
    <3>1. Holds("runtime", 0, t)
      BY <2>1 DEF Holds
    <3>2. Passes(t, "runtime", 0, "close", t)
      BY <2>0, <2>1 DEF Passes, Holds, Types, SessionOK, PlayOK, Detach, Unhold,
                        AwaitAttachment, queueVars, playVars, callVars
    <3>. QED  BY <2>0, <3>1, <3>2, OwnerChanges
  <2>2. CASE ~(exclusive = s /\ t = s)
    <3>1. \A m, z : Holds(m, z, t)' <=> Holds(m, z, t)
      BY <2>0, <2>2 DEF Holds, Types, SessionOK, PlayOK, Detach, Unhold,
                        AwaitAttachment, queueVars, playVars, callVars
    <3>. QED  BY <2>0, <3>1, OwnerSame
  <2>. QED  BY <2>1, <2>2
<1>8. /\ QueueOK' /\ PlayOK' /\ CallOK' /\ PlayInv' /\ IndexInv' /\ CancelInv'
      /\ TrackInv' /\ ActiveRuns'
  BY DEF Types, Inv, QueueOK, PlayOK, CallOK, PlayInv, IndexInv, CancelInv,
         TrackInv, ActiveRuns, QueueLen, InPlaylist, Modes, Labels, MaybeSession,
         Mems, CallLabels, MaybePlayback, Nobody, Playbacks, Over, Detach, Unhold,
         AwaitAttachment, queueVars, playVars, callVars
<1>. QED  BY <1>1, <1>2, <1>3, <1>4, <1>5, <1>6, <1>7, <1>8 DEF Types, Inv

LEMMA DetachReleasesInv ==
    ASSUME Types, Inv, NEW s \in Sessions,
           DetachReleases(s)
    PROVE  Types' /\ Inv'
<1>1. SessionOK'
  BY DEF Types, SessionOK, DetachReleases, Ended
<1>2. CallInv'
  BY DEF Types, Inv, RuntimeOK, PlayOK, SessionOK, CallOK, CallInv, MaybeSession,
         Playbacks, Nobody, Labels, Mems, CallLabels, MaybePlayback, Modes, Procs,
         DetachReleases, Ended, runtimeVars, flagVars, playVars, callVars
<1>3. AllOwned'
  <2>1. Holds("close", s, s)
    BY DEF Holds, DetachReleases, Ended, runtimeVars, queueVars, flagVars, playVars,
           callVars
  <2>2. \A m, z : Holds(m, z, s)' => Holds(m, z, s) /\ ~(m = "close" /\ z = s)
    BY MediaAssumption DEF Holds, Types, SessionOK, PlayOK, DetachReleases, Ended,
                           runtimeVars, queueVars, flagVars, playVars, callVars
  <2>3. \A t \in Sessions \ {s} : \A m, z : Holds(m, z, t)' <=> Holds(m, z, t)
    BY MediaAssumption DEF Holds, Types, SessionOK, PlayOK, DetachReleases, Ended,
                           runtimeVars, queueVars, flagVars, playVars, callVars
  <2>4. excl' = Ended(s)
    BY DEF DetachReleases, Ended, runtimeVars, queueVars, flagVars, playVars,
           callVars
  <2>. QED  BY <2>1, <2>2, <2>3, <2>4, HolderEnds DEF Types, Inv
<1>4. /\ RuntimeOK' /\ QueueOK' /\ FlagsOK' /\ PlayOK' /\ CallOK' /\ PlayInv'
      /\ IndexInv' /\ CancelInv' /\ TrackInv' /\ ActiveRuns' /\ StatusFits'
      /\ HolderWillRelease'
  BY DEF Types, Inv, RuntimeOK, QueueOK, FlagsOK, PlayOK, CallOK, PlayInv, IndexInv,
         CancelInv, TrackInv, ActiveRuns, StatusFits, HolderWillRelease,
         MaybeSession, Playbacks, Nobody, QueueLen, InPlaylist, Modes, Labels, Mems,
         CallLabels, MaybePlayback, Over, DetachReleases, Ended, runtimeVars,
         queueVars, flagVars, playVars, callVars
<1>. QED  BY <1>1, <1>2, <1>3, <1>4 DEF Types, Inv

LEMMA SenderFailsInv ==
    ASSUME Types, Inv, NEW s \in Sessions, NEW p \in Playbacks,
           SenderFails(s, p)
    PROVE  Types' /\ Inv'
<1>1. RuntimeOK'
  BY DEF Types, RuntimeOK, MaybeSession, Playbacks, Nobody, SenderFails,
         HandleAttachmentFailure, Current, Unhold, AwaitAttachment
<1>2. FlagsOK'
  BY DEF Types, FlagsOK, SenderFails, HandleAttachmentFailure, Current, Unhold,
         AwaitAttachment
<1>3. PlayOK'
  BY DEF Types, PlayOK, Labels, MaybeSession, SenderFails, HandleAttachmentFailure,
         Current, Unhold, AwaitAttachment
<1>4. SessionOK'
  BY DEF Types, SessionOK, SenderFails, HandleAttachmentFailure, Current, Unhold,
         AwaitAttachment
<1>5. PlayInv'
  BY DEF Types, Inv, RuntimeOK, PlayOK, PlayInv, MaybeSession, Playbacks, Nobody,
         Labels, SenderFails, HandleAttachmentFailure, Current, Unhold,
         AwaitAttachment
<1>6. CallInv'
  BY MediaAssumption DEF Types, Inv, RuntimeOK, PlayOK, SessionOK, CallOK, CallInv,
                         MaybeSession, Playbacks, Nobody, Labels, Mems, CallLabels,
                         MaybePlayback, Modes, Procs, SenderFails,
                         HandleAttachmentFailure, Current, Unhold, AwaitAttachment,
                         callVars
<1>7. TrackInv'
  BY DEF Types, Inv, RuntimeOK, QueueOK, PlayOK, TrackInv, MaybeSession, Playbacks,
         Nobody, QueueLen, InPlaylist, Modes, Labels, SenderFails,
         HandleAttachmentFailure, Current, Unhold, AwaitAttachment, queueVars
<1>8. ActiveRuns'
  BY DEF Types, Inv, RuntimeOK, FlagsOK, PlayOK, CallOK, ActiveRuns, MaybeSession,
         Playbacks, Nobody, Labels, Mems, CallLabels, MaybePlayback, Modes, Over,
         SenderFails, HandleAttachmentFailure, Current, Unhold, AwaitAttachment,
         callVars
<1>9. StatusFits'
  BY DEF Types, Inv, RuntimeOK, FlagsOK, StatusFits, MaybeSession, Playbacks,
         Nobody, SenderFails, HandleAttachmentFailure, Current, Unhold,
         AwaitAttachment
<1>10. HolderWillRelease'
  BY DEF Types, Inv, RuntimeOK, FlagsOK, PlayOK, HolderWillRelease, MaybeSession,
         Playbacks, Nobody, Labels, Over, SenderFails, HandleAttachmentFailure,
         Current, Unhold, AwaitAttachment
<1>11. AllOwned'
  <2>. SUFFICES ASSUME NEW t \in Sessions
                PROVE  Owned(t)'
    BY DEF AllOwned
  <2>0. Owned(t) /\ t # None /\ excl'[t] = excl[t]
    BY MediaAssumption DEF Inv, AllOwned, SenderFails, HandleAttachmentFailure,
                           Current, Unhold, AwaitAttachment, queueVars, callVars
  <2>1. CASE exclusive = s /\ t = s
    <3>1. Holds("runtime", 0, t)
      BY <2>1 DEF Holds
    <3>2. Passes(t, "runtime", 0, "sender", t)
      BY <2>0, <2>1 DEF Passes, Holds, Types, SessionOK, PlayOK, SenderFails,
                        HandleAttachmentFailure, Current, Unhold, AwaitAttachment,
                        queueVars, callVars
    <3>. QED  BY <2>0, <3>1, <3>2, OwnerChanges
  <2>2. CASE ~(exclusive = s /\ t = s)
    <3>1. \A m, z : Holds(m, z, t)' <=> Holds(m, z, t)
      BY <2>0, <2>2 DEF Holds, Types, SessionOK, PlayOK, SenderFails,
                        HandleAttachmentFailure, Current, Unhold, AwaitAttachment,
                        queueVars, callVars
    <3>. QED  BY <2>0, <3>1, OwnerSame
  <2>. QED  BY <2>1, <2>2
<1>12. QueueOK' /\ CallOK' /\ IndexInv' /\ CancelInv'
  BY DEF Types, Inv, QueueOK, CallOK, IndexInv, CancelInv, QueueLen, InPlaylist,
         Modes, Mems, CallLabels, MaybeSession, MaybePlayback, Nobody, SenderFails,
         HandleAttachmentFailure, Current, Unhold, AwaitAttachment, queueVars,
         callVars
<1>. QED  BY <1>1, <1>2, <1>3, <1>4, <1>5, <1>6, <1>7, <1>8, <1>9, <1>10, <1>11, <1>12
          DEF Types, Inv

LEMMA SenderReleasesInv ==
    ASSUME Types, Inv, NEW s \in Sessions,
           SenderReleases(s)
    PROVE  Types' /\ Inv'
<1>1. SessionOK'
  BY DEF Types, SessionOK, SenderReleases, Ended
<1>2. AllOwned'
  <2>1. Holds("sender", s, s)
    BY DEF Holds, SenderReleases, Ended, runtimeVars, queueVars, flagVars, playVars,
           callVars
  <2>2. \A m, z : Holds(m, z, s)' => Holds(m, z, s) /\ ~(m = "sender" /\ z = s)
    BY MediaAssumption DEF Holds, Types, SessionOK, PlayOK, SenderReleases, Ended,
                           runtimeVars, queueVars, flagVars, playVars, callVars
  <2>3. \A t \in Sessions \ {s} : \A m, z : Holds(m, z, t)' <=> Holds(m, z, t)
    BY MediaAssumption DEF Holds, Types, SessionOK, PlayOK, SenderReleases, Ended,
                           runtimeVars, queueVars, flagVars, playVars, callVars
  <2>4. excl' = Ended(s)
    BY DEF SenderReleases, Ended, runtimeVars, queueVars, flagVars, playVars,
           callVars
  <2>. QED  BY <2>1, <2>2, <2>3, <2>4, HolderEnds DEF Types, Inv
<1>3. /\ RuntimeOK' /\ QueueOK' /\ FlagsOK' /\ PlayOK' /\ CallOK' /\ PlayInv'
      /\ CallInv' /\ IndexInv' /\ CancelInv' /\ TrackInv' /\ ActiveRuns' /\ StatusFits'
      /\ HolderWillRelease'
  BY DEF Types, Inv, RuntimeOK, QueueOK, FlagsOK, PlayOK, CallOK, PlayInv, CallInv,
         IndexInv, CancelInv, TrackInv, ActiveRuns, StatusFits, HolderWillRelease,
         MaybeSession, Playbacks, Nobody, QueueLen, InPlaylist, Modes, Labels, Mems,
         CallLabels, MaybePlayback, Procs, Over, SenderReleases, Ended, runtimeVars,
         queueVars, flagVars, playVars, callVars
<1>. QED  BY <1>1, <1>2, <1>3 DEF Types, Inv

\* A step of a playback leaves the calls alone: one that a call is about to
\* start is not yet running.
LEMMA PlaybackStepCalls ==
    ASSUME Types, CallInv, NEW p \in Playbacks, pp[p] # "none",
           \A q \in Playbacks : q # p => pp'[q] = pp[q],
           UNCHANGED <<created, sess, cp, mem, rel, new>>
    PROVE  CallInv'
<1>1. \A c \in Procs : new[c] # Nobody =>
         new[c] \in Playbacks /\ new[c] # p /\ pp'[new[c]] = pp[new[c]]
  BY DEF Types, CallOK, MaybePlayback, Nobody, CallInv
<1>. QED  BY <1>1 DEF CallInv

LEMMA WaitIfPausedInv ==
    ASSUME Types, Inv, NEW p \in Playbacks, NEW here, NEW next,
           <<here, next>> \in {<<"wait", "prepare">>, <<"gate", "attach">>},
           WaitIfPaused(p, here, next)
    PROVE  Types' /\ Inv'
<1>1. PlayOK'
  BY DEF Types, PlayOK, Labels, MaybeSession, WaitIfPaused, Goto
<1>2. PlayInv'
  BY DEF Types, Inv, RuntimeOK, PlayOK, PlayInv, MaybeSession, Playbacks, Nobody,
         Labels, WaitIfPaused, Goto, runtimeVars, flagVars, holdVars
<1>3. CallInv'
  <2>1. pp[p] # "none" /\ \A q \in Playbacks : q # p => pp'[q] = pp[q]
    BY DEF Types, PlayOK, WaitIfPaused, Goto
  <2>2. UNCHANGED <<created, sess, cp, mem, rel, new>>
    BY DEF WaitIfPaused, Goto, runtimeVars, flagVars, holdVars, sessionVars, callVars
  <2>. QED  BY <2>1, <2>2, PlaybackStepCalls DEF Inv
<1>4. TrackInv'
  BY DEF Types, Inv, RuntimeOK, QueueOK, PlayOK, TrackInv, MaybeSession, Playbacks,
         Nobody, QueueLen, InPlaylist, Modes, Labels, WaitIfPaused, Goto,
         runtimeVars, queueVars, flagVars, holdVars
<1>5. ActiveRuns'
  BY MediaAssumption DEF Types, Inv, RuntimeOK, FlagsOK, PlayOK, CallOK, ActiveRuns,
                         MaybeSession, Playbacks, Nobody, Labels, Mems, CallLabels,
                         MaybePlayback, Modes, Over, WaitIfPaused, Goto,
                         runtimeVars, flagVars, holdVars, callVars
<1>6. HolderWillRelease'
  <2>1. \A q \in Playbacks : Running(q) => Running(q)'
    BY DEF Running, Over, Types, PlayOK, WaitIfPaused, Goto, runtimeVars, queueVars,
           flagVars, holdVars, sessionVars, callVars
  <2>2. UNCHANGED <<exclusive, held>>
    BY DEF WaitIfPaused, Goto, runtimeVars, queueVars, flagVars, holdVars,
           sessionVars, callVars
  <2>. QED  BY <2>1, <2>2, HolderStays DEF Inv
<1>7. AllOwned'
  <2>1. /\ \A q \in Playbacks : Begun(q)' <=> Begun(q)
        /\ \A q \in Playbacks : Begun(q) => out'[q] = out[q]
    BY DEF Types, PlayOK, Begun, WaitIfPaused, Goto, runtimeVars, queueVars,
           flagVars, holdVars, sessionVars, callVars
  <2>2. UNCHANGED <<exclusive, rel, prel, failing, excl, sess>>
    BY DEF WaitIfPaused, Goto, runtimeVars, queueVars, flagVars, holdVars,
           sessionVars, callVars
  <2>. QED  BY <2>1, <2>2, SameOwners DEF Inv
<1>8. /\ RuntimeOK' /\ QueueOK' /\ FlagsOK' /\ SessionOK' /\ CallOK' /\ IndexInv'
      /\ CancelInv' /\ StatusFits'
  BY DEF Types, Inv, RuntimeOK, QueueOK, FlagsOK, SessionOK, CallOK, IndexInv,
         CancelInv, StatusFits, MaybeSession, Playbacks, Nobody, QueueLen,
         InPlaylist, Modes, Mems, CallLabels, MaybePlayback, WaitIfPaused, Goto,
         runtimeVars, queueVars, flagVars, holdVars, sessionVars, callVars
<1>. QED  BY <1>1, <1>2, <1>3, <1>4, <1>5, <1>6, <1>7, <1>8 DEF Types, Inv

LEMMA PlaybackBeginsInv ==
    ASSUME Types, Inv, NEW p \in Playbacks,
           PlaybackBegins(p)
    PROVE  Types' /\ Inv'
<1>1. PlayOK'
  BY DEF Types, QueueOK, PlayOK, QueueLen, InPlaylist, Modes, Labels, MaybeSession,
         PlaybackBegins, Goto, queueVars
<1>2. PlayInv'
  BY DEF Types, Inv, RuntimeOK, PlayOK, PlayInv, MaybeSession, Playbacks, Nobody,
         Labels, PlaybackBegins, Goto, runtimeVars, flagVars, holdVars
<1>3. CallInv'
  <2>1. pp[p] # "none" /\ \A q \in Playbacks : q # p => pp'[q] = pp[q]
    BY DEF Types, PlayOK, PlaybackBegins, Goto
  <2>2. UNCHANGED <<created, sess, cp, mem, rel, new>>
    BY DEF PlaybackBegins, Goto, runtimeVars, flagVars, holdVars, sessionVars, callVars
  <2>. QED  BY <2>1, <2>2, PlaybackStepCalls DEF Inv
<1>4. TrackInv'
  BY DEF Types, Inv, RuntimeOK, QueueOK, PlayOK, TrackInv, MaybeSession, Playbacks,
         Nobody, QueueLen, InPlaylist, Modes, Labels, PlaybackBegins, Goto,
         runtimeVars, queueVars, flagVars, holdVars
<1>5. ActiveRuns'
  BY MediaAssumption DEF Types, Inv, RuntimeOK, FlagsOK, PlayOK, CallOK, ActiveRuns,
                         MaybeSession, Playbacks, Nobody, Labels, Mems, CallLabels,
                         MaybePlayback, Modes, Over, PlaybackBegins, Goto,
                         runtimeVars, flagVars, holdVars, callVars
<1>6. HolderWillRelease'
  <2>1. \A q \in Playbacks : Running(q) => Running(q)'
    BY DEF Running, Over, Types, PlayOK, PlaybackBegins, Goto, runtimeVars,
           queueVars, flagVars, holdVars, sessionVars, callVars
  <2>2. UNCHANGED <<exclusive, held>>
    BY DEF PlaybackBegins, Goto, runtimeVars, queueVars, flagVars, holdVars,
           sessionVars, callVars
  <2>. QED  BY <2>1, <2>2, HolderStays DEF Inv
<1>7. AllOwned'
  <2>1. /\ \A q \in Playbacks : Begun(q)' <=> Begun(q)
        /\ \A q \in Playbacks : Begun(q) => out'[q] = out[q]
    BY DEF Types, PlayOK, Begun, PlaybackBegins, Goto, runtimeVars, queueVars,
           flagVars, holdVars, sessionVars, callVars
  <2>2. UNCHANGED <<exclusive, rel, prel, failing, excl, sess>>
    BY DEF PlaybackBegins, Goto, runtimeVars, queueVars, flagVars, holdVars,
           sessionVars, callVars
  <2>. QED  BY <2>1, <2>2, SameOwners DEF Inv
<1>8. /\ RuntimeOK' /\ QueueOK' /\ FlagsOK' /\ SessionOK' /\ CallOK' /\ IndexInv'
      /\ CancelInv' /\ StatusFits'
  BY DEF Types, Inv, RuntimeOK, QueueOK, FlagsOK, SessionOK, CallOK, IndexInv,
         CancelInv, StatusFits, MaybeSession, Playbacks, Nobody, QueueLen,
         InPlaylist, Modes, Mems, CallLabels, MaybePlayback, PlaybackBegins, Goto,
         runtimeVars, queueVars, flagVars, holdVars, sessionVars, callVars
<1>. QED  BY <1>1, <1>2, <1>3, <1>4, <1>5, <1>6, <1>7, <1>8 DEF Types, Inv

LEMMA PrepareTrackInv ==
    ASSUME Types, Inv, NEW p \in Playbacks,
           PrepareTrack(p)
    PROVE  Types' /\ Inv'
<1>1. RuntimeOK'
  BY DEF Types, RuntimeOK, MaybeSession, Playbacks, Nobody, PrepareTrack, Goto,
         flagVars, holdVars
<1>2. QueueOK'
  BY DEF Types, QueueOK, PlayOK, QueueLen, InPlaylist, Modes, Labels, MaybeSession,
         PrepareTrack, Goto
<1>3. PlayOK'
  BY DEF Types, PlayOK, Labels, MaybeSession, PrepareTrack, Goto
<1>4. PlayInv'
  BY DEF Types, Inv, RuntimeOK, PlayOK, PlayInv, MaybeSession, Playbacks, Nobody,
         Labels, PrepareTrack, Goto, flagVars, holdVars
<1>5. CallInv'
  <2>1. pp[p] # "none" /\ \A q \in Playbacks : q # p => pp'[q] = pp[q]
    BY DEF Types, PlayOK, PrepareTrack, Goto
  <2>2. UNCHANGED <<created, sess, cp, mem, rel, new>>
    BY DEF PrepareTrack, Goto, flagVars, holdVars, sessionVars, callVars
  <2>. QED  BY <2>1, <2>2, PlaybackStepCalls DEF Inv
<1>6. TrackInv'
  BY DEF Types, Inv, RuntimeOK, QueueOK, PlayOK, TrackInv, MaybeSession, Playbacks,
         Nobody, QueueLen, InPlaylist, Modes, Labels, PrepareTrack, Goto, flagVars,
         holdVars
<1>7. ActiveRuns'
  BY MediaAssumption DEF Types, Inv, RuntimeOK, FlagsOK, PlayOK, CallOK, ActiveRuns,
                         TrackInv, MaybeSession, Playbacks, Nobody, Labels, Mems,
                         CallLabels, MaybePlayback, Modes, Over, QueueLen,
                         InPlaylist, PrepareTrack, Goto, flagVars, holdVars,
                         callVars
<1>8. StatusFits'
  BY DEF Types, Inv, RuntimeOK, FlagsOK, StatusFits, MaybeSession, Playbacks,
         Nobody, PrepareTrack, Goto, flagVars, holdVars
<1>9. HolderWillRelease'
  <2>1. \A q \in Playbacks : Running(q) => Running(q)'
    BY DEF Running, Over, Types, PlayOK, PrepareTrack, Goto, flagVars, holdVars,
           sessionVars, callVars
  <2>2. UNCHANGED <<exclusive, held>>
    BY DEF PrepareTrack, Goto, flagVars, holdVars, sessionVars, callVars
  <2>. QED  BY <2>1, <2>2, HolderStays DEF Inv
<1>10. AllOwned'
  <2>1. /\ \A q \in Playbacks : Begun(q)' <=> Begun(q)
        /\ \A q \in Playbacks : Begun(q) => out'[q] = out[q]
    BY DEF Types, PlayOK, Begun, PrepareTrack, Goto, flagVars, holdVars,
           sessionVars, callVars
  <2>2. UNCHANGED <<exclusive, rel, prel, failing, excl, sess>>
    BY DEF PrepareTrack, Goto, flagVars, holdVars, sessionVars, callVars
  <2>. QED  BY <2>1, <2>2, SameOwners DEF Inv
<1>11. FlagsOK' /\ SessionOK' /\ CallOK' /\ IndexInv' /\ CancelInv'
  BY DEF Types, Inv, FlagsOK, SessionOK, CallOK, IndexInv, CancelInv, Mems,
         CallLabels, MaybeSession, MaybePlayback, Modes, Nobody, PrepareTrack, Goto,
         flagVars, holdVars, sessionVars, callVars
<1>. QED  BY <1>1, <1>2, <1>3, <1>4, <1>5, <1>6, <1>7, <1>8, <1>9, <1>10, <1>11
          DEF Types, Inv

LEMMA ReadFrameInv ==
    ASSUME Types, Inv, NEW p \in Playbacks,
           ReadFrame(p)
    PROVE  Types' /\ Inv'
<1>1. PlayOK'
  BY DEF Types, PlayOK, Labels, MaybeSession, ReadFrame, Goto
<1>2. PlayInv'
  BY DEF Types, Inv, RuntimeOK, PlayOK, PlayInv, MaybeSession, Playbacks, Nobody,
         Labels, ReadFrame, Goto, runtimeVars, flagVars, holdVars
<1>3. CallInv'
  <2>1. pp[p] # "none" /\ \A q \in Playbacks : q # p => pp'[q] = pp[q]
    BY DEF Types, PlayOK, ReadFrame, Goto
  <2>2. UNCHANGED <<created, sess, cp, mem, rel, new>>
    BY DEF ReadFrame, Goto, runtimeVars, flagVars, holdVars, sessionVars, callVars
  <2>. QED  BY <2>1, <2>2, PlaybackStepCalls DEF Inv
<1>4. TrackInv'
  BY DEF Types, Inv, RuntimeOK, QueueOK, PlayOK, TrackInv, MaybeSession, Playbacks,
         Nobody, QueueLen, InPlaylist, Modes, Labels, ReadFrame, Goto, runtimeVars,
         queueVars, flagVars, holdVars
<1>5. ActiveRuns'
  BY MediaAssumption DEF Types, Inv, RuntimeOK, FlagsOK, PlayOK, CallOK, ActiveRuns,
                         MaybeSession, Playbacks, Nobody, Labels, Mems, CallLabels,
                         MaybePlayback, Modes, Over, ReadFrame, Goto, runtimeVars,
                         flagVars, holdVars, callVars
<1>6. HolderWillRelease'
  <2>1. \A q \in Playbacks : Running(q) => Running(q)'
    BY DEF Running, Over, Types, PlayOK, ReadFrame, Goto, runtimeVars, queueVars,
           flagVars, holdVars, sessionVars, callVars
  <2>2. UNCHANGED <<exclusive, held>>
    BY DEF ReadFrame, Goto, runtimeVars, queueVars, flagVars, holdVars, sessionVars,
           callVars
  <2>. QED  BY <2>1, <2>2, HolderStays DEF Inv
<1>7. AllOwned'
  <2>1. /\ \A q \in Playbacks : Begun(q)' <=> Begun(q)
        /\ \A q \in Playbacks : Begun(q) => out'[q] = out[q]
    BY DEF Types, PlayOK, Begun, ReadFrame, Goto, runtimeVars, queueVars, flagVars,
           holdVars, sessionVars, callVars
  <2>2. UNCHANGED <<exclusive, rel, prel, failing, excl, sess>>
    BY DEF ReadFrame, Goto, runtimeVars, queueVars, flagVars, holdVars, sessionVars,
           callVars
  <2>. QED  BY <2>1, <2>2, SameOwners DEF Inv
<1>8. /\ RuntimeOK' /\ QueueOK' /\ FlagsOK' /\ SessionOK' /\ CallOK' /\ IndexInv'
      /\ CancelInv' /\ StatusFits'
  BY DEF Types, Inv, RuntimeOK, QueueOK, FlagsOK, SessionOK, CallOK, IndexInv,
         CancelInv, StatusFits, MaybeSession, Playbacks, Nobody, QueueLen,
         InPlaylist, Modes, Mems, CallLabels, MaybePlayback, ReadFrame, Goto,
         runtimeVars, queueVars, flagVars, holdVars, sessionVars, callVars
<1>. QED  BY <1>1, <1>2, <1>3, <1>4, <1>5, <1>6, <1>7, <1>8 DEF Types, Inv

LEMMA WaitForAttachmentInv ==
    ASSUME Types, Inv, NEW p \in Playbacks,
           WaitForAttachment(p)
    PROVE  Types' /\ Inv'
<1>1. PlayOK'
  BY DEF Types, RuntimeOK, PlayOK, MaybeSession, Playbacks, Nobody, Labels,
         WaitForAttachment, Goto, runtimeVars, flagVars, holdVars
<1>2. PlayInv'
  <2>1. \A q \in Playbacks \ {p} : pp'[q] = pp[q] /\ out'[q] = out[q]
    BY DEF Types, PlayOK, WaitForAttachment, Goto
  <2>2. pp'[p] \in {"stopped", "read", "acquire"}
    BY DEF Types, PlayOK, WaitForAttachment, Goto
  <2>3. pp'[p] = "acquire" => out'[p] \in Sessions
    BY DEF Types, PlayOK, RuntimeOK, MaybeSession, WaitForAttachment, Goto
  <2>4. UNCHANGED <<created, prel>> /\ pp[p] = "attach"
    BY DEF WaitForAttachment, flagVars
  <2>. QED  BY <2>1, <2>2, <2>3, <2>4 DEF Inv, PlayInv
<1>3. CallInv'
  <2>1. pp[p] # "none" /\ \A q \in Playbacks : q # p => pp'[q] = pp[q]
    BY DEF Types, PlayOK, WaitForAttachment, Goto
  <2>2. UNCHANGED <<created, sess, cp, mem, rel, new>>
    BY DEF WaitForAttachment, Goto, runtimeVars, flagVars, holdVars, sessionVars,
           callVars
  <2>. QED  BY <2>1, <2>2, PlaybackStepCalls DEF Inv
<1>4. TrackInv'
  BY DEF Types, Inv, RuntimeOK, QueueOK, PlayOK, TrackInv, MaybeSession, Playbacks,
         Nobody, QueueLen, InPlaylist, Modes, Labels, WaitForAttachment, Goto,
         runtimeVars, queueVars, flagVars, holdVars
<1>5. ActiveRuns'
  BY MediaAssumption DEF Types, Inv, RuntimeOK, FlagsOK, PlayOK, CallOK, ActiveRuns,
                         MaybeSession, Playbacks, Nobody, Labels, Mems, CallLabels,
                         MaybePlayback, Modes, Over, WaitForAttachment, Goto,
                         runtimeVars, flagVars, holdVars, callVars
<1>6. HolderWillRelease'
  <2>1. \A q \in Playbacks : Running(q) => Running(q)'
    BY DEF Running, Over, Types, PlayOK, WaitForAttachment, Goto, runtimeVars,
           queueVars, flagVars, holdVars, sessionVars, callVars
  <2>2. UNCHANGED <<exclusive, held>>
    BY DEF WaitForAttachment, Goto, runtimeVars, queueVars, flagVars, holdVars,
           sessionVars, callVars
  <2>. QED  BY <2>1, <2>2, HolderStays DEF Inv
<1>7. AllOwned'
  <2>1. /\ \A q \in Playbacks : Begun(q)' <=> Begun(q)
        /\ \A q \in Playbacks : Begun(q) => out'[q] = out[q]
    BY DEF Types, PlayOK, Begun, WaitForAttachment, Goto, runtimeVars, queueVars,
           flagVars, holdVars, sessionVars, callVars
  <2>2. UNCHANGED <<exclusive, rel, prel, failing, excl, sess>>
    BY DEF WaitForAttachment, Goto, runtimeVars, queueVars, flagVars, holdVars,
           sessionVars, callVars
  <2>. QED  BY <2>1, <2>2, SameOwners DEF Inv
<1>8. /\ RuntimeOK' /\ QueueOK' /\ FlagsOK' /\ SessionOK' /\ CallOK' /\ IndexInv'
      /\ CancelInv' /\ StatusFits'
  BY DEF Types, Inv, RuntimeOK, QueueOK, FlagsOK, SessionOK, CallOK, IndexInv,
         CancelInv, StatusFits, MaybeSession, Playbacks, Nobody, QueueLen,
         InPlaylist, Modes, Mems, CallLabels, MaybePlayback, WaitForAttachment,
         Goto, runtimeVars, queueVars, flagVars, holdVars, sessionVars, callVars
<1>. QED  BY <1>1, <1>2, <1>3, <1>4, <1>5, <1>6, <1>7, <1>8 DEF Types, Inv

LEMMA BeginExclusiveInv ==
    ASSUME Types, Inv, NEW p \in Playbacks,
           BeginExclusive(p)
    PROVE  Types' /\ Inv'
<1>1. PlayOK'
  BY DEF Types, PlayOK, Labels, MaybeSession, BeginExclusive, Goto
<1>2. SessionOK'
  BY DEF Types, SessionOK, BeginExclusive, Goto, sessionVars
<1>3. PlayInv'
  BY DEF Types, Inv, RuntimeOK, PlayOK, PlayInv, MaybeSession, Playbacks, Nobody,
         Labels, BeginExclusive, Goto, runtimeVars, flagVars
<1>4. CallInv'
  <2>1. pp[p] # "none" /\ \A q \in Playbacks : q # p => pp'[q] = pp[q]
    BY DEF Types, PlayOK, BeginExclusive, Goto
  <2>2. UNCHANGED <<created, sess, cp, mem, rel, new>>
    BY DEF BeginExclusive, Goto, runtimeVars, flagVars, sessionVars, callVars
  <2>. QED  BY <2>1, <2>2, PlaybackStepCalls DEF Inv
<1>5. TrackInv'
  BY DEF Types, Inv, RuntimeOK, QueueOK, PlayOK, TrackInv, MaybeSession, Playbacks,
         Nobody, QueueLen, InPlaylist, Modes, Labels, BeginExclusive, Goto,
         runtimeVars, queueVars, flagVars
<1>6. ActiveRuns'
  BY MediaAssumption DEF Types, Inv, RuntimeOK, FlagsOK, PlayOK, CallOK, ActiveRuns,
                         MaybeSession, Playbacks, Nobody, Labels, Mems, CallLabels,
                         MaybePlayback, Modes, Over, BeginExclusive, Goto,
                         runtimeVars, flagVars, callVars
<1>7. HolderWillRelease'
  <2>1. \A q \in Playbacks : Running(q) => Running(q)'
    BY DEF Running, Over, Types, PlayOK, BeginExclusive, Goto, runtimeVars,
           queueVars, flagVars, sessionVars, callVars
  <2>2. UNCHANGED <<exclusive, held>>
    BY DEF BeginExclusive, Goto, runtimeVars, queueVars, flagVars, sessionVars,
           callVars
  <2>. QED  BY <2>1, <2>2, HolderStays DEF Inv
<1>8. AllOwned'
  <2>0. out[p] \in Sessions
    BY DEF Inv, PlayInv, BeginExclusive
  <2>1. CASE excl[out[p]]
    <3>1. \A q \in Playbacks : Begun(q)' <=> Begun(q)
      BY <2>1 DEF Begun, Types, PlayOK, BeginExclusive, Goto
    <3>2. UNCHANGED <<exclusive, rel, prel, failing, excl, sess, out>>
      BY <2>1 DEF BeginExclusive, Goto, runtimeVars, queueVars, flagVars,
                  sessionVars, callVars
    <3>. QED  BY <3>1, <3>2, SameOwners DEF Inv
  <2>2. CASE ~excl[out[p]]
    <3>0. /\ \A q \in Playbacks : Begun(q)' <=> Begun(q) \/ q = p
          /\ UNCHANGED <<exclusive, rel, prel, failing, sess, out>>
          /\ \A t \in Sessions : excl'[t] = IF t = out[p] THEN TRUE ELSE excl[t]
      BY <2>2 DEF Begun, Types, PlayOK, SessionOK, BeginExclusive, Goto,
                  runtimeVars, queueVars, flagVars, sessionVars, callVars
    <3>. SUFFICES ASSUME NEW t \in Sessions
                  PROVE  Owned(t)'
      BY DEF AllOwned
    <3>1. Owned(t)
      BY DEF Inv, AllOwned
    <3>2. CASE t = out[p]
      <4>1. Joins(t, "begun", p)
        BY <3>0, <3>2 DEF Joins, Holds, Begun
      <4>2. ~excl[t] /\ excl'[t] = TRUE
        BY <2>2, <3>0, <3>2
      <4>. QED  BY <3>1, <4>1, <4>2, OwnerComes
    <3>3. CASE t # out[p]
      <4>1. \A m, z : Holds(m, z, t)' <=> Holds(m, z, t)
        BY <3>0, <3>3 DEF Holds, Begun
      <4>2. excl'[t] = excl[t]
        BY <3>0, <3>3
      <4>. QED  BY <3>1, <4>1, <4>2, OwnerSame
    <3>. QED  BY <3>2, <3>3
  <2>. QED  BY <2>1, <2>2
<1>9. /\ RuntimeOK' /\ QueueOK' /\ FlagsOK' /\ CallOK' /\ IndexInv' /\ CancelInv'
      /\ StatusFits'
  BY DEF Types, Inv, RuntimeOK, QueueOK, FlagsOK, CallOK, IndexInv, CancelInv,
         StatusFits, MaybeSession, Playbacks, Nobody, QueueLen, InPlaylist, Modes,
         Mems, CallLabels, MaybePlayback, BeginExclusive, Goto, runtimeVars,
         queueVars, flagVars, callVars
<1>. QED  BY <1>1, <1>2, <1>3, <1>4, <1>5, <1>6, <1>7, <1>8, <1>9 DEF Types, Inv

LEMMA BeginGivesUpInv ==
    ASSUME Types, Inv, NEW p \in Playbacks,
           BeginGivesUp(p)
    PROVE  Types' /\ Inv'
<1>1. PlayOK'
  BY DEF Types, PlayOK, Labels, MaybeSession, BeginGivesUp, Goto
<1>2. PlayInv'
  BY DEF Types, Inv, RuntimeOK, PlayOK, PlayInv, MaybeSession, Playbacks, Nobody,
         Labels, BeginGivesUp, Goto, runtimeVars, flagVars, holdVars
<1>3. CallInv'
  <2>1. pp[p] # "none" /\ \A q \in Playbacks : q # p => pp'[q] = pp[q]
    BY DEF Types, PlayOK, BeginGivesUp, Goto
  <2>2. UNCHANGED <<created, sess, cp, mem, rel, new>>
    BY DEF BeginGivesUp, Goto, runtimeVars, flagVars, holdVars, sessionVars, callVars
  <2>. QED  BY <2>1, <2>2, PlaybackStepCalls DEF Inv
<1>4. TrackInv'
  BY DEF Types, Inv, RuntimeOK, QueueOK, PlayOK, TrackInv, MaybeSession, Playbacks,
         Nobody, QueueLen, InPlaylist, Modes, Labels, BeginGivesUp, Goto,
         runtimeVars, queueVars, flagVars, holdVars
<1>5. ActiveRuns'
  BY DEF Types, Inv, RuntimeOK, FlagsOK, PlayOK, CallOK, ActiveRuns, MaybeSession,
         Playbacks, Nobody, Labels, Mems, CallLabels, MaybePlayback, Modes, Over,
         BeginGivesUp, Goto, runtimeVars, flagVars, holdVars, callVars
<1>6. HolderWillRelease'
  <2>1. \A q \in Playbacks : Running(q) => Running(q)'
    BY DEF Running, Over, Types, PlayOK, BeginGivesUp, Goto, runtimeVars, queueVars,
           flagVars, holdVars, sessionVars, callVars
  <2>2. UNCHANGED <<exclusive, held>>
    BY DEF BeginGivesUp, Goto, runtimeVars, queueVars, flagVars, holdVars,
           sessionVars, callVars
  <2>. QED  BY <2>1, <2>2, HolderStays DEF Inv
<1>7. AllOwned'
  <2>1. /\ \A q \in Playbacks : Begun(q)' <=> Begun(q)
        /\ \A q \in Playbacks : Begun(q) => out'[q] = out[q]
    BY DEF Types, PlayOK, Begun, BeginGivesUp, Goto, runtimeVars, queueVars,
           flagVars, holdVars, sessionVars, callVars
  <2>2. UNCHANGED <<exclusive, rel, prel, failing, excl, sess>>
    BY DEF BeginGivesUp, Goto, runtimeVars, queueVars, flagVars, holdVars,
           sessionVars, callVars
  <2>. QED  BY <2>1, <2>2, SameOwners DEF Inv
<1>8. /\ RuntimeOK' /\ QueueOK' /\ FlagsOK' /\ SessionOK' /\ CallOK' /\ IndexInv'
      /\ CancelInv' /\ StatusFits'
  BY DEF Types, Inv, RuntimeOK, QueueOK, FlagsOK, SessionOK, CallOK, IndexInv,
         CancelInv, StatusFits, MaybeSession, Playbacks, Nobody, QueueLen,
         InPlaylist, Modes, Mems, CallLabels, MaybePlayback, BeginGivesUp, Goto,
         runtimeVars, queueVars, flagVars, holdVars, sessionVars, callVars
<1>. QED  BY <1>1, <1>2, <1>3, <1>4, <1>5, <1>6, <1>7, <1>8 DEF Types, Inv

LEMMA ConfirmExclusiveInv ==
    ASSUME Types, Inv, NEW p \in Playbacks,
           ConfirmExclusive(p)
    PROVE  Types' /\ Inv'
<1>1. RuntimeOK'
  BY DEF Types, RuntimeOK, MaybeSession, Playbacks, Nobody, ConfirmExclusive, Goto,
         Current, runtimeVars, flagVars
<1>2. FlagsOK'
  BY DEF Types, FlagsOK, ConfirmExclusive, Goto, Current, flagVars
<1>3. PlayOK'
  <2>1. pp' \in [Playbacks -> Labels]
    BY DEF Types, PlayOK, Labels, ConfirmExclusive, Goto
  <2>2. CASE Current(p, out[p])
    BY <2>1, <2>2 DEF Types, PlayOK, RuntimeOK, MaybeSession, ConfirmExclusive,
                      Goto, Current, runtimeVars, queueVars, flagVars, sessionVars,
                      callVars
  <2>3. CASE ~Current(p, out[p])
    BY <2>1, <2>3 DEF Types, PlayOK, ConfirmExclusive, Goto, Current, runtimeVars,
                      queueVars, flagVars, sessionVars, callVars
  <2>. QED  BY <2>2, <2>3
<1>4. PlayInv'
  BY MediaAssumption DEF Types, Inv, RuntimeOK, PlayOK, PlayInv, MaybeSession,
                         Playbacks, Nobody, Labels, ConfirmExclusive, Goto, Current,
                         runtimeVars, flagVars
<1>5. CallInv'
  <2>1. pp[p] # "none" /\ \A q \in Playbacks : q # p => pp'[q] = pp[q]
    BY DEF Types, PlayOK, ConfirmExclusive, Goto, Current
  <2>2. UNCHANGED <<created, sess, cp, mem, rel, new>>
    BY DEF ConfirmExclusive, Goto, Current, runtimeVars, flagVars, sessionVars, callVars
  <2>. QED  BY <2>1, <2>2, PlaybackStepCalls DEF Inv
<1>6. TrackInv'
  BY DEF Types, Inv, RuntimeOK, QueueOK, PlayOK, TrackInv, MaybeSession, Playbacks,
         Nobody, QueueLen, InPlaylist, Modes, Labels, ConfirmExclusive, Goto,
         Current, runtimeVars, queueVars, flagVars
<1>7. ActiveRuns'
  BY MediaAssumption DEF Types, Inv, RuntimeOK, FlagsOK, PlayOK, CallOK, ActiveRuns,
                         MaybeSession, Playbacks, Nobody, Labels, Mems, CallLabels,
                         MaybePlayback, Modes, Over, ConfirmExclusive, Goto,
                         Current, runtimeVars, flagVars, callVars
<1>8. HolderWillRelease'
  <2>1. CASE Current(p, out[p])
    <3>1. held'[p] /\ Running(p)'
      BY <2>1 DEF Running, Over, Types, PlayOK, FlagsOK, ConfirmExclusive, Goto,
                  Current, runtimeVars, queueVars, flagVars, sessionVars, callVars
    <3>. QED  BY <3>1 DEF HolderWillRelease, Running
  <2>2. CASE ~Current(p, out[p])
    <3>1. \A q \in Playbacks : Running(q) => Running(q)'
      BY <2>2 DEF Running, Over, Types, PlayOK, ConfirmExclusive, Goto
    <3>2. UNCHANGED <<exclusive, held>>
      BY <2>2 DEF ConfirmExclusive
    <3>. QED  BY <3>1, <3>2, HolderStays DEF Inv
  <2>. QED  BY <2>1, <2>2
<1>9. AllOwned'
  <2>0. /\ UNCHANGED <<rel, failing, sess, excl>>
        /\ out[p] \in Sessions /\ prel[p] = None /\ Begun(p)
    BY DEF Begun, Inv, PlayInv, ConfirmExclusive, Goto, Current, runtimeVars,
           queueVars, flagVars, sessionVars, callVars
  <2>1. CASE ~Current(p, out[p])
    <3>1. \A q \in Playbacks : Begun(q)' <=> Begun(q)
      BY <2>1 DEF Begun, Types, PlayOK, ConfirmExclusive, Goto
    <3>2. UNCHANGED <<exclusive, prel, out>>
      BY <2>1 DEF ConfirmExclusive
    <3>. QED  BY <2>0, <3>1, <3>2, SameOwners DEF Inv
  <2>2. CASE Current(p, out[p])
    <3>0. /\ exclusive' = out[p]
          /\ \A q \in Playbacks : Begun(q)' <=> Begun(q) /\ q # p
          /\ \A q \in Playbacks \ {p} : out'[q] = out[q]
      BY <2>2 DEF Begun, Types, PlayOK, ConfirmExclusive, Goto
    <3>1. exclusive # out[p]
      <4>1. Holds("begun", p, out[p])
        BY <2>0 DEF Holds, Begun
      <4>2. exclusive = out[p] => Holds("runtime", 0, out[p])
        BY DEF Holds
      <4>. QED  BY <2>0, <4>1, <4>2 DEF Inv, AllOwned, Owned
    <3>2. \A q \in Playbacks : prel'[q] = IF q = p THEN exclusive ELSE prel[q]
      BY <2>0, <2>2, <3>1 DEF Types, PlayOK, ConfirmExclusive
    <3>. SUFFICES ASSUME NEW t \in Sessions
                  PROVE  Owned(t)'
      BY DEF AllOwned
    <3>3. Owned(t) /\ t # None /\ excl'[t] = excl[t]
      BY <2>0, MediaAssumption DEF Inv, AllOwned
    <3>4. CASE t = out[p]
      <4>1. Holds("begun", p, t)
        BY <2>0, <3>4 DEF Holds, Begun
      <4>2. Passes(t, "begun", p, "runtime", 0)
        BY <2>0, <3>0, <3>1, <3>2, <3>3, <3>4 DEF Passes, Holds, Begun
      <4>. QED  BY <3>3, <4>1, <4>2, OwnerChanges
    <3>5. CASE t # out[p] /\ t = exclusive
      <4>1. Holds("runtime", 0, t)
        BY <3>5 DEF Holds
      <4>2. Passes(t, "runtime", 0, "playback", p)
        BY <2>0, <3>0, <3>2, <3>3, <3>5 DEF Passes, Holds, Begun
      <4>. QED  BY <3>3, <4>1, <4>2, OwnerChanges
    <3>6. CASE t # out[p] /\ t # exclusive
      <4>1. \A m, z : Holds(m, z, t)' <=> Holds(m, z, t)
        BY <2>0, <3>0, <3>2, <3>3, <3>6 DEF Holds, Begun
      <4>. QED  BY <3>3, <4>1, OwnerSame
    <3>. QED  BY <3>4, <3>5, <3>6
  <2>. QED  BY <2>1, <2>2
<1>10. QueueOK' /\ SessionOK' /\ CallOK' /\ IndexInv' /\ CancelInv' /\ StatusFits'
  BY DEF Types, Inv, QueueOK, SessionOK, CallOK, IndexInv, CancelInv, StatusFits,
         QueueLen, InPlaylist, Modes, Mems, CallLabels, MaybeSession, MaybePlayback,
         Nobody, ConfirmExclusive, Goto, Current, runtimeVars, queueVars, flagVars,
         sessionVars, callVars
<1>. QED  BY <1>1, <1>2, <1>3, <1>4, <1>5, <1>6, <1>7, <1>8, <1>9, <1>10
          DEF Types, Inv

LEMMA UndoExclusiveInv ==
    ASSUME Types, Inv, NEW p \in Playbacks,
           UndoExclusive(p)
    PROVE  Types' /\ Inv'
<1>1. PlayOK'
  BY DEF Types, PlayOK, Labels, MaybeSession, UndoExclusive, Goto, Ended
<1>2. SessionOK'
  BY DEF Types, SessionOK, UndoExclusive, Goto, Ended, sessionVars
<1>3. PlayInv'
  BY DEF Types, Inv, RuntimeOK, PlayOK, PlayInv, MaybeSession, Playbacks, Nobody,
         Labels, UndoExclusive, Goto, Ended, runtimeVars, flagVars
<1>4. CallInv'
  <2>1. pp[p] # "none" /\ \A q \in Playbacks : q # p => pp'[q] = pp[q]
    BY DEF Types, PlayOK, UndoExclusive, Goto, Ended
  <2>2. UNCHANGED <<created, sess, cp, mem, rel, new>>
    BY DEF UndoExclusive, Goto, Ended, runtimeVars, flagVars, sessionVars, callVars
  <2>. QED  BY <2>1, <2>2, PlaybackStepCalls DEF Inv
<1>5. TrackInv'
  BY DEF Types, Inv, RuntimeOK, QueueOK, PlayOK, TrackInv, MaybeSession, Playbacks,
         Nobody, QueueLen, InPlaylist, Modes, Labels, UndoExclusive, Goto, Ended,
         runtimeVars, queueVars, flagVars
<1>6. ActiveRuns'
  BY DEF Types, Inv, RuntimeOK, FlagsOK, PlayOK, CallOK, ActiveRuns, MaybeSession,
         Playbacks, Nobody, Labels, Mems, CallLabels, MaybePlayback, Modes, Over,
         UndoExclusive, Goto, Ended, runtimeVars, flagVars, callVars
<1>7. HolderWillRelease'
  <2>1. \A q \in Playbacks : Running(q) => Running(q)'
    BY DEF Running, Over, Types, PlayOK, UndoExclusive, Goto, Ended, runtimeVars,
           queueVars, flagVars, sessionVars, callVars
  <2>2. UNCHANGED <<exclusive, held>>
    BY DEF UndoExclusive, Goto, Ended, runtimeVars, queueVars, flagVars,
           sessionVars, callVars
  <2>. QED  BY <2>1, <2>2, HolderStays DEF Inv
<1>8. AllOwned'
  <2>0. PICK s \in Sessions : s = out[p]
    BY DEF Inv, PlayInv, UndoExclusive
  <2>1. Holds("begun", p, s)
    BY <2>0 DEF Holds, UndoExclusive
  <2>2. /\ \A q \in Playbacks : Begun(q)' <=> Begun(q) /\ q # p
        /\ \A q \in Playbacks \ {p} : out'[q] = out[q]
        /\ excl' = Ended(s) /\ UNCHANGED <<exclusive, rel, prel, failing, sess>>
    BY <2>0 DEF Begun, Types, PlayOK, UndoExclusive, Goto, runtimeVars, callVars,
                sessionVars
  <2>3. \A m, z : Holds(m, z, s)' => Holds(m, z, s) /\ ~(m = "begun" /\ z = p)
    BY <2>2 DEF Holds, Begun
  <2>4. \A t \in Sessions \ {s} : \A m, z : Holds(m, z, t)' <=> Holds(m, z, t)
    BY <2>0, <2>2 DEF Holds, Begun
  <2>. QED  BY <2>1, <2>2, <2>3, <2>4, HolderEnds DEF Types, Inv
<1>9. /\ RuntimeOK' /\ QueueOK' /\ FlagsOK' /\ CallOK' /\ IndexInv' /\ CancelInv'
      /\ StatusFits'
  BY DEF Types, Inv, RuntimeOK, QueueOK, FlagsOK, CallOK, IndexInv, CancelInv,
         StatusFits, MaybeSession, Playbacks, Nobody, QueueLen, InPlaylist, Modes,
         Mems, CallLabels, MaybePlayback, UndoExclusive, Goto, Ended, runtimeVars,
         queueVars, flagVars, callVars
<1>. QED  BY <1>1, <1>2, <1>3, <1>4, <1>5, <1>6, <1>7, <1>8, <1>9 DEF Types, Inv

LEMMA BeginFailsInv ==
    ASSUME Types, Inv, NEW p \in Playbacks,
           BeginFails(p)
    PROVE  Types' /\ Inv'
<1>1. RuntimeOK'
  BY DEF Types, RuntimeOK, MaybeSession, Playbacks, Nobody, BeginFails, Goto,
         Current, HandleAttachmentFailure, Unhold, AwaitAttachment
<1>2. FlagsOK'
  BY DEF Types, FlagsOK, BeginFails, Goto, Current, HandleAttachmentFailure, Unhold,
         AwaitAttachment
<1>3. PlayOK'
  BY DEF Types, PlayOK, Labels, MaybeSession, BeginFails, Goto, Current,
         HandleAttachmentFailure, Unhold, AwaitAttachment
<1>4. PlayInv'
  BY DEF Types, Inv, RuntimeOK, PlayOK, PlayInv, MaybeSession, Playbacks, Nobody,
         Labels, BeginFails, Goto, Current, HandleAttachmentFailure, Unhold,
         AwaitAttachment
<1>5. CallInv'
  <2>1. pp[p] # "none" /\ \A q \in Playbacks : q # p => pp'[q] = pp[q]
    BY DEF Types, PlayOK, BeginFails, Goto, Current, HandleAttachmentFailure, Unhold,
           AwaitAttachment
  <2>2. UNCHANGED <<created, sess, cp, mem, rel, new>>
    BY DEF BeginFails, Goto, Current, HandleAttachmentFailure, Unhold, AwaitAttachment,
           sessionVars, callVars, flagVars
  <2>. QED  BY <2>1, <2>2, PlaybackStepCalls DEF Inv
<1>6. TrackInv'
  BY DEF Types, Inv, RuntimeOK, QueueOK, PlayOK, TrackInv, MaybeSession, Playbacks,
         Nobody, QueueLen, InPlaylist, Modes, Labels, BeginFails, Goto, Current,
         HandleAttachmentFailure, Unhold, AwaitAttachment, queueVars
<1>7. ActiveRuns'
  BY MediaAssumption DEF Types, Inv, RuntimeOK, FlagsOK, PlayOK, CallOK, ActiveRuns,
                         MaybeSession, Playbacks, Nobody, Labels, Mems, CallLabels,
                         MaybePlayback, Modes, Over, BeginFails, Goto, Current,
                         HandleAttachmentFailure, Unhold, AwaitAttachment, callVars
<1>8. StatusFits'
  BY DEF Types, Inv, RuntimeOK, FlagsOK, StatusFits, MaybeSession, Playbacks,
         Nobody, BeginFails, Goto, Current, HandleAttachmentFailure, Unhold,
         AwaitAttachment
<1>9. HolderWillRelease'
  BY DEF Types, Inv, RuntimeOK, FlagsOK, PlayOK, HolderWillRelease, MaybeSession,
         Playbacks, Nobody, Labels, Over, BeginFails, Goto, Current,
         HandleAttachmentFailure, Unhold, AwaitAttachment
<1>10. AllOwned'
  <2>1. /\ \A q \in Playbacks : Begun(q)' <=> Begun(q)
        /\ \A q \in Playbacks : Begun(q) => out'[q] = out[q]
        /\ UNCHANGED <<rel, failing, sess, excl>>
    BY DEF Types, PlayOK, Begun, BeginFails, Goto, Current, HandleAttachmentFailure,
           Unhold, AwaitAttachment, queueVars, sessionVars, callVars
  <2>2. CASE Current(p, out[p]) /\ exclusive = out[p]
    <3>1. prel[p] = None
      BY DEF Inv, PlayInv, BeginFails
    <3>2. prel' = [prel EXCEPT ![p] = exclusive] /\ exclusive' = None
      BY <2>2 DEF BeginFails, HandleAttachmentFailure, Unhold
    <3>. QED  BY <2>1, <3>1, <3>2, PlaybackTakes, MediaAssumption DEF Types, Inv
  <2>3. CASE ~(Current(p, out[p]) /\ exclusive = out[p])
    <3>1. UNCHANGED <<prel, exclusive>>
      BY <2>3 DEF BeginFails, HandleAttachmentFailure, Unhold
    <3>. QED  BY <2>1, <3>1, SameOwners DEF Inv
  <2>. QED  BY <2>2, <2>3
<1>11. QueueOK' /\ SessionOK' /\ CallOK' /\ IndexInv' /\ CancelInv'
  BY DEF Types, Inv, QueueOK, SessionOK, CallOK, IndexInv, CancelInv, QueueLen,
         InPlaylist, Modes, Mems, CallLabels, MaybeSession, MaybePlayback, Nobody,
         BeginFails, Goto, Current, HandleAttachmentFailure, Unhold,
         AwaitAttachment, queueVars, sessionVars, callVars
<1>. QED  BY <1>1, <1>2, <1>3, <1>4, <1>5, <1>6, <1>7, <1>8, <1>9, <1>10, <1>11
          DEF Types, Inv

LEMMA SentenceEndInv ==
    ASSUME Types, Inv, NEW p \in Playbacks,
           SentenceEnd(p)
    PROVE  Types' /\ Inv'
<1>1. PlayOK'
  BY DEF Types, RuntimeOK, PlayOK, MaybeSession, Playbacks, Nobody, Labels,
         SentenceEnd, Goto, runtimeVars, flagVars, holdVars
<1>2. PlayInv'
  BY DEF Types, Inv, RuntimeOK, PlayOK, PlayInv, MaybeSession, Playbacks, Nobody,
         Labels, SentenceEnd, Goto, runtimeVars, flagVars, holdVars
<1>3. CallInv'
  <2>1. pp[p] # "none" /\ \A q \in Playbacks : q # p => pp'[q] = pp[q]
    BY DEF Types, PlayOK, SentenceEnd, Goto
  <2>2. UNCHANGED <<created, sess, cp, mem, rel, new>>
    BY DEF SentenceEnd, Goto, runtimeVars, flagVars, holdVars, sessionVars, callVars
  <2>. QED  BY <2>1, <2>2, PlaybackStepCalls DEF Inv
<1>4. TrackInv'
  BY DEF Types, Inv, RuntimeOK, QueueOK, PlayOK, TrackInv, MaybeSession, Playbacks,
         Nobody, QueueLen, InPlaylist, Modes, Labels, SentenceEnd, Goto,
         runtimeVars, queueVars, flagVars, holdVars
<1>5. ActiveRuns'
  BY MediaAssumption DEF Types, Inv, RuntimeOK, FlagsOK, PlayOK, CallOK, ActiveRuns,
                         MaybeSession, Playbacks, Nobody, Labels, Mems, CallLabels,
                         MaybePlayback, Modes, Over, SentenceEnd, Goto, runtimeVars,
                         flagVars, holdVars, callVars
<1>6. HolderWillRelease'
  <2>1. \A q \in Playbacks : Running(q) => Running(q)'
    BY DEF Running, Over, Types, PlayOK, SentenceEnd, Goto, runtimeVars, queueVars,
           flagVars, holdVars, sessionVars, callVars
  <2>2. UNCHANGED <<exclusive, held>>
    BY DEF SentenceEnd, Goto, runtimeVars, queueVars, flagVars, holdVars,
           sessionVars, callVars
  <2>. QED  BY <2>1, <2>2, HolderStays DEF Inv
<1>7. AllOwned'
  <2>1. /\ \A q \in Playbacks : Begun(q)' <=> Begun(q)
        /\ \A q \in Playbacks : Begun(q) => out'[q] = out[q]
    BY DEF Types, PlayOK, Begun, SentenceEnd, Goto, runtimeVars, queueVars,
           flagVars, holdVars, sessionVars, callVars
  <2>2. UNCHANGED <<exclusive, rel, prel, failing, excl, sess>>
    BY DEF SentenceEnd, Goto, runtimeVars, queueVars, flagVars, holdVars,
           sessionVars, callVars
  <2>. QED  BY <2>1, <2>2, SameOwners DEF Inv
<1>8. /\ RuntimeOK' /\ QueueOK' /\ FlagsOK' /\ SessionOK' /\ CallOK' /\ IndexInv'
      /\ CancelInv' /\ StatusFits'
  BY DEF Types, Inv, RuntimeOK, QueueOK, FlagsOK, SessionOK, CallOK, IndexInv,
         CancelInv, StatusFits, MaybeSession, Playbacks, Nobody, QueueLen,
         InPlaylist, Modes, Mems, CallLabels, MaybePlayback, SentenceEnd, Goto,
         runtimeVars, queueVars, flagVars, holdVars, sessionVars, callVars
<1>. QED  BY <1>1, <1>2, <1>3, <1>4, <1>5, <1>6, <1>7, <1>8 DEF Types, Inv

LEMMA SentenceEndedInv ==
    ASSUME Types, Inv, NEW p \in Playbacks,
           SentenceEnded(p)
    PROVE  Types' /\ Inv'
<1>1. PlayOK'
  BY DEF Types, PlayOK, Labels, MaybeSession, SentenceEnded, Goto, Current
<1>2. PlayInv'
  BY DEF Types, Inv, RuntimeOK, PlayOK, PlayInv, MaybeSession, Playbacks, Nobody,
         Labels, SentenceEnded, Goto, Current, runtimeVars, flagVars, holdVars
<1>3. CallInv'
  <2>1. pp[p] # "none" /\ \A q \in Playbacks : q # p => pp'[q] = pp[q]
    BY DEF Types, PlayOK, SentenceEnded, Goto, Current
  <2>2. UNCHANGED <<created, sess, cp, mem, rel, new>>
    BY DEF SentenceEnded, Goto, Current, runtimeVars, flagVars, holdVars, sessionVars,
           callVars
  <2>. QED  BY <2>1, <2>2, PlaybackStepCalls DEF Inv
<1>4. TrackInv'
  BY DEF Types, Inv, RuntimeOK, QueueOK, PlayOK, TrackInv, MaybeSession, Playbacks,
         Nobody, QueueLen, InPlaylist, Modes, Labels, SentenceEnded, Goto, Current,
         runtimeVars, queueVars, flagVars, holdVars
<1>5. ActiveRuns'
  BY MediaAssumption DEF Types, Inv, RuntimeOK, FlagsOK, PlayOK, CallOK, ActiveRuns,
                         MaybeSession, Playbacks, Nobody, Labels, Mems, CallLabels,
                         MaybePlayback, Modes, Over, SentenceEnded, Goto, Current,
                         runtimeVars, flagVars, holdVars, callVars
<1>6. HolderWillRelease'
  <2>1. \A q \in Playbacks : Running(q) => Running(q)'
    BY DEF Running, Over, Types, PlayOK, SentenceEnded, Goto, Current, runtimeVars,
           queueVars, flagVars, holdVars, sessionVars, callVars
  <2>2. UNCHANGED <<exclusive, held>>
    BY DEF SentenceEnded, Goto, Current, runtimeVars, queueVars, flagVars, holdVars,
           sessionVars, callVars
  <2>. QED  BY <2>1, <2>2, HolderStays DEF Inv
<1>7. AllOwned'
  <2>1. /\ \A q \in Playbacks : Begun(q)' <=> Begun(q)
        /\ \A q \in Playbacks : Begun(q) => out'[q] = out[q]
    BY DEF Types, PlayOK, Begun, SentenceEnded, Goto, Current, runtimeVars,
           queueVars, flagVars, holdVars, sessionVars, callVars
  <2>2. UNCHANGED <<exclusive, rel, prel, failing, excl, sess>>
    BY DEF SentenceEnded, Goto, Current, runtimeVars, queueVars, flagVars, holdVars,
           sessionVars, callVars
  <2>. QED  BY <2>1, <2>2, SameOwners DEF Inv
<1>8. /\ RuntimeOK' /\ QueueOK' /\ FlagsOK' /\ SessionOK' /\ CallOK' /\ IndexInv'
      /\ CancelInv' /\ StatusFits'
  BY DEF Types, Inv, RuntimeOK, QueueOK, FlagsOK, SessionOK, CallOK, IndexInv,
         CancelInv, StatusFits, MaybeSession, Playbacks, Nobody, QueueLen,
         InPlaylist, Modes, Mems, CallLabels, MaybePlayback, SentenceEnded, Goto,
         Current, runtimeVars, queueVars, flagVars, holdVars, sessionVars, callVars
<1>. QED  BY <1>1, <1>2, <1>3, <1>4, <1>5, <1>6, <1>7, <1>8 DEF Types, Inv

LEMMA AdvanceAfterTrackInv ==
    ASSUME Types, Inv, NEW p \in Playbacks,
           AdvanceAfterTrack(p)
    PROVE  Types' /\ Inv'
<1>1. RuntimeOK'
  <2>1. UNCHANGED <<created, attachment, exclusive>>
    BY DEF AdvanceAfterTrack, flagVars, holdVars
  <2>2. \/ UNCHANGED <<active, status, pauseReason, resumeOnAttach>>
        \/ Ends("stopped")
        \/ UNCHANGED <<active, pauseReason, resumeOnAttach>> /\ status' = "playing"
    BY DEF AdvanceAfterTrack, runtimeVars
  <2>3. CASE Ends("stopped")
    BY <2>1, <2>3, RuntimeEnds, MediaAssumption DEF Types
  <2>. QED  BY <2>1, <2>2, <2>3 DEF Types, RuntimeOK
<1>2. QueueOK'
  BY DEF Types, QueueOK, QueueLen, InPlaylist, Modes, AdvanceAfterTrack, Goto, Ends
<1>3. PlayOK'
  BY DEF Types, QueueOK, PlayOK, QueueLen, InPlaylist, Modes, Labels, MaybeSession,
         AdvanceAfterTrack, Goto, Ends
<1>4. PlayInv'
  BY DEF Types, Inv, RuntimeOK, PlayOK, PlayInv, MaybeSession, Playbacks, Nobody,
         Labels, AdvanceAfterTrack, Goto, Ends, runtimeVars, flagVars, holdVars
<1>5. CallInv'
  <2>1. pp[p] # "none" /\ \A q \in Playbacks : q # p => pp'[q] = pp[q]
    BY DEF Types, PlayOK, AdvanceAfterTrack, Goto, Ends
  <2>2. UNCHANGED <<created, sess, cp, mem, rel, new>>
    BY DEF AdvanceAfterTrack, Goto, Ends, runtimeVars, flagVars, holdVars, sessionVars,
           callVars
  <2>. QED  BY <2>1, <2>2, PlaybackStepCalls DEF Inv
<1>6. CancelInv'
  BY DEF Types, Inv, RuntimeOK, FlagsOK, CallOK, CancelInv, MaybeSession, Playbacks,
         Nobody, Mems, CallLabels, MaybePlayback, Modes, AdvanceAfterTrack, Goto,
         Ends, runtimeVars, flagVars, holdVars, callVars
<1>7. TrackInv'
  BY MediaAssumption DEF Types, Inv, RuntimeOK, QueueOK, PlayOK, TrackInv,
                         MaybeSession, Playbacks, Nobody, QueueLen, InPlaylist,
                         Modes, Labels, AdvanceAfterTrack, Goto, Ends, runtimeVars,
                         flagVars, holdVars
<1>8. ActiveRuns'
  BY MediaAssumption DEF Types, Inv, RuntimeOK, FlagsOK, PlayOK, CallOK, ActiveRuns,
                         MaybeSession, Playbacks, Nobody, Labels, Mems, CallLabels,
                         MaybePlayback, Modes, Over, AdvanceAfterTrack, Goto, Ends,
                         runtimeVars, flagVars, holdVars, callVars
<1>9. StatusFits'
  BY DEF Types, Inv, RuntimeOK, FlagsOK, StatusFits, MaybeSession, Playbacks,
         Nobody, AdvanceAfterTrack, Goto, Ends, runtimeVars, flagVars, holdVars
<1>10. HolderWillRelease'
  <2>1. \A q \in Playbacks : Running(q) => Running(q)'
    BY DEF Running, Over, Types, PlayOK, AdvanceAfterTrack, Goto, Ends, runtimeVars,
           flagVars, holdVars, sessionVars, callVars
  <2>2. UNCHANGED <<exclusive, held>>
    BY DEF AdvanceAfterTrack, Goto, Ends, runtimeVars, flagVars, holdVars,
           sessionVars, callVars
  <2>. QED  BY <2>1, <2>2, HolderStays DEF Inv
<1>11. AllOwned'
  <2>1. /\ \A q \in Playbacks : Begun(q)' <=> Begun(q)
        /\ \A q \in Playbacks : Begun(q) => out'[q] = out[q]
    BY DEF Types, PlayOK, Begun, AdvanceAfterTrack, Goto, Ends, runtimeVars,
           flagVars, holdVars, sessionVars, callVars
  <2>2. UNCHANGED <<exclusive, rel, prel, failing, excl, sess>>
    BY DEF AdvanceAfterTrack, Goto, Ends, runtimeVars, flagVars, holdVars,
           sessionVars, callVars
  <2>. QED  BY <2>1, <2>2, SameOwners DEF Inv
<1>12. FlagsOK' /\ SessionOK' /\ CallOK' /\ IndexInv'
  BY DEF Types, Inv, FlagsOK, SessionOK, CallOK, IndexInv, Mems, CallLabels,
         MaybeSession, MaybePlayback, Modes, Nobody, AdvanceAfterTrack, Goto, Ends,
         flagVars, holdVars, sessionVars, callVars
<1>. QED  BY <1>1, <1>2, <1>3, <1>4, <1>5, <1>6, <1>7, <1>8, <1>9, <1>10, <1>11, <1>12
          DEF Types, Inv

LEMMA MarkPlaybackInv ==
    ASSUME Types, Inv, NEW p \in Playbacks,
           MarkPlayback(p)
    PROVE  Types' /\ Inv'
<1>1. RuntimeOK'
  <2>1. CASE active = p
    <3>1. Ends("stopped") \/ Ends("error")
      BY <2>1 DEF MarkPlayback
    <3>2. UNCHANGED <<created, attachment, exclusive>>
      BY DEF MarkPlayback, flagVars, holdVars
    <3>. QED  BY <3>1, <3>2, RuntimeEnds, MediaAssumption DEF Types
  <2>2. CASE active # p
    BY <2>2 DEF Types, RuntimeOK, MarkPlayback, Goto, Ends, runtimeVars, queueVars,
                flagVars, holdVars, sessionVars, callVars
  <2>. QED  BY <2>1, <2>2
<1>2. PlayOK'
  BY DEF Types, PlayOK, Labels, MaybeSession, MarkPlayback, Goto, Ends
<1>3. PlayInv'
  BY DEF Types, Inv, RuntimeOK, PlayOK, PlayInv, MaybeSession, Playbacks, Nobody,
         Labels, MarkPlayback, Goto, Ends, runtimeVars, flagVars, holdVars
<1>4. CallInv'
  <2>1. pp[p] # "none" /\ \A q \in Playbacks : q # p => pp'[q] = pp[q]
    BY DEF Types, PlayOK, MarkPlayback, Goto, Ends
  <2>2. UNCHANGED <<created, sess, cp, mem, rel, new>>
    BY DEF MarkPlayback, Goto, Ends, runtimeVars, flagVars, holdVars, sessionVars,
           callVars
  <2>. QED  BY <2>1, <2>2, PlaybackStepCalls DEF Inv
<1>5. CancelInv'
  BY DEF Types, Inv, RuntimeOK, FlagsOK, CallOK, CancelInv, MaybeSession, Playbacks,
         Nobody, Mems, CallLabels, MaybePlayback, Modes, MarkPlayback, Goto, Ends,
         runtimeVars, flagVars, holdVars, callVars
<1>6. TrackInv'
  BY DEF Types, Inv, RuntimeOK, QueueOK, PlayOK, TrackInv, MaybeSession, Playbacks,
         Nobody, QueueLen, InPlaylist, Modes, Labels, MarkPlayback, Goto, Ends,
         runtimeVars, queueVars, flagVars, holdVars
<1>7. ActiveRuns'
  BY DEF Types, Inv, RuntimeOK, FlagsOK, PlayOK, CallOK, ActiveRuns, MaybeSession,
         Playbacks, Nobody, Labels, Mems, CallLabels, MaybePlayback, Modes, Over,
         MarkPlayback, Goto, Ends, runtimeVars, flagVars, holdVars, callVars
<1>8. StatusFits'
  BY DEF Types, Inv, RuntimeOK, FlagsOK, StatusFits, MaybeSession, Playbacks,
         Nobody, MarkPlayback, Goto, Ends, runtimeVars, flagVars, holdVars
<1>9. HolderWillRelease'
  <2>1. \A q \in Playbacks : Running(q) => Running(q)'
    BY DEF Running, Over, Types, PlayOK, MarkPlayback, Goto, Ends, runtimeVars,
           queueVars, flagVars, holdVars, sessionVars, callVars
  <2>2. UNCHANGED <<exclusive, held>>
    BY DEF MarkPlayback, Goto, Ends, runtimeVars, queueVars, flagVars, holdVars,
           sessionVars, callVars
  <2>. QED  BY <2>1, <2>2, HolderStays DEF Inv
<1>10. AllOwned'
  <2>1. /\ \A q \in Playbacks : Begun(q)' <=> Begun(q)
        /\ \A q \in Playbacks : Begun(q) => out'[q] = out[q]
    BY DEF Types, PlayOK, Begun, MarkPlayback, Goto, Ends, runtimeVars, queueVars,
           flagVars, holdVars, sessionVars, callVars
  <2>2. UNCHANGED <<exclusive, rel, prel, failing, excl, sess>>
    BY DEF MarkPlayback, Goto, Ends, runtimeVars, queueVars, flagVars, holdVars,
           sessionVars, callVars
  <2>. QED  BY <2>1, <2>2, SameOwners DEF Inv
<1>11. QueueOK' /\ FlagsOK' /\ SessionOK' /\ CallOK' /\ IndexInv'
  BY DEF Types, Inv, QueueOK, FlagsOK, SessionOK, CallOK, IndexInv, QueueLen,
         InPlaylist, Modes, Mems, CallLabels, MaybeSession, MaybePlayback, Nobody,
         MarkPlayback, Goto, Ends, queueVars, flagVars, holdVars, sessionVars,
         callVars
<1>. QED  BY <1>1, <1>2, <1>3, <1>4, <1>5, <1>6, <1>7, <1>8, <1>9, <1>10, <1>11
          DEF Types, Inv

LEMMA ReleaseExclusiveInv ==
    ASSUME Types, Inv, NEW p \in Playbacks,
           ReleaseExclusive(p)
    PROVE  Types' /\ Inv'
<1>1. RuntimeOK'
  BY DEF Types, RuntimeOK, MaybeSession, Playbacks, Nobody, ReleaseExclusive, Goto,
         runtimeVars
<1>2. FlagsOK'
  BY DEF Types, FlagsOK, ReleaseExclusive, Goto
<1>3. PlayOK'
  BY DEF Types, RuntimeOK, PlayOK, MaybeSession, Playbacks, Nobody, Labels,
         ReleaseExclusive, Goto, runtimeVars
<1>4. PlayInv'
  BY DEF Types, Inv, RuntimeOK, FlagsOK, PlayOK, PlayInv, MaybeSession, Playbacks,
         Nobody, Labels, ReleaseExclusive, Goto, runtimeVars
<1>5. CallInv'
  <2>1. pp[p] # "none" /\ \A q \in Playbacks : q # p => pp'[q] = pp[q]
    BY DEF Types, PlayOK, ReleaseExclusive, Goto
  <2>2. UNCHANGED <<created, sess, cp, mem, rel, new>>
    BY DEF ReleaseExclusive, Goto, runtimeVars, sessionVars, callVars, flagVars
  <2>. QED  BY <2>1, <2>2, PlaybackStepCalls DEF Inv
<1>6. CancelInv'
  BY DEF Types, Inv, RuntimeOK, FlagsOK, CallOK, CancelInv, MaybeSession, Playbacks,
         Nobody, Mems, CallLabels, MaybePlayback, Modes, ReleaseExclusive, Goto,
         runtimeVars, callVars
<1>7. TrackInv'
  BY DEF Types, Inv, RuntimeOK, QueueOK, PlayOK, TrackInv, MaybeSession, Playbacks,
         Nobody, QueueLen, InPlaylist, Modes, Labels, ReleaseExclusive, Goto,
         runtimeVars, queueVars
<1>8. ActiveRuns'
  BY MediaAssumption DEF Types, Inv, RuntimeOK, FlagsOK, PlayOK, CallOK, ActiveRuns,
                         MaybeSession, Playbacks, Nobody, Labels, Mems, CallLabels,
                         MaybePlayback, Modes, Over, ReleaseExclusive, Goto,
                         runtimeVars, callVars
<1>9. HolderWillRelease'
  BY DEF Types, Inv, RuntimeOK, FlagsOK, PlayOK, HolderWillRelease, MaybeSession,
         Playbacks, Nobody, Labels, Over, ReleaseExclusive, Goto, runtimeVars
<1>10. AllOwned'
  <2>1. /\ \A q \in Playbacks : Begun(q)' <=> Begun(q)
        /\ UNCHANGED <<out, rel, failing, sess, excl>>
    BY DEF Types, PlayOK, Begun, ReleaseExclusive, Goto, runtimeVars, queueVars,
           sessionVars, callVars
  <2>2. CASE held[p]
    <3>1. prel[p] = None
      BY DEF Inv, PlayInv, ReleaseExclusive
    <3>2. prel' = [prel EXCEPT ![p] = exclusive] /\ exclusive' = None
      BY <2>2 DEF ReleaseExclusive
    <3>. QED  BY <2>1, <3>1, <3>2, PlaybackTakes, MediaAssumption DEF Types, Inv
  <2>3. CASE ~held[p]
    <3>1. UNCHANGED <<prel, exclusive>>
      BY <2>3 DEF ReleaseExclusive
    <3>. QED  BY <2>1, <3>1, SameOwners DEF Inv
  <2>. QED  BY <2>2, <2>3
<1>11. QueueOK' /\ SessionOK' /\ CallOK' /\ IndexInv' /\ StatusFits'
  BY DEF Types, Inv, QueueOK, SessionOK, CallOK, IndexInv, StatusFits, QueueLen,
         InPlaylist, Modes, Mems, CallLabels, MaybeSession, MaybePlayback, Nobody,
         ReleaseExclusive, Goto, runtimeVars, queueVars, sessionVars, callVars
<1>. QED  BY <1>1, <1>2, <1>3, <1>4, <1>5, <1>6, <1>7, <1>8, <1>9, <1>10, <1>11
          DEF Types, Inv

LEMMA PlaybackReleasesInv ==
    ASSUME Types, Inv, NEW p \in Playbacks,
           PlaybackReleases(p)
    PROVE  Types' /\ Inv'
<1>1. PlayOK'
  BY DEF Types, PlayOK, Labels, MaybeSession, PlaybackReleases, Goto, Ended,
         AfterRelease
<1>2. SessionOK'
  BY DEF Types, SessionOK, PlaybackReleases, Goto, Ended, AfterRelease, sessionVars
<1>3. PlayInv'
  BY DEF Types, Inv, RuntimeOK, PlayOK, PlayInv, MaybeSession, Playbacks, Nobody,
         Labels, PlaybackReleases, Goto, Ended, AfterRelease, runtimeVars, flagVars
<1>4. CallInv'
  <2>1. pp[p] # "none" /\ \A q \in Playbacks : q # p => pp'[q] = pp[q]
    BY DEF Types, PlayOK, PlaybackReleases, Goto, Ended, AfterRelease
  <2>2. UNCHANGED <<created, sess, cp, mem, rel, new>>
    BY DEF PlaybackReleases, Goto, Ended, AfterRelease, runtimeVars, flagVars,
           sessionVars, callVars
  <2>. QED  BY <2>1, <2>2, PlaybackStepCalls DEF Inv
<1>5. TrackInv'
  BY DEF Types, Inv, RuntimeOK, QueueOK, PlayOK, TrackInv, MaybeSession, Playbacks,
         Nobody, QueueLen, InPlaylist, Modes, Labels, PlaybackReleases, Goto, Ended,
         AfterRelease, runtimeVars, queueVars, flagVars
<1>6. ActiveRuns'
  BY DEF Types, Inv, RuntimeOK, FlagsOK, PlayOK, CallOK, ActiveRuns, MaybeSession,
         Playbacks, Nobody, Labels, Mems, CallLabels, MaybePlayback, Modes, Over,
         PlaybackReleases, Goto, Ended, AfterRelease, runtimeVars, flagVars,
         callVars
<1>7. HolderWillRelease'
  <2>1. \A q \in Playbacks : Running(q) => Running(q)'
    BY DEF Running, Over, Types, PlayOK, PlaybackReleases, Goto, Ended,
           AfterRelease, runtimeVars, queueVars, flagVars, sessionVars, callVars
  <2>2. UNCHANGED <<exclusive, held>>
    BY DEF PlaybackReleases, Goto, Ended, AfterRelease, runtimeVars, queueVars,
           flagVars, sessionVars, callVars
  <2>. QED  BY <2>1, <2>2, HolderStays DEF Inv
<1>8. AllOwned'
  <2>0. /\ \A q \in Playbacks : Begun(q)' <=> Begun(q)
        /\ UNCHANGED <<exclusive, rel, out, failing, sess>>
    BY DEF Begun, Types, PlayOK, PlaybackReleases, Goto, Ended, AfterRelease,
           runtimeVars, queueVars, flagVars, sessionVars, callVars
  <2>1. CASE prel[p] = None
    <3>1. excl' = excl
      BY <2>1, MediaAssumption DEF Types, SessionOK, PlaybackReleases, Goto, Ended,
                                   AfterRelease, runtimeVars, queueVars, flagVars,
                                   sessionVars, callVars
    <3>2. prel' = prel
      BY <2>1 DEF Types, PlayOK, PlaybackReleases, Goto, Ended, AfterRelease,
                  runtimeVars, queueVars, flagVars, sessionVars, callVars
    <3>. QED  BY <3>1, <3>2, <2>0, SameOwners DEF Inv
  <2>2. CASE prel[p] # None
    <3>0. PICK s \in Sessions : s = prel[p]
      BY <2>2 DEF Types, PlayOK, MaybeSession
    <3>1. Holds("playback", p, s)
      BY <3>0 DEF Holds
    <3>2. /\ \A x \in Playbacks : prel'[x] = IF x = p THEN None ELSE prel[x]
          /\ excl' = Ended(s)
      BY <3>0 DEF Types, PlayOK, PlaybackReleases, Goto, Ended, AfterRelease,
                  runtimeVars, queueVars, flagVars, sessionVars, callVars
    <3>3. \A m, z : Holds(m, z, s)' => Holds(m, z, s) /\ ~(m = "playback" /\ z = p)
      BY <2>0, <3>0, <3>2, MediaAssumption DEF Holds, Begun
    <3>4. \A t \in Sessions \ {s} : \A m, z : Holds(m, z, t)' <=> Holds(m, z, t)
      BY <2>0, <3>0, <3>2, MediaAssumption DEF Holds, Begun
    <3>. QED  BY <3>1, <3>2, <3>3, <3>4, HolderEnds DEF Types, Inv
  <2>. QED  BY <2>1, <2>2
<1>9. /\ RuntimeOK' /\ QueueOK' /\ FlagsOK' /\ CallOK' /\ IndexInv' /\ CancelInv'
      /\ StatusFits'
  BY DEF Types, Inv, RuntimeOK, QueueOK, FlagsOK, CallOK, IndexInv, CancelInv,
         StatusFits, MaybeSession, Playbacks, Nobody, QueueLen, InPlaylist, Modes,
         Mems, CallLabels, MaybePlayback, PlaybackReleases, Goto, Ended,
         AfterRelease, runtimeVars, queueVars, flagVars, callVars
<1>. QED  BY <1>1, <1>2, <1>3, <1>4, <1>5, <1>6, <1>7, <1>8, <1>9 DEF Types, Inv

LEMMA ReplaceInv ==
    ASSUME Types, Inv, NEW c \in Procs, NEW m \in Modes, NEW i \in Nat,
           i < IF m = "agent_playlist" THEN playlist ELSE 1,
           cp[c] \in {"new", "replay", "playlist"}, cp[c] = "new" => c \in Calls,
           Replace(c, m, i)
    PROVE  Types' /\ Inv'
<1>1. RuntimeOK'
  <2>1. created + 1 \in Playbacks /\ created + 1 \in 0 .. created + 1
    BY MediaAssumption DEF Types, RuntimeOK, Playbacks, Replace
  <2>2. /\ created' = created + 1 /\ active' = created + 1 /\ exclusive' = None
        /\ attachment' = attachment /\ status' = "playing"
        /\ pauseReason' = "none" /\ resumeOnAttach' = FALSE
    BY DEF Replace
  <2>. QED  BY <2>1, <2>2 DEF Types, RuntimeOK, MaybeSession
<1>2. QueueOK'
  BY DEF Types, QueueOK, QueueLen, InPlaylist, Modes, Replace, Step, ReleaseThen,
         NoMem
<1>3. FlagsOK'
  BY DEF Types, FlagsOK, Replace, Step, ReleaseThen, NoMem
<1>4. CallOK'
  <2>1. /\ created + 1 \in MaybePlayback /\ exclusive \in MaybeSession
        /\ active \in MaybePlayback
    BY MediaAssumption DEF Types, RuntimeOK, MaybePlayback, Playbacks, Nobody,
                           Replace
  <2>2. [NoMem EXCEPT !.active = active] \in Mems
    BY <2>1 DEF NoMem, Mems, Modes
  <2>3. cp' \in [Procs -> CallLabels]
    BY DEF Types, CallOK, CallLabels, Replace, ReleaseThen, Step
  <2>. QED  BY <2>1, <2>2, <2>3 DEF Types, CallOK, Replace
<1>5. PlayInv'
  BY DEF Types, Inv, RuntimeOK, PlayOK, PlayInv, MaybeSession, Playbacks, Nobody,
         Labels, Replace, Step, ReleaseThen, NoMem, playVars
<1>6. CallInv'
  BY MediaAssumption DEF Types, Inv, RuntimeOK, PlayOK, SessionOK, CallOK, CallInv,
                         PlayInv, MaybeSession, Playbacks, Nobody, Labels, Mems,
                         CallLabels, MaybePlayback, Modes, Procs, Replace, Step,
                         ReleaseThen, NoMem, playVars, sessionVars
<1>7. IndexInv'
  BY DEF Types, Inv, QueueOK, CallOK, IndexInv, QueueLen, InPlaylist, Modes, Mems,
         CallLabels, MaybeSession, MaybePlayback, Nobody, Replace, Step,
         ReleaseThen, NoMem
<1>8. CancelInv'
  BY DEF Types, Inv, RuntimeOK, FlagsOK, CallOK, CancelInv, MaybeSession, Playbacks,
         Nobody, Mems, CallLabels, MaybePlayback, Modes, Replace, Step, ReleaseThen,
         NoMem
<1>9. TrackInv'
  BY DEF Types, Inv, RuntimeOK, QueueOK, PlayOK, TrackInv, PlayInv, MaybeSession,
         Playbacks, Nobody, QueueLen, InPlaylist, Modes, Labels, Replace, Step,
         ReleaseThen, NoMem, playVars
<1>10. ActiveRuns'
  BY DEF Types, Inv, RuntimeOK, FlagsOK, PlayOK, CallOK, ActiveRuns, CancelInv,
         MaybeSession, Playbacks, Nobody, Labels, Mems, CallLabels, MaybePlayback,
         Modes, Over, Replace, Step, ReleaseThen, NoMem, playVars
<1>11. StatusFits'
  BY DEF Types, Inv, RuntimeOK, FlagsOK, StatusFits, MaybeSession, Playbacks,
         Nobody, Replace, Step, ReleaseThen, NoMem
<1>12. HolderWillRelease'
  BY DEF Types, Inv, RuntimeOK, FlagsOK, PlayOK, HolderWillRelease, MaybeSession,
         Playbacks, Nobody, Labels, Over, Replace, Step, ReleaseThen, NoMem,
         playVars
<1>13. AllOwned'
  <2>1. rel[c] = None
    BY DEF Inv, CallInv, Replace, Step, ReleaseThen, NoMem, playVars, sessionVars
  <2>2. /\ rel' = [rel EXCEPT ![c] = exclusive] /\ exclusive' = None
        /\ UNCHANGED <<prel, pp, out, failing, sess, excl>>
    BY DEF Replace, Step, ReleaseThen, NoMem, playVars, sessionVars
  <2>. QED  BY <2>1, <2>2, CallTakes, MediaAssumption DEF Types, Inv
<1>14. PlayOK' /\ SessionOK'
  BY DEF Types, Inv, PlayOK, SessionOK, Labels, MaybeSession, Replace, Step,
         ReleaseThen, NoMem, playVars, sessionVars
<1>. QED  BY <1>1, <1>2, <1>3, <1>4, <1>5, <1>6, <1>7, <1>8, <1>9, <1>10, <1>11, <1>12,
             <1>13, <1>14
          DEF Types, Inv

LEMMA ChooseTrackInv ==
    ASSUME Types, Inv, NEW c \in Procs, NEW i \in Nat, i < playlist,
           cp[c] = "new", c \in Calls,
           ChooseTrack(c, i)
    PROVE  Types' /\ Inv'
<1>1. CallOK'
  BY DEF Types, CallOK, Mems, CallLabels, MaybeSession, MaybePlayback, Modes,
         Nobody, ChooseTrack, Step, NoMem
<1>2. CallInv'
  BY MediaAssumption DEF Types, Inv, RuntimeOK, PlayOK, SessionOK, CallOK, CallInv,
                         MaybeSession, Playbacks, Nobody, Labels, Mems, CallLabels,
                         MaybePlayback, Modes, Procs, ChooseTrack, Step, NoMem,
                         runtimeVars, flagVars, holdVars, playVars, sessionVars
<1>3. IndexInv'
  BY DEF Types, Inv, QueueOK, CallOK, IndexInv, QueueLen, InPlaylist, Modes, Mems,
         CallLabels, MaybeSession, MaybePlayback, Nobody, ChooseTrack, Step, NoMem,
         queueVars
<1>4. CancelInv'
  BY DEF Types, Inv, RuntimeOK, FlagsOK, CallOK, CancelInv, MaybeSession, Playbacks,
         Nobody, Mems, CallLabels, MaybePlayback, Modes, ChooseTrack, Step, NoMem,
         runtimeVars, flagVars, holdVars
<1>5. /\ RuntimeOK' /\ QueueOK' /\ FlagsOK' /\ PlayOK' /\ SessionOK' /\ PlayInv'
      /\ TrackInv' /\ ActiveRuns' /\ StatusFits' /\ HolderWillRelease' /\ AllOwned'
  BY DEF Types, Inv, RuntimeOK, QueueOK, FlagsOK, PlayOK, SessionOK, PlayInv,
         TrackInv, ActiveRuns, StatusFits, HolderWillRelease, AllOwned,
         MaybeSession, Playbacks, Nobody, QueueLen, InPlaylist, Modes, Labels, Over,
         Owned, Holds, ChooseTrack, Step, NoMem, runtimeVars, queueVars, flagVars,
         holdVars, playVars, sessionVars
<1>. QED  BY <1>1, <1>2, <1>3, <1>4, <1>5 DEF Types, Inv

LEMMA PauseInv ==
    ASSUME Types, Inv, NEW c \in Procs, NEW k, NEW reason \in {"user", "interrupt"},
           Pause(c, k, reason)
    PROVE  Types' /\ Inv'
<1>1. RuntimeOK'
  BY DEF Types, RuntimeOK, MaybeSession, Playbacks, Nobody, Pause, Step, Asks,
         ReleaseThen
<1>2. FlagsOK'
  BY DEF Types, FlagsOK, Pause, Step, Asks, ReleaseThen
<1>3. CallOK'
  BY DEF Types, RuntimeOK, CallOK, MaybeSession, Playbacks, Nobody, Mems,
         CallLabels, MaybePlayback, Modes, Pause, Step, Asks, ReleaseThen
<1>4. CallInv'
  BY MediaAssumption DEF Types, Inv, RuntimeOK, PlayOK, SessionOK, CallOK, CallInv,
                         MaybeSession, Playbacks, Nobody, Labels, Mems, CallLabels,
                         MaybePlayback, Modes, Procs, Pause, Step, Asks,
                         ReleaseThen, playVars, sessionVars
<1>5. IndexInv'
  BY DEF Types, Inv, QueueOK, CallOK, IndexInv, QueueLen, InPlaylist, Modes, Mems,
         CallLabels, MaybeSession, MaybePlayback, Nobody, Pause, Step, Asks,
         ReleaseThen, queueVars
<1>6. CancelInv'
  <2>1. /\ cp[c] = "new" /\ c \in Procs
        /\ \A d \in Procs : d # c => cp'[d] = cp[d]
    BY DEF Types, CallOK, Procs, Pause, Asks, ReleaseThen, Step
  <2>2. UNCHANGED <<created, cancelled, active, mem>>
    BY DEF Pause
  <2>3. mem[c].active = Nobody
    BY <2>1 DEF Inv, CallInv, NoMem
  <2>. QED  BY <2>1, <2>2, <2>3 DEF Inv, CancelInv
<1>7. StatusFits'
  BY MediaAssumption DEF Types, Inv, RuntimeOK, FlagsOK, StatusFits, MaybeSession,
                         Playbacks, Nobody, Pause, Step, Asks, ReleaseThen
<1>8. HolderWillRelease'
  BY DEF Types, Inv, RuntimeOK, FlagsOK, PlayOK, HolderWillRelease, MaybeSession,
         Playbacks, Nobody, Labels, Over, Pause, Step, Asks, ReleaseThen, playVars
<1>9. AllOwned'
  <2>1. rel[c] = None
    BY DEF Inv, CallInv, Pause, Step, Asks, ReleaseThen, queueVars, playVars,
           sessionVars
  <2>2. /\ rel' = [rel EXCEPT ![c] = exclusive] /\ exclusive' = None
        /\ UNCHANGED <<prel, pp, out, failing, sess, excl>>
    BY DEF Pause, Step, Asks, ReleaseThen, queueVars, playVars, sessionVars
  <2>. QED  BY <2>1, <2>2, CallTakes, MediaAssumption DEF Types, Inv
<1>10. QueueOK' /\ PlayOK' /\ SessionOK' /\ PlayInv' /\ TrackInv' /\ ActiveRuns'
  BY DEF Types, Inv, QueueOK, PlayOK, SessionOK, PlayInv, TrackInv, ActiveRuns,
         QueueLen, InPlaylist, Modes, Labels, MaybeSession, Playbacks, Over, Nobody,
         Pause, Step, Asks, ReleaseThen, queueVars, playVars, sessionVars
<1>. QED  BY <1>1, <1>2, <1>3, <1>4, <1>5, <1>6, <1>7, <1>8, <1>9, <1>10
          DEF Types, Inv

LEMMA StopInv ==
    ASSUME Types, Inv, NEW c \in Procs,
           Stop(c)
    PROVE  Types' /\ Inv'
<1>1. RuntimeOK'
  <2>1. Ends("stopped") /\ exclusive' = None /\ UNCHANGED <<created, attachment>>
    BY DEF Stop, flagVars
  <2>2. 0 \in 0 .. created
    BY MediaAssumption DEF Types, RuntimeOK, Playbacks
  <2>. QED  BY <2>1, <2>2 DEF Types, RuntimeOK, Ends, Nobody, MaybeSession
<1>2. FlagsOK'
  BY DEF Types, FlagsOK, Stop, Step, Asks, ReleaseThen, Ends, NoMem, flagVars
<1>3. CallOK'
  <2>1. exclusive \in MaybeSession /\ active \in MaybePlayback
    BY MediaAssumption DEF Types, RuntimeOK, MaybePlayback, Playbacks, Nobody
  <2>2. [NoMem EXCEPT !.active = active] \in Mems
    BY <2>1 DEF NoMem, Mems, Modes
  <2>3. cp' \in [Procs -> CallLabels]
    BY DEF Types, CallOK, CallLabels, Stop, ReleaseThen, Step
  <2>. QED  BY <2>1, <2>2, <2>3 DEF Types, CallOK, Stop
<1>4. CallInv'
  BY MediaAssumption DEF Types, Inv, RuntimeOK, PlayOK, SessionOK, CallOK, CallInv,
                         MaybeSession, Playbacks, Nobody, Labels, Mems, CallLabels,
                         MaybePlayback, Modes, Procs, Stop, Step, Asks, ReleaseThen,
                         Ends, NoMem, flagVars, playVars, sessionVars
<1>5. IndexInv'
  BY DEF Types, Inv, QueueOK, CallOK, IndexInv, QueueLen, InPlaylist, Modes, Mems,
         CallLabels, MaybeSession, MaybePlayback, Nobody, Stop, Step, Asks,
         ReleaseThen, Ends, NoMem, queueVars
<1>6. CancelInv'
  BY DEF Types, Inv, RuntimeOK, FlagsOK, CallOK, CancelInv, MaybeSession, Playbacks,
         Nobody, Mems, CallLabels, MaybePlayback, Modes, Stop, Step, Asks,
         ReleaseThen, Ends, NoMem, flagVars
<1>7. TrackInv'
  BY DEF Types, Inv, RuntimeOK, QueueOK, PlayOK, TrackInv, MaybeSession, Playbacks,
         Nobody, QueueLen, InPlaylist, Modes, Labels, Stop, Step, Asks, ReleaseThen,
         Ends, NoMem, queueVars, flagVars, playVars
<1>8. ActiveRuns'
  BY DEF Types, Inv, RuntimeOK, FlagsOK, PlayOK, CallOK, ActiveRuns, MaybeSession,
         Playbacks, Nobody, Labels, Mems, CallLabels, MaybePlayback, Modes, Over,
         Stop, Step, Asks, ReleaseThen, Ends, NoMem, flagVars, playVars
<1>9. StatusFits'
  BY DEF Types, Inv, RuntimeOK, FlagsOK, StatusFits, MaybeSession, Playbacks,
         Nobody, Stop, Step, Asks, ReleaseThen, Ends, NoMem, flagVars
<1>10. HolderWillRelease'
  BY DEF Types, Inv, RuntimeOK, FlagsOK, PlayOK, HolderWillRelease, MaybeSession,
         Playbacks, Nobody, Labels, Over, Stop, Step, Asks, ReleaseThen, Ends,
         NoMem, flagVars, playVars
<1>11. AllOwned'
  <2>1. rel[c] = None
    BY DEF Inv, CallInv, Stop, Step, Asks, ReleaseThen, Ends, NoMem, queueVars,
           flagVars, playVars, sessionVars
  <2>2. /\ rel' = [rel EXCEPT ![c] = exclusive] /\ exclusive' = None
        /\ UNCHANGED <<prel, pp, out, failing, sess, excl>>
    BY DEF Stop, Step, Asks, ReleaseThen, Ends, NoMem, queueVars, flagVars,
           playVars, sessionVars
  <2>. QED  BY <2>1, <2>2, CallTakes, MediaAssumption DEF Types, Inv
<1>12. QueueOK' /\ PlayOK' /\ SessionOK' /\ PlayInv'
  BY DEF Types, Inv, QueueOK, PlayOK, SessionOK, PlayInv, QueueLen, InPlaylist,
         Modes, Labels, MaybeSession, Playbacks, Stop, Step, Asks, ReleaseThen,
         Ends, NoMem, queueVars, flagVars, playVars, sessionVars
<1>. QED  BY <1>1, <1>2, <1>3, <1>4, <1>5, <1>6, <1>7, <1>8, <1>9, <1>10, <1>11, <1>12
          DEF Types, Inv

LEMMA CallReleasesInv ==
    ASSUME Types, Inv, NEW c \in Procs,
           CallReleases(c)
    PROVE  Types' /\ Inv'
<1>1. SessionOK'
  BY DEF Types, SessionOK, CallReleases, Step, Ended, sessionVars
<1>2. CallOK'
  BY DEF Types, CallOK, Mems, CallLabels, MaybeSession, MaybePlayback, Modes,
         Nobody, CallReleases, Step, Ended
<1>3. CallInv'
  BY DEF Types, Inv, RuntimeOK, PlayOK, SessionOK, CallOK, CallInv, MaybeSession,
         Playbacks, Nobody, Labels, Mems, CallLabels, MaybePlayback, Modes, Procs,
         CallReleases, Step, Ended, runtimeVars, flagVars, playVars, sessionVars
<1>4. IndexInv'
  BY DEF Types, Inv, QueueOK, CallOK, IndexInv, QueueLen, InPlaylist, Modes, Mems,
         CallLabels, MaybeSession, MaybePlayback, Nobody, CallReleases, Step, Ended,
         queueVars
<1>5. CancelInv'
  BY DEF Types, Inv, RuntimeOK, FlagsOK, CallOK, CancelInv, MaybeSession, Playbacks,
         Nobody, Mems, CallLabels, MaybePlayback, Modes, CallReleases, Step, Ended,
         runtimeVars, flagVars
<1>6. AllOwned'
  <2>0. UNCHANGED <<exclusive, prel, pp, out, failing, sess>>
    BY DEF CallReleases, Step, Ended, runtimeVars, queueVars, flagVars, playVars,
           sessionVars
  <2>1. CASE rel[c] = None
    <3>1. excl' = excl
      BY <2>1, MediaAssumption DEF Types, SessionOK, CallReleases, Step, Ended,
                                   runtimeVars, queueVars, flagVars, playVars,
                                   sessionVars
    <3>2. rel' = rel
      BY <2>1 DEF Types, CallOK, CallReleases, Step, Ended, runtimeVars, queueVars,
                  flagVars, playVars, sessionVars
    <3>. QED  BY <3>1, <3>2, <2>0, SameOwners DEF Inv, Begun
  <2>2. CASE rel[c] # None
    <3>0. PICK s \in Sessions : s = rel[c]
      BY <2>2 DEF Types, CallOK, MaybeSession
    <3>1. Holds("call", c, s)
      BY <3>0 DEF Holds
    <3>2. /\ \A x \in Procs : rel'[x] = IF x = c THEN None ELSE rel[x]
          /\ excl' = Ended(s)
      BY <3>0 DEF Types, CallOK, CallReleases, Step, Ended, runtimeVars, queueVars,
                  flagVars, playVars, sessionVars
    <3>3. \A m, z : Holds(m, z, s)' => Holds(m, z, s) /\ ~(m = "call" /\ z = c)
      BY <2>0, <3>0, <3>2, MediaAssumption DEF Holds, Begun
    <3>4. \A t \in Sessions \ {s} : \A m, z : Holds(m, z, t)' <=> Holds(m, z, t)
      BY <2>0, <3>0, <3>2, MediaAssumption DEF Holds, Begun
    <3>. QED  BY <3>1, <3>2, <3>3, <3>4, HolderEnds DEF Types, Inv
  <2>. QED  BY <2>1, <2>2
<1>7. /\ RuntimeOK' /\ QueueOK' /\ FlagsOK' /\ PlayOK' /\ PlayInv' /\ TrackInv'
      /\ ActiveRuns' /\ StatusFits' /\ HolderWillRelease'
  BY DEF Types, Inv, RuntimeOK, QueueOK, FlagsOK, PlayOK, PlayInv, TrackInv,
         ActiveRuns, StatusFits, HolderWillRelease, MaybeSession, Playbacks, Nobody,
         QueueLen, InPlaylist, Modes, Labels, Over, CallReleases, Step, Ended,
         runtimeVars, queueVars, flagVars, playVars
<1>. QED  BY <1>1, <1>2, <1>3, <1>4, <1>5, <1>6, <1>7 DEF Types, Inv

LEMMA CallCancelsInv ==
    ASSUME Types, Inv, NEW c \in Procs,
           CallCancels(c)
    PROVE  Types' /\ Inv'
<1>1. FlagsOK'
  BY DEF Types, FlagsOK, CallCancels, Step, NoMem, holdVars
<1>2. PlayOK'
  BY DEF Types, PlayOK, Labels, MaybeSession, CallCancels, Step, NoMem
<1>3. CallOK'
  BY DEF Types, CallOK, Mems, CallLabels, MaybeSession, MaybePlayback, Modes,
         Nobody, CallCancels, Step, NoMem
<1>4. PlayInv'
  <2>1. \A q \in Playbacks : pp'[q] = IF q = new[c] THEN "begin" ELSE pp[q]
    BY DEF CallCancels
  <2>2. \A q \in Playbacks : q = new[c] => pp[q] = "none" /\ q <= created
    BY DEF Inv, CallInv, Playbacks, Nobody
  <2>3. UNCHANGED <<created, out, prel>>
    BY DEF CallCancels
  <2>4. \A q \in Playbacks : q <= created => ~(q > created)
    BY DEF Types, RuntimeOK, Playbacks
  <2>. QED  BY <2>1, <2>2, <2>3, <2>4 DEF Inv, PlayInv
<1>5. CallInv'
  BY DEF Types, Inv, RuntimeOK, PlayOK, SessionOK, CallOK, CallInv, MaybeSession,
         Playbacks, Nobody, Labels, Mems, CallLabels, MaybePlayback, Modes, Procs,
         CallCancels, Step, NoMem, runtimeVars, holdVars, sessionVars
<1>6. IndexInv'
  BY DEF Types, Inv, QueueOK, CallOK, IndexInv, QueueLen, InPlaylist, Modes, Mems,
         CallLabels, MaybeSession, MaybePlayback, Nobody, CallCancels, Step, NoMem,
         queueVars
<1>7. CancelInv'
  BY DEF Types, Inv, RuntimeOK, FlagsOK, CallOK, CancelInv, MaybeSession, Playbacks,
         Nobody, Mems, CallLabels, MaybePlayback, Modes, CallCancels, Step, NoMem,
         runtimeVars, holdVars
<1>8. TrackInv'
  BY DEF Types, Inv, RuntimeOK, QueueOK, PlayOK, TrackInv, MaybeSession, Playbacks,
         Nobody, QueueLen, InPlaylist, Modes, Labels, CallCancels, Step, NoMem,
         runtimeVars, queueVars, holdVars
<1>9. ActiveRuns'
  BY MediaAssumption DEF Types, Inv, RuntimeOK, FlagsOK, PlayOK, CallOK, ActiveRuns,
                         CallInv, CancelInv, MaybeSession, Playbacks, Nobody,
                         Labels, Mems, CallLabels, MaybePlayback, Modes, Over,
                         Procs, CallCancels, Step, NoMem, runtimeVars, holdVars,
                         sessionVars
<1>10. HolderWillRelease'
  <2>1. \A q \in Playbacks : Running(q) => Running(q)'
    BY DEF Running, Over, Types, PlayOK, CallCancels, Step, NoMem, runtimeVars,
           queueVars, holdVars, sessionVars
  <2>2. UNCHANGED <<exclusive, held>>
    BY DEF CallCancels, Step, NoMem, runtimeVars, queueVars, holdVars, sessionVars
  <2>. QED  BY <2>1, <2>2, HolderStays DEF Inv
<1>11. AllOwned'
  <2>1. \A q \in Playbacks : pp'[q] = IF q = new[c] THEN "begin" ELSE pp[q]
    BY DEF CallCancels, Step, NoMem, runtimeVars, queueVars, holdVars, sessionVars
  <2>2. \A q \in Playbacks : q = new[c] => pp[q] = "none"
    BY DEF Inv, CallInv, Playbacks, Nobody
  <2>3. \A q \in Playbacks : Begun(q)' <=> Begun(q)
    BY <2>1, <2>2 DEF Begun
  <2>4. UNCHANGED <<exclusive, rel, prel, failing, excl, sess, out>>
    BY DEF CallCancels, Step, NoMem, runtimeVars, queueVars, holdVars, sessionVars
  <2>. QED  BY <2>3, <2>4, SameOwners DEF Inv
<1>12. RuntimeOK' /\ QueueOK' /\ SessionOK' /\ StatusFits'
  BY DEF Types, Inv, RuntimeOK, QueueOK, SessionOK, StatusFits, MaybeSession,
         Playbacks, Nobody, QueueLen, InPlaylist, Modes, CallCancels, Step, NoMem,
         runtimeVars, queueVars, holdVars, sessionVars
<1>. QED  BY <1>1, <1>2, <1>3, <1>4, <1>5, <1>6, <1>7, <1>8, <1>9, <1>10, <1>11, <1>12
          DEF Types, Inv

LEMMA ShouldResumeInv ==
    ASSUME Types, Inv, NEW c \in Procs,
           ShouldResume(c)
    PROVE  Types' /\ Inv'
<1>1. CallOK'
  BY DEF Types, CallOK, Mems, CallLabels, MaybeSession, MaybePlayback, Modes,
         Nobody, ShouldResume, Step
<1>2. CallInv'
  BY DEF Types, Inv, RuntimeOK, PlayOK, SessionOK, CallOK, CallInv, MaybeSession,
         Playbacks, Nobody, Labels, Mems, CallLabels, MaybePlayback, Modes, Procs,
         ShouldResume, Step, runtimeVars, flagVars, holdVars, playVars, sessionVars
<1>3. IndexInv'
  BY DEF Types, Inv, QueueOK, CallOK, IndexInv, QueueLen, InPlaylist, Modes, Mems,
         CallLabels, MaybeSession, MaybePlayback, Nobody, ShouldResume, Step,
         queueVars
<1>4. CancelInv'
  BY DEF Types, Inv, RuntimeOK, FlagsOK, CallOK, CancelInv, MaybeSession, Playbacks,
         Nobody, Mems, CallLabels, MaybePlayback, Modes, ShouldResume, Step,
         runtimeVars, flagVars, holdVars
<1>5. /\ RuntimeOK' /\ QueueOK' /\ FlagsOK' /\ PlayOK' /\ SessionOK' /\ PlayInv'
      /\ TrackInv' /\ ActiveRuns' /\ StatusFits' /\ HolderWillRelease' /\ AllOwned'
  BY DEF Types, Inv, RuntimeOK, QueueOK, FlagsOK, PlayOK, SessionOK, PlayInv,
         TrackInv, ActiveRuns, StatusFits, HolderWillRelease, AllOwned,
         MaybeSession, Playbacks, Nobody, QueueLen, InPlaylist, Modes, Labels, Over,
         Owned, Holds, ShouldResume, Step, runtimeVars, queueVars, flagVars,
         holdVars, playVars, sessionVars
<1>. QED  BY <1>1, <1>2, <1>3, <1>4, <1>5 DEF Types, Inv

LEMMA RecoverReadsInv ==
    ASSUME Types, Inv, NEW c \in Procs,
           RecoverReads(c)
    PROVE  Types' /\ Inv'
<1>1. CallOK'
  BY MediaAssumption DEF Types, RuntimeOK, QueueOK, CallOK, MaybeSession, Playbacks,
                         Nobody, QueueLen, InPlaylist, Modes, Mems, CallLabels,
                         MaybePlayback, RecoverReads, Step, Asks, runtimeVars,
                         queueVars, flagVars, holdVars
<1>2. CallInv'
  BY MediaAssumption DEF Types, Inv, RuntimeOK, PlayOK, SessionOK, CallOK, CallInv,
                         MaybeSession, Playbacks, Nobody, Labels, Mems, CallLabels,
                         MaybePlayback, Modes, Procs, RecoverReads, Step, Asks,
                         runtimeVars, flagVars, holdVars, playVars, sessionVars
<1>3. IndexInv'
  BY DEF Types, Inv, QueueOK, CallOK, IndexInv, QueueLen, InPlaylist, Modes, Mems,
         CallLabels, MaybeSession, MaybePlayback, Nobody, RecoverReads, Step, Asks,
         queueVars
<1>4. CancelInv'
  <2>1. /\ \A d \in Procs \ {c} : mem'[d] = mem[d] /\ cp'[d] = cp[d]
        /\ mem'[c].active = active /\ cp'[c] = "decide"
    BY DEF Types, CallOK, RecoverReads, Step
  <2>2. UNCHANGED <<cancelled, created, active>>
    BY DEF RecoverReads, runtimeVars, flagVars
  <2>3. active <= created
    BY DEF Types, RuntimeOK, Playbacks
  <2>. QED  BY <2>1, <2>2, <2>3 DEF Inv, CancelInv
<1>5. /\ RuntimeOK' /\ QueueOK' /\ FlagsOK' /\ PlayOK' /\ SessionOK' /\ PlayInv'
      /\ TrackInv' /\ ActiveRuns' /\ StatusFits' /\ HolderWillRelease' /\ AllOwned'
  BY DEF Types, Inv, RuntimeOK, QueueOK, FlagsOK, PlayOK, SessionOK, PlayInv,
         TrackInv, ActiveRuns, StatusFits, HolderWillRelease, AllOwned,
         MaybeSession, Playbacks, Nobody, QueueLen, InPlaylist, Modes, Labels, Over,
         Owned, Holds, RecoverReads, Step, Asks, runtimeVars, queueVars, flagVars,
         holdVars, playVars, sessionVars
<1>. QED  BY <1>1, <1>2, <1>3, <1>4, <1>5 DEF Types, Inv

LEMMA RecoverDecidesInv ==
    ASSUME Types, Inv, NEW c \in Procs,
           RecoverDecides(c)
    PROVE  Types' /\ Inv'
<1>1. RuntimeOK'
  BY DEF Types, RuntimeOK, MaybeSession, Playbacks, Nobody, RecoverDecides, Step,
         NoMem, flagVars, holdVars
<1>2. CallOK'
  BY DEF Types, CallOK, Mems, CallLabels, MaybeSession, MaybePlayback, Modes,
         Nobody, RecoverDecides, Step, NoMem
<1>3. CallInv'
  BY DEF Types, Inv, RuntimeOK, PlayOK, SessionOK, CallOK, CallInv, MaybeSession,
         Playbacks, Nobody, Labels, Mems, CallLabels, MaybePlayback, Modes, Procs,
         RecoverDecides, Step, NoMem, flagVars, holdVars, playVars, sessionVars
<1>4. IndexInv'
  BY DEF Types, Inv, QueueOK, CallOK, IndexInv, QueueLen, InPlaylist, Modes, Mems,
         CallLabels, MaybeSession, MaybePlayback, Nobody, RecoverDecides, Step,
         NoMem, queueVars
<1>5. CancelInv'
  BY DEF Types, Inv, RuntimeOK, FlagsOK, CallOK, CancelInv, MaybeSession, Playbacks,
         Nobody, Mems, CallLabels, MaybePlayback, Modes, RecoverDecides, Step,
         NoMem, flagVars, holdVars
<1>6. StatusFits'
  BY DEF Types, Inv, RuntimeOK, FlagsOK, StatusFits, MaybeSession, Playbacks,
         Nobody, RecoverDecides, Step, NoMem, flagVars, holdVars
<1>7. /\ QueueOK' /\ FlagsOK' /\ PlayOK' /\ SessionOK' /\ PlayInv' /\ TrackInv'
      /\ ActiveRuns' /\ HolderWillRelease' /\ AllOwned'
  BY DEF Types, Inv, QueueOK, FlagsOK, PlayOK, SessionOK, PlayInv, TrackInv,
         ActiveRuns, HolderWillRelease, AllOwned, QueueLen, InPlaylist, Modes,
         Labels, MaybeSession, Playbacks, Over, Nobody, Owned, Holds,
         RecoverDecides, Step, NoMem, queueVars, flagVars, holdVars, playVars,
         sessionVars
<1>. QED  BY <1>1, <1>2, <1>3, <1>4, <1>5, <1>6, <1>7 DEF Types, Inv

LEMMA RecoverActiveInv ==
    ASSUME Types, Inv, NEW c \in Procs,
           RecoverActive(c)
    PROVE  Types' /\ Inv'
<1>1. RuntimeOK'
  BY DEF Types, RuntimeOK, MaybeSession, Playbacks, Nobody, RecoverActive, Step,
         holdVars
<1>2. FlagsOK'
  BY DEF Types, FlagsOK, RecoverActive, Step, holdVars
<1>3. CallOK'
  BY DEF Types, CallOK, Mems, CallLabels, MaybeSession, MaybePlayback, Modes,
         Nobody, RecoverActive, Step
<1>4. CallInv'
  BY DEF Types, Inv, RuntimeOK, PlayOK, SessionOK, CallOK, CallInv, MaybeSession,
         Playbacks, Nobody, Labels, Mems, CallLabels, MaybePlayback, Modes, Procs,
         RecoverActive, Step, holdVars, playVars, sessionVars
<1>5. IndexInv'
  BY DEF Types, Inv, QueueOK, CallOK, IndexInv, QueueLen, InPlaylist, Modes, Mems,
         CallLabels, MaybeSession, MaybePlayback, Nobody, RecoverActive, Step,
         queueVars
<1>6. CancelInv'
  BY DEF Types, Inv, RuntimeOK, FlagsOK, CallOK, CancelInv, MaybeSession, Playbacks,
         Nobody, Mems, CallLabels, MaybePlayback, Modes, RecoverActive, Step,
         holdVars
<1>7. StatusFits'
  BY DEF Types, Inv, RuntimeOK, FlagsOK, StatusFits, MaybeSession, Playbacks,
         Nobody, RecoverActive, Step, holdVars
<1>8. /\ QueueOK' /\ PlayOK' /\ SessionOK' /\ PlayInv' /\ TrackInv' /\ ActiveRuns'
      /\ HolderWillRelease' /\ AllOwned'
  BY DEF Types, Inv, QueueOK, PlayOK, SessionOK, PlayInv, TrackInv, ActiveRuns,
         HolderWillRelease, AllOwned, QueueLen, InPlaylist, Modes, Labels,
         MaybeSession, Playbacks, Over, Nobody, Owned, Holds, RecoverActive, Step,
         queueVars, holdVars, playVars, sessionVars
<1>. QED  BY <1>1, <1>2, <1>3, <1>4, <1>5, <1>6, <1>7, <1>8 DEF Types, Inv

LEMMA AppendReadsInv ==
    ASSUME Types, Inv, NEW c \in Procs,
           AppendReads(c)
    PROVE  Types' /\ Inv'
<1>1. CallOK'
  BY DEF Types, QueueOK, CallOK, QueueLen, InPlaylist, Modes, Mems, CallLabels,
         MaybeSession, MaybePlayback, Nobody, AppendReads, Step, Asks, NoMem,
         queueVars
<1>2. CallInv'
  BY MediaAssumption DEF Types, Inv, RuntimeOK, PlayOK, SessionOK, CallOK, CallInv,
                         MaybeSession, Playbacks, Nobody, Labels, Mems, CallLabels,
                         MaybePlayback, Modes, Procs, AppendReads, Step, Asks,
                         NoMem, runtimeVars, flagVars, holdVars, playVars,
                         sessionVars
<1>3. IndexInv'
  BY DEF Types, Inv, QueueOK, CallOK, IndexInv, QueueLen, InPlaylist, Modes, Mems,
         CallLabels, MaybeSession, MaybePlayback, Nobody, AppendReads, Step, Asks,
         NoMem, queueVars
<1>4. CancelInv'
  BY DEF Types, Inv, RuntimeOK, FlagsOK, CallOK, CancelInv, MaybeSession, Playbacks,
         Nobody, Mems, CallLabels, MaybePlayback, Modes, AppendReads, Step, Asks,
         NoMem, runtimeVars, flagVars, holdVars
<1>5. /\ RuntimeOK' /\ QueueOK' /\ FlagsOK' /\ PlayOK' /\ SessionOK' /\ PlayInv'
      /\ TrackInv' /\ ActiveRuns' /\ StatusFits' /\ HolderWillRelease' /\ AllOwned'
  BY DEF Types, Inv, RuntimeOK, QueueOK, FlagsOK, PlayOK, SessionOK, PlayInv,
         TrackInv, ActiveRuns, StatusFits, HolderWillRelease, AllOwned,
         MaybeSession, Playbacks, Nobody, QueueLen, InPlaylist, Modes, Labels, Over,
         Owned, Holds, AppendReads, Step, Asks, NoMem, runtimeVars, queueVars,
         flagVars, holdVars, playVars, sessionVars
<1>. QED  BY <1>1, <1>2, <1>3, <1>4, <1>5 DEF Types, Inv

LEMMA AppendExtendsInv ==
    ASSUME Types, Inv, NEW c \in Procs,
           AppendExtends(c)
    PROVE  Types' /\ Inv'
<1>1. QueueOK'
  BY DEF Types, QueueOK, QueueLen, InPlaylist, Modes, AppendExtends, Step
<1>2. CallOK'
  BY DEF Types, QueueOK, CallOK, QueueLen, InPlaylist, Modes, Mems, CallLabels,
         MaybeSession, MaybePlayback, Nobody, AppendExtends, Step
<1>3. CallInv'
  BY DEF Types, Inv, RuntimeOK, PlayOK, SessionOK, CallOK, CallInv, MaybeSession,
         Playbacks, Nobody, Labels, Mems, CallLabels, MaybePlayback, Modes, Procs,
         AppendExtends, Step, runtimeVars, flagVars, holdVars, playVars, sessionVars
<1>4. IndexInv'
  BY DEF Types, Inv, QueueOK, CallOK, IndexInv, QueueLen, InPlaylist, Modes, Mems,
         CallLabels, MaybeSession, MaybePlayback, Nobody, AppendExtends, Step
<1>5. CancelInv'
  BY DEF Types, Inv, RuntimeOK, FlagsOK, CallOK, CancelInv, MaybeSession, Playbacks,
         Nobody, Mems, CallLabels, MaybePlayback, Modes, AppendExtends, Step,
         runtimeVars, flagVars, holdVars
<1>6. TrackInv'
  BY DEF Types, Inv, RuntimeOK, QueueOK, PlayOK, TrackInv, MaybeSession, Playbacks,
         Nobody, QueueLen, InPlaylist, Modes, Labels, AppendExtends, Step,
         runtimeVars, flagVars, holdVars, playVars
<1>7. /\ RuntimeOK' /\ FlagsOK' /\ PlayOK' /\ SessionOK' /\ PlayInv' /\ ActiveRuns'
      /\ StatusFits' /\ HolderWillRelease' /\ AllOwned'
  BY DEF Types, Inv, RuntimeOK, FlagsOK, PlayOK, SessionOK, PlayInv, ActiveRuns,
         StatusFits, HolderWillRelease, AllOwned, MaybeSession, Playbacks, Nobody,
         Labels, Over, Owned, Holds, AppendExtends, Step, runtimeVars, flagVars,
         holdVars, playVars, sessionVars
<1>. QED  BY <1>1, <1>2, <1>3, <1>4, <1>5, <1>6, <1>7 DEF Types, Inv

LEMMA AppendRebindsInv ==
    ASSUME Types, Inv, NEW c \in Procs,
           AppendRebinds(c)
    PROVE  Types' /\ Inv'
<1>1. QueueOK'
  BY DEF Types, Inv, QueueOK, CallOK, IndexInv, QueueLen, InPlaylist, Modes, Mems,
         CallLabels, MaybeSession, MaybePlayback, Nobody, AppendRebinds, Step, NoMem
<1>2. CallOK'
  BY DEF Types, CallOK, Mems, CallLabels, MaybeSession, MaybePlayback, Modes,
         Nobody, AppendRebinds, Step, NoMem
<1>3. CallInv'
  BY DEF Types, Inv, RuntimeOK, PlayOK, SessionOK, CallOK, CallInv, MaybeSession,
         Playbacks, Nobody, Labels, Mems, CallLabels, MaybePlayback, Modes, Procs,
         AppendRebinds, Step, NoMem, runtimeVars, flagVars, holdVars, playVars,
         sessionVars
<1>4. IndexInv'
  BY DEF Types, Inv, QueueOK, CallOK, IndexInv, QueueLen, InPlaylist, Modes, Mems,
         CallLabels, MaybeSession, MaybePlayback, Nobody, AppendRebinds, Step, NoMem
<1>5. CancelInv'
  BY DEF Types, Inv, RuntimeOK, FlagsOK, CallOK, CancelInv, MaybeSession, Playbacks,
         Nobody, Mems, CallLabels, MaybePlayback, Modes, AppendRebinds, Step, NoMem,
         runtimeVars, flagVars, holdVars
<1>6. TrackInv'
  <2>1. UNCHANGED <<active, pp, track, playlist>> /\ mode' = "agent_playlist"
    BY DEF AppendRebinds, runtimeVars, playVars
  <2>2. 0 < playlist
    BY DEF Types, CallOK, QueueOK, Mems, Inv, IndexInv, AppendRebinds
  <2>3. \A n \in Nat : n < QueueLen => n < playlist
    BY <2>2 DEF Types, QueueOK, QueueLen
  <2>. QED  BY <2>1, <2>3 DEF Types, PlayOK, Inv, TrackInv, QueueLen, InPlaylist
<1>7. /\ RuntimeOK' /\ FlagsOK' /\ PlayOK' /\ SessionOK' /\ PlayInv' /\ ActiveRuns'
      /\ StatusFits' /\ HolderWillRelease' /\ AllOwned'
  BY DEF Types, Inv, RuntimeOK, FlagsOK, PlayOK, SessionOK, PlayInv, ActiveRuns,
         StatusFits, HolderWillRelease, AllOwned, MaybeSession, Playbacks, Nobody,
         Labels, Over, Owned, Holds, AppendRebinds, Step, NoMem, runtimeVars,
         flagVars, holdVars, playVars, sessionVars
<1>. QED  BY <1>1, <1>2, <1>3, <1>4, <1>5, <1>6, <1>7 DEF Types, Inv

LEMMA ResumeIfInterruptedInv ==
    ASSUME Types, Inv, NEW c \in Procs,
           ResumeIfInterrupted(c)
    PROVE  Types' /\ Inv'
<1>1. CallOK'
  BY DEF Types, CallOK, Mems, CallLabels, MaybeSession, MaybePlayback, Modes,
         Nobody, ResumeIfInterrupted, Step
<1>2. CallInv'
  BY DEF Types, Inv, RuntimeOK, PlayOK, SessionOK, CallOK, CallInv, MaybeSession,
         Playbacks, Nobody, Labels, Mems, CallLabels, MaybePlayback, Modes, Procs,
         ResumeIfInterrupted, Step, runtimeVars, flagVars, holdVars, playVars,
         sessionVars
<1>3. IndexInv'
  BY DEF Types, Inv, QueueOK, CallOK, IndexInv, QueueLen, InPlaylist, Modes, Mems,
         CallLabels, MaybeSession, MaybePlayback, Nobody, ResumeIfInterrupted, Step,
         queueVars
<1>4. CancelInv'
  BY DEF Types, Inv, RuntimeOK, FlagsOK, CallOK, CancelInv, MaybeSession, Playbacks,
         Nobody, Mems, CallLabels, MaybePlayback, Modes, ResumeIfInterrupted, Step,
         runtimeVars, flagVars, holdVars
<1>5. /\ RuntimeOK' /\ QueueOK' /\ FlagsOK' /\ PlayOK' /\ SessionOK' /\ PlayInv'
      /\ TrackInv' /\ ActiveRuns' /\ StatusFits' /\ HolderWillRelease' /\ AllOwned'
  BY DEF Types, Inv, RuntimeOK, QueueOK, FlagsOK, PlayOK, SessionOK, PlayInv,
         TrackInv, ActiveRuns, StatusFits, HolderWillRelease, AllOwned,
         MaybeSession, Playbacks, Nobody, QueueLen, InPlaylist, Modes, Labels, Over,
         Owned, Holds, ResumeIfInterrupted, Step, runtimeVars, queueVars, flagVars,
         holdVars, playVars, sessionVars
<1>. QED  BY <1>1, <1>2, <1>3, <1>4, <1>5 DEF Types, Inv

-----------------------------------------------------------------------------
(***************************************************************************)
(* The steps that choose a track, and the whole of Next.                   *)
(***************************************************************************)
LEMMA JumpStays ==
    ASSUME QueueOK, InPlaylist, NEW d \in {1, -1}
    PROVE  Jump(d) \in Nat /\ Jump(d) < playlist
<1>1. index \in Nat /\ playlist \in Nat /\ index < playlist
  BY DEF QueueOK, QueueLen
<1>2. \A a \in Int, n \in Nat : n > 0 => a % n \in 0 .. n - 1
  OBVIOUS
<1>3. index + d + playlist \in Int /\ playlist > 0
  BY <1>1
<1>4. Jump(d) \in 0 .. playlist - 1
  BY <1>1, <1>2, <1>3 DEF Jump
<1>. QED  BY <1>1, <1>4

LEMMA PlaysInv ==
    ASSUME Types, Inv, NEW c \in Procs, PlayStandalone(c) \/ PlayPlaylist(c)
    PROVE  Types' /\ Inv'
<1>1. CASE PlayStandalone(c)
  BY <1>1, ReplaceInv DEF PlayStandalone, Asks, Modes
<1>2. CASE PlayPlaylist(c)
  <2>1. mem[c].index \in Nat /\ mem[c].index < playlist
    BY <1>2 DEF Types, CallOK, Mems, Inv, IndexInv, PlayPlaylist
  <2>. QED  BY <1>2, <2>1, ReplaceInv DEF PlayPlaylist, Modes
<1>. QED  BY <1>1, <1>2

LEMMA ListInv ==
    ASSUME Types, Inv, NEW c \in Procs, List(c)
    PROVE  Types' /\ Inv'
<1>1. \A i \in {0, index} : InPlaylist \/ i = 0 => i \in Nat /\ i < playlist
  BY DEF Types, QueueOK, QueueLen, List
<1>. QED  BY <1>1, ChooseTrackInv DEF List, Asks

LEMMA SkipInv ==
    ASSUME Types, Inv, NEW c \in Procs, Skip(c)
    PROVE  Types' /\ Inv'
<1>1. /\ Jump(1) \in Nat /\ Jump(1) < playlist
      /\ Jump(-1) \in Nat /\ Jump(-1) < playlist
  BY JumpStays DEF Types, Skip
<1>. QED  BY <1>1, ChooseTrackInv DEF Skip, Asks

LEMMA InitInv == Init => Types /\ Inv
<1>. SUFFICES ASSUME Init
              PROVE  Types /\ Inv
  OBVIOUS
<1>. USE MediaAssumption
<1>1. 1 \in Playbacks /\ Playbacks \subseteq Nat \ {0}
  BY DEF Playbacks
<1>2. RuntimeOK /\ QueueOK /\ FlagsOK
  <2>1. RuntimeOK
    BY <1>1, 1 \in 0 .. 1 DEF Init, RuntimeOK, MaybeSession
  <2>2. QueueOK
    BY DEF Init, QueueOK, QueueLen, InPlaylist, Modes
  <2>3. FlagsOK
    BY DEF Init, FlagsOK
  <2>. QED  BY <2>1, <2>2, <2>3
<1>3. PlayOK /\ SessionOK
  BY DEF Init, PlayOK, SessionOK, Labels, MaybeSession
<1>4. CallOK
  BY <1>1 DEF Init, CallOK, Mems, NoMem, CallLabels, MaybeSession, MaybePlayback,
              Modes, Nobody
<1>5. PlayInv
  BY <1>1 DEF Init, PlayInv
<1>6. CallInv
  BY DEF Init, CallInv, Procs, Nobody
<1>7. IndexInv /\ CancelInv
  BY DEF Init, IndexInv, CancelInv, NoMem, Nobody
<1>8. TrackInv /\ ActiveRuns
  BY <1>1 DEF Init, TrackInv, ActiveRuns, Over, Nobody
<1>9. StatusFits /\ HolderWillRelease
  BY DEF Init, StatusFits, HolderWillRelease, Nobody
<1>10. AllOwned
  BY DEF Init, AllOwned, Owned, Holds
<1>. QED  BY <1>2, <1>3, <1>4, <1>5, <1>6, <1>7, <1>8, <1>9, <1>10 DEF Types, Inv

LEMMA StutterInv ==
    ASSUME Types, Inv, UNCHANGED vars
    PROVE  Types' /\ Inv'
<1>0. UNCHANGED <<active, status, pauseReason, resumeOnAttach, attachment, mode,
                  index, playlist, created, paused, cancelled, exclusive, held,
                  excl, pp, track, out, prel, sent, sess, failing, cp, mem, rel,
                  new>>
  BY DEF vars, runtimeVars, queueVars, flagVars, holdVars, playVars, sessionVars,
         callVars
<1>1. Types'
  BY <1>0 DEF Types, RuntimeOK, QueueOK, FlagsOK, PlayOK, SessionOK, CallOK,
              QueueLen, InPlaylist
<1>2. PlayInv' /\ CallInv' /\ IndexInv' /\ CancelInv'
  BY <1>0 DEF Inv, PlayInv, CallInv, IndexInv, CancelInv
<1>3. TrackInv' /\ ActiveRuns' /\ StatusFits' /\ HolderWillRelease'
  BY <1>0 DEF Inv, TrackInv, ActiveRuns, StatusFits, HolderWillRelease, QueueLen,
              InPlaylist, Over
<1>4. AllOwned'
  BY <1>0, SameOwners DEF Inv, Begun
<1>. QED  BY <1>1, <1>2, <1>3, <1>4 DEF Inv

LEMMA PlaybackInv ==
    ASSUME Types, Inv, NEW p \in Playbacks, PlaybackNext(p)
    PROVE  Types' /\ Inv'
<1>1. WaitIfPaused(p, "wait", "prepare") \/ WaitIfPaused(p, "gate", "attach")
        => Types' /\ Inv'
  BY WaitIfPausedInv
<1>. QED
  BY <1>1, PlaybackBeginsInv, PrepareTrackInv, ReadFrameInv, WaitForAttachmentInv,
     BeginExclusiveInv, BeginGivesUpInv, ConfirmExclusiveInv, UndoExclusiveInv,
     BeginFailsInv, SentenceEndInv, SentenceEndedInv, AdvanceAfterTrackInv,
     MarkPlaybackInv, ReleaseExclusiveInv, PlaybackReleasesInv DEF PlaybackNext

LEMMA CallsInv ==
    ASSUME Types, Inv, NEW c \in Procs, CallNext(c)
    PROVE  Types' /\ Inv'
<1>1. Pause(c, "pause", "user") \/ Pause(c, "suspend", "interrupt")
        => Types' /\ Inv'
  BY PauseInv
<1>. QED
  BY <1>1, PlaysInv, ListInv, SkipInv, StopInv, CallReleasesInv, CallCancelsInv,
     ShouldResumeInv, RecoverReadsInv, RecoverDecidesInv, RecoverActiveInv,
     AppendReadsInv, AppendExtendsInv, AppendRebindsInv, ResumeIfInterruptedInv
     DEF CallNext

LEMMA StepInv == Types /\ Inv /\ [Next]_vars => Types' /\ Inv'
<1>. SUFFICES ASSUME Types, Inv, [Next]_vars
              PROVE  Types' /\ Inv'
  OBVIOUS
<1>1. ASSUME NEW s \in Sessions,
             \/ Attach(s) \/ Detach(s) \/ DetachReleases(s) \/ SenderReleases(s)
             \/ \E p \in Playbacks : SenderFails(s, p)
      PROVE  Types' /\ Inv'
  BY <1>1, AttachInv, DetachInv, DetachReleasesInv, SenderReleasesInv,
     SenderFailsInv
<1>2. ASSUME NEW p \in Playbacks, PlaybackNext(p)
      PROVE  Types' /\ Inv'
  BY <1>2, PlaybackInv
<1>3. ASSUME NEW c \in Procs, CallNext(c)
      PROVE  Types' /\ Inv'
  BY <1>3, CallsInv
<1>4. CASE UNCHANGED vars
  BY <1>4, StutterInv
<1>. QED  BY <1>1, <1>2, <1>3, <1>4 DEF Next

LEMMA AlwaysInv == Spec => [](Types /\ Inv)
<1>. QED  BY InitInv, StepInv, PTL DEF Spec

-----------------------------------------------------------------------------
(***************************************************************************)
(* What follows from the invariant.                                        *)
(***************************************************************************)
\* Every variable of the runtime keeps its type; in particular the index never
\* leaves the queue, although the playlist and the mode change under calls
\* that have read them (prepareTrack, currentIndexForActive).
THEOREM MediaTypeCorrect == Spec => []TypeOK
BY AlwaysInv, TypesAreTypeOK, PTL

LEMMA HoldersAre ==
    ASSUME NEW s \in Sessions
    PROVE  /\ \A h \in Holders(s) : \E k, x : h = <<k, x>> /\ Holds(k, x, s)
           /\ \A k, x : Holds(k, x, s) => <<k, x>> \in Holders(s)
<1>1. ASSUME NEW h \in Holders(s)
      PROVE  \E k, x : h = <<k, x>> /\ Holds(k, x, s)
  <2>1. CASE h \in {<<"runtime", 0>> : x \in {y \in {exclusive} : y = s}}
    <3>1. h = <<"runtime", 0>> /\ Holds("runtime", 0, s)
      BY <2>1 DEF Holds
    <3>. QED  BY <3>1
  <2>2. CASE h \in {<<"call", c>> : c \in {d \in Procs : rel[d] = s}}
    <3>1. PICK c \in Procs : h = <<"call", c>> /\ rel[c] = s
      BY <2>2
    <3>2. Holds("call", c, s)
      BY <3>1 DEF Holds
    <3>. QED  BY <3>1, <3>2
  <2>3. CASE h \in {<<"playback", p>> : p \in {q \in Playbacks : prel[q] = s}}
    <3>1. PICK p \in Playbacks : h = <<"playback", p>> /\ prel[p] = s
      BY <2>3
    <3>2. Holds("playback", p, s)
      BY <3>1 DEF Holds
    <3>. QED  BY <3>1, <3>2
  <2>4. CASE h \in {<<"begun", p>> : p \in {q \in Playbacks :
                        pp[q] \in {"confirm", "undo"} /\ out[q] = s}}
    <3>1. PICK p \in Playbacks : /\ h = <<"begun", p>>
                                 /\ pp[p] \in {"confirm", "undo"} /\ out[p] = s
      BY <2>4
    <3>2. Holds("begun", p, s)
      BY <3>1 DEF Holds
    <3>. QED  BY <3>1, <3>2
  <2>5. CASE h \in {<<"sender", x>> : x \in failing \intersect {s}}
    <3>1. h = <<"sender", s>> /\ Holds("sender", s, s)
      BY <2>5 DEF Holds
    <3>. QED  BY <3>1
  <2>6. CASE h \in {<<"close", x>> : x \in {t \in {s} : sess[t] = "closing"}}
    <3>1. h = <<"close", s>> /\ Holds("close", s, s)
      BY <2>6 DEF Holds
    <3>. QED  BY <3>1
  <2>. QED  BY <1>1, <2>1, <2>2, <2>3, <2>4, <2>5, <2>6 DEF Holders
<1>2. ASSUME NEW k, NEW x, Holds(k, x, s)
      PROVE  <<k, x>> \in Holders(s)
  BY <1>2 DEF Holds, Holders
<1>. QED  BY <1>1, <1>2

\* A session's speech output is exclusive just while one party is answerable
\* for it, whatever the order in which r.mu, BeginExclusiveMediaPlayback and
\* EndExclusiveMediaPlayback are called: no exclusivity is leaked, none is
\* ended twice.
THEOREM MediaOneHolder == Spec => []OneHolder
<1>1. Types /\ Inv => OneHolder
  <2>. SUFFICES ASSUME Inv, NEW s \in Sessions
                PROVE  Cardinality(Holders(s)) = IF excl[s] THEN 1 ELSE 0
    BY DEF OneHolder
  <2>0. Owned(s)
    BY DEF Inv, AllOwned
  <2>1. CASE excl[s]
    <3>1. PICK k, x : Holds(k, x, s)
      BY <2>0, <2>1 DEF Owned
    <3>2. Holders(s) = {<<k, x>>}
      <4>1. <<k, x>> \in Holders(s)
        BY <3>1, HoldersAre
      <4>2. ASSUME NEW h \in Holders(s)
            PROVE  h = <<k, x>>
        <5>1. PICK l, y : h = <<l, y>> /\ Holds(l, y, s)
          BY HoldersAre
        <5>2. l = k /\ y = x
          BY <2>0, <3>1, <5>1 DEF Owned
        <5>. QED  BY <5>1, <5>2
      <4>. QED  BY <4>1, <4>2
    <3>. QED  BY <2>1, <3>2, FS_Singleton
  <2>2. CASE ~excl[s]
    <3>1. Holders(s) = {}
      BY <2>0, <2>2, HoldersAre DEF Owned
    <3>. QED  BY <2>2, <3>1, FS_EmptySet
  <2>. QED  BY <2>1, <2>2
<1>. QED  BY <1>1, AlwaysInv, PTL

\* While the runtime registers an exclusive output, a goroutine that believes
\* it holds it has its deferred releaseExclusivePlayback before it.
THEOREM MediaHolderWillRelease == Spec => []HolderWillRelease
<1>1. Types /\ Inv => HolderWillRelease
  BY DEF Inv
<1>. QED  BY <1>1, AlwaysInv, PTL

\* The active playback runs or is about to, and is not cancelled, so that the
\* answer "already playing" of RecoverPlayback is true.
THEOREM MediaActiveRuns == Spec => []ActiveRuns
<1>1. Types /\ Inv => ActiveRuns
  BY DEF Inv
<1>. QED  BY <1>1, AlwaysInv, PTL

\* The reported status fits the active playback: stops, pauses and track ends
\* set both under r.mu, and a resume is armed only for one that waits.
THEOREM MediaStatusFits == Spec => []StatusFits
<1>1. Types /\ Inv => StatusFits
  BY DEF Inv
<1>. QED  BY <1>1, AlwaysInv, PTL
=============================================================================
