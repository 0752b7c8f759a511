---------------------------- MODULE ResourcePool ----------------------------
(***************************************************************************)
(* The generic provider pool of internal/util/resource_pool.go, as the     *)
(* VAD, ASR, LLM and TTS pools of internal/pool instantiate it.            *)
(*                                                                         *)
(* A pool is a map `resources` of everything it owns, a buffered channel   *)
(* `available` of what may be borrowed, and a mutex.  The channel is read  *)
(* WITHOUT the mutex by acquirers, and with it by the cleanup goroutine,   *)
(* by Resize and by Close; the interleavings between the two are the       *)
(* subject of this module.  A step of the model is a stretch of code that  *)
(* no other goroutine can observe in the middle: a critical section that   *)
(* does not touch the channel, or one operation on the channel.            *)
(***************************************************************************)
EXTENDS Integers, Sequences, FiniteSets

CONSTANTS
    Callers,            \* goroutines that acquire and release
    Res,                \* identities of resources the factory can create
    NoRes,              \* "no resource in hand"
    Capacity,           \* config.MaxSize when the pool is made: channel size
    MinSize,            \* config.MinSize
    MaxIdle,            \* config.MaxIdle
    IdleTimeout,        \* config.IdleTimeout, in ticks of the model's clock
    ValidateOnBorrow,   \* config.ValidateOnBorrow
    ValidateOnReturn,   \* config.ValidateOnReturn
    ResizeSizes,        \* the arguments Resize may be called with ({}: never)
    MayClose            \* whether somebody calls Close

\* NewResourcePool refuses any other configuration (lines 96-104).
ASSUME PoolAssumption ==
    /\ NoRes \notin Res
    /\ IsFiniteSet(Res)
    /\ Capacity \in Nat \ {0}
    /\ MinSize \in 0 .. Capacity
    /\ MinSize <= Cardinality(Res)
    /\ MaxIdle \in Int
    /\ IdleTimeout \in Nat
    /\ ValidateOnBorrow \in BOOLEAN
    /\ ValidateOnReturn \in BOOLEAN
    /\ MayClose \in BOOLEAN
    /\ ResizeSizes \subseteq Nat \ {0}

VARIABLES
    resources,  \* keys of p.resources: what the pool owns and has not closed
    inUse,      \* the pooledResources whose inUse flag is set
    broken,     \* resources whose IsValid / Validate has turned false
    idle,       \* ticks since lastUsed, saturating past IdleTimeout
    available,  \* the channel p.available
    maxSize,    \* p.config.MaxSize, which Resize changes
    pc,         \* where each caller is in Acquire / Release
    got,        \* the pooledResource each caller has in hand
    late,       \* callers whose acquire context has timed out
    cleaner,    \* the cleanup goroutine
    expired,    \* what was past IdleTimeout at the `now` of this cleanup
    toRemove,   \* expired resources the cleanup has taken off the channel
    hand,       \* the fresh resource the cleanup is about to put back
    closer,     \* progress of Close
    resizer,    \* progress of Resize
    excess      \* Resize's loop counter

poolVars == <<resources, inUse, broken, idle, available>>
callerVars == <<pc, got, late>>
cleanerVars == <<cleaner, expired, toRemove, hand>>
adminVars == <<closer, resizer, excess, maxSize>>
vars == <<poolVars, callerVars, cleanerVars, adminVars>>

Elems(s) == {s[i] : i \in 1 .. Len(s)}
Distinct(s) == \A i, j \in 1 .. Len(s) : s[i] = s[j] => i = j

closed == closer # "open"
\* Fault: p.cancel() is called only after cleanupWg.Wait().
cancelledLate == closer \in {"draining", "done"}
cancelled == closer \notin {"open", "flagged"}
chanClosed == closer \in {"draining", "done"}

(***************************************************************************)
(* p.mu.  It is held across several steps by a cleanup, by a shrinking     *)
(* Resize and by the second half of Close; every other critical section    *)
(* is a single step.                                                       *)
(***************************************************************************)
Unlocked ==
    /\ cleaner \in {"wait", "exited"}
    /\ resizer = "idle"
    /\ closer # "draining"

\* Callers that have a pooledResource in hand.
Carrying == {"dropInvalid", "dropReset", "mark", "holding"}

\* Every resource some part of the pool still refers to.
Referenced ==
    resources \union Elems(available) \union toRemove \union {hand}
        \union {got[c] : c \in Callers}

-----------------------------------------------------------------------------
\* Close the resources in S and delete them from the map.  The fields of a
\* closed resource are forgotten.
destroyResourceUnsafe(S) ==
    /\ resources' = resources \ S
    /\ inUse' = inUse \ S
    /\ broken' = broken \ S
    /\ idle' = [r \in Res |-> IF r \in S THEN 0 ELSE idle[r]]

\* Pre-creation fills the channel before the pool is published.
Init ==
    /\ available \in [1 .. MinSize -> Res]
    /\ Distinct(available)
    /\ resources = Elems(available)
    /\ inUse = {}
    /\ broken = {}
    /\ idle = [r \in Res |-> 0]
    /\ maxSize = Capacity
    /\ pc = [c \in Callers |-> "idle"]
    /\ got = [c \in Callers |-> NoRes]
    /\ late = {}
    /\ cleaner = IF IdleTimeout = 0 THEN "exited" ELSE "wait"
    /\ expired = {}
    /\ toRemove = {}
    /\ hand = NoRes
    /\ closer = "open"
    /\ resizer = "idle"
    /\ excess = 0

-----------------------------------------------------------------------------
(***************************************************************************)
(* AcquireWithTimeout                                                      *)
(***************************************************************************)
Acquire(c) ==
    /\ pc[c] = "idle"
    /\ Unlocked
    /\ ~closed
    /\ pc' = [pc EXCEPT ![c] = "select"]
    /\ late' = late \ {c}
    /\ UNCHANGED <<poolVars, got, cleanerVars, adminVars>>

\* The deadline of the acquire context passes.
Expire(c) ==
    /\ pc[c] \in {"select", "create", "dropInvalid", "dropReset"}
    /\ c \notin late
    /\ late' = late \union {c}
    /\ UNCHANGED <<poolVars, pc, got, cleanerVars, adminVars>>

\* Fault: the acquire context is made without the timeout.
SelectDoneNoTimeout(c) ==
    /\ pc[c] = "select"
    /\ cancelled
    /\ pc' = [pc EXCEPT ![c] = "idle"]
    /\ UNCHANGED <<poolVars, got, late, cleanerVars, adminVars>>

\* case <-ctx.Done()
SelectDone(c) ==
    /\ pc[c] = "select"
    /\ c \in late \/ cancelled
    /\ pc' = [pc EXCEPT ![c] = "idle"]
    /\ UNCHANGED <<poolVars, got, late, cleanerVars, adminVars>>

\* case pooled := <-p.available, then the unlocked validity check and Reset.
\* A Reset that fails is the factory's choice.
SelectAvailable(c) ==
    /\ pc[c] = "select"
    /\ available # <<>>
    /\ LET r == Head(available)
       IN  /\ got' = [got EXCEPT ![c] = r]
           /\ \E next \in IF ValidateOnBorrow /\ r \in broken
                          THEN {"dropInvalid"}
                          ELSE {"mark", "dropReset"} :
                  pc' = [pc EXCEPT ![c] = next]
    /\ available' = Tail(available)
    /\ UNCHANGED <<resources, inUse, broken, idle, late, cleanerVars, adminVars>>

\* The same case on the channel Close has closed and emptied: the received
\* pointer is nil and its first use panics.
SelectNil(c) ==
    /\ pc[c] = "select"
    /\ chanClosed
    /\ available = <<>>
    /\ pc' = [pc EXCEPT ![c] = "panicked"]
    /\ UNCHANGED <<poolVars, got, late, cleanerVars, adminVars>>

\* default: no case of the select is ready.
SelectDefault(c) ==
    /\ pc[c] = "select"
    /\ c \notin late
    /\ ~cancelled
    /\ available = <<>>
    /\ pc' = [pc EXCEPT ![c] = "create"]
    /\ UNCHANGED <<poolVars, got, late, cleanerVars, adminVars>>

\* tryCreateResource that finds the pool full, or whose factory fails: the
\* acquirer sleeps or continues, and selects again.
CreateFails(c) ==
    /\ pc[c] = "create"
    /\ Unlocked
    /\ pc' = [pc EXCEPT ![c] = "select"]
    /\ UNCHANGED <<poolVars, got, late, cleanerVars, adminVars>>

\* Fault: the limit test admits one resource too many.
tryCreateResourceOffByOne(c) ==
    /\ pc[c] = "create"
    /\ Unlocked
    /\ Cardinality(resources) <= maxSize
    /\ \E r \in Res \ Referenced :
          /\ resources' = resources \union {r}
          /\ inUse' = inUse \union {r}
          /\ got' = [got EXCEPT ![c] = r]
          /\ idle' = [idle EXCEPT ![r] = 0]
          /\ broken' = broken \ {r}
    /\ pc' = [pc EXCEPT ![c] = "holding"]
    /\ UNCHANGED <<available, late, cleanerVars, adminVars>>

\* tryCreateResource: below the limit, the factory makes a new resource that
\* is in use from the start.  It does not look at p.closed.
tryCreateResource(c) ==
    /\ pc[c] = "create"
    /\ Unlocked
    /\ Cardinality(resources) < maxSize
    /\ \E r \in Res \ Referenced :
          /\ resources' = resources \union {r}
          /\ inUse' = inUse \union {r}
          /\ got' = [got EXCEPT ![c] = r]
          /\ idle' = [idle EXCEPT ![r] = 0]
          /\ broken' = broken \ {r}
    /\ pc' = [pc EXCEPT ![c] = "holding"]
    /\ UNCHANGED <<available, late, cleanerVars, adminVars>>

\* destroyResource of what failed validation (then try to create) or Reset
\* (then select again).
DropTaken(c) ==
    /\ pc[c] \in {"dropInvalid", "dropReset"}
    /\ Unlocked
    /\ destroyResourceUnsafe({got[c]})
    /\ got' = [got EXCEPT ![c] = NoRes]
    /\ pc' = [pc EXCEPT ![c] = IF pc[c] = "dropInvalid" THEN "create" ELSE "select"]
    /\ UNCHANGED <<available, late, cleanerVars, adminVars>>

\* Mark the taken resource as in use and return it.
MarkInUse(c) ==
    /\ pc[c] = "mark"
    /\ Unlocked
    /\ inUse' = inUse \union {got[c]}
    /\ idle' = [idle EXCEPT ![got[c]] = 0]
    /\ pc' = [pc EXCEPT ![c] = "holding"]
    /\ UNCHANGED <<resources, broken, available, got, late, cleanerVars, adminVars>>

-----------------------------------------------------------------------------
(***************************************************************************)
(* Release                                                                 *)
(***************************************************************************)
\* The error returns: pool closed, resource unknown, resource not in use.
ReleaseRefused(r) ==
    closed \/ r \notin resources \/ r \notin inUse

\* What Release closes instead of queueing.
ReleaseDestroys(r) ==
    \/ ValidateOnReturn /\ r \in broken
    \/ Len(available) >= MaxIdle
    \/ Len(available) >= Capacity

\* Fault: Release does not take the mutex.
ReleaseUnlocked(c) ==
    /\ pc[c] = "holding"
    /\ \/ /\ ReleaseRefused(got[c])
          /\ UNCHANGED poolVars
       \/ /\ ~ReleaseRefused(got[c])
          /\ ReleaseDestroys(got[c])
          /\ destroyResourceUnsafe({got[c]})
          /\ UNCHANGED available
       \/ /\ ~ReleaseRefused(got[c])
          /\ ~ReleaseDestroys(got[c])
          /\ inUse' = inUse \ {got[c]}
          /\ idle' = [idle EXCEPT ![got[c]] = 0]
          /\ available' = Append(available, got[c])
          /\ UNCHANGED <<resources, broken>>
    /\ got' = [got EXCEPT ![c] = NoRes]
    /\ pc' = [pc EXCEPT ![c] = "idle"]
    /\ UNCHANGED <<late, cleanerVars, adminVars>>

\* Fault: above the idle limit the resource is dropped, not closed.
ReleaseLeaks(c) ==
    /\ pc[c] = "holding"
    /\ Unlocked
    /\ \/ /\ ReleaseRefused(got[c]) \/ ReleaseDestroys(got[c])
          /\ UNCHANGED poolVars
       \/ /\ ~ReleaseRefused(got[c])
          /\ ~ReleaseDestroys(got[c])
          /\ inUse' = inUse \ {got[c]}
          /\ idle' = [idle EXCEPT ![got[c]] = 0]
          /\ available' = Append(available, got[c])
          /\ UNCHANGED <<resources, broken>>
    /\ got' = [got EXCEPT ![c] = NoRes]
    /\ pc' = [pc EXCEPT ![c] = "idle"]
    /\ UNCHANGED <<late, cleanerVars, adminVars>>

Release(c) ==
    /\ pc[c] = "holding"
    /\ Unlocked
    /\ \/ /\ ReleaseRefused(got[c])
          /\ UNCHANGED poolVars
       \/ /\ ~ReleaseRefused(got[c])
          /\ ReleaseDestroys(got[c])
          /\ destroyResourceUnsafe({got[c]})
          /\ UNCHANGED available
       \/ /\ ~ReleaseRefused(got[c])
          /\ ~ReleaseDestroys(got[c])
          /\ inUse' = inUse \ {got[c]}
          /\ idle' = [idle EXCEPT ![got[c]] = 0]
          /\ available' = Append(available, got[c])
          /\ UNCHANGED <<resources, broken>>
    /\ got' = [got EXCEPT ![c] = NoRes]
    /\ pc' = [pc EXCEPT ![c] = "idle"]
    /\ UNCHANGED <<late, cleanerVars, adminVars>>

-----------------------------------------------------------------------------
(***************************************************************************)
(* cleanupIdleResources, once per tick of IdleTimeout / 2                  *)
(***************************************************************************)
\* Fault: the idle test is inverted.
CleanupStartInverted ==
    /\ cleaner = "wait"
    /\ Unlocked
    /\ ~closed
    /\ cleaner' = "scan"
    /\ expired' = {r \in resources : idle[r] <= IdleTimeout}
    /\ UNCHANGED <<poolVars, callerVars, toRemove, hand, adminVars>>

CleanupStart ==
    /\ cleaner = "wait"
    /\ Unlocked
    /\ ~closed
    /\ cleaner' = "scan"
    /\ expired' = {r \in resources : idle[r] > IdleTimeout}
    /\ UNCHANGED <<poolVars, callerVars, toRemove, hand, adminVars>>

\* case pooled := <-p.available
CleanupTake ==
    /\ cleaner = "scan"
    /\ available # <<>>
    /\ available' = Tail(available)
    /\ LET r == Head(available)
       IN  \/ /\ r \in expired
              /\ toRemove' = toRemove \union {r}
              /\ UNCHANGED <<cleaner, hand>>
           \/ /\ r \notin expired
              /\ hand' = r
              /\ cleaner' = "putBack"
              /\ UNCHANGED toRemove
    /\ UNCHANGED <<resources, inUse, broken, idle, expired, callerVars, adminVars>>

\* default: the channel is empty
CleanupEmpty ==
    /\ cleaner = "scan"
    /\ available = <<>>
    /\ cleaner' = "sweep"
    /\ UNCHANGED <<poolVars, callerVars, expired, toRemove, hand, adminVars>>

\* Fault: what was put back is also scheduled for removal.
CleanupPutBackAndRemove ==
    /\ cleaner = "putBack"
    /\ Len(available) < Capacity
    /\ available' = Append(available, hand)
    /\ toRemove' = toRemove \union {hand}
    /\ hand' = NoRes
    /\ cleaner' = "sweep"
    /\ UNCHANGED <<resources, inUse, broken, idle, expired, callerVars, adminVars>>

\* The first fresh resource goes back, at the tail.  The send blocks, with
\* the mutex held, while the channel is full.
CleanupPutBack ==
    /\ cleaner = "putBack"
    /\ Len(available) < Capacity
    /\ available' = Append(available, hand)
    /\ hand' = NoRes
    /\ cleaner' = "sweep"
    /\ UNCHANGED <<resources, inUse, broken, idle, expired, toRemove, callerVars, adminVars>>

CleanupSweep ==
    /\ cleaner = "sweep"
    /\ destroyResourceUnsafe(toRemove)
    /\ toRemove' = {}
    /\ expired' = {}
    /\ cleaner' = "wait"
    /\ UNCHANGED <<available, hand, callerVars, adminVars>>

\* case <-p.ctx.Done()
CleanupExit ==
    /\ cleaner = "wait"
    /\ cancelled
    /\ cleaner' = "exited"
    /\ UNCHANGED <<poolVars, callerVars, expired, toRemove, hand, adminVars>>

-----------------------------------------------------------------------------
(***************************************************************************)
(* Resize                                                                  *)
(***************************************************************************)
Resize(newMaxSize) ==
    /\ Unlocked
    /\ ~closed
    /\ maxSize' = newMaxSize
    /\ \/ /\ newMaxSize < maxSize
          /\ Cardinality(resources) > newMaxSize
          /\ resizer' = "shrinking"
          /\ excess' = Cardinality(resources) - newMaxSize
       \/ /\ \/ newMaxSize >= maxSize
             \/ Cardinality(resources) <= newMaxSize
          /\ UNCHANGED <<resizer, excess>>
    /\ UNCHANGED <<poolVars, callerVars, cleanerVars, closer>>

\* Fault: the loop does not stop when the excess is gone.
ResizeShrinkNoStop ==
    /\ resizer = "shrinking"
    /\ available # <<>>
    /\ destroyResourceUnsafe({Head(available)})
    /\ available' = Tail(available)
    /\ excess' = excess - 1
    /\ UNCHANGED <<callerVars, cleanerVars, closer, maxSize, resizer>>

\* One iteration of the shrinking loop that receives a resource.  When the
\* channel is empty the `break` leaves only the select, so the loop spins
\* with the mutex held: a stuttering step of this model.
ResizeShrink ==
    /\ resizer = "shrinking"
    /\ available # <<>>
    /\ destroyResourceUnsafe({Head(available)})
    /\ available' = Tail(available)
    /\ excess' = excess - 1
    /\ resizer' = IF excess' = 0 THEN "idle" ELSE "shrinking"
    /\ UNCHANGED <<callerVars, cleanerVars, closer, maxSize>>

-----------------------------------------------------------------------------
(***************************************************************************)
(* Close                                                                   *)
(***************************************************************************)
CloseFlag ==
    /\ MayClose
    /\ closer = "open"
    /\ Unlocked
    /\ closer' = "flagged"
    /\ UNCHANGED <<poolVars, callerVars, cleanerVars, resizer, excess, maxSize>>

CloseCancel ==
    /\ closer = "flagged"
    /\ closer' = "cancelled"
    /\ UNCHANGED <<poolVars, callerVars, cleanerVars, resizer, excess, maxSize>>

\* cleanupWg.Wait(), take the mutex, close the channel.
CloseChannel ==
    /\ closer = "cancelled"
    /\ cleaner = "exited"
    /\ Unlocked
    /\ closer' = "draining"
    /\ UNCHANGED <<poolVars, callerVars, cleanerVars, resizer, excess, maxSize>>

\* for pooled := range p.available: acquirers still compete for the buffer.
CloseDrain ==
    /\ closer = "draining"
    /\ available # <<>>
    /\ destroyResourceUnsafe({Head(available)})
    /\ available' = Tail(available)
    /\ UNCHANGED <<callerVars, cleanerVars, adminVars>>

\* Then everything left in the map, in use or not.
CloseSweep ==
    /\ closer = "draining"
    /\ available = <<>>
    /\ destroyResourceUnsafe(resources)
    /\ closer' = "done"
    /\ UNCHANGED <<available, callerVars, cleanerVars, resizer, excess, maxSize>>

-----------------------------------------------------------------------------
(***************************************************************************)
(* The environment: providers go bad, time passes.                         *)
(***************************************************************************)
Break(r) ==
    /\ r \in resources \ broken
    /\ broken' = broken \union {r}
    /\ UNCHANGED <<resources, inUse, idle, available, callerVars, cleanerVars, adminVars>>

Tick ==
    /\ \E r \in resources \ inUse : idle[r] <= IdleTimeout
    /\ idle' = [r \in Res |-> IF r \in resources \ inUse /\ idle[r] <= IdleTimeout
                              THEN idle[r] + 1 ELSE idle[r]]
    /\ UNCHANGED <<resources, inUse, broken, available, callerVars, cleanerVars, adminVars>>

\* A panicking goroutine takes the whole process down.
Running == \A c \in Callers : pc[c] # "panicked"

CallerStep(c) ==
    \/ Acquire(c) \/ SelectDone(c) \/ SelectAvailable(c) \/ SelectNil(c)
    \/ SelectDefault(c) \/ CreateFails(c) \/ tryCreateResource(c)
    \/ DropTaken(c) \/ MarkInUse(c) \/ Release(c)

CleanerStep ==
    \/ CleanupStart \/ CleanupTake \/ CleanupEmpty
    \/ CleanupPutBack \/ CleanupSweep \/ CleanupExit

CloserStep == CloseFlag \/ CloseCancel \/ CloseChannel \/ CloseDrain \/ CloseSweep

Next ==
    /\ Running
    /\ \/ \E c \in Callers : CallerStep(c) \/ Expire(c)
       \/ CleanerStep
       \/ \E n \in ResizeSizes : Resize(n)
       \/ ResizeShrink
       \/ CloserStep
       \/ \E r \in Res : Break(r)
       \/ Tick

Spec == Init /\ [][Next]_vars

-----------------------------------------------------------------------------
(***************************************************************************)
(* Fairness.  Every goroutine that can run keeps running (WF); a goroutine *)
(* waiting for the mutex gets it, sync.RWMutex being starvation free (SF); *)
(* a select with several ready cases picks one at random, so the deadline  *)
(* case is not ignored for ever (SF).  Holders are not obliged to release, *)
(* nobody is obliged to call Acquire, Resize or Close.                     *)
(***************************************************************************)
CallerFairness(c) ==
    /\ WF_vars(Running /\ (SelectAvailable(c) \/ SelectDefault(c)))
    /\ WF_vars(Running /\ Expire(c))
    /\ SF_vars(Running /\ SelectDone(c))
    /\ SF_vars(Running /\ (CreateFails(c) \/ tryCreateResource(c)))
    /\ SF_vars(Running /\ DropTaken(c))
    /\ SF_vars(Running /\ MarkInUse(c))

AdminFairness ==
    /\ SF_vars(Running /\ CleanupStart)
    /\ WF_vars(Running /\ (CleanupTake \/ CleanupEmpty \/ CleanupPutBack \/ CleanupSweep))
    /\ WF_vars(Running /\ CleanupExit)
    /\ WF_vars(Running /\ ResizeShrink)
    /\ WF_vars(Running /\ (CloseCancel \/ CloseDrain \/ CloseSweep))
    /\ SF_vars(Running /\ CloseChannel)

FairSpec == Spec /\ (\A c \in Callers : CallerFairness(c)) /\ AdminFairness

-----------------------------------------------------------------------------
(***************************************************************************)
(* Properties                                                              *)
(***************************************************************************)
\* Every variable keeps its type.
TypeOK ==
    /\ resources \subseteq Res
    /\ inUse \subseteq Res
    /\ broken \subseteq Res
    /\ idle \in [Res -> 0 .. IdleTimeout + 1]
    /\ available \in Seq(Res)
    /\ maxSize \in Nat \ {0}
    /\ pc \in [Callers -> Carrying \union {"idle", "select", "create", "panicked"}]
    /\ got \in [Callers -> Res \union {NoRes}]
    /\ late \subseteq Callers
    /\ cleaner \in {"wait", "scan", "putBack", "sweep", "exited"}
    /\ expired \subseteq Res
    /\ toRemove \subseteq Res
    /\ hand \in Res \union {NoRes}
    /\ closer \in {"open", "flagged", "cancelled", "draining", "done"}
    /\ resizer \in {"idle", "shrinking"}
    /\ excess \in Nat

\* No resource is in two places: in the hands of two callers, twice in the
\* channel, or in a caller's hands while the channel or the cleanup still has
\* it.  The channel is read without the mutex, so only the hand-over protocol
\* of Acquire, Release and cleanup keeps a provider from serving two
\* sessions at once.
ExclusiveUse ==
    /\ Distinct(available)
    /\ \A c \in Callers : pc[c] \in Carrying =>
          /\ got[c] \notin Elems(available) \union toRemove \union {hand}
          /\ \A d \in Callers : got[d] = got[c] => d = c
    /\ Elems(available) \intersect (toRemove \union {hand}) = {}
    /\ hand \notin toRemove

\* Until Close, what the pool counts against its limit is exactly what can
\* still be used, returned or removed: no resource leaks out of the map's
\* reach, and nothing in circulation has already been closed.
NothingLost ==
    ~closed =>
        resources = (Elems(available) \union toRemove \union {hand}
                       \union {got[c] : c \in Callers}) \ {NoRes}

\* The pool never owns more than the configured maximum, whatever the
\* interleaving of creations, evictions and resizes; only a Resize in
\* progress, which has the mutex, may still be above the new maximum.
SizeBound == Cardinality(resources) <= maxSize \/ resizer = "shrinking"

\* Release of an acquired resource never fails while the pool is open: the
\* callers ignore its error, so a refusal would lose the resource.
ReleaseAccepted ==
    \A c \in Callers : pc[c] = "holding" /\ ~closed => ~ReleaseRefused(got[c])

\* The cleanup's blocking send, made with the mutex held, always finds room.
PutBackHasRoom == cleaner = "putBack" => Len(available) < Capacity

\* The channel never holds more idle resources than MaxIdle, except for those
\* that were created in advance.
IdleBound == Len(available) <= MinSize \/ Len(available) <= MaxIdle

\* The pool implements the lease discipline of ResourceLease.
Lease == INSTANCE ResourceLease WITH
    Users <- Callers, Items <- Res, NoItem <- NoRes, Limit <- Capacity,
    lease <- [c \in Callers |-> IF pc[c] = "holding" THEN got[c] ELSE NoRes]

LeaseSpec == Lease!Spec

\* An acquire returns, with a resource or an error, even when others hold the
\* whole pool for ever and resources keep going bad; only a crash of the
\* process (SelectNil) excuses it.
AcquireReturns ==
    \A c \in Callers : pc[c] = "select" ~> (pc[c] \in {"idle", "holding"} \/ ~Running)

\* A resource that has been idle too long is closed or used again, although
\* each cleanup stops at the first fresh resource and moves it behind the
\* others.
ExpiredReclaimed ==
    \A r \in Res :
        (r \in Elems(available) /\ idle[r] > IdleTimeout)
            ~> (r \notin resources \/ idle[r] = 0 \/ ~Running)

\* Resize returns, though it may find fewer idle resources than it has to
\* remove.  Not so: see pool_resize.cfg.
ResizeReturns == resizer = "shrinking" ~> (resizer = "idle" \/ ~Running)

\* Close returns: waiting for the cleanup goroutine cannot deadlock with it.
CloseReturns == closer = "flagged" ~> (closer = "done" \/ ~Running)
=============================================================================
