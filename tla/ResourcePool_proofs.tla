------------------------ MODULE ResourcePool_proofs -------------------------
(***************************************************************************)
(* Proofs about ResourcePool, for every set of callers and resources and   *)
(* every configuration that NewResourcePool accepts.                       *)
(***************************************************************************)
EXTENDS ResourcePool, FiniteSetTheorems, TLAPS

(***************************************************************************)
(* The inductive invariant.  NothingLost and ExclusiveUse say where every  *)
(* resource is; to be preserved they need to know what the cleanup and the *)
(* callers have in hand at each point (CleanerInv, GotInv), who can have   *)
(* the mutex (LockInv), and what a Resize in progress still has to remove  *)
(* (SizeInv).                                                              *)
(***************************************************************************)
GotInv == \A c \in Callers : got[c] # NoRes <=> pc[c] \in Carrying

CleanerInv ==
    /\ cleaner = "putBack" <=> hand # NoRes
    /\ toRemove # {} => cleaner \in {"scan", "putBack", "sweep"}

LockInv ==
    /\ cleaner \in {"scan", "putBack", "sweep"} => closer = "open" /\ resizer = "idle"
    /\ resizer = "shrinking" => closer = "open"

ExcessPositive == resizer = "shrinking" => excess > 0

InUseInv == \A c \in Callers : pc[c] = "holding" /\ ~closed => got[c] \in inUse

SizeInv ==
    IF resizer = "shrinking" THEN Cardinality(resources) = maxSize + excess
                             ELSE Cardinality(resources) <= maxSize

ChannelInv ==
    /\ Len(available) <= Capacity
    /\ PutBackHasRoom
    /\ IdleBound
    /\ cleaner = "putBack" => Len(available) < MinSize \/ Len(available) < MaxIdle

IInv ==
    /\ TypeOK
    /\ GotInv
    /\ CleanerInv
    /\ LockInv
    /\ ExcessPositive
    /\ InUseInv
    /\ ExclusiveUse
    /\ NothingLost
    /\ SizeInv
    /\ ChannelInv

-----------------------------------------------------------------------------
(***************************************************************************)
(* The channel: what a receive and a send do to its contents.              *)
(***************************************************************************)

\* Receiving takes the head, and only the head, out of the channel.
LEMMA ReceiveFacts ==
    ASSUME NEW S, NEW s \in Seq(S), s # <<>>
    PROVE  /\ Tail(s) \in Seq(S)
           /\ Head(s) \in S
           /\ Head(s) \in Elems(s)
           /\ Len(Tail(s)) = Len(s) - 1
           /\ Len(s) > 0
           /\ Distinct(s) => /\ Distinct(Tail(s))
                             /\ Elems(Tail(s)) = Elems(s) \ {Head(s)}
<1>1. /\ Tail(s) \in Seq(S) /\ Head(s) \in S /\ Len(Tail(s)) = Len(s) - 1 /\ Len(s) > 0
      /\ Head(s) = s[1] /\ Len(s) \in Nat
  OBVIOUS
<1>2. \A i \in 1 .. Len(Tail(s)) : Tail(s)[i] = s[i + 1]
  OBVIOUS
<1>3. Head(s) \in Elems(s)
  BY <1>1 DEF Elems
<1>4. ASSUME Distinct(s) PROVE Distinct(Tail(s))
  <2>1. SUFFICES ASSUME NEW i \in 1 .. Len(Tail(s)), NEW j \in 1 .. Len(Tail(s)),
                        Tail(s)[i] = Tail(s)[j]
                 PROVE  i = j
    BY DEF Distinct
  <2>2. i + 1 \in 1 .. Len(s) /\ j + 1 \in 1 .. Len(s)
    BY <1>1
  <2>3. s[i + 1] = s[j + 1]
    BY <1>2, <2>1
  <2> QED
    BY <1>4, <2>2, <2>3 DEF Distinct
<1>5. ASSUME Distinct(s) PROVE Elems(Tail(s)) = Elems(s) \ {Head(s)}
  <2>1. ASSUME NEW i \in 1 .. Len(Tail(s))
        PROVE  Tail(s)[i] \in Elems(s) /\ Tail(s)[i] # Head(s)
    <3>1. i + 1 \in 1 .. Len(s) /\ i + 1 # 1 /\ 1 \in 1 .. Len(s)
      BY <1>1
    <3>2. s[i + 1] # s[1]
      BY <1>5, <3>1 DEF Distinct
    <3> QED
      BY <1>1, <1>2, <3>1, <3>2 DEF Elems
  <2>2. ASSUME NEW i \in 1 .. Len(s), s[i] # Head(s)
        PROVE  s[i] \in Elems(Tail(s))
    <3>1. i # 1
      BY <1>1, <2>2
    <3>2. i - 1 \in 1 .. Len(Tail(s)) /\ (i - 1) + 1 = i
      BY <1>1, <3>1
    <3> QED
      BY <1>2, <3>2 DEF Elems
  <2> QED
    BY <2>1, <2>2 DEF Elems
<1> QED
  BY <1>1, <1>3, <1>4, <1>5

\* Sending adds one resource, which must not already be there to stay distinct.
LEMMA SendFacts ==
    ASSUME NEW S, NEW s \in Seq(S), NEW x \in S
    PROVE  /\ Append(s, x) \in Seq(S)
           /\ Len(Append(s, x)) = Len(s) + 1
           /\ Elems(Append(s, x)) = Elems(s) \union {x}
           /\ Distinct(s) /\ x \notin Elems(s) => Distinct(Append(s, x))
<1>1. /\ Append(s, x) \in Seq(S) /\ Len(Append(s, x)) = Len(s) + 1 /\ Len(s) \in Nat
      /\ Append(s, x)[Len(s) + 1] = x
  OBVIOUS
<1>2. \A i \in 1 .. Len(s) : Append(s, x)[i] = s[i]
  OBVIOUS
<1>3. 1 .. Len(Append(s, x)) = (1 .. Len(s)) \union {Len(s) + 1}
  BY <1>1
<1>4. Elems(Append(s, x)) = Elems(s) \union {x}
  BY <1>1, <1>2, <1>3 DEF Elems
<1>5. ASSUME Distinct(s), x \notin Elems(s) PROVE Distinct(Append(s, x))
  <2>1. SUFFICES ASSUME NEW i \in 1 .. Len(Append(s, x)), NEW j \in 1 .. Len(Append(s, x)),
                        Append(s, x)[i] = Append(s, x)[j]
                 PROVE  i = j
    BY DEF Distinct
  <2>2. CASE i \in 1 .. Len(s) /\ j \in 1 .. Len(s)
    BY <1>2, <1>5, <2>1, <2>2 DEF Distinct
  <2>3. CASE i \in 1 .. Len(s) /\ j = Len(s) + 1
    BY <1>1, <1>2, <1>5, <2>1, <2>3 DEF Elems
  <2>4. CASE i = Len(s) + 1 /\ j \in 1 .. Len(s)
    BY <1>1, <1>2, <1>5, <2>1, <2>4 DEF Elems
  <2> QED
    BY <1>3, <2>1, <2>2, <2>3, <2>4
<1> QED
  BY <1>1, <1>4, <1>5

-----------------------------------------------------------------------------
(***************************************************************************)
(* Type correctness.                                                       *)
(***************************************************************************)

\* destroyResourceUnsafe keeps the types of the pool's fields.
LEMMA DestroyType ==
    ASSUME TypeOK, NEW S, destroyResourceUnsafe(S)
    PROVE  /\ resources' \subseteq Res /\ inUse' \subseteq Res /\ broken' \subseteq Res
           /\ idle' \in [Res -> 0 .. IdleTimeout + 1]
BY PoolAssumption DEF TypeOK, destroyResourceUnsafe

\* Every step of Acquire and Release keeps the types.
LEMMA CallerType ==
    ASSUME TypeOK, GotInv, NEW c \in Callers, CallerStep(c) \/ Expire(c)
    PROVE  TypeOK'
<1> USE PoolAssumption DEF TypeOK, Carrying, poolVars, callerVars, cleanerVars, adminVars
<1>1. CASE Acquire(c)
  BY <1>1 DEF Acquire
<1>2. CASE SelectDone(c)
  BY <1>2 DEF SelectDone
<1>3. CASE SelectAvailable(c)
  <2>1. Head(available) \in Res /\ Tail(available) \in Seq(Res)
    BY <1>3, ReceiveFacts DEF SelectAvailable
  <2> QED
    BY <1>3, <2>1 DEF SelectAvailable
<1>4. CASE SelectNil(c)
  BY <1>4 DEF SelectNil
<1>5. CASE SelectDefault(c)
  BY <1>5 DEF SelectDefault
<1>6. CASE CreateFails(c)
  BY <1>6 DEF CreateFails
<1>7. CASE tryCreateResource(c)
  BY <1>7 DEF tryCreateResource
<1>8. CASE DropTaken(c)
  BY <1>8, DestroyType DEF DropTaken
<1>9. CASE MarkInUse(c)
  <2>1. got[c] \in Res
    BY <1>9 DEF MarkInUse, GotInv
  <2> QED
    BY <1>9, <2>1 DEF MarkInUse
<1>10. CASE Release(c)
  <2>1. CASE ReleaseRefused(got[c]) /\ UNCHANGED poolVars
    BY <1>10, <2>1 DEF Release
  <2>2. CASE destroyResourceUnsafe({got[c]}) /\ UNCHANGED available
    BY <1>10, <2>2, DestroyType DEF Release
  <2>3. CASE /\ ~ReleaseRefused(got[c])
             /\ inUse' = inUse \ {got[c]}
             /\ idle' = [idle EXCEPT ![got[c]] = 0]
             /\ available' = Append(available, got[c])
             /\ UNCHANGED <<resources, broken>>
    <3>1. got[c] \in Res
      BY <2>3 DEF ReleaseRefused
    <3> QED
      BY <1>10, <2>3, <3>1, SendFacts DEF Release
  <2> QED
    BY <1>10, <2>1, <2>2, <2>3 DEF Release
<1>11. CASE Expire(c)
  BY <1>11 DEF Expire
<1> QED
  BY <1>1, <1>2, <1>3, <1>4, <1>5, <1>6, <1>7, <1>8, <1>9, <1>10, <1>11 DEF CallerStep

\* Every step of the cleanup keeps the types.
LEMMA CleanerType ==
    ASSUME TypeOK, CleanerInv, CleanerStep
    PROVE  TypeOK'
<1> USE PoolAssumption DEF TypeOK, poolVars, callerVars, cleanerVars, adminVars
<1>1. CASE CleanupStart
  BY <1>1 DEF CleanupStart
<1>2. CASE CleanupTake
  <2>1. Head(available) \in Res /\ Tail(available) \in Seq(Res)
    BY <1>2, ReceiveFacts DEF CleanupTake
  <2> QED
    BY <1>2, <2>1 DEF CleanupTake
<1>3. CASE CleanupEmpty
  BY <1>3 DEF CleanupEmpty
<1>4. CASE CleanupPutBack
  <2>1. hand \in Res
    BY <1>4 DEF CleanupPutBack, CleanerInv
  <2> QED
    BY <1>4, <2>1, SendFacts DEF CleanupPutBack
<1>5. CASE CleanupSweep
  BY <1>5, DestroyType DEF CleanupSweep
<1>6. CASE CleanupExit
  BY <1>6 DEF CleanupExit
<1> QED
  BY <1>1, <1>2, <1>3, <1>4, <1>5, <1>6 DEF CleanerStep

\* Every step of Resize, of Close and of the environment keeps the types.
LEMMA AdminType ==
    ASSUME TypeOK, ExcessPositive,
           \/ \E n \in ResizeSizes : Resize(n)
           \/ ResizeShrink \/ CloserStep \/ (\E r \in Res : Break(r)) \/ Tick
    PROVE  TypeOK'
<1> USE PoolAssumption DEF TypeOK, poolVars, callerVars, cleanerVars, adminVars
<1>1. ASSUME NEW n \in ResizeSizes, Resize(n) PROVE TypeOK'
  <2>1. IsFiniteSet(resources)
    BY FS_Subset
  <2>2. Cardinality(resources) \in Nat
    BY <2>1, FS_CardinalityType
  <2> QED
    BY <1>1, <2>2 DEF Resize
<1>2. CASE ResizeShrink
  <2>1. Head(available) \in Res /\ Tail(available) \in Seq(Res)
    BY <1>2, ReceiveFacts DEF ResizeShrink
  <2>2. excess - 1 \in Nat
    BY <1>2 DEF ResizeShrink, ExcessPositive
  <2> QED
    BY <1>2, <2>1, <2>2, DestroyType DEF ResizeShrink
<1>3. CASE CloserStep
  <2>1. CASE CloseFlag \/ CloseCancel \/ CloseChannel
    BY <2>1 DEF CloseFlag, CloseCancel, CloseChannel
  <2>2. CASE CloseDrain
    <3>1. Head(available) \in Res /\ Tail(available) \in Seq(Res)
      BY <2>2, ReceiveFacts DEF CloseDrain
    <3> QED
      BY <2>2, <3>1, DestroyType DEF CloseDrain
  <2>3. CASE CloseSweep
    BY <2>3, DestroyType DEF CloseSweep
  <2> QED
    BY <1>3, <2>1, <2>2, <2>3 DEF CloserStep
<1>4. ASSUME NEW r \in Res, Break(r) PROVE TypeOK'
  BY <1>4 DEF Break
<1>5. CASE Tick
  BY <1>5 DEF Tick
<1> QED
  BY <1>1, <1>2, <1>3, <1>4, <1>5

-----------------------------------------------------------------------------
(***************************************************************************)
(* Where every resource is: the structural part of the invariant.          *)
(***************************************************************************)
Structure == GotInv /\ CleanerInv /\ LockInv /\ InUseInv /\ ExclusiveUse /\ NothingLost

\* The steps of a caller that move no resource.
LEMMA CallerStructureIdle ==
    ASSUME TypeOK, Structure, NEW c \in Callers,
           \/ Acquire(c) \/ SelectDone(c) \/ SelectNil(c) \/ SelectDefault(c)
           \/ CreateFails(c) \/ Expire(c)
    PROVE  Structure'
<1> USE DEF TypeOK, Carrying, poolVars, callerVars, cleanerVars, adminVars
<1>1. /\ UNCHANGED <<poolVars, got, cleanerVars, adminVars>>
      /\ (pc[c] \notin Carrying /\ pc'[c] \notin Carrying) \/ pc' = pc
      /\ \A d \in Callers \ {c} : pc'[d] = pc[d]
  BY DEF Acquire, SelectDone, SelectNil, SelectDefault, CreateFails, Expire
<1>2. GotInv' /\ InUseInv'
  BY <1>1 DEF Structure, GotInv, InUseInv, closed
<1>3. CleanerInv' /\ LockInv'
  BY <1>1 DEF Structure, CleanerInv, LockInv
<1>4. ExclusiveUse'
  BY <1>1 DEF Structure, ExclusiveUse, Elems, Distinct
<1>5. NothingLost'
  BY <1>1 DEF Structure, NothingLost, Elems, closed
<1> QED
  BY <1>2, <1>3, <1>4, <1>5 DEF Structure

\* An acquirer takes the head of the channel.
LEMMA SelectAvailableStructure ==
    ASSUME TypeOK, Structure, NEW c \in Callers, SelectAvailable(c)
    PROVE  Structure'
<1> USE DEF TypeOK, Carrying, poolVars, callerVars, cleanerVars, adminVars
<1> DEFINE r == Head(available)
<1>1. /\ r \in Res /\ r \in Elems(available)
      /\ Distinct(available')
      /\ Elems(available') = Elems(available) \ {r}
  BY ReceiveFacts DEF SelectAvailable, Structure, ExclusiveUse
<1>2. /\ UNCHANGED <<resources, inUse, broken, idle, late, cleanerVars, adminVars>>
      /\ got' = [got EXCEPT ![c] = r]
      /\ pc[c] = "select" /\ pc'[c] \in Carrying /\ pc'[c] # "holding"
      /\ \A d \in Callers \ {c} : pc'[d] = pc[d]
      /\ got \in [Callers -> Res \union {NoRes}]
  BY DEF SelectAvailable
<1> HIDE DEF r, TypeOK
<1>3. got[c] = NoRes /\ r # NoRes
  BY <1>1, <1>2, PoolAssumption DEF Structure, GotInv
<1>4. \A d \in Callers : got[d] # r
  <2>1. SUFFICES ASSUME NEW d \in Callers, got[d] = r PROVE FALSE
    OBVIOUS
  <2>2. pc[d] \in Carrying
    BY <1>3, <2>1 DEF Structure, GotInv
  <2> QED
    BY <1>1, <2>1, <2>2 DEF Structure, ExclusiveUse
<1>5. GotInv' /\ InUseInv'
  BY <1>2, <1>3 DEF Structure, GotInv, InUseInv, closed
<1>6. CleanerInv' /\ LockInv'
  BY <1>2 DEF Structure, CleanerInv, LockInv
<1>7. ExclusiveUse'
  <2>1. ASSUME NEW d \in Callers, pc'[d] \in Carrying
        PROVE  /\ got'[d] \notin Elems(available') \union toRemove' \union {hand'}
               /\ \A e \in Callers : got'[e] = got'[d] => e = d
    <3>1. CASE d = c
      BY <1>1, <1>2, <1>4, <3>1 DEF Structure, ExclusiveUse
    <3>2. CASE d # c
      BY <1>1, <1>2, <1>4, <2>1, <3>2 DEF Structure, ExclusiveUse
    <3> QED
      BY <3>1, <3>2
  <2>2. Elems(available') \intersect (toRemove' \union {hand'}) = {} /\ hand' \notin toRemove'
    BY <1>1, <1>2 DEF Structure, ExclusiveUse
  <2> QED
    BY <1>1, <2>1, <2>2 DEF ExclusiveUse, Elems, Distinct
<1>8. NothingLost'
  <2>1. SUFFICES ASSUME ~closed
                 PROVE  resources' = (Elems(available') \union toRemove' \union {hand'}
                                        \union {got'[d] : d \in Callers}) \ {NoRes}
    BY <1>2 DEF NothingLost, closed, Elems
  <2>2. {got'[d] : d \in Callers} \ {NoRes} = ({got[d] : d \in Callers} \union {r}) \ {NoRes}
    BY <1>2, <1>3
  <2> QED
    BY <1>1, <1>2, <2>1, <2>2 DEF Structure, NothingLost
<1> QED
  BY <1>5, <1>6, <1>7, <1>8 DEF Structure

\* An acquirer is given a resource the factory has just made.
LEMMA CreateStructure ==
    ASSUME TypeOK, Structure, NEW c \in Callers, tryCreateResource(c)
    PROVE  Structure'
<1> USE DEF Carrying, poolVars, callerVars, cleanerVars, adminVars
<1>1. PICK r \in Res \ Referenced :
          /\ resources' = resources \union {r}
          /\ inUse' = inUse \union {r}
          /\ got' = [got EXCEPT ![c] = r]
  BY DEF tryCreateResource
<1>2. /\ UNCHANGED <<available, cleanerVars, adminVars>>
      /\ pc[c] = "create" /\ pc'[c] = "holding"
      /\ \A d \in Callers \ {c} : pc'[d] = pc[d]
      /\ got \in [Callers -> Res \union {NoRes}]
      /\ got'[c] = r /\ \A d \in Callers \ {c} : got'[d] = got[d]
  BY <1>1 DEF tryCreateResource, TypeOK
<1>3. /\ r \notin Elems(available) /\ r \notin toRemove /\ r # hand /\ r # NoRes
      /\ \A d \in Callers : got[d] # r
  BY <1>1, PoolAssumption DEF Referenced
<1>4. got[c] = NoRes
  BY <1>2 DEF Structure, GotInv
<1>5. GotInv' /\ InUseInv'
  BY <1>1, <1>2, <1>3 DEF Structure, GotInv, InUseInv, closed
<1>6. CleanerInv' /\ LockInv'
  BY <1>2 DEF Structure, CleanerInv, LockInv
<1>7. ExclusiveUse'
  BY <1>2, <1>3 DEF Structure, ExclusiveUse
<1>8. NothingLost'
  <2>1. {got'[d] : d \in Callers} \ {NoRes} = ({got[d] : d \in Callers} \union {r}) \ {NoRes}
    BY <1>2, <1>3, <1>4
  <2> QED
    BY <1>1, <1>2, <1>3, <2>1 DEF Structure, NothingLost, closed
<1> QED
  BY <1>5, <1>6, <1>7, <1>8 DEF Structure

\* What a carrying caller has in hand is nowhere else.
LEMMA CarriedApart ==
    ASSUME TypeOK, Structure, NEW c \in Callers, pc[c] \in Carrying
    PROVE  /\ got[c] \in Res
           /\ got[c] \notin Elems(available) /\ got[c] \notin toRemove /\ got[c] # hand
           /\ \A d \in Callers : got[d] = got[c] => d = c
BY DEF TypeOK, Structure, GotInv, ExclusiveUse

\* A caller gives up what it carries without queueing it: when the pool is
\* open the resource is destroyed, otherwise nothing is claimed.
LEMMA LayDownStructure ==
    ASSUME TypeOK, Structure, NEW c \in Callers, pc[c] \in Carrying,
           UNCHANGED <<available, cleanerVars, adminVars>>,
           got' = [got EXCEPT ![c] = NoRes],
           pc'[c] \notin Carrying, \A d \in Callers \ {c} : pc'[d] = pc[d],
           \/ closed /\ UNCHANGED <<resources, inUse>>
           \/ destroyResourceUnsafe({got[c]})
    PROVE  Structure'
<1> USE DEF Carrying, cleanerVars, adminVars
<1>1. /\ got[c] \in Res
      /\ got[c] \notin Elems(available) /\ got[c] \notin toRemove /\ got[c] # hand
      /\ \A d \in Callers : got[d] = got[c] => d = c
  BY CarriedApart
<1>2. /\ got \in [Callers -> Res \union {NoRes}]
      /\ got'[c] = NoRes /\ \A d \in Callers \ {c} : got'[d] = got[d]
      /\ NoRes # got[c]
  BY <1>1, PoolAssumption DEF TypeOK
<1>3. GotInv'
  BY <1>2 DEF Structure, GotInv
<1>4. InUseInv'
  <2>1. SUFFICES ASSUME NEW d \in Callers, pc'[d] = "holding", ~closed
                 PROVE  got'[d] \in inUse'
    BY DEF InUseInv, closed
  <2>2. d # c
    BY <2>1
  <2> QED
    BY <1>1, <1>2, <2>1, <2>2 DEF Structure, InUseInv, destroyResourceUnsafe
<1>5. CleanerInv' /\ LockInv'
  BY DEF Structure, CleanerInv, LockInv
<1>6. ExclusiveUse'
  <2>1. ASSUME NEW d \in Callers, pc'[d] \in Carrying
        PROVE  /\ d # c
               /\ got'[d] \notin Elems(available) \union toRemove \union {hand}
               /\ got'[d] # NoRes
               /\ \A e \in Callers \ {c} : got'[e] = got'[d] => e = d
    BY <1>2, <2>1 DEF Structure, ExclusiveUse, GotInv
  <2> QED
    BY <1>2, <2>1 DEF Structure, ExclusiveUse
<1>7. NothingLost'
  <2>1. SUFFICES ASSUME ~closed PROVE NothingLost'
    BY DEF NothingLost, closed
  <2>2. {got'[d] : d \in Callers} \ {NoRes} = ({got[d] : d \in Callers} \ {NoRes}) \ {got[c]}
    BY <1>1, <1>2
  <2>3. resources' = resources \ {got[c]}
    BY <2>1 DEF destroyResourceUnsafe
  <2> QED
    BY <1>1, <2>1, <2>2, <2>3 DEF Structure, NothingLost
<1> QED
  BY <1>3, <1>4, <1>5, <1>6, <1>7 DEF Structure

\* A caller puts what it carries at the tail of the channel.
LEMMA QueueStructure ==
    ASSUME TypeOK, Structure, NEW c \in Callers, pc[c] = "holding",
           UNCHANGED <<resources, cleanerVars, adminVars>>,
           inUse' = inUse \ {got[c]},
           available' = Append(available, got[c]),
           got' = [got EXCEPT ![c] = NoRes],
           pc'[c] = "idle", \A d \in Callers \ {c} : pc'[d] = pc[d]
    PROVE  Structure'
<1> USE DEF Carrying, cleanerVars, adminVars
<1>1. /\ got[c] \in Res
      /\ got[c] \notin Elems(available) /\ got[c] \notin toRemove /\ got[c] # hand
      /\ \A d \in Callers : got[d] = got[c] => d = c
  BY CarriedApart
<1>2. /\ got \in [Callers -> Res \union {NoRes}]
      /\ got'[c] = NoRes /\ \A d \in Callers \ {c} : got'[d] = got[d]
      /\ NoRes # got[c]
  BY <1>1, PoolAssumption DEF TypeOK
<1>3. /\ Distinct(available')
      /\ Elems(available') = Elems(available) \union {got[c]}
  BY <1>1, SendFacts DEF TypeOK, Structure, ExclusiveUse
<1>4. GotInv'
  BY <1>2 DEF Structure, GotInv
<1>5. InUseInv'
  BY <1>1, <1>2 DEF Structure, InUseInv, closed
<1>6. CleanerInv' /\ LockInv'
  BY DEF Structure, CleanerInv, LockInv
<1>7. ExclusiveUse'
  <2>1. ASSUME NEW d \in Callers, pc'[d] \in Carrying
        PROVE  /\ d # c
               /\ got'[d] \notin Elems(available') \union toRemove \union {hand}
               /\ got'[d] # NoRes
               /\ \A e \in Callers \ {c} : got'[e] = got'[d] => e = d
    BY <1>1, <1>2, <1>3, <2>1 DEF Structure, ExclusiveUse, GotInv
  <2> QED
    BY <1>1, <1>2, <1>3, <2>1 DEF Structure, ExclusiveUse
<1>8. NothingLost'
  <2>1. {got'[d] : d \in Callers} \ {NoRes} = ({got[d] : d \in Callers} \ {NoRes}) \ {got[c]}
    BY <1>1, <1>2
  <2> QED
    BY <1>1, <1>2, <1>3, <2>1 DEF Structure, NothingLost, closed
<1> QED
  BY <1>4, <1>5, <1>6, <1>7, <1>8 DEF Structure

\* Every step of Acquire and Release keeps the structure.
LEMMA CallerStructure ==
    ASSUME TypeOK, Structure, NEW c \in Callers, CallerStep(c) \/ Expire(c)
    PROVE  Structure'
<1> USE DEF poolVars, callerVars, cleanerVars, adminVars
<1>0. pc \in [Callers -> Carrying \union {"idle", "select", "create", "panicked"}]
  BY DEF TypeOK
<1>1. CASE \/ Acquire(c) \/ SelectDone(c) \/ SelectNil(c) \/ SelectDefault(c)
           \/ CreateFails(c) \/ Expire(c)
  BY <1>1, CallerStructureIdle
<1>2. CASE SelectAvailable(c)
  BY <1>2, SelectAvailableStructure
<1>3. CASE tryCreateResource(c)
  BY <1>3, CreateStructure
<1>4. CASE DropTaken(c)
  <2>1. /\ pc[c] \in Carrying /\ pc'[c] \notin Carrying
        /\ \A d \in Callers \ {c} : pc'[d] = pc[d]
    BY <1>0, <1>4 DEF DropTaken, Carrying
  <2> QED
    BY <1>4, <2>1, LayDownStructure DEF DropTaken
<1>5. CASE MarkInUse(c)
  <2>1. /\ pc[c] = "mark" /\ pc'[c] = "holding"
        /\ \A d \in Callers \ {c} : pc'[d] = pc[d]
        /\ UNCHANGED <<resources, available, got, cleanerVars, adminVars>>
        /\ inUse' = inUse \union {got[c]}
    BY <1>0, <1>5 DEF MarkInUse
  <2>2. GotInv' /\ InUseInv' /\ CleanerInv' /\ LockInv'
    BY <2>1 DEF Structure, GotInv, InUseInv, CleanerInv, LockInv, closed, Carrying
  <2>3. ExclusiveUse'
    BY <2>1 DEF Structure, ExclusiveUse, Carrying
  <2>4. NothingLost'
    BY <2>1 DEF Structure, NothingLost, closed
  <2> QED
    BY <2>2, <2>3, <2>4 DEF Structure
<1>6. CASE Release(c)
  <2>1. /\ pc[c] = "holding" /\ pc'[c] = "idle"
        /\ \A d \in Callers \ {c} : pc'[d] = pc[d]
        /\ got' = [got EXCEPT ![c] = NoRes]
        /\ UNCHANGED <<cleanerVars, adminVars>>
    BY <1>0, <1>6 DEF Release
  <2>2. ~closed => ~ReleaseRefused(got[c])
    <3>1. ~closed => got[c] \in inUse
      BY <2>1 DEF Structure, InUseInv
    <3>2. got[c] # NoRes
      BY <2>1 DEF Structure, GotInv, Carrying
    <3>3. ~closed => got[c] \in resources
      BY <3>2 DEF Structure, NothingLost
    <3> QED
      BY <3>1, <3>3 DEF ReleaseRefused
  <2>3. CASE ReleaseRefused(got[c]) /\ UNCHANGED poolVars
    BY <2>1, <2>2, <2>3, LayDownStructure DEF Carrying
  <2>4. CASE destroyResourceUnsafe({got[c]}) /\ UNCHANGED available
    BY <2>1, <2>4, LayDownStructure DEF Carrying
  <2>5. CASE /\ inUse' = inUse \ {got[c]}
             /\ available' = Append(available, got[c])
             /\ UNCHANGED <<resources, broken>>
    BY <2>1, <2>5, QueueStructure
  <2> QED
    BY <1>6, <2>3, <2>4, <2>5 DEF Release
<1> QED
  BY <1>1, <1>2, <1>3, <1>4, <1>5, <1>6 DEF CallerStep

\* Every step of the cleanup keeps the structure.
LEMMA CleanerStructure ==
    ASSUME TypeOK, Structure, CleanerStep
    PROVE  Structure'
<1> USE DEF poolVars, callerVars, cleanerVars, adminVars
<1>0. /\ NoRes \notin Res /\ available \in Seq(Res) /\ toRemove \subseteq Res
      /\ \A c \in Callers : pc[c] \notin Carrying => got[c] = NoRes
  BY PoolAssumption DEF TypeOK, Structure, GotInv
<1>1. CASE CleanupStart \/ CleanupEmpty \/ CleanupExit
  <2>1. /\ UNCHANGED <<poolVars, callerVars, toRemove, hand, adminVars>>
        /\ cleaner # "putBack" /\ cleaner' # "putBack"
        /\ toRemove # {} => cleaner' \in {"scan", "putBack", "sweep"}
        /\ cleaner' \in {"scan", "putBack", "sweep"} => closer = "open" /\ resizer = "idle"
    BY <1>1 DEF CleanupStart, CleanupEmpty, CleanupExit, Structure, CleanerInv, LockInv,
                Unlocked, closed, TypeOK
  <2>2. GotInv' /\ InUseInv' /\ CleanerInv' /\ LockInv'
    BY <2>1 DEF Structure, GotInv, InUseInv, CleanerInv, LockInv, closed
  <2>3. ExclusiveUse' /\ NothingLost'
    BY <2>1 DEF Structure, ExclusiveUse, NothingLost, closed
  <2> QED
    BY <2>2, <2>3 DEF Structure
<1>2. CASE CleanupTake
  <2> DEFINE r == Head(available)
  <2>1. /\ r \in Res /\ r \in Elems(available)
        /\ Distinct(available')
        /\ Elems(available') = Elems(available) \ {r}
    BY <1>0, <1>2, ReceiveFacts DEF CleanupTake, Structure, ExclusiveUse
  <2>2. /\ UNCHANGED <<resources, inUse, callerVars, adminVars>>
        /\ cleaner = "scan" /\ hand = NoRes
        /\ \/ toRemove' = toRemove \union {r} /\ UNCHANGED <<cleaner, hand>>
           \/ hand' = r /\ cleaner' = "putBack" /\ UNCHANGED toRemove
    BY <1>2 DEF CleanupTake, Structure, CleanerInv
  <2> HIDE DEF r
  <2>3. \A c \in Callers : got[c] # r
    BY <1>0, <2>1 DEF Structure, ExclusiveUse
  <2>4. GotInv' /\ InUseInv' /\ CleanerInv' /\ LockInv'
    BY <1>0, <2>1, <2>2 DEF Structure, GotInv, InUseInv, CleanerInv, LockInv, closed
  <2>5. ExclusiveUse'
    BY <1>0, <2>1, <2>2, <2>3 DEF Structure, ExclusiveUse
  <2>6. NothingLost'
    BY <1>0, <2>1, <2>2 DEF Structure, NothingLost, closed
  <2> QED
    BY <2>4, <2>5, <2>6 DEF Structure
<1>3. CASE CleanupPutBack
  <2>1. /\ UNCHANGED <<resources, inUse, toRemove, callerVars, adminVars>>
        /\ cleaner = "putBack" /\ cleaner' = "sweep" /\ hand' = NoRes
        /\ hand \in Res
    BY <1>3 DEF CleanupPutBack, Structure, CleanerInv, TypeOK
  <2>2. hand \notin Elems(available)
    BY DEF Structure, ExclusiveUse
  <2>3. /\ Distinct(available')
        /\ Elems(available') = Elems(available) \union {hand}
    BY <1>0, <1>3, <2>1, <2>2, SendFacts DEF CleanupPutBack, Structure, ExclusiveUse
  <2>4. GotInv' /\ InUseInv' /\ CleanerInv' /\ LockInv'
    BY <2>1 DEF Structure, GotInv, InUseInv, CleanerInv, LockInv, closed
  <2>5. ExclusiveUse'
    <3>0. Elems(available) \subseteq Res
      BY <1>0 DEF Elems
    <3>1. NoRes \notin Elems(available')
      BY <1>0, <2>1, <2>3, <3>0
    <3> QED
      BY <1>0, <2>1, <2>3, <3>1 DEF Structure, ExclusiveUse, GotInv
  <2>6. NothingLost'
    BY <1>0, <2>1, <2>3 DEF Structure, NothingLost, closed
  <2> QED
    BY <2>4, <2>5, <2>6 DEF Structure
<1>4. CASE CleanupSweep
  <2>1. /\ UNCHANGED <<available, hand, callerVars, adminVars>>
        /\ resources' = resources \ toRemove /\ inUse' = inUse \ toRemove
        /\ toRemove' = {} /\ cleaner = "sweep" /\ cleaner' = "wait" /\ hand = NoRes
    BY <1>4 DEF CleanupSweep, destroyResourceUnsafe, Structure, CleanerInv
  <2>2. /\ \A c \in Callers : got[c] \notin toRemove
        /\ Elems(available) \intersect toRemove = {}
    BY <1>0 DEF Structure, ExclusiveUse
  <2>3. GotInv' /\ InUseInv' /\ CleanerInv' /\ LockInv'
    BY <2>1, <2>2 DEF Structure, GotInv, InUseInv, CleanerInv, LockInv, closed
  <2>4. ExclusiveUse'
    BY <2>1 DEF Structure, ExclusiveUse
  <2>5. NothingLost'
    BY <1>0, <2>1, <2>2 DEF Structure, NothingLost, closed
  <2> QED
    BY <2>3, <2>4, <2>5 DEF Structure
<1> QED
  BY <1>1, <1>2, <1>3, <1>4 DEF CleanerStep

\* Every step of Resize, of Close and of the environment keeps the structure.
LEMMA AdminStructure ==
    ASSUME TypeOK, Structure,
           \/ \E n \in ResizeSizes : Resize(n)
           \/ ResizeShrink \/ CloserStep \/ (\E r \in Res : Break(r)) \/ Tick
    PROVE  Structure'
<1> USE DEF poolVars, callerVars, cleanerVars, adminVars
<1>0. /\ NoRes \notin Res /\ available \in Seq(Res)
      /\ \A c \in Callers : pc[c] \notin Carrying => got[c] = NoRes
  BY PoolAssumption DEF TypeOK, Structure, GotInv
<1>1. CASE \/ \E n \in ResizeSizes : Resize(n)
           \/ CloseFlag \/ CloseCancel \/ CloseChannel
           \/ (\E r \in Res : Break(r)) \/ Tick
  <2>1. /\ UNCHANGED <<resources, inUse, available, callerVars, cleanerVars>>
        /\ closer' = "open" => closer = "open"
        /\ closer' # closer \/ resizer' # resizer =>
              cleaner \notin {"scan", "putBack", "sweep"}
        /\ resizer' = "shrinking" => closer' = "open"
    BY <1>1 DEF Resize, CloseFlag, CloseCancel, CloseChannel, Break, Tick, Unlocked, closed,
                Structure, LockInv, TypeOK
  <2>2. GotInv' /\ InUseInv' /\ CleanerInv' /\ LockInv'
    BY <2>1 DEF Structure, GotInv, InUseInv, CleanerInv, LockInv, closed
  <2>3. ExclusiveUse' /\ NothingLost'
    BY <2>1 DEF Structure, ExclusiveUse, NothingLost, closed
  <2> QED
    BY <2>2, <2>3 DEF Structure
<1>2. CASE ResizeShrink \/ CloseDrain
  <2> DEFINE r == Head(available)
  <2>1. /\ r \in Res /\ r \in Elems(available)
        /\ Distinct(available')
        /\ Elems(available') = Elems(available) \ {r}
    <3>1. available # <<>> /\ available' = Tail(available)
      BY <1>2 DEF ResizeShrink, CloseDrain
    <3>2. Distinct(available)
      BY DEF Structure, ExclusiveUse
    <3> QED
      BY <1>0, <3>1, <3>2, ReceiveFacts
  <2>2. /\ UNCHANGED <<callerVars, cleanerVars, closer>>
        /\ resources' = resources \ {r} /\ inUse' = inUse \ {r}
        /\ resizer' \in {resizer, "idle"}
    BY <1>2 DEF ResizeShrink, CloseDrain, destroyResourceUnsafe
  <2> HIDE DEF r
  <2>3. \A c \in Callers : got[c] # r
    BY <1>0, <2>1 DEF Structure, ExclusiveUse
  <2>4. GotInv' /\ InUseInv' /\ CleanerInv' /\ LockInv'
    BY <2>2, <2>3 DEF Structure, GotInv, InUseInv, CleanerInv, LockInv, closed
  <2>5. ExclusiveUse'
    BY <2>1, <2>2 DEF Structure, ExclusiveUse
  <2>6. NothingLost'
    <3>1. r \notin toRemove /\ r # hand
      BY <2>1 DEF Structure, ExclusiveUse
    <3> QED
      BY <2>1, <2>2, <2>3, <3>1 DEF Structure, NothingLost, closed
  <2> QED
    BY <2>4, <2>5, <2>6 DEF Structure
<1>3. CASE CloseSweep
  <2>1. /\ UNCHANGED <<available, callerVars, cleanerVars, resizer>>
        /\ closer = "draining" /\ closer' = "done"
    BY <1>3 DEF CloseSweep
  <2>2. GotInv' /\ InUseInv' /\ CleanerInv' /\ LockInv'
    BY <2>1 DEF Structure, GotInv, InUseInv, CleanerInv, LockInv, closed
  <2>3. ExclusiveUse' /\ NothingLost'
    BY <2>1 DEF Structure, ExclusiveUse, NothingLost, closed
  <2> QED
    BY <2>2, <2>3 DEF Structure
<1> QED
  BY <1>1, <1>2, <1>3 DEF CloserStep

-----------------------------------------------------------------------------
(***************************************************************************)
(* The limits.                                                             *)
(***************************************************************************)

\* Removing resources never raises the count; removing one the pool owns
\* lowers it by one; adding a new one raises it by one.
LEMMA CountFacts ==
    ASSUME NEW S \in SUBSET Res
    PROVE  /\ Cardinality(S) \in Nat
           /\ \A T : Cardinality(S \ T) \in Nat /\ Cardinality(S \ T) <= Cardinality(S)
           /\ \A r \in S : Cardinality(S \ {r}) = Cardinality(S) - 1
           /\ \A r : r \notin S => Cardinality(S \union {r}) = Cardinality(S) + 1
<1>1. IsFiniteSet(S)
  BY PoolAssumption, FS_Subset
<1>2. Cardinality(S) \in Nat
  BY <1>1, FS_CardinalityType
<1>3. ASSUME NEW T
      PROVE  Cardinality(S \ T) \in Nat /\ Cardinality(S \ T) <= Cardinality(S)
  <2>1. S \ T \in SUBSET S
    OBVIOUS
  <2>2. IsFiniteSet(S \ T) /\ Cardinality(S \ T) <= Cardinality(S)
    BY <1>1, <2>1, FS_Subset
  <2> QED
    BY <2>2, FS_CardinalityType
<1>4. \A r \in S : Cardinality(S \ {r}) = Cardinality(S) - 1
  BY <1>1, FS_RemoveElement
<1>5. \A r : r \notin S => Cardinality(S \union {r}) = Cardinality(S) + 1
  BY <1>1, FS_AddElement
<1> QED
  BY <1>2, <1>3, <1>4, <1>5

\* Every step keeps the size accounting.  Outside a shrinking Resize the map
\* only grows in tryCreateResource, below the limit; during one, the mutex is
\* taken, and each iteration removes one owned resource.
LEMMA SizeStep ==
    ASSUME TypeOK, Structure, ExcessPositive, SizeInv, [Next]_vars
    PROVE  SizeInv' /\ ExcessPositive'
<1> USE DEF poolVars, callerVars, cleanerVars, adminVars
<1>0. /\ resources \in SUBSET Res /\ excess \in Nat /\ maxSize \in Nat
      /\ Cardinality(resources) \in Nat
      /\ \A T : Cardinality(resources \ T) \in Nat
                /\ Cardinality(resources \ T) <= Cardinality(resources)
  BY CountFacts DEF TypeOK
<1>1. ASSUME resources' = resources, UNCHANGED <<resizer, excess, maxSize>>
      PROVE  SizeInv' /\ ExcessPositive'
  BY <1>1 DEF SizeInv, ExcessPositive
<1>2. ASSUME NEW S, destroyResourceUnsafe(S), UNCHANGED <<resizer, excess, maxSize>>,
             resizer = "idle"
      PROVE  SizeInv' /\ ExcessPositive'
  BY <1>0, <1>2 DEF SizeInv, ExcessPositive, destroyResourceUnsafe
<1>3. ASSUME NEW c \in Callers, tryCreateResource(c)
      PROVE  SizeInv' /\ ExcessPositive'
  <2>1. PICK r \in Res : r \notin resources /\ resources' = resources \union {r}
    BY <1>3 DEF tryCreateResource, Referenced
  <2>2. Cardinality(resources') = Cardinality(resources) + 1
    BY <1>0, <2>1, CountFacts
  <2>3. /\ UNCHANGED <<resizer, excess, maxSize>> /\ resizer = "idle"
        /\ Cardinality(resources) < maxSize
    BY <1>3 DEF tryCreateResource, Unlocked
  <2> QED
    BY <1>0, <2>2, <2>3 DEF SizeInv, ExcessPositive
<1>4. ASSUME NEW c \in Callers, CallerStep(c) \/ Expire(c)
      PROVE  SizeInv' /\ ExcessPositive'
  <2>1. CASE DropTaken(c)
    BY <1>2, <2>1 DEF DropTaken, Unlocked
  <2>2. CASE Release(c)
    <3>1. UNCHANGED <<resizer, excess, maxSize>> /\ resizer = "idle"
      BY <2>2 DEF Release, Unlocked
    <3>2. resources' = resources \/ destroyResourceUnsafe({got[c]})
      BY <2>2 DEF Release
    <3> QED
      BY <1>1, <1>2, <3>1, <3>2
  <2>3. CASE /\ UNCHANGED resources
             /\ UNCHANGED <<resizer, excess, maxSize>>
    BY <1>1, <2>3
  <2> QED
    BY <1>3, <1>4, <2>1, <2>2, <2>3
       DEF CallerStep, Acquire, SelectDone, SelectAvailable, SelectNil, SelectDefault,
           CreateFails, MarkInUse, Expire
<1>5. CASE CleanerStep
  <2>1. CASE CleanupSweep
    BY <1>2, <2>1 DEF CleanupSweep, Structure, LockInv
  <2>2. CASE ~CleanupSweep
    BY <1>1, <1>5, <2>2
       DEF CleanerStep, CleanupStart, CleanupTake, CleanupEmpty, CleanupPutBack, CleanupExit
  <2> QED
    BY <2>1, <2>2
<1>6. ASSUME NEW n \in ResizeSizes, Resize(n)
      PROVE  SizeInv' /\ ExcessPositive'
  <2>1. n \in Nat
    BY PoolAssumption
  <2>2. resources' = resources /\ maxSize' = n /\ resizer = "idle"
    BY <1>6 DEF Resize, Unlocked
  <2>3. CASE /\ Cardinality(resources) > n /\ resizer' = "shrinking"
             /\ excess' = Cardinality(resources) - n
    BY <1>0, <2>1, <2>2, <2>3 DEF SizeInv, ExcessPositive
  <2>4. CASE /\ n >= maxSize \/ Cardinality(resources) <= n
             /\ UNCHANGED <<resizer, excess>>
    BY <1>0, <2>1, <2>2, <2>4 DEF SizeInv, ExcessPositive
  <2> QED
    BY <1>6, <2>3, <2>4 DEF Resize
<1>7. CASE ResizeShrink
  <2>1. /\ resizer = "shrinking" /\ available # <<>>
        /\ resources' = resources \ {Head(available)}
        /\ excess' = excess - 1 /\ maxSize' = maxSize
        /\ resizer' = IF excess' = 0 THEN "idle" ELSE "shrinking"
    BY <1>7 DEF ResizeShrink, destroyResourceUnsafe
  <2>2. Head(available) \in Res /\ Head(available) \in Elems(available)
    BY <2>1, ReceiveFacts DEF TypeOK
  <2>3. Head(available) \in resources
    BY <2>1, <2>2, PoolAssumption DEF Structure, LockInv, NothingLost, closed
  <2>4. Cardinality(resources') = Cardinality(resources) - 1
    BY <1>0, <2>1, <2>3, CountFacts
  <2> QED
    BY <1>0, <2>1, <2>4 DEF SizeInv, ExcessPositive
<1>8. CASE CloserStep
  <2>1. CASE CloseDrain
    BY <1>2, <2>1 DEF CloseDrain, Structure, LockInv, TypeOK
  <2>2. CASE CloseSweep
    BY <1>2, <2>2 DEF CloseSweep, Structure, LockInv, TypeOK
  <2>3. CASE CloseFlag \/ CloseCancel \/ CloseChannel
    BY <1>1, <2>3 DEF CloseFlag, CloseCancel, CloseChannel
  <2> QED
    BY <1>8, <2>1, <2>2, <2>3 DEF CloserStep
<1>9. CASE (\E r \in Res : Break(r)) \/ Tick \/ UNCHANGED vars
  BY <1>1, <1>9 DEF Break, Tick, vars
<1> QED
  BY <1>4, <1>5, <1>6, <1>7, <1>8, <1>9 DEF Next

\* Every step keeps the channel within its capacity and its idle limit.  The
\* cleanup's send finds room because it has the mutex, without which nothing
\* is sent, and has just received.
LEMMA ChannelStep ==
    ASSUME TypeOK, Structure, ChannelInv, [Next]_vars
    PROVE  ChannelInv'
<1> USE DEF poolVars, callerVars, cleanerVars, adminVars
<1>0. /\ Len(available) \in Nat /\ Capacity \in Nat /\ MinSize \in Nat /\ MaxIdle \in Int
      /\ available \in Seq(Res)
  BY PoolAssumption DEF TypeOK
<1>1. ASSUME available' = available, cleaner' = cleaner \/ cleaner' # "putBack"
      PROVE  ChannelInv'
  BY <1>1 DEF ChannelInv, PutBackHasRoom, IdleBound
<1>2. ASSUME available # <<>>, available' = Tail(available)
      PROVE  ChannelInv'
  <2>1. Len(available') = Len(available) - 1
    BY <1>0, <1>2, ReceiveFacts
  <2> QED
    BY <1>0, <2>1 DEF ChannelInv, PutBackHasRoom, IdleBound
<1>3. ASSUME NEW c \in Callers, CallerStep(c) \/ Expire(c)
      PROVE  ChannelInv'
  <2>1. CASE SelectAvailable(c)
    BY <1>2, <2>1 DEF SelectAvailable
  <2>2. CASE Release(c)
    <3>1. CASE available' = available
      BY <1>1, <2>2, <3>1 DEF Release
    <3>2. CASE /\ ~ReleaseRefused(got[c])
               /\ ~ReleaseDestroys(got[c])
               /\ available' = Append(available, got[c])
      <4>1. got[c] \in Res
        BY <3>2 DEF ReleaseRefused, TypeOK
      <4>2. Len(available') = Len(available) + 1
        BY <1>0, <3>2, <4>1, SendFacts
      <4>3. Len(available) < MaxIdle /\ Len(available) < Capacity
        BY <1>0, <3>2 DEF ReleaseDestroys
      <4>4. cleaner' # "putBack"
        BY <2>2 DEF Release, Unlocked
      <4> QED
        BY <1>0, <4>2, <4>3, <4>4 DEF ChannelInv, PutBackHasRoom, IdleBound
    <3> QED
      BY <2>2, <3>1, <3>2 DEF Release
  <2>3. CASE UNCHANGED available /\ UNCHANGED cleaner
    BY <1>1, <2>3
  <2> QED
    BY <1>3, <2>1, <2>2, <2>3
       DEF CallerStep, Acquire, SelectDone, SelectNil, SelectDefault, CreateFails,
           tryCreateResource, DropTaken, MarkInUse, Expire
<1>4. CASE CleanerStep
  <2>1. CASE CleanupTake
    BY <1>2, <2>1 DEF CleanupTake
  <2>2. CASE CleanupPutBack
    <3>1. hand \in Res /\ cleaner = "putBack" /\ cleaner' = "sweep"
      BY <2>2 DEF CleanupPutBack, Structure, CleanerInv, TypeOK
    <3>2. Len(available') = Len(available) + 1
      BY <1>0, <2>2, <3>1, SendFacts DEF CleanupPutBack
    <3> QED
      BY <1>0, <3>1, <3>2 DEF ChannelInv, PutBackHasRoom, IdleBound
  <2>3. CASE CleanupStart \/ CleanupEmpty \/ CleanupSweep \/ CleanupExit
    BY <1>1, <2>3 DEF CleanupStart, CleanupEmpty, CleanupSweep, CleanupExit
  <2> QED
    BY <1>4, <2>1, <2>2, <2>3 DEF CleanerStep
<1>5. CASE ResizeShrink \/ CloseDrain
  BY <1>2, <1>5 DEF ResizeShrink, CloseDrain
<1>6. CASE \/ \E n \in ResizeSizes : Resize(n)
           \/ CloseFlag \/ CloseCancel \/ CloseChannel \/ CloseSweep
           \/ (\E r \in Res : Break(r)) \/ Tick \/ UNCHANGED vars
  BY <1>1, <1>6 DEF Resize, CloseFlag, CloseCancel, CloseChannel, CloseSweep, Break, Tick, vars
<1> QED
  BY <1>3, <1>4, <1>5, <1>6 DEF Next, CloserStep

-----------------------------------------------------------------------------
(***************************************************************************)
(* The invariant is inductive.                                             *)
(***************************************************************************)
LEMMA InitIInv == Init => IInv
<1> SUFFICES ASSUME Init PROVE IInv
  OBVIOUS
<1> USE DEF Init
<1>1. available \in Seq(Res) /\ Len(available) = MinSize
  BY PoolAssumption
<1>2. Elems(available) \subseteq Res
  BY <1>1 DEF Elems
<1>3. TypeOK
  BY <1>1, <1>2, PoolAssumption DEF TypeOK
<1>4. GotInv /\ CleanerInv /\ LockInv /\ ExcessPositive /\ InUseInv
  BY DEF GotInv, CleanerInv, LockInv, ExcessPositive, InUseInv, Carrying
<1>5. ExclusiveUse
  BY <1>2, PoolAssumption DEF ExclusiveUse, Carrying
<1>6. NothingLost
  <2>1. {got[c] : c \in Callers} \subseteq {NoRes}
    OBVIOUS
  <2> QED
    BY <1>2, <2>1, PoolAssumption DEF NothingLost
<1>7. SizeInv
  <2>1. IsFiniteSet(1 .. MinSize) /\ Cardinality(1 .. MinSize) = MinSize
    BY PoolAssumption, FS_Interval
  <2>2. available \in Surjection(1 .. MinSize, Elems(available))
    BY <1>1 DEF Surjection, Elems
  <2>3. Cardinality(Elems(available)) <= MinSize
    BY <2>1, <2>2, FS_Surjection
  <2>4. IsFiniteSet(resources) /\ Cardinality(resources) \in Nat
    BY <1>2, PoolAssumption, FS_Subset, FS_CardinalityType
  <2> QED
    BY <2>3, <2>4, PoolAssumption DEF SizeInv
<1>8. ChannelInv
  BY <1>1, PoolAssumption DEF ChannelInv, PutBackHasRoom, IdleBound
<1> QED
  BY <1>3, <1>4, <1>5, <1>6, <1>7, <1>8 DEF IInv

LEMMA NextIInv == IInv /\ [Next]_vars => IInv'
<1> SUFFICES ASSUME IInv, [Next]_vars PROVE IInv'
  OBVIOUS
<1>1. TypeOK /\ Structure /\ ExcessPositive /\ SizeInv /\ ChannelInv
  BY DEF IInv, Structure
<1>2. SizeInv' /\ ExcessPositive'
  BY <1>1, SizeStep
<1>3. ChannelInv'
  BY <1>1, ChannelStep
<1>4. TypeOK' /\ Structure'
  <2>1. CASE UNCHANGED vars
    BY <1>1, <2>1
       DEF vars, poolVars, callerVars, cleanerVars, adminVars, TypeOK, Structure, GotInv,
           CleanerInv, LockInv, InUseInv, ExclusiveUse, NothingLost, closed
  <2>2. ASSUME NEW c \in Callers, CallerStep(c) \/ Expire(c) PROVE TypeOK' /\ Structure'
    BY <1>1, <2>2, CallerType, CallerStructure DEF Structure
  <2>3. CASE CleanerStep
    BY <1>1, <2>3, CleanerType, CleanerStructure DEF Structure
  <2>4. CASE \/ \E n \in ResizeSizes : Resize(n)
             \/ ResizeShrink \/ CloserStep \/ (\E r \in Res : Break(r)) \/ Tick
    BY <1>1, <2>4, AdminType, AdminStructure
  <2> QED
    BY <2>1, <2>2, <2>3, <2>4 DEF Next
<1> QED
  BY <1>2, <1>3, <1>4 DEF IInv, Structure

\* The inductive invariant holds throughout every behaviour of the pool.
THEOREM PoolInvariant == Spec => []IInv
BY InitIInv, NextIInv, PTL DEF Spec

-----------------------------------------------------------------------------
(***************************************************************************)
(* The safety properties of the pool, for every configuration.             *)
(***************************************************************************)

\* Every variable of the pool keeps its type.
THEOREM PoolTypeCorrect == Spec => []TypeOK
<1>1. IInv => TypeOK
  BY DEF IInv
<1> QED
  BY <1>1, PoolInvariant, PTL

\* A resource never has two owners, whatever the interleaving of the
\* acquirers' unlocked receives with Release, cleanup, Resize and Close.
THEOREM PoolExclusiveUse == Spec => []ExclusiveUse
<1>1. IInv => ExclusiveUse
  BY DEF IInv
<1> QED
  BY <1>1, PoolInvariant, PTL

\* Until Close, the map holds exactly the resources in circulation.
THEOREM PoolNothingLost == Spec => []NothingLost
<1>1. IInv => NothingLost
  BY DEF IInv
<1> QED
  BY <1>1, PoolInvariant, PTL

\* The pool never owns more than its maximum, except inside a Resize.
THEOREM PoolSizeBound == Spec => []SizeBound
<1>1. IInv => SizeBound
  BY DEF IInv, SizeInv, SizeBound
<1> QED
  BY <1>1, PoolInvariant, PTL

\* While the pool is open, Release accepts every resource Acquire returned.
THEOREM PoolReleaseAccepted == Spec => []ReleaseAccepted
<1>1. IInv => ReleaseAccepted
  BY DEF IInv, GotInv, InUseInv, NothingLost, ReleaseAccepted, ReleaseRefused, Carrying
<1> QED
  BY <1>1, PoolInvariant, PTL

\* The cleanup never blocks on the channel with the mutex held.
THEOREM PoolPutBackHasRoom == Spec => []PutBackHasRoom
<1>1. IInv => PutBackHasRoom
  BY DEF IInv, ChannelInv
<1> QED
  BY <1>1, PoolInvariant, PTL

\* The channel respects max_idle, except for what was created in advance.
THEOREM PoolIdleBound == Spec => []IdleBound
<1>1. IInv => IdleBound
  BY DEF IInv, ChannelInv
<1> QED
  BY <1>1, PoolInvariant, PTL

-----------------------------------------------------------------------------
(***************************************************************************)
(* Refinement: a pool that is neither resized nor closed leases resources  *)
(* exclusively and at most Capacity at a time.                             *)
(***************************************************************************)
leaseOf == [c \in Callers |-> IF pc[c] = "holding" THEN got[c] ELSE NoRes]

Undisturbed == closer = "open" /\ resizer = "idle" /\ maxSize = Capacity

\* The resources out on lease are owned by the pool.
LEMMA LeasedOwned ==
    ASSUME IInv, Undisturbed
    PROVE  Lease!Leased \subseteq resources
<1>1. ASSUME NEW c \in Callers, leaseOf[c] # NoRes
      PROVE  leaseOf[c] \in resources
  <2>1. leaseOf[c] = got[c]
    BY <1>1 DEF leaseOf
  <2> QED
    BY <1>1, <2>1 DEF IInv, NothingLost, Undisturbed, closed
<1>2. Lease!Leased = {leaseOf[c] : c \in Callers} \ {NoRes}
  BY DEF Lease!Leased, leaseOf
<1> QED
  BY <1>1, <1>2

\* Handing an owned resource that is not out on lease to a caller, below the
\* limit, is a Grant.
LEMMA GrantStep ==
    ASSUME IInv, Undisturbed, NEW c \in Callers, NEW r \in Res,
           pc[c] # "holding", pc'[c] = "holding", got'[c] = r,
           \A d \in Callers \ {c} : pc'[d] = pc[d] /\ got'[d] = got[d],
           \A d \in Callers \ {c} : got[d] # r,
           Cardinality(resources) < Capacity \/ r \in resources
    PROVE  Lease!Grant(c, r)
<1>1. Lease!Leased = {leaseOf[d] : d \in Callers} \ {NoRes}
  BY DEF Lease!Leased, leaseOf
<1>2. leaseOf[c] = NoRes /\ \A d \in Callers \ {c} : leaseOf[d] # r
  BY PoolAssumption DEF leaseOf
<1>3. r \notin Lease!Leased
  BY <1>1, <1>2, PoolAssumption
<1>4. leaseOf' = [leaseOf EXCEPT ![c] = r]
  BY DEF leaseOf
<1>5. Cardinality(Lease!Leased) < Capacity
  <2>1. /\ Lease!Leased \subseteq resources
        /\ resources \in SUBSET Res /\ Lease!Leased \in SUBSET Res
    BY LeasedOwned DEF IInv, TypeOK
  <2>2. Cardinality(resources) <= Capacity
    BY DEF IInv, SizeInv, Undisturbed
  <2>3. IsFiniteSet(resources)
    BY <2>1, PoolAssumption, FS_Subset
  <2>4. /\ Cardinality(Lease!Leased) \in Nat /\ Cardinality(resources) \in Nat
        /\ Cardinality(Lease!Leased) <= Cardinality(resources)
    BY <2>1, <2>3, CountFacts, FS_Subset
  <2>5. CASE r \in resources
    <3>1. Lease!Leased \union {r} \in SUBSET resources
      BY <2>1, <2>5
    <3>2. Cardinality(Lease!Leased \union {r}) <= Cardinality(resources)
      BY <2>3, <3>1, FS_Subset
    <3>3. Cardinality(Lease!Leased \union {r}) = Cardinality(Lease!Leased) + 1
      BY <1>3, <2>1, CountFacts
    <3> QED
      BY <2>2, <2>4, <3>2, <3>3, PoolAssumption
  <2>6. CASE Cardinality(resources) < Capacity
    BY <2>4, <2>6, PoolAssumption
  <2> QED
    BY <2>5, <2>6
<1>6. [d \in Callers |-> IF pc[d] = "holding" THEN got[d] ELSE NoRes][c] = NoRes
  OBVIOUS
<1>7. [d \in Callers |-> IF pc[d] = "holding" THEN got[d] ELSE NoRes]'
         = [[d \in Callers |-> IF pc[d] = "holding" THEN got[d] ELSE NoRes] EXCEPT ![c] = r]
  BY <1>4 DEF leaseOf
<1>8. Lease!Cardinality(Lease!Leased) = Cardinality(Lease!Leased)
  BY DEF Lease!Cardinality, Cardinality
<1> QED
  BY <1>3, <1>5, <1>6, <1>7, <1>8 DEF Lease!Grant

\* Every step of an undisturbed pool is a step of the lease, or no step of it.
LEMMA LeaseStep ==
    ASSUME IInv, Undisturbed, [Next]_vars
    PROVE  [Lease!Next]_leaseOf
<1> USE DEF poolVars, callerVars, cleanerVars, adminVars
<1>0. /\ pc \in [Callers -> Carrying \union {"idle", "select", "create", "panicked"}]
      /\ got \in [Callers -> Res \union {NoRes}]
  BY DEF IInv, TypeOK
<1>1. CASE UNCHANGED <<pc, got>>
  BY <1>1 DEF leaseOf
<1>2. ASSUME NEW c \in Callers, CallerStep(c)
      PROVE  [Lease!Next]_leaseOf
  <2>1. CASE tryCreateResource(c)
    <3>1. PICK r \in Res \ Referenced : got' = [got EXCEPT ![c] = r]
      BY <2>1 DEF tryCreateResource
    <3>2. /\ pc[c] # "holding" /\ pc'[c] = "holding" /\ got'[c] = r
          /\ \A d \in Callers \ {c} : pc'[d] = pc[d] /\ got'[d] = got[d]
          /\ \A d \in Callers : got[d] # r
          /\ Cardinality(resources) < Capacity
      BY <1>0, <2>1, <3>1 DEF tryCreateResource, Referenced, Undisturbed
    <3>3. Lease!Grant(c, r)
      BY <3>2, GrantStep
    <3> QED
      BY <3>3 DEF Lease!Next
  <2>2. CASE MarkInUse(c)
    <3>1. /\ pc[c] = "mark" /\ pc'[c] = "holding" /\ got'[c] = got[c]
          /\ \A d \in Callers \ {c} : pc'[d] = pc[d] /\ got'[d] = got[d]
      BY <1>0, <2>2 DEF MarkInUse
    <3>2. /\ got[c] \in Res /\ \A d \in Callers \ {c} : got[d] # got[c]
      BY <1>0, <3>1 DEF IInv, GotInv, ExclusiveUse, Carrying
    <3>3. got[c] \in resources
      BY <3>2, PoolAssumption DEF IInv, NothingLost, Undisturbed, closed
    <3>4. PICK r \in Res : r = got[c]
      BY <3>2
    <3>5. Lease!Grant(c, r)
      BY <3>1, <3>2, <3>3, <3>4, GrantStep
    <3> QED
      BY <3>5 DEF Lease!Next
  <2>3. CASE Release(c)
    <3>1. /\ pc[c] = "holding" /\ pc'[c] = "idle"
          /\ \A d \in Callers \ {c} : pc'[d] = pc[d] /\ got'[d] = got[d]
      BY <1>0, <2>3 DEF Release
    <3>2. leaseOf[c] # NoRes /\ leaseOf' = [leaseOf EXCEPT ![c] = NoRes]
      BY <3>1 DEF leaseOf, IInv, GotInv, Carrying
    <3>3. Lease!GiveBack(c)
      BY <3>2 DEF Lease!GiveBack, leaseOf
    <3> QED
      BY <3>3 DEF Lease!Next
  <2>4. CASE /\ pc[c] # "holding" /\ pc'[c] # "holding"
             /\ \A d \in Callers \ {c} : pc'[d] = pc[d] /\ got'[d] = got[d]
    BY <2>4 DEF leaseOf
  <2> QED
    BY <1>0, <1>2, <2>1, <2>2, <2>3, <2>4
       DEF CallerStep, Acquire, SelectDone, SelectAvailable, SelectNil, SelectDefault,
           CreateFails, DropTaken
<1>3. CASE \E c \in Callers : Expire(c)
  BY <1>1, <1>3 DEF Expire
<1>4. CASE CleanerStep
  BY <1>1, <1>4 DEF CleanerStep, CleanupStart, CleanupTake, CleanupEmpty, CleanupPutBack,
                    CleanupSweep, CleanupExit
<1>5. CASE CloserStep
  BY <1>1, <1>5 DEF CloserStep, CloseFlag, CloseCancel, CloseChannel, CloseDrain, CloseSweep
<1>6. CASE \/ \E n \in ResizeSizes : Resize(n)
           \/ ResizeShrink \/ (\E r \in Res : Break(r)) \/ Tick \/ UNCHANGED vars
  BY <1>1, <1>6 DEF Resize, ResizeShrink, Break, Tick, vars
<1> QED
  BY <1>2, <1>3, <1>4, <1>5, <1>6 DEF Next

\* A pool on which nobody calls Resize or Close implements ResourceLease: no
\* resource is leased twice and at most config.MaxSize leases are out.
THEOREM PoolImplementsLease ==
    ASSUME MayClose = FALSE, ResizeSizes = {}
    PROVE  Spec => LeaseSpec
<1>1. Init => Lease!Init
  BY DEF Init, Lease!Init
<1>2. Init => Undisturbed
  BY DEF Init, Undisturbed
<1>3. Undisturbed /\ [Next]_vars => Undisturbed'
  <2>1. SUFFICES ASSUME Undisturbed, [Next]_vars PROVE Undisturbed'
    OBVIOUS
  <2>2. UNCHANGED adminVars
    <3>1. CASE UNCHANGED vars
      BY <3>1 DEF vars
    <3>2. ASSUME NEW c \in Callers, CallerStep(c) \/ Expire(c) PROVE UNCHANGED adminVars
      BY <3>2 DEF CallerStep, Acquire, Expire, SelectDone, SelectAvailable, SelectNil,
                  SelectDefault, CreateFails, tryCreateResource, DropTaken, MarkInUse, Release
    <3>3. CASE CleanerStep
      BY <3>3 DEF CleanerStep, CleanupStart, CleanupTake, CleanupEmpty, CleanupPutBack,
                  CleanupSweep, CleanupExit
    <3>4. CASE CloserStep
      BY <2>1, <3>4 DEF CloserStep, CloseFlag, CloseCancel, CloseChannel, CloseDrain,
                        CloseSweep, Undisturbed, adminVars
    <3>5. CASE ResizeShrink \/ (\E r \in Res : Break(r)) \/ Tick
      BY <2>1, <3>5 DEF ResizeShrink, Break, Tick, Undisturbed
    <3> QED
      BY <2>1, <3>1, <3>2, <3>3, <3>4, <3>5 DEF Next
  <2> QED
    BY <2>1, <2>2 DEF Undisturbed, adminVars
<1>4. IInv /\ Undisturbed /\ [Next]_vars => [Lease!Next]_leaseOf
  BY LeaseStep
<1> QED
  BY <1>1, <1>2, <1>3, <1>4, PoolInvariant, PTL DEF Spec, LeaseSpec, Lease!Spec, leaseOf
=============================================================================
