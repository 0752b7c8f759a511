------------------------ MODULE MqttTransport_proofs ------------------------
(***************************************************************************)
(* Proofs about MqttTransport, for every number of cleanup callbacks,      *)
(* actors, objects, events and reloads.                                    *)
(***************************************************************************)
EXTENDS MqttTransport, SequenceTheorems, TLAPS

(***************************************************************************)
(* The inductive invariant.                                                *)
(*                                                                         *)
(* PcInv: what a goroutine has in hand at some points of the code.         *)
(* SessionInv: who owns a UDP session.  Besides the two properties it says *)
(* that a session has one owner, so that closing one closes no other; that *)
(* a connection which a closer has done with has no session but a stray;   *)
(* and that processMessage works on the registered connection or on one a  *)
(* closer has done with.                                                   *)
(* ManagerInv: what a goroutine that closes a connection knows of the map. *)
(***************************************************************************)
Done == {"d_note", "d_end"}

PcInv ==
    /\ pc["proc"] = "mark" => st["proc"] # 0
    /\ pc["proc"] \in Installing \cup {"bind"} => job.conn # 0
    /\ pc["proc"] = "create" => reg = 0
    /\ pc["proc"] = "bind" => job.udp # 0
    /\ \A p \in Procs : pc[p] \in Closing \cup Done \cup {"k_check"} => me[p] # 0

InHand ==
    job.udp # 0 => /\ pc["proc"] \in {"bind", "close_old"}
                   /\ job.udp \in open
                   /\ \A c \in Conns : udp[c] # job.udp

SessionInv ==
    /\ OnlyRacesLeak
    /\ BoundSessionOpen
    /\ \A c, d \in Conns : udp[c] # 0 /\ udp[c] = udp[d] => c = d
    /\ InHand
    /\ \A c \in dead : udp[c] = 0 \/ udp[c] \in strays
    /\ job.conn # 0 => job.conn = reg \/ job.conn \in dead

ManagerInv ==
    /\ RegisteredHasManager
    /\ reg # 0 /\ hooks[reg] # 2 => job.conn = reg /\ pc["proc"] \in Installing
    /\ \A p \in Procs :
          /\ pc[p] \in Closing \ {"d_flags", "d_lookup"} =>
                found[p] \in {0, me[p]} /\ (reg = me[p] => found[p] = me[p])
          /\ pc[p] = "d_note" => reg # me[p]
          /\ pc[p] = "d_end" => calls[p] = 0 \/ reg # me[p]

IInv == TypeOK /\ PcInv /\ SessionInv /\ ManagerInv

USE TransportAssumption
USE DEF brokerVars, stateVars, connVars, appVars, threadVars, historyVars

-----------------------------------------------------------------------------
(***************************************************************************)
(* Types.                                                                  *)
(***************************************************************************)

\* A part of the state that a step leaves alone keeps its type.
LEMMA TypeFrame ==
    ASSUME TypeOK
    PROVE  /\ UNCHANGED brokerVars => BrokerType'
           /\ UNCHANGED stateVars => StateType'
           /\ UNCHANGED connVars => ConnType'
           /\ UNCHANGED threadVars => ThreadType'
           /\ UNCHANGED appVars => managed' \subseteq Conns /\ shown' \in {"on", "off"}
           /\ UNCHANGED reg => reg' \in Conns \cup {0}
           /\ UNCHANGED job => job' \in Job
           /\ UNCHANGED reloads => reloads' \in 0 .. MaxReloads
           /\ UNCHANGED pc => pc' \in [Procs -> Labels]
           /\ UNCHANGED historyVars => dead' \subseteq Conns /\ strays' \subseteq Sessions
<1>1. UNCHANGED brokerVars => BrokerType'
  BY DEF TypeOK, BrokerType
<1>2. UNCHANGED stateVars => StateType'
  BY DEF TypeOK, StateType
<1>3. UNCHANGED connVars => ConnType'
  BY DEF TypeOK, ConnType
<1>4. UNCHANGED threadVars => ThreadType'
  BY DEF TypeOK, ThreadType
<1> QED
  BY <1>1, <1>2, <1>3, <1>4 DEF TypeOK

\* What handleMessage leaves in the queue.
LEMMA EnqueueType ==
    ASSUME BrokerType, NEW k \in MsgKinds, NEW ts \in Nat, handleMessage(k, ts)
    PROVE  queue' \in Seq(Message) /\ Len(queue') <= QueueCap
<1> DEFINE m == [kind |-> k, ts |-> ts]
<1>1. m \in Message
  BY DEF Message
<1> HIDE DEF m
<1>2. Append(queue, m) \in Seq(Message) /\ Len(Append(queue, m)) = Len(queue) + 1
  BY <1>1 DEF BrokerType
<1>3. queue' = IF Len(queue) < QueueCap THEN Append(queue, m) ELSE queue
  BY DEF handleMessage, m
<1>4. Len(queue) \in Nat /\ QueueCap \in Nat
  BY DEF BrokerType
<1> QED
  BY <1>2, <1>3, <1>4 DEF BrokerType

\* A lifecycle state may be replaced by any other.
LEMMA LifeUpdate ==
    ASSUME StateType, NEW s \in States \cup {0}, NEW r \in LifecycleState
    PROVE  [life EXCEPT ![s] = r] \in [States -> LifecycleState]
BY DEF StateType

\* So may single fields of it.
LEMMA LifeFields ==
    ASSUME StateType, NEW s \in States \cup {0}, NEW o \in BOOLEAN, NEW v \in Nat,
           NEW t \in Nat
    PROVE  /\ [life EXCEPT ![s].timer = t] \in [States -> LifecycleState]
           /\ [life EXCEPT ![s].online = o, ![s].version = v, ![s].timer = t]
                 \in [States -> LifecycleState]
<1>1. CASE s \in States
  <2> DEFINE r1 == [life[s] EXCEPT !.timer = t]
             r2 == [life[s] EXCEPT !.online = o, !.version = v, !.timer = t]
  <2>1. life[s] \in LifecycleState
    BY <1>1 DEF StateType
  <2>2. r1 \in LifecycleState /\ r2 \in LifecycleState
    BY <2>1 DEF LifecycleState
  <2>3. /\ [life EXCEPT ![s].timer = t] = [life EXCEPT ![s] = r1]
        /\ [life EXCEPT ![s].online = o, ![s].version = v, ![s].timer = t]
              = [life EXCEPT ![s] = r2]
    BY <1>1 DEF StateType
  <2> QED
    BY <2>2, <2>3, LifeUpdate
<1>2. CASE s \notin States
  BY <1>2 DEF StateType
<1> QED
  BY <1>1, <1>2

\* The device and the clock keep the types.
LEMMA TypeEnvironment ==
    ASSUME TypeOK, PcInv,
           \/ OnSessionEstablished \/ OnDisconnect \/ Publish \/ Tick
    PROVE  TypeOK'
<1> "proc" \in Procs
  BY DEF Procs
<1>1. CASE OnSessionEstablished
  <2>1. pc' \in [Procs -> Labels]
    BY <1>1 DEF OnSessionEstablished, Goto, TypeOK, Labels, handleMessage,
       Device
  <2>2. BrokerType'
    <3>1. "online" \in MsgKinds /\ now[BrokerHost] \in Nat
      BY DEF TypeOK, BrokerType, MsgKinds, BrokerHost
    <3>2. handleMessage("online", now[BrokerHost])
      BY <1>1 DEF OnSessionEstablished
    <3>3. queue' \in Seq(Message) /\ Len(queue') <= QueueCap
      BY <3>1, <3>2, EnqueueType DEF TypeOK
    <3> QED
      BY <1>1, <3>3 DEF OnSessionEstablished, Device, TypeOK, BrokerType
  <2> QED
    BY <1>1, <2>1, <2>2, TypeFrame DEF OnSessionEstablished, TypeOK, Device
<1>2. CASE OnDisconnect
  <2>1. pc' \in [Procs -> Labels]
    BY <1>2 DEF OnDisconnect, Goto, TypeOK, Labels, handleMessage, Device
  <2>2. BrokerType'
    <3>1. "offline" \in MsgKinds /\ now[BrokerHost] \in Nat
      BY DEF TypeOK, BrokerType, MsgKinds, BrokerHost
    <3>2. handleMessage("offline", now[BrokerHost])
      BY <1>2 DEF OnDisconnect
    <3>3. queue' \in Seq(Message) /\ Len(queue') <= QueueCap
      BY <3>1, <3>2, EnqueueType DEF TypeOK
    <3>4. up' \in BOOLEAN
      BY <1>2, Zenon DEF OnDisconnect
    <3>5. events < MaxEvents /\ events' = events + 1 /\ UNCHANGED now
      BY <1>2, Zenon DEF OnDisconnect, Device
    <3> QED
      BY <3>3, <3>4, <3>5 DEF TypeOK, BrokerType
  <2> QED
    BY <1>2, <2>1, <2>2, TypeFrame DEF OnDisconnect, TypeOK, Device
<1>3. CASE Publish
  <2>1. pc' \in [Procs -> Labels]
    BY <1>3 DEF Publish, Goto, TypeOK, Labels, handleMessage, Device
  <2>2. BrokerType'
    <3>1. PICK k \in Kinds : handleMessage(k, 0)
      BY <1>3 DEF Publish
    <3>2. k \in MsgKinds
      BY DEF MsgKinds
    <3>3. queue' \in Seq(Message) /\ Len(queue') <= QueueCap
      BY <3>1, <3>2, EnqueueType DEF TypeOK
    <3> QED
      BY <1>3, <3>3 DEF Publish, Device, TypeOK, BrokerType
  <2> QED
    BY <1>3, <2>1, <2>2, TypeFrame DEF Publish, TypeOK, Device
<1>4. CASE Tick
  <2>1. pc' \in [Procs -> Labels]
    BY <1>4 DEF Tick, Goto, TypeOK, Labels
  <2>2. BrokerType'
    BY <1>4 DEF Tick, TypeOK, BrokerType, Message, MsgKinds
  <2> QED
    BY <1>4, <2>1, <2>2, TypeFrame DEF Tick, TypeOK
<1> QED
  BY <1>1, <1>2, <1>3, <1>4

\* processMessage keeps the types.
LEMMA TypeProcess ==
    ASSUME TypeOK, PcInv,
           \/ Dequeue \/ getOrCreateLifecycleState \/ markDeviceOnline \/
              markDeviceOffline \/ RefuseStale \/ getDeviceSession \/
              MarkBrokerOnline \/ MarkBrokerOffline \/ EnsureDeviceTransport \/
              EnsureFails \/ OnClose \/ CloseOldManager \/ NewChatManager \/
              NotifyApp \/ RotateCreate \/ RotateFails \/ RotateBind \/ RotateClose
              \/ PushMsgToRecvCmd \/ promoteRefused
    PROVE  TypeOK'
<1> "proc" \in Procs
  BY DEF Procs
<1>1. CASE Dequeue
  <2>1. pc' \in [Procs -> Labels]
    BY <1>1 DEF Dequeue, Goto, TypeOK, Labels
  <2>2. BrokerType'
    BY <1>1 DEF Dequeue, NoJob, TypeOK, BrokerType, Message, MsgKinds
  <2>3. job' \in Job
    <3>1. Head(queue) \in Message
      BY <1>1 DEF Dequeue, TypeOK, BrokerType
    <3>2. Head(queue).kind \in MsgKinds /\ Head(queue).ts \in Nat
         /\ now["server"] \in Nat
      BY <3>1 DEF Message, TypeOK, BrokerType
    <3> QED
      BY <1>1, <3>2 DEF Dequeue, NoJob, Job
  <2> QED
    BY <1>1, <2>1, <2>2, <2>3, TypeFrame DEF Dequeue, TypeOK
<1>2. CASE getOrCreateLifecycleState
  <2>1. pc' \in [Procs -> Labels]
    BY <1>2 DEF getOrCreateLifecycleState, Goto, TypeOK, Labels
  <2>2. StateType'
    <3>1. NewState \in LifecycleState
      BY DEF NewState, LifecycleState
    <3>2. CASE cur # 0
      BY <1>2, <3>2 DEF getOrCreateLifecycleState, TypeOK, StateType
    <3>3. CASE cur = 0
      <4>1. PICK s \in States : life' = [life EXCEPT ![s] = NewState] /\ cur' = s
        BY <1>2, <3>3 DEF getOrCreateLifecycleState
      <4>2. life' \in [States -> LifecycleState]
        BY <3>1, <4>1, LifeUpdate DEF TypeOK
      <4> QED
        BY <1>2, <4>1, <4>2 DEF getOrCreateLifecycleState, TypeOK, StateType
    <3> QED
      BY <3>2, <3>3
  <2>3. ThreadType'
    BY <1>2 DEF getOrCreateLifecycleState, First, UnusedStates, NewState,
       TypeOK, ThreadType, StateType, ConnType
  <2> QED
    BY <1>2, <2>1, <2>2, <2>3, TypeFrame DEF getOrCreateLifecycleState, TypeOK
<1>3. CASE markDeviceOnline
  <2>1. pc' \in [Procs -> Labels]
    BY <1>3 DEF markDeviceOnline, Goto, TypeOK, Labels
  <2>2. StateType'
    <3>1. PICK s \in States : s = st["proc"]
      BY <1>3 DEF markDeviceOnline, TypeOK, ThreadType, PcInv
    <3>2. life[s] \in LifecycleState
      BY DEF TypeOK, StateType
    <3> DEFINE r == [online |-> TRUE, ts |-> Latest(s), version |-> life[s].version + 1,
                     timer |-> 0]
    <3>3. job.ts \in Nat
      BY DEF TypeOK, Job
    <3>4. r \in LifecycleState
      BY <3>2, <3>3 DEF LifecycleState, Latest
    <3>5. life' = [life EXCEPT ![s] = r]
      BY <1>3, <3>1 DEF markDeviceOnline
    <3> HIDE DEF r
    <3>6. life' \in [States -> LifecycleState]
      BY <3>4, <3>5, LifeUpdate DEF TypeOK
    <3>7. armed' \subseteq States \X Nat
      BY <1>3, <3>1, <3>2 DEF markDeviceOnline, StopTimer, TypeOK, StateType,
         LifecycleState
    <3> QED
      BY <1>3, <3>6, <3>7 DEF markDeviceOnline, TypeOK, StateType
  <2>3. ThreadType'
    BY <1>3 DEF markDeviceOnline, Stale, Latest, StopTimer, TypeOK, ThreadType,
       StateType, ConnType
  <2>4. job' \in Job
    BY <1>3 DEF markDeviceOnline, Stale, Latest, StopTimer, TypeOK, Job,
       MsgKinds, ConnType, BrokerType, Message, StateType, LifecycleState,
       ThreadType
  <2> QED
    BY <1>3, <2>1, <2>2, <2>3, <2>4, TypeFrame DEF markDeviceOnline, TypeOK
<1>4. CASE markDeviceOffline
  <2>1. pc' \in [Procs -> Labels]
    BY <1>4 DEF markDeviceOffline, Goto, TypeOK, Labels
  <2>2. StateType'
    <3>1. PICK s \in States : s = st["proc"]
      BY <1>4 DEF markDeviceOffline, TypeOK, ThreadType, PcInv
    <3>2. life[s] \in LifecycleState
      BY DEF TypeOK, StateType
    <3> DEFINE r == [online |-> FALSE, ts |-> Latest(s), version |-> life[s].version + 1,
                     timer |-> life[s].version + 1]
    <3>3. job.ts \in Nat
      BY DEF TypeOK, Job
    <3>4. r \in LifecycleState
      BY <3>2, <3>3 DEF LifecycleState, Latest
    <3>5. life' = [life EXCEPT ![s] = r]
      BY <1>4, <3>1 DEF markDeviceOffline
    <3> HIDE DEF r
    <3>6. life' \in [States -> LifecycleState]
      BY <3>4, <3>5, LifeUpdate DEF TypeOK
    <3>7. armed' \subseteq States \X Nat
      BY <1>4, <3>1, <3>2 DEF markDeviceOffline, StopTimer, TypeOK, StateType,
         LifecycleState
    <3> QED
      BY <1>4, <3>6, <3>7 DEF markDeviceOffline, TypeOK, StateType
  <2>3. ThreadType'
    BY <1>4 DEF markDeviceOffline, Stale, Latest, StopTimer, TypeOK, PcInv,
       ThreadType, StateType, ConnType
  <2>4. job' \in Job
    BY <1>4 DEF markDeviceOffline, Stale, Latest, StopTimer, TypeOK, PcInv, Job,
       MsgKinds, ConnType, BrokerType, Message, StateType, LifecycleState,
       ThreadType
  <2> QED
    BY <1>4, <2>1, <2>2, <2>3, <2>4, TypeFrame DEF markDeviceOffline, TypeOK
<1>5. CASE RefuseStale
  <2>1. pc' \in [Procs -> Labels]
    BY <1>5 DEF RefuseStale, Goto, TypeOK, Labels
  <2>2. ThreadType'
    BY <1>5 DEF RefuseStale, Stale, isLifecycle, NoJob, TypeOK, ThreadType,
       StateType, ConnType
  <2>3. job' \in Job
    BY <1>5 DEF RefuseStale, Stale, isLifecycle, NoJob, TypeOK, Job, MsgKinds,
       ConnType, BrokerType, Message, StateType, LifecycleState, ThreadType
  <2> QED
    BY <1>5, <2>1, <2>2, <2>3, TypeFrame DEF RefuseStale, TypeOK
<1>6. CASE getDeviceSession
  <2>1. pc' \in [Procs -> Labels]
    BY <1>6 DEF getDeviceSession, Goto, TypeOK, Labels
  <2>2. job' \in Job
    BY <1>6 DEF getDeviceSession, TypeOK, Job, MsgKinds, ConnType, BrokerType,
       Message, StateType, LifecycleState, ThreadType
  <2> QED
    BY <1>6, <2>1, <2>2, TypeFrame DEF getDeviceSession, TypeOK
<1>7. CASE MarkBrokerOnline
  <2>1. pc' \in [Procs -> Labels]
    BY <1>7 DEF MarkBrokerOnline, Goto, TypeOK, Labels
  <2>2. ConnType'
    BY <1>7 DEF MarkBrokerOnline, TypeOK, ConnType, ThreadType, Job
  <2> QED
    BY <1>7, <2>1, <2>2, TypeFrame DEF MarkBrokerOnline, TypeOK
<1>8. CASE MarkBrokerOffline
  <2>1. pc' \in [Procs -> Labels]
    BY <1>8 DEF MarkBrokerOffline, Goto, TypeOK, Labels
  <2>2. ConnType'
    BY <1>8 DEF MarkBrokerOffline, TypeOK, ConnType, ThreadType, Job
  <2> QED
    BY <1>8, <2>1, <2>2, TypeFrame DEF MarkBrokerOffline, TypeOK
<1>9. CASE EnsureDeviceTransport
  <2>1. pc' \in [Procs -> Labels]
    BY <1>9 DEF EnsureDeviceTransport, Goto, TypeOK, Labels
  <2>2. ConnType'
    BY <1>9 DEF EnsureDeviceTransport, First, UnusedConns, UnusedSessions,
       TypeOK, ConnType, ThreadType, Job
  <2>3. reg' \in Conns \cup {0}
    BY <1>9 DEF EnsureDeviceTransport, First, UnusedConns, UnusedSessions,
       TypeOK
  <2>4. job' \in Job
    BY <1>9 DEF EnsureDeviceTransport, TypeOK, Job
  <2>5. dead' \subseteq Conns /\ strays' \subseteq Sessions
    BY <1>9 DEF EnsureDeviceTransport, TypeOK
  <2> QED
    BY <1>9, <2>1, <2>2, <2>3, <2>4, <2>5, TypeFrame DEF EnsureDeviceTransport, TypeOK
<1>10. CASE EnsureFails
  <2>1. pc' \in [Procs -> Labels]
    BY <1>10 DEF EnsureFails, Goto, TypeOK, Labels
  <2>2. job' \in Job
    BY <1>10 DEF EnsureFails, NoJob, TypeOK, Job, MsgKinds, ConnType,
       BrokerType, Message, StateType, LifecycleState, ThreadType
  <2> QED
    BY <1>10, <2>1, <2>2, TypeFrame DEF EnsureFails, TypeOK
<1>11. CASE OnClose
  <2>1. pc' \in [Procs -> Labels]
    BY <1>11 DEF OnClose, Goto, TypeOK, Labels
  <2>2. ConnType'
    <3>1. 1 \in 0 .. 2 /\ 2 \in 0 .. 2
      OBVIOUS
    <3> QED
      BY <1>11, <3>1 DEF OnClose, TypeOK, ConnType
  <2> QED
    BY <1>11, <2>1, <2>2, TypeFrame DEF OnClose, TypeOK
<1>12. CASE CloseOldManager
  <2>1. pc' \in [Procs -> Labels]
    BY <1>12 DEF CloseOldManager, Goto, TypeOK, Labels
  <2>2. managed' \subseteq Conns /\ shown' \in {"on", "off"}
    BY <1>12 DEF CloseOldManager, TypeOK, ThreadType, Job
  <2>3. ThreadType'
    BY <1>12 DEF CloseOldManager, TypeOK, ThreadType, StateType, ConnType
  <2> QED
    BY <1>12, <2>1, <2>2, <2>3, TypeFrame DEF CloseOldManager, TypeOK
<1>13. CASE NewChatManager
  <2>1. pc' \in [Procs -> Labels]
    BY <1>13 DEF NewChatManager, Goto, TypeOK, Labels
  <2>2. managed' \subseteq Conns /\ shown' \in {"on", "off"}
    <3>1. job.conn \in Conns
      BY <1>13 DEF NewChatManager, TypeOK, Job, PcInv, Installing, Closing
    <3> QED
      BY <1>13, <3>1 DEF NewChatManager, TypeOK
  <2>3. ConnType'
    <3>1. 1 \in 0 .. 2 /\ 2 \in 0 .. 2
      OBVIOUS
    <3> QED
      BY <1>13, <3>1 DEF NewChatManager, TypeOK, ConnType
  <2> QED
    BY <1>13, <2>1, <2>2, <2>3, TypeFrame DEF NewChatManager, TypeOK
<1>14. CASE NotifyApp
  <2>1. pc' \in [Procs -> Labels]
    BY <1>14 DEF NotifyApp, Goto, TypeOK, Labels, AfterNotify, isLifecycle,
       NoJob
  <2>2. managed' \subseteq Conns /\ shown' \in {"on", "off"}
    BY <1>14 DEF NotifyApp, AfterNotify, isLifecycle, NoJob, TypeOK, ThreadType,
       Job
  <2>3. job' \in Job
    BY <1>14 DEF NotifyApp, AfterNotify, isLifecycle, NoJob, TypeOK, Job,
       MsgKinds, ConnType, BrokerType, Message, StateType, LifecycleState,
       ThreadType
  <2> QED
    BY <1>14, <2>1, <2>2, <2>3, TypeFrame DEF NotifyApp, TypeOK
<1>15. CASE RotateCreate
  <2>1. pc' \in [Procs -> Labels]
    BY <1>15 DEF RotateCreate, Goto, TypeOK, Labels
  <2>2. ConnType'
    BY <1>15 DEF RotateCreate, First, UnusedSessions, TypeOK, ConnType,
       ThreadType, Job
  <2>3. job' \in Job
    BY <1>15 DEF RotateCreate, First, UnusedSessions, TypeOK, Job, MsgKinds,
       ConnType, BrokerType, Message, StateType, LifecycleState, ThreadType
  <2>4. dead' \subseteq Conns /\ strays' \subseteq Sessions
    BY <1>15 DEF RotateCreate, TypeOK
  <2> QED
    BY <1>15, <2>1, <2>2, <2>3, <2>4, TypeFrame DEF RotateCreate, TypeOK
<1>16. CASE RotateFails
  <2>1. pc' \in [Procs -> Labels]
    BY <1>16 DEF RotateFails, Goto, TypeOK, Labels
  <2>2. job' \in Job
    BY <1>16 DEF RotateFails, NoJob, TypeOK, Job, MsgKinds, ConnType,
       BrokerType, Message, StateType, LifecycleState, ThreadType
  <2> QED
    BY <1>16, <2>1, <2>2, TypeFrame DEF RotateFails, TypeOK
<1>17. CASE RotateBind
  <2>1. pc' \in [Procs -> Labels]
    BY <1>17 DEF RotateBind, Goto, TypeOK, Labels
  <2>2. ConnType'
    BY <1>17 DEF RotateBind, TypeOK, PcInv, Installing, Closing, Done, ConnType,
       ThreadType, Job
  <2>3. job' \in Job
    BY <1>17 DEF RotateBind, TypeOK, PcInv, Installing, Closing, Done, Job, MsgKinds,
       ConnType,
       BrokerType, Message, StateType, LifecycleState, ThreadType
  <2>4. dead' \subseteq Conns /\ strays' \subseteq Sessions
    BY <1>17 DEF RotateBind, TypeOK, PcInv, Job
  <2> QED
    BY <1>17, <2>1, <2>2, <2>3, <2>4, TypeFrame DEF RotateBind, TypeOK
<1>18. CASE RotateClose
  <2>1. pc' \in [Procs -> Labels]
    BY <1>18 DEF RotateClose, Goto, TypeOK, Labels
  <2>2. ConnType'
    BY <1>18 DEF RotateClose, TypeOK, ConnType, ThreadType, Job
  <2>3. job' \in Job
    BY <1>18 DEF RotateClose, TypeOK, Job, MsgKinds, ConnType, BrokerType,
       Message, StateType, LifecycleState, ThreadType
  <2> QED
    BY <1>18, <2>1, <2>2, <2>3, TypeFrame DEF RotateClose, TypeOK
<1>19. CASE PushMsgToRecvCmd
  <2>1. pc' \in [Procs -> Labels]
    BY <1>19 DEF PushMsgToRecvCmd, Goto, TypeOK, Labels
  <2>2. job' \in Job
    BY <1>19 DEF PushMsgToRecvCmd, NoJob, TypeOK, Job, MsgKinds, ConnType,
       BrokerType, Message, StateType, LifecycleState, ThreadType
  <2> QED
    BY <1>19, <2>1, <2>2, TypeFrame DEF PushMsgToRecvCmd, TypeOK
<1>20. CASE promoteRefused
  <2>1. pc' \in [Procs -> Labels]
    BY <1>20 DEF promoteRefused, Goto, TypeOK, Labels
  <2>2. job' \in Job
    BY <1>20 DEF promoteRefused, TypeOK, Job
  <2> QED
    BY <1>20, <2>1, <2>2, TypeFrame DEF promoteRefused, TypeOK
<1> QED
  BY <1>1, <1>2, <1>3, <1>4, <1>5, <1>6, <1>7, <1>8, <1>9, <1>10, <1>11, <1>12,
     <1>13, <1>14, <1>15, <1>16, <1>17, <1>18, <1>19, <1>20

\* Destroy and handleDisconnect keep the types.
LEMMA TypeDestroy ==
    ASSUME TypeOK, PcInv, NEW p \in Procs,
           \/ Destroy(p) \/ DisconnectLookup(p) \/ DisconnectState(p) \/
              DisconnectMark(p) \/ DisconnectDelete(p) \/ DisconnectRelease(p) \/
              DisconnectUnregister(p) \/ DisconnectNotify(p) \/ DestroyReturns(p)
    PROVE  TypeOK'
<1> "proc" \in Procs
  BY DEF Procs
<1>1. CASE Destroy(p)
  <2>1. pc' \in [Procs -> Labels]
    BY <1>1 DEF Destroy, Goto, TypeOK, Labels
  <2>2. ConnType'
    BY <1>1 DEF Destroy, TypeOK, PcInv, Closing, ConnType, ThreadType
  <2>3. ThreadType'
    BY <1>1 DEF Destroy, TypeOK, PcInv, Closing, ThreadType, ConnType
  <2> QED
    BY <1>1, <2>1, <2>2, <2>3, TypeFrame DEF Destroy, TypeOK
<1>2. CASE DisconnectLookup(p)
  <2>1. pc' \in [Procs -> Labels]
    BY <1>2 DEF DisconnectLookup, Goto, TypeOK, Labels
  <2>2. ThreadType'
    BY <1>2 DEF DisconnectLookup, TypeOK, ThreadType, StateType, ConnType
  <2> QED
    BY <1>2, <2>1, <2>2, TypeFrame DEF DisconnectLookup, TypeOK
<1>3. CASE DisconnectState(p)
  <2>1. pc' \in [Procs -> Labels]
    BY <1>3 DEF DisconnectState, Goto, TypeOK, Labels
  <2>2. ThreadType'
    BY <1>3 DEF DisconnectState, TypeOK, ThreadType, StateType, ConnType
  <2> QED
    BY <1>3, <2>1, <2>2, TypeFrame DEF DisconnectState, TypeOK
<1>4. CASE DisconnectMark(p)
  <2>1. pc' \in [Procs -> Labels]
    BY <1>4 DEF DisconnectMark, Goto, TypeOK, Labels
  <2>2. StateType'
    BY <1>4 DEF DisconnectMark, StopTimer, TypeOK, StateType, LifecycleState,
       ThreadType
  <2>3. ThreadType'
    BY <1>4 DEF DisconnectMark, StopTimer, TypeOK, ThreadType, StateType,
       ConnType
  <2> QED
    BY <1>4, <2>1, <2>2, <2>3, TypeFrame DEF DisconnectMark, TypeOK
<1>5. CASE DisconnectDelete(p)
  <2>1. pc' \in [Procs -> Labels]
    BY <1>5 DEF DisconnectDelete, Goto, TypeOK, Labels
  <2>2. StateType'
    BY <1>5 DEF DisconnectDelete, TypeOK, StateType, LifecycleState, ThreadType
  <2> QED
    BY <1>5, <2>1, <2>2, TypeFrame DEF DisconnectDelete, TypeOK
<1>6. CASE DisconnectRelease(p)
  <2>1. pc' \in [Procs -> Labels]
    BY <1>6 DEF DisconnectRelease, Goto, TypeOK, Labels
  <2>2. ConnType'
    BY <1>6 DEF DisconnectRelease, ReleaseUdpSession, TypeOK, ConnType,
       ThreadType, Job
  <2>3. dead' \subseteq Conns /\ strays' \subseteq Sessions
    BY <1>6 DEF DisconnectRelease, TypeOK, ThreadType
  <2> QED
    BY <1>6, <2>1, <2>2, <2>3, TypeFrame DEF DisconnectRelease, TypeOK
<1>7. CASE DisconnectUnregister(p)
  <2>1. pc' \in [Procs -> Labels]
    BY <1>7 DEF DisconnectUnregister, Goto, TypeOK, Labels
  <2>2. reg' \in Conns \cup {0}
    BY <1>7 DEF DisconnectUnregister, Unregister, TypeOK
  <2>3. dead' \subseteq Conns /\ strays' \subseteq Sessions
    BY <1>7 DEF DisconnectUnregister, Unregister, TypeOK, ConnType
  <2> QED
    BY <1>7, <2>1, <2>2, <2>3, TypeFrame DEF DisconnectUnregister, Unregister, TypeOK
<1>8. CASE DisconnectNotify(p)
  <2>1. pc' \in [Procs -> Labels]
    BY <1>8 DEF DisconnectNotify, Goto, TypeOK, Labels
  <2>2. managed' \subseteq Conns /\ shown' \in {"on", "off"}
    BY <1>8 DEF DisconnectNotify, TypeOK, ThreadType, Job
  <2> QED
    BY <1>8, <2>1, <2>2, TypeFrame DEF DisconnectNotify, TypeOK
<1>9. CASE DestroyReturns(p)
  <2>1. pc' \in [Procs -> Labels]
    BY <1>9 DEF DestroyReturns, Goto, TypeOK, Labels, Return
  <2>2. managed' \subseteq Conns /\ shown' \in {"on", "off"}
    BY <1>9 DEF DestroyReturns, Return, TypeOK, ThreadType, Job
  <2>3. ThreadType'
    BY <1>9 DEF DestroyReturns, Return, TypeOK, ThreadType, StateType, ConnType
  <2> QED
    BY <1>9, <2>1, <2>2, <2>3, TypeFrame DEF DestroyReturns, TypeOK
<1> QED
  BY <1>1, <1>2, <1>3, <1>4, <1>5, <1>6, <1>7, <1>8, <1>9

\* A cleanup callback keeps the types.
LEMMA TypeCleanup ==
    ASSUME TypeOK, PcInv, NEW t \in Timers,
           \/ TimerFires(t) \/ CleanupState(t) \/ CleanupCheck(t) \/ CleanupConn(t)
    PROVE  TypeOK'
<1> t \in Procs /\ t # "proc"
  BY DEF Procs
<1>1. CASE TimerFires(t)
  <2>1. pc' \in [Procs -> Labels]
    BY <1>1 DEF TimerFires, Goto, TypeOK, Labels
  <2>2. StateType'
    BY <1>1 DEF TimerFires, TypeOK, StateType, LifecycleState, ThreadType
  <2>3. ThreadType'
    BY <1>1 DEF TimerFires, TypeOK, ThreadType, StateType, ConnType
  <2> QED
    BY <1>1, <2>1, <2>2, <2>3, TypeFrame DEF TimerFires, TypeOK
<1>2. CASE CleanupState(t)
  <2>1. pc' \in [Procs -> Labels]
    BY <1>2 DEF CleanupState, Goto, TypeOK, Labels
  <2>2. ThreadType'
    BY <1>2 DEF CleanupState, TypeOK, ThreadType, StateType, ConnType
  <2> QED
    BY <1>2, <2>1, <2>2, TypeFrame DEF CleanupState, TypeOK
<1>3. CASE CleanupCheck(t)
  <2>1. pc' \in [Procs -> Labels]
    BY <1>3 DEF CleanupCheck, Goto, TypeOK, Labels
  <2>2. StateType'
    <3>1. PICK s \in States \cup {0} : s = st[t]
      BY DEF TypeOK, ThreadType
    <3>2. life' = life \/ life' = [life EXCEPT ![s].timer = 0]
      BY <1>3, <3>1 DEF CleanupCheck
    <3>3. [life EXCEPT ![s].timer = 0] \in [States -> LifecycleState]
      BY LifeFields DEF TypeOK
    <3>4. life' \in [States -> LifecycleState]
      BY <3>2, <3>3 DEF TypeOK, StateType
    <3> QED
      BY <1>3, <3>4 DEF CleanupCheck, TypeOK, StateType
  <2>3. ThreadType'
    BY <1>3 DEF CleanupCheck, CleanupDue, TypeOK, ThreadType, StateType,
       ConnType
  <2> QED
    BY <1>3, <2>1, <2>2, <2>3, TypeFrame DEF CleanupCheck, TypeOK
<1>4. CASE CleanupConn(t)
  <2>1. pc' \in [Procs -> Labels]
    BY <1>4 DEF CleanupConn, Goto, TypeOK, Labels
  <2>2. StateType'
    BY <1>4 DEF CleanupConn, TypeOK, StateType, LifecycleState, ThreadType
  <2>3. ThreadType'
    BY <1>4 DEF CleanupConn, TypeOK, ThreadType, StateType, ConnType
  <2> QED
    BY <1>4, <2>1, <2>2, <2>3, TypeFrame DEF CleanupConn, TypeOK
<1> QED
  BY <1>1, <1>2, <1>3, <1>4

\* The ticker, the ChatManager and a reload keep the types.
LEMMA TypeOthers ==
    ASSUME TypeOK, PcInv,
           \/ "tick" \in Actors /\ (TickerSees \/ IsActive \/ IsInactive)
           \/ "reset" \in Actors /\ (CloseChatManager \/ CloseAudioChannel)
           \/ "reload" \in Actors /\ (ReloadStates \/ ReloadDelete \/ ReloadConn \/ ReloadDrop)
    PROVE  TypeOK'
<1> "proc" \in Procs
  BY DEF Procs
<1>1. CASE "tick" \in Actors /\ TickerSees
  <2> "tick" \in Procs
    BY <1>1 DEF Procs
  <2>1. pc' \in [Procs -> Labels]
    BY <1>1 DEF TickerSees, Goto, TypeOK, Labels
  <2>2. ThreadType'
    BY <1>1 DEF TickerSees, TypeOK, ThreadType, StateType, ConnType
  <2> QED
    BY <1>1, <2>1, <2>2, TypeFrame DEF TickerSees, TypeOK
<1>2. CASE "tick" \in Actors /\ IsActive
  <2> "tick" \in Procs
    BY <1>2 DEF Procs
  <2>1. pc' \in [Procs -> Labels]
    BY <1>2 DEF IsActive, Goto, TypeOK, Labels
  <2>2. ThreadType'
    BY <1>2 DEF IsActive, TypeOK, ThreadType, StateType, ConnType
  <2> QED
    BY <1>2, <2>1, <2>2, TypeFrame DEF IsActive, TypeOK
<1>3. CASE "tick" \in Actors /\ IsInactive
  <2> "tick" \in Procs
    BY <1>3 DEF Procs
  <2>1. pc' \in [Procs -> Labels]
    BY <1>3 DEF IsInactive, Goto, TypeOK, Labels
  <2> QED
    BY <1>3, <2>1, TypeFrame DEF IsInactive, TypeOK
<1>4. CASE "reset" \in Actors /\ CloseChatManager
  <2> "reset" \in Procs
    BY <1>4 DEF Procs
  <2>1. pc' \in [Procs -> Labels]
    BY <1>4 DEF CloseChatManager, Goto, TypeOK, Labels
  <2>2. managed' \subseteq Conns /\ shown' \in {"on", "off"}
    BY <1>4 DEF CloseChatManager, TypeOK, ThreadType, Job
  <2>3. ThreadType'
    BY <1>4 DEF CloseChatManager, TypeOK, ThreadType, StateType, ConnType
  <2> QED
    BY <1>4, <2>1, <2>2, <2>3, TypeFrame DEF CloseChatManager, TypeOK
<1>5. CASE "reset" \in Actors /\ CloseAudioChannel
  <2> "reset" \in Procs
    BY <1>5 DEF Procs
  <2>1. pc' \in [Procs -> Labels]
    BY <1>5 DEF CloseAudioChannel, Goto, TypeOK, Labels
  <2>2. ConnType'
    BY <1>5 DEF CloseAudioChannel, ReleaseUdpSession, TypeOK, ConnType,
       ThreadType, Job
  <2> QED
    BY <1>5, <2>1, <2>2, TypeFrame DEF CloseAudioChannel, TypeOK
<1>6. CASE "reload" \in Actors /\ ReloadStates
  <2> "reload" \in Procs
    BY <1>6 DEF Procs
  <2>1. pc' \in [Procs -> Labels]
    BY <1>6 DEF ReloadStates, Goto, TypeOK, Labels
  <2>2. StateType'
    BY <1>6 DEF ReloadStates, StopTimer, TypeOK, StateType, LifecycleState,
       ThreadType
  <2>3. reloads' \in 0 .. MaxReloads
    BY <1>6 DEF ReloadStates, StopTimer, TypeOK
  <2> QED
    BY <1>6, <2>1, <2>2, <2>3, TypeFrame DEF ReloadStates, TypeOK
<1>7. CASE "reload" \in Actors /\ ReloadDelete
  <2> "reload" \in Procs
    BY <1>7 DEF Procs
  <2>1. pc' \in [Procs -> Labels]
    BY <1>7 DEF ReloadDelete, Goto, TypeOK, Labels
  <2>2. StateType'
    BY <1>7 DEF ReloadDelete, TypeOK, StateType, LifecycleState, ThreadType
  <2> QED
    BY <1>7, <2>1, <2>2, TypeFrame DEF ReloadDelete, TypeOK
<1>8. CASE "reload" \in Actors /\ ReloadConn
  <2> "reload" \in Procs
    BY <1>8 DEF Procs
  <2>1. pc' \in [Procs -> Labels]
    BY <1>8 DEF ReloadConn, Goto, TypeOK, Labels
  <2>2. ThreadType'
    BY <1>8 DEF ReloadConn, TypeOK, ThreadType, StateType, ConnType
  <2> QED
    BY <1>8, <2>1, <2>2, TypeFrame DEF ReloadConn, TypeOK
<1>9. CASE "reload" \in Actors /\ ReloadDrop
  <2> "reload" \in Procs
    BY <1>9 DEF Procs
  <2>1. pc' \in [Procs -> Labels]
    BY <1>9 DEF ReloadDrop, Goto, TypeOK, Labels
  <2>2. reg' \in Conns \cup {0}
    BY <1>9 DEF ReloadDrop, Unregister, TypeOK
  <2>3. dead' \subseteq Conns /\ strays' \subseteq Sessions
    BY <1>9 DEF ReloadDrop, Unregister, TypeOK, ConnType
  <2> QED
    BY <1>9, <2>1, <2>2, <2>3, TypeFrame DEF ReloadDrop, Unregister, TypeOK
<1> QED
  BY <1>1, <1>2, <1>3, <1>4, <1>5, <1>6, <1>7, <1>8, <1>9

-----------------------------------------------------------------------------
(***************************************************************************)
(* What the goroutines have in hand.                                       *)
(***************************************************************************)

\* The device and the clock keep what the goroutines have in hand.
LEMMA PcEnvironment ==
    ASSUME TypeOK, PcInv,
           \/ OnSessionEstablished \/ OnDisconnect \/ Publish \/ Tick
    PROVE  PcInv'
<1> "proc" \in Procs
  BY DEF Procs
<1>1. CASE OnSessionEstablished
  BY <1>1 DEF OnSessionEstablished, handleMessage, Device, Goto, Procs, TypeOK,
     PcInv, Installing, Closing, Done, Conns, ThreadType, Job
<1>2. CASE OnDisconnect
  BY <1>2 DEF OnDisconnect, handleMessage, Device, Goto, Procs, TypeOK, PcInv,
     Installing, Closing, Done, Conns, ThreadType, Job
<1>3. CASE Publish
  BY <1>3 DEF Publish, handleMessage, Device, Goto, Procs, TypeOK, PcInv,
     Installing, Closing, Done, Conns, ThreadType, Job
<1>4. CASE Tick
  BY <1>4 DEF Tick, Goto, Procs, TypeOK, PcInv, Installing, Closing, Done, Conns,
     ThreadType, Job
<1> QED
  BY <1>1, <1>2, <1>3, <1>4

\* processMessage keeps what the goroutines have in hand.
LEMMA PcProcess ==
    ASSUME TypeOK, PcInv,
           \/ Dequeue \/ getOrCreateLifecycleState \/ markDeviceOnline \/
              markDeviceOffline \/ RefuseStale \/ getDeviceSession \/
              MarkBrokerOnline \/ MarkBrokerOffline \/ EnsureDeviceTransport \/
              EnsureFails \/ OnClose \/ CloseOldManager \/ NewChatManager \/
              NotifyApp \/ RotateCreate \/ RotateFails \/ RotateBind \/ RotateClose
              \/ PushMsgToRecvCmd \/ promoteRefused
    PROVE  PcInv'
<1> "proc" \in Procs
  BY DEF Procs
<1>1. CASE Dequeue
  BY <1>1 DEF Dequeue, NoJob, Goto, Procs, TypeOK, PcInv, Installing, Closing, Done,
     Conns,
     ThreadType, Job
<1>2. CASE getOrCreateLifecycleState
  BY <1>2 DEF getOrCreateLifecycleState, First, UnusedStates, NewState, Goto,
     Procs, TypeOK, PcInv, Installing, Closing, Done, Conns, ThreadType, Job
<1>3. CASE markDeviceOnline
  BY <1>3 DEF markDeviceOnline, Stale, Latest, StopTimer, Goto, Procs, TypeOK,
     PcInv, Installing, Closing, Done, Conns, ThreadType, Job
<1>4. CASE markDeviceOffline
  BY <1>4 DEF markDeviceOffline, Stale, Latest, StopTimer, Goto, Procs, TypeOK,
     PcInv, Installing, Closing, Done, Conns, ThreadType, Job
<1>5. CASE RefuseStale
  BY <1>5 DEF RefuseStale, Stale, isLifecycle, NoJob, Goto, Procs, TypeOK,
     PcInv, Installing, Closing, Done, Conns, ThreadType, Job
<1>6. CASE getDeviceSession
  BY <1>6 DEF getDeviceSession, Goto, Procs, TypeOK, PcInv, Installing, Closing, Done,
     Conns,
     ThreadType, Job
<1>7. CASE MarkBrokerOnline
  BY <1>7 DEF MarkBrokerOnline, Goto, Procs, TypeOK, PcInv, Installing, Closing, Done,
     Conns,
     ThreadType, Job
<1>8. CASE MarkBrokerOffline
  BY <1>8 DEF MarkBrokerOffline, Goto, Procs, TypeOK, PcInv, Installing, Closing, Done,
     Conns,
     ThreadType, Job
<1>9. CASE EnsureDeviceTransport
  BY <1>9 DEF EnsureDeviceTransport, First, UnusedConns, UnusedSessions, Goto,
     Procs, TypeOK, PcInv, Installing, Closing, Done, Conns, ThreadType, Job
<1>10. CASE EnsureFails
  BY <1>10 DEF EnsureFails, NoJob, Goto, Procs, TypeOK, PcInv, Installing, Closing,
     Done, Conns,
     ThreadType, Job
<1>11. CASE OnClose
  BY <1>11 DEF OnClose, Goto, Procs, TypeOK, PcInv, Installing, Closing, Done, Conns,
     ThreadType,
     Job
<1>12. CASE CloseOldManager
  BY <1>12 DEF CloseOldManager, Goto, Procs, TypeOK, PcInv, Installing, Closing, Done,
     Conns,
     ThreadType, Job
<1>13. CASE NewChatManager
  BY <1>13 DEF NewChatManager, Goto, Procs, TypeOK, PcInv, Installing, Closing, Done,
     Conns,
     ThreadType, Job
<1>14. CASE NotifyApp
  BY <1>14 DEF NotifyApp, AfterNotify, isLifecycle, NoJob, Goto, Procs, TypeOK,
     PcInv, Installing, Closing, Done, Conns, ThreadType, Job
<1>15. CASE RotateCreate
  BY <1>15 DEF RotateCreate, First, Sessions, UnusedSessions, Goto, Procs, TypeOK, PcInv,
     Installing, Closing, Done, Conns, ThreadType, Job
<1>16. CASE RotateFails
  BY <1>16 DEF RotateFails, NoJob, Goto, Procs, TypeOK, PcInv, Installing, Closing,
     Done, Conns,
     ThreadType, Job
<1>17. CASE RotateBind
  BY <1>17 DEF RotateBind, Goto, Procs, TypeOK, PcInv, Installing, Closing, Done, Conns,
     ThreadType, Job
<1>18. CASE RotateClose
  BY <1>18 DEF RotateClose, Goto, Procs, TypeOK, PcInv, Installing, Closing, Done, Conns,
     ThreadType, Job
<1>19. CASE PushMsgToRecvCmd
  BY <1>19 DEF PushMsgToRecvCmd, NoJob, Goto, Procs, TypeOK, PcInv, Installing, Closing,
     Done,
     Conns, ThreadType, Job
<1>20. CASE promoteRefused
  BY <1>20 DEF promoteRefused, Goto, Procs, TypeOK, PcInv, Installing, Closing, Done,
     Conns, ThreadType, Job
<1> QED
  BY <1>1, <1>2, <1>3, <1>4, <1>5, <1>6, <1>7, <1>8, <1>9, <1>10, <1>11, <1>12,
     <1>13, <1>14, <1>15, <1>16, <1>17, <1>18, <1>19, <1>20

\* Destroy and handleDisconnect keep what the goroutines have in hand.
LEMMA PcDestroy ==
    ASSUME TypeOK, PcInv, NEW p \in Procs,
           \/ Destroy(p) \/ DisconnectLookup(p) \/ DisconnectState(p) \/
              DisconnectMark(p) \/ DisconnectDelete(p) \/ DisconnectRelease(p) \/
              DisconnectUnregister(p) \/ DisconnectNotify(p) \/ DestroyReturns(p)
    PROVE  PcInv'
<1> "proc" \in Procs
  BY DEF Procs
<1>1. CASE Destroy(p)
  BY <1>1 DEF Destroy, Goto, Procs, TypeOK, PcInv, Installing, Closing, Done, Conns,
     ThreadType,
     Job
<1>2. CASE DisconnectLookup(p)
  BY <1>2 DEF DisconnectLookup, Goto, Procs, TypeOK, PcInv, Installing, Closing, Done,
     Conns,
     ThreadType, Job
<1>3. CASE DisconnectState(p)
  BY <1>3 DEF DisconnectState, Goto, Procs, TypeOK, PcInv, Installing, Closing, Done,
     Conns,
     ThreadType, Job
<1>4. CASE DisconnectMark(p)
  BY <1>4 DEF DisconnectMark, StopTimer, Goto, Procs, TypeOK, PcInv, Installing,
     Closing, Done,
     Conns, ThreadType, Job
<1>5. CASE DisconnectDelete(p)
  BY <1>5 DEF DisconnectDelete, Goto, Procs, TypeOK, PcInv, Installing, Closing, Done,
     Conns,
     ThreadType, Job
<1>6. CASE DisconnectRelease(p)
  BY <1>6 DEF DisconnectRelease, ReleaseUdpSession, Goto, Procs, TypeOK, PcInv,
     Installing, Closing, Done, Conns, ThreadType, Job
<1>7. CASE DisconnectUnregister(p)
  BY <1>7 DEF DisconnectUnregister, Unregister, Goto, Procs, TypeOK, PcInv, Installing,
     Closing, Done, Conns,
     ThreadType, Job
<1>8. CASE DisconnectNotify(p)
  BY <1>8 DEF DisconnectNotify, Goto, Procs, TypeOK, PcInv, Installing, Closing, Done,
     Conns,
     ThreadType, Job
<1>9. CASE DestroyReturns(p)
  BY <1>9 DEF DestroyReturns, Return, Goto, Procs, TypeOK, PcInv, Installing, Closing,
     Done,
     Conns, ThreadType, Job
<1> QED
  BY <1>1, <1>2, <1>3, <1>4, <1>5, <1>6, <1>7, <1>8, <1>9

\* A cleanup callback keeps what the goroutines have in hand.
LEMMA PcCleanup ==
    ASSUME TypeOK, PcInv, NEW t \in Timers,
           \/ TimerFires(t) \/ CleanupState(t) \/ CleanupCheck(t) \/ CleanupConn(t)
    PROVE  PcInv'
<1> t \in Procs /\ t # "proc"
  BY DEF Procs
<1>1. CASE TimerFires(t)
  BY <1>1 DEF TimerFires, Goto, Procs, TypeOK, PcInv, Installing, Closing, Done, Conns,
     ThreadType, Job
<1>2. CASE CleanupState(t)
  BY <1>2 DEF CleanupState, Goto, Procs, TypeOK, PcInv, Installing, Closing, Done, Conns,
     ThreadType, Job
<1>3. CASE CleanupCheck(t)
  BY <1>3 DEF CleanupCheck, CleanupDue, Goto, Procs, TypeOK, PcInv, Installing, Closing,
     Done,
     Conns, ThreadType, Job
<1>4. CASE CleanupConn(t)
  BY <1>4 DEF CleanupConn, Goto, Procs, TypeOK, PcInv, Installing, Closing, Done, Conns,
     ThreadType, Job
<1> QED
  BY <1>1, <1>2, <1>3, <1>4

\* The ticker, the ChatManager and a reload keep what the goroutines have in hand.
LEMMA PcOthers ==
    ASSUME TypeOK, PcInv,
           \/ "tick" \in Actors /\ (TickerSees \/ IsActive \/ IsInactive)
           \/ "reset" \in Actors /\ (CloseChatManager \/ CloseAudioChannel)
           \/ "reload" \in Actors /\ (ReloadStates \/ ReloadDelete \/ ReloadConn \/ ReloadDrop)
    PROVE  PcInv'
<1> "proc" \in Procs
  BY DEF Procs
<1>1. CASE "tick" \in Actors /\ TickerSees
  BY <1>1 DEF TickerSees, Goto, Procs, TypeOK, PcInv, Installing, Closing, Done, Conns,
     ThreadType, Job
<1>2. CASE "tick" \in Actors /\ IsActive
  BY <1>2 DEF IsActive, Goto, Procs, TypeOK, PcInv, Installing, Closing, Done, Conns,
     ThreadType,
     Job
<1>3. CASE "tick" \in Actors /\ IsInactive
  BY <1>3 DEF IsInactive, Goto, Procs, TypeOK, PcInv, Installing, Closing, Done, Conns,
     ThreadType, Job
<1>4. CASE "reset" \in Actors /\ CloseChatManager
  BY <1>4 DEF CloseChatManager, Goto, Procs, TypeOK, PcInv, Installing, Closing, Done,
     Conns,
     ThreadType, Job
<1>5. CASE "reset" \in Actors /\ CloseAudioChannel
  BY <1>5 DEF CloseAudioChannel, ReleaseUdpSession, Goto, Procs, TypeOK, PcInv,
     Installing, Closing, Done, Conns, ThreadType, Job
<1>6. CASE "reload" \in Actors /\ ReloadStates
  BY <1>6 DEF ReloadStates, StopTimer, Goto, Procs, TypeOK, PcInv, Installing, Closing,
     Done,
     Conns, ThreadType, Job
<1>7. CASE "reload" \in Actors /\ ReloadDelete
  BY <1>7 DEF ReloadDelete, Goto, Procs, TypeOK, PcInv, Installing, Closing, Done, Conns,
     ThreadType, Job
<1>8. CASE "reload" \in Actors /\ ReloadConn
  BY <1>8 DEF ReloadConn, Goto, Procs, TypeOK, PcInv, Installing, Closing, Done, Conns,
     ThreadType, Job
<1>9. CASE "reload" \in Actors /\ ReloadDrop
  BY <1>9 DEF ReloadDrop, Unregister, Goto, Procs, TypeOK, PcInv, Installing, Closing,
     Done, Conns,
     ThreadType, Job
<1> QED
  BY <1>1, <1>2, <1>3, <1>4, <1>5, <1>6, <1>7, <1>8, <1>9

-----------------------------------------------------------------------------
(***************************************************************************)
(* UDP sessions.                                                           *)
(***************************************************************************)

\* A step that touches neither a session nor the map, and leaves processMessage
\* with the connection it has, the registered one, or none.
LEMMA SessionFrame ==
    ASSUME SessionInv, UNCHANGED <<udp, open, reg, dead, strays>>,
           job'.udp = job.udp, job'.conn \in {job.conn, 0, reg},
           job.udp = 0 \/ pc'["proc"] = pc["proc"]
    PROVE  SessionInv'
<1>1. OnlyRacesLeak' /\ BoundSessionOpen'
  BY DEF SessionInv, OnlyRacesLeak, Owned, BoundSessionOpen
<1>2. InHand'
  BY DEF SessionInv, InHand
<1> QED
  BY <1>1, <1>2 DEF SessionInv

\* Releasing the session of a connection closes no other, because sessions
\* have one owner.
LEMMA ReleaseOwned ==
    ASSUME TypeOK, SessionInv, NEW c \in Conns, ReleaseUdpSession(c),
           UNCHANGED <<job, reg, strays>>, dead' = dead \/ dead' = dead \cup {c},
           job.udp = 0 \/ pc'["proc"] = pc["proc"]
    PROVE  SessionInv'
<1>1. udp \in [Conns -> Sessions \cup {0}] /\ 0 \notin Sessions /\ open \subseteq Sessions
  BY DEF TypeOK, ConnType, Sessions
<1>2. udp'[c] = 0 /\ \A d \in Conns \ {c} : udp'[d] = udp[d]
  BY <1>1 DEF ReleaseUdpSession
<1>3. open' = open \ {udp[c]}
  BY DEF ReleaseUdpSession
<1>4. BoundSessionOpen'
  <2>1. SUFFICES ASSUME NEW d \in Conns, udp'[d] # 0 PROVE udp'[d] \in open'
    BY DEF BoundSessionOpen
  <2> QED
    BY <1>2, <1>3, <2>1 DEF SessionInv, BoundSessionOpen
<1>5. OnlyRacesLeak'
  <2>1. SUFFICES ASSUME NEW u \in open', u \notin strays
                 PROVE  job.udp = u \/ (reg # 0 /\ udp'[reg] = u)
    BY DEF OnlyRacesLeak, Owned
  <2>2. u \in open /\ u # udp[c]
    BY <1>3, <2>1
  <2>3. reg # 0 => reg \in Conns
    BY DEF TypeOK
  <2> QED
    BY <1>2, <2>1, <2>2, <2>3 DEF SessionInv, OnlyRacesLeak, Owned
<1>6. \A d, e \in Conns : udp'[d] # 0 /\ udp'[d] = udp'[e] => d = e
  BY <1>2 DEF SessionInv
<1>7. InHand'
  BY <1>2, <1>3 DEF SessionInv, InHand
<1>8. \A d \in dead' : udp'[d] = 0 \/ udp'[d] \in strays'
  BY <1>2 DEF SessionInv, TypeOK
<1>9. job'.conn # 0 => job'.conn = reg' \/ job'.conn \in dead'
  BY DEF SessionInv
<1> QED
  BY <1>4, <1>5, <1>6, <1>7, <1>8, <1>9 DEF SessionInv

\* A connection that leaves the map is one a closer has done with.
LEMMA UnregisterOwned ==
    ASSUME TypeOK, SessionInv, Unregister, UNCHANGED <<udp, open, job>>,
           job.udp = 0 \/ pc'["proc"] = pc["proc"]
    PROVE  SessionInv'
<1>1. reg' = 0 /\ dead' = dead \cup ({reg} \ {0}) /\ strays \subseteq strays'
  BY DEF Unregister
<1>2. reg # 0 => udp[reg] = 0 \/ udp[reg] \in strays'
  BY DEF Unregister, SessionInv
<1>3. OnlyRacesLeak'
  <2> SUFFICES ASSUME NEW u \in open, u \notin strays' PROVE job.udp = u
    BY DEF OnlyRacesLeak, Owned
  <2>1. u # 0
    BY DEF TypeOK, ConnType, Sessions
  <2> QED
    BY <1>1, <1>2, <2>1 DEF SessionInv, OnlyRacesLeak, Owned
<1>4. BoundSessionOpen' /\ InHand'
  BY DEF SessionInv, BoundSessionOpen, InHand
<1>5. \A d \in dead' : udp'[d] = 0 \/ udp'[d] \in strays'
  BY <1>1, <1>2 DEF SessionInv
<1>6. job'.conn # 0 => job'.conn = reg' \/ job'.conn \in dead'
  BY <1>1 DEF SessionInv
<1> QED
  BY <1>3, <1>4, <1>5, <1>6 DEF SessionInv

\* The device and the clocks keep the ownership of UDP sessions.
LEMMA SessionEnvironment ==
    ASSUME TypeOK, PcInv, SessionInv,
           \/ OnSessionEstablished \/ OnDisconnect \/ Publish \/ Tick
    PROVE  SessionInv'
<1> "proc" \in Procs
  BY DEF Procs
<1>1. CASE OnSessionEstablished
  BY <1>1, SessionFrame DEF OnSessionEstablished, Device, TypeOK, SessionInv,
     InHand, Job
<1>2. CASE OnDisconnect
  BY <1>2, SessionFrame DEF OnDisconnect, Device, TypeOK, SessionInv, InHand,
     Job
<1>3. CASE Publish
  BY <1>3, SessionFrame DEF Publish, Device, TypeOK, SessionInv, InHand, Job
<1>4. CASE Tick
  BY <1>4, SessionFrame DEF Tick, TypeOK, SessionInv, InHand, Job
<1> QED
  BY <1>1, <1>2, <1>3, <1>4

\* processMessage keeps the ownership of UDP sessions.
LEMMA SessionProcess ==
    ASSUME TypeOK, PcInv, SessionInv,
           \/ Dequeue \/ getOrCreateLifecycleState \/ markDeviceOnline \/
              markDeviceOffline \/ RefuseStale \/ getDeviceSession \/
              MarkBrokerOnline \/ MarkBrokerOffline \/ EnsureDeviceTransport \/
              EnsureFails \/ OnClose \/ CloseOldManager \/ NewChatManager \/
              NotifyApp \/ RotateCreate \/ RotateFails \/ RotateBind \/ RotateClose
              \/ PushMsgToRecvCmd \/ promoteRefused
    PROVE  SessionInv'
<1> "proc" \in Procs
  BY DEF Procs
<1>1. CASE Dequeue
  BY <1>1, SessionFrame DEF Dequeue, NoJob, Goto, TypeOK, SessionInv, InHand,
     Job
<1>2. CASE getOrCreateLifecycleState
  BY <1>2, SessionFrame DEF getOrCreateLifecycleState, Goto, TypeOK, SessionInv,
     InHand, Job
<1>3. CASE markDeviceOnline
  BY <1>3, SessionFrame DEF markDeviceOnline, Goto, TypeOK, SessionInv, InHand,
     Job
<1>4. CASE markDeviceOffline
  BY <1>4, SessionFrame DEF markDeviceOffline, Goto, TypeOK, SessionInv, InHand,
     Job
<1>5. CASE RefuseStale
  BY <1>5, SessionFrame DEF RefuseStale, NoJob, Goto, TypeOK, SessionInv,
     InHand, Job
<1>6. CASE getDeviceSession
  BY <1>6, SessionFrame DEF getDeviceSession, Goto, TypeOK, SessionInv, InHand,
     Job
<1>7. CASE MarkBrokerOnline
  BY <1>7, SessionFrame DEF MarkBrokerOnline, Goto, TypeOK, SessionInv, InHand,
     Job
<1>8. CASE MarkBrokerOffline
  BY <1>8, SessionFrame DEF MarkBrokerOffline, Goto, TypeOK, SessionInv, InHand,
     Job
<1>9. CASE EnsureDeviceTransport
  <2>1. PICK c \in Conns, u \in Sessions :
           /\ First(c, UnusedConns) /\ First(u, UnusedSessions)
           /\ open' = open \cup {u}
           /\ udp' = [udp EXCEPT ![c] = u]
           /\ job' = [job EXCEPT !.conn = c]
           /\ reg' = c
           /\ dead' = dead \ {c} /\ strays' = strays \ {u}
    BY <1>9 DEF EnsureDeviceTransport
  <2>2. u # 0 /\ u \notin open /\ u # job.udp /\ \A d \in Conns : udp[d] # u
    BY <2>1 DEF First, UnusedSessions, Sessions
  <2>3. c # 0 /\ udp'[c] = u /\ \A d \in Conns \ {c} : udp'[d] = udp[d]
    BY <2>1 DEF TypeOK, ConnType, Conns
  <2>4. reg = 0 /\ job.udp = 0 /\ job'.udp = 0 /\ job'.conn = c
    BY <1>9, <2>1 DEF EnsureDeviceTransport, PcInv, SessionInv, InHand, TypeOK, Job
  <2>5. OnlyRacesLeak'
    <3> SUFFICES ASSUME NEW v \in open', v # u PROVE v \in strays'
      BY <2>1, <2>3 DEF OnlyRacesLeak, Owned
    <3>1. v \in open /\ v # 0
      BY <2>1 DEF TypeOK, ConnType, Sessions
    <3> QED
      BY <2>1, <2>4, <3>1 DEF SessionInv, OnlyRacesLeak, Owned
  <2>6. BoundSessionOpen' /\ InHand'
    BY <2>1, <2>3, <2>4 DEF SessionInv, BoundSessionOpen, InHand
  <2>7. \A d, e \in Conns : udp'[d] # 0 /\ udp'[d] = udp'[e] => d = e
    BY <2>2, <2>3 DEF SessionInv
  <2>8. \A d \in dead' : udp'[d] = 0 \/ udp'[d] \in strays'
    BY <2>1, <2>2, <2>3 DEF SessionInv, TypeOK
  <2> QED
    BY <2>1, <2>4, <2>5, <2>6, <2>7, <2>8 DEF SessionInv
<1>10. CASE EnsureFails
  BY <1>10, SessionFrame DEF EnsureFails, NoJob, Goto, TypeOK, SessionInv,
     InHand, Job
<1>11. CASE OnClose
  BY <1>11, SessionFrame DEF OnClose, Goto, TypeOK, SessionInv, InHand, Job
<1>12. CASE CloseOldManager
  BY <1>12, SessionFrame DEF CloseOldManager, Goto, TypeOK, SessionInv, InHand,
     Job
<1>13. CASE NewChatManager
  BY <1>13, SessionFrame DEF NewChatManager, Goto, TypeOK, SessionInv, InHand,
     Job
<1>14. CASE NotifyApp
  BY <1>14, SessionFrame DEF NotifyApp, AfterNotify, NoJob, Goto, TypeOK,
     SessionInv, InHand, Job
<1>15. CASE RotateCreate
  <2>1. PICK u \in Sessions : /\ First(u, UnusedSessions)
                             /\ open' = open \cup {u}
                             /\ job' = [job EXCEPT !.udp = u]
                             /\ strays' = strays \ {u}
    BY <1>15 DEF RotateCreate
  <2>2. u # 0 /\ u \notin open /\ \A c \in Conns : udp[c] # u
    BY <2>1 DEF First, UnusedSessions, Sessions
  <2>3. job.udp = 0 /\ UNCHANGED <<udp, reg, dead>> /\ pc'["proc"] = "bind"
    BY <1>15 DEF RotateCreate, SessionInv, InHand, Goto, TypeOK
  <2>4. job'.udp = u /\ job'.conn = job.conn
    BY <2>1 DEF TypeOK, Job
  <2>5. OnlyRacesLeak'
    <3> SUFFICES ASSUME NEW v \in open', v # u PROVE v \in strays' \/ (reg # 0 /\ udp[reg] = v)
      BY <2>3, <2>4 DEF OnlyRacesLeak, Owned
    <3>1. v \in open /\ v # 0
      BY <2>1 DEF TypeOK, ConnType, Sessions
    <3> QED
      BY <2>1, <2>3, <3>1 DEF SessionInv, OnlyRacesLeak, Owned
  <2>6. BoundSessionOpen' /\ InHand'
    BY <2>1, <2>2, <2>3, <2>4 DEF SessionInv, BoundSessionOpen, InHand
  <2>7. \A c \in dead' : udp'[c] = 0 \/ udp'[c] \in strays'
    BY <2>1, <2>2, <2>3 DEF SessionInv, TypeOK
  <2> QED
    BY <2>3, <2>4, <2>5, <2>6, <2>7 DEF SessionInv
<1>16. CASE RotateFails
  BY <1>16, SessionFrame DEF RotateFails, NoJob, Goto, TypeOK, SessionInv,
     InHand, Job
<1>17. CASE RotateBind
  <2> DEFINE c == job.conn
  <2>1. c \in Conns /\ job.udp # 0 /\ job.udp \in open
    BY <1>17 DEF RotateBind, PcInv, SessionInv, InHand, TypeOK, Job
  <2>2. /\ udp'[c] = job.udp /\ \A d \in Conns \ {c} : udp'[d] = udp[d]
        /\ job'.udp = udp[c] /\ job'.conn = c
    BY <1>17, <2>1 DEF RotateBind, TypeOK, ConnType, Job
  <2>3. UNCHANGED <<open, reg, dead>> /\ pc'["proc"] = "close_old"
    BY <1>17 DEF RotateBind, Goto, TypeOK
  <2>4. /\ strays \subseteq strays'
        /\ c \in dead => job.udp \in strays'
    BY <1>17 DEF RotateBind
  <2>5. reg # 0 => reg \in Conns
    BY DEF TypeOK
  <2>6. c = reg \/ c \in dead
    BY <2>1 DEF SessionInv, Conns
  <2> HIDE DEF c
  <2>7. OnlyRacesLeak'
    <3> SUFFICES ASSUME NEW v \in open, v \notin strays'
                 PROVE  job'.udp = v \/ (reg # 0 /\ udp'[reg] = v)
      BY <2>3 DEF OnlyRacesLeak, Owned
    <3>1. job.udp = v \/ (reg # 0 /\ udp[reg] = v)
      BY <2>4 DEF SessionInv, OnlyRacesLeak, Owned
    <3>2. CASE job.udp = v
      BY <2>1, <2>2, <2>4, <2>6, <3>2 DEF Conns
    <3>3. CASE reg # 0 /\ udp[reg] = v
      BY <2>2, <2>5, <3>3
    <3> QED
      BY <3>1, <3>2, <3>3
  <2>8. BoundSessionOpen'
    BY <2>1, <2>2, <2>3 DEF SessionInv, BoundSessionOpen
  <2>9. \A d, e \in Conns : udp'[d] # 0 /\ udp'[d] = udp'[e] => d = e
    BY <2>1, <2>2 DEF SessionInv, InHand
  <2>10. InHand'
    BY <2>1, <2>2, <2>3 DEF SessionInv, InHand, BoundSessionOpen
  <2>11. \A d \in dead' : udp'[d] = 0 \/ udp'[d] \in strays'
    BY <2>1, <2>2, <2>3, <2>4 DEF SessionInv, TypeOK
  <2> QED
    BY <2>2, <2>3, <2>6, <2>7, <2>8, <2>9, <2>10, <2>11 DEF SessionInv
<1>18. CASE RotateClose
  <2>1. open' = open \ {job.udp} /\ job'.udp = 0 /\ job'.conn = job.conn
    BY <1>18 DEF RotateClose, TypeOK, Job
  <2>2. UNCHANGED <<udp, reg, dead, strays>>
    BY <1>18 DEF RotateClose
  <2>3. OnlyRacesLeak'
    BY <2>1, <2>2 DEF SessionInv, OnlyRacesLeak, Owned
  <2>4. BoundSessionOpen' /\ InHand'
    BY <2>1, <2>2 DEF SessionInv, BoundSessionOpen, InHand
  <2> QED
    BY <2>1, <2>2, <2>3, <2>4 DEF SessionInv
<1>19. CASE PushMsgToRecvCmd
  BY <1>19, SessionFrame DEF PushMsgToRecvCmd, NoJob, Goto, TypeOK, SessionInv,
     InHand, Job
<1>20. CASE promoteRefused
  BY <1>20, SessionFrame DEF promoteRefused, Goto, TypeOK, SessionInv, InHand,
     Job
<1> QED
  BY <1>1, <1>2, <1>3, <1>4, <1>5, <1>6, <1>7, <1>8, <1>9, <1>10, <1>11, <1>12,
     <1>13, <1>14, <1>15, <1>16, <1>17, <1>18, <1>19, <1>20

\* Destroy and handleDisconnect keep the ownership of UDP sessions.
LEMMA SessionDestroy ==
    ASSUME TypeOK, PcInv, SessionInv, NEW p \in Procs,
           \/ Destroy(p) \/ DisconnectLookup(p) \/ DisconnectState(p) \/
              DisconnectMark(p) \/ DisconnectDelete(p) \/ DisconnectRelease(p) \/
              DisconnectUnregister(p) \/ DisconnectNotify(p) \/ DestroyReturns(p)
    PROVE  SessionInv'
<1> "proc" \in Procs
  BY DEF Procs
<1>1. CASE Destroy(p)
  BY <1>1, SessionFrame DEF Destroy, Goto, TypeOK, SessionInv, InHand, Job
<1>2. CASE DisconnectLookup(p)
  BY <1>2, SessionFrame DEF DisconnectLookup, Goto, TypeOK, SessionInv, InHand,
     Job
<1>3. CASE DisconnectState(p)
  BY <1>3, SessionFrame DEF DisconnectState, Goto, TypeOK, SessionInv, InHand,
     Job
<1>4. CASE DisconnectMark(p)
  BY <1>4, SessionFrame DEF DisconnectMark, Goto, TypeOK, SessionInv, InHand,
     Job
<1>5. CASE DisconnectDelete(p)
  BY <1>5, SessionFrame DEF DisconnectDelete, Goto, TypeOK, SessionInv, InHand,
     Job
<1>6. CASE DisconnectRelease(p)
  <2>1. job.udp = 0 \/ pc'["proc"] = pc["proc"]
    BY <1>6 DEF DisconnectRelease, Goto, TypeOK, SessionInv, InHand
  <2>2. UNCHANGED <<job, reg, strays>>
    BY <1>6 DEF DisconnectRelease
  <2>3. CASE found[p] = 0
    BY <1>6, <2>1, <2>2, <2>3, SessionFrame DEF DisconnectRelease
  <2>4. CASE found[p] # 0
    <3>1. PICK c \in Conns : c = found[p]
      BY <2>4 DEF TypeOK, ThreadType
    <3>2. ReleaseUdpSession(c) /\ dead' = dead \cup {c}
      BY <1>6, <2>4, <3>1 DEF DisconnectRelease
    <3> QED
      BY <2>1, <2>2, <3>2, ReleaseOwned
  <2> QED
    BY <2>3, <2>4
<1>7. CASE DisconnectUnregister(p)
  BY <1>7, UnregisterOwned DEF DisconnectUnregister, Goto, TypeOK, SessionInv,
     InHand
<1>8. CASE DisconnectNotify(p)
  BY <1>8, SessionFrame DEF DisconnectNotify, Goto, TypeOK, SessionInv, InHand,
     Job
<1>9. CASE DestroyReturns(p)
  BY <1>9, SessionFrame DEF DestroyReturns, Return, Goto, TypeOK, SessionInv,
     InHand, Job
<1> QED
  BY <1>1, <1>2, <1>3, <1>4, <1>5, <1>6, <1>7, <1>8, <1>9

\* A cleanup callback keeps the ownership of UDP sessions.
LEMMA SessionCleanup ==
    ASSUME TypeOK, PcInv, SessionInv, NEW t \in Timers,
           \/ TimerFires(t) \/ CleanupState(t) \/ CleanupCheck(t) \/ CleanupConn(t)
    PROVE  SessionInv'
<1> t \in Procs /\ t # "proc" /\ "proc" \in Procs
  BY DEF Procs
<1>1. CASE TimerFires(t)
  BY <1>1, SessionFrame DEF TimerFires, Goto, TypeOK, SessionInv, InHand, Job
<1>2. CASE CleanupState(t)
  BY <1>2, SessionFrame DEF CleanupState, Goto, TypeOK, SessionInv, InHand, Job
<1>3. CASE CleanupCheck(t)
  BY <1>3, SessionFrame DEF CleanupCheck, Goto, TypeOK, SessionInv, InHand, Job
<1>4. CASE CleanupConn(t)
  BY <1>4, SessionFrame DEF CleanupConn, Goto, TypeOK, SessionInv, InHand, Job
<1> QED
  BY <1>1, <1>2, <1>3, <1>4

\* The ticker, the ChatManager and a reload keep the ownership of UDP sessions.
LEMMA SessionOthers ==
    ASSUME TypeOK, PcInv, SessionInv,
           \/ "tick" \in Actors /\ (TickerSees \/ IsActive \/ IsInactive)
           \/ "reset" \in Actors /\ (CloseChatManager \/ CloseAudioChannel)
           \/ "reload" \in Actors /\ (ReloadStates \/ ReloadDelete \/ ReloadConn \/ ReloadDrop)
    PROVE  SessionInv'
<1> "proc" \in Procs
  BY DEF Procs
<1>1. CASE "tick" \in Actors /\ TickerSees
  BY <1>1, SessionFrame DEF TickerSees, Goto, Procs, TypeOK, SessionInv, InHand,
     Job
<1>2. CASE "tick" \in Actors /\ IsActive
  BY <1>2, SessionFrame DEF IsActive, Goto, Procs, TypeOK, SessionInv, InHand,
     Job
<1>3. CASE "tick" \in Actors /\ IsInactive
  BY <1>3, SessionFrame DEF IsInactive, Goto, Procs, TypeOK, SessionInv, InHand,
     Job
<1>4. CASE "reset" \in Actors /\ CloseChatManager
  BY <1>4, SessionFrame DEF CloseChatManager, Goto, Procs, TypeOK, SessionInv,
     InHand, Job
<1>5. CASE "reset" \in Actors /\ CloseAudioChannel
  <2>1. PICK c \in Conns : ReleaseUdpSession(c)
    BY <1>5 DEF CloseAudioChannel, TypeOK
  <2>2. UNCHANGED <<job, pc, reg, dead, strays>>
    BY <1>5 DEF CloseAudioChannel
  <2> QED
    BY <2>1, <2>2, ReleaseOwned
<1>6. CASE "reload" \in Actors /\ ReloadStates
  BY <1>6, SessionFrame DEF ReloadStates, Goto, Procs, TypeOK, SessionInv,
     InHand, Job
<1>7. CASE "reload" \in Actors /\ ReloadDelete
  BY <1>7, SessionFrame DEF ReloadDelete, Goto, Procs, TypeOK, SessionInv,
     InHand, Job
<1>8. CASE "reload" \in Actors /\ ReloadConn
  BY <1>8, SessionFrame DEF ReloadConn, Goto, Procs, TypeOK, SessionInv, InHand,
     Job
<1>9. CASE "reload" \in Actors /\ ReloadDrop
  BY <1>9, UnregisterOwned DEF ReloadDrop, Goto, Procs, TypeOK, SessionInv, InHand
<1> QED
  BY <1>1, <1>2, <1>3, <1>4, <1>5, <1>6, <1>7, <1>8, <1>9

-----------------------------------------------------------------------------
(***************************************************************************)
(* Connections and their ChatManagers.                                     *)
(***************************************************************************)

\* A step of goroutines that are not closing a connection and leave the map,
\* the managers and the callbacks of the registered connection alone.
LEMMA ManagerFrame ==
    ASSUME ManagerInv, UNCHANGED <<reg, managed>>,
           reg # 0 => \/ hooks'[reg] = hooks[reg]
                      \/ job'.conn = reg /\ pc'["proc"] \in Installing,
           pc["proc"] \in Installing => pc'["proc"] \in Installing /\ job'.conn = job.conn,
           \A p \in Procs :
              \/ /\ pc'[p] = pc[p] /\ me'[p] = me[p]
                 /\ found'[p] = found[p] /\ calls'[p] = calls[p]
              \/ pc[p] \notin Closing \cup Done /\ pc'[p] \notin Closing \cup Done
    PROVE  ManagerInv'
<1>1. RegisteredHasManager'
  BY DEF ManagerInv, RegisteredHasManager
<1>2. reg' # 0 /\ hooks'[reg'] # 2 => job'.conn = reg' /\ pc'["proc"] \in Installing
  BY DEF ManagerInv
<1>3. \A p \in Procs : pc'[p] \in Closing \cup Done =>
         pc'[p] = pc[p] /\ me'[p] = me[p] /\ found'[p] = found[p] /\ calls'[p] = calls[p]
  OBVIOUS
<1> QED
  BY <1>1, <1>2, <1>3 DEF ManagerInv, Done

\* The device and the clocks keep what closers know of the map.
LEMMA ManagerEnvironment ==
    ASSUME TypeOK, PcInv, ManagerInv,
           \/ OnSessionEstablished \/ OnDisconnect \/ Publish \/ Tick
    PROVE  ManagerInv'
<1> "proc" \in Procs
  BY DEF Procs
<1>1. CASE OnSessionEstablished
  BY <1>1, ManagerFrame DEF OnSessionEstablished, Device, TypeOK, ThreadType,
     Installing, Closing, Done, Job
<1>2. CASE OnDisconnect
  BY <1>2, ManagerFrame DEF OnDisconnect, Device, TypeOK, ThreadType,
     Installing, Closing, Done, Job
<1>3. CASE Publish
  BY <1>3, ManagerFrame DEF Publish, Device, TypeOK, ThreadType, Installing,
     Closing, Done, Job
<1>4. CASE Tick
  BY <1>4, ManagerFrame DEF Tick, TypeOK, ThreadType, Installing, Closing, Done,
     Job
<1> QED
  BY <1>1, <1>2, <1>3, <1>4

\* processMessage keeps what closers know of the map.
LEMMA ManagerProcess ==
    ASSUME TypeOK, PcInv, ManagerInv,
           \/ Dequeue \/ getOrCreateLifecycleState \/ markDeviceOnline \/
              markDeviceOffline \/ RefuseStale \/ getDeviceSession \/
              MarkBrokerOnline \/ MarkBrokerOffline \/ EnsureDeviceTransport \/
              EnsureFails \/ OnClose \/ CloseOldManager \/ NewChatManager \/
              NotifyApp \/ RotateCreate \/ RotateFails \/ RotateBind \/ RotateClose
              \/ PushMsgToRecvCmd \/ promoteRefused
    PROVE  ManagerInv'
<1> "proc" \in Procs
  BY DEF Procs
<1>1. CASE Dequeue
  BY <1>1, ManagerFrame DEF Dequeue, NoJob, Goto, TypeOK, ThreadType,
     Installing, Closing, Done, Job
<1>2. CASE getOrCreateLifecycleState
  BY <1>2, ManagerFrame DEF getOrCreateLifecycleState, Goto, TypeOK, ThreadType,
     Installing, Closing, Done, Job
<1>3. CASE markDeviceOnline
  BY <1>3, ManagerFrame DEF markDeviceOnline, Goto, TypeOK, ThreadType,
     Installing, Closing, Done, Job
<1>4. CASE markDeviceOffline
  BY <1>4, ManagerFrame DEF markDeviceOffline, Goto, TypeOK, ThreadType,
     Installing, Closing, Done, Job
<1>5. CASE RefuseStale
  BY <1>5, ManagerFrame DEF RefuseStale, NoJob, Goto, TypeOK, ThreadType,
     Installing, Closing, Done, Job
<1>6. CASE getDeviceSession
  BY <1>6, ManagerFrame DEF getDeviceSession, Goto, TypeOK, ThreadType,
     Installing, Closing, Done, Job
<1>7. CASE MarkBrokerOnline
  BY <1>7, ManagerFrame DEF MarkBrokerOnline, Goto, TypeOK, ThreadType,
     Installing, Closing, Done, Job
<1>8. CASE MarkBrokerOffline
  BY <1>8, ManagerFrame DEF MarkBrokerOffline, Goto, TypeOK, ThreadType,
     Installing, Closing, Done, Job
<1>9. CASE EnsureDeviceTransport
  BY <1>9 DEF EnsureDeviceTransport, First, UnusedConns, Goto, TypeOK, PcInv,
     ManagerInv, RegisteredHasManager, Installing, Closing, Done, ThreadType,
     ConnType, Job, Conns
<1>10. CASE EnsureFails
  BY <1>10, ManagerFrame DEF EnsureFails, NoJob, Goto, TypeOK, ThreadType,
     Installing, Closing, Done, Job
<1>11. CASE OnClose
  BY <1>11, ManagerFrame DEF OnClose, Goto, TypeOK, ThreadType, Installing,
     Closing, Done, Job
<1>12. CASE CloseOldManager
  BY <1>12 DEF CloseOldManager, Goto, TypeOK, PcInv, ManagerInv,
     RegisteredHasManager, Installing, Closing, Done, ThreadType, ConnType, Job
<1>13. CASE NewChatManager
  BY <1>13 DEF NewChatManager, Goto, TypeOK, PcInv, ManagerInv,
     RegisteredHasManager, Installing, Closing, Done, ThreadType, ConnType, Job
<1>14. CASE NotifyApp
  BY <1>14, ManagerFrame DEF NotifyApp, AfterNotify, NoJob, Goto, TypeOK,
     ThreadType, Installing, Closing, Done, Job
<1>15. CASE RotateCreate
  BY <1>15, ManagerFrame DEF RotateCreate, Goto, TypeOK, ThreadType, Installing,
     Closing, Done, Job
<1>16. CASE RotateFails
  BY <1>16, ManagerFrame DEF RotateFails, NoJob, Goto, TypeOK, ThreadType,
     Installing, Closing, Done, Job
<1>17. CASE RotateBind
  BY <1>17, ManagerFrame DEF RotateBind, Goto, TypeOK, ThreadType, Installing,
     Closing, Done, Job
<1>18. CASE RotateClose
  BY <1>18, ManagerFrame DEF RotateClose, Goto, TypeOK, ThreadType, Installing,
     Closing, Done, Job
<1>19. CASE PushMsgToRecvCmd
  BY <1>19, ManagerFrame DEF PushMsgToRecvCmd, NoJob, Goto, TypeOK, ThreadType,
     Installing, Closing, Done, Job
<1>20. CASE promoteRefused
  BY <1>20, ManagerFrame DEF promoteRefused, Goto, TypeOK, ThreadType,
     Installing, Closing, Done, Job
<1> QED
  BY <1>1, <1>2, <1>3, <1>4, <1>5, <1>6, <1>7, <1>8, <1>9, <1>10, <1>11, <1>12,
     <1>13, <1>14, <1>15, <1>16, <1>17, <1>18, <1>19, <1>20

\* Destroy and handleDisconnect keep what closers know of the map.
LEMMA ManagerDestroy ==
    ASSUME TypeOK, PcInv, ManagerInv, NEW p \in Procs,
           \/ Destroy(p) \/ DisconnectLookup(p) \/ DisconnectState(p) \/
              DisconnectMark(p) \/ DisconnectDelete(p) \/ DisconnectRelease(p) \/
              DisconnectUnregister(p) \/ DisconnectNotify(p) \/ DestroyReturns(p)
    PROVE  ManagerInv'
<1> "proc" \in Procs
  BY DEF Procs
<1>1. CASE Destroy(p)
  BY <1>1 DEF Destroy, Goto, TypeOK, PcInv, ManagerInv, RegisteredHasManager,
     Installing, Closing, Done, ThreadType, Conns
<1>2. CASE DisconnectLookup(p)
  BY <1>2 DEF DisconnectLookup, Goto, TypeOK, PcInv, ManagerInv,
     RegisteredHasManager, Installing, Closing, Done, ThreadType, Conns
<1>3. CASE DisconnectState(p)
  BY <1>3 DEF DisconnectState, Goto, TypeOK, PcInv, ManagerInv,
     RegisteredHasManager, Installing, Closing, Done, ThreadType, Conns
<1>4. CASE DisconnectMark(p)
  BY <1>4 DEF DisconnectMark, Goto, TypeOK, PcInv, ManagerInv,
     RegisteredHasManager, Installing, Closing, Done, ThreadType, Conns
<1>5. CASE DisconnectDelete(p)
  BY <1>5 DEF DisconnectDelete, Goto, TypeOK, PcInv, ManagerInv,
     RegisteredHasManager, Installing, Closing, Done, ThreadType, Conns
<1>6. CASE DisconnectRelease(p)
  BY <1>6 DEF DisconnectRelease, Goto, TypeOK, PcInv, ManagerInv,
     RegisteredHasManager, Installing, Closing, Done, ThreadType, Conns
<1>7. CASE DisconnectUnregister(p)
  BY <1>7 DEF DisconnectUnregister, Goto, TypeOK, PcInv, ManagerInv,
     RegisteredHasManager, Installing, Closing, Done, ThreadType, Conns,
     Unregister
<1>8. CASE DisconnectNotify(p)
  BY <1>8 DEF DisconnectNotify, Goto, TypeOK, PcInv, ManagerInv,
     RegisteredHasManager, Installing, Closing, Done, ThreadType, Conns
<1>9. CASE DestroyReturns(p)
  BY <1>9 DEF DestroyReturns, Goto, TypeOK, PcInv, ManagerInv,
     RegisteredHasManager, Installing, Closing, Done, ThreadType, Conns, Return
<1> QED
  BY <1>1, <1>2, <1>3, <1>4, <1>5, <1>6, <1>7, <1>8, <1>9

\* A cleanup callback keeps what closers know of the map.
LEMMA ManagerCleanup ==
    ASSUME TypeOK, PcInv, ManagerInv, NEW t \in Timers,
           \/ TimerFires(t) \/ CleanupState(t) \/ CleanupCheck(t) \/ CleanupConn(t)
    PROVE  ManagerInv'
<1> t \in Procs /\ t # "proc" /\ "proc" \in Procs
  BY DEF Procs
<1>1. CASE TimerFires(t)
  BY <1>1, ManagerFrame DEF TimerFires, Goto, TypeOK, ThreadType, Installing,
     Closing, Done, Job
<1>2. CASE CleanupState(t)
  BY <1>2, ManagerFrame DEF CleanupState, Goto, TypeOK, ThreadType, Installing,
     Closing, Done, Job
<1>3. CASE CleanupCheck(t)
  BY <1>3, ManagerFrame DEF CleanupCheck, Goto, TypeOK, ThreadType, Installing,
     Closing, Done, Job
<1>4. CASE CleanupConn(t)
  BY <1>4 DEF CleanupConn, Goto, TypeOK, PcInv, ManagerInv, RegisteredHasManager,
     Installing, Closing, Done, ThreadType
<1> QED
  BY <1>1, <1>2, <1>3, <1>4

\* The ticker, the ChatManager and a reload keep what closers know of the map.
LEMMA ManagerOthers ==
    ASSUME TypeOK, PcInv, ManagerInv,
           \/ "tick" \in Actors /\ (TickerSees \/ IsActive \/ IsInactive)
           \/ "reset" \in Actors /\ (CloseChatManager \/ CloseAudioChannel)
           \/ "reload" \in Actors /\ (ReloadStates \/ ReloadDelete \/ ReloadConn \/ ReloadDrop)
    PROVE  ManagerInv'
<1> "proc" \in Procs
  BY DEF Procs
<1>1. CASE "tick" \in Actors /\ TickerSees
  BY <1>1, ManagerFrame DEF TickerSees, Goto, Procs, TypeOK, ThreadType,
     Installing, Closing, Done, Job
<1>2. CASE "tick" \in Actors /\ IsActive
  BY <1>2, ManagerFrame DEF IsActive, Goto, Procs, TypeOK, ThreadType,
     Installing, Closing, Done, Job
<1>3. CASE "tick" \in Actors /\ IsInactive
  BY <1>3 DEF IsInactive, Goto, Procs, TypeOK, PcInv, ManagerInv,
     RegisteredHasManager, Installing, Closing, Done, ThreadType
<1>4. CASE "reset" \in Actors /\ CloseChatManager
  BY <1>4 DEF CloseChatManager, Goto, Procs, TypeOK, PcInv, ManagerInv,
     RegisteredHasManager, Installing, Closing, Done, ThreadType
<1>5. CASE "reset" \in Actors /\ CloseAudioChannel
  BY <1>5, ManagerFrame DEF CloseAudioChannel, Goto, Procs, TypeOK, ThreadType,
     Installing, Closing, Done, Job
<1>6. CASE "reload" \in Actors /\ ReloadStates
  BY <1>6, ManagerFrame DEF ReloadStates, Goto, Procs, TypeOK, ThreadType,
     Installing, Closing, Done, Job
<1>7. CASE "reload" \in Actors /\ ReloadDelete
  BY <1>7, ManagerFrame DEF ReloadDelete, Goto, Procs, TypeOK, ThreadType,
     Installing, Closing, Done, Job
<1>8. CASE "reload" \in Actors /\ ReloadConn
  BY <1>8 DEF ReloadConn, Goto, Procs, TypeOK, PcInv, ManagerInv,
     RegisteredHasManager, Installing, Closing, Done, ThreadType
<1>9. CASE "reload" \in Actors /\ ReloadDrop
  BY <1>9 DEF ReloadDrop, Goto, Procs, TypeOK, PcInv, ManagerInv,
     RegisteredHasManager, Installing, Closing, Done, ThreadType, Unregister
<1> QED
  BY <1>1, <1>2, <1>3, <1>4, <1>5, <1>6, <1>7, <1>8, <1>9

-----------------------------------------------------------------------------
LEMMA InitIInv == Init => IInv
<1> SUFFICES ASSUME Init PROVE IInv
  OBVIOUS
<1> "proc" \in Procs /\ 1 \in 1 .. MaxTime /\ 0 \in 0 .. MaxEvents /\ 0 \in 0 .. MaxReloads
  BY DEF Procs
<1>1. BrokerType
  <2>1. queue = <<>> /\ Len(queue) = 0 /\ queue \in Seq(Message)
    BY DEF Init
  <2>2. 0 <= QueueCap
    OBVIOUS
  <2> QED
    BY <2>1, <2>2 DEF Init, BrokerType
<1>2. StateType
  BY DEF Init, StateType, NewState, LifecycleState
<1>3. ConnType
  BY DEF Init, ConnType
<1>4. ThreadType
  BY DEF Init, ThreadType
<1>5. TypeOK
  BY <1>1, <1>2, <1>3, <1>4 DEF Init, TypeOK, Labels, NoJob, Job, MsgKinds
<1>6. PcInv
  BY DEF Init, PcInv, Installing, Closing, Done
<1>7. SessionInv
  BY DEF Init, SessionInv, OnlyRacesLeak, BoundSessionOpen, InHand, NoJob
<1>8. ManagerInv
  BY DEF Init, ManagerInv, RegisteredHasManager, Closing
<1> QED
  BY <1>5, <1>6, <1>7, <1>8 DEF IInv

LEMMA NextIInv == IInv /\ [Next]_vars => IInv'
<1> SUFFICES ASSUME IInv, [Next]_vars PROVE IInv'
  OBVIOUS
<1> TypeOK /\ PcInv /\ SessionInv /\ ManagerInv
  BY DEF IInv
<1>1. CASE Environment
  BY <1>1, TypeEnvironment, PcEnvironment, SessionEnvironment,
     ManagerEnvironment DEF Environment, IInv
<1>2. CASE processMessage
  BY <1>2, TypeProcess, PcProcess, SessionProcess,
     ManagerProcess
     DEF processMessage, IInv
<1>3. ASSUME NEW p \in Procs, Destroying(p) PROVE IInv'
  BY <1>3, TypeDestroy, PcDestroy, SessionDestroy,
     ManagerDestroy
     DEF Destroying, IInv
<1>4. ASSUME NEW t \in Timers, cleanupOfflineTransport(t) PROVE IInv'
  BY <1>4, TypeCleanup, PcCleanup, SessionCleanup,
     ManagerCleanup
     DEF cleanupOfflineTransport, IInv
<1>5. CASE checkClientActive \/ ChatManager \/ Reload
  BY <1>5, TypeOthers, PcOthers, SessionOthers,
     ManagerOthers
     DEF checkClientActive, ChatManager, Reload, IInv
<1>6. CASE UNCHANGED vars
  <2>1. UNCHANGED <<brokerVars, stateVars, reg, connVars, appVars, pc, threadVars, job,
                    reloads, historyVars>>
    BY <1>6 DEF vars
  <2>2. TypeOK'
    BY <2>1, TypeFrame DEF TypeOK
  <2>3. PcInv'
    BY <2>1 DEF PcInv
  <2>4. SessionInv'
    BY <2>1, SessionFrame
  <2>5. ManagerInv'
    BY <2>1, ManagerFrame
  <2> QED
    BY <2>2, <2>3, <2>4, <2>5 DEF IInv
<1> QED
  BY <1>1, <1>2, <1>3, <1>4, <1>5, <1>6 DEF Next

\* The inductive invariant holds in every reachable state.
THEOREM TransportInvariant == Spec => []IInv
BY InitIInv, NextIInv, PTL DEF Spec

\* Every variable of the transport keeps its type.
THEOREM TransportTypeCorrect == Spec => []TypeOK
<1>1. IInv => TypeOK
  BY DEF IInv
<1> QED
  BY <1>1, TransportInvariant, PTL

\* However rotation, goodbye, cleanup, ticker, reset and reload interleave, a
\* UDP session is left open without an owner by two races only: a rotation of a
\* connection that a closer has done with, and the deletion of an entry that is
\* not the closer's own.
THEOREM TransportOnlyRacesLeak == Spec => []OnlyRacesLeak
<1>1. IInv => OnlyRacesLeak
  BY DEF IInv, SessionInv
<1> QED
  BY <1>1, TransportInvariant, PTL

\* Nor does a connection ever point at a session that was closed.
THEOREM TransportBoundSessionOpen == Spec => []BoundSessionOpen
<1>1. IInv => BoundSessionOpen
  BY DEF IInv, SessionInv
<1> QED
  BY <1>1, TransportInvariant, PTL

\* A registered connection has a ChatManager, is about to get one, or is being
\* taken out of the map.
THEOREM TransportRegisteredHasManager == Spec => []RegisteredHasManager
<1>1. IInv => RegisteredHasManager
  BY DEF IInv, ManagerInv
<1> QED
  BY <1>1, TransportInvariant, PTL
=============================================================================
