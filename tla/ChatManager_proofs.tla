------------------------- MODULE ChatManager_proofs -------------------------
(***************************************************************************)
(* Proofs about ChatManager, for every set of injectors and actors, either *)
(* transport, and any number of sessions, speak requests and arrivals.     *)
(***************************************************************************)
EXTENDS ChatManager, FiniteSetTheorems, TLAPS

(***************************************************************************)
(* The inductive invariant.                                                *)
(*                                                                         *)
(* AtInv: a goroutine in the middle of starting, closing, awaiting or      *)
(* retaining a session has one in hand.                                    *)
(* CloseInv: closing comes first.  Whoever is inside CloseWithReason has   *)
(* set the flag, and the close handler runs only for a session that has    *)
(* it; a session that failed to start has it too.                          *)
(* HeldInv: a session past the handler's critical section is registered    *)
(* nowhere.                                                                *)
(* SignalInv: the entry `starting` stands for the right to close the start *)
(* channel.  As long as it is there the channel is open and somebody is on *)
(* the way to finishSessionStart; who removes it is the only one to close  *)
(* the channel.                                                            *)
(* WaitInv: who waits on a channel will be woken.                          *)
(***************************************************************************)
InHand == {"e_wait", "e_start", "e_finish", "e_signal", "e_end", "c_once", "c_wait",
           "t_check", "t_close", "r_schedule", "r_arm"}

AtInv == \A p \in Procs : pc[p] \in InHand => at[p] \in Sessions

CloseInv ==
    /\ \A s \in Sessions : body[s] # "free" => closing[s]
    /\ \A p \in Procs : pc[p] \in {"c_once", "c_wait"} => closing[at[p]]
    /\ \A p \in Procs : pc[p] = "e_finish" /\ got[p] # "session" => closing[at[p]]

HeldInv ==
    /\ LiveSessionHeld
    /\ \A s \in Sessions : body[s] \notin {"free", "handler", "clear"} =>
          s # session /\ s # starting

SignalInv ==
    /\ \A p, q \in Procs :
          pc[p] = "e_signal" /\ pc[q] = "e_signal" /\ at[p] = at[q] => p = q
    /\ \A p \in Procs : pc[p] = "e_signal" =>
          at[p] # starting /\ body[at[p]] # "signal" /\ ~signalled[at[p]]
    /\ \A s \in Sessions : body[s] = "signal" => ~signalled[s]
    /\ starting # 0 => ~signalled[starting]

Starts(p) == \/ pc[p] \in {"e_start", "e_finish"}
             \/ pc[p] \in {"c_once", "c_wait"} /\ then[p] = "e_finish"

StarterInv == starting # 0 => \E p \in Procs : at[p] = starting /\ Starts(p)

WaitInv ==
    \A p \in Procs : pc[p] = "e_wait" =>
        \/ signalled[at[p]]
        \/ body[at[p]] = "signal"
        \/ \E q \in Procs : pc[q] = "e_signal" /\ at[q] = at[p]
        \/ starting = at[p]

\* TypeOK without what follows from HeldInv.
WorkType == transport \in Transports /\ work \in 0 .. MaxWork

PendingOpen == pending # 0 => settled[pending] = "open"

Types ==
    /\ WorkType /\ MgrType /\ RetainType /\ SpeakType /\ PendingOpen /\ SessType
    /\ ShutType /\ CallType /\ JobType

IInv ==
    Types /\ AtInv /\ CloseInv /\ HeldInv /\ SignalInv /\ StarterInv /\ WaitInv

USE ChatAssumption
USE DEF mgrVars, helloVars, retainVars, speakVars, sessVars, shutVars, callVars,
        ensureVars, jobVars

-----------------------------------------------------------------------------
(***************************************************************************)
(* Types.                                                                  *)
(***************************************************************************)

\* A part of the state that a step leaves alone keeps its type.
LEMMA TypeFrame ==
    ASSUME Types
    PROVE  /\ UNCHANGED <<transport, work>> => WorkType'
           /\ UNCHANGED <<mgrVars, helloVars>> => MgrType'
           /\ UNCHANGED retainVars => RetainType'
           /\ UNCHANGED <<rebootstrap, speakVars>> => SpeakType' /\ PendingOpen'
           /\ UNCHANGED sessVars => SessType'
           /\ UNCHANGED shutVars => ShutType'
           /\ UNCHANGED <<pc, callVars, ensureVars>> => CallType'
           /\ UNCHANGED jobVars => JobType'
BY DEF Types, WorkType, MgrType, RetainType, SpeakType, PendingOpen, SessType, ShutType,
       CallType, JobType

\* Moving on keeps the labels, and calling CloseWithReason all of CallType.
LEMMA MoveType ==
    ASSUME CallType, NEW p, NEW l \in Labels, Goto(p, l)
    PROVE  pc' \in [Procs -> Labels]
BY DEF CallType, Goto

LEMMA CloseType ==
    ASSUME CallType, NEW p \in Procs, NEW s \in Sessions, NEW reason \in Reasons,
           NEW l \in {"idle", "e_finish", "s_close"},
           CloseWithReason(p, s, reason, l), UNCHANGED ensureVars
    PROVE  CallType'
BY DEF CallType, CloseWithReason, Goto, Labels

\* ensureSessionInternal keeps the types.
LEMMA TypeEnsure ==
    ASSUME Types, AtInv, NEW p \in Procs,
           EnsureFound(p) \/ EnsureWaits(p) \/ EnsureWakes(p) \/ EnsureRefused(p)
           \/ EnsureCreates(p) \/ StartSucceeds(p) \/ StartFails(p) \/
           finishSessionStart(p) \/ SignalStarted(p) \/ EnsureEnds(p)
    PROVE  Types'
<1>1. CASE EnsureFound(p)
  <2>1. CallType'
    BY <1>1 DEF CallType, Labels, Reasons, EnsureFound, Answer, Goto, Types
  <2> QED
    BY <1>1, <2>1, TypeFrame DEF EnsureFound, Types
<1>2. CASE EnsureWaits(p)
  <2>1. CallType'
    BY <1>2 DEF CallType, Labels, Reasons, MgrType, EnsureWaits, Goto, Types
  <2> QED
    BY <1>2, <2>1, TypeFrame DEF EnsureWaits, Types
<1>3. CASE EnsureWakes(p)
  <2>1. CallType'
    BY <1>3 DEF CallType, Labels, Reasons, EnsureWakes, Goto, Types
  <2> QED
    BY <1>3, <2>1, TypeFrame DEF EnsureWakes, Types
<1>4. CASE EnsureRefused(p)
  <2>1. CallType'
    BY <1>4 DEF CallType, Labels, Reasons, EnsureRefused, Answer, Goto, Types
  <2> QED
    BY <1>4, <2>1, TypeFrame DEF EnsureRefused, Types
<1>5. CASE EnsureCreates(p)
  <2>1. MgrType'
    BY <1>5 DEF MgrType, EnsureCreates, Goto, UnusedSessions, Types
  <2>2. SessType'
    BY <1>5 DEF SessType, Bodies, Reasons, EnsureCreates, Goto, UnusedSessions,
       Types
  <2>3. CallType'
    BY <1>5 DEF CallType, Labels, Reasons, EnsureCreates, Goto, UnusedSessions,
       Types
  <2> QED
    BY <1>5, <2>1, <2>2, <2>3, TypeFrame DEF EnsureCreates, Types
<1>6. CASE StartSucceeds(p)
  <2>1. SessType'
    BY <1>6 DEF SessType, Bodies, Reasons, CallType, AtInv, InHand, StartSucceeds,
       Goto, Types
  <2>2. CallType'
    BY <1>6 DEF CallType, Labels, Reasons, StartSucceeds, Goto, Types
  <2> QED
    BY <1>6, <2>1, <2>2, TypeFrame DEF StartSucceeds, Types
<1>7. CASE StartFails(p)
  <2>1. SessType'
    BY <1>7 DEF SessType, Bodies, Reasons, StartFails, CloseWithReason, Goto, Exit,
       Shutdown, Retained, Types
  <2>2. CallType'
    BY <1>7 DEF CallType, Labels, Reasons, StartFails, CloseWithReason, Goto, Exit,
       Shutdown, Retained, Types
  <2> QED
    BY <1>7, <2>1, <2>2, TypeFrame DEF StartFails, Types
<1>8. CASE finishSessionStart(p)
  <2>1. MgrType'
    BY <1>8 DEF MgrType, finishSessionStart, Goto, Types
  <2>2. CallType'
    <3>1. Goto(p, "e_signal") \/ Goto(p, "e_end")
      BY <1>8 DEF finishSessionStart
    <3>2. pc' \in [Procs -> Labels]
      BY <3>1, MoveType DEF Types, Labels
    <3> QED
      BY <1>8, <3>2 DEF finishSessionStart, CallType, Types
  <2> QED
    BY <1>8, <2>1, <2>2, TypeFrame DEF finishSessionStart, Types
<1>9. CASE SignalStarted(p)
  <2>1. SessType'
    BY <1>9 DEF SessType, Bodies, Reasons, SignalStarted, Goto, Types
  <2>2. CallType'
    BY <1>9 DEF CallType, Labels, Reasons, SignalStarted, Goto, Types
  <2> QED
    BY <1>9, <2>1, <2>2, TypeFrame DEF SignalStarted, Types
<1>10. CASE EnsureEnds(p)
  <2>1. CallType'
    BY <1>10 DEF CallType, Labels, Reasons, EnsureEnds, Answer, Goto, Types
  <2> QED
    BY <1>10, <2>1, TypeFrame DEF EnsureEnds, Types
<1> QED
  BY <1>1, <1>2, <1>3, <1>4, <1>5, <1>6, <1>7, <1>8, <1>9, <1>10

\* So do the callers of CloseWithReason and shutdown,
LEMMA TypeCaller ==
    ASSUME Types, NEW p \in Procs,
           EnterOnce(p) \/ LeaveOnce(p) \/ ShutdownReturns(p)
    PROVE  Types'
<1>1. CASE EnterOnce(p)
  <2>1. SessType'
    BY <1>1 DEF SessType, Bodies, Reasons, CallType, EnterOnce, Goto, Shutdown,
       Exit, Retained, Types
  <2>2. CallType'
    BY <1>1 DEF CallType, Labels, Reasons, EnterOnce, Goto, Shutdown, Exit,
       Retained, Types
  <2> QED
    BY <1>1, <2>1, <2>2, TypeFrame DEF EnterOnce, Types
<1>2. CASE LeaveOnce(p)
  <2>1. CallType'
    BY <1>2 DEF CallType, Labels, Reasons, LeaveOnce, Goto, Exit, Shutdown,
       Retained, Types
  <2> QED
    BY <1>2, <2>1, TypeFrame DEF LeaveOnce, Types
<1>3. CASE ShutdownReturns(p)
  <2>1. CallType'
    BY <1>3 DEF CallType, Labels, Reasons, ShutdownReturns, Goto, Types
  <2> QED
    BY <1>3, <2>1, TypeFrame DEF ShutdownReturns, Types
<1> QED
  BY <1>1, <1>2, <1>3

\* the close handler of a session,
LEMMA TypeBody ==
    ASSUME Types, NEW s \in Sessions,
           BodyCancel(s) \/ BodyClear(s) \/ BodySignal(s) \/ BodyNeed(s) \/
           BodySpeak(s) \/ BodyShut(s) \/ BodyShutReturns(s)
    PROVE  Types'
<1>1. CASE BodyCancel(s)
  <2>1. RetainType'
    BY <1>1 DEF RetainType, BodyCancel, Step, cancelRetainedSessionCleanup, Types
  <2>2. SessType'
    BY <1>1 DEF SessType, Bodies, Reasons, BodyCancel, Step,
       cancelRetainedSessionCleanup, Types
  <2> QED
    BY <1>1, <2>1, <2>2, TypeFrame DEF BodyCancel, Types
<1>2. CASE BodyClear(s)
  <2>1. MgrType'
    BY <1>2 DEF MgrType, BodyClear, Step, Afterwards, Types
  <2>2. SessType'
    BY <1>2 DEF SessType, Bodies, Reasons, BodyClear, Step, Afterwards, Exit,
       Shutdown, Retained, Types
  <2> QED
    BY <1>2, <2>1, <2>2, TypeFrame DEF BodyClear, Types
<1>3. CASE BodySignal(s)
  <2>1. SessType'
    BY <1>3 DEF SessType, Bodies, Reasons, BodySignal, Step, Types
  <2> QED
    BY <1>3, <2>1, TypeFrame DEF BodySignal, Types
<1>4. CASE BodyNeed(s)
  <2>1. MgrType'
    BY <1>4 DEF MgrType, BodyNeed, Step, Types
  <2>2. SessType'
    BY <1>4 DEF SessType, Bodies, Reasons, BodyNeed, Step, Types
  <2> QED
    BY <1>4, <2>1, <2>2, TypeFrame DEF BodyNeed, Types
<1>5. CASE BodySpeak(s)
  <2>1. SpeakType' /\ PendingOpen'
    BY <1>5 DEF SpeakType, PendingOpen, BodySpeak, Step, finishPendingSpeakRequest,
       Types
  <2>2. SessType'
    BY <1>5 DEF SessType, Bodies, Reasons, BodySpeak, Step,
       finishPendingSpeakRequest, Types
  <2> QED
    BY <1>5, <2>1, <2>2, TypeFrame DEF BodySpeak, Types
<1>6. CASE BodyShut(s)
  <2>1. SessType'
    BY <1>6 DEF SessType, Bodies, Reasons, BodyShut, Step, BeginShutdown, Types
  <2>2. ShutType'
    BY <1>6 DEF ShutType, BodyShut, Step, BeginShutdown, Types
  <2>3. CallType'
    BY <1>6 DEF CallType, Labels, Reasons, BodyShut, Step, BeginShutdown, Types
  <2> QED
    BY <1>6, <2>1, <2>2, <2>3, TypeFrame DEF BodyShut, Types
<1>7. CASE BodyShutReturns(s)
  <2>1. SessType'
    BY <1>7 DEF SessType, Bodies, Reasons, BodyShutReturns, Step, Types
  <2> QED
    BY <1>7, <2>1, TypeFrame DEF BodyShutReturns, Types
<1> QED
  BY <1>1, <1>2, <1>3, <1>4, <1>5, <1>6, <1>7

\* the shutdown of the manager,
LEMMA TypeShutdown ==
    ASSUME Types,
           ShutCancelsTimer \/ ShutLooks \/ ShutCloses \/ ShutFlags \/
           ShutClosesTransport \/ ShutCancelsContext \/ Close \/ OnClose
    PROVE  Types'
<1>1. CASE ShutCancelsTimer
  <2>1. RetainType'
    BY <1>1 DEF RetainType, ShutCancelsTimer, Goto, cancelRetainedSessionCleanup,
       Types
  <2>2. CallType'
    BY <1>1 DEF CallType, Labels, Reasons, ShutCancelsTimer, Goto,
       cancelRetainedSessionCleanup, Types
  <2> QED
    BY <1>1, <2>1, <2>2, TypeFrame DEF ShutCancelsTimer, Types
<1>2. CASE ShutLooks
  <2>1. ShutType'
    BY <1>2 DEF ShutType, MgrType, ShutLooks, Goto, Types
  <2>2. CallType'
    BY <1>2 DEF CallType, Labels, Reasons, ShutLooks, Goto, Types
  <2> QED
    BY <1>2, <2>1, <2>2, TypeFrame DEF ShutLooks, Types
<1>3. CASE ShutCloses
  <2>1. SessType'
    BY <1>3 DEF SessType, Bodies, Reasons, ShutCloses, CloseWithReason, Goto, Exit,
       Shutdown, Retained, Types
  <2>2. ShutType'
    BY <1>3 DEF ShutType, ShutCloses, CloseWithReason, Goto, Types
  <2>3. CallType'
    BY <1>3, CloseType DEF ShutCloses, ShutType, Reasons, Shutdown, Types, Procs
  <2> QED
    BY <1>3, <2>1, <2>2, <2>3, TypeFrame DEF ShutCloses, Types
<1>4. CASE ShutFlags
  <2>1. ShutType'
    BY <1>4 DEF ShutType, ShutFlags, Goto, Types
  <2>2. CallType'
    BY <1>4 DEF CallType, Labels, Reasons, ShutFlags, Goto, Types
  <2> QED
    BY <1>4, <2>1, <2>2, TypeFrame DEF ShutFlags, Types
<1>5. CASE ShutClosesTransport
  <2>1. CallType'
    BY <1>5 DEF CallType, Labels, Reasons, ShutClosesTransport, Goto, Types
  <2> QED
    BY <1>5, <2>1, TypeFrame DEF ShutClosesTransport, Types
<1>6. CASE ShutCancelsContext
  <2>1. ShutType'
    BY <1>6 DEF ShutType, ShutCancelsContext, Goto, Types
  <2>2. CallType'
    BY <1>6 DEF CallType, Labels, Reasons, ShutCancelsContext, Goto, Types
  <2> QED
    BY <1>6, <2>1, <2>2, TypeFrame DEF ShutCancelsContext, Types
<1>7. CASE Close
  <2>1. WorkType'
    BY <1>7 DEF WorkType, Close, Work, CallShutdown, Types
  <2>2. ShutType'
    BY <1>7 DEF ShutType, Close, Work, CallShutdown, Types
  <2>3. CallType'
    BY <1>7 DEF CallType, Labels, Reasons, Close, Work, CallShutdown, Types
  <2> QED
    BY <1>7, <2>1, <2>2, <2>3, TypeFrame DEF Close, Types
<1>8. CASE OnClose
  <2>1. WorkType'
    BY <1>8 DEF WorkType, OnClose, Work, CallShutdown, Types
  <2>2. ShutType'
    BY <1>8 DEF ShutType, OnClose, Work, CallShutdown, Types
  <2>3. CallType'
    <3>1. CASE managerClosing
      BY <1>8, <3>1 DEF OnClose, CallType, Types
    <3>2. CASE ~managerClosing
      BY <1>8, <3>2 DEF OnClose, CallShutdown, CallType, Labels, Types
    <3> QED
      BY <3>1, <3>2
  <2> QED
    BY <1>8, <2>1, <2>2, <2>3, TypeFrame DEF OnClose, Types
<1> QED
  BY <1>1, <1>2, <1>3, <1>4, <1>5, <1>6, <1>7, <1>8

\* sessions that end and the retained-session timer,
LEMMA TypeTimer ==
    ASSUME Types,
           SessionEnds \/ TimerFires \/ TimerChecks \/ TimerCloses
    PROVE  Types'
<1>1. CASE SessionEnds
  <2>1. WorkType'
    BY <1>1 DEF WorkType, SessionEnds, Work, CloseWithReason, Goto, Types
  <2>2. SessType'
    BY <1>1 DEF SessType, Bodies, Reasons, SessionEnds, Work, CloseWithReason, Goto,
       Exit, Shutdown, Retained, Types
  <2>3. CallType'
    BY <1>1, CloseType DEF SessionEnds, SessType, Reasons, Exit, Types, Procs
  <2> QED
    BY <1>1, <2>1, <2>2, <2>3, TypeFrame DEF SessionEnds, Types
<1>2. CASE TimerFires
  <2>1. RetainType'
    BY <1>2 DEF RetainType, TimerFires, Goto, Types
  <2>2. CallType'
    <3>1. PICK s \in armed : at' = [at EXCEPT !["timer"] = s]
      BY <1>2 DEF TimerFires
    <3>2. pc' \in [Procs -> Labels]
      BY <1>2, MoveType DEF TimerFires, Types, Labels
    <3>3. s \in Sessions
      BY DEF Types, RetainType
    <3> QED
      BY <1>2, <3>1, <3>2, <3>3 DEF TimerFires, CallType, Types
  <2> QED
    BY <1>2, <2>1, <2>2, TypeFrame DEF TimerFires, Types
<1>3. CASE TimerChecks
  <2>1. RetainType'
    BY <1>3 DEF RetainType, TimerChecks, Goto, Types
  <2>2. CallType'
    BY <1>3 DEF CallType, Labels, Reasons, TimerChecks, Goto, Types
  <2> QED
    BY <1>3, <2>1, <2>2, TypeFrame DEF TimerChecks, Types
<1>4. CASE TimerCloses
  <2>1. SessType'
    BY <1>4 DEF SessType, Bodies, Reasons, TimerCloses, Goto, CloseWithReason, Exit,
       Shutdown, Retained, Types
  <2>2. CallType'
    BY <1>4 DEF CallType, Labels, Reasons, TimerCloses, Goto, CloseWithReason, Exit,
       Shutdown, Retained, Types
  <2> QED
    BY <1>4, <2>1, <2>2, TypeFrame DEF TimerCloses, Types
<1> QED
  BY <1>1, <1>2, <1>3, <1>4

\* the receipt of a message,
LEMMA TypeReceive ==
    ASSUME Types, NEW m \in Messages,
           Receive(m)
    PROVE  Types'
<1>1. CASE Receive(m)
  <2>1. WorkType'
    BY <1>1 DEF WorkType, Receive, Goto, Work, cancelRetainedSessionCleanup, Types
  <2>2. RetainType'
    BY <1>1 DEF RetainType, Receive, Goto, Work, cancelRetainedSessionCleanup, Types
  <2>3. CallType'
    <3>1. PICK l \in Labels : Goto("cmd", l)
      BY <1>1 DEF Receive, Labels
    <3>2. pc' \in [Procs -> Labels]
      BY <3>1, MoveType DEF Types
    <3> QED
      BY <1>1, <3>2 DEF Receive, CallType, Types
  <2> QED
    BY <1>1, <2>1, <2>2, <2>3, TypeFrame DEF Receive, Types
<1> QED
  BY <1>1

\* the timer of a speak request,
LEMMA TypeRequest ==
    ASSUME Types, NEW r \in Requests,
           SpeakTimeout(r)
    PROVE  Types'
<1>1. CASE SpeakTimeout(r)
  <2>1. SpeakType' /\ PendingOpen'
    BY <1>1 DEF SpeakType, PendingOpen, SpeakTimeout, finishPendingSpeakRequest,
       Types
  <2> QED
    BY <1>1, <2>1, TypeFrame DEF SpeakTimeout, Types
<1> QED
  BY <1>1

\* the handlers of the device's messages,
LEMMA TypeMessage ==
    ASSUME Types,
           HelloLock \/ HelloRejected \/ HelloInit \/ HelloFails \/ HelloAnswers
           \/ HelloEnds \/ ListenGate \/ ListenEnds \/ HandleSpeakReadyMessage \/
           markMqttConversationStateStale \/ resetMcpRuntimeOnMqttTransportReady
    PROVE  Types'
<1>1. CASE HelloLock
  <2>1. MgrType'
    BY <1>1 DEF MgrType, HelloLock, Goto, Types
  <2>2. CallType'
    BY <1>1 DEF CallType, Labels, Reasons, HelloLock, Goto, Types
  <2>3. JobType'
    BY <1>1 DEF JobType, HelloLock, Goto, Types
  <2> QED
    BY <1>1, <2>1, <2>2, <2>3, TypeFrame DEF HelloLock, Types
<1>2. CASE HelloRejected
  <2>1. CallType'
    BY <1>2 DEF CallType, Labels, Reasons, HelloRejected, Goto, Types
  <2> QED
    BY <1>2, <2>1, TypeFrame DEF HelloRejected, Types
<1>3. CASE HelloInit
  <2>1. MgrType'
    BY <1>3 DEF MgrType, HelloInit, Goto, Types
  <2>2. CallType'
    BY <1>3 DEF CallType, Labels, Reasons, HelloInit, Goto, Types
  <2> QED
    BY <1>3, <2>1, <2>2, TypeFrame DEF HelloInit, Types
<1>4. CASE HelloFails
  <2>1. MgrType'
    BY <1>4 DEF MgrType, HelloFails, Finish, Goto, Types
  <2>2. CallType'
    BY <1>4 DEF CallType, Labels, Reasons, HelloFails, Finish, Goto, Types
  <2> QED
    BY <1>4, <2>1, <2>2, TypeFrame DEF HelloFails, Types
<1>5. CASE HelloAnswers
  <2>1. CallType'
    BY <1>5 DEF CallType, Labels, Reasons, HelloAnswers, Ensure, Goto, Types
  <2> QED
    BY <1>5, <2>1, TypeFrame DEF HelloAnswers, Types
<1>6. CASE HelloEnds
  <2>1. MgrType'
    BY <1>6 DEF MgrType, HelloEnds, Finish, Goto, Types
  <2>2. CallType'
    BY <1>6 DEF CallType, Labels, Reasons, HelloEnds, Finish, Goto, Types
  <2> QED
    BY <1>6, <2>1, <2>2, TypeFrame DEF HelloEnds, Types
<1>7. CASE ListenGate
  <2>1. CallType'
    BY <1>7 DEF CallType, Labels, Reasons, ListenGate, Goto, Ensure, Types
  <2> QED
    BY <1>7, <2>1, TypeFrame DEF ListenGate, Types
<1>8. CASE ListenEnds
  <2>1. SpeakType' /\ PendingOpen'
    BY <1>8 DEF SpeakType, PendingOpen, ListenEnds, Finish, Goto, Types
  <2>2. CallType'
    BY <1>8 DEF CallType, Labels, Reasons, ListenEnds, Finish, Goto, Types
  <2> QED
    BY <1>8, <2>1, <2>2, TypeFrame DEF ListenEnds, Types
<1>9. CASE HandleSpeakReadyMessage
  <2>1. SpeakType' /\ PendingOpen'
    BY <1>9 DEF SpeakType, PendingOpen, HandleSpeakReadyMessage, Goto,
       finishPendingSpeakRequest, Types
  <2>2. CallType'
    BY <1>9 DEF CallType, Labels, Reasons, HandleSpeakReadyMessage, Goto,
       finishPendingSpeakRequest, Types
  <2> QED
    BY <1>9, <2>1, <2>2, TypeFrame DEF HandleSpeakReadyMessage, Types
<1>10. CASE markMqttConversationStateStale
  <2>1. WorkType'
    BY <1>10 DEF WorkType, markMqttConversationStateStale, Goto, Work, Types
  <2>2. SpeakType' /\ PendingOpen'
    BY <1>10 DEF SpeakType, PendingOpen, markMqttConversationStateStale, Goto, Work,
       Types
  <2>3. CallType'
    BY <1>10 DEF CallType, Labels, Reasons, markMqttConversationStateStale, Goto,
       Work, Types
  <2> QED
    BY <1>10, <2>1, <2>2, <2>3, TypeFrame DEF markMqttConversationStateStale, Types
<1>11. CASE resetMcpRuntimeOnMqttTransportReady
  <2>1. MgrType'
    BY <1>11 DEF MgrType, resetMcpRuntimeOnMqttTransportReady, Goto, Types
  <2>2. CallType'
    BY <1>11 DEF CallType, Labels, Reasons, resetMcpRuntimeOnMqttTransportReady,
       Goto, Types
  <2> QED
    BY <1>11, <2>1, <2>2, TypeFrame DEF resetMcpRuntimeOnMqttTransportReady, Types
<1> QED
  BY <1>1, <1>2, <1>3, <1>4, <1>5, <1>6, <1>7, <1>8, <1>9, <1>10, <1>11

\* the retention of a session,
LEMMA TypeRetain ==
    ASSUME Types, AtInv, NEW p \in Procs,
           RetainLook(p) \/ scheduleRetainedSessionCleanup(p) \/ ArmTimer(p) \/
           ResetSpeakPath(p)
    PROVE  Types'
<1>1. CASE RetainLook(p)
  <2>1. CallType'
    BY <1>1 DEF CallType, Labels, Reasons, MgrType, RetainLook, Goto, Types
  <2> QED
    BY <1>1, <2>1, TypeFrame DEF RetainLook, Types
<1>2. CASE scheduleRetainedSessionCleanup(p)
  <2>1. RetainType'
    BY <1>2 DEF RetainType, scheduleRetainedSessionCleanup, Goto,
       cancelRetainedSessionCleanup, Types
  <2>2. CallType'
    BY <1>2 DEF CallType, Labels, Reasons, scheduleRetainedSessionCleanup, Goto,
       cancelRetainedSessionCleanup, Types
  <2> QED
    BY <1>2, <2>1, <2>2, TypeFrame DEF scheduleRetainedSessionCleanup, Types
<1>3. CASE ArmTimer(p)
  <2>1. RetainType'
    BY <1>3 DEF RetainType, CallType, AtInv, InHand, ArmTimer, Goto, Types
  <2>2. CallType'
    BY <1>3 DEF CallType, Labels, Reasons, ArmTimer, Goto, Types
  <2> QED
    BY <1>3, <2>1, <2>2, TypeFrame DEF ArmTimer, Types
<1>4. CASE ResetSpeakPath(p)
  <2>1. SpeakType' /\ PendingOpen'
    BY <1>4 DEF SpeakType, PendingOpen, ResetSpeakPath, Goto,
       finishPendingSpeakRequest, Types
  <2>2. CallType'
    BY <1>4 DEF CallType, Labels, Reasons, ResetSpeakPath, Goto,
       finishPendingSpeakRequest, Types
  <2> QED
    BY <1>4, <2>1, <2>2, TypeFrame DEF ResetSpeakPath, Types
<1> QED
  BY <1>1, <1>2, <1>3, <1>4

\* and injected speech.
LEMMA TypeInject ==
    ASSUME Types, NEW p \in Procs,
           InjectMessage(p) \/ InjectOpenClawResponse(p) \/ InjectAsks(p) \/
           InjectReuses(p) \/ InjectPlain(p) \/ InjectNeedsUdp(p) \/
           getOrCreatePendingSpeakRequest(p) \/ InjectSends(p) \/
           waitPendingSpeakRequest(p) \/ InjectPolls(p) \/ InjectGivesUp(p) \/
           InjectEnds(p)
    PROVE  Types'
<1>1. CASE InjectMessage(p)
  <2>1. WorkType'
    BY <1>1 DEF WorkType, InjectMessage, Goto, Work, Ensure,
       cancelRetainedSessionCleanup, Types
  <2>2. RetainType'
    BY <1>1 DEF RetainType, InjectMessage, Goto, Work, Ensure,
       cancelRetainedSessionCleanup, Types
  <2>3. CallType'
    BY <1>1 DEF CallType, Labels, Reasons, InjectMessage, Goto, Work, Ensure,
       cancelRetainedSessionCleanup, Types
  <2> QED
    BY <1>1, <2>1, <2>2, <2>3, TypeFrame DEF InjectMessage, Types
<1>2. CASE InjectOpenClawResponse(p)
  <2>1. WorkType'
    BY <1>2 DEF WorkType, InjectOpenClawResponse, Work, Ensure,
       cancelRetainedSessionCleanup, Goto, Types
  <2>2. RetainType'
    BY <1>2 DEF RetainType, InjectOpenClawResponse, Work, Ensure,
       cancelRetainedSessionCleanup, Goto, Types
  <2>3. CallType'
    BY <1>2 DEF CallType, Labels, Reasons, InjectOpenClawResponse, Work, Ensure,
       cancelRetainedSessionCleanup, Goto, Types
  <2> QED
    BY <1>2, <2>1, <2>2, <2>3, TypeFrame DEF InjectOpenClawResponse, Types
<1>3. CASE InjectAsks(p)
  <2>1. CallType'
    BY <1>3 DEF CallType, Labels, Reasons, InjectAsks, Goto, Types
  <2> QED
    BY <1>3, <2>1, TypeFrame DEF InjectAsks, Types
<1>4. CASE InjectReuses(p)
  <2>1. CallType'
    BY <1>4 DEF CallType, Labels, Reasons, InjectReuses, Ensure, Goto, Types
  <2> QED
    BY <1>4, <2>1, TypeFrame DEF InjectReuses, Types
<1>5. CASE InjectPlain(p)
  <2>1. CallType'
    BY <1>5 DEF CallType, Labels, Reasons, InjectPlain, Goto, Ensure, Types
  <2> QED
    BY <1>5, <2>1, TypeFrame DEF InjectPlain, Types
<1>6. CASE InjectNeedsUdp(p)
  <2>1. CallType'
    BY <1>6 DEF CallType, Labels, Reasons, InjectNeedsUdp, Goto, Ensure, Types
  <2> QED
    BY <1>6, <2>1, TypeFrame DEF InjectNeedsUdp, Types
<1>7. CASE getOrCreatePendingSpeakRequest(p)
  <2>1. SpeakType' /\ PendingOpen'
    BY <1>7 DEF SpeakType, PendingOpen, getOrCreatePendingSpeakRequest, Goto,
       UnusedRequests, Types
  <2>2. CallType'
    BY <1>7 DEF CallType, Labels, Reasons, getOrCreatePendingSpeakRequest, Goto,
       UnusedRequests, Types
  <2>3. JobType'
    BY <1>7 DEF JobType, SpeakType, requiresHelloBootstrapForSession,
       getOrCreatePendingSpeakRequest, Goto, UnusedRequests, Types
  <2> QED
    BY <1>7, <2>1, <2>2, <2>3, TypeFrame DEF getOrCreatePendingSpeakRequest, Types
<1>8. CASE InjectSends(p)
  <2>1. SpeakType' /\ PendingOpen'
    BY <1>8 DEF SpeakType, PendingOpen, InjectSends, Goto,
       finishPendingSpeakRequest, Types
  <2>2. CallType'
    BY <1>8 DEF CallType, Labels, Reasons, InjectSends, Goto,
       finishPendingSpeakRequest, Types
  <2>3. JobType'
    BY <1>8 DEF JobType, InjectSends, Goto, finishPendingSpeakRequest, Types
  <2> QED
    BY <1>8, <2>1, <2>2, <2>3, TypeFrame DEF InjectSends, Types
<1>9. CASE waitPendingSpeakRequest(p)
  <2>1. CallType'
    BY <1>9 DEF CallType, Labels, Reasons, waitPendingSpeakRequest, Goto, Ensure,
       Types
  <2>2. JobType'
    BY <1>9 DEF JobType, waitPendingSpeakRequest, Goto, Ensure, Types
  <2> QED
    BY <1>9, <2>1, <2>2, TypeFrame DEF waitPendingSpeakRequest, Types
<1>10. CASE InjectPolls(p)
  <2>1. CallType'
    BY <1>10 DEF CallType, Labels, Reasons, InjectPolls, Goto, Finish, Ensure, Types
  <2> QED
    BY <1>10, <2>1, TypeFrame DEF InjectPolls, Types
<1>11. CASE InjectGivesUp(p)
  <2>1. CallType'
    BY <1>11 DEF CallType, Labels, Reasons, InjectGivesUp, Finish, Goto, Types
  <2> QED
    BY <1>11, <2>1, TypeFrame DEF InjectGivesUp, Types
<1>12. CASE InjectEnds(p)
  <2>1. CallType'
    BY <1>12 DEF CallType, Labels, Reasons, InjectEnds, Finish, Goto, Types
  <2> QED
    BY <1>12, <2>1, TypeFrame DEF InjectEnds, Types
<1> QED
  BY <1>1, <1>2, <1>3, <1>4, <1>5, <1>6, <1>7, <1>8, <1>9, <1>10, <1>11, <1>12

-----------------------------------------------------------------------------
(***************************************************************************)
(* Tame steps.  Most steps leave the registration of sessions and the      *)
(* start channels alone; they move goroutines, set closing flags, and take *)
(* close handlers further.  Tame says how far they may go, and one lemma   *)
(* does for all of them.                                                   *)
(***************************************************************************)
Sessional ==
    AtInv /\ CloseInv /\ HeldInv /\ SignalInv /\ StarterInv /\ WaitInv

\* A goroutine stays where it is,
Stays(p) == pc'[p] = pc[p] /\ at'[p] = at[p] /\ then'[p] = then[p] /\ got'[p] = got[p]

\* moves on without having started a session or being about to signal,
MovesOn(p) ==
    /\ ~Starts(p) /\ pc[p] # "e_signal"
    /\ pc'[p] \notin {"e_start", "e_finish", "e_signal"}
    /\ pc'[p] \in InHand => at'[p] \in Sessions
    /\ pc'[p] \in {"c_once", "c_wait"} => closing'[at'[p]]
    /\ pc'[p] = "e_wait" => at'[p] = starting

\* or goes on starting its session.
GoesOn(p) ==
    /\ Starts(p) /\ Starts(p)' /\ at'[p] = at[p]
    /\ pc'[p] \in {"c_once", "c_wait"} => closing'[at[p]]
    /\ pc'[p] = "e_finish" /\ got'[p] # "session" => closing'[at[p]]

\* A close handler stays, or goes on with something else than signalling.
Handles(s) ==
    \/ body'[s] = body[s]
    \/ /\ body[s] # "signal" /\ body'[s] \notin {"free", "signal"} /\ closing'[s]
       /\ body'[s] \in {"handler", "clear"} \/ body[s] \notin {"free", "handler", "clear"}

Tame ==
    /\ UNCHANGED <<session, starting, signalled>>
    /\ \A s \in Sessions : (closing[s] => closing'[s]) /\ Handles(s)
    /\ \A p \in Procs : Stays(p) \/ MovesOn(p) \/ GoesOn(p)

LEMMA TameKeeps ==
    ASSUME Types, Types', Sessional, Tame
    PROVE  Sessional'
<1>1. AtInv'
  BY DEF Tame, Stays, MovesOn, GoesOn, Starts, Sessional, AtInv, InHand
<1>2. CloseInv'
  <2>1. \A s \in Sessions : body'[s] # "free" => closing'[s]
    BY DEF Tame, Handles, Sessional, CloseInv
  <2>2. ASSUME NEW p \in Procs
        PROVE  /\ pc'[p] \in {"c_once", "c_wait"} => closing'[at'[p]]
               /\ pc'[p] = "e_finish" /\ got'[p] # "session" => closing'[at'[p]]
    <3>1. CASE Stays(p)
      BY <3>1 DEF Stays, Tame, Sessional, AtInv, InHand, CloseInv
    <3>2. CASE MovesOn(p)
      BY <3>2 DEF MovesOn
    <3>3. CASE GoesOn(p)
      BY <3>3 DEF GoesOn
    <3> QED
      BY <3>1, <3>2, <3>3 DEF Tame
  <2> QED
    BY <2>1, <2>2 DEF CloseInv
<1>3. HeldInv'
  BY DEF Tame, Handles, Sessional, HeldInv, LiveSessionHeld, Types, SessType
<1>4. \A p \in Procs : pc'[p] = "e_signal" => Stays(p)
  BY DEF Tame, MovesOn, GoesOn, Starts
<1>5. SignalInv'
  <2>1. ASSUME NEW p \in Procs, pc'[p] = "e_signal"
        PROVE  at'[p] # starting /\ body'[at'[p]] # "signal" /\ ~signalled'[at'[p]]
    BY <2>1, <1>4 DEF Stays, Tame, Handles, Sessional, AtInv, InHand, SignalInv
  <2>2. \A s \in Sessions : body'[s] = "signal" => ~signalled'[s]
    BY DEF Tame, Handles, Sessional, SignalInv
  <2>3. \A p, q \in Procs :
          pc'[p] = "e_signal" /\ pc'[q] = "e_signal" /\ at'[p] = at'[q] => p = q
    BY <1>4 DEF Stays, Sessional, SignalInv
  <2> QED
    BY <2>1, <2>2, <2>3 DEF Tame, Sessional, SignalInv
<1>6. StarterInv'
  <2> SUFFICES ASSUME starting # 0
               PROVE  \E p \in Procs : at'[p] = starting /\ Starts(p)'
    BY DEF StarterInv, Tame
  <2>1. PICK p \in Procs : at[p] = starting /\ Starts(p)
    BY DEF Sessional, StarterInv
  <2>2. Stays(p) \/ GoesOn(p)
    BY <2>1 DEF Tame, MovesOn
  <2> QED
    BY <2>1, <2>2 DEF Stays, GoesOn, Starts
<1>7. WaitInv'
  <2> SUFFICES ASSUME NEW p \in Procs, pc'[p] = "e_wait"
               PROVE  \/ signalled'[at'[p]]
                      \/ body'[at'[p]] = "signal"
                      \/ \E q \in Procs : pc'[q] = "e_signal" /\ at'[q] = at'[p]
                      \/ starting' = at'[p]
    BY DEF WaitInv
  <2>1. CASE MovesOn(p)
    BY <2>1 DEF MovesOn, Tame
  <2>2. CASE Stays(p)
    <3>1. at[p] \in Sessions /\ pc[p] = "e_wait" /\ at'[p] = at[p]
      BY <2>2 DEF Stays, Sessional, AtInv, InHand
    <3>2. CASE signalled[at[p]] \/ starting = at[p]
      BY <3>1, <3>2 DEF Tame
    <3>3. CASE body[at[p]] = "signal"
      BY <3>1, <3>3 DEF Tame, Handles
    <3>4. ASSUME NEW q \in Procs, pc[q] = "e_signal", at[q] = at[p]
          PROVE  pc'[q] = "e_signal" /\ at'[q] = at'[p]
      BY <3>1, <3>4 DEF Tame, Stays, MovesOn, GoesOn, Starts
    <3> QED
      BY <3>1, <3>2, <3>3, <3>4 DEF Sessional, WaitInv
  <2> QED
    BY <2>1, <2>2 DEF Tame, GoesOn, Starts
<1> QED
  BY <1>1, <1>2, <1>3, <1>5, <1>6, <1>7 DEF Sessional

\* Tame are: ensureSessionInternal where it neither registers nor signals,
LEMMA TameEnsure ==
    ASSUME Types, Sessional, NEW p \in Procs,
           EnsureFound(p) \/ EnsureWaits(p) \/ EnsureWakes(p) \/ EnsureRefused(p)
           \/ StartSucceeds(p) \/ StartFails(p) \/ EnsureEnds(p)
    PROVE  Tame
<1>1. CASE EnsureFound(p)
  BY <1>1 DEF EnsureFound, Answer, Goto, Tame, Stays, MovesOn, GoesOn, Handles,
     Starts, InHand, Types, CallType, SessType, Sessional, AtInv, CloseInv
<1>2. CASE EnsureWaits(p)
  <2>1. starting \in Sessions
    BY <1>2 DEF EnsureWaits, Types, MgrType
  <2>2. \A q \in Procs : q # p => Stays(q)
    BY <1>2 DEF EnsureWaits, Goto, Stays, Types, CallType
  <2>3. MovesOn(p)
    BY <1>2, <2>1 DEF EnsureWaits, Goto, MovesOn, Starts, InHand, Types, CallType
  <2> QED
    BY <1>2, <2>2, <2>3 DEF EnsureWaits, Tame, Handles
<1>3. CASE EnsureWakes(p)
  BY <1>3 DEF EnsureWakes, Goto, Tame, Stays, MovesOn, GoesOn, Handles, Starts,
     InHand, Types, CallType, SessType, Sessional, AtInv, CloseInv
<1>4. CASE EnsureRefused(p)
  BY <1>4 DEF EnsureRefused, Answer, Goto, Tame, Stays, MovesOn, GoesOn, Handles,
     Starts, InHand, Types, CallType, SessType, Sessional, AtInv, CloseInv
<1>5. CASE StartSucceeds(p)
  BY <1>5 DEF StartSucceeds, Goto, Tame, Stays, MovesOn, GoesOn, Handles, Starts,
     InHand, Types, CallType, SessType, Sessional, AtInv, CloseInv
<1>6. CASE StartFails(p)
  BY <1>6 DEF StartFails, CloseWithReason, Goto, Tame, Stays, MovesOn, GoesOn,
     Handles, Starts, InHand, Types, CallType, SessType, Sessional, AtInv, CloseInv
<1>7. CASE EnsureEnds(p)
  BY <1>7 DEF EnsureEnds, Answer, Goto, Tame, Stays, MovesOn, GoesOn, Handles,
     Starts, InHand, Types, CallType, SessType, Sessional, AtInv, CloseInv
<1> QED
  BY <1>1, <1>2, <1>3, <1>4, <1>5, <1>6, <1>7

\* calling CloseWithReason and shutdown,
LEMMA TameCaller ==
    ASSUME Types, Sessional, NEW p \in Procs,
           EnterOnce(p) \/ LeaveOnce(p) \/ ShutdownReturns(p)
    PROVE  Tame
<1>1. CASE EnterOnce(p)
  BY <1>1 DEF EnterOnce, Goto, Tame, Stays, MovesOn, GoesOn, Handles, Starts,
     InHand, Types, CallType, SessType, Sessional, AtInv, CloseInv
<1>2. CASE LeaveOnce(p)
  BY <1>2 DEF LeaveOnce, Goto, Tame, Stays, MovesOn, GoesOn, Handles, Starts,
     InHand, Types, CallType, SessType, Sessional, AtInv, CloseInv
<1>3. CASE ShutdownReturns(p)
  BY <1>3 DEF ShutdownReturns, Goto, Tame, Stays, MovesOn, GoesOn, Handles, Starts,
     InHand, Types, CallType, SessType, Sessional, AtInv, CloseInv
<1> QED
  BY <1>1, <1>2, <1>3

\* the close handler where it neither unregisters nor signals,
LEMMA TameBody ==
    ASSUME Types, Sessional, NEW s \in Sessions,
           BodyCancel(s) \/ BodyNeed(s) \/ BodySpeak(s) \/ BodyShut(s) \/
           BodyShutReturns(s)
    PROVE  Tame
<1>1. CASE BodyCancel(s)
  BY <1>1 DEF BodyCancel, Step, Tame, Stays, MovesOn, GoesOn, Handles, Starts,
     InHand, Types, CallType, SessType, Sessional, AtInv, CloseInv
<1>2. CASE BodyNeed(s)
  BY <1>2 DEF BodyNeed, Step, Tame, Stays, MovesOn, GoesOn, Handles, Starts, InHand,
     Types, CallType, SessType, Sessional, AtInv, CloseInv
<1>3. CASE BodySpeak(s)
  BY <1>3 DEF BodySpeak, Step, Tame, Stays, MovesOn, GoesOn, Handles, Starts,
     InHand, Types, CallType, SessType, Sessional, AtInv, CloseInv
<1>4. CASE BodyShut(s)
  BY <1>4 DEF BodyShut, Step, BeginShutdown, Tame, Stays, MovesOn, GoesOn, Handles,
     Starts, InHand, Types, CallType, SessType, Sessional, AtInv, CloseInv
<1>5. CASE BodyShutReturns(s)
  BY <1>5 DEF BodyShutReturns, Step, Tame, Stays, MovesOn, GoesOn, Handles, Starts,
     InHand, Types, CallType, SessType, Sessional, AtInv, CloseInv
<1> QED
  BY <1>1, <1>2, <1>3, <1>4, <1>5

\* the shutdown of the manager,
LEMMA TameShutdown ==
    ASSUME Types, Sessional,
           ShutCancelsTimer \/ ShutLooks \/ ShutCloses \/ ShutFlags \/
           ShutClosesTransport \/ ShutCancelsContext \/ Close \/ OnClose
    PROVE  Tame
<1>1. CASE ShutCancelsTimer
  BY <1>1 DEF ShutCancelsTimer, Goto, Tame, Stays, MovesOn, GoesOn, Handles, Starts,
     InHand, Types, CallType, SessType, Sessional, AtInv, CloseInv
<1>2. CASE ShutLooks
  BY <1>2 DEF ShutLooks, Goto, Tame, Stays, MovesOn, GoesOn, Handles, Starts,
     InHand, Types, CallType, SessType, Sessional, AtInv, CloseInv
<1>3. CASE ShutCloses
  <2>1. PICK s \in snapshot : CloseWithReason("shut", s, Shutdown, "s_close")
    BY <1>3 DEF ShutCloses
  <2>2. s \in Sessions /\ "shut" \in Procs
    BY DEF Types, ShutType, Procs
  <2>3. \A q \in Procs : q # "shut" => Stays(q)
    BY <1>3, <2>1 DEF ShutCloses, CloseWithReason, Goto, Stays, Types, CallType
  <2>4. MovesOn("shut")
    BY <1>3, <2>1, <2>2 DEF ShutCloses, CloseWithReason, Goto, MovesOn, Starts, InHand,
       Types, CallType, SessType
  <2>5. \A t \in Sessions : closing[t] => closing'[t]
    BY <2>1 DEF CloseWithReason, Types, SessType
  <2> QED
    BY <1>3, <2>3, <2>4, <2>5 DEF ShutCloses, Tame, Handles
<1>4. CASE ShutFlags
  BY <1>4 DEF ShutFlags, Goto, Tame, Stays, MovesOn, GoesOn, Handles, Starts,
     InHand, Types, CallType, SessType, Sessional, AtInv, CloseInv
<1>5. CASE ShutClosesTransport
  BY <1>5 DEF ShutClosesTransport, Goto, Tame, Stays, MovesOn, GoesOn, Handles,
     Starts, InHand, Types, CallType, SessType, Sessional, AtInv, CloseInv
<1>6. CASE ShutCancelsContext
  BY <1>6 DEF ShutCancelsContext, Goto, Tame, Stays, MovesOn, GoesOn, Handles,
     Starts, InHand, Types, CallType, SessType, Sessional, AtInv, CloseInv
<1>7. CASE Close
  BY <1>7 DEF Close, CallShutdown, Tame, Stays, MovesOn, GoesOn, Handles, Starts,
     InHand, Types, CallType, SessType, Sessional, AtInv, CloseInv
<1>8. CASE OnClose
  <2>1. CASE managerClosing
    BY <1>8, <2>1 DEF OnClose, Tame, Stays, Handles
  <2>2. CASE ~managerClosing
    <3>1. pc["net"] = "idle" /\ {"net", "shut"} \subseteq Procs
      BY <1>8 DEF OnClose, Procs
    <3>2. pc' = [pc EXCEPT !["net"] = "x_wait",
                           !["shut"] = IF @ = "idle" THEN "s_cancel" ELSE @]
      BY <1>8, <2>2 DEF OnClose, CallShutdown
    <3>3. \A q \in Procs : q \notin {"net", "shut"} => pc'[q] = pc[q]
      BY <3>2 DEF Types, CallType
    <3>4. pc'["net"] = "x_wait"
      BY <3>1, <3>2 DEF Types, CallType
    <3>5. \/ pc'["shut"] = pc["shut"]
          \/ pc["shut"] = "idle" /\ pc'["shut"] = "s_cancel"
      BY <3>1, <3>2 DEF Types, CallType
    <3>6. UNCHANGED <<session, starting, signalled, closing, body, at, then, got>>
      BY <1>8 DEF OnClose
    <3>7. MovesOn("net")
      BY <3>1, <3>4 DEF MovesOn, Starts, InHand
    <3>8. Stays("shut") \/ MovesOn("shut")
      BY <3>5, <3>6 DEF Stays, MovesOn, Starts, InHand
    <3> QED
      BY <3>3, <3>6, <3>7, <3>8 DEF Tame, Stays, Handles
  <2> QED
    BY <2>1, <2>2
<1> QED
  BY <1>1, <1>2, <1>3, <1>4, <1>5, <1>6, <1>7, <1>8

\* sessions that end and the retained-session timer,
LEMMA TameTimer ==
    ASSUME Types, Sessional,
           SessionEnds \/ TimerFires \/ TimerChecks \/ TimerCloses
    PROVE  Tame
<1>1. CASE SessionEnds
  BY <1>1 DEF SessionEnds, CloseWithReason, Goto, Tame, Stays, MovesOn, GoesOn,
     Handles, Starts, InHand, Types, CallType, SessType, Sessional, AtInv, CloseInv
<1>2. CASE TimerFires
  <2>1. PICK s \in armed : at' = [at EXCEPT !["timer"] = s]
    BY <1>2 DEF TimerFires
  <2>2. s \in Sessions /\ "timer" \in Procs
    BY <1>2 DEF TimerFires, Types, RetainType, Procs
  <2>3. \A q \in Procs : q # "timer" => Stays(q)
    BY <1>2, <2>1 DEF TimerFires, Goto, Stays, Types, CallType
  <2>4. MovesOn("timer")
    BY <1>2, <2>1, <2>2 DEF TimerFires, Goto, MovesOn, Starts, InHand, Types, CallType
  <2> QED
    BY <1>2, <2>3, <2>4 DEF TimerFires, Tame, Handles
<1>3. CASE TimerChecks
  BY <1>3 DEF TimerChecks, Goto, Tame, Stays, MovesOn, GoesOn, Handles, Starts,
     InHand, Types, CallType, SessType, Sessional, AtInv, CloseInv
<1>4. CASE TimerCloses
  BY <1>4 DEF TimerCloses, Goto, CloseWithReason, Tame, Stays, MovesOn, GoesOn,
     Handles, Starts, InHand, Types, CallType, SessType, Sessional, AtInv, CloseInv
<1> QED
  BY <1>1, <1>2, <1>3, <1>4

\* the receipt of a message,
LEMMA TameReceive ==
    ASSUME Types, Sessional, NEW m \in Messages,
           Receive(m)
    PROVE  Tame
<1>1. CASE Receive(m)
  BY <1>1 DEF Receive, Goto, Tame, Stays, MovesOn, GoesOn, Handles, Starts, InHand,
     Types, CallType, SessType, Sessional, AtInv, CloseInv
<1> QED
  BY <1>1

\* the timer of a speak request,
LEMMA TameRequest ==
    ASSUME Types, Sessional, NEW r \in Requests,
           SpeakTimeout(r)
    PROVE  Tame
<1>1. CASE SpeakTimeout(r)
  BY <1>1 DEF SpeakTimeout, Tame, Stays, MovesOn, GoesOn, Handles, Starts, InHand,
     Types, CallType, SessType, Sessional, AtInv, CloseInv
<1> QED
  BY <1>1

\* the handlers of the device's messages,
LEMMA TameMessage ==
    ASSUME Types, Sessional,
           HelloLock \/ HelloRejected \/ HelloInit \/ HelloFails \/ HelloAnswers
           \/ HelloEnds \/ ListenGate \/ ListenEnds \/ HandleSpeakReadyMessage \/
           markMqttConversationStateStale \/ resetMcpRuntimeOnMqttTransportReady
    PROVE  Tame
<1>1. CASE HelloLock
  BY <1>1 DEF HelloLock, Goto, Tame, Stays, MovesOn, GoesOn, Handles, Starts,
     InHand, Types, CallType, SessType, Sessional, AtInv, CloseInv
<1>2. CASE HelloRejected
  BY <1>2 DEF HelloRejected, Goto, Tame, Stays, MovesOn, GoesOn, Handles, Starts,
     InHand, Types, CallType, SessType, Sessional, AtInv, CloseInv
<1>3. CASE HelloInit
  BY <1>3 DEF HelloInit, Goto, Tame, Stays, MovesOn, GoesOn, Handles, Starts,
     InHand, Types, CallType, SessType, Sessional, AtInv, CloseInv
<1>4. CASE HelloFails
  BY <1>4 DEF HelloFails, Finish, Goto, Tame, Stays, MovesOn, GoesOn, Handles,
     Starts, InHand, Types, CallType, SessType, Sessional, AtInv, CloseInv
<1>5. CASE HelloAnswers
  BY <1>5 DEF HelloAnswers, Ensure, Goto, Tame, Stays, MovesOn, GoesOn, Handles,
     Starts, InHand, Types, CallType, SessType, Sessional, AtInv, CloseInv
<1>6. CASE HelloEnds
  BY <1>6 DEF HelloEnds, Finish, Goto, Tame, Stays, MovesOn, GoesOn, Handles,
     Starts, InHand, Types, CallType, SessType, Sessional, AtInv, CloseInv
<1>7. CASE ListenGate
  BY <1>7 DEF ListenGate, Goto, Ensure, Tame, Stays, MovesOn, GoesOn, Handles,
     Starts, InHand, Types, CallType, SessType, Sessional, AtInv, CloseInv
<1>8. CASE ListenEnds
  BY <1>8 DEF ListenEnds, Finish, Goto, Tame, Stays, MovesOn, GoesOn, Handles,
     Starts, InHand, Types, CallType, SessType, Sessional, AtInv, CloseInv
<1>9. CASE HandleSpeakReadyMessage
  BY <1>9 DEF HandleSpeakReadyMessage, Goto, Tame, Stays, MovesOn, GoesOn, Handles,
     Starts, InHand, Types, CallType, SessType, Sessional, AtInv, CloseInv
<1>10. CASE markMqttConversationStateStale
  BY <1>10 DEF markMqttConversationStateStale, Goto, Tame, Stays, MovesOn, GoesOn,
     Handles, Starts, InHand, Types, CallType, SessType, Sessional, AtInv, CloseInv
<1>11. CASE resetMcpRuntimeOnMqttTransportReady
  BY <1>11 DEF resetMcpRuntimeOnMqttTransportReady, Goto, Tame, Stays, MovesOn,
     GoesOn, Handles, Starts, InHand, Types, CallType, SessType, Sessional, AtInv,
     CloseInv
<1> QED
  BY <1>1, <1>2, <1>3, <1>4, <1>5, <1>6, <1>7, <1>8, <1>9, <1>10, <1>11

\* the retention of a session,
LEMMA TameRetain ==
    ASSUME Types, Sessional, NEW p \in Procs,
           RetainLook(p) \/ scheduleRetainedSessionCleanup(p) \/ ArmTimer(p) \/
           ResetSpeakPath(p)
    PROVE  Tame
<1>1. CASE RetainLook(p)
  <2>1. \A q \in Procs : q # p => Stays(q)
    BY <1>1 DEF RetainLook, Goto, Stays, Types, CallType
  <2>2. MovesOn(p)
    BY <1>1 DEF RetainLook, Goto, MovesOn, Starts, InHand, Types, CallType, MgrType
  <2> QED
    BY <1>1, <2>1, <2>2 DEF RetainLook, Tame, Handles
<1>2. CASE scheduleRetainedSessionCleanup(p)
  BY <1>2 DEF scheduleRetainedSessionCleanup, Goto, Tame, Stays, MovesOn, GoesOn,
     Handles, Starts, InHand, Types, CallType, SessType, Sessional, AtInv, CloseInv
<1>3. CASE ArmTimer(p)
  BY <1>3 DEF ArmTimer, Goto, Tame, Stays, MovesOn, GoesOn, Handles, Starts, InHand,
     Types, CallType, SessType, Sessional, AtInv, CloseInv
<1>4. CASE ResetSpeakPath(p)
  BY <1>4 DEF ResetSpeakPath, Goto, Tame, Stays, MovesOn, GoesOn, Handles, Starts,
     InHand, Types, CallType, SessType, Sessional, AtInv, CloseInv
<1> QED
  BY <1>1, <1>2, <1>3, <1>4

\* and injected speech.
LEMMA TameInject ==
    ASSUME Types, Sessional, NEW p \in Procs,
           InjectMessage(p) \/ InjectOpenClawResponse(p) \/ InjectAsks(p) \/
           InjectReuses(p) \/ InjectPlain(p) \/ InjectNeedsUdp(p) \/
           getOrCreatePendingSpeakRequest(p) \/ InjectSends(p) \/
           waitPendingSpeakRequest(p) \/ InjectPolls(p) \/ InjectGivesUp(p) \/
           InjectEnds(p)
    PROVE  Tame
<1>1. CASE InjectMessage(p)
  BY <1>1 DEF InjectMessage, Goto, Ensure, Tame, Stays, MovesOn, GoesOn, Handles,
     Starts, InHand, Types, CallType, SessType, Sessional, AtInv, CloseInv
<1>2. CASE InjectOpenClawResponse(p)
  BY <1>2 DEF InjectOpenClawResponse, Ensure, Goto, Tame, Stays, MovesOn, GoesOn,
     Handles, Starts, InHand, Types, CallType, SessType, Sessional, AtInv, CloseInv
<1>3. CASE InjectAsks(p)
  BY <1>3 DEF InjectAsks, Goto, Tame, Stays, MovesOn, GoesOn, Handles, Starts,
     InHand, Types, CallType, SessType, Sessional, AtInv, CloseInv
<1>4. CASE InjectReuses(p)
  BY <1>4 DEF InjectReuses, Ensure, Goto, Tame, Stays, MovesOn, GoesOn, Handles,
     Starts, InHand, Types, CallType, SessType, Sessional, AtInv, CloseInv
<1>5. CASE InjectPlain(p)
  BY <1>5 DEF InjectPlain, Goto, Ensure, Tame, Stays, MovesOn, GoesOn, Handles,
     Starts, InHand, Types, CallType, SessType, Sessional, AtInv, CloseInv
<1>6. CASE InjectNeedsUdp(p)
  BY <1>6 DEF InjectNeedsUdp, Goto, Ensure, Tame, Stays, MovesOn, GoesOn, Handles,
     Starts, InHand, Types, CallType, SessType, Sessional, AtInv, CloseInv
<1>7. CASE getOrCreatePendingSpeakRequest(p)
  BY <1>7 DEF getOrCreatePendingSpeakRequest, Goto, Tame, Stays, MovesOn, GoesOn,
     Handles, Starts, InHand, Types, CallType, SessType, Sessional, AtInv, CloseInv
<1>8. CASE InjectSends(p)
  BY <1>8 DEF InjectSends, Goto, Tame, Stays, MovesOn, GoesOn, Handles, Starts,
     InHand, Types, CallType, SessType, Sessional, AtInv, CloseInv
<1>9. CASE waitPendingSpeakRequest(p)
  BY <1>9 DEF waitPendingSpeakRequest, Goto, Ensure, Tame, Stays, MovesOn, GoesOn,
     Handles, Starts, InHand, Types, CallType, SessType, Sessional, AtInv, CloseInv
<1>10. CASE InjectPolls(p)
  BY <1>10 DEF InjectPolls, Goto, Finish, Ensure, Tame, Stays, MovesOn, GoesOn,
     Handles, Starts, InHand, Types, CallType, SessType, Sessional, AtInv, CloseInv
<1>11. CASE InjectGivesUp(p)
  BY <1>11 DEF InjectGivesUp, Finish, Goto, Tame, Stays, MovesOn, GoesOn, Handles,
     Starts, InHand, Types, CallType, SessType, Sessional, AtInv, CloseInv
<1>12. CASE InjectEnds(p)
  BY <1>12 DEF InjectEnds, Finish, Goto, Tame, Stays, MovesOn, GoesOn, Handles,
     Starts, InHand, Types, CallType, SessType, Sessional, AtInv, CloseInv
<1> QED
  BY <1>1, <1>2, <1>3, <1>4, <1>5, <1>6, <1>7, <1>8, <1>9, <1>10, <1>11, <1>12

-----------------------------------------------------------------------------
(***************************************************************************)
(* The five steps that register, unregister or signal.                     *)
(***************************************************************************)

\* A new session: nobody has had it in hand before.
LEMMA CreateKeeps ==
    ASSUME Types, Types', Sessional, NEW p \in Procs, EnsureCreates(p)
    PROVE  Sessional'
<1> USE DEF Sessional
<1>1. PICK s \in UnusedSessions :
        /\ starting' = s
        /\ at' = [at EXCEPT ![p] = s]
        /\ closing' = [closing EXCEPT ![s] = FALSE]
        /\ body' = [body EXCEPT ![s] = "free"]
        /\ signalled' = [signalled EXCEPT ![s] = FALSE]
  BY DEF EnsureCreates
<1>2. s \in Sessions /\ s # 0 /\ \A q \in Procs : at[q] # s
  BY DEF UnusedSessions, Sessions
<1>3. /\ pc'[p] = "e_start" /\ at'[p] = s
      /\ \A q \in Procs : q # p => pc'[q] = pc[q] /\ at'[q] = at[q]
      /\ UNCHANGED <<got, then>>
  BY <1>1 DEF EnsureCreates, Goto, Types, CallType
<1>4. /\ ~closing'[s] /\ body'[s] = "free" /\ ~signalled'[s]
      /\ \A t \in Sessions : t # s =>
            closing'[t] = closing[t] /\ body'[t] = body[t] /\ signalled'[t] = signalled[t]
  BY <1>1, <1>2 DEF Types, SessType
<1>5. session = 0 /\ session' = 0 /\ starting = 0 /\ pc[p] = "e_look"
  BY DEF EnsureCreates
<1>6. AtInv'
  BY <1>2, <1>3 DEF AtInv
<1>7. CloseInv'
  <2>1. \A t \in Sessions : body'[t] # "free" => closing'[t]
    BY <1>4 DEF CloseInv
  <2>2. \A q \in Procs : pc'[q] \in {"c_once", "c_wait", "e_finish"} =>
            q # p /\ at[q] \in Sessions /\ at[q] # s
    BY <1>2, <1>3 DEF AtInv, InHand
  <2> QED
    BY <1>3, <1>4, <2>1, <2>2 DEF CloseInv
<1>8. HeldInv'
  BY <1>1, <1>2, <1>4, <1>5 DEF HeldInv, LiveSessionHeld, Sessions
<1>9. SignalInv'
  <2>1. \A q \in Procs : pc'[q] = "e_signal" =>
            q # p /\ at[q] \in Sessions /\ at[q] # s
    BY <1>2, <1>3 DEF AtInv, InHand
  <2> QED
    BY <1>1, <1>3, <1>4, <2>1 DEF SignalInv
<1>10. StarterInv'
  BY <1>1, <1>3 DEF StarterInv, Starts
<1>11. WaitInv'
  <2> SUFFICES ASSUME NEW q \in Procs, pc'[q] = "e_wait"
               PROVE  \/ signalled'[at'[q]]
                      \/ body'[at'[q]] = "signal"
                      \/ \E r \in Procs : pc'[r] = "e_signal" /\ at'[r] = at'[q]
    BY DEF WaitInv
  <2>1. q # p /\ at[q] \in Sessions /\ at[q] # s /\ pc[q] = "e_wait" /\ at[q] # starting
    BY <1>2, <1>3, <1>5 DEF AtInv, InHand, Sessions
  <2>2. \A r \in Procs : pc[r] = "e_signal" => pc'[r] = pc[r] /\ at'[r] = at[r]
    BY <1>3, <1>5
  <2> QED
    BY <1>3, <1>4, <2>1, <2>2 DEF WaitInv
<1> QED
  BY <1>6, <1>7, <1>8, <1>9, <1>10, <1>11

\* finishSessionStart: who finds its session still registered as starting turns
\* the entry into the duty to close the channel.
LEMMA FinishKeeps ==
    ASSUME Types, Types', Sessional, NEW p \in Procs, finishSessionStart(p)
    PROVE  Sessional'
<1> USE DEF Sessional
<1>1. /\ pc[p] = "e_finish" /\ at[p] \in Sessions /\ at[p] # 0
      /\ UNCHANGED <<at, got, then, closing, body, signalled>>
  BY DEF finishSessionStart, AtInv, InHand, Sessions
<1>2. CASE starting = at[p]
  <2>1. /\ starting' = 0 /\ session = 0
        /\ session' = IF got[p] = "session" /\ ~closing[at[p]] THEN at[p] ELSE 0
    BY <1>1, <1>2 DEF finishSessionStart, HeldInv, LiveSessionHeld
  <2>2. /\ pc'[p] = "e_signal"
        /\ \A q \in Procs : q # p => pc'[q] = pc[q]
    BY <1>2 DEF finishSessionStart, Goto, Types, CallType
  <2>3. closing[at[p]] \/ session' = at[p]
    BY <1>1, <2>1 DEF CloseInv
  <2>4. body[at[p]] \in {"free", "handler", "clear"} /\ ~signalled[at[p]]
    BY <1>1, <1>2 DEF HeldInv, SignalInv
  <2>5. AtInv' /\ CloseInv'
    BY <1>1, <2>2 DEF AtInv, CloseInv
  <2>6. HeldInv'
    BY <1>1, <1>2, <2>1, <2>3, <2>4 DEF HeldInv, LiveSessionHeld, Sessions
  <2>7. SignalInv'
    <3>1. \A q \in Procs : pc'[q] = "e_signal" /\ q # p => at[q] # at[p]
      BY <1>2, <2>2 DEF SignalInv
    <3>2. \A q \in Procs : pc'[q] = "e_signal" =>
              at[q] \in Sessions /\ body[at[q]] # "signal" /\ ~signalled[at[q]]
      BY <1>1, <2>2, <2>4 DEF SignalInv, AtInv, InHand
    <3> QED
      BY <1>1, <2>1, <2>2, <3>1, <3>2 DEF SignalInv, Sessions
  <2>8. StarterInv'
    BY <2>1 DEF StarterInv
  <2>9. WaitInv'
    BY <1>1, <1>2, <2>2 DEF WaitInv
  <2> QED
    BY <2>5, <2>6, <2>7, <2>8, <2>9
<1>3. CASE starting # at[p]
  <2>1. UNCHANGED <<session, starting>>
    BY <1>3 DEF finishSessionStart
  <2>2. /\ pc'[p] = "e_end"
        /\ \A q \in Procs : q # p => pc'[q] = pc[q]
    BY <1>3 DEF finishSessionStart, Goto, Types, CallType
  <2>3. AtInv' /\ CloseInv' /\ HeldInv' /\ SignalInv'
    BY <1>1, <2>1, <2>2 DEF AtInv, CloseInv, HeldInv, LiveSessionHeld, SignalInv
  <2>4. StarterInv'
    BY <1>1, <1>3, <2>1, <2>2 DEF StarterInv, Starts
  <2>5. WaitInv'
    BY <1>1, <2>1, <2>2 DEF WaitInv
  <2> QED
    BY <2>3, <2>4, <2>5
<1> QED
  BY <1>2, <1>3

\* close(waitCh) by the goroutine that started the session.
LEMMA SignalKeeps ==
    ASSUME Types, Types', Sessional, NEW p \in Procs, SignalStarted(p)
    PROVE  Sessional'
<1> USE DEF Sessional
<1>1. /\ pc[p] = "e_signal" /\ at[p] \in Sessions /\ at[p] # starting
      /\ body[at[p]] # "signal"
      /\ UNCHANGED <<session, starting, at, got, then, closing, body>>
  BY DEF SignalStarted, AtInv, InHand, SignalInv
<1>2. /\ pc'[p] = "e_end"
      /\ \A q \in Procs : q # p => pc'[q] = pc[q]
  BY DEF SignalStarted, Goto, Types, CallType
<1>3. /\ signalled'[at[p]]
      /\ \A t \in Sessions : t # at[p] => signalled'[t] = signalled[t]
  BY <1>1 DEF SignalStarted, Types, SessType
<1>4. AtInv' /\ CloseInv' /\ HeldInv'
  BY <1>1, <1>2 DEF AtInv, CloseInv, HeldInv, LiveSessionHeld, InHand
<1>5. SignalInv'
  <2>1. \A q \in Procs : pc'[q] = "e_signal" =>
            q # p /\ at[q] \in Sessions /\ at[q] # at[p]
    BY <1>1, <1>2 DEF AtInv, InHand, SignalInv
  <2>2. starting # 0 => starting \in Sessions
    BY DEF Types, MgrType
  <2> QED
    BY <1>1, <1>2, <1>3, <2>1, <2>2 DEF SignalInv
<1>6. StarterInv'
  BY <1>1, <1>2 DEF StarterInv, Starts
<1>7. WaitInv'
  <2>1. \A q \in Procs : pc'[q] = "e_wait" => pc[q] = "e_wait" /\ at[q] \in Sessions
    BY <1>2 DEF AtInv, InHand
  <2>2. \A q \in Procs : at[q] \in Sessions /\ signalled[at[q]] => signalled'[at[q]]
    BY <1>3
  <2>3. \A q \in Procs : pc[q] = "e_signal" => q = p \/ pc'[q] = "e_signal"
    BY <1>2
  <2> QED
    BY <1>1, <1>3, <2>1, <2>2, <2>3 DEF WaitInv
<1> QED
  BY <1>4, <1>5, <1>6, <1>7

\* The close handler unregisters its session.  From `starting` it inherits the
\* duty to close the channel.
LEMMA ClearKeeps ==
    ASSUME Types, Types', Sessional, NEW s \in Sessions, BodyClear(s)
    PROVE  Sessional'
<1> USE DEF Sessional
<1>1. /\ s # 0 /\ body[s] = "clear" /\ closing[s]
      /\ UNCHANGED <<pc, at, got, then, closing, signalled>>
  BY DEF BodyClear, Step, CloseInv, Sessions
<1>2. /\ \A t \in Sessions : t # s => body'[t] = body[t]
      /\ body'[s] # "free"
  BY DEF BodyClear, Step, Afterwards, Types, SessType
<1>3. body'[s] = "signal" <=> starting = s
  <2>1. session = s => starting # s
    BY <1>1 DEF HeldInv, LiveSessionHeld
  <2> QED
    BY <2>1 DEF BodyClear, Step, Afterwards, Types, SessType
<1>4. /\ session' = IF session = s THEN 0 ELSE session
      /\ starting' = IF starting = s THEN 0 ELSE starting
  <2>1. session = 0 \/ starting = 0
    BY DEF HeldInv, LiveSessionHeld
  <2> QED
    BY <1>1, <2>1 DEF BodyClear
<1>5. AtInv' /\ CloseInv'
  BY <1>1, <1>2 DEF AtInv, CloseInv
<1>6. HeldInv'
  BY <1>1, <1>2, <1>4 DEF HeldInv, LiveSessionHeld, Sessions
<1>7. SignalInv'
  <2>1. \A p \in Procs : pc[p] = "e_signal" => at[p] \in Sessions /\ at[p] # 0
    BY DEF AtInv, InHand, Sessions
  <2>2. \A p \in Procs : pc[p] = "e_signal" =>
            at[p] # starting' /\ body'[at[p]] # "signal"
    BY <1>2, <1>3, <1>4, <2>1 DEF SignalInv
  <2>3. starting = s => ~signalled[s]
    BY <1>1 DEF SignalInv
  <2> QED
    BY <1>1, <1>2, <1>3, <1>4, <2>2, <2>3 DEF SignalInv
<1>8. StarterInv'
  BY <1>1, <1>4 DEF StarterInv, Starts
<1>9. WaitInv'
  <2>1. \A p \in Procs : pc[p] = "e_wait" => at[p] \in Sessions
    BY DEF AtInv, InHand
  <2>2. \A t \in Sessions : body[t] = "signal" => body'[t] = "signal"
    BY <1>1, <1>2
  <2>3. starting # s => starting' = starting
    BY <1>4
  <2> QED
    BY <1>1, <1>3, <2>1, <2>2, <2>3 DEF WaitInv
<1> QED
  BY <1>5, <1>6, <1>7, <1>8, <1>9

\* close(waitCh) by the close handler.
LEMMA BodySignalKeeps ==
    ASSUME Types, Types', Sessional, NEW s \in Sessions, BodySignal(s)
    PROVE  Sessional'
<1> USE DEF Sessional
<1>1. /\ body[s] = "signal" /\ s # starting
      /\ UNCHANGED <<session, starting, pc, at, got, then, closing>>
  BY DEF BodySignal, Step, HeldInv
<1>2. /\ body'[s] = "done" /\ signalled'[s]
      /\ \A t \in Sessions : t # s =>
            body'[t] = body[t] /\ signalled'[t] = signalled[t]
  BY DEF BodySignal, Step, Types, SessType
<1>3. AtInv' /\ CloseInv' /\ HeldInv'
  BY <1>1, <1>2 DEF AtInv, CloseInv, HeldInv, LiveSessionHeld
<1>4. SignalInv'
  <2>1. \A p \in Procs : pc[p] = "e_signal" => at[p] \in Sessions /\ at[p] # s
    BY <1>1 DEF AtInv, InHand, SignalInv
  <2>2. starting # 0 => starting \in Sessions
    BY DEF Types, MgrType
  <2> QED
    BY <1>1, <1>2, <2>1, <2>2 DEF SignalInv
<1>5. StarterInv'
  BY <1>1 DEF StarterInv, Starts
<1>6. WaitInv'
  <2>1. \A p \in Procs : pc[p] = "e_wait" => at[p] \in Sessions
    BY DEF AtInv, InHand
  <2> QED
    BY <1>1, <1>2, <2>1 DEF WaitInv
<1> QED
  BY <1>3, <1>4, <1>5, <1>6

-----------------------------------------------------------------------------
(***************************************************************************)
(* The invariant and what follows from it.                                 *)
(***************************************************************************)

\* The manager starts without sessions and without speech.
LEMMA InitIInv == Init => IInv
<1> SUFFICES ASSUME Init PROVE IInv
  OBVIOUS
<1>1. Types
  <2>1. WorkType
    BY DEF Init, WorkType
  <2>2. MgrType /\ RetainType
    BY DEF Init, MgrType, RetainType
  <2>3. SpeakType /\ PendingOpen
    BY DEF Init, SpeakType, PendingOpen
  <2>4. SessType /\ ShutType
    BY DEF Init, SessType, ShutType, Bodies, Reasons, Shutdown
  <2>5. CallType /\ JobType
    BY DEF Init, CallType, JobType, Labels, Reasons, Shutdown
  <2> QED
    BY <2>1, <2>2, <2>3, <2>4, <2>5 DEF Types
<1>2. AtInv /\ CloseInv /\ WaitInv /\ StarterInv
  BY DEF Init, AtInv, CloseInv, WaitInv, StarterInv, InHand
<1>3. HeldInv /\ SignalInv
  BY DEF Init, HeldInv, LiveSessionHeld, SignalInv, Sessions
<1> QED
  BY <1>1, <1>2, <1>3 DEF IInv

\* The processes of the actions of Next.
LEMMA ProcFacts ==
    /\ "cmd" \in Procs /\ "shut" \in Procs
    /\ Injectors \subseteq Procs /\ Actors \subseteq Procs
BY DEF Procs

\* A tame step that keeps the types keeps the invariant.
LEMMA TameStep ==
    ASSUME IInv, Types', Tame
    PROVE  IInv'
BY TameKeeps DEF IInv, Sessional

\* ensureSessionInternal keeps the invariant, whoever runs it,
LEMMA EnsureStep ==
    ASSUME IInv, NEW p \in Procs, ensureSessionInternal(p)
    PROVE  IInv'
<1> USE DEF IInv, Sessional
<1>1. Types'
  BY TypeEnsure DEF ensureSessionInternal
<1>2. CASE EnsureCreates(p)
  BY <1>1, <1>2, CreateKeeps
<1>3. CASE finishSessionStart(p)
  BY <1>1, <1>3, FinishKeeps
<1>4. CASE SignalStarted(p)
  BY <1>1, <1>4, SignalKeeps
<1>5. CASE ~(EnsureCreates(p) \/ finishSessionStart(p) \/ SignalStarted(p))
  BY <1>1, <1>5, TameEnsure, TameStep DEF ensureSessionInternal
<1> QED
  BY <1>2, <1>3, <1>4, <1>5

\* so does calling CloseWithReason or shutdown,
LEMMA CallerKeeps ==
    ASSUME IInv, NEW p \in Procs, EnterOnce(p) \/ LeaveOnce(p) \/ ShutdownReturns(p)
    PROVE  IInv'
BY TypeCaller, TameCaller, TameStep DEF IInv, Sessional

\* the close handler,
LEMMA HandlerStep ==
    ASSUME IInv, NEW s \in Sessions, handleSessionClosed(s)
    PROVE  IInv'
<1> USE DEF IInv, Sessional
<1>1. Types'
  BY TypeBody DEF handleSessionClosed
<1>2. CASE BodyClear(s)
  BY <1>1, <1>2, ClearKeeps
<1>3. CASE BodySignal(s)
  BY <1>1, <1>3, BodySignalKeeps
<1>4. CASE ~(BodyClear(s) \/ BodySignal(s))
  BY <1>1, <1>4, TameBody, TameStep DEF handleSessionClosed
<1> QED
  BY <1>2, <1>3, <1>4

\* the shutdown of the manager,
LEMMA ShutdownStep ==
    ASSUME IInv, shutdown \/ Close \/ OnClose
    PROVE  IInv'
<1>1. CASE EnterOnce("shut") \/ LeaveOnce("shut")
  BY <1>1, CallerKeeps, ProcFacts
<1>2. CASE ~(EnterOnce("shut") \/ LeaveOnce("shut"))
  BY <1>2, TypeShutdown, TameShutdown, TameStep DEF shutdown, IInv, Sessional
<1> QED
  BY <1>1, <1>2

\* the retention of a session,
LEMMA RetainStep ==
    ASSUME IInv, NEW p \in Procs, Retain(p)
    PROVE  IInv'
BY TypeRetain, TameRetain, TameStep DEF Retain, IInv, Sessional

\* the loop that handles the device's messages, and the MQTT adapter,
LEMMA MessageStep ==
    ASSUME IInv, CmdStep \/ ReadyStep \/ markMqttConversationStateStale
    PROVE  IInv'
<1>1. CASE ReadyStep
  <2>1. CASE Retain("ready")
    BY <1>1, <2>1, RetainStep, ProcFacts DEF ReadyStep
  <2>2. CASE resetMcpRuntimeOnMqttTransportReady
    BY <2>2, TypeMessage, TameMessage, TameStep DEF IInv, Sessional
  <2> QED
    BY <1>1, <2>1, <2>2 DEF ReadyStep
<1>2. CASE ensureSessionInternal("cmd")
  BY <1>2, EnsureStep, ProcFacts
<1>3. CASE EnterOnce("cmd") \/ LeaveOnce("cmd")
  BY <1>3, CallerKeeps, ProcFacts
<1>4. CASE HandleHelloMessage \/ ListenGate \/ ListenEnds \/ HandleSpeakReadyMessage
           \/ markMqttConversationStateStale
  <2>1. Types' /\ Tame
    BY <1>4, TypeMessage, TameMessage DEF HandleHelloMessage, IInv, Sessional
  <2> QED
    BY <2>1, TameStep
<1>5. CASE Retain("cmd")
  BY <1>5, RetainStep, ProcFacts
<1> QED
  BY <1>1, <1>2, <1>3, <1>4, <1>5 DEF CmdStep

\* and injected speech.
LEMMA InjectKeeps ==
    ASSUME IInv, NEW p \in Procs,
           InjectMessage(p) \/ InjectOpenClawResponse(p) \/ InjectorStep(p)
    PROVE  IInv'
<1>1. CASE ensureSessionInternal(p)
  BY <1>1, EnsureStep
<1>2. CASE EnterOnce(p) \/ LeaveOnce(p)
  BY <1>2, CallerKeeps
<1>3. CASE InjectMessage(p) \/ InjectOpenClawResponse(p) \/ InjectStep(p)
  <2>1. Types' /\ Tame
    BY <1>3, TypeInject, TameInject DEF InjectStep, IInv, Sessional
  <2> QED
    BY <2>1, TameStep
<1> QED
  BY <1>1, <1>2, <1>3 DEF InjectorStep

\* Every step keeps the invariant.
LEMMA NextIInv == IInv /\ [Next]_vars => IInv'
<1> SUFFICES ASSUME IInv, [Next]_vars PROVE IInv'
  OBVIOUS
<1>1. CASE UNCHANGED vars
  <2>1. Types'
    BY <1>1, TypeFrame DEF vars, IInv, Types
  <2>2. Tame
    BY <1>1 DEF vars, Tame, Stays, Handles
  <2> QED
    BY <2>1, <2>2, TameStep
<1>2. ASSUME NEW m \in Messages, Receive(m) PROVE IInv'
  BY <1>2, TypeReceive, TameReceive, TameStep DEF IInv, Sessional
<1>3. ASSUME NEW p \in Injectors,
             InjectMessage(p) \/ InjectOpenClawResponse(p) \/ InjectorStep(p)
      PROVE  IInv'
  BY <1>3, InjectKeeps, ProcFacts
<1>4. CASE SessionEnds \/ TimerFires \/ TimerChecks \/ TimerCloses
  BY <1>4, TypeTimer, TameTimer, TameStep DEF IInv, Sessional
<1>5. ASSUME NEW p \in Actors, CallerStep(p) PROVE IInv'
  BY <1>5, CallerKeeps, ProcFacts DEF CallerStep
<1>6. ASSUME NEW s \in Sessions, handleSessionClosed(s) PROVE IInv'
  BY <1>6, HandlerStep
<1>7. ASSUME NEW r \in Requests, SpeakTimeout(r) PROVE IInv'
  BY <1>7, TypeRequest, TameRequest, TameStep DEF IInv, Sessional
<1>8. CASE shutdown \/ Close \/ OnClose
  BY <1>8, ShutdownStep
<1>9. CASE CmdStep \/ ReadyStep \/ markMqttConversationStateStale
  BY <1>9, MessageStep
<1> QED
  BY <1>1, <1>2, <1>3, <1>4, <1>5, <1>6, <1>7, <1>8, <1>9
     DEF Next, Arrival, runRetainedSessionCleanup

\* IInv holds throughout: the registration of sessions, their close handlers
\* and the goroutines at work on them always agree.
THEOREM ChatInvariant == Spec => []IInv
BY InitIInv, NextIInv, PTL DEF Spec

\* Every variable of the manager keeps its type, a registered session is one
\* whose CloseWithReason has not ended, and the pending speak request is open.
THEOREM ChatTypeCorrect == Spec => []TypeOK
<1>1. IInv => TypeOK
  <2> SUFFICES ASSUME IInv PROVE TypeOK
    OBVIOUS
  <2>1. ASSUME NEW s \in {session, starting} \ {0}
        PROVE  body[s] # "done"
    BY <2>1 DEF IInv, HeldInv, Types, MgrType
  <2> QED
    BY <2>1 DEF TypeOK, IInv, Types, WorkType, PendingOpen
<1> QED
  BY <1>1, ChatInvariant, PTL

\* However hello, listen, injected speech, goodbye, timers and closes race, a
\* session that is not being closed is registered, and a device never has both
\* a session and one that is starting.
THEOREM NoSessionLost == Spec => []LiveSessionHeld
<1>1. IInv => LiveSessionHeld
  BY DEF IInv, HeldInv
<1> QED
  BY <1>1, ChatInvariant, PTL

\* finishSessionStart and the close handler never both close a session's start
\* channel, nor either of them twice: the close never panics.
THEOREM NoDoubleChannelClose == Spec => []ChannelClosedOnce
<1>1. IInv => ChannelClosedOnce
  <2> SUFFICES ASSUME IInv, NEW s \in Sessions, Signallers(s) # {}
               PROVE  ~signalled[s] /\ Cardinality(Signallers(s)) = 1
    BY DEF ChannelClosedOnce
  <2>1. \A p, q \in Signallers(s) : p = q
    BY DEF Signallers, IInv, SignalInv
  <2>2. ~signalled[s]
    BY DEF Signallers, IInv, SignalInv
  <2>3. PICK p \in Signallers(s) : TRUE
    OBVIOUS
  <2>4. Signallers(s) = {p}
    BY <2>1, <2>3
  <2> QED
    BY <2>2, <2>4, FS_Singleton
<1> QED
  BY <1>1, ChatInvariant, PTL

\* Who waits in ensureSession for a session that somebody else is starting is
\* never forgotten, even when that session is closed while it starts.
THEOREM NoLostWakeup == Spec => []WaiterWillWake
<1>1. IInv => WaiterWillWake
  <2> SUFFICES ASSUME IInv, NEW p \in Procs, pc[p] = "e_wait"
               PROVE  \/ signalled[at[p]]
                      \/ Signallers(at[p]) # {}
                      \/ starting = at[p] /\ Starters(at[p]) # {}
    BY DEF WaiterWillWake
  <2>1. CASE signalled[at[p]]
    BY <2>1
  <2>2. CASE body[at[p]] = "signal"
    BY <2>2 DEF Signallers
  <2>3. CASE \E q \in Procs : pc[q] = "e_signal" /\ at[q] = at[p]
    BY <2>3 DEF Signallers
  <2>4. CASE starting = at[p]
    <3>1. starting # 0
      BY <2>4 DEF IInv, AtInv, InHand, Sessions
    <3>2. PICK q \in Procs : at[q] = starting /\ Starts(q)
      BY <3>1 DEF IInv, StarterInv
    <3>3. q \in Starters(at[p])
      BY <2>4, <3>2 DEF Starters, Starts
    <3> QED
      BY <2>4, <3>3
  <2> QED
    BY <2>1, <2>2, <2>3, <2>4 DEF IInv, WaitInv
<1> QED
  BY <1>1, ChatInvariant, PTL
=============================================================================
