---------------------------- MODULE ChatManager ----------------------------
(***************************************************************************)
(* One ChatManager (internal/app/server/chat/chat.go) and the ChatSessions *)
(* it creates, publishes, retains and closes for its device.               *)
(*                                                                         *)
(* Goroutines: "cmd" is cmdMessageLoop, which handles the device's hello,  *)
(* listen, goodbye and speak_ready messages one by one; each member of     *)
(* Injectors is a caller of InjectMessage; "ready" is the MQTT adapter in  *)
(* HandleMqttTransportReady; "timer" is a fired retained-session timer;    *)
(* "talk" is a goroutine of a session that ends it (an exit phrase, a      *)
(* fatal ASR error, the idle watchdog); "close" calls ChatManager.Close    *)
(* and "net" is the transport calling OnClose.                             *)
(*                                                                         *)
(* The two sync.Onces are the heart of it.  ChatSession.closeOnce and      *)
(* ChatManager.closeOnce run their function in the first caller and make   *)
(* every caller wait for its end, so the function is modelled as an        *)
(* activity of the session (body[s]) and of the manager (pc["shut"]), and  *)
(* all callers, the first included, as waiting for it.                     *)
(*                                                                         *)
(* A critical section of sessionMu, retainedSessionCleanupMu or            *)
(* speakRequestMu is one step, and so is each access to an atomic.  The    *)
(* MCP runtime, the parent messages and what a session does while it is    *)
(* open are not part of this module.                                       *)
(***************************************************************************)
EXTENDS Integers, FiniteSets

CONSTANTS
    Transports,     \* which transports to consider: "mqtt", "websocket"
    Injectors,      \* callers of InjectMessage
    Actors,         \* which of "ready", "timer", "talk", "close", "net" occur
    Messages,       \* what the device sends
    SpeakRequest,   \* chat.speak_request_enabled
    NumSessions,    \* how many ChatSession objects exist at a time
    NumRequests,    \* how many pendingSpeakRequest objects exist at a time
    MaxWork         \* bound: messages, injections, transport events, closes

ASSUME ChatAssumption ==
    /\ Transports \subseteq {"mqtt", "websocket"} /\ Transports # {}
    /\ Actors \subseteq {"ready", "timer", "talk", "close", "net"}
    /\ Injectors \cap {"cmd", "shut", "ready", "timer", "talk", "close", "net"} = {}
    /\ Messages \subseteq {"hello", "listen", "goodbye", "speak_ready", "other"}
    /\ SpeakRequest \in BOOLEAN
    /\ {NumSessions, NumRequests} \subseteq Nat \ {0} /\ MaxWork \in Nat

Sessions == 1 .. NumSessions        \* 0 is nil
Requests == 1 .. NumRequests
Procs == {"cmd", "shut"} \cup Injectors \cup Actors

\* Why a session is closed.  The manager treats explicit_exit, fatal_error and
\* audio_idle_timeout alike: they are all Exit.
Shutdown == "manager_shutdown"
Retained == "retained_idle_timeout"
Exit == "exit"
Reasons == {Exit, Shutdown, Retained}

VARIABLES
    transport,      \* the transport of this manager
    work,           \* how much has happened
    \* sessionMu
    session, starting, needFreshHello,
    \* helloMu
    helloInited, helloMu,
    \* retained sessions: the cleanup target, and sessions with a timer running
    target, armed,
    \* proactive speech
    rebootstrap,    \* mqttRebootstrapPending
    pending,        \* pendingSpeakRequest
    settled,        \* the outcome of each request
    \* the sessions
    launched,       \* Start has begun the session's goroutines
    closing,        \* ChatSession.closing; also TRUE of an unused identity
    body, why,      \* where the function of closeOnce is, and its reason
    signalled,      \* startingSessionDone of this session is closed
    \* shutdown
    managerClosing, closeTransport, snapshot,
    cancelled,      \* c.ctx
    \* the goroutines
    pc, at, cause, then, back, got, req, fresh, boot

mgrVars == <<session, starting, needFreshHello>>
helloVars == <<helloInited, helloMu>>
retainVars == <<target, armed>>
speakVars == <<pending, settled>>
sessVars == <<launched, closing, body, why, signalled>>
shutVars == <<managerClosing, closeTransport, snapshot, cancelled>>
callVars == <<at, cause, then>>
ensureVars == <<back, got>>
jobVars == <<req, fresh, boot>>
vars == <<transport, work, mgrVars, helloVars, retainVars, rebootstrap, speakVars,
          sessVars, shutVars, pc, callVars, ensureVars, jobVars>>

Init ==
    /\ transport \in Transports
    /\ work = 0
    /\ session = 0 /\ starting = 0 /\ needFreshHello = FALSE
    /\ helloInited = FALSE /\ helloMu = "free"
    /\ target = 0 /\ armed = {}
    /\ rebootstrap = FALSE /\ pending = 0
    /\ settled = [r \in Requests |-> "none"]
    /\ launched = {}
    /\ closing = [s \in Sessions |-> TRUE]
    /\ body = [s \in Sessions |-> "done"]
    /\ why = [s \in Sessions |-> Shutdown]
    /\ signalled = [s \in Sessions |-> TRUE]
    /\ managerClosing = FALSE /\ closeTransport = FALSE /\ snapshot = {}
    /\ cancelled = FALSE
    /\ pc = [p \in Procs |-> "idle"]
    /\ at = [p \in Procs |-> 0]
    /\ cause = [p \in Procs |-> Shutdown]
    /\ then = [p \in Procs |-> "idle"]
    /\ back = [p \in Procs |-> "idle"]
    /\ got = [p \in Procs |-> "none"]
    /\ req = [p \in Procs |-> 0]
    /\ fresh = FALSE
    /\ boot = [p \in Procs |-> FALSE]

-----------------------------------------------------------------------------
Goto(p, label) == pc' = [pc EXCEPT ![p] = label]
Work == work < MaxWork /\ work' = work + 1

\* The end of a job: its locals are gone.
Finish(p) ==
    /\ Goto(p, "idle")
    /\ back' = [back EXCEPT ![p] = "idle"]
    /\ got' = [got EXCEPT ![p] = "none"]

\* Objects nothing refers to; their identities are free for a new object.
UnusedSessions ==
    {s \in Sessions : /\ closing[s] /\ body[s] = "done"
                      /\ s \notin {session, starting, target} \cup armed \cup snapshot
                      /\ \A p \in Procs : at[p] # s}
UnusedRequests == {r \in Requests : r # pending /\ \A p \in Procs : req[p] # r}

requiresHelloBootstrapForSession ==
    session = 0 /\ (~helloInited \/ needFreshHello)

\* The timer that is stopped is the one of the target.
cancelRetainedSessionCleanup ==
    /\ target' = 0
    /\ armed' = armed \ {target}

\* Clear the request if it is the pending one, then settle it.  Only waiters
\* look at a settled request, so the two are one step.
finishPendingSpeakRequest(r, outcome) ==
    /\ pending' = IF pending = r THEN 0 ELSE pending
    /\ settled' = IF r # 0 /\ settled[r] = "open"
                  THEN [settled EXCEPT ![r] = outcome] ELSE settled

\* Call ensureSession and continue at `label`.
Ensure(p, label) ==
    /\ back' = [back EXCEPT ![p] = label]
    /\ Goto(p, "e_look")
    /\ UNCHANGED got

\* Call s.CloseWithReason(reason) and continue at `label`.
CloseWithReason(p, s, reason, label) ==
    /\ closing' = [closing EXCEPT ![s] = TRUE]
    /\ at' = [at EXCEPT ![p] = s]
    /\ cause' = [cause EXCEPT ![p] = reason]
    /\ then' = [then EXCEPT ![p] = label]
    /\ Goto(p, "c_once")

\* Enter shutdown: the first caller starts it.
BeginShutdown(with) ==
    IF pc["shut"] = "idle"
    THEN /\ closeTransport' = with
         /\ pc' = [pc EXCEPT !["shut"] = "s_cancel"]
    ELSE UNCHANGED <<closeTransport, pc>>

-----------------------------------------------------------------------------
(***************************************************************************)
(* ensureSessionInternal                                                   *)
(***************************************************************************)
Answer(p, result) ==
    /\ got' = [got EXCEPT ![p] = result]
    /\ Goto(p, back[p])

\* A registered session is the answer, unless it is closing.
EnsureFound(p) ==
    /\ pc[p] = "e_look" /\ session # 0
    /\ Answer(p, IF closing[session] THEN "retry" ELSE "session")
    /\ UNCHANGED <<transport, work, mgrVars, helloVars, retainVars, rebootstrap,
                   speakVars, sessVars, shutVars, callVars, back, jobVars>>

\* Somebody is starting one: wait for the channel.
EnsureWaits(p) ==
    /\ pc[p] = "e_look" /\ session = 0 /\ starting # 0
    /\ at' = [at EXCEPT ![p] = starting]
    /\ Goto(p, "e_wait")
    /\ UNCHANGED <<transport, work, mgrVars, helloVars, retainVars, rebootstrap,
                   speakVars, sessVars, shutVars, cause, then, ensureVars, jobVars>>

EnsureWakes(p) ==
    /\ pc[p] = "e_wait" /\ signalled[at[p]]
    /\ at' = [at EXCEPT ![p] = 0]
    /\ Goto(p, "e_look")
    /\ UNCHANGED <<transport, work, mgrVars, helloVars, retainVars, rebootstrap,
                   speakVars, sessVars, shutVars, cause, then, ensureVars, jobVars>>

\* Only hello may create a session while a fresh hello is required.
MayCreate(p) == helloInited /\ (needFreshHello => back[p] = "h_after")

EnsureRefused(p) ==
    /\ pc[p] = "e_look" /\ session = 0 /\ starting = 0
    /\ ~MayCreate(p)
    /\ Answer(p, "retry")
    /\ UNCHANGED <<transport, work, mgrVars, helloVars, retainVars, rebootstrap,
                   speakVars, sessVars, shutVars, callVars, back, jobVars>>

EnsureCreates(p) ==
    /\ pc[p] = "e_look" /\ session = 0 /\ starting = 0
    /\ MayCreate(p)
    /\ \E s \in UnusedSessions :
        /\ starting' = s
        /\ at' = [at EXCEPT ![p] = s]
        /\ closing' = [closing EXCEPT ![s] = FALSE]
        /\ body' = [body EXCEPT ![s] = "free"]
        /\ signalled' = [signalled EXCEPT ![s] = FALSE]
        /\ launched' = launched \ {s}
    /\ Goto(p, "e_start")
    /\ UNCHANGED <<transport, work, session, needFreshHello, helloVars, retainVars,
                   rebootstrap, speakVars, why, shutVars, cause, then, ensureVars,
                   jobVars>>

\* session.Start succeeds, and the session's goroutines are running.
StartSucceeds(p) ==
    /\ pc[p] = "e_start"
    /\ launched' = launched \cup {at[p]}
    /\ got' = [got EXCEPT ![p] = "session"]
    /\ Goto(p, "e_finish")
    /\ UNCHANGED <<transport, work, mgrVars, helloVars, retainVars, rebootstrap,
                   speakVars, closing, body, why, signalled, shutVars, callVars,
                   back, jobVars>>

\* session.Start fails, and the session is closed before finishSessionStart.
StartFails(p) ==
    /\ pc[p] = "e_start"
    /\ got' = [got EXCEPT ![p] = "fail"]
    /\ CloseWithReason(p, at[p], Exit, "e_finish")
    /\ UNCHANGED <<transport, work, mgrVars, helloVars, retainVars, rebootstrap,
                   speakVars, launched, body, why, signalled, shutVars, back, jobVars>>

\* Fault: a session that started closing meanwhile is not published, and its
\* entry is not cleared either.
finishSessionStartKeepsEntry(p) ==
    /\ pc[p] = "e_finish"
    /\ IF starting = at[p] /\ got[p] = "session" /\ ~closing[at[p]]
       THEN /\ starting' = 0
            /\ session' = at[p]
            /\ needFreshHello' = IF back[p] = "h_after" THEN FALSE ELSE needFreshHello
            /\ Goto(p, "e_signal")
       ELSE /\ Goto(p, "e_end")
            /\ UNCHANGED mgrVars
    /\ UNCHANGED <<transport, work, helloVars, retainVars, rebootstrap, speakVars,
                   sessVars, shutVars, callVars, ensureVars, jobVars>>

\* Fault: the channel is closed by whoever started the session, even when the
\* handler has taken it.
finishSessionStartAlways(p) ==
    /\ pc[p] = "e_finish"
    /\ IF starting = at[p] /\ got[p] = "session" /\ ~closing[at[p]]
       THEN /\ session' = at[p]
            /\ needFreshHello' = IF back[p] = "h_after" THEN FALSE ELSE needFreshHello
       ELSE UNCHANGED <<session, needFreshHello>>
    /\ starting' = IF starting = at[p] THEN 0 ELSE starting
    /\ Goto(p, "e_signal")
    /\ UNCHANGED <<transport, work, helloVars, retainVars, rebootstrap, speakVars,
                   sessVars, shutVars, callVars, ensureVars, jobVars>>

\* Publish the session, unless it failed to start or is closing already.
finishSessionStart(p) ==
    /\ pc[p] = "e_finish"
    /\ IF starting = at[p]
       THEN /\ starting' = 0
            /\ IF got[p] = "session" /\ ~closing[at[p]]
               THEN /\ session' = at[p]
                    /\ needFreshHello' = IF back[p] = "h_after" THEN FALSE
                                         ELSE needFreshHello
               ELSE UNCHANGED <<session, needFreshHello>>
            /\ Goto(p, "e_signal")
       ELSE /\ Goto(p, "e_end")
            /\ UNCHANGED mgrVars
    /\ UNCHANGED <<transport, work, helloVars, retainVars, rebootstrap, speakVars,
                   sessVars, shutVars, callVars, ensureVars, jobVars>>

\* close(waitCh)
SignalStarted(p) ==
    /\ pc[p] = "e_signal"
    /\ signalled' = [signalled EXCEPT ![at[p]] = TRUE]
    /\ Goto(p, "e_end")
    /\ UNCHANGED <<transport, work, mgrVars, helloVars, retainVars, rebootstrap,
                   speakVars, launched, closing, body, why, shutVars, callVars,
                   ensureVars, jobVars>>

EnsureEnds(p) ==
    /\ pc[p] = "e_end"
    /\ at' = [at EXCEPT ![p] = 0]
    /\ Answer(p, IF got[p] = "session" /\ closing[at[p]] THEN "retry" ELSE got[p])
    /\ UNCHANGED <<transport, work, mgrVars, helloVars, retainVars, rebootstrap,
                   speakVars, sessVars, shutVars, cause, then, back, jobVars>>

ensureSessionInternal(p) ==
    \/ EnsureFound(p) \/ EnsureWaits(p) \/ EnsureWakes(p) \/ EnsureRefused(p)
    \/ EnsureCreates(p) \/ StartSucceeds(p) \/ StartFails(p)
    \/ finishSessionStart(p) \/ SignalStarted(p) \/ EnsureEnds(p)

-----------------------------------------------------------------------------
(***************************************************************************)
(* ChatSession.CloseWithReason and handleSessionClosed                     *)
(***************************************************************************)

\* closeOnce.Do: the first caller's reason counts.
EnterOnce(p) ==
    /\ pc[p] = "c_once"
    /\ IF body[at[p]] = "free"
       THEN /\ body' = [body EXCEPT ![at[p]] = "handler"]
            /\ why' = [why EXCEPT ![at[p]] = cause[p]]
       ELSE UNCHANGED <<body, why>>
    /\ Goto(p, "c_wait")
    /\ UNCHANGED <<transport, work, mgrVars, helloVars, retainVars, rebootstrap,
                   speakVars, launched, closing, signalled, shutVars, callVars,
                   ensureVars, jobVars>>

\* The starter still needs to know its session.
LeaveOnce(p) ==
    /\ pc[p] = "c_wait" /\ body[at[p]] = "done"
    /\ at' = IF then[p] = "e_finish" THEN at ELSE [at EXCEPT ![p] = 0]
    /\ cause' = [cause EXCEPT ![p] = Shutdown]
    /\ then' = [then EXCEPT ![p] = "idle"]
    /\ Goto(p, then[p])
    /\ UNCHANGED <<transport, work, mgrVars, helloVars, retainVars, rebootstrap,
                   speakVars, sessVars, shutVars, ensureVars, jobVars>>

Step(s, from, to) == body[s] = from /\ body' = [body EXCEPT ![s] = to]

\* The session's resources are released; the handler begins.
BodyCancel(s) ==
    /\ Step(s, "handler", "clear")
    /\ cancelRetainedSessionCleanup
    /\ UNCHANGED <<transport, work, mgrVars, helloVars, rebootstrap, speakVars,
                   launched, closing, why, signalled, shutVars, pc, callVars,
                   ensureVars, jobVars>>

\* What handleSessionClosed does after it has unregistered the session.
Afterwards(s) == IF why[s] = Shutdown THEN "done"
                 ELSE IF transport = "websocket" THEN "shut" ELSE "need"

\* Fault: the callback of a session that is no longer registered clears the
\* registered one.
BodyClearAny(s) ==
    /\ IF starting = s
       THEN /\ starting' = 0
            /\ Step(s, "clear", "signal")
            /\ UNCHANGED session
       ELSE /\ session' = 0
            /\ Step(s, "clear", Afterwards(s))
            /\ UNCHANGED starting
    /\ UNCHANGED <<transport, work, needFreshHello, helloVars, retainVars, rebootstrap,
                   speakVars, launched, closing, why, signalled, shutVars, pc,
                   callVars, ensureVars, jobVars>>

\* Fault: the session stays registered.
BodyClearForgets(s) ==
    /\ Step(s, "clear", Afterwards(s))
    /\ UNCHANGED <<transport, work, mgrVars, helloVars, retainVars, rebootstrap,
                   speakVars, launched, closing, why, signalled, shutVars, pc,
                   callVars, ensureVars, jobVars>>

\* Unregister the session; a callback that comes too late does nothing more.
BodyClear(s) ==
    /\ \/ /\ session = s
          /\ session' = 0
          /\ Step(s, "clear", Afterwards(s))
          /\ UNCHANGED starting
       \/ /\ session # s /\ starting = s
          /\ starting' = 0
          /\ Step(s, "clear", "signal")
          /\ UNCHANGED session
       \/ /\ s \notin {session, starting}
          /\ Step(s, "clear", "done")
          /\ UNCHANGED <<session, starting>>
    /\ UNCHANGED <<transport, work, needFreshHello, helloVars, retainVars, rebootstrap,
                   speakVars, launched, closing, why, signalled, shutVars, pc,
                   callVars, ensureVars, jobVars>>

\* A session closed while starting: wake the waiters, nothing else.
BodySignal(s) ==
    /\ Step(s, "signal", "done")
    /\ signalled' = [signalled EXCEPT ![s] = TRUE]
    /\ UNCHANGED <<transport, work, mgrVars, helloVars, retainVars, rebootstrap,
                   speakVars, launched, closing, why, shutVars, pc, callVars,
                   ensureVars, jobVars>>

BodyNeed(s) ==
    /\ Step(s, "need", "speak")
    /\ needFreshHello' = TRUE
    /\ UNCHANGED <<transport, work, session, starting, helloVars, retainVars,
                   rebootstrap, speakVars, launched, closing, why, signalled,
                   shutVars, pc, callVars, ensureVars, jobVars>>

\* resetSpeakPathAfterServerSessionClose, and the goodbye to the device.
BodySpeak(s) ==
    /\ Step(s, "speak", "done")
    /\ finishPendingSpeakRequest(pending, "failed")
    /\ UNCHANGED <<transport, work, mgrVars, helloVars, retainVars, rebootstrap,
                   launched, closing, why, signalled, shutVars, pc, callVars,
                   ensureVars, jobVars>>

\* Over a WebSocket the end of the session is the end of the manager, and the
\* call is made inside the session's closeOnce.
BodyShut(s) ==
    /\ Step(s, "shut", "shutwait")
    /\ BeginShutdown(TRUE)
    /\ UNCHANGED <<transport, work, mgrVars, helloVars, retainVars, rebootstrap,
                   speakVars, launched, closing, why, signalled, managerClosing,
                   snapshot, cancelled, callVars, ensureVars, jobVars>>

BodyShutReturns(s) ==
    /\ Step(s, "shutwait", "done")
    /\ pc["shut"] = "done"
    /\ UNCHANGED <<transport, work, mgrVars, helloVars, retainVars, rebootstrap,
                   speakVars, launched, closing, why, signalled, shutVars, pc,
                   callVars, ensureVars, jobVars>>

handleSessionClosed(s) ==
    \/ BodyCancel(s) \/ BodyClear(s) \/ BodySignal(s) \/ BodyNeed(s)
    \/ BodySpeak(s) \/ BodyShut(s) \/ BodyShutReturns(s)

-----------------------------------------------------------------------------
(***************************************************************************)
(* ChatManager.shutdown, and its callers Close and OnClose                 *)
(***************************************************************************)
ShutCancelsTimer ==
    /\ pc["shut"] = "s_cancel"
    /\ cancelRetainedSessionCleanup
    /\ Goto("shut", "s_snap")
    /\ UNCHANGED <<transport, work, mgrVars, helloVars, rebootstrap, speakVars,
                   sessVars, shutVars, callVars, ensureVars, jobVars>>

ShutLooks ==
    /\ pc["shut"] = "s_snap"
    /\ snapshot' = {session, starting} \ {0}
    /\ Goto("shut", "s_close")
    /\ UNCHANGED <<transport, work, mgrVars, helloVars, retainVars, rebootstrap,
                   speakVars, sessVars, managerClosing, closeTransport, cancelled,
                   callVars, ensureVars, jobVars>>

ShutCloses ==
    /\ pc["shut"] = "s_close"
    /\ \E s \in snapshot :
        /\ CloseWithReason("shut", s, Shutdown, "s_close")
        /\ snapshot' = snapshot \ {s}
    /\ UNCHANGED <<transport, work, mgrVars, helloVars, retainVars, rebootstrap,
                   speakVars, launched, body, why, signalled, managerClosing,
                   closeTransport, cancelled, ensureVars, jobVars>>

\* Fault: nothing tells OnClose that the manager itself closes the transport.
ShutSilently ==
    /\ pc["shut"] = "s_close" /\ snapshot = {}
    /\ Goto("shut", IF closeTransport THEN "s_trans" ELSE "s_ctx")
    /\ UNCHANGED <<transport, work, mgrVars, helloVars, retainVars, rebootstrap,
                   speakVars, sessVars, shutVars, callVars, ensureVars, jobVars>>

ShutFlags ==
    /\ pc["shut"] = "s_close" /\ snapshot = {}
    /\ managerClosing' = closeTransport
    /\ Goto("shut", IF closeTransport THEN "s_trans" ELSE "s_ctx")
    /\ UNCHANGED <<transport, work, mgrVars, helloVars, retainVars, rebootstrap,
                   speakVars, sessVars, closeTransport, snapshot, cancelled, callVars,
                   ensureVars, jobVars>>

\* serverTransport.Close: MqttUdpConn.Close calls OnClose before it returns, in
\* this goroutine; without managerClosing that call would wait for itself.
ShutClosesTransport ==
    /\ pc["shut"] = "s_trans"
    /\ transport = "mqtt" => managerClosing
    /\ Goto("shut", "s_ctx")
    /\ UNCHANGED <<transport, work, mgrVars, helloVars, retainVars, rebootstrap,
                   speakVars, sessVars, shutVars, callVars, ensureVars, jobVars>>

ShutCancelsContext ==
    /\ pc["shut"] = "s_ctx"
    /\ cancelled' = TRUE
    /\ managerClosing' = FALSE
    /\ Goto("shut", "done")
    /\ UNCHANGED <<transport, work, mgrVars, helloVars, retainVars, rebootstrap,
                   speakVars, sessVars, closeTransport, snapshot, callVars,
                   ensureVars, jobVars>>

shutdown ==
    \/ ShutCancelsTimer \/ ShutLooks \/ ShutCloses \/ ShutFlags
    \/ ShutClosesTransport \/ ShutCancelsContext
    \/ EnterOnce("shut") \/ LeaveOnce("shut")

\* A caller of shutdown waits for it at "x_wait".
CallShutdown(p, with) ==
    /\ pc' = [pc EXCEPT ![p] = "x_wait",
                        !["shut"] = IF @ = "idle" THEN "s_cancel" ELSE @]
    /\ closeTransport' = IF pc["shut"] = "idle" THEN with ELSE closeTransport

Close ==
    /\ "close" \in Actors /\ pc["close"] = "idle" /\ Work
    /\ CallShutdown("close", TRUE)
    /\ UNCHANGED <<transport, mgrVars, helloVars, retainVars, rebootstrap, speakVars,
                   sessVars, managerClosing, snapshot, cancelled, callVars,
                   ensureVars, jobVars>>

OnClose ==
    /\ "net" \in Actors /\ pc["net"] = "idle" /\ Work
    /\ IF managerClosing THEN UNCHANGED <<pc, closeTransport>>
       ELSE CallShutdown("net", FALSE)
    /\ UNCHANGED <<transport, mgrVars, helloVars, retainVars, rebootstrap, speakVars,
                   sessVars, managerClosing, snapshot, cancelled, callVars,
                   ensureVars, jobVars>>

ShutdownReturns(p) ==
    /\ pc[p] = "x_wait" /\ pc["shut"] = "done"
    /\ Goto(p, "idle")
    /\ UNCHANGED <<transport, work, mgrVars, helloVars, retainVars, rebootstrap,
                   speakVars, sessVars, shutVars, callVars, ensureVars, jobVars>>

-----------------------------------------------------------------------------
(***************************************************************************)
(* Sessions that end by themselves, and the retained-session timer         *)
(***************************************************************************)
SessionEnds ==
    /\ "talk" \in Actors /\ pc["talk"] = "idle" /\ Work
    /\ \E s \in launched :
        /\ body[s] = "free"
        /\ CloseWithReason("talk", s, Exit, "idle")
    /\ UNCHANGED <<transport, mgrVars, helloVars, retainVars, rebootstrap, speakVars,
                   launched, body, why, signalled, shutVars, ensureVars, jobVars>>

TimerFires ==
    /\ "timer" \in Actors /\ pc["timer"] = "idle"
    /\ \E s \in armed :
        /\ armed' = armed \ {s}
        /\ at' = [at EXCEPT !["timer"] = s]
    /\ Goto("timer", "t_check")
    /\ UNCHANGED <<transport, work, mgrVars, helloVars, target, rebootstrap, speakVars,
                   sessVars, shutVars, cause, then, ensureVars, jobVars>>

TimerChecks ==
    /\ pc["timer"] = "t_check"
    /\ IF target = at["timer"]
       THEN /\ target' = 0
            /\ Goto("timer", "t_close")
            /\ UNCHANGED at
       ELSE /\ at' = [at EXCEPT !["timer"] = 0]
            /\ Goto("timer", "idle")
            /\ UNCHANGED target
    /\ UNCHANGED <<transport, work, mgrVars, helloVars, armed, rebootstrap, speakVars,
                   sessVars, shutVars, cause, then, ensureVars, jobVars>>

TimerCloses ==
    /\ pc["timer"] = "t_close"
    /\ IF session = at["timer"] /\ ~closing[session]
       THEN CloseWithReason("timer", session, Retained, "idle")
       ELSE /\ at' = [at EXCEPT !["timer"] = 0]
            /\ Goto("timer", "idle")
            /\ UNCHANGED <<closing, cause, then>>
    /\ UNCHANGED <<transport, work, mgrVars, helloVars, retainVars, rebootstrap,
                   speakVars, launched, body, why, signalled, shutVars, ensureVars,
                   jobVars>>

runRetainedSessionCleanup == TimerFires \/ TimerChecks \/ TimerCloses

-----------------------------------------------------------------------------
(***************************************************************************)
(* Messages of the device, and MQTT becoming ready                         *)
(***************************************************************************)

\* Every message but goodbye counts as activity; abort, iot and mcp messages
\* do nothing else here.
Receive(m) ==
    /\ pc["cmd"] = "idle" /\ ~cancelled /\ Work
    /\ IF m = "goodbye" THEN UNCHANGED retainVars ELSE cancelRetainedSessionCleanup
    /\ Goto("cmd", CASE m = "hello" -> "h_lock"
                     [] m = "listen" -> "l_gate"
                     [] m = "goodbye" -> "r_look"
                     [] m = "speak_ready" -> "k_settle"
                     [] m = "other" -> "idle")
    /\ UNCHANGED <<transport, mgrVars, helloVars, rebootstrap, speakVars, sessVars,
                   shutVars, callVars, ensureVars, jobVars>>

HelloLock ==
    /\ pc["cmd"] = "h_lock" /\ helloMu = "free"
    /\ helloMu' = "cmd"
    /\ fresh' = (~helloInited \/ needFreshHello)
    /\ Goto("cmd", "h_init")
    /\ UNCHANGED <<transport, work, mgrVars, helloInited, retainVars, rebootstrap,
                   speakVars, sessVars, shutVars, callVars, ensureVars, req, boot>>

\* A hello without audio parameters or for another transport.
HelloRejected ==
    /\ pc["cmd"] = "h_lock"
    /\ Goto("cmd", "idle")
    /\ UNCHANGED <<transport, work, mgrVars, helloVars, retainVars, rebootstrap,
                   speakVars, sessVars, shutVars, callVars, ensureVars, jobVars>>

\* auth.EnsureSession may fail.
HelloInit ==
    /\ pc["cmd"] = "h_init"
    /\ \/ /\ helloInited' = (helloInited \/ fresh)
          /\ Goto("cmd", "h_send")
          /\ UNCHANGED helloMu
       \/ /\ fresh
          /\ helloMu' = "free"
          /\ Goto("cmd", "idle")
          /\ UNCHANGED helloInited
    /\ UNCHANGED <<transport, work, mgrVars, retainVars, rebootstrap, speakVars,
                   sessVars, shutVars, callVars, ensureVars, jobVars>>

\* A hello that fails leaves the manager waiting for another one.
HelloFails ==
    /\ \/ pc["cmd"] = "h_send"
       \/ pc["cmd"] = "h_after" /\ got["cmd"] # "session"
    /\ needFreshHello' = (needFreshHello \/ fresh)
    /\ helloMu' = "free"
    /\ Finish("cmd")
    /\ UNCHANGED <<transport, work, session, starting, helloInited, retainVars,
                   rebootstrap, speakVars, sessVars, shutVars, callVars,
                   jobVars>>

HelloAnswers ==
    /\ pc["cmd"] = "h_send"
    /\ Ensure("cmd", "h_after")
    /\ UNCHANGED <<transport, work, mgrVars, helloVars, retainVars, rebootstrap,
                   speakVars, sessVars, shutVars, callVars, jobVars>>

HelloEnds ==
    /\ pc["cmd"] = "h_after" /\ got["cmd"] = "session"
    /\ helloMu' = "free"
    /\ Finish("cmd")
    /\ UNCHANGED <<transport, work, mgrVars, helloInited, retainVars, rebootstrap,
                   speakVars, sessVars, shutVars, callVars, jobVars>>

HandleHelloMessage ==
    \/ HelloRejected \/ HelloLock \/ HelloInit \/ HelloFails \/ HelloAnswers
    \/ HelloEnds

\* Without a session, and with a hello missing, listen is ignored.
ListenGate ==
    /\ pc["cmd"] = "l_gate"
    /\ IF requiresHelloBootstrapForSession
       THEN Goto("cmd", "idle") /\ UNCHANGED ensureVars
       ELSE Ensure("cmd", "l_after")
    /\ UNCHANGED <<transport, work, mgrVars, helloVars, retainVars, rebootstrap,
                   speakVars, sessVars, shutVars, callVars, jobVars>>

ListenEnds ==
    /\ pc["cmd"] = "l_after"
    /\ rebootstrap' = (rebootstrap /\ got["cmd"] # "session")
    /\ Finish("cmd")
    /\ UNCHANGED <<transport, work, mgrVars, helloVars, retainVars, speakVars,
                   sessVars, shutVars, callVars, jobVars>>

\* Goodbye and a rebuilt MQTT link retain the session: look it up ...
RetainLook(p) ==
    /\ pc[p] = "r_look"
    /\ IF session # 0 /\ (p = "ready" => ~closing[session])
       THEN /\ at' = [at EXCEPT ![p] = session]
            /\ Goto(p, "r_schedule")
       ELSE /\ Goto(p, "r_speak")
            /\ UNCHANGED at
    /\ UNCHANGED <<transport, work, mgrVars, helloVars, retainVars, rebootstrap,
                   speakVars, sessVars, shutVars, cause, then, ensureVars, jobVars>>

\* ... stop the timer that is running, unless the session is closing ...
scheduleRetainedSessionCleanup(p) ==
    /\ pc[p] = "r_schedule"
    /\ IF closing[at[p]]
       THEN /\ at' = [at EXCEPT ![p] = 0]
            /\ Goto(p, "r_speak")
            /\ UNCHANGED retainVars
       ELSE /\ cancelRetainedSessionCleanup
            /\ Goto(p, "r_arm")
            /\ UNCHANGED at
    /\ UNCHANGED <<transport, work, mgrVars, helloVars, rebootstrap, speakVars,
                   sessVars, shutVars, cause, then, ensureVars, jobVars>>

\* ... start one for this session, in a critical section of its own: a timer
\* another goroutine has started in between is forgotten, not stopped ...
ArmTimer(p) ==
    /\ pc[p] = "r_arm"
    /\ target' = at[p]
    /\ armed' = armed \cup {at[p]}
    /\ at' = [at EXCEPT ![p] = 0]
    /\ Goto(p, "r_speak")
    /\ UNCHANGED <<transport, work, mgrVars, helloVars, rebootstrap, speakVars,
                   sessVars, shutVars, cause, then, ensureVars, jobVars>>

\* ... and give up the speech that is being prepared.
ResetSpeakPath(p) ==
    /\ pc[p] = "r_speak"
    /\ finishPendingSpeakRequest(pending, "failed")
    /\ Goto(p, IF p = "ready" THEN "y_lock" ELSE "idle")
    /\ UNCHANGED <<transport, work, mgrVars, helloVars, retainVars, rebootstrap,
                   sessVars, shutVars, callVars, ensureVars, jobVars>>

Retain(p) ==
    RetainLook(p) \/ scheduleRetainedSessionCleanup(p) \/ ArmTimer(p) \/ ResetSpeakPath(p)

\* A speak_ready for another session id, or nobody waiting, is ignored.
HandleSpeakReadyMessage ==
    /\ pc["cmd"] = "k_settle"
    /\ \/ UNCHANGED <<rebootstrap, speakVars>>
       \/ /\ transport = "mqtt" /\ pending # 0
          /\ rebootstrap' = FALSE
          /\ finishPendingSpeakRequest(pending, "ok")
    /\ Goto("cmd", "idle")
    /\ UNCHANGED <<transport, work, mgrVars, helloVars, retainVars, sessVars,
                   shutVars, callVars, ensureVars, jobVars>>

markMqttConversationStateStale ==
    /\ "ready" \in Actors /\ pc["ready"] = "idle" /\ transport = "mqtt" /\ Work
    /\ rebootstrap' = (rebootstrap \/ ~managerClosing)
    /\ Goto("ready", IF managerClosing \/ rebootstrap THEN "y_lock" ELSE "r_look")
    /\ UNCHANGED <<transport, mgrVars, helloVars, retainVars, speakVars, sessVars,
                   shutVars, callVars, ensureVars, jobVars>>

resetMcpRuntimeOnMqttTransportReady ==
    /\ pc["ready"] = "y_lock" /\ helloMu = "free"
    /\ helloInited' = FALSE
    /\ needFreshHello' = FALSE
    /\ Goto("ready", "idle")
    /\ UNCHANGED <<transport, work, session, starting, helloMu, retainVars,
                   rebootstrap, speakVars, sessVars, shutVars, callVars, ensureVars,
                   jobVars>>

-----------------------------------------------------------------------------
(***************************************************************************)
(* InjectMessage: speech nobody asked for                                  *)
(***************************************************************************)
InjectMessage(p) ==
    /\ pc[p] = "idle" /\ Work
    /\ cancelRetainedSessionCleanup
    /\ IF transport = "mqtt" THEN Goto(p, "i_path") /\ UNCHANGED ensureVars
       ELSE Ensure(p, "i_use")
    /\ UNCHANGED <<transport, mgrVars, helloVars, rebootstrap, speakVars, sessVars,
                   shutVars, callVars, jobVars>>

\* OpenClaw answers and stories do not prepare the speak path.
InjectOpenClawResponse(p) ==
    /\ pc[p] = "idle" /\ Work
    /\ cancelRetainedSessionCleanup
    /\ Ensure(p, "i_use")
    /\ UNCHANGED <<transport, mgrVars, helloVars, rebootstrap, speakVars, sessVars,
                   shutVars, callVars, jobVars>>

\* shouldSendSpeakRequest: always when a hello is missing or the link was
\* rebuilt; otherwise it depends on the conversation and on when audio last
\* flowed, which is left open.
InjectAsks(p) ==
    /\ pc[p] = "i_path" /\ SpeakRequest
    /\ Goto(p, "i_ask")
    /\ UNCHANGED <<transport, work, mgrVars, helloVars, retainVars, rebootstrap,
                   speakVars, sessVars, shutVars, callVars, ensureVars, jobVars>>

InjectReuses(p) ==
    /\ pc[p] = "i_path" /\ SpeakRequest
    /\ ~requiresHelloBootstrapForSession /\ ~rebootstrap
    /\ Ensure(p, "i_use")
    /\ UNCHANGED <<transport, work, mgrVars, helloVars, retainVars, rebootstrap,
                   speakVars, sessVars, shutVars, callVars, jobVars>>

\* With speak requests off, only a session and a UDP binding are needed.
InjectPlain(p) ==
    /\ pc[p] = "i_path" /\ ~SpeakRequest
    /\ IF session = 0 THEN Ensure(p, "i_retry")
       ELSE Goto(p, "i_udp") /\ UNCHANGED ensureVars
    /\ UNCHANGED <<transport, work, mgrVars, helloVars, retainVars, rebootstrap,
                   speakVars, sessVars, shutVars, callVars, jobVars>>

InjectNeedsUdp(p) ==
    /\ pc[p] = "i_udp"
    /\ \/ Ensure(p, "i_use")
       \/ Goto(p, "idle") /\ UNCHANGED ensureVars
    /\ UNCHANGED <<transport, work, mgrVars, helloVars, retainVars, rebootstrap,
                   speakVars, sessVars, shutVars, callVars, jobVars>>

\* Join the pending request, or make one and start its timer.
getOrCreatePendingSpeakRequest(p) ==
    /\ pc[p] = "i_ask"
    /\ boot' = [boot EXCEPT ![p] = requiresHelloBootstrapForSession]
    /\ IF pending # 0
       THEN /\ req' = [req EXCEPT ![p] = pending]
            /\ Goto(p, "i_answer")
            /\ UNCHANGED speakVars
       ELSE /\ \E r \in UnusedRequests :
                /\ pending' = r
                /\ settled' = [settled EXCEPT ![r] = "open"]
                /\ req' = [req EXCEPT ![p] = r]
            /\ Goto(p, "i_send")
    /\ UNCHANGED <<transport, work, mgrVars, helloVars, retainVars, rebootstrap,
                   sessVars, shutVars, callVars, ensureVars, fresh>>

InjectSends(p) ==
    /\ pc[p] = "i_send"
    /\ \/ /\ Goto(p, "i_answer")
          /\ UNCHANGED <<speakVars, req>>
       \/ /\ finishPendingSpeakRequest(req[p], "failed")
          /\ req' = [req EXCEPT ![p] = 0]
          /\ Goto(p, "idle")
    /\ UNCHANGED <<transport, work, mgrVars, helloVars, retainVars, rebootstrap,
                   sessVars, shutVars, callVars, ensureVars, fresh, boot>>

\* The request's own timer.
SpeakTimeout(r) ==
    /\ settled[r] = "open"
    /\ finishPendingSpeakRequest(r, "failed")
    /\ UNCHANGED <<transport, work, mgrVars, helloVars, retainVars, rebootstrap,
                   sessVars, shutVars, pc, callVars, ensureVars, jobVars>>

waitPendingSpeakRequest(p) ==
    /\ pc[p] = "i_answer"
    /\ \/ /\ settled[req[p]] = "ok"
          /\ Ensure(p, IF boot[p] THEN "i_retry" ELSE "i_use")
       \/ /\ settled[req[p]] = "failed" \/ cancelled
          /\ Goto(p, "idle") /\ UNCHANGED ensureVars
    /\ req' = [req EXCEPT ![p] = 0]
    /\ boot' = [boot EXCEPT ![p] = FALSE]
    /\ UNCHANGED <<transport, work, mgrVars, helloVars, retainVars, rebootstrap,
                   speakVars, sessVars, shutVars, callVars, fresh>>

\* waitForInjectedSpeechSession polls until there is a session ...
InjectPolls(p) ==
    /\ pc[p] = "i_retry"
    /\ \/ got[p] = "session" /\ SpeakRequest /\ Ensure(p, "i_use")
       \/ got[p] = "session" /\ ~SpeakRequest /\ Goto(p, "i_udp") /\ UNCHANGED ensureVars
       \/ got[p] = "retry" /\ Ensure(p, "i_retry")
       \/ got[p] = "fail" /\ Finish(p)
    /\ UNCHANGED <<transport, work, mgrVars, helloVars, retainVars, rebootstrap,
                   speakVars, sessVars, shutVars, callVars, jobVars>>

\* ... or its deadline or the end of the manager.
InjectGivesUp(p) ==
    /\ pc[p] = "i_retry" /\ got[p] = "retry"
    /\ Finish(p)
    /\ UNCHANGED <<transport, work, mgrVars, helloVars, retainVars, rebootstrap,
                   speakVars, sessVars, shutVars, callVars, jobVars>>

\* The text goes to the session's queue, or the error to the caller.
InjectEnds(p) ==
    /\ pc[p] = "i_use"
    /\ Finish(p)
    /\ UNCHANGED <<transport, work, mgrVars, helloVars, retainVars, rebootstrap,
                   speakVars, sessVars, shutVars, callVars, jobVars>>

InjectStep(p) ==
    \/ InjectAsks(p) \/ InjectReuses(p) \/ InjectPlain(p) \/ InjectNeedsUdp(p)
    \/ getOrCreatePendingSpeakRequest(p) \/ InjectSends(p)
    \/ waitPendingSpeakRequest(p) \/ InjectPolls(p) \/ InjectGivesUp(p)
    \/ InjectEnds(p)

-----------------------------------------------------------------------------
CmdStep ==
    \/ HandleHelloMessage \/ ListenGate \/ ListenEnds \/ Retain("cmd")
    \/ HandleSpeakReadyMessage \/ ensureSessionInternal("cmd")
    \/ EnterOnce("cmd") \/ LeaveOnce("cmd")

ReadyStep == "ready" \in Actors
    /\ (Retain("ready") \/ resetMcpRuntimeOnMqttTransportReady)

\* Steps of goroutines that are under way.
InjectorStep(p) ==
    InjectStep(p) \/ ensureSessionInternal(p) \/ EnterOnce(p) \/ LeaveOnce(p)

CallerStep(p) == EnterOnce(p) \/ LeaveOnce(p) \/ ShutdownReturns(p)

\* What arrives from outside.
Arrival ==
    \/ \E m \in Messages : Receive(m)
    \/ \E p \in Injectors : InjectMessage(p) \/ InjectOpenClawResponse(p)
    \/ markMqttConversationStateStale
    \/ SessionEnds \/ Close \/ OnClose

Next ==
    \/ Arrival
    \/ CmdStep \/ ReadyStep \/ shutdown
    \/ \E p \in Injectors : InjectorStep(p)
    \/ \E p \in Actors \ {"ready"} : CallerStep(p)
    \/ "timer" \in Actors /\ runRetainedSessionCleanup
    \/ \E s \in Sessions : handleSessionClosed(s)
    \/ \E r \in Requests : SpeakTimeout(r)

Spec == Init /\ [][Next]_vars

\* The scheduler runs every goroutine that can run and every timer that is due;
\* session.Start returns; an injector's deadline is eventually noticed.  Nothing
\* is assumed of the device, the network or the callers.
Fairness ==
    /\ WF_vars(CmdStep) /\ WF_vars(ReadyStep) /\ WF_vars(shutdown)
    /\ \A p \in Injectors : WF_vars(InjectorStep(p)) /\ SF_vars(InjectGivesUp(p))
    /\ \A p \in Actors \ {"ready"} : WF_vars(CallerStep(p))
    /\ WF_vars("timer" \in Actors /\ runRetainedSessionCleanup)
    /\ \A s \in Sessions : WF_vars(handleSessionClosed(s))
    /\ \A r \in Requests : WF_vars(SpeakTimeout(r))

FairSpec == Spec /\ Fairness

-----------------------------------------------------------------------------
Labels ==
    {"idle", "done", "e_look", "e_wait", "e_start", "e_finish", "e_signal", "e_end",
     "c_once", "c_wait", "x_wait", "s_cancel", "s_snap", "s_close", "s_trans", "s_ctx",
     "t_check", "t_close", "h_lock", "h_init", "h_send", "h_after", "l_gate", "l_after",
     "r_look", "r_schedule", "r_arm", "r_speak", "k_settle", "y_lock", "i_path", "i_ask",
     "i_send", "i_answer", "i_retry", "i_udp", "i_use"}
Bodies == {"free", "handler", "clear", "signal", "need", "speak", "shut", "shutwait",
           "done"}

MgrType ==
    /\ session \in Sessions \cup {0} /\ starting \in Sessions \cup {0}
    /\ needFreshHello \in BOOLEAN
    /\ helloInited \in BOOLEAN /\ helloMu \in {"free", "cmd"}

RetainType == target \in Sessions \cup {0} /\ armed \subseteq Sessions

SpeakType ==
    /\ rebootstrap \in BOOLEAN /\ pending \in Requests \cup {0}
    /\ settled \in [Requests -> {"none", "open", "ok", "failed"}]

SessType ==
    /\ launched \subseteq Sessions
    /\ closing \in [Sessions -> BOOLEAN] /\ body \in [Sessions -> Bodies]
    /\ why \in [Sessions -> Reasons] /\ signalled \in [Sessions -> BOOLEAN]

ShutType ==
    /\ managerClosing \in BOOLEAN /\ closeTransport \in BOOLEAN
    /\ snapshot \subseteq Sessions /\ cancelled \in BOOLEAN

CallType ==
    /\ pc \in [Procs -> Labels]
    /\ at \in [Procs -> Sessions \cup {0}] /\ cause \in [Procs -> Reasons]
    /\ then \in [Procs -> {"idle", "e_finish", "s_close"}]
    /\ back \in [Procs -> {"idle", "h_after", "l_after", "i_retry", "i_use"}]
    /\ got \in [Procs -> {"none", "session", "retry", "fail"}]

JobType ==
    /\ req \in [Procs -> Requests \cup {0}] /\ fresh \in BOOLEAN
    /\ boot \in [Procs -> BOOLEAN]

\* Every variable has its type; a registered session is one whose closing has
\* not ended, and a pending request one that is still open.
TypeOK ==
    /\ transport \in Transports /\ work \in 0 .. MaxWork
    /\ MgrType /\ RetainType /\ SpeakType /\ SessType /\ ShutType
    /\ CallType /\ JobType
    /\ \A s \in {session, starting} \ {0} : body[s] # "done"
    /\ pending # 0 => settled[pending] = "open"

\* Whoever races whom, a session that is not being closed is the manager's
\* session or the one it is starting, and never are there both: no session is
\* left running that nobody could close, and no device talks to two.  A session
\* made after shutdown has looked for one stays registered, and counts as held.
LiveSessionHeld ==
    /\ \A s \in Sessions : ~closing[s] => s \in {session, starting}
    /\ session = 0 \/ starting = 0

\* Who is between session.Start and finishSessionStart of s.
Starters(s) ==
    {p \in Procs : /\ at[p] = s
                   /\ \/ pc[p] \in {"e_start", "e_finish"}
                      \/ pc[p] \in {"c_once", "c_wait"} /\ then[p] = "e_finish"}

\* Who is about to close the startingSessionDone channel of s.
Signallers(s) ==
    {p \in Procs : pc[p] = "e_signal" /\ at[p] = s}
        \cup (IF body[s] = "signal" THEN {"body"} ELSE {})

\* The channel is closed at most once: closing it again would panic.
ChannelClosedOnce ==
    \A s \in Sessions :
        Signallers(s) # {} => ~signalled[s] /\ Cardinality(Signallers(s)) = 1

\* Who waits for a session to start will be woken: the channel is closed, or
\* somebody is about to close it, or the session is still registered as
\* starting and its starter is at work on it.
WaiterWillWake ==
    \A p \in Procs : pc[p] = "e_wait" =>
        \/ signalled[at[p]]
        \/ Signallers(at[p]) # {}
        \/ starting = at[p] /\ Starters(at[p]) # {}

\* Every call returns: messages are handled, speech is delivered or refused,
\* sessions and the manager finish closing.
CallsReturn ==
    \A p \in Procs \ {"shut"} : pc[p] # "idle" ~> pc[p] = "idle"

\* A WebSocket whose session has ended is closed: from handleSessionClosed's
\* call of shutdown, serverTransport.Close is reached in the end.  Not so: run
\* chat_ws.
ExitClosesWebSocket ==
    \A s \in Sessions : body[s] = "shut" ~> pc["shut"] \in {"s_ctx", "done"}

\* When the server has ended a session, no new one is made until the device
\* says hello: not by listen or speech that arrives while the session is being
\* closed, either.  Not so: see chat_exit.cfg.
ExitNeedsHello ==
    [][\A p \in Procs :
        EnsureCreates(p) /\ back[p] # "h_after" =>
            ~\E s \in Sessions : body[s] \in {"need", "speak"}]_vars
=============================================================================
