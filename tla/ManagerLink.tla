---------------------------- MODULE ManagerLink ----------------------------
(***************************************************************************)
(* The WebSocket link between the server and the management backend:       *)
(* WebSocketClient of internal/domain/config/manager/websocket_client.go   *)
(* and its counterpart in manager/backend/controllers/websocket.go.        *)
(*                                                                         *)
(* The client's goroutines share one field for the connection.  A reader   *)
(* and a heartbeat are started with every connection and stay on when it   *)
(* is replaced; a reconnect loop runs while isRetrying; requests dial for  *)
(* themselves.  Dialling and dropping the connection are critical sections *)
(* of connectMu, all else reads the fields as it finds them, and a panic   *)
(* ends the program.  On the other side one handler per connection         *)
(* registers it under the client's UUID, of which there is one here.       *)
(*                                                                         *)
(* The queue with its workers is left out: nothing in the program uses it. *)
(***************************************************************************)
EXTENDS Integers

CONSTANTS
    Requests,   \* calls of SendRequest
    MaxConns,   \* bound on the connections dialled
    MaxCuts,    \* bound on the connections the network breaks
    MayClose    \* whether the configuration provider may be closed

ASSUME LinkAssumption ==
    /\ MaxConns \in Nat \ {0}
    /\ MaxCuts \in Nat
    /\ MayClose \in BOOLEAN
    /\ {"none", "init", "loop"} \intersect Requests = {}

VARIABLES
    isConnected,
    conn,          \* the connection, 0 for nil
    dials,         \* connections dialled so far
    dialler,       \* who dialled the one in use: "loop", "init" or a request
    up,            \* connections neither broken nor closed
    cuts,          \* how many the network has broken
    crashed,       \* a goroutine has panicked
    reader,        \* reader of each connection: where it is ...
    on,            \* ... which connection it reads, 0 for none ...
    resp,          \* ... and the response it is handing over
    heart,         \* heartbeat of each connection
    isRetrying,
    loop,          \* the reconnect loop
    isShuttingDown,
    stopped,       \* retryStopChan is closed
    closer,        \* manager.Close
    rq,            \* requests: where each is ...
    chan,          \* ... and the state of its response channel
    responseChans, \* requests registered for a response
    sent,          \* connection a request was written to
    mail,          \* a request's message, or its response, on its way
    handler,       \* the backend's handler of each connection
    active,        \* backend: isConnected of each connection's client
    clientsMap     \* backend: the registered connection, 0 for none

connVars == <<isConnected, conn, dials, dialler, cuts>>
retryVars == <<isRetrying, loop>>
closeVars == <<isShuttingDown, stopped, closer>>
requestVars == <<rq, sent, mail>>
chanVars == <<chan, responseChans>>
readerVars == <<reader, on, resp>>
backendVars == <<handler, active, clientsMap>>
vars == <<connVars, up, crashed, readerVars, heart, retryVars, closeVars,
          requestVars, chanVars, backendVars>>

Conns == 1 .. MaxConns

Init ==
    /\ isConnected = FALSE /\ conn = 0 /\ dials = 0
    /\ dialler = "none"
    /\ up = {} /\ cuts = 0 /\ crashed = FALSE
    /\ reader = [c \in Conns |-> "none"] /\ on = [c \in Conns |-> 0]
    /\ resp = [c \in Conns |-> "none"]
    /\ heart = [c \in Conns |-> "none"]
    /\ isRetrying = FALSE /\ loop = "init"
    /\ isShuttingDown = FALSE /\ stopped = FALSE /\ closer = "open"
    /\ rq = [r \in Requests |-> "new"] /\ chan = [r \in Requests |-> "none"]
    /\ responseChans = {} /\ sent = [r \in Requests |-> 0]
    /\ mail = [r \in Requests |-> "none"]
    /\ handler = [c \in Conns |-> "none"] /\ active = {} /\ clientsMap = 0

-----------------------------------------------------------------------------
(***************************************************************************)
(* Connect and disconnect.                                                 *)
(***************************************************************************)
\* Fault: a reader is started only when none is left.
ConnectReusesReader(p) ==
    IF isConnected
      THEN UNCHANGED <<connVars, up, reader, on, heart, handler>>
      ELSE /\ dials < MaxConns
           /\ dials' = dials + 1
           /\ conn' = dials + 1
           /\ isConnected' = TRUE
           /\ dialler' = p
           /\ up' = up \union {dials + 1}
           /\ reader' = IF \A c \in Conns : reader[c] \in {"none", "over"}
                          THEN [reader EXCEPT ![dials + 1] = "check"]
                          ELSE reader
           /\ heart' = [heart EXCEPT ![dials + 1] = "wait"]
           /\ handler' = [handler EXCEPT ![dials + 1] = "upgraded"]
           /\ UNCHANGED <<cuts, on>>

\* Connect by p: nothing to do when connected; otherwise a new connection,
\* a reader and a heartbeat for it.  The backend's handler has upgraded the
\* connection and not yet registered it.
Connect(p) ==
    IF isConnected
      THEN UNCHANGED <<connVars, up, reader, on, heart, handler>>
      ELSE /\ dials < MaxConns
           /\ dials' = dials + 1
           /\ conn' = dials + 1
           /\ isConnected' = TRUE
           /\ dialler' = p
           /\ up' = up \union {dials + 1}
           /\ reader' = [reader EXCEPT ![dials + 1] = "check"]
           /\ heart' = [heart EXCEPT ![dials + 1] = "wait"]
           /\ handler' = [handler EXCEPT ![dials + 1] = "upgraded"]
           /\ UNCHANGED <<cuts, on>>

\* Fault: the response channels stay registered.
DisconnectKeepsChannels ==
    IF ~isConnected
      THEN UNCHANGED <<isConnected, conn, dialler, up, chanVars>>
      ELSE /\ up' = up \ {conn}
           /\ conn' = 0
           /\ dialler' = "none"
           /\ isConnected' = FALSE
           /\ chan' = [r \in Requests |->
                         IF r \in responseChans THEN "closed" ELSE chan[r]]
           /\ UNCHANGED responseChans

\* Fault: the connection is closed and stays "connected".
DisconnectKeepsFlag ==
    IF ~isConnected
      THEN UNCHANGED <<isConnected, conn, dialler, up, chanVars>>
      ELSE /\ up' = up \ {conn}
           /\ conn' = 0
           /\ dialler' = "none"
           /\ chan' = [r \in Requests |->
                         IF r \in responseChans THEN "closed" ELSE chan[r]]
           /\ responseChans' = {}
           /\ UNCHANGED isConnected

\* disconnect: the connection and every registered response channel are
\* closed.
Disconnect ==
    IF ~isConnected
      THEN UNCHANGED <<isConnected, conn, dialler, up, chanVars>>
      ELSE /\ up' = up \ {conn}
           /\ conn' = 0
           /\ dialler' = "none"
           /\ isConnected' = FALSE
           /\ chan' = [r \in Requests |->
                         IF r \in responseChans THEN "closed" ELSE chan[r]]
           /\ responseChans' = {}

\* triggerReconnect, by the goroutine that has just dropped the connection.
TriggerReconnect ==
    IF isShuttingDown \/ isRetrying
      THEN UNCHANGED retryVars
      ELSE isRetrying' = TRUE /\ loop' = "check"

Panic ==
    /\ crashed' = TRUE
    /\ UNCHANGED <<connVars, up, readerVars, heart, retryVars, closeVars,
                   requestVars, chanVars, backendVars>>

-----------------------------------------------------------------------------
(***************************************************************************)
(* handleMessages.  isConnected and conn are read one after the other and  *)
(* without a lock, and are whatever the connection is by now.              *)
(***************************************************************************)
ReaderChecks(c) ==
    /\ reader[c] = "check"
    /\ reader' = [reader EXCEPT ![c] = IF isConnected THEN "load" ELSE "over"]
    /\ UNCHANGED <<connVars, up, crashed, on, resp, heart, retryVars, closeVars,
                   requestVars, chanVars, backendVars>>

ReaderLoads(c) ==
    /\ reader[c] = "load"
    /\ \/ conn = 0 /\ Panic
       \/ /\ conn # 0
          /\ reader' = [reader EXCEPT ![c] = "read"]
          /\ on' = [on EXCEPT ![c] = conn]
          /\ UNCHANGED <<connVars, up, crashed, resp, heart, retryVars,
                         closeVars, requestVars, chanVars, backendVars>>

\* handleIncomingResponse looks the channel up under the lock; a response
\* nobody waits for is dropped ...
ReaderFinds(c, r) ==
    /\ reader[c] = "read" /\ on[c] \in up
    /\ mail[r] = "response" /\ sent[r] = on[c]
    /\ mail' = [mail EXCEPT ![r] = "none"]
    /\ sent' = [sent EXCEPT ![r] = 0]
    /\ on' = [on EXCEPT ![c] = 0]
    /\ IF r \in responseChans
         THEN /\ reader' = [reader EXCEPT ![c] = "hand"]
              /\ resp' = [resp EXCEPT ![c] = r]
         ELSE /\ reader' = [reader EXCEPT ![c] = "check"]
              /\ UNCHANGED resp
    /\ UNCHANGED <<connVars, up, crashed, heart, retryVars, closeVars, rq,
                   chanVars, backendVars>>

\* ... and sends without it.
ReaderHands(c) ==
    /\ reader[c] = "hand"
    /\ \/ chan[resp[c]] = "closed" /\ Panic
       \/ /\ chan[resp[c]] # "closed"
          /\ chan' = [chan EXCEPT ![resp[c]] = "full"]
          /\ reader' = [reader EXCEPT ![c] = "check"]
          /\ resp' = [resp EXCEPT ![c] = "none"]
          /\ UNCHANGED <<connVars, up, crashed, on, heart, retryVars, closeVars,
                         requestVars, responseChans, backendVars>>

\* A pushed configuration is passed on; a request of the backend is handled in
\* the loop, which may take minutes.  Its effects are elsewhere.
ReaderHandles(c) ==
    /\ reader[c] = "read" /\ on[c] \in up /\ clientsMap = on[c]
    /\ \E at \in {"check", "handle"} : reader' = [reader EXCEPT ![c] = at]
    /\ on' = [on EXCEPT ![c] = 0]
    /\ UNCHANGED <<connVars, up, crashed, resp, heart, retryVars, closeVars,
                   requestVars, chanVars, backendVars>>

\* SendResponse asks isConnected and then writes to what conn is by now.
ReaderResponds(c) ==
    /\ reader[c] = "handle"
    /\ reader' = [reader EXCEPT ![c] = IF isConnected THEN "answer" ELSE "check"]
    /\ UNCHANGED <<connVars, up, crashed, on, resp, heart, retryVars, closeVars,
                   requestVars, chanVars, backendVars>>

ReaderWrites(c) ==
    /\ reader[c] = "answer"
    /\ \/ conn = 0 /\ Panic
       \/ /\ conn # 0
          /\ reader' = [reader EXCEPT ![c] = "check"]
          /\ UNCHANGED <<connVars, up, crashed, on, resp, heart, retryVars,
                         closeVars, requestVars, chanVars, backendVars>>

\* The read fails: the connection, whichever it is by now, is dropped ...
ReaderFails(c) ==
    /\ reader[c] = "read" /\ on[c] \notin up
    /\ reader' = [reader EXCEPT ![c] = "trigger"]
    /\ on' = [on EXCEPT ![c] = 0]
    /\ Disconnect
    /\ UNCHANGED <<dials, cuts, crashed, resp, heart, retryVars,
                   closeVars, requestVars, backendVars>>

\* ... and a reconnect triggered.
ReaderTriggers(c) ==
    /\ reader[c] = "trigger"
    /\ reader' = [reader EXCEPT ![c] = "over"]
    /\ TriggerReconnect
    /\ UNCHANGED <<connVars, up, crashed, on, resp, heart, closeVars,
                   requestVars, chanVars, backendVars>>

Reader(c) ==
    \/ ReaderChecks(c) \/ ReaderLoads(c) \/ ReaderHands(c)
    \/ ReaderResponds(c) \/ ReaderWrites(c)
    \/ \E r \in Requests : ReaderFinds(c, r)
    \/ ReaderFails(c) \/ ReaderTriggers(c)

-----------------------------------------------------------------------------
(***************************************************************************)
(* startHeartbeat                                                          *)
(***************************************************************************)
HeartTicks(c) ==
    /\ heart[c] = "wait"
    /\ heart' = [heart EXCEPT ![c] = IF isConnected THEN "ping" ELSE "over"]
    /\ UNCHANGED <<connVars, up, crashed, readerVars, retryVars, closeVars,
                   requestVars, chanVars, backendVars>>

HeartStops(c) ==
    /\ heart[c] = "wait" /\ stopped
    /\ heart' = [heart EXCEPT ![c] = "over"]
    /\ UNCHANGED <<connVars, up, crashed, readerVars, retryVars, closeVars,
                   requestVars, chanVars, backendVars>>

HeartPings(c) ==
    /\ heart[c] = "ping"
    /\ \/ conn = 0 /\ Panic
       \/ /\ conn # 0
          /\ heart' = [heart EXCEPT ![c] = IF conn \in up THEN "wait" ELSE "drop"]
          /\ UNCHANGED <<connVars, up, crashed, readerVars, retryVars,
                         closeVars, requestVars, chanVars, backendVars>>

HeartDrops(c) ==
    /\ heart[c] = "drop"
    /\ heart' = [heart EXCEPT ![c] = "trigger"]
    /\ Disconnect
    /\ UNCHANGED <<dials, cuts, crashed, readerVars, retryVars,
                   closeVars, requestVars, backendVars>>

HeartTriggers(c) ==
    /\ heart[c] = "trigger"
    /\ heart' = [heart EXCEPT ![c] = "over"]
    /\ TriggerReconnect
    /\ UNCHANGED <<connVars, up, crashed, readerVars, closeVars, requestVars,
                   chanVars, backendVars>>

Heart(c) ==
    \/ HeartTicks(c) \/ HeartStops(c) \/ HeartPings(c) \/ HeartDrops(c)
    \/ HeartTriggers(c)

-----------------------------------------------------------------------------
(***************************************************************************)
(* Init, startReconnectLoop and Close.                                     *)
(***************************************************************************)
InitConnects ==
    /\ loop = "init"
    /\ \/ Connect("init") /\ loop' = "off" /\ isRetrying' = FALSE
       \/ /\ loop' = "check" /\ isRetrying' = TRUE
          /\ UNCHANGED <<connVars, up, reader, on, heart, handler>>
    /\ UNCHANGED <<crashed, resp, closeVars, requestVars, chanVars, active,
                   clientsMap>>

\* The conditions on which the loop gives up, then the delay.
LoopChecks ==
    /\ loop = "check"
    /\ loop' = IF stopped \/ isShuttingDown \/ isConnected THEN "leave" ELSE "dial"
    /\ UNCHANGED <<connVars, up, crashed, readerVars, heart, isRetrying,
                   closeVars, requestVars, chanVars, backendVars>>

LoopConnects ==
    /\ loop = "dial"
    /\ Connect("loop")
    /\ loop' = "leave"
    /\ UNCHANGED <<crashed, resp, isRetrying, closeVars, requestVars, chanVars,
                   active, clientsMap>>

\* The dial fails; or, in the delay, the stop signal comes.
LoopRetries ==
    /\ loop = "dial"
    /\ loop' = IF stopped THEN "leave" ELSE "check"
    /\ UNCHANGED <<connVars, up, crashed, readerVars, heart, isRetrying,
                   closeVars, requestVars, chanVars, backendVars>>

\* The deferred function: only now may another loop be started.
LoopLeaves ==
    /\ loop = "leave"
    /\ isRetrying' = FALSE
    /\ loop' = "off"
    /\ UNCHANGED <<connVars, up, crashed, readerVars, heart, closeVars,
                   requestVars, chanVars, backendVars>>

Loop == LoopChecks \/ LoopConnects \/ LoopRetries \/ LoopLeaves

StopReconnect ==
    /\ MayClose /\ closer = "open" /\ loop # "init"
    /\ isShuttingDown' = TRUE
    /\ stopped' = TRUE
    /\ closer' = "stopping"
    /\ UNCHANGED <<connVars, up, crashed, readerVars, heart, retryVars,
                   requestVars, chanVars, backendVars>>

\* Fault: Close does not wait for the loop.
CloseDropsAtOnce ==
    /\ closer = "stopping"
    /\ closer' = "closed"
    /\ Disconnect
    /\ UNCHANGED <<dials, cuts, crashed, readerVars, heart, retryVars,
                   isShuttingDown, stopped, requestVars, backendVars>>

\* Once the loop has ended (retryWg) the connection is dropped for good.
CloseDrops ==
    /\ closer = "stopping" /\ loop = "off"
    /\ closer' = "closed"
    /\ Disconnect
    /\ UNCHANGED <<dials, cuts, crashed, readerVars, heart, retryVars,
                   isShuttingDown, stopped, requestVars, backendVars>>

-----------------------------------------------------------------------------
(***************************************************************************)
(* SendRequest                                                             *)
(***************************************************************************)
RequestConnects(r) ==
    /\ rq[r] = "new" /\ loop # "init"
    /\ \/ Connect(r) /\ rq' = [rq EXCEPT ![r] = "register"]
       \/ /\ ~isConnected
          /\ rq' = [rq EXCEPT ![r] = "over"]
          /\ UNCHANGED <<connVars, up, reader, on, heart, handler>>
    /\ UNCHANGED <<crashed, resp, retryVars, closeVars, sent, mail, chanVars,
                   active, clientsMap>>

RequestRegisters(r) ==
    /\ rq[r] = "register"
    /\ rq' = [rq EXCEPT ![r] = "write"]
    /\ chan' = [chan EXCEPT ![r] = "open"]
    /\ responseChans' = responseChans \union {r}
    /\ UNCHANGED <<connVars, up, crashed, readerVars, heart, retryVars,
                   closeVars, sent, mail, backendVars>>

\* A write to a broken connection fails, or is lost.
RequestWrites(r) ==
    /\ rq[r] = "write"
    /\ \/ conn = 0 /\ Panic
       \/ /\ conn # 0
          /\ \/ /\ rq' = [rq EXCEPT ![r] = "wait"]
                /\ sent' = [sent EXCEPT ![r] = conn]
                /\ mail' = [mail EXCEPT ![r] = "request"]
             \/ /\ conn \notin up
                /\ rq' = [rq EXCEPT ![r] = "return"]
                /\ UNCHANGED <<sent, mail>>
          /\ UNCHANGED <<connVars, up, crashed, readerVars, heart, retryVars,
                         closeVars, chanVars, backendVars>>

\* The response, the nil of a channel that was closed, or the timeout.
RequestReceives(r) ==
    /\ rq[r] = "wait" /\ chan[r] \in {"full", "closed"}
    /\ rq' = [rq EXCEPT ![r] = "return"]
    /\ chan' = [chan EXCEPT ![r] = IF @ = "full" THEN "open" ELSE @]
    /\ UNCHANGED <<connVars, up, crashed, readerVars, heart, retryVars,
                   closeVars, sent, mail, responseChans, backendVars>>

RequestTimesOut(r) ==
    /\ rq[r] = "wait"
    /\ rq' = [rq EXCEPT ![r] = "return"]
    /\ UNCHANGED <<connVars, up, crashed, readerVars, heart, retryVars,
                   closeVars, sent, mail, chanVars, backendVars>>

\* The deferred function unregisters the channel and closes it, once more
\* if the connection was dropped meanwhile.
RequestReturns(r) ==
    /\ rq[r] = "return"
    /\ \/ chan[r] = "closed" /\ Panic
       \/ /\ chan[r] # "closed"
          /\ rq' = [rq EXCEPT ![r] = "over"]
          /\ chan' = [chan EXCEPT ![r] = "closed"]
          /\ responseChans' = responseChans \ {r}
          /\ UNCHANGED <<connVars, up, crashed, readerVars, heart, retryVars,
                         closeVars, sent, mail, backendVars>>

Request(r) ==
    \/ RequestConnects(r) \/ RequestRegisters(r) \/ RequestWrites(r)
    \/ RequestReceives(r) \/ RequestTimesOut(r)
    \/ RequestReturns(r)

-----------------------------------------------------------------------------
(***************************************************************************)
(* The backend, and the network.                                           *)
(***************************************************************************)
\* HandleWebSocket closes the connection registered so far ...
HandlerFinds(c) ==
    /\ handler[c] = "upgraded"
    /\ handler' = [handler EXCEPT ![c] = "found"]
    /\ up' = up \ {clientsMap}
    /\ active' = active \ {clientsMap}
    /\ UNCHANGED <<connVars, crashed, readerVars, heart, retryVars, closeVars,
                   requestVars, chanVars, clientsMap>>

\* ... and registers its own, over whatever is registered by then.
HandlerRegisters(c) ==
    /\ handler[c] = "found"
    /\ handler' = [handler EXCEPT ![c] = "check"]
    /\ active' = active \union {c}
    /\ clientsMap' = c
    /\ UNCHANGED <<connVars, up, crashed, readerVars, heart, retryVars, closeVars,
                   requestVars, chanVars>>

\* The handler of a client that is no longer active leaves, but not while it
\* waits for the next message.
HandlerChecks(c) ==
    /\ handler[c] = "check"
    /\ handler' = [handler EXCEPT ![c] = IF c \in active THEN "read" ELSE "leaving"]
    /\ UNCHANGED <<connVars, up, crashed, readerVars, heart, retryVars, closeVars,
                   requestVars, chanVars, active, clientsMap>>

\* A request is answered.
HandlerServes(c, r) ==
    /\ handler[c] = "read" /\ c \in up
    /\ mail[r] = "request" /\ sent[r] = c
    /\ mail' = [mail EXCEPT ![r] = "response"]
    /\ handler' = [handler EXCEPT ![c] = "check"]
    /\ UNCHANGED <<connVars, up, crashed, readerVars, heart, retryVars,
                   closeVars, rq, sent, chanVars, active, clientsMap>>

HandlerFails(c) ==
    /\ handler[c] = "read" /\ c \notin up
    /\ handler' = [handler EXCEPT ![c] = "leaving"]
    /\ UNCHANGED <<connVars, up, crashed, readerVars, heart, retryVars,
                   closeVars, requestVars, chanVars, active, clientsMap>>

\* The deferred function, with removeClient: whatever is registered under
\* the UUID by now is deactivated ...
HandlerLeaves(c) ==
    /\ handler[c] = "leaving"
    /\ handler' = [handler EXCEPT ![c] = IF clientsMap = 0 THEN "over" ELSE "remove"]
    /\ up' = up \ {c}
    /\ active' = active \ {c, clientsMap}
    /\ UNCHANGED <<connVars, crashed, readerVars, heart, retryVars, closeVars,
                   requestVars, chanVars, clientsMap>>

\* Fault: the client stays registered.
HandlerForgets(c) ==
    /\ handler[c] = "remove"
    /\ handler' = [handler EXCEPT ![c] = "over"]
    /\ UNCHANGED <<connVars, up, crashed, readerVars, heart, retryVars, closeVars,
                   requestVars, chanVars, active, clientsMap>>

\* ... and removed, or what has been registered over it since.
HandlerRemoves(c) ==
    /\ handler[c] = "remove"
    /\ handler' = [handler EXCEPT ![c] = "over"]
    /\ clientsMap' = 0
    /\ UNCHANGED <<connVars, up, crashed, readerVars, heart, retryVars, closeVars,
                   requestVars, chanVars, active>>

Handler(c) ==
    \/ HandlerFinds(c) \/ HandlerRegisters(c) \/ HandlerChecks(c)
    \/ HandlerFails(c) \/ HandlerLeaves(c) \/ HandlerRemoves(c)
    \/ \E r \in Requests : HandlerServes(c, r)

NetworkCuts ==
    /\ cuts < MaxCuts
    /\ \E c \in up : up' = up \ {c}
    /\ cuts' = cuts + 1
    /\ UNCHANGED <<isConnected, conn, dials, dialler, crashed, readerVars, heart,
                   retryVars, closeVars, requestVars, chanVars, backendVars>>

-----------------------------------------------------------------------------
\* A panic ends the program, and with it the link.
Steps ==
    \/ InitConnects \/ Loop \/ StopReconnect \/ CloseDrops
    \/ \E c \in Conns : Reader(c) \/ ReaderHandles(c) \/ Heart(c)
    \/ \E r \in Requests : Request(r)
    \/ \E c \in Conns : Handler(c)
    \/ NetworkCuts

Next == ~crashed /\ Steps

Spec == Init /\ [][Next]_vars

\* Every goroutine that runs goes on; a dial that is tried again and again
\* succeeds.  Nothing makes the backend push, a request start, the network
\* break or the program close.
Fairness ==
    /\ WF_vars(~crashed /\ InitConnects)
    /\ WF_vars(~crashed /\ Loop) /\ SF_vars(~crashed /\ LoopConnects)
    /\ WF_vars(~crashed /\ CloseDrops)
    /\ \A c \in Conns : /\ WF_vars(~crashed /\ Reader(c))
                        /\ WF_vars(~crashed /\ Heart(c))
                        /\ WF_vars(~crashed /\ Handler(c))
    /\ \A r \in Requests : WF_vars(~crashed /\ rq[r] # "new" /\ Request(r))

FairSpec == Spec /\ Fairness

-----------------------------------------------------------------------------
ConnOK ==
    /\ isConnected \in BOOLEAN /\ conn \in 0 .. dials /\ dials \in 0 .. MaxConns
    /\ isConnected <=> conn # 0
    /\ dialler \in Requests \union {"none", "init", "loop"}
    /\ up \subseteq 1 .. dials /\ cuts \in 0 .. MaxCuts /\ crashed \in BOOLEAN

ReaderOK ==
    /\ reader \in [Conns -> {"none", "check", "load", "read", "hand", "handle",
                             "answer", "trigger", "over"}]
    /\ on \in [Conns -> 0 .. MaxConns]
    /\ resp \in [Conns -> Requests \union {"none"}]
    /\ \A c \in Conns : reader[c] = "hand" => resp[c] \in Requests
    /\ heart \in [Conns -> {"none", "wait", "ping", "drop", "trigger", "over"}]

LoopOK ==
    /\ isRetrying \in BOOLEAN
    /\ loop \in {"init", "off", "check", "dial", "leave"}
    /\ isRetrying <=> loop \in {"check", "dial", "leave"}
    /\ isShuttingDown \in BOOLEAN /\ stopped \in BOOLEAN
    /\ closer \in {"open", "stopping", "closed"}

RequestOK ==
    /\ rq \in [Requests -> {"new", "register", "write", "wait", "return", "over"}]
    /\ chan \in [Requests -> {"none", "open", "full", "closed"}]
    /\ responseChans \subseteq Requests
    /\ sent \in [Requests -> 0 .. MaxConns]
    /\ mail \in [Requests -> {"none", "request", "response"}]

BackendOK ==
    /\ handler \in [Conns -> {"none", "upgraded", "found", "check", "read",
                              "leaving", "remove", "over"}]
    /\ active \subseteq Conns /\ clientsMap \in 0 .. MaxConns

\* Every variable has its type; isConnected is set exactly while there is a
\* connection, and isRetrying exactly while the reconnect loop runs.
TypeOK == ConnOK /\ ReaderOK /\ LoopOK /\ RequestOK /\ BackendOK

\* A response is looked up under the lock: what it finds there is a channel
\* that is still open, whichever of the requester and a dropped connection
\* was first to close it.
RegisteredOpen == \A r \in responseChans : chan[r] \in {"open", "full"}

\* After manager.Close has returned no reconnect loop runs, and if there is
\* a connection a request has dialled it since.
ClosedStaysClosed ==
    (closer = "closed" /\ ~crashed)
        => /\ loop = "off"
           /\ isConnected => dialler \in Requests

\* Where a reader is on its way to reading whatever connection is in use.
Turning == {"check", "load", "hand", "handle", "answer"}

\* Whatever replaces it and whoever drops it, the connection in use has a
\* reader that reads it, is about to find an older one broken, or will turn
\* to it once it is done with the message in hand.  A connection nobody was
\* to read again would be noticed by the next ping at the earliest.
Attended ==
    conn # 0 => \E c \in Conns :
        \/ reader[c] \in Turning
        \/ reader[c] = "read" /\ (on[c] = conn \/ on[c] \notin up)

\* What is registered has a handler that will remove it, although handlers
\* overwrite and remove each other's registration, each in two steps.  That a
\* live connection stays registered is another matter, and not so.
RegisteredServed ==
    clientsMap # 0 => handler[clientsMap] \in {"check", "read", "leaving", "remove"}

\* "An error disconnects, which triggers a reconnect": unless a panic, the
\* shutdown or the bound on dials prevents it, a connection comes back.  Not
\* so: see link_reconnect.cfg.
ErrorDisconnectReconnects ==
    (dials > 0 /\ ~isConnected)
        ~> (isConnected \/ isShuttingDown \/ crashed \/ dials = MaxConns)
=============================================================================
