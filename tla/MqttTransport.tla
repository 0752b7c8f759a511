--------------------------- MODULE MqttTransport ---------------------------
(***************************************************************************)
(* The transport of one MQTT-UDP device: the lifecycle state, connection   *)
(* and UDP session that internal/app/server/mqtt_udp keeps for it, driven  *)
(* by the events the broker hook (internal/app/mqtt_server/device_hook.go) *)
(* publishes and by the device's own messages.  Devices share nothing but  *)
(* the queue, so one device is enough.                                     *)
(*                                                                         *)
(* Goroutines: "proc" is processMessage; each member of Timers is a slot   *)
(* in which a fired cleanup timer runs; "tick" is the 30 s activity check; *)
(* "reset" is whoever closes the ChatManager of the device; "reload" is    *)
(* ReloadMqttClient / ReloadUdpServer.  All but "proc" may run             *)
(* MqttUdpConn.Destroy, and so handleDisconnect, at any moment.            *)
(*                                                                         *)
(* The maps deviceId2Conn and lifecycleStates are sync.Maps: each Load,    *)
(* Store and Delete is a step.  The fields of a lifecycle state are read   *)
(* and written under its own mutex: each critical section is a step.       *)
(* Objects are identities 1..N, and 0 is nil; an identity is reused once   *)
(* nothing refers to the object.                                           *)
(*                                                                         *)
(* Lifecycle events are stamped by the wall clock of the broker's host,    *)
(* device messages by that of the server's.  The two are one clock when    *)
(* the server runs the broker itself, and drift apart when the broker is   *)
(* a process on another host.                                              *)
(***************************************************************************)
EXTENDS Integers, Sequences, FiniteSets

CONSTANTS
    Timers,     \* slots for running cleanup callbacks
    Actors,     \* which of "tick", "reset", "reload" are at work
    Kinds,      \* the messages a device publishes: "hello", "cmd"
    NumConns, NumStates, NumSessions,   \* how many objects exist at a time
    QueueCap,   \* capacity of msgChan
    MayFail,    \* whether CreateSession may fail
    Hosts,      \* whose clocks there are: "server", and "broker" if it is apart
    MaxEvents,  \* bound: connects, disconnects and messages of the device
    MaxReloads, \* bound: reloads
    MaxTime     \* bound: the clocks, in milliseconds

ASSUME TransportAssumption ==
    /\ Actors \subseteq {"tick", "reset", "reload"}
    /\ Timers \cap {"proc", "tick", "reset", "reload"} = {}
    /\ Kinds \subseteq {"hello", "cmd"}
    /\ {NumConns, NumStates, NumSessions, QueueCap, MaxTime} \subseteq Nat \ {0}
    /\ {MaxEvents, MaxReloads} \subseteq Nat
    /\ MayFail \in BOOLEAN
    /\ "server" \in Hosts /\ Hosts \subseteq {"server", "broker"}

Conns == 1 .. NumConns
States == 1 .. NumStates
Sessions == 1 .. NumSessions
Procs == {"proc"} \cup Timers \cup Actors
BrokerHost == IF "broker" \in Hosts THEN "broker" ELSE "server"

VARIABLES
    \* the device, the broker and the clocks
    up,         \* the device has a session at the broker
    queue,      \* msgChan
    events,     \* how much the device has done
    now,        \* time.Now().UnixMilli() of each host
    \* the adapter
    life,       \* the mqttDeviceLifecycleState objects
    cur,        \* lifecycleStates[device]
    armed,      \* <<state, version>> of timers waiting in the runtime
    reg,        \* deviceId2Conn[device]
    \* the connections and the UDP server
    online,     \* MqttUdpConn.brokerOnline
    retained,   \* MqttUdpConn.retainedUntilTs > 0
    udp,        \* MqttUdpConn.UdpSession
    hooks,      \* Len(onCloseCbList): the adapter's, then the ChatManager's
    open,       \* the sessions of connId2Session
    \* the App
    managed,    \* conns whose ChatManager has not been shut down
    shown,      \* what the App was told last: DeviceOnline or DeviceOffline
    \* the goroutines
    pc, me, found, st, note, calls, ver,
    job,        \* the message processMessage is handling
    reloads,
    \* history, which no action looks at
    dead,       \* conns whose session a closer has released, or that have been
                \* taken out of deviceId2Conn
    strays      \* sessions that two goroutines in each other's way left behind

brokerVars == <<up, queue, events, now>>
stateVars == <<life, cur, armed>>
connVars == <<online, retained, udp, hooks, open>>
appVars == <<managed, shown>>
threadVars == <<me, found, st, note, calls, ver>>
historyVars == <<dead, strays>>
vars == <<brokerVars, stateVars, reg, connVars, appVars, pc, threadVars,
          job, reloads, historyVars>>

\* The locals of processMessage: kind and stamp of the message, existingSession
\* (whether there was one), whether to notify the App, deviceSession, and the
\* UDP session in hand.
NoJob == [kind |-> "cmd", ts |-> 0, existing |-> FALSE, note |-> FALSE,
          conn |-> 0, udp |-> 0]
NewState == [online |-> FALSE, ts |-> 0, version |-> 0, timer |-> 0]

Init ==
    /\ up = FALSE /\ queue = <<>> /\ events = 0 /\ now = [h \in Hosts |-> 1]
    /\ life = [s \in States |-> NewState] /\ cur = 0 /\ armed = {} /\ reg = 0
    /\ online = [c \in Conns |-> FALSE]
    /\ retained = [c \in Conns |-> FALSE]
    /\ udp = [c \in Conns |-> 0]
    /\ hooks = [c \in Conns |-> 0]
    /\ open = {}
    /\ managed = {} /\ shown = "off"
    /\ pc = [p \in Procs |-> "idle"]
    /\ me = [p \in Procs |-> 0]
    /\ found = [p \in Procs |-> 0]
    /\ st = [p \in Procs |-> 0]
    /\ note = [p \in Procs |-> FALSE]
    /\ calls = [p \in Procs |-> 0]
    /\ ver = [p \in Procs |-> 0]
    /\ job = NoJob /\ reloads = 0
    /\ dead = {} /\ strays = {}

Goto(p, label) == pc' = [pc EXCEPT ![p] = label]

(***************************************************************************)
(* Which identities are free for a new object.                             *)
(***************************************************************************)
UnusedStates == States \ ({cur} \cup {st[p] : p \in Procs} \cup {a[1] : a \in armed})
UnusedConns == Conns \ ({reg, job.conn} \cup managed \cup {me[p] : p \in Procs}
                        \cup {found[p] : p \in Procs})
UnusedSessions == Sessions \ (open \cup {job.udp} \cup {udp[c] : c \in Conns})

\* A new object takes the first free identity.
First(x, S) == x \in S /\ \A y \in S : x <= y

(***************************************************************************)
(* The device and the broker.  A lifecycle event is stamped when the hook  *)
(* emits it; a message carries no stamp of its own.  A message that finds  *)
(* msgChan full is dropped.                                                *)
(***************************************************************************)
\* Fault: msgChan grows without bound.
handleMessageUnbounded(kind, ts) ==
    queue' = Append(queue, [kind |-> kind, ts |-> ts])
handleMessage(kind, ts) ==
    queue' = IF Len(queue) < QueueCap
             THEN Append(queue, [kind |-> kind, ts |-> ts]) ELSE queue

Device == events < MaxEvents /\ events' = events + 1
          /\ UNCHANGED <<now, stateVars, reg, connVars, appVars, pc,
                         threadVars, job, reloads, historyVars>>

\* A new session at the broker, possibly taking over a live one: the old
\* client's OnDisconnect then publishes nothing.
OnSessionEstablished ==
    /\ up' = TRUE
    /\ handleMessage("online", now[BrokerHost])
    /\ Device

OnDisconnect ==
    /\ up
    /\ up' = FALSE
    /\ handleMessage("offline", now[BrokerHost])
    /\ Device

Publish ==
    /\ up
    /\ \E k \in Kinds : handleMessage(k, 0)
    /\ UNCHANGED up
    /\ Device

Tick ==
    /\ \E h \in Hosts : now[h] < MaxTime /\ now' = [now EXCEPT ![h] = @ + 1]
    /\ UNCHANGED <<up, queue, events, stateVars, reg, connVars, appVars, pc,
                   threadVars, job, reloads, historyVars>>

(***************************************************************************)
(* processMessage.  The stamp of a device message is the time at which it  *)
(* is taken off the queue, not that at which the broker received it.       *)
(***************************************************************************)
isLifecycle == job.kind \in {"online", "offline"}

Dequeue ==
    /\ pc["proc"] = "idle"
    /\ queue # <<>>
    /\ queue' = Tail(queue)
    /\ job' = [NoJob EXCEPT !.kind = Head(queue).kind,
                            !.ts = IF Head(queue).kind \in {"online", "offline"}
                                   THEN Head(queue).ts ELSE now["server"],
                            !.existing = reg # 0]
    /\ Goto("proc", "state")
    /\ UNCHANGED <<up, events, now, stateVars, reg, connVars, appVars,
                   threadVars, reloads, historyVars>>

getOrCreateLifecycleState ==
    /\ pc["proc"] = "state"
    /\ \/ /\ cur # 0
          /\ st' = [st EXCEPT !["proc"] = cur]
          /\ UNCHANGED <<life, cur>>
       \/ /\ cur = 0
          /\ \E s \in States :
                /\ First(s, UnusedStates)
                /\ life' = [life EXCEPT ![s] = NewState]
                /\ cur' = s
                /\ st' = [st EXCEPT !["proc"] = s]
    /\ Goto("proc", "mark")
    /\ UNCHANGED <<brokerVars, armed, reg, connVars, appVars, me, found, note,
                   calls, ver, job, reloads, historyVars>>

Stale(s) == life[s].ts > 0 /\ job.ts < life[s].ts
Latest(s) == IF job.ts > life[s].ts THEN job.ts ELSE life[s].ts
StopTimer(s) == armed' = armed \ {<<s, life[s].timer>>}

\* The locked sections of markDeviceOnline and markDeviceOffline.
markDeviceOnline ==
    LET s == st["proc"] IN
    /\ pc["proc"] = "mark" /\ job.kind # "offline" /\ ~Stale(s)
    /\ life' = [life EXCEPT ![s] = [online |-> TRUE, ts |-> Latest(s),
                                    version |-> life[s].version + 1, timer |-> 0]]
    /\ StopTimer(s)
    /\ job' = [job EXCEPT !.note = ~life[s].online]
    /\ st' = [st EXCEPT !["proc"] = 0]
    /\ Goto("proc", "lookup")
    /\ UNCHANGED <<brokerVars, cur, reg, connVars, appVars, me, found, note,
                   calls, ver, reloads, historyVars>>

markDeviceOffline ==
    LET s == st["proc"]
        v == life[s].version + 1
    IN
    /\ pc["proc"] = "mark" /\ job.kind = "offline" /\ ~Stale(s)
    /\ life' = [life EXCEPT ![s] = [online |-> FALSE, ts |-> Latest(s),
                                    version |-> v, timer |-> v]]
    /\ armed' = (armed \ {<<s, life[s].timer>>}) \cup {<<s, v>>}
    /\ job' = [job EXCEPT !.note = life[s].online]
    /\ st' = [st EXCEPT !["proc"] = 0]
    /\ Goto("proc", "lookup")
    /\ UNCHANGED <<brokerVars, cur, reg, connVars, appVars, me, found, note,
                   calls, ver, reloads, historyVars>>

\* An older stamp is refused.  A lifecycle event ends here; a device message
\* goes on with whatever connection is registered, if any.
RefuseStale ==
    /\ pc["proc"] = "mark" /\ Stale(st["proc"])
    /\ st' = [st EXCEPT !["proc"] = 0]
    /\ job' = IF isLifecycle THEN NoJob ELSE job
    /\ Goto("proc", IF isLifecycle THEN "idle" ELSE "refused")
    /\ UNCHANGED <<brokerVars, stateVars, reg, connVars, appVars, me, found,
                   note, calls, ver, reloads, historyVars>>

promoteRefused ==
    /\ pc["proc"] = "refused"
    /\ job' = [job EXCEPT !.conn = reg]
    /\ Goto("proc", "notify")
    /\ UNCHANGED <<brokerVars, stateVars, reg, connVars, appVars, threadVars,
                   reloads, historyVars>>

\* getDeviceSession, in EnsureDeviceTransport and in the offline branch.
getDeviceSession ==
    /\ pc["proc"] = "lookup"
    /\ job' = [job EXCEPT !.conn = reg]
    /\ Goto("proc", CASE reg # 0 -> "use"
                      [] reg = 0 /\ job.kind # "offline" -> "create"
                      [] reg = 0 /\ job.kind = "offline" -> "notify")
    /\ UNCHANGED <<brokerVars, stateVars, reg, connVars, appVars, threadVars,
                   reloads, historyVars>>

\* EnsureDeviceTransport marks a connection it finds, and promoteDeviceOnline
\* marks whatever it gets once more.
MarkBrokerOnline ==
    /\ pc["proc"] \in {"use", "promote"} /\ job.kind # "offline"
    /\ online' = [online EXCEPT ![job.conn] = TRUE]
    /\ retained' = [retained EXCEPT ![job.conn] = FALSE]
    /\ Goto("proc", IF pc["proc"] = "use" THEN "promote" ELSE "notify")
    /\ UNCHANGED <<brokerVars, stateVars, reg, udp, hooks, open, appVars,
                   threadVars, job, reloads, historyVars>>

MarkBrokerOffline ==
    /\ pc["proc"] = "use" /\ job.kind = "offline"
    /\ online' = [online EXCEPT ![job.conn] = FALSE]
    /\ retained' = [retained EXCEPT ![job.conn] = TRUE]
    /\ Goto("proc", "notify")
    /\ UNCHANGED <<brokerVars, stateVars, reg, udp, hooks, open, appVars,
                   threadVars, job, reloads, historyVars>>

\* The rest of EnsureDeviceTransport: the new connection is private until
\* SetDeviceSession stores it, and gets its close callback only after that.
EnsureDeviceTransport ==
    /\ pc["proc"] = "create"
    /\ \E c \in Conns, u \in Sessions :
          /\ First(c, UnusedConns) /\ First(u, UnusedSessions)
          /\ open' = open \cup {u}
          /\ udp' = [udp EXCEPT ![c] = u]
          /\ online' = [online EXCEPT ![c] = TRUE]
          /\ retained' = [retained EXCEPT ![c] = FALSE]
          /\ hooks' = [hooks EXCEPT ![c] = 0]
          /\ job' = [job EXCEPT !.conn = c]
          /\ reg' = c
          /\ dead' = dead \ {c} /\ strays' = strays \ {u}
    /\ Goto("proc", "hook")
    /\ UNCHANGED <<brokerVars, stateVars, appVars, threadVars, reloads>>

\* CreateSession returned nil: the message is dropped, and nobody is notified.
EnsureFails ==
    /\ MayFail
    /\ pc["proc"] = "create"
    /\ job' = NoJob
    /\ Goto("proc", "idle")
    /\ UNCHANGED <<brokerVars, stateVars, reg, connVars, appVars, threadVars,
                   reloads, historyVars>>

OnClose ==
    /\ pc["proc"] = "hook"
    /\ hooks' = [hooks EXCEPT ![job.conn] = 1]
    /\ Goto("proc", "connect")
    /\ UNCHANGED <<brokerVars, stateVars, reg, online, retained, udp, open,
                   appVars, threadVars, job, reloads, historyVars>>

\* App.OnNewConnection: a ChatManager the device still has is closed first,
\* which destroys the connection it was made for; then the new one takes over.
CloseOldManager ==
    /\ pc["proc"] = "connect"
    /\ \E c \in managed :
          /\ managed' = managed \ {c}
          /\ me' = [me EXCEPT !["proc"] = c]
    /\ Goto("proc", "d_flags")
    /\ UNCHANGED <<brokerVars, stateVars, reg, connVars, shown, found, st,
                   note, calls, ver, job, reloads, historyVars>>

NewChatManager ==
    /\ pc["proc"] = "connect" /\ managed = {}
    /\ managed' = managed \cup {job.conn}
    /\ hooks' = [hooks EXCEPT ![job.conn] = 2]
    /\ Goto("proc", "promote")
    /\ UNCHANGED <<brokerVars, stateVars, reg, online, retained, udp, open,
                   shown, threadVars, job, reloads, historyVars>>

\* The callbacks of the App, and where the handler goes from there.
AfterNotify == IF isLifecycle THEN "idle"
               ELSE IF job.existing /\ job.kind = "hello" THEN "rotate" ELSE "push"

NotifyApp ==
    /\ pc["proc"] = "notify"
    /\ shown' = IF ~job.note THEN shown
                ELSE IF job.kind = "offline" THEN "off" ELSE "on"
    /\ job' = IF isLifecycle THEN NoJob ELSE job
    /\ Goto("proc", AfterNotify)
    /\ UNCHANGED <<brokerVars, stateVars, reg, connVars, managed, threadVars,
                   reloads, historyVars>>

\* Fault: the old session is closed before the new one is bound.
RotateClosesFirst ==
    /\ pc["proc"] = "rotate" /\ job.conn # 0
    /\ \E u \in Sessions :
          /\ First(u, UnusedSessions)
          /\ open' = (open \ {udp[job.conn]}) \cup {u}
          /\ job' = [job EXCEPT !.udp = u]
          /\ strays' = strays \ {u}
    /\ Goto("proc", "bind")
    /\ UNCHANGED <<brokerVars, stateVars, reg, online, retained, udp, hooks,
                   appVars, threadVars, reloads, dead>>

\* rotateDeviceUdpSession: make the new session, bind it, close the old one.
RotateCreate ==
    /\ pc["proc"] = "rotate" /\ job.conn # 0
    /\ \E u \in Sessions :
          /\ First(u, UnusedSessions)
          /\ open' = open \cup {u}
          /\ job' = [job EXCEPT !.udp = u]
          /\ strays' = strays \ {u}
    /\ Goto("proc", "bind")
    /\ UNCHANGED <<brokerVars, stateVars, reg, online, retained, udp, hooks,
                   appVars, threadVars, reloads, dead>>

RotateFails ==
    /\ pc["proc"] = "rotate" /\ (job.conn = 0 \/ MayFail)
    /\ job' = NoJob
    /\ Goto("proc", "idle")
    /\ UNCHANGED <<brokerVars, stateVars, reg, connVars, appVars, threadVars,
                   reloads, historyVars>>

\* Fault: the old session is not remembered, so it is never closed.
RotateForgetsOld ==
    /\ pc["proc"] = "bind"
    /\ udp' = [udp EXCEPT ![job.conn] = job.udp]
    /\ job' = [job EXCEPT !.udp = 0]
    /\ strays' = IF job.conn \in dead THEN strays \cup {job.udp} ELSE strays
    /\ Goto("proc", "close_old")
    /\ UNCHANGED <<brokerVars, stateVars, reg, online, retained, hooks, open,
                   appVars, threadVars, reloads, dead>>

\* The old session is in hand now, to be closed next.  The code reads it just
\* before it binds the new one; should a closer release it in between, both
\* close it, and closing a closed session does nothing.  A connection that a
\* closer has done with gets the new session all the same.
RotateBind ==
    /\ pc["proc"] = "bind"
    /\ udp' = [udp EXCEPT ![job.conn] = job.udp]
    /\ job' = [job EXCEPT !.udp = udp[job.conn]]
    /\ strays' = IF job.conn \in dead THEN strays \cup {job.udp} ELSE strays
    /\ Goto("proc", "close_old")
    /\ UNCHANGED <<brokerVars, stateVars, reg, online, retained, hooks, open,
                   appVars, threadVars, reloads, dead>>

RotateClose ==
    /\ pc["proc"] = "close_old"
    /\ open' = open \ {job.udp}
    /\ job' = [job EXCEPT !.udp = 0]
    /\ Goto("proc", "push")
    /\ UNCHANGED <<brokerVars, stateVars, reg, online, retained, udp, hooks,
                   appVars, threadVars, reloads, historyVars>>

\* With no connection in hand the method call is on nil.
PushMsgToRecvCmd ==
    /\ pc["proc"] = "push"
    /\ job' = NoJob
    /\ Goto("proc", IF job.conn = 0 THEN "panic" ELSE "idle")
    /\ UNCHANGED <<brokerVars, stateVars, reg, connVars, appVars, threadVars,
                   reloads, historyVars>>

(***************************************************************************)
(* MqttUdpConn.Destroy, run by process p for the connection me[p].  It is  *)
(* not idempotent and takes no lock: it clears the flags and then runs the *)
(* close callbacks there are, the adapter's handleDisconnect first.        *)
(***************************************************************************)
Return(p) == IF p = "proc" THEN "connect" ELSE IF p = "reload" THEN "r_drop" ELSE "idle"

Destroy(p) ==
    /\ pc[p] = "d_flags"
    /\ online' = [online EXCEPT ![me[p]] = FALSE]
    /\ retained' = [retained EXCEPT ![me[p]] = FALSE]
    /\ calls' = [calls EXCEPT ![p] = hooks[me[p]]]
    /\ Goto(p, IF hooks[me[p]] = 0 THEN "d_end" ELSE "d_lookup")
    /\ UNCHANGED <<brokerVars, stateVars, reg, udp, hooks, open, appVars, me,
                   found, st, note, ver, job, reloads, historyVars>>

\* The destroyed connection is stale when another one is registered by now.
DisconnectLookup(p) ==
    /\ pc[p] = "d_lookup"
    /\ found' = [found EXCEPT ![p] = reg]
    /\ Goto(p, IF reg \notin {0, me[p]} THEN "d_end" ELSE "d_state")
    /\ UNCHANGED <<brokerVars, stateVars, reg, connVars, appVars, me, st, note,
                   calls, ver, job, reloads, historyVars>>

DisconnectState(p) ==
    /\ pc[p] = "d_state"
    /\ st' = [st EXCEPT ![p] = cur]
    /\ Goto(p, IF cur = 0 THEN "d_release" ELSE "d_mark")
    /\ UNCHANGED <<brokerVars, stateVars, reg, connVars, appVars, me, found,
                   note, calls, ver, job, reloads, historyVars>>

DisconnectMark(p) ==
    LET s == st[p] IN
    /\ pc[p] = "d_mark"
    /\ IF life[s].online
       THEN /\ life' = [life EXCEPT ![s].online = FALSE,
                                    ![s].version = life[s].version + 1,
                                    ![s].timer = 0]
            /\ StopTimer(s)
            /\ note' = [note EXCEPT ![p] = TRUE]
       ELSE UNCHANGED <<life, armed, note>>
    /\ Goto(p, IF life[s].online \/ life[s].timer = 0 THEN "d_delete" ELSE "d_release")
    /\ UNCHANGED <<brokerVars, cur, reg, connVars, appVars, me, found, st,
                   calls, ver, job, reloads, historyVars>>

DisconnectDelete(p) ==
    /\ pc[p] = "d_delete"
    /\ cur' = 0
    /\ Goto(p, "d_release")
    /\ UNCHANGED <<brokerVars, life, armed, reg, connVars, appVars, threadVars,
                   job, reloads, historyVars>>

\* Take the session off the connection and close it.  In between only UDP
\* packets could find the session, so the two are one step.
ReleaseUdpSession(c) ==
    /\ udp' = [udp EXCEPT ![c] = 0]
    /\ open' = open \ {udp[c]}

\* The entry of deviceId2Conn is deleted, whichever connection it is by now.
Unregister ==
    /\ reg' = 0
    /\ dead' = dead \cup ({reg} \ {0})
    /\ strays' = IF reg \in dead \cup {0} THEN strays
                 ELSE strays \cup ({udp[reg]} \ {0})

DisconnectRelease(p) ==
    /\ pc[p] = "d_release"
    /\ IF found[p] = 0 THEN UNCHANGED <<udp, open, dead>>
       ELSE ReleaseUdpSession(found[p]) /\ dead' = dead \cup {found[p]}
    /\ Goto(p, IF found[p] = 0 THEN "d_note" ELSE "d_unreg")
    /\ UNCHANGED <<brokerVars, stateVars, reg, online, retained, hooks,
                   appVars, threadVars, job, reloads, strays>>

\* Fault: the entry is left for the next message to replace.
DisconnectKeepsEntry(p) ==
    /\ pc[p] = "d_unreg"
    /\ Goto(p, "d_note")
    /\ UNCHANGED <<brokerVars, stateVars, reg, connVars, appVars, threadVars, job,
                   reloads, historyVars>>

DisconnectUnregister(p) ==
    /\ pc[p] = "d_unreg"
    /\ Unregister
    /\ Goto(p, "d_note")
    /\ UNCHANGED <<brokerVars, stateVars, connVars, appVars, threadVars, job,
                   reloads>>

DisconnectNotify(p) ==
    /\ pc[p] = "d_note"
    /\ shown' = IF note[p] THEN "off" ELSE shown
    /\ Goto(p, "d_end")
    /\ UNCHANGED <<brokerVars, stateVars, reg, connVars, managed, threadVars,
                   job, reloads, historyVars>>

\* The second callback is ChatManager.OnClose, which shuts the manager down.
DestroyReturns(p) ==
    /\ pc[p] = "d_end"
    /\ managed' = IF calls[p] = 2 THEN managed \ {me[p]} ELSE managed
    /\ me' = [me EXCEPT ![p] = 0]
    /\ found' = [found EXCEPT ![p] = 0]
    /\ st' = [st EXCEPT ![p] = 0]
    /\ note' = [note EXCEPT ![p] = FALSE]
    /\ calls' = [calls EXCEPT ![p] = 0]
    /\ ver' = [ver EXCEPT ![p] = 0]
    /\ Goto(p, Return(p))
    /\ UNCHANGED <<brokerVars, stateVars, reg, connVars, shown, job, reloads,
                   historyVars>>

(***************************************************************************)
(* cleanupOfflineTransport.                                                *)
(***************************************************************************)
TimerFires(t) ==
    /\ pc[t] = "idle"
    /\ \E a \in armed :
          /\ armed' = armed \ {a}
          /\ ver' = [ver EXCEPT ![t] = a[2]]
    /\ Goto(t, "t_state")
    /\ UNCHANGED <<brokerVars, life, cur, reg, connVars, appVars, me, found,
                   st, note, calls, job, reloads, historyVars>>

CleanupState(t) ==
    /\ pc[t] = "t_state"
    /\ st' = [st EXCEPT ![t] = cur]
    /\ ver' = IF cur = 0 THEN [ver EXCEPT ![t] = 0] ELSE ver
    /\ Goto(t, IF cur = 0 THEN "idle" ELSE "t_check")
    /\ UNCHANGED <<brokerVars, stateVars, reg, connVars, appVars, me, found,
                   note, calls, job, reloads, historyVars>>

CleanupDue(t) == ~life[st[t]].online /\ life[st[t]].version = ver[t]

CleanupCheck(t) ==
    /\ pc[t] = "t_check"
    /\ life' = IF CleanupDue(t) THEN [life EXCEPT ![st[t]].timer = 0] ELSE life
    /\ Goto(t, IF CleanupDue(t) THEN "t_conn" ELSE "idle")
    /\ st' = [st EXCEPT ![t] = 0]
    /\ ver' = [ver EXCEPT ![t] = 0]
    /\ UNCHANGED <<brokerVars, cur, armed, reg, connVars, appVars, me, found,
                   note, calls, job, reloads, historyVars>>

CleanupConn(t) ==
    /\ pc[t] = "t_conn"
    /\ cur' = IF reg = 0 THEN 0 ELSE cur
    /\ me' = [me EXCEPT ![t] = reg]
    /\ Goto(t, IF reg = 0 THEN "idle" ELSE "d_flags")
    /\ UNCHANGED <<brokerVars, life, armed, reg, connVars, appVars, found, st,
                   note, calls, ver, job, reloads, historyVars>>

(***************************************************************************)
(* checkClientActive: IsActive is read, and Destroy called on the answer.  *)
(* A retained connection is active until its retention ends; one that is   *)
(* neither online nor retained, until it has been idle for long enough.    *)
(***************************************************************************)
TickerSees ==
    /\ pc["tick"] = "idle"
    /\ reg # 0
    /\ me' = [me EXCEPT !["tick"] = reg]
    /\ Goto("tick", "k_check")
    /\ UNCHANGED <<brokerVars, stateVars, reg, connVars, appVars, found, st,
                   note, calls, ver, job, reloads, historyVars>>

\* Fault: the end of the retention is not looked at.
MayBeInactiveNoExpiry(c) == ~online[c] /\ ~retained[c]
MayBeInactive(c) == ~online[c]

IsActive ==
    /\ pc["tick"] = "k_check"
    /\ me' = [me EXCEPT !["tick"] = 0]
    /\ Goto("tick", "idle")
    /\ UNCHANGED <<brokerVars, stateVars, reg, connVars, appVars, found, st,
                   note, calls, ver, job, reloads, historyVars>>

IsInactive ==
    /\ pc["tick"] = "k_check"
    /\ MayBeInactive(me["tick"])
    /\ Goto("tick", "d_flags")
    /\ UNCHANGED <<brokerVars, stateVars, reg, connVars, appVars, threadVars,
                   job, reloads, historyVars>>

(***************************************************************************)
(* The ChatManager is closed from outside (a device reset), which closes   *)
(* its transport; or it closes the audio channel on a goodbye message.     *)
(***************************************************************************)
CloseChatManager ==
    /\ pc["reset"] = "idle"
    /\ \E c \in managed :
          /\ managed' = managed \ {c}
          /\ me' = [me EXCEPT !["reset"] = c]
    /\ Goto("reset", "d_flags")
    /\ UNCHANGED <<brokerVars, stateVars, reg, connVars, shown, found, st,
                   note, calls, ver, job, reloads, historyVars>>

CloseAudioChannel ==
    /\ \E c \in managed : udp[c] # 0 /\ ReleaseUdpSession(c)
    /\ UNCHANGED <<brokerVars, stateVars, reg, online, retained, hooks,
                   appVars, pc, threadVars, job, reloads, historyVars>>

(***************************************************************************)
(* ReloadMqttClient / ReloadUdpServer: clearLifecycleStates and then       *)
(* clearDeviceSessions, which deletes the entry once Destroy has returned. *)
(***************************************************************************)
ReloadStates ==
    /\ pc["reload"] = "idle"
    /\ reloads < MaxReloads
    /\ reloads' = reloads + 1
    /\ IF cur = 0 THEN UNCHANGED <<life, armed>>
       ELSE /\ life' = [life EXCEPT ![cur].timer = 0]
            /\ StopTimer(cur)
    /\ Goto("reload", IF cur = 0 THEN "r_conn" ELSE "r_delete")
    /\ UNCHANGED <<brokerVars, cur, reg, connVars, appVars, threadVars, job,
                   historyVars>>

ReloadDelete ==
    /\ pc["reload"] = "r_delete"
    /\ cur' = 0
    /\ Goto("reload", "r_conn")
    /\ UNCHANGED <<brokerVars, life, armed, reg, connVars, appVars, threadVars,
                   job, reloads, historyVars>>

ReloadConn ==
    /\ pc["reload"] = "r_conn"
    /\ me' = [me EXCEPT !["reload"] = reg]
    /\ Goto("reload", IF reg = 0 THEN "idle" ELSE "d_flags")
    /\ UNCHANGED <<brokerVars, stateVars, reg, connVars, appVars, found, st,
                   note, calls, ver, job, reloads, historyVars>>

ReloadDrop ==
    /\ pc["reload"] = "r_drop"
    /\ Unregister
    /\ Goto("reload", "idle")
    /\ UNCHANGED <<brokerVars, stateVars, connVars, appVars, threadVars, job,
                   reloads>>

-----------------------------------------------------------------------------
Environment == OnSessionEstablished \/ OnDisconnect \/ Publish \/ Tick

processMessage ==
    \/ Dequeue \/ getOrCreateLifecycleState
    \/ markDeviceOnline \/ markDeviceOffline \/ RefuseStale \/ promoteRefused
    \/ getDeviceSession \/ MarkBrokerOnline \/ MarkBrokerOffline
    \/ EnsureDeviceTransport \/ EnsureFails \/ OnClose
    \/ CloseOldManager \/ NewChatManager \/ NotifyApp
    \/ RotateCreate \/ RotateFails \/ RotateBind \/ RotateClose
    \/ PushMsgToRecvCmd

Destroying(p) ==
    \/ Destroy(p) \/ DisconnectLookup(p) \/ DisconnectState(p) \/ DisconnectMark(p)
    \/ DisconnectDelete(p) \/ DisconnectRelease(p) \/ DisconnectUnregister(p)
    \/ DisconnectNotify(p) \/ DestroyReturns(p)

cleanupOfflineTransport(t) ==
    TimerFires(t) \/ CleanupState(t) \/ CleanupCheck(t) \/ CleanupConn(t)

checkClientActive == "tick" \in Actors /\ (TickerSees \/ IsActive \/ IsInactive)

ChatManager == "reset" \in Actors /\ (CloseChatManager \/ CloseAudioChannel)

Reload == "reload" \in Actors
          /\ (ReloadStates \/ ReloadDelete \/ ReloadConn \/ ReloadDrop)

Next ==
    \/ Environment
    \/ processMessage
    \/ \E p \in Procs : Destroying(p)
    \/ \E t \in Timers : cleanupOfflineTransport(t)
    \/ checkClientActive
    \/ ChatManager
    \/ Reload

Spec == Init /\ [][Next]_vars

(***************************************************************************)
(* Goroutines that have something to do keep running, a timer that is not  *)
(* stopped fires, and the retention of a connection ends: the ticker that  *)
(* keeps coming back to it finds it inactive in the end.                   *)
(***************************************************************************)
FairSpec ==
    /\ Spec
    /\ WF_vars(processMessage \/ Destroying("proc"))
    /\ \A t \in Timers : WF_vars(cleanupOfflineTransport(t) \/ Destroying(t))
    /\ WF_vars(checkClientActive \/ ("tick" \in Actors /\ Destroying("tick")))
    /\ SF_vars("tick" \in Actors /\ IsInactive)
    /\ WF_vars("reset" \in Actors /\ Destroying("reset"))
    /\ WF_vars(Reload \/ ("reload" \in Actors /\ Destroying("reload")))

-----------------------------------------------------------------------------
Labels == {"idle", "state", "mark", "refused", "lookup", "use", "create", "hook",
           "connect", "promote", "notify", "rotate", "bind", "close_old", "push", "panic",
           "d_flags", "d_lookup", "d_state", "d_mark", "d_delete", "d_release",
           "d_unreg", "d_note", "d_end", "t_state", "t_check", "t_conn", "k_check",
           "r_delete", "r_conn", "r_drop"}

MsgKinds == {"online", "offline", "hello", "cmd"}
Message == [kind : MsgKinds, ts : Nat]
LifecycleState == [online : BOOLEAN, ts : Nat, version : Nat, timer : Nat]
Job == [kind : MsgKinds, ts : Nat, existing : BOOLEAN, note : BOOLEAN,
        conn : Conns \cup {0}, udp : Sessions \cup {0}]

BrokerType ==
    /\ up \in BOOLEAN
    /\ queue \in Seq(Message) /\ Len(queue) <= QueueCap
    /\ events \in 0 .. MaxEvents /\ now \in [Hosts -> 1 .. MaxTime]

StateType ==
    /\ life \in [States -> LifecycleState]
    /\ cur \in States \cup {0}
    /\ armed \subseteq States \X Nat

ConnType ==
    /\ online \in [Conns -> BOOLEAN] /\ retained \in [Conns -> BOOLEAN]
    /\ udp \in [Conns -> Sessions \cup {0}] /\ hooks \in [Conns -> 0 .. 2]
    /\ open \subseteq Sessions

ThreadType ==
    /\ me \in [Procs -> Conns \cup {0}] /\ found \in [Procs -> Conns \cup {0}]
    /\ st \in [Procs -> States \cup {0}] /\ ver \in [Procs -> Nat]
    /\ note \in [Procs -> BOOLEAN] /\ calls \in [Procs -> 0 .. 2]

\* The types of the variables.
TypeOK ==
    /\ BrokerType
    /\ StateType
    /\ ConnType
    /\ reg \in Conns \cup {0}
    /\ managed \subseteq Conns /\ shown \in {"on", "off"}
    /\ ThreadType
    /\ pc \in [Procs -> Labels]
    /\ job \in Job
    /\ reloads \in 0 .. MaxReloads
    /\ dead \subseteq Conns /\ strays \subseteq Sessions

\* The session of the registered connection, which will be closed with it, and
\* the one a hello rotation has in hand.
Owned(u) == job.udp = u \/ (reg # 0 /\ udp[reg] = u)

\* No UDP session is left open that nobody will ever close: cleanupSessions
\* does not run.  Not so: see mqtt_late_rotate.cfg.
SessionOwned == open \subseteq {u \in Sessions : Owned(u)}

\* There are just two ways to leave a session open for ever: a hello rotates a
\* connection that a closer has released by then, or a closer deletes the entry
\* of a connection that nobody has released.  Every other interleaving of
\* rotation, goodbye, timer, activity check, reset, reload and failing session
\* creation keeps each open session with the registered connection.
OnlyRacesLeak == \A u \in open : Owned(u) \/ u \in strays

\* A connection never points at a session that has been closed under it:
\* rotation binds the new session before it closes the old, and a release
\* clears the pointer before it closes.  So audio sent while a hello is
\* being handled has a live session to go to.
BoundSessionOpen ==
    \A c \in Conns : udp[c] # 0 => udp[c] \in open

\* Where a goroutine that closes a connection has yet to take it out of the map,
\* and where processMessage has a new one without a ChatManager.
Closing == {"d_flags", "d_lookup", "d_state", "d_mark", "d_delete", "d_release",
            "d_unreg"}
Installing == {"hook", "connect", "d_note", "d_end"} \cup Closing

\* What is pushed to a registered connection finds a reader: the connection has
\* its ChatManager, or processMessage is about to make it, or whoever closed the
\* manager is still on the way to deviceId2Conn.Delete.  A connection that stayed
\* in the map without a manager would swallow all the device's commands.
RegisteredHasManager ==
    reg # 0 => \/ reg \in managed
               \/ job.conn = reg /\ pc["proc"] \in Installing
               \/ \E p \in Procs : me[p] = reg /\ pc[p] \in Closing

\* A device message is never pushed to a nil connection.  Not so: see
\* mqtt_nil_push.cfg.
PushHasConn == pc["proc"] # "panic"

Quiet == queue = <<>> /\ \A p \in Procs : pc[p] = "idle"

\* Once everything has been handled, what the App was told about the device
\* is what the broker knows.  Not so: see mqtt_stale_stamp.cfg.
StatusFollowsBroker == Quiet => ((shown = "on") <=> up)

\* A cleanup callback that got past its version check never disconnects a
\* device that has come back online since.  Not so: see mqtt_old_timer.cfg.
OldTimerSparesNewConn ==
    [][\A t \in Timers : DisconnectMark(t) => ~life[st[t]].online]_vars

\* Closing a connection never removes a different one from deviceId2Conn,
\* even when the two meet in the middle of handleDisconnect.  Not so: see
\* mqtt_double_close.cfg.
StaleCloseSparesFresh ==
    [][\A p \in Procs : DisconnectUnregister(p) => reg \in {0, me[p]}]_vars

\* The transport of a device that stays offline is reclaimed: a registered
\* connection that is not online comes back online or leaves the map.  The
\* run has no cleanup timers: it asks whether the activity check is enough
\* when every timer has been stopped, superseded or lost with its state.
OfflineReclaimed ==
    (reg # 0 /\ ~online[reg]) ~> (reg = 0 \/ online[reg])
=============================================================================
