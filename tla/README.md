# A TLA+ verification of dilidili

dilidili is a voice-assistant server for toys and small devices, written in Go.
A device talks to it over MQTT (commands) and UDP (audio), or over a WebSocket;
the server recognises speech, asks a language model, synthesises the answer and
plays it back. The difficult part is neither of these services but what holds
them together: connections that come and go, sessions that are created, kept,
woken and closed from half a dozen goroutines, and pools of providers shared by
all of them. This directory models that part.

Paths below are relative to the repository; `chat.go` stands for
`internal/app/server/chat/chat.go`, and so on.

## 1. The system

### Components, their state and their operations

| component | state | operations | what is hard |
|---|---|---|---|
| Resource pool (`internal/util/resource_pool.go`) | map of resources, channel of idle ones, mutex, closed flag | Acquire, Release, cleanup, Resize, Close | the channel is read with and without the mutex |
| Pool manager (`internal/pool`) | a map of pools by provider and configuration | acquire/release by kind, statistics | creation on demand |
| MQTT+UDP adapter (`mqtt_udp/`) | lifecycle state per device, connection per device, UDP sessions, timers, message queue | online/offline events, hello (UDP rotation), goodbye, cleanup timer, activity check, reload | callbacks that decide under a lock and act after it; stamps from two clocks |
| Embedded broker (`internal/app/mqtt_server`) | library; hooks keep the device's session | emits online/offline | delivery through a bounded queue |
| App (`app.go`) | `chatManagers` by device | OnNewConnection, CloseChatManager, DeviceOnline/Offline, inject | look-up, close, remove and set are separate steps |
| ChatManager (`chat.go`) | current and starting session, hello flags, retained-session timer, pending speak request, closeOnce | hello, listen, goodbye, speak_ready, inject, transport ready, shutdown | two nested `sync.Once`s, wait channels, timers |
| ChatSession (`session.go`) | ASR/LLM/TTS managers, queues, contexts, closing | Start, the turn of a conversation, CloseWithReason | cancellation against completion |
| TTS manager (`tts.go`) | text queue, audio queue, delayed marks, generation, interrupt channel | speak, stop, interrupt, exclusive media playback, turn end | four queues, one sender, interruptions without a common lock |
| Media player (`media_player.go`) | active playback, queue position, attachment, exclusive output | play, pause, stop, next, append, attach, detach, recover | decides under a lock, acts on the output after it |
| ASR and LLM managers | loops, response queue | start, restart, turn | cancellation against completion |
| WebSocket server and connection | receive channels, closed flag | read loop, ping, Close | Close against the reader |
| Parent messages, stories, OpenClaw | progress and notification state | notify, poll, play, resume | once-only notification |
| Hook hub, event bus, queues, work queue | queues and workers | emit, push, close | close against push |
| Link to the manager (`config/manager/websocket_client.go`, backend `controllers/websocket.go`) | connection, readers, heartbeats, reconnect loop, response channels; registered client | dial, request, ping, reconnect, close | goroutines not tied to the connection they were started for |
| Tasks of voice cloning (backend `controllers/voice_clone_task_worker.go`, `voice_clone.go`) | rows of clones and tasks; a channel, waiting goroutines, two workers | submit, retry, delete, claim, finish, load after a start | the rows survive the process, what is queued does not |
| MCP, memory, RAG, speakers, vendor clients | connections to other services | requests | failure of the remote side |
| The rest of the manager backend, and its frontend | a database | CRUD over HTTP, a WebSocket to the servers | mostly transactions of the database |

`PROJECT.json` lists all of them with their files, including those that are not
modelled and why.

### How they interact

The broker's hook publishes `online`/`offline` to an internal topic. The adapter
queues these and the device's messages in one channel, which one goroutine
(`processMessage`) drains: it creates and rotates transports, and tells the App.
The App makes one ChatManager per device, which receives commands from its
connection, one at a time, and creates a ChatSession when a hello, a listen or
an injected speech needs one. The session borrows providers from the pools.
Closing runs the other way, and from every direction at once: the session closes
itself (exit phrase, fatal error, silence), the manager closes it (shutdown,
retention timeout), the connection's close callbacks close the manager, the
adapter's timer and ticker close the connection, the App closes a manager it
replaces.

In a session, the turn's goroutine hands sentences to the TTS manager and waits
for their end callbacks; a media playback, which belongs to the device and
outlives sessions, attaches itself to the session's speech output and takes it
for itself while it plays. The server fetches its configuration from the manager
backend over one WebSocket, on which the backend also pushes. The backend itself
answers HTTP requests from its database; the one thing it does behind them, with
workers of its own, is to have voices cloned by a provider.

## 2. Modules

| module | what it is |
|---|---|
| `ResourcePool` | the pool, its acquirers, its cleanup goroutine, Resize and Close |
| `ResourceLease` | what a pool promises: the abstract specification |
| `MqttTransport` | one device's lifecycle state, connection and UDP sessions, the broker's events, the App's reaction |
| `ChatManager` | one ChatManager and the sessions it starts, retains and closes |
| `TtsManager` | speech output of one session: a turn, synthesis, the sender, interruptions, media |
| `SentencePipeline` | what speech output promises a turn about its sentences: the abstract specification |
| `MediaPlayer` | media playback of one device across its sessions |
| `ManagerLink` | the WebSocket between server and manager backend, both ends |
| `VoiceCloneTasks` | the backend's voice-cloning tasks, in the database and in the process, across crashes |
| `MCResourcePool`, `MCMqttTransport`, `MCChatManager`, `MCTtsManager`, `MCMediaPlayer`, `MCManagerLink`, `MCVoiceCloneTasks` | instances for TLC |
| `ResourcePool_proofs`, `MqttTransport_proofs`, `ChatManager_proofs`, `ManagerLink_proofs`, `VoiceCloneTasks_proofs`, `MediaPlayer_proofs`, `TtsManager_proofs`, `TtsPipeline_proofs` | theorems and proofs |

An operator has the name of the Go function it models where there is one; an
operation with several observable steps is a disjunction under that name.
Operators marked `Fault:` are never part of a specification: they are small
plausible mistakes, each used to show that a property would notice it.

### ResourcePool

`resources` is the map, `available` the channel, `inUse` the flag of each
pooledResource, `idle` the age since its last use in ticks (saturating one past
the timeout), `broken` the resources whose `IsValid` turned false. A caller is
in `select`, `create`, carrying a resource through validation, or `holding`.
The mutex is not a variable: a critical section without channel operation is one
step, and the ones with channel operations (cleanup, Resize, Close) are
sequences of steps that exclude other critical sections (`Unlocked`) but not the
acquirers' receives. `SelectNil` is the panic of a receive from a closed channel;
after it the process is gone and no step is taken.

### MqttTransport

Devices share only the queue, so the module has one device. `life`, `cur` and
`armed` are the lifecycle states, the map entry and the timers; `reg` is
`deviceId2Conn`; `online`, `retained`, `udp` and `hooks` are the fields of
connections; `open` is `connId2Session`; `managed` and `shown` are what the App
has. The goroutines are `proc` (processMessage), a slot per running cleanup
callback, the ticker, whoever closes the ChatManager, and a reload. Each access
to a `sync.Map` and each critical section of a lifecycle state is a step, so
that two closers can be anywhere in `handleDisconnect` at once. `now` holds a
clock for each of `Hosts`: a lifecycle event is stamped by the broker's when it
is emitted (`device_hook.go:238`), a device message by the server's when it is
handled (`mqtt_udp_adapter.go:614`). With the broker in the server's process the
two are one; with the broker apart they drift, and a device message may be
refused as stale (`promoteRefused`); if no connection is registered then, the
push to nil ends the behaviour (`PushMsgToRecvCmd`, "panic"). Each clock by
itself never steps back.
Two history variables, which no action reads, say what became of connections
and sessions: `dead` (a closer has released the connection, or it has been taken
out of the map) and `strays` (sessions left open by one of two races, below).
Merged into one step is the reading of the old UDP session with the binding of
the new one (677-678): a release in between would close the old one twice, which
changes nothing.

### ChatManager

`session`, `starting` and `needFreshHello` are the fields under `sessionMu`,
`helloInited` the one under `helloMu`, `target` and `armed` the retained-session
timer, `pending` and `settled` the speak requests. A session is an identity with
`closing`, `body` (where the function given to `closeOnce.Do` is) and
`signalled` (its `startingSessionDone` is closed). A `sync.Once` runs its
function in the first caller and makes every caller wait for its end: the
function is an activity of its own (`body[s]`, `pc["shut"]`) and all callers
wait. The goroutines are `cmd` (cmdMessageLoop), the callers of InjectMessage,
`ready` (HandleMqttTransportReady), `timer`, `talk` (a session that ends by
itself), `close` and `net`. What a session does while open, the MCP runtime and
the parent messages are left out; the reasons explicit_exit, fatal_error and
audio_idle_timeout, which the manager treats alike, are one.

### TtsManager

`ttsQueue`, `audioQ`, `delayed` and `ready` are the text queue, the session audio
queue, the delayed sentence marks (with the tasks the delay loop has taken off)
and the marks that are due. `gen` is `audioGeneration`, `dropped` the sequence
number up to which sentences are void, `epoch` the identity of the interrupt
channel that an interruption closes and replaces. `cp` and `sp` are the
positions of the consumer (processTTSQueue) and of the sender (runSenderLoop);
`hand` is the element the sender holds while it waits for the frame's time. The
calls in `Stops`, `Asyncs` and `Medias` are stopSpeaking, the asynchronous
InterruptAndClearTTSQueue and BeginExclusiveMediaPlayback; each takes the steps
of clearing, bumping the generation, rotating the channel, offering the request
and waiting separately; clearing is itself two accesses, with the number read in
between kept in `loaded`, so that the slower of two calls may store the older
number. A turn of `Stories` waits for its sentences even when it is cancelled
(`waitTtsDrainWithoutCancel`). `settled` is a history variable: the highest generation
whose interruption was waited for. Synthesis yields one frame per sentence, or
fails.

`SentencePipeline` is the turn's view of all this: a sentence is not yet handed
over (stage 0), at one of six stages, or ended (stage 7). It passes from stage to
stage, behind those handed over before it, and from any stage it may end, which
is its end callback. The mapping (`Stage`) reads the six from `Places`: the
number just taken and not yet pushed, the text queue, the consumer, the audio
queue, the delay loop, the marks that are due. A sentence that is at none of
them and has not ended is mapped to a stage that does not exist, and so is not
allowed; `ended` is a set, but a sentence that ended and is still at some place
would be called back again, and `TtsSentencesAccounted` (section 4) excludes it.

### MediaPlayer

`active`, `status`, `pauseReason`, `resumeOnAttach`, `attachment`, `exclusive`,
`mode` and `index` are the fields of deviceMediaRuntime, `paused`, `held` and
`cancelled` those of its playbacks, `excl` is `mediaPlaybackActive` of each
session's TTSManager, which is all of TtsManager that matters here. Each critical
section of `r.mu` is a step and so is each call on a session's output, because
the code never makes the second inside the first. A control call is in `Calls`
and asks for one of `Kinds`; the recovery goroutine of an attachment is named by
its session. Tracks are indices; the model begins with a session attached and a
playback just started, and every other situation follows from there.

### ManagerLink

`conn` and `isConnected` are the fields every goroutine shares. `reader[c]` and
`heart[c]` are the goroutines started with connection `c`; `on[c]` is the
connection the reader really reads. `responseChans` is the map of pending
requests and `chan` the state of their channels. A reader handles a pushed
request in its loop, for as long as that takes ("handle"), and answers on
whatever connection there is by then, which it looks at twice (`ReaderResponds`,
`ReaderWrites`). On the other side `handler[c]` serves connection `c`, and
`clientsMap` and `active` are what removeClient and the pushes look at. A
handler looks an older registration up and replaces it in two steps, asks
whether it is still active before each read, and deactivates and removes a
registration in two steps; another handler fits in between. What panics in Go (a
second close, a send on a closed channel, a method on a nil connection) sets
`crashed` and ends the behaviour.

### VoiceCloneTasks

`task` and `clone` are the rows' statuses, "none" before they are inserted; they
are all that a crash leaves. `taskQueue` is the channel and `late` counts, for
each task, the goroutines that wait for room in it. `creating`, `rp`/`rt`,
`reload`/`pending` and `wp`/`wt` are where a submission, a retry, the load at the
start and a worker are. A transaction is one step where its writes say what they
depend on (`WHERE ... status IN`, `status != 'deleted'`); RetryVoiceClone writes
the clone on the strength of an earlier read, so that the read is a step of its
own, and its roll-back, whether the task has changed meanwhile or the database fails,
leaves both rows as they were (`RetryRollsBack`). Processing itself, whatever
the provider, is the time between `WorkerClaims` and `Finish`. Three history
variables speak of one life of the process: `own` (tasks submitted in it),
`twice` (those of them the load has found as well) and `dropped` (those a failed
transaction has left to nobody). The load queues its tasks in the order of
creation; the model in any order.

In the first three modules, identities of sessions, connections and requests are
reused when nothing refers to the object any more; the bounds on them limit how
many exist at a time, not how many are made.

## 3. What is checked

### Runs that pass

| run | instance | shows |
|---|---|---|
| `pool_core` | 2 callers, 4 resources, capacity 2, Resize to 1 or 3, Close | `ExclusiveUse`, `NothingLost`, `SizeBound`, `PutBackHasRoom` |
| `pool_live` | 2 callers, capacity 1 | the pool implements `ResourceLease`; every acquire returns |
| `mqtt_core` | 1 cleanup callback, reset, hello and command, failing creation, two clocks | `OnlyRacesLeak`, `BoundSessionOpen`, `RegisteredHasManager` |
| `mqtt_reload` | ticker and a reload, no cleanup timer | the activity check alone reclaims an offline device's transport |
| `chat_core` | both transports, an injector, rebuilt link, exits, lost transport | `LiveSessionHeld`, `ChannelClosedOnce`, `WaiterWillWake` |
| `chat_fair` | MQTT with speak requests, retained-session timer, exits, Close | every call returns |
| `tts_core` | a turn, stopSpeaking and a media playback, failing synthesis, closing | `NoStaleSpeech`, `MediaExclusive` |
| `tts_live` | a turn, an asynchronous interruption, a media playback, audio queue of one | `SentencePipeline` is implemented; the turn ends, interruptions are answered, a recorded stop is carried out |
| `link_core` | a request, two connections, one cut, Close, at most four goroutines busy | `RegisteredOpen`, `ClosedStaysClosed`, `Attended`, `RegisteredServed` |
| `clone_core` | 2 tasks, 2 workers, a retry, a channel of one, failing transactions, a crash | `StatusAgrees`, `NoTaskForgotten`, `RunsAlone`, `DeletedStays`; every task ends, or a failed transaction has dropped it until the next start |
| `media_core` | two of nine kinds of control calls, two sessions, two playbacks | `OneHolder`, `HolderWillRelease`, `ActiveRuns`, `StatusFits` |

The bounds are the smallest at which the cases happen. A pool of two with four
resource identities lets a resource be created while another is being destroyed
and a third held. Three device events and two clocks of two values give an
online, a message and an offline with equal stamps, different ones, and such as
contradict the order of things because the broker's clock is ahead of the
server's or behind it. Two sessions at a time and four arrivals let a hello, an
exit, an injection and a lost transport overlap; the third session of a run
reuses an identity. Retained-session timers are in `chat_fair`, not in
`chat_core`, to keep that run small. One turn of one sentence already passes
through all four queues of the TTS manager while two interruptions are under
way; an audio queue of one element makes every producer block. Two connections
and one cut give the old reader, the new one and the reconnect loop at once;
`Bound` of MCManagerLink lets at most four of the goroutines be between two of
their steps, the others waiting for a message, a tick or a response, as all do
most of the time: four are a request, the loop or Close, a reader and a handler,
or both handlers and both readers. Two calls, two sessions and two playbacks let
a playback be replaced while the old one is anywhere in its acquisition of the
output and the session changes under both. That run is bounded (`Bound` of
MCMediaPlayer): the output changes from one session to the next while a single
source is played, and the playlist is played on one session; one call pauses or
moves on in the playlist, the other starts, resumes, extends or stops. Two tasks
and a channel of one make the load, a submission and a retry compete for room
while both workers are busy; one crash gives a first and a second life, and
tasks of the first that are queued, running, or committed and not yet queued.

Two more configurations are kept beside the runs. `tts_pipeline.cfg` (a turn of
two sentences, a stop, failing synthesis, closing) checks the refinement of
`SentencePipeline` where one sentence could overtake another, which the single
sentence of `tts_live` cannot. `pool_fair.cfg` (1 caller, 2
resources, Close) finds that cleanup, which rotates fresh resources and stops at
the first, still reclaims every expired one (`ExpiredReclaimed`), and that Close,
which waits for cleanup, returns (`CloseReturns`). Its two faults,
`CleanupStartInverted` and `cancelledLate`, each break one of them. `pool_live`
has neither Resize nor Close; a shrinking Resize is in `pool_core`, and what it
does to liveness is among the disagreements. `tts_live` and `tts_core` differ in
the turn they have: that of the first tells a story, that of the second does not.

`CHECK_DEADLOCK FALSE` is used where the system may stop: after Close, after the
bounded number of events, or in the modelled crash. That goroutines do not wait
for each other for ever is stated by the liveness properties.

### Disagreements

Ten properties of the modules, each with a configuration beside it, are refuted
by the code. The first six say what a document, a comment or a test of the
repository says; the other four say what the code relies on without saying it.
`chat_ws` is listed among the runs, with its finding; the others are kept beside
them. `tlc -config X.cfg M` shows the counterexample.

| configuration | property | what happens |
|---|---|---|
| `mqtt_stale_stamp` | `StatusFollowsBroker` | a message handled late is stamped later than the offline event behind it (`mqtt_udp_adapter.go:614`), which is refused: the device stays online. `ai_doc/mqtt_lifecycle_transport_plan.md:108` has offline map to device offline |
| `mqtt_old_timer` | `OldTimerSparesNewConn` | a reconnect between the version check and Destroy (`mqtt_udp_adapter.go:489`) loses its transport to the old timer; line 151 of the same plan says the check prevents it |
| `mqtt_double_close` | `StaleCloseSparesFresh` | the slower of two closers deletes the connection registered in between (`mqtt_udp_adapter.go:326`), against `mqtt_udp_lifecycle_test.go:215` |
| `chat_ws` | `ExitClosesWebSocket` | a WebSocket session that ends by itself while its manager is being closed: the session's `sync.Once` calls shutdown, which waits for the manager's (`chat.go:1175`); the manager's closes the session, which waits for the session's (`chat.go:1222`). Neither returns and the connection stays open; `ai_doc/chat_session_lazy_reuse_refactor_plan.md:80` has it closed after an explicit exit |
| `chat_exit` | `ExitNeedsHello` | a listen or injection between unregistering a session and recording the need for a hello (`chat.go:1187`) gets a new session; `chat_session_close_test.go:111` looks only after the close has returned |
| `link_reconnect` | `ErrorDisconnectReconnects` | a connection that breaks before the loop that dialled it has cleared isRetrying (`websocket_client.go:429`) is not dialled again, against the comment at line 656 |
| `mqtt_late_rotate` | `SessionOwned` | a hello finds a connection that is then destroyed whole; `rotateDeviceUdpSession` (`mqtt_udp_adapter.go:673`) binds a new UDP session to it, which nobody closes: `cleanupSessions` is commented out (`udp_server.go:67`) |
| `mqtt_nil_push` | `PushHasConn` | a device message is stamped by a clock behind the broker's and refused as stale, and creating the transport had failed: `promoteDeviceOnline` returns nil (`mqtt_udp_adapter.go:531`) and line 639 pushes to it |
| `tts_story` | `StoryEnds` | a session is closed while a story's sentence is in ttsQueue: the consumer leaves (`tts.go:1253`) without dismissing it, and the turn waits for it in spite of the cancellation (`llm.go:585`), for ever |
| `pool_resize` | `ResizeReturns` | Resize shrinks a pool while too few resources are idle: `break` leaves the select and not the loop (`resource_pool.go:348`), which spins with the mutex that Release would need. Nothing in the repository calls Resize yet |

Further races the models reach and no property states: in VoiceCloneTasks, a
clone deleted while its task is queued comes back when a worker claims it
(`voice_clone_task_worker.go:152` updates the clone without asking whether it is
deleted, which the two transactions at the end do ask); a task submitted while
the start loads the unfinished ones is queued twice, and run by both workers at
once, so that the slower one's failure may replace the other's success; and a
transaction that fails leaves its task unfinished until the next start. In ManagerLink the
panics of a response channel closed twice or sent to when closed
(`websocket_client.go:257`, 923) and of a method on a nil connection (267, 646
and 953); the handler of a client's old connection deactivates the
registration of the new one (`controllers/websocket.go:254`). In MediaPlayer, a
recovery that decided before a user's pause undoes it after, because
recoverActivePlayback does not look at pauseReason; a pause between waitIfPaused
and the confirmation leaves the output exclusive while paused; advanceAfterTrack
reports playing for a paused playback; and a begin that fails because a release
is still on its way drops a healthy attachment. In ChatManager, a session that is
made after shutdown has looked for one (`chat.go:1216`) stays registered with a
manager whose closeOnce is spent. In MqttTransport the two races that
`OnlyRacesLeak` excepts: the one of `mqtt_late_rotate`, and a closer that deletes
the map's entry when it has become that of a connection nobody has released, as
in `mqtt_double_close`, so that its UDP session is never closed.

Four properties are narrower than the hazard beside them, because the code does
not avoid the rest of it: `RegisteredServed` says that a registration has a
handler, not that a live connection stays registered; `StatusFits` allows
"playing" for a paused playback; `DeletedStays` is about deletions after the
task has ended, with no retry that has read the clone before; `TaskSettles` lets
off what a failed transaction has dropped.

### Fairness

Weak fairness of each goroutine that can run (the Go scheduler), of timers that
are armed and not stopped, and of session.Start. Nothing is assumed of devices,
the network or callers: they may send nothing, never release a resource, and
never call Close. Strong fairness is assumed in a few places. In the pool, a
caller's `select` whose deadline case is ready again and again takes it in the
end, since Go chooses among ready cases at random; and whoever waits for the
pool's mutex gets it in the end, since Go's mutex hands itself over to a waiter
that is starving. In the transport, the ticker that visits a retained connection
again and again finds it inactive in the end, since the retention is a time
limit. In the chat manager, an injector that polls for a session notices its
deadline in the end, for the same reason. In the TTS manager every goroutine has
weak fairness, and so has an interruption or a media playback once it has begun:
its media ends. In the backend every goroutine has weak fairness, a run ends
because of its limit of five minutes, and nothing is assumed of requests, crashes
or restarts. The link's `FairSpec` adds strong fairness of the loop's dial,
which alternates with its back-off.

## 4. What is proved

For every value of the constants, subject to the assumptions named in the
modules (`PoolAssumption`: what NewResourcePool accepts; `TransportAssumption`,
`ChatAssumption`, `LinkAssumption`, `TaskAssumption`, `MediaAssumption` and
`TtsAssumption`: names do not clash, bounds are numbers):

* **ResourcePool**: `TypeOK`, `ExclusiveUse`, `NothingLost`, `SizeBound`,
  `ReleaseAccepted`, `PutBackHasRoom`, `IdleBound`, and the refinement of
  `ResourceLease` by a pool that is neither resized nor closed. The invariant
  adds to the properties what each goroutine has in hand at each point
  (`GotInv`, `CleanerInv`), who excludes whom (`LockInv`), that a resource held
  is marked (`InUseInv`), and the exact size during a Resize (`SizeInv`): without
  these, `NothingLost` does not survive a step, because a resource that has left
  the channel would be nowhere. `IdleBound` needs the room left by the cleanup
  while it has a resource in hand (`ChannelInv`).
* **MqttTransport**: `TypeOK`, `OnlyRacesLeak`, `BoundSessionOpen`,
  `RegisteredHasManager`, for one clock and for two. `OnlyRacesLeak` says of every
  open UDP session that the registered connection has it, or a rotation in hand,
  or that it was left behind in one of two situations which the history variables
  record when they happen. `SessionInv` makes that inductive: a session belongs
  to one connection, so that closing one closes nobody else's; a connection a
  closer has done with has no session but such a stray; and processMessage works
  on the registered connection or on one a closer has done with.
  `RegisteredHasManager` needs `ManagerInv`: what each of several closers has
  found in the map, and whether its own entry can still be there.

* **ChatManager**: `TypeOK`, `LiveSessionHeld`, `ChannelClosedOnce`,
  `WaiterWillWake`. None is inductive by itself. The invariant adds what every
  goroutine has in hand (`AtInv`), that the closing flag comes before the close
  handler (`CloseInv`), that a session past the handler's critical section is
  registered nowhere (`HeldInv`), and, as the centre of the argument, that the
  entry `starting` is the right to close the start channel (`SignalInv`,
  `StarterInv`, `WaitInv`): while it is there the channel is open and somebody is
  on the way to finishSessionStart, and who removes it, finishSessionStart or the
  close handler, is the only one to close the channel. Five steps register,
  unregister or signal and are proved one by one; all others are shown to be
  `Tame`, and one lemma does for those.

* **ManagerLink**: `TypeOK`, `RegisteredOpen`, `ClosedStaysClosed`, `Attended`,
  `RegisteredServed`. With the types, `RegisteredOpen` and `Attended` are
  inductive: a channel is closed by the step that unregisters it, and the step
  that drops a connection, whoever takes it, leaves none to attend to.
  `ClosedStaysClosed` needs `CloseBegun` (the shutdown flag is up once Close has
  begun, so that a leftover reader or heartbeat cannot start another loop) and
  `RegisteredServed` needs `NoHandlerYet` (a new connection's handler is not one
  that is registered already).

* **VoiceCloneTasks**: `TypeOK`, `StatusAgrees`, `NoTaskForgotten`, `RunsAlone`,
  `DeletedStays`. `RunsAlone` needs to know of all the places a task may be in,
  not only of the workers: unless the load came on top of a submission, a task
  has at most one of them, and none once it has ended (`Copies`). That is kept
  because every step moves a task from one place to the next (lemma `Moves`),
  takes it out (`Leaves`) or puts in one that had no place (`Submitted`). The
  first two also carry `NoTaskForgotten`, which needs `OwnHeld` for the case
  that the load fails, and `Fresh` and `Down` for what a new process does not
  hold. `StatusAgrees` (for any number of retries; the run has one) and
  `DeletedStays` need only that a task not submitted has no clone (`NotYet`).

* **MediaPlayer**: `TypeOK`, `OneHolder`, `HolderWillRelease`, `ActiveRuns`,
  `StatusFits`. `OneHolder` counts; the invariant says the same pointwise: for
  each session, an exclusive output has exactly one party answerable for it and
  any other has none (`Holds`, `Owned`, `AllOwned`). The steps fall into few
  kinds (somebody takes the output, passes it on, gives it up, or has nothing to
  do with it), each with a lemma, and the cardinality appears only in the
  theorem. `PlayInv` and `CallInv` say what a playback and a call may have in
  hand where; `CancelInv`, that playbacks are numbered upwards and a call never
  cancels the active one; `IndexInv` and `TrackInv`, that what was read of the
  queue stays within it, because the playlist only grows.

* **TtsManager**: `TypeOK`, `NoStaleSpeech`, `MediaExclusive`, and that at most
  one playback has the output or is on the way to it. `NoStaleSpeech` rests on
  `ServedInv`: from the moment the sender has served a request, before whoever
  asked has noticed, it has no frame older than that request's generation, and
  the channel holds no request that has no generation yet. `MediaExclusive`
  rests on `MediaInv`: once a playback has its generation, every sentence past
  the wait for the flag, and every frame in the queue, is older, so that the
  sender drops it; `EngagedInv` keeps a second playback, or a stop, from
  resetting the flag under the first. `CountInv` bounds the sequence numbers. That
  a call may have read the number it will store long before (`loaded`) is part of
  the types: it is never ahead of the last number handed out.

* **TtsManager implements SentencePipeline** (`TtsPipeline_proofs`), for any
  number of turns, sentences, stops and playbacks. What an action does to the
  places of the sentences is one of three things, for which there are three
  lemmas about arbitrary sets (`Enters`, `GoesOn`, `Leave`): they keep the places
  in the order of the numbers (`InOrder`) and every number at one place or ended
  (`Accounted`), and they are the three actions of the abstract specification.
  That the queues are in order (`QueuesInv`) makes their heads the sentences that
  may go on. `TtsSentencesAccounted` states the invariant itself: waitForTTSTurnDrain,
  which counts end callbacks, is told neither too little nor too much.

What is assumed of clocks is only that each of a host's goes forward; nothing is
assumed of how two of them compare.

Liveness is only model-checked, because the prover handles neither fairness nor
ENABLED: that acquires, injections and interruptions return, that a turn and a
task end, that a retained transport is reclaimed. The properties in section 3
that the code refutes have no theorems, of course. Every safety invariant of the
passing runs, and both refinements, are proved. `ReleaseAccepted` of the pool is
proved and no run checks it.

## 5. What is not modelled

The contents of messages, audio and text; the UDP packet path and its
encryption; vendor clients; the database application of the manager, except for
the tasks of voice cloning, of which quotas, audio files, sharing and appended
audio are left out. In the
modelled components: Stop of the adapter, MCP initialisation and parent messages
of the ChatManager, statistics of the pool; of the TTS manager the dual-stream
modes, trace metrics, the policy at the end of a turn and the listen state that
follows a stop; of the media player sources, decoding, positions and the
two-second wait for an old goroutine, which promises nothing; of the link the
message queue with its workers, which nothing calls, callbacks of pushed
requests and the backend's own heartbeat. Data races on plain booleans
(`helloInited`, `needFreshHello`, the link's fields) are modelled as atomic
accesses in any order.

Most of the repository is not control but data: the manager's HTTP controllers
and its Vue frontend, a client per vendor of ASR, LLM, TTS and memory services,
text generation and codecs. There is little there a model would say more about
than the code does, so the modules cover a small part of its lines: the part in
which several goroutines share state. Of that part, the ASR loop, the WebSocket
connection, the App's map of managers, parent messages, OpenClaw and MCP remain.

## 6. Plan

1. Done: pool, transport, chat manager, manager link, voice-cloning tasks, speech
   output and media player, each with the proofs of its invariants; the
   refinements of `ResourceLease` and `SentencePipeline`.
2. Action properties from the same invariants: a generation once settled is never
   reopened, a session once closing is never registered again.
3. `App`: racing OnNewConnection and CloseChatManager over `chatManagers`,
   composed with an abstract ChatManager; `WebSocketConn`: reader, pinger, Close.
4. The ASR loop and its restarts; MCP initialisation (`mcpInitState`) and the
   once-only parent-message notification; OpenClaw's pending responses.
5. The refinement by `ChatManager` of an abstract session life cycle (none,
   starting, current, closing) once the App module uses it.
