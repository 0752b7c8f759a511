----------------------- MODULE VoiceCloneTasks_proofs -----------------------
(***************************************************************************)
(* Proofs about the tasks of voice cloning.                                *)
(***************************************************************************)
EXTENDS VoiceCloneTasks, TLAPS

\* The type invariant, in the parts a step may leave alone.
RowsOK ==
    /\ task \in [Tasks -> {"none", "queued", "processing", "succeeded", "failed"}]
    /\ clone \in [Tasks -> {"none", "processing", "active", "failed", "deleted"}]

LifeOK == up \in BOOLEAN /\ crashes \in 0 .. MaxCrashes

RetriesOK ==
    /\ rp \in [Retries -> {"new", "write", "push", "over"}]
    /\ rt \in [Retries -> Tasks \union {NoTask}]
    /\ \A r \in Retries : rp[r] \in {"write", "push"} => rt[r] \in Tasks

LoadOK == reload \in {"query", "push"} /\ pending \subseteq Tasks

LineOK ==
    /\ taskQueue \in Seq(Tasks) /\ Len(taskQueue) <= QueueSize
    /\ late \in [Tasks -> Nat]

WorkersOK ==
    /\ wp \in [Workers -> {"idle", "claim", "run"}]
    /\ wt \in [Workers -> Tasks \union {NoTask}]
    /\ \A w \in Workers : wp[w] # "idle" => wt[w] \in Tasks

HistoryOK == own \subseteq Tasks /\ twice \subseteq Tasks /\ dropped \subseteq Tasks

Types == /\ RowsOK /\ LifeOK /\ creating \subseteq Tasks /\ RetriesOK /\ LoadOK
         /\ LineOK /\ WorkersOK /\ HistoryOK

LEMMA TypesAreTypeOK == Types <=> TypeOK
BY DEF Types, TypeOK, RowsOK, LifeOK, RetriesOK, LoadOK, LineOK, WorkersOK, HistoryOK

-----------------------------------------------------------------------------
(***************************************************************************)
(* The line of tasks: the channel and those who wait for room in it.       *)
(***************************************************************************)
Queued(t) == \E i \in 1 .. Len(taskQueue) : taskQueue[i] = t

QueuedOnce(t) ==
    \A i, j \in 1 .. Len(taskQueue) : taskQueue[i] = t /\ taskQueue[j] = t => i = j

\* A task is in the line at most once.
LineOnce(t) == late[t] <= 1 /\ (late[t] > 0 => ~Queued(t)) /\ QueuedOnce(t)

LEMMA Appended ==
    ASSUME LineOK, NEW t \in Tasks, Len(taskQueue) < QueueSize,
           taskQueue' = Append(taskQueue, t)
    PROVE  /\ taskQueue' \in Seq(Tasks) /\ Len(taskQueue') <= QueueSize
           /\ \A u \in Tasks : Queued(u)' <=> (Queued(u) \/ u = t)
           /\ \A u \in Tasks : QueuedOnce(u) /\ (u = t => ~Queued(u)) => QueuedOnce(u)'
<1>1. taskQueue \in Seq(Tasks) /\ Len(taskQueue) \in Nat
  BY DEF LineOK
<1>2. /\ taskQueue' \in Seq(Tasks) /\ Len(taskQueue') = Len(taskQueue) + 1
      /\ \A i \in 1 .. Len(taskQueue) : taskQueue'[i] = taskQueue[i]
      /\ taskQueue'[Len(taskQueue) + 1] = t
  BY <1>1
<1>3. Len(taskQueue') <= QueueSize
  BY <1>1, <1>2, TaskAssumption
<1>4. ASSUME NEW u \in Tasks
      PROVE  Queued(u)' <=> (Queued(u) \/ u = t)
  BY <1>1, <1>2 DEF Queued
<1>5. ASSUME NEW u \in Tasks, QueuedOnce(u), u = t => ~Queued(u)
      PROVE  QueuedOnce(u)'
  <2>. SUFFICES ASSUME NEW i \in 1 .. Len(taskQueue'), NEW j \in 1 .. Len(taskQueue'),
                       taskQueue'[i] = u, taskQueue'[j] = u
                PROVE  i = j
    BY DEF QueuedOnce
  <2>1. CASE i \in 1 .. Len(taskQueue) /\ j \in 1 .. Len(taskQueue)
    BY <1>2, <1>5, <2>1 DEF QueuedOnce
  <2>2. CASE i \notin 1 .. Len(taskQueue) \/ j \notin 1 .. Len(taskQueue)
    BY <1>1, <1>2, <1>5, <2>2 DEF Queued
  <2>. QED  BY <2>1, <2>2
<1>. QED  BY <1>2, <1>3, <1>4, <1>5

LEMMA Received ==
    ASSUME LineOK, taskQueue # <<>>, NEW t, t = Head(taskQueue),
           taskQueue' = Tail(taskQueue)
    PROVE  /\ t \in Tasks
           /\ taskQueue' \in Seq(Tasks) /\ Len(taskQueue') <= QueueSize
           /\ Queued(t)
           /\ \A u \in Tasks \ {t} : Queued(u)' <=> Queued(u)
           /\ \A u \in Tasks : QueuedOnce(u) => QueuedOnce(u)'
           /\ QueuedOnce(t) => ~Queued(t)'
<1>1. taskQueue \in Seq(Tasks) /\ Len(taskQueue) \in Nat \ {0}
  BY DEF LineOK
<1>2. /\ t \in Tasks /\ t = taskQueue[1]
      /\ taskQueue' \in Seq(Tasks) /\ Len(taskQueue') = Len(taskQueue) - 1
      /\ \A i \in 1 .. Len(taskQueue) - 1 : taskQueue'[i] = taskQueue[i + 1]
  BY <1>1
<1>3. Len(taskQueue') <= QueueSize
  BY <1>1, <1>2, TaskAssumption DEF LineOK
<1>4. Queued(t)
  BY <1>1, <1>2 DEF Queued
<1>5. ASSUME NEW u \in Tasks \ {t}
      PROVE  Queued(u)' <=> Queued(u)
  <2>1. ASSUME Queued(u)
        PROVE  Queued(u)'
    <3>1. PICK i \in 1 .. Len(taskQueue) : taskQueue[i] = u
      BY <2>1 DEF Queued
    <3>2. i - 1 \in 1 .. Len(taskQueue') /\ taskQueue'[i - 1] = u
      <4>1. i # 1
        BY <1>2, <3>1
      <4>2. i - 1 \in 1 .. Len(taskQueue) - 1 /\ (i - 1) + 1 = i
        BY <1>1, <4>1
      <4>. QED  BY <1>2, <3>1, <4>2
    <3>. QED  BY <3>2 DEF Queued
  <2>2. ASSUME Queued(u)'
        PROVE  Queued(u)
    <3>1. PICK i \in 1 .. Len(taskQueue') : taskQueue'[i] = u
      BY <2>2 DEF Queued
    <3>2. i + 1 \in 1 .. Len(taskQueue) /\ taskQueue[i + 1] = u
      BY <1>1, <1>2, <3>1
    <3>. QED  BY <3>2 DEF Queued
  <2>. QED  BY <2>1, <2>2
<1>6. ASSUME NEW u \in Tasks, QueuedOnce(u)
      PROVE  QueuedOnce(u)'
  <2>. SUFFICES ASSUME NEW i \in 1 .. Len(taskQueue'), NEW j \in 1 .. Len(taskQueue'),
                       taskQueue'[i] = u, taskQueue'[j] = u
                PROVE  i = j
    BY DEF QueuedOnce
  <2>1. /\ i + 1 \in 1 .. Len(taskQueue) /\ taskQueue[i + 1] = u
        /\ j + 1 \in 1 .. Len(taskQueue) /\ taskQueue[j + 1] = u
    BY <1>1, <1>2
  <2>2. i + 1 = j + 1
    BY <1>6, <2>1 DEF QueuedOnce
  <2>. QED  BY <1>1, <1>2, <2>2
<1>7. ASSUME QueuedOnce(t), Queued(t)'
      PROVE  FALSE
  <2>1. PICK i \in 1 .. Len(taskQueue') : taskQueue'[i] = t
    BY <1>7 DEF Queued
  <2>2. i + 1 \in 1 .. Len(taskQueue) /\ taskQueue[i + 1] = t
    BY <1>1, <1>2, <2>1
  <2>3. i + 1 = 1
    BY <1>1, <1>2, <1>7, <2>2 DEF QueuedOnce
  <2>. QED  BY <1>1, <1>2, <2>1, <2>3
<1>. QED  BY <1>2, <1>3, <1>4, <1>5, <1>6, <1>7

\* However a task is queued, the line gets it and no other.
LEMMA EnqueueLine ==
    ASSUME LineOK, NEW t \in Tasks, Enqueue(t)
    PROVE  /\ LineOK'
           /\ InLine(t)'
           /\ \A u \in Tasks \ {t} : InLine(u)' <=> InLine(u)
           /\ \A u \in Tasks : LineOnce(u) /\ (u = t => ~InLine(u)) => LineOnce(u)'
<1>1. CASE Len(taskQueue) < QueueSize
  <2>1. taskQueue' = Append(taskQueue, t) /\ late' = late
    BY <1>1 DEF Enqueue
  <2>2. /\ taskQueue' \in Seq(Tasks) /\ Len(taskQueue') <= QueueSize
        /\ \A u \in Tasks : Queued(u)' <=> (Queued(u) \/ u = t)
        /\ \A u \in Tasks : QueuedOnce(u) /\ (u = t => ~Queued(u)) => QueuedOnce(u)'
    BY <1>1, <2>1, Appended
  <2>3. LineOK'
    BY <2>1, <2>2 DEF LineOK
  <2>4. \A u \in Tasks : /\ InLine(u) <=> (late[u] > 0 \/ Queued(u))
                         /\ InLine(u)' <=> (late'[u] > 0 \/ Queued(u)')
    BY DEF InLine, Queued
  <2>5. \A u \in Tasks : LineOnce(u) /\ (u = t => ~InLine(u)) => LineOnce(u)'
    BY <2>1, <2>2, <2>4 DEF LineOnce
  <2>. QED  BY <2>1, <2>2, <2>3, <2>4, <2>5
<1>2. CASE ~(Len(taskQueue) < QueueSize)
  <2>1. taskQueue' = taskQueue /\ late' = [late EXCEPT ![t] = @ + 1]
    BY <1>2 DEF Enqueue
  <2>2. late' \in [Tasks -> Nat] /\ late'[t] = late[t] + 1 /\ late[t] \in Nat
    BY <2>1 DEF LineOK
  <2>3. \A u \in Tasks \ {t} : late'[u] = late[u]
    BY <2>1 DEF LineOK
  <2>4. \A u \in Tasks : (Queued(u)' <=> Queued(u)) /\ (QueuedOnce(u)' <=> QueuedOnce(u))
    BY <2>1 DEF Queued, QueuedOnce
  <2>5. \A u \in Tasks : /\ InLine(u) <=> (late[u] > 0 \/ Queued(u))
                         /\ InLine(u)' <=> (late'[u] > 0 \/ Queued(u)')
    BY DEF InLine, Queued
  <2>6. LineOK'
    BY <2>1, <2>2 DEF LineOK
  <2>7. InLine(t)' /\ \A u \in Tasks \ {t} : InLine(u)' <=> InLine(u)
    BY <2>2, <2>3, <2>4, <2>5
  <2>8. \A u \in Tasks : LineOnce(u) /\ (u = t => ~InLine(u)) => LineOnce(u)'
    BY <2>2, <2>3, <2>4, <2>5 DEF LineOnce
  <2>. QED  BY <2>6, <2>7, <2>8
<1>. QED  BY <1>1, <1>2

\* One that waited gets its place in the channel.
LEMMA LateLine ==
    ASSUME LineOK, NEW t \in Tasks, LateEnqueues(t)
    PROVE  /\ LineOK'
           /\ \A u \in Tasks : InLine(u)' <=> InLine(u)
           /\ \A u \in Tasks : LineOnce(u) => LineOnce(u)'
<1>1. /\ late[t] > 0 /\ Len(taskQueue) < QueueSize
      /\ taskQueue' = Append(taskQueue, t) /\ late' = [late EXCEPT ![t] = @ - 1]
  BY DEF LateEnqueues
<1>2. /\ taskQueue' \in Seq(Tasks) /\ Len(taskQueue') <= QueueSize
      /\ \A u \in Tasks : Queued(u)' <=> (Queued(u) \/ u = t)
      /\ \A u \in Tasks : QueuedOnce(u) /\ (u = t => ~Queued(u)) => QueuedOnce(u)'
  BY <1>1, Appended
<1>3. late \in [Tasks -> Nat]
  BY DEF LineOK
<1>4. late' \in [Tasks -> Nat] /\ late'[t] = late[t] - 1 /\ late[t] \in Nat
  BY <1>1, <1>3
<1>5. \A u \in Tasks \ {t} : late'[u] = late[u]
  BY <1>1, <1>3
<1>6. \A u \in Tasks : /\ InLine(u) <=> (late[u] > 0 \/ Queued(u))
                       /\ InLine(u)' <=> (late'[u] > 0 \/ Queued(u)')
  BY DEF InLine, Queued
<1>7. LineOK'
  BY <1>2, <1>4 DEF LineOK
<1>8. \A u \in Tasks : InLine(u)' <=> InLine(u)
  BY <1>1, <1>2, <1>5, <1>6
<1>9. ASSUME NEW u \in Tasks, LineOnce(u)
      PROVE  LineOnce(u)'
  <2>1. CASE u = t
    BY <1>1, <1>2, <1>4, <1>9, <2>1 DEF LineOnce
  <2>2. CASE u # t
    BY <1>2, <1>5, <1>9, <2>2 DEF LineOnce
  <2>. QED  BY <2>1, <2>2
<1>. QED  BY <1>7, <1>8, <1>9

\* A worker takes the first one out.
LEMMA PickLine ==
    ASSUME LineOK, taskQueue # <<>>, NEW t, t = Head(taskQueue),
           taskQueue' = Tail(taskQueue), late' = late
    PROVE  /\ LineOK' /\ t \in Tasks /\ InLine(t)
           /\ \A u \in Tasks \ {t} : InLine(u)' <=> InLine(u)
           /\ \A u \in Tasks : LineOnce(u) => LineOnce(u)'
           /\ LineOnce(t) => ~InLine(t)'
<1>1. /\ t \in Tasks
      /\ taskQueue' \in Seq(Tasks) /\ Len(taskQueue') <= QueueSize
      /\ Queued(t)
      /\ \A u \in Tasks \ {t} : Queued(u)' <=> Queued(u)
      /\ \A u \in Tasks : QueuedOnce(u) => QueuedOnce(u)'
      /\ QueuedOnce(t) => ~Queued(t)'
  BY Received
<1>2. \A u \in Tasks : /\ InLine(u) <=> (late[u] > 0 \/ Queued(u))
                       /\ InLine(u)' <=> (late'[u] > 0 \/ Queued(u)')
  BY DEF InLine, Queued
<1>3. LineOK'
  BY <1>1 DEF LineOK
<1>4. \A u \in Tasks : LineOnce(u) => LineOnce(u)'
  BY <1>1 DEF LineOnce
<1>5. LineOnce(t) => ~InLine(t)'
  BY <1>1, <1>2 DEF LineOnce
<1>. QED  BY <1>1, <1>2, <1>3, <1>4, <1>5

LEMMA SameLine ==
    ASSUME UNCHANGED queueVars
    PROVE  /\ LineOK => LineOK'
           /\ \A u \in Tasks : (InLine(u)' <=> InLine(u)) /\ (LineOnce(u)' <=> LineOnce(u))
BY DEF queueVars, LineOK, InLine, LineOnce, Queued, QueuedOnce

-----------------------------------------------------------------------------
(***************************************************************************)
(* The strengthenings.  A task has at most one place in the process, unless *)
(* the start has loaded it on top of a submission.                         *)
(***************************************************************************)
WorkOnce(t) ==
    \A v, w \in Workers :
        wp[v] # "idle" /\ wp[w] # "idle" /\ wt[v] = t /\ wt[w] = t => v = w

PushOnce(t) ==
    \A q, r \in Retries :
        rp[q] = "push" /\ rp[r] = "push" /\ rt[q] = t /\ rt[r] = t => q = r

Once(t) ==
    /\ t \in creating => t \notin pending /\ ~InLine(t) /\ ~InWork(t) /\ ~Pushed(t)
    /\ t \in pending => ~InLine(t) /\ ~InWork(t) /\ ~Pushed(t)
    /\ InLine(t) => ~InWork(t) /\ ~Pushed(t)
    /\ InWork(t) => ~Pushed(t)
    /\ LineOnce(t) /\ WorkOnce(t) /\ PushOnce(t)

\* A process that is down has nothing in hand.
Down == ~up => /\ twice = {} /\ \A t \in Tasks : ~Held(t)
               /\ \A r \in Retries : rp[r] \notin {"write", "push"}

\* What was submitted in this life need not be loaded.
OwnHeld == \A t \in own : Unfinished(t) => Held(t) \/ t \in dropped

\* Before the load the process holds only what was submitted to it.
Fresh == reload = "query" => /\ twice = {} /\ pending = {}
                             /\ \A t \in Tasks \ own : ~Held(t)

Copies == \A t \in Tasks : t \notin twice => Once(t) /\ (~Unfinished(t) => ~Held(t))

Inv == Down /\ OwnHeld /\ NoTaskForgotten /\ Fresh /\ Copies

\* A step that only moves a task on from one place to the next.
LEMMA Moves ==
    ASSUME Inv, HistoryOK,
           \A u \in Tasks : /\ Unfinished(u)' <=> Unfinished(u)
                            /\ Held(u)' <=> Held(u)
                            /\ Once(u) => Once(u)',
           UNCHANGED <<up, reload, historyVars>>,
           pending' \subseteq pending,
           ~up => \A r \in Retries : rp'[r] \notin {"write", "push"}
    PROVE  Inv'
<1>1. Down'
  BY DEF Inv, Down, historyVars
<1>2. OwnHeld'
  BY DEF Inv, OwnHeld, HistoryOK, historyVars
<1>3. NoTaskForgotten'
  BY DEF Inv, NoTaskForgotten, historyVars
<1>4. Fresh'
  BY DEF Inv, Fresh, historyVars
<1>5. Copies'
  BY DEF Inv, Copies, historyVars
<1>. QED  BY <1>1, <1>2, <1>3, <1>4, <1>5 DEF Inv

\* A step with which a task leaves, because it has ended or is given up.
LEMMA Leaves ==
    ASSUME Inv, HistoryOK, NEW t \in Tasks,
           \A u \in Tasks \ {t} : /\ Unfinished(u)' <=> Unfinished(u)
                                  /\ Held(u)' <=> Held(u),
           \A u \in Tasks : Once(u) => Once(u)',
           Held(t)' => Held(t),
           Unfinished(t)' => t \in dropped',
           ~Unfinished(t)' => (t \in twice \/ ~Held(t)'),
           dropped \subseteq dropped',
           UNCHANGED <<up, reload, own, twice, pending, rp>>
    PROVE  Inv'
<1>1. Down'
  BY DEF Inv, Down
<1>2. OwnHeld'
  BY DEF Inv, OwnHeld, HistoryOK
<1>3. NoTaskForgotten'
  BY DEF Inv, NoTaskForgotten
<1>4. Fresh'
  BY DEF Inv, Fresh
<1>5. Copies'
  BY DEF Inv, Copies
<1>. QED  BY <1>1, <1>2, <1>3, <1>4, <1>5 DEF Inv

\* A step with which a task that had no place gets one: it is submitted.
LEMMA Submitted ==
    ASSUME Inv, HistoryOK, NEW t \in Tasks, up,
           \A u \in Tasks \ {t} : /\ Unfinished(u)' <=> Unfinished(u)
                                  /\ Held(u)' <=> Held(u)
                                  /\ Once(u) => Once(u)',
           Unfinished(t)', Held(t)', t \notin twice => Once(t)',
           own' = own \union {t}, dropped \ {t} \subseteq dropped',
           UNCHANGED <<up, reload, twice, pending>>
    PROVE  Inv'
<1>1. Down'
  BY DEF Inv, Down
<1>2. OwnHeld'
  BY DEF Inv, OwnHeld, HistoryOK
<1>3. NoTaskForgotten'
  BY DEF Inv, NoTaskForgotten
<1>4. Fresh'
  BY DEF Inv, Fresh
<1>5. Copies'
  BY DEF Inv, Copies
<1>. QED  BY <1>1, <1>2, <1>3, <1>4, <1>5 DEF Inv

-----------------------------------------------------------------------------
(***************************************************************************)
(* What the workers and the retries have in hand.                          *)
(***************************************************************************)
LEMMA SameWork ==
    ASSUME UNCHANGED workerVars
    PROVE  /\ WorkersOK => WorkersOK'
           /\ \A u \in Tasks : (InWork(u)' <=> InWork(u)) /\ (WorkOnce(u)' <=> WorkOnce(u))
BY DEF workerVars, WorkersOK, InWork, WorkOnce

LEMMA TakeWork ==
    ASSUME WorkersOK, NEW w \in Workers, NEW t \in Tasks, wp[w] = "idle",
           wp' = [wp EXCEPT ![w] = "claim"], wt' = [wt EXCEPT ![w] = t]
    PROVE  /\ WorkersOK' /\ InWork(t)'
           /\ \A u \in Tasks \ {t} : InWork(u)' <=> InWork(u)
           /\ \A u \in Tasks : WorkOnce(u) /\ (u = t => ~InWork(u)) => WorkOnce(u)'
<1>1. /\ wp' \in [Workers -> {"idle", "claim", "run"}]
      /\ wt' \in [Workers -> Tasks \union {NoTask}]
      /\ wp'[w] = "claim" /\ wt'[w] = t
      /\ \A v \in Workers \ {w} : wp'[v] = wp[v] /\ wt'[v] = wt[v]
  BY DEF WorkersOK
<1>2. WorkersOK'
  BY <1>1 DEF WorkersOK
<1>3. InWork(t)' /\ \A u \in Tasks \ {t} : InWork(u)' <=> InWork(u)
  BY <1>1 DEF InWork
<1>4. \A u \in Tasks : WorkOnce(u) /\ (u = t => ~InWork(u)) => WorkOnce(u)'
  BY <1>1 DEF InWork, WorkOnce
<1>. QED  BY <1>2, <1>3, <1>4

LEMMA KeepWork ==
    ASSUME WorkersOK, NEW w \in Workers, wp[w] = "claim",
           wp' = [wp EXCEPT ![w] = "run"], wt' = wt
    PROVE  /\ WorkersOK'
           /\ \A u \in Tasks : /\ InWork(u)' <=> InWork(u)
                               /\ WorkOnce(u) => WorkOnce(u)'
<1>1. /\ wp' \in [Workers -> {"idle", "claim", "run"}]
      /\ \A v \in Workers : wp'[v] # "idle" <=> wp[v] # "idle"
  BY DEF WorkersOK
<1>. QED  BY <1>1 DEF WorkersOK, InWork, WorkOnce

LEMMA LeaveWork ==
    ASSUME WorkersOK, NEW w \in Workers, NEW t \in Tasks, wp[w] # "idle", wt[w] = t,
           wp' = [wp EXCEPT ![w] = "idle"], wt' = [wt EXCEPT ![w] = NoTask]
    PROVE  /\ WorkersOK' /\ InWork(t)
           /\ \A u \in Tasks \ {t} : InWork(u)' <=> InWork(u)
           /\ \A u \in Tasks : WorkOnce(u) => WorkOnce(u)'
           /\ WorkOnce(t) => ~InWork(t)'
<1>1. /\ wp' \in [Workers -> {"idle", "claim", "run"}]
      /\ wt' \in [Workers -> Tasks \union {NoTask}]
      /\ wp'[w] = "idle"
      /\ \A v \in Workers \ {w} : wp'[v] = wp[v] /\ wt'[v] = wt[v]
  BY DEF WorkersOK
<1>2. WorkersOK'
  BY <1>1 DEF WorkersOK
<1>3. InWork(t) /\ \A u \in Tasks \ {t} : InWork(u)' <=> InWork(u)
  BY <1>1 DEF InWork
<1>4. \A u \in Tasks : WorkOnce(u) => WorkOnce(u)'
  BY <1>1 DEF WorkOnce
<1>5. WorkOnce(t) => ~InWork(t)'
  BY <1>1 DEF InWork, WorkOnce
<1>. QED  BY <1>2, <1>3, <1>4, <1>5

LEMMA SameRetry ==
    ASSUME UNCHANGED retryVars
    PROVE  /\ RetriesOK => RetriesOK'
           /\ \A u \in Tasks : (Pushed(u)' <=> Pushed(u)) /\ (PushOnce(u)' <=> PushOnce(u))
BY DEF retryVars, RetriesOK, Pushed, PushOnce

LEMMA QuietRetry ==
    ASSUME RetriesOK, NEW r \in Retries, NEW p \in {"write", "over"}, NEW t \in Tasks,
           rp[r] # "push", rp' = [rp EXCEPT ![r] = p],
           rt' = [rt EXCEPT ![r] = t]
    PROVE  /\ RetriesOK'
           /\ \A u \in Tasks : /\ Pushed(u)' <=> Pushed(u)
                               /\ PushOnce(u) => PushOnce(u)'
<1>1. /\ rp' \in [Retries -> {"new", "write", "push", "over"}]
      /\ rt' \in [Retries -> Tasks \union {NoTask}]
      /\ rp'[r] = p /\ rt'[r] = t
      /\ \A q \in Retries \ {r} : rp'[q] = rp[q] /\ rt'[q] = rt[q]
  BY DEF RetriesOK
<1>2. RetriesOK'
  BY <1>1 DEF RetriesOK
<1>3. \A u \in Tasks : /\ Pushed(u)' <=> Pushed(u)
                       /\ PushOnce(u) => PushOnce(u)'
  BY <1>1 DEF Pushed, PushOnce
<1>. QED  BY <1>2, <1>3

LEMMA PushRetry ==
    ASSUME RetriesOK, NEW r \in Retries, NEW t \in Tasks, rp[r] = "write", rt[r] = t,
           rp' = [rp EXCEPT ![r] = "push"], rt' = rt
    PROVE  /\ RetriesOK' /\ Pushed(t)'
           /\ \A u \in Tasks \ {t} : Pushed(u)' <=> Pushed(u)
           /\ \A u \in Tasks : PushOnce(u) /\ (u = t => ~Pushed(u)) => PushOnce(u)'
<1>1. /\ rp' \in [Retries -> {"new", "write", "push", "over"}]
      /\ rp'[r] = "push" /\ rt'[r] = t
      /\ \A q \in Retries \ {r} : rp'[q] = rp[q] /\ rt'[q] = rt[q]
  BY DEF RetriesOK
<1>2. RetriesOK'
  BY <1>1 DEF RetriesOK
<1>3. Pushed(t)' /\ \A u \in Tasks \ {t} : Pushed(u)' <=> Pushed(u)
  BY <1>1 DEF Pushed
<1>4. \A u \in Tasks : PushOnce(u) /\ (u = t => ~Pushed(u)) => PushOnce(u)'
  BY <1>1 DEF Pushed, PushOnce
<1>. QED  BY <1>2, <1>3, <1>4

LEMMA EndRetry ==
    ASSUME RetriesOK, NEW r \in Retries, NEW t \in Tasks, rp[r] = "push", rt[r] = t,
           rp' = [rp EXCEPT ![r] = "over"], rt' = rt
    PROVE  /\ RetriesOK' /\ Pushed(t)
           /\ \A u \in Tasks \ {t} : Pushed(u)' <=> Pushed(u)
           /\ \A u \in Tasks : PushOnce(u) => PushOnce(u)'
           /\ PushOnce(t) => ~Pushed(t)'
<1>1. /\ rp' \in [Retries -> {"new", "write", "push", "over"}]
      /\ rp'[r] = "over"
      /\ \A q \in Retries \ {r} : rp'[q] = rp[q] /\ rt'[q] = rt[q]
  BY DEF RetriesOK
<1>2. RetriesOK'
  BY <1>1 DEF RetriesOK
<1>3. Pushed(t) /\ \A u \in Tasks \ {t} : Pushed(u)' <=> Pushed(u)
  BY <1>1 DEF Pushed
<1>4. \A u \in Tasks : PushOnce(u) => PushOnce(u)'
  BY <1>1 DEF PushOnce
<1>5. PushOnce(t) => ~Pushed(t)'
  BY <1>1 DEF Pushed, PushOnce
<1>. QED  BY <1>2, <1>3, <1>4, <1>5

-----------------------------------------------------------------------------
(***************************************************************************)
(* The steps, one by one.                                                  *)
(***************************************************************************)
LEMMA CreateInv ==
    ASSUME Types, Inv, NEW t \in Tasks, CreateVoiceClone(t)
    PROVE  Types' /\ Inv'
<1>1. /\ up /\ task[t] = "none"
      /\ task' = [task EXCEPT ![t] = "queued"]
      /\ clone' = [clone EXCEPT ![t] = "processing"]
      /\ creating' = creating \union {t} /\ own' = own \union {t}
      /\ UNCHANGED <<lifeVars, retryVars, reloadVars, queueVars, workerVars, twice,
                     dropped>>
  BY DEF CreateVoiceClone
<1>2. Types'
  BY <1>1, SameLine, SameWork, SameRetry
  DEF Types, RowsOK, LifeOK, LoadOK, HistoryOK, lifeVars, reloadVars
<1>3. \A u \in Tasks :
         /\ (InLine(u)' <=> InLine(u)) /\ (LineOnce(u)' <=> LineOnce(u))
         /\ (InWork(u)' <=> InWork(u)) /\ (WorkOnce(u)' <=> WorkOnce(u))
         /\ (Pushed(u)' <=> Pushed(u)) /\ (PushOnce(u)' <=> PushOnce(u))
  BY <1>1, SameLine, SameWork, SameRetry
<1>4. pending' = pending /\ up' = up /\ reload' = reload
  BY <1>1 DEF reloadVars, lifeVars
<1>5. /\ ~Unfinished(t) /\ Unfinished(t)'
      /\ \A u \in Tasks \ {t} : Unfinished(u)' <=> Unfinished(u)
  BY <1>1 DEF Types, RowsOK, Unfinished
<1>6. \A u \in Tasks \ {t} : (Held(u)' <=> Held(u)) /\ (Once(u) => Once(u)')
  BY <1>1, <1>3, <1>4 DEF Held, Once
<1>7. Held(t)'
  BY <1>1 DEF Held
<1>8. t \notin twice => Once(t)'
  <2>1. t \notin twice => Once(t) /\ ~Held(t)
    BY <1>5 DEF Inv, Copies
  <2>. QED  BY <1>1, <1>3, <1>4, <2>1 DEF Held, Once
<1>9. Inv'
  BY <1>1, <1>4, <1>5, <1>6, <1>7, <1>8, Submitted DEF Types
<1>. QED  BY <1>2, <1>9

LEMMA CreateEnqueuesInv ==
    ASSUME Types, Inv, NEW t \in Tasks, CreateEnqueues(t)
    PROVE  Types' /\ Inv'
<1>1. /\ t \in creating /\ creating' = creating \ {t} /\ Enqueue(t)
      /\ UNCHANGED <<dbVars, lifeVars, retryVars, reloadVars, workerVars,
                     historyVars>>
  BY DEF CreateEnqueues
<1>2. Types'
  BY <1>1, EnqueueLine, SameWork, SameRetry
  DEF Types, RowsOK, LifeOK, LoadOK, HistoryOK, dbVars, lifeVars, reloadVars,
      historyVars
<1>3. /\ InLine(t)'
      /\ \A u \in Tasks \ {t} : InLine(u)' <=> InLine(u)
      /\ \A u \in Tasks : LineOnce(u) /\ (u = t => ~InLine(u)) => LineOnce(u)'
  BY <1>1, EnqueueLine DEF Types
<1>4. \A u \in Tasks :
         /\ (InWork(u)' <=> InWork(u)) /\ (WorkOnce(u)' <=> WorkOnce(u))
         /\ (Pushed(u)' <=> Pushed(u)) /\ (PushOnce(u)' <=> PushOnce(u))
  BY <1>1, SameWork, SameRetry
<1>5. UNCHANGED <<up, reload, pending, rp, task, historyVars>>
  BY <1>1 DEF reloadVars, lifeVars, retryVars, dbVars
<1>6. \A u \in Tasks : Unfinished(u)' <=> Unfinished(u)
  BY <1>5 DEF Unfinished
<1>7. \A u \in Tasks : (Held(u)' <=> Held(u)) /\ (Once(u) => Once(u)')
  BY <1>1, <1>3, <1>4, <1>5 DEF Held, Once
<1>8. ~up => \A r \in Retries : rp'[r] \notin {"write", "push"}
  BY <1>5 DEF Inv, Down
<1>9. Inv'
  BY <1>5, <1>6, <1>7, <1>8, Moves DEF Types
<1>. QED  BY <1>2, <1>9

LEMMA LateInv ==
    ASSUME Types, Inv, NEW t \in Tasks, LateEnqueues(t)
    PROVE  Types' /\ Inv'
<1>1. UNCHANGED <<dbVars, lifeVars, creating, retryVars, reloadVars, workerVars,
                  historyVars>>
  BY DEF LateEnqueues
<1>2. Types'
  BY <1>1, LateLine, SameWork, SameRetry
  DEF Types, RowsOK, LifeOK, LoadOK, HistoryOK, dbVars, lifeVars, reloadVars,
      historyVars
<1>3. /\ \A u \in Tasks : InLine(u)' <=> InLine(u)
      /\ \A u \in Tasks : LineOnce(u) => LineOnce(u)'
  BY LateLine DEF Types
<1>4. \A u \in Tasks :
         /\ (InWork(u)' <=> InWork(u)) /\ (WorkOnce(u)' <=> WorkOnce(u))
         /\ (Pushed(u)' <=> Pushed(u)) /\ (PushOnce(u)' <=> PushOnce(u))
  BY <1>1, SameWork, SameRetry
<1>5. UNCHANGED <<up, reload, pending, rp, task, creating, historyVars>>
  BY <1>1 DEF reloadVars, lifeVars, retryVars, dbVars
<1>6. \A u \in Tasks : Unfinished(u)' <=> Unfinished(u)
  BY <1>5 DEF Unfinished
<1>7. \A u \in Tasks : (Held(u)' <=> Held(u)) /\ (Once(u) => Once(u)')
  BY <1>3, <1>4, <1>5 DEF Held, Once
<1>8. ~up => \A r \in Retries : rp'[r] \notin {"write", "push"}
  BY <1>5 DEF Inv, Down
<1>9. Inv'
  BY <1>5, <1>6, <1>7, <1>8, Moves DEF Types
<1>. QED  BY <1>2, <1>9

LEMMA ReloadEnqueuesInv ==
    ASSUME Types, Inv, NEW t \in Tasks, ReloadEnqueues(t)
    PROVE  Types' /\ Inv'
<1>1. /\ t \in pending /\ pending' = pending \ {t} /\ Enqueue(t)
      /\ UNCHANGED <<dbVars, lifeVars, creating, retryVars, reload, workerVars,
                     historyVars>>
  BY DEF ReloadEnqueues
<1>2. Types'
  BY <1>1, EnqueueLine, SameWork, SameRetry
  DEF Types, RowsOK, LifeOK, LoadOK, HistoryOK, dbVars, lifeVars, historyVars
<1>3. /\ InLine(t)'
      /\ \A u \in Tasks \ {t} : InLine(u)' <=> InLine(u)
      /\ \A u \in Tasks : LineOnce(u) /\ (u = t => ~InLine(u)) => LineOnce(u)'
  BY <1>1, EnqueueLine DEF Types
<1>4. \A u \in Tasks :
         /\ (InWork(u)' <=> InWork(u)) /\ (WorkOnce(u)' <=> WorkOnce(u))
         /\ (Pushed(u)' <=> Pushed(u)) /\ (PushOnce(u)' <=> PushOnce(u))
  BY <1>1, SameWork, SameRetry
<1>5. UNCHANGED <<up, reload, rp, task, creating, historyVars>>
  BY <1>1 DEF lifeVars, retryVars, dbVars
<1>6. \A u \in Tasks : Unfinished(u)' <=> Unfinished(u)
  BY <1>5 DEF Unfinished
<1>7. \A u \in Tasks : (Held(u)' <=> Held(u)) /\ (Once(u) => Once(u)')
  BY <1>1, <1>3, <1>4, <1>5 DEF Held, Once
<1>8. ~up => \A r \in Retries : rp'[r] \notin {"write", "push"}
  BY <1>5 DEF Inv, Down
<1>9. Inv'
  BY <1>1, <1>5, <1>6, <1>7, <1>8, Moves DEF Types
<1>. QED  BY <1>2, <1>9

LEMMA DeleteInv ==
    ASSUME Types, Inv, NEW t \in Tasks, DeleteVoiceClone(t)
    PROVE  Types' /\ Inv'
<1>1. /\ clone' = [clone EXCEPT ![t] = "deleted"]
      /\ UNCHANGED <<task, lifeVars, creating, retryVars, reloadVars, queueVars,
                     workerVars, historyVars>>
  BY DEF DeleteVoiceClone
<1>2. Types'
  BY <1>1, SameLine, SameWork, SameRetry
  DEF Types, RowsOK, LifeOK, LoadOK, HistoryOK, lifeVars, reloadVars, historyVars
<1>3. \A u \in Tasks :
         /\ (InLine(u)' <=> InLine(u)) /\ (LineOnce(u)' <=> LineOnce(u))
         /\ (InWork(u)' <=> InWork(u)) /\ (WorkOnce(u)' <=> WorkOnce(u))
         /\ (Pushed(u)' <=> Pushed(u)) /\ (PushOnce(u)' <=> PushOnce(u))
  BY <1>1, SameLine, SameWork, SameRetry
<1>4. UNCHANGED <<up, reload, pending, rp, task, creating, historyVars>>
  BY <1>1 DEF reloadVars, lifeVars, retryVars
<1>5. \A u \in Tasks : Unfinished(u)' <=> Unfinished(u)
  BY <1>4 DEF Unfinished
<1>6. \A u \in Tasks : (Held(u)' <=> Held(u)) /\ (Once(u) => Once(u)')
  BY <1>3, <1>4 DEF Held, Once
<1>7. ~up => \A r \in Retries : rp'[r] \notin {"write", "push"}
  BY <1>4 DEF Inv, Down
<1>8. Inv'
  BY <1>4, <1>5, <1>6, <1>7, Moves DEF Types
<1>. QED  BY <1>2, <1>8

LEMMA RetryReadsInv ==
    ASSUME Types, Inv, NEW r \in Retries, NEW t \in Tasks, RetryReads(r, t)
    PROVE  Types' /\ Inv'
<1>1. /\ up /\ rp[r] = "new"
      /\ rp' = [rp EXCEPT ![r] = "write"] /\ rt' = [rt EXCEPT ![r] = t]
      /\ UNCHANGED <<dbVars, lifeVars, creating, reloadVars, queueVars, workerVars,
                     historyVars>>
  BY DEF RetryReads
<1>2. /\ RetriesOK'
      /\ \A u \in Tasks : /\ Pushed(u)' <=> Pushed(u)
                          /\ PushOnce(u) => PushOnce(u)'
  BY <1>1, QuietRetry DEF Types
<1>3. Types'
  BY <1>1, <1>2, SameLine, SameWork
  DEF Types, RowsOK, LifeOK, LoadOK, HistoryOK, dbVars, lifeVars, reloadVars,
      historyVars
<1>4. \A u \in Tasks :
         /\ (InLine(u)' <=> InLine(u)) /\ (LineOnce(u)' <=> LineOnce(u))
         /\ (InWork(u)' <=> InWork(u)) /\ (WorkOnce(u)' <=> WorkOnce(u))
  BY <1>1, SameLine, SameWork
<1>5. UNCHANGED <<up, reload, pending, task, creating, historyVars>>
  BY <1>1 DEF reloadVars, lifeVars, dbVars
<1>6. \A u \in Tasks : Unfinished(u)' <=> Unfinished(u)
  BY <1>5 DEF Unfinished
<1>7. \A u \in Tasks : (Held(u)' <=> Held(u)) /\ (Once(u) => Once(u)')
  BY <1>2, <1>4, <1>5 DEF Held, Once
<1>8. Inv'
  BY <1>1, <1>5, <1>6, <1>7, Moves DEF Types
<1>. QED  BY <1>3, <1>8

LEMMA RetryWritesInv ==
    ASSUME Types, Inv, NEW r \in Retries, RetryWrites(r)
    PROVE  Types' /\ Inv'
<1>1. /\ rp[r] = "write"
      /\ UNCHANGED <<lifeVars, creating, rt, reloadVars, queueVars, workerVars,
                     twice>>
  BY DEF RetryWrites
<1>2. PICK t \in Tasks : t = rt[r]
  BY <1>1 DEF Types, RetriesOK
<1>3. up
  BY <1>1 DEF Inv, Down, Types, LifeOK
<1>4. \A u \in Tasks :
         /\ (InLine(u)' <=> InLine(u)) /\ (LineOnce(u)' <=> LineOnce(u))
         /\ (InWork(u)' <=> InWork(u)) /\ (WorkOnce(u)' <=> WorkOnce(u))
  BY <1>1, SameLine, SameWork
<1>5. UNCHANGED <<up, reload, pending, creating>>
  BY <1>1 DEF reloadVars, lifeVars
<1>6. CASE task[t] = "failed"
  <2>1. /\ task' = [task EXCEPT ![t] = "queued"]
        /\ clone' = [clone EXCEPT ![t] = "processing"]
        /\ rp' = [rp EXCEPT ![r] = "push"]
        /\ own' = own \union {t} /\ dropped' = dropped \ {t}
    BY <1>2, <1>6 DEF RetryWrites
  <2>2. /\ RetriesOK' /\ Pushed(t)'
        /\ \A u \in Tasks \ {t} : Pushed(u)' <=> Pushed(u)
        /\ \A u \in Tasks : PushOnce(u) /\ (u = t => ~Pushed(u)) => PushOnce(u)'
    BY <1>1, <1>2, <2>1, PushRetry DEF Types
  <2>3. Types'
    BY <1>1, <2>1, <2>2, SameLine, SameWork
    DEF Types, RowsOK, LifeOK, LoadOK, HistoryOK, lifeVars, reloadVars
  <2>4. /\ ~Unfinished(t) /\ Unfinished(t)'
        /\ \A u \in Tasks \ {t} : Unfinished(u)' <=> Unfinished(u)
    BY <1>6, <2>1 DEF Types, RowsOK, Unfinished
  <2>5. \A u \in Tasks \ {t} : (Held(u)' <=> Held(u)) /\ (Once(u) => Once(u)')
    BY <1>4, <1>5, <2>2 DEF Held, Once
  <2>6. Held(t)'
    BY <2>2 DEF Held
  <2>7. t \notin twice => Once(t)'
    <3>1. t \notin twice => Once(t) /\ ~Held(t)
      BY <2>4 DEF Inv, Copies
    <3>. QED  BY <1>4, <1>5, <2>2, <3>1 DEF Held, Once
  <2>8. Inv'
    BY <1>1, <1>3, <1>5, <2>1, <2>4, <2>5, <2>6, <2>7, Submitted DEF Types
  <2>. QED  BY <2>3, <2>8
<1>7. CASE task[t] # "failed"
  <2>1. rp' = [rp EXCEPT ![r] = "over"] /\ UNCHANGED <<task, clone, own, dropped>>
    BY <1>2, <1>7 DEF RetryWrites
  <2>2. rt' = [rt EXCEPT ![r] = t]
    BY <1>1, <1>2 DEF Types, RetriesOK
  <2>3. /\ RetriesOK'
        /\ \A u \in Tasks : /\ Pushed(u)' <=> Pushed(u)
                            /\ PushOnce(u) => PushOnce(u)'
    BY <1>1, <2>1, <2>2, QuietRetry DEF Types
  <2>4. Types'
    BY <1>1, <2>1, <2>3, SameLine, SameWork
    DEF Types, RowsOK, LifeOK, LoadOK, HistoryOK, lifeVars, reloadVars
  <2>5. \A u \in Tasks : Unfinished(u)' <=> Unfinished(u)
    BY <2>1 DEF Unfinished
  <2>6. \A u \in Tasks : (Held(u)' <=> Held(u)) /\ (Once(u) => Once(u)')
    BY <1>4, <1>5, <2>3 DEF Held, Once
  <2>7. UNCHANGED historyVars
    BY <1>1, <2>1 DEF historyVars
  <2>8. Inv'
    BY <1>3, <1>5, <2>5, <2>6, <2>7, Moves DEF Types
  <2>. QED  BY <2>4, <2>8
<1>. QED  BY <1>6, <1>7

LEMMA RetryRollsBackInv ==
    ASSUME Types, Inv, NEW r \in Retries, RetryRollsBack(r)
    PROVE  Types' /\ Inv'
<1>1. /\ rp[r] = "write" /\ rp' = [rp EXCEPT ![r] = "over"]
      /\ UNCHANGED <<dbVars, lifeVars, creating, rt, reloadVars, queueVars,
                     workerVars, historyVars>>
  BY DEF RetryRollsBack
<1>2. PICK t \in Tasks : t = rt[r]
  BY <1>1 DEF Types, RetriesOK
<1>3. up
  BY <1>1 DEF Inv, Down, Types, LifeOK
<1>4. rt' = [rt EXCEPT ![r] = t]
  BY <1>1, <1>2 DEF Types, RetriesOK
<1>5. /\ RetriesOK'
      /\ \A u \in Tasks : /\ Pushed(u)' <=> Pushed(u)
                          /\ PushOnce(u) => PushOnce(u)'
  BY <1>1, <1>4, QuietRetry DEF Types
<1>6. \A u \in Tasks :
         /\ (InLine(u)' <=> InLine(u)) /\ (LineOnce(u)' <=> LineOnce(u))
         /\ (InWork(u)' <=> InWork(u)) /\ (WorkOnce(u)' <=> WorkOnce(u))
  BY <1>1, SameLine, SameWork
<1>7. UNCHANGED <<up, reload, pending, creating, task, clone, crashes, own,
                  twice, dropped>>
  BY <1>1 DEF reloadVars, lifeVars, dbVars, historyVars
<1>8. Types'
  BY <1>1, <1>5, <1>7, SameLine, SameWork
  DEF Types, RowsOK, LifeOK, LoadOK, HistoryOK
<1>9. \A u \in Tasks : Unfinished(u)' <=> Unfinished(u)
  BY <1>7 DEF Unfinished
<1>10. \A u \in Tasks : (Held(u)' <=> Held(u)) /\ (Once(u) => Once(u)')
  BY <1>5, <1>6, <1>7 DEF Held, Once
<1>11. Inv'
  BY <1>1, <1>3, <1>7, <1>9, <1>10, Moves DEF Types
<1>. QED  BY <1>8, <1>11

LEMMA RetryEnqueuesInv ==
    ASSUME Types, Inv, NEW r \in Retries, RetryEnqueues(r)
    PROVE  Types' /\ Inv'
<1>1. PICK t \in Tasks : t = rt[r] /\ rp[r] = "push"
  BY DEF RetryEnqueues, Types, RetriesOK
<1>2. /\ rp' = [rp EXCEPT ![r] = "over"] /\ Enqueue(t)
      /\ UNCHANGED <<dbVars, lifeVars, creating, rt, reloadVars, workerVars,
                     historyVars>>
  BY <1>1 DEF RetryEnqueues
<1>3. up
  BY <1>1 DEF Inv, Down, Types, LifeOK
<1>4. /\ LineOK' /\ InLine(t)'
      /\ \A u \in Tasks \ {t} : InLine(u)' <=> InLine(u)
      /\ \A u \in Tasks : LineOnce(u) /\ (u = t => ~InLine(u)) => LineOnce(u)'
  BY <1>2, EnqueueLine DEF Types
<1>5. /\ RetriesOK' /\ Pushed(t)
      /\ \A u \in Tasks \ {t} : Pushed(u)' <=> Pushed(u)
      /\ \A u \in Tasks : PushOnce(u) => PushOnce(u)'
      /\ PushOnce(t) => ~Pushed(t)'
  BY <1>1, <1>2, EndRetry DEF Types
<1>6. Types'
  BY <1>2, <1>4, <1>5, SameWork
  DEF Types, RowsOK, LifeOK, LoadOK, HistoryOK, dbVars, lifeVars, reloadVars,
      historyVars
<1>7. \A u \in Tasks :
         (InWork(u)' <=> InWork(u)) /\ (WorkOnce(u)' <=> WorkOnce(u))
  BY <1>2, SameWork
<1>8. UNCHANGED <<up, reload, pending, task, creating, historyVars>>
  BY <1>2 DEF lifeVars, reloadVars, dbVars
<1>9. \A u \in Tasks : Unfinished(u)' <=> Unfinished(u)
  BY <1>8 DEF Unfinished
<1>10. \A u \in Tasks : (Held(u)' <=> Held(u)) /\ (Once(u) => Once(u)')
  BY <1>4, <1>5, <1>7, <1>8 DEF Held, Once
<1>11. Inv'
  BY <1>3, <1>8, <1>9, <1>10, Moves DEF Types
<1>. QED  BY <1>6, <1>11

LEMMA PicksInv ==
    ASSUME Types, Inv, NEW w \in Workers, WorkerPicks(w)
    PROVE  Types' /\ Inv'
<1>1. PICK t : t = Head(taskQueue)
  OBVIOUS
<1>2. /\ wp[w] = "idle" /\ taskQueue # <<>> /\ taskQueue' = Tail(taskQueue)
      /\ wp' = [wp EXCEPT ![w] = "claim"] /\ wt' = [wt EXCEPT ![w] = t]
      /\ UNCHANGED <<dbVars, lifeVars, creating, retryVars, reloadVars, late,
                     historyVars>>
  BY <1>1 DEF WorkerPicks
<1>3. /\ LineOK' /\ t \in Tasks /\ InLine(t)
      /\ \A u \in Tasks \ {t} : InLine(u)' <=> InLine(u)
      /\ \A u \in Tasks : LineOnce(u) => LineOnce(u)'
      /\ LineOnce(t) => ~InLine(t)'
  BY <1>1, <1>2, PickLine DEF Types
<1>4. /\ WorkersOK' /\ InWork(t)'
      /\ \A u \in Tasks \ {t} : InWork(u)' <=> InWork(u)
      /\ \A u \in Tasks : WorkOnce(u) /\ (u = t => ~InWork(u)) => WorkOnce(u)'
  BY <1>2, <1>3, TakeWork DEF Types
<1>5. Types'
  BY <1>2, <1>3, <1>4, SameRetry
  DEF Types, RowsOK, LifeOK, LoadOK, HistoryOK, dbVars, lifeVars, reloadVars,
      historyVars
<1>6. \A u \in Tasks :
         (Pushed(u)' <=> Pushed(u)) /\ (PushOnce(u)' <=> PushOnce(u))
  BY <1>2, SameRetry
<1>7. UNCHANGED <<up, reload, pending, rp, task, creating, historyVars>>
  BY <1>2 DEF lifeVars, reloadVars, retryVars, dbVars
<1>8. \A u \in Tasks : Unfinished(u)' <=> Unfinished(u)
  BY <1>7 DEF Unfinished
<1>9. \A u \in Tasks : (Held(u)' <=> Held(u)) /\ (Once(u) => Once(u)')
  BY <1>3, <1>4, <1>6, <1>7 DEF Held, Once
<1>10. ~up => \A r \in Retries : rp'[r] \notin {"write", "push"}
  BY <1>7 DEF Inv, Down
<1>11. Inv'
  BY <1>7, <1>8, <1>9, <1>10, Moves DEF Types
<1>. QED  BY <1>5, <1>11

\* A worker that lets go of its task leaves everybody else's alone.
LEMMA LeavePlaces ==
    ASSUME Types, NEW w \in Workers, NEW t \in Tasks, wp[w] # "idle", wt[w] = t,
           wp' = [wp EXCEPT ![w] = "idle"], wt' = [wt EXCEPT ![w] = NoTask],
           UNCHANGED <<creating, retryVars, reloadVars, queueVars>>
    PROVE  /\ WorkersOK' /\ RetriesOK' /\ LineOK' /\ LoadOK'
           /\ \A u \in Tasks \ {t} : Held(u)' <=> Held(u)
           /\ \A u \in Tasks : Once(u) => Once(u)'
           /\ Held(t) /\ (Once(t) => ~Held(t)')
<1>1. /\ WorkersOK' /\ InWork(t)
      /\ \A u \in Tasks \ {t} : InWork(u)' <=> InWork(u)
      /\ \A u \in Tasks : WorkOnce(u) => WorkOnce(u)'
      /\ WorkOnce(t) => ~InWork(t)'
  BY LeaveWork DEF Types
<1>2. /\ RetriesOK' /\ LineOK'
      /\ \A u \in Tasks :
           /\ (InLine(u)' <=> InLine(u)) /\ (LineOnce(u)' <=> LineOnce(u))
           /\ (Pushed(u)' <=> Pushed(u)) /\ (PushOnce(u)' <=> PushOnce(u))
  BY SameLine, SameRetry DEF Types
<1>3. creating' = creating /\ pending' = pending /\ LoadOK'
  BY DEF reloadVars, Types, LoadOK
<1>4. \A u \in Tasks \ {t} : Held(u)' <=> Held(u)
  BY <1>1, <1>2, <1>3 DEF Held
<1>5. \A u \in Tasks : Once(u) => Once(u)'
  <2>. SUFFICES ASSUME NEW u \in Tasks, Once(u)
                PROVE  Once(u)'
    OBVIOUS
  <2>1. InWork(u)' => InWork(u)
    BY <1>1
  <2>. QED  BY <1>1, <1>2, <1>3, <2>1 DEF Once
<1>6. Held(t)
  BY <1>1 DEF Held
<1>7. Once(t) => ~Held(t)'
  BY <1>1, <1>2, <1>3 DEF Held, Once
<1>. QED  BY <1>1, <1>2, <1>3, <1>4, <1>5, <1>6, <1>7

LEMMA ClaimsInv ==
    ASSUME Types, Inv, NEW w \in Workers, WorkerClaims(w)
    PROVE  Types' /\ Inv'
<1>1. PICK t \in Tasks : t = wt[w] /\ wp[w] = "claim"
  BY DEF WorkerClaims, Types, WorkersOK
<1>2. UNCHANGED <<lifeVars, creating, retryVars, reloadVars, queueVars, historyVars>>
  BY DEF WorkerClaims
<1>3. UNCHANGED <<up, reload, pending, rp, creating, historyVars>>
  BY <1>2 DEF lifeVars, reloadVars, retryVars
<1>4. CASE Unfinished(t)
  <2>1. /\ task' = [task EXCEPT ![t] = "processing"]
        /\ clone' = [clone EXCEPT ![t] = "processing"]
        /\ wp' = [wp EXCEPT ![w] = "run"] /\ wt' = wt
    BY <1>1, <1>4 DEF WorkerClaims
  <2>2. /\ WorkersOK'
        /\ \A u \in Tasks : /\ InWork(u)' <=> InWork(u)
                            /\ WorkOnce(u) => WorkOnce(u)'
    BY <1>1, <2>1, KeepWork DEF Types
  <2>3. Types'
    BY <1>2, <2>1, <2>2, SameLine, SameRetry
    DEF Types, RowsOK, LifeOK, LoadOK, HistoryOK, lifeVars, reloadVars, historyVars
  <2>4. \A u \in Tasks : Unfinished(u)' <=> Unfinished(u)
    BY <1>4, <2>1 DEF Types, RowsOK, Unfinished
  <2>5. \A u \in Tasks :
           /\ (InLine(u)' <=> InLine(u)) /\ (LineOnce(u)' <=> LineOnce(u))
           /\ (Pushed(u)' <=> Pushed(u)) /\ (PushOnce(u)' <=> PushOnce(u))
    BY <1>2, SameLine, SameRetry
  <2>6. \A u \in Tasks : (Held(u)' <=> Held(u)) /\ (Once(u) => Once(u)')
    BY <1>3, <2>2, <2>5 DEF Held, Once
  <2>7. ~up => \A r \in Retries : rp'[r] \notin {"write", "push"}
    BY <1>3 DEF Inv, Down
  <2>8. Inv'
    BY <1>3, <2>4, <2>6, <2>7, Moves DEF Types
  <2>. QED  BY <2>3, <2>8
<1>5. CASE ~Unfinished(t)
  <2>1. /\ wp' = [wp EXCEPT ![w] = "idle"] /\ wt' = [wt EXCEPT ![w] = NoTask]
        /\ UNCHANGED dbVars
    BY <1>1, <1>5 DEF WorkerClaims
  <2>2. /\ WorkersOK' /\ RetriesOK' /\ LineOK' /\ LoadOK'
        /\ \A u \in Tasks \ {t} : Held(u)' <=> Held(u)
        /\ \A u \in Tasks : Once(u) => Once(u)'
        /\ Held(t) /\ (Once(t) => ~Held(t)')
    BY <1>1, <1>2, <2>1, LeavePlaces
  <2>3. Types'
    BY <1>2, <2>1, <2>2
    DEF Types, RowsOK, LifeOK, HistoryOK, dbVars, lifeVars, historyVars
  <2>4. \A u \in Tasks : Unfinished(u)' <=> Unfinished(u)
    BY <2>1 DEF dbVars, Unfinished
  <2>5. t \in twice
    BY <1>5, <2>2 DEF Inv, Copies
  <2>6. own' = own /\ twice' = twice /\ dropped' = dropped
    BY <1>3 DEF historyVars
  <2>7. Inv'
    BY <1>3, <1>5, <2>2, <2>4, <2>5, <2>6, Leaves DEF Types
  <2>. QED  BY <2>3, <2>7
<1>. QED  BY <1>4, <1>5

LEMMA FinishInv ==
    ASSUME Types, Inv, NEW w \in Workers,
           NEW cs \in {"active", "failed"}, NEW ts \in {"succeeded", "failed"},
           Finish(w, cs, ts)
    PROVE  Types' /\ Inv'
<1>1. PICK t \in Tasks : t = wt[w] /\ wp[w] = "run"
  BY DEF Finish, Types, WorkersOK
<1>2. /\ clone' = [clone EXCEPT ![t] = IF @ = "deleted" THEN @ ELSE cs]
      /\ task' = [task EXCEPT ![t] = ts]
      /\ wp' = [wp EXCEPT ![w] = "idle"] /\ wt' = [wt EXCEPT ![w] = NoTask]
      /\ UNCHANGED <<lifeVars, creating, retryVars, reloadVars, queueVars,
                     historyVars>>
  BY <1>1 DEF Finish
<1>3. /\ WorkersOK' /\ RetriesOK' /\ LineOK' /\ LoadOK'
      /\ \A u \in Tasks \ {t} : Held(u)' <=> Held(u)
      /\ \A u \in Tasks : Once(u) => Once(u)'
      /\ Held(t) /\ (Once(t) => ~Held(t)')
  BY <1>1, <1>2, LeavePlaces
<1>4. RowsOK'
  <2>1. clone' \in [Tasks -> {"none", "processing", "active", "failed", "deleted"}]
    BY <1>2 DEF Types, RowsOK
  <2>2. task' \in [Tasks -> {"none", "queued", "processing", "succeeded", "failed"}]
    BY <1>2 DEF Types, RowsOK
  <2>. QED  BY <2>1, <2>2 DEF RowsOK
<1>5. Types'
  BY <1>2, <1>3, <1>4 DEF Types, LifeOK, HistoryOK, lifeVars, historyVars
<1>6. /\ ~Unfinished(t)'
      /\ \A u \in Tasks \ {t} : Unfinished(u)' <=> Unfinished(u)
  BY <1>2 DEF Types, RowsOK, Unfinished
<1>7. t \in twice \/ ~Held(t)'
  BY <1>3 DEF Inv, Copies
<1>8. UNCHANGED <<up, reload, own, twice, dropped, pending, rp>>
  BY <1>2 DEF lifeVars, reloadVars, retryVars, historyVars
<1>9. Inv'
  BY <1>3, <1>6, <1>7, <1>8, Leaves DEF Types
<1>. QED  BY <1>5, <1>9

LEMMA LosesInv ==
    ASSUME Types, Inv, NEW w \in Workers, WorkerLoses(w)
    PROVE  Types' /\ Inv'
<1>1. PICK t \in Tasks : t = wt[w] /\ wp[w] # "idle"
  BY DEF WorkerLoses, Types, WorkersOK
<1>2. /\ wp' = [wp EXCEPT ![w] = "idle"] /\ wt' = [wt EXCEPT ![w] = NoTask]
      /\ dropped' = dropped \union {t}
      /\ UNCHANGED <<dbVars, lifeVars, creating, retryVars, reloadVars, queueVars,
                     own, twice>>
  BY <1>1 DEF WorkerLoses
<1>3. /\ WorkersOK' /\ RetriesOK' /\ LineOK' /\ LoadOK'
      /\ \A u \in Tasks \ {t} : Held(u)' <=> Held(u)
      /\ \A u \in Tasks : Once(u) => Once(u)'
      /\ Held(t) /\ (Once(t) => ~Held(t)')
  BY <1>1, <1>2, LeavePlaces
<1>4. Types'
  BY <1>2, <1>3 DEF Types, RowsOK, LifeOK, HistoryOK, dbVars, lifeVars
<1>5. \A u \in Tasks : Unfinished(u)' <=> Unfinished(u)
  BY <1>2 DEF dbVars, Unfinished
<1>6. t \in twice \/ ~Held(t)'
  BY <1>3 DEF Inv, Copies
<1>7. UNCHANGED <<up, reload, own, twice, pending, rp>>
  BY <1>2 DEF lifeVars, reloadVars, retryVars
<1>8. Inv'
  BY <1>2, <1>3, <1>5, <1>6, <1>7, Leaves DEF Types
<1>. QED  BY <1>4, <1>8

\* Nothing but the load changes hands when the start asks the database.
LEMMA ReloadPlaces ==
    ASSUME Types, Inv, reload = "query",
           UNCHANGED <<creating, retryVars, queueVars, workerVars>>
    PROVE  /\ pending = {} /\ twice = {}
           /\ RetriesOK' /\ LineOK' /\ WorkersOK'
           /\ \A u \in Tasks : Held(u)' <=> (Held(u) \/ u \in pending')
           /\ \A u \in Tasks : Once(u) /\ (u \in pending' => ~Held(u)) => Once(u)'
           /\ \A u \in Tasks \ own : ~Held(u)
<1>1. \A u \in Tasks :
         /\ (InLine(u)' <=> InLine(u)) /\ (LineOnce(u)' <=> LineOnce(u))
         /\ (InWork(u)' <=> InWork(u)) /\ (WorkOnce(u)' <=> WorkOnce(u))
         /\ (Pushed(u)' <=> Pushed(u)) /\ (PushOnce(u)' <=> PushOnce(u))
  BY SameLine, SameWork, SameRetry
<1>2. RetriesOK' /\ LineOK' /\ WorkersOK'
  BY SameLine, SameWork, SameRetry DEF Types
<1>3. pending = {} /\ twice = {} /\ \A u \in Tasks \ own : ~Held(u)
  BY DEF Inv, Fresh
<1>4. \A u \in Tasks : Held(u)' <=> (Held(u) \/ u \in pending')
  BY <1>1, <1>3 DEF Held
<1>5. \A u \in Tasks : Once(u) /\ (u \in pending' => ~Held(u)) => Once(u)'
  BY <1>1, <1>3 DEF Held, Once
<1>. QED  BY <1>2, <1>3, <1>4, <1>5

LEMMA ReloadQueriesInv ==
    ASSUME Types, Inv, ReloadQueries
    PROVE  Types' /\ Inv'
<1>1. /\ up /\ reload = "query" /\ reload' = "push"
      /\ pending' = {t \in Tasks : Unfinished(t)} /\ twice' = pending' \intersect own
      /\ UNCHANGED <<dbVars, lifeVars, creating, retryVars, queueVars, workerVars,
                     own, dropped>>
  BY DEF ReloadQueries
<1>2. /\ pending = {} /\ twice = {}
      /\ RetriesOK' /\ LineOK' /\ WorkersOK'
      /\ \A u \in Tasks : Held(u)' <=> (Held(u) \/ u \in pending')
      /\ \A u \in Tasks : Once(u) /\ (u \in pending' => ~Held(u)) => Once(u)'
      /\ \A u \in Tasks \ own : ~Held(u)
  BY <1>1, ReloadPlaces
<1>3. Types'
  BY <1>1, <1>2 DEF Types, RowsOK, LifeOK, LoadOK, HistoryOK, dbVars, lifeVars
<1>4. \A u \in Tasks : Unfinished(u)' <=> Unfinished(u)
  BY <1>1 DEF dbVars, Unfinished
<1>5. Down' /\ Fresh'
  BY <1>1 DEF Down, Fresh, lifeVars
<1>6. OwnHeld'
  BY <1>1, <1>2, <1>4 DEF Inv, OwnHeld, Types, HistoryOK
<1>7. NoTaskForgotten'
  BY <1>1, <1>2, <1>4 DEF NoTaskForgotten
<1>8. Copies'
  <2>. SUFFICES ASSUME NEW u \in Tasks, u \notin twice'
                PROVE  Once(u)' /\ (~Unfinished(u)' => ~Held(u)')
    BY DEF Copies
  <2>1. Once(u) /\ (~Unfinished(u) => ~Held(u))
    BY <1>2 DEF Inv, Copies
  <2>2. u \in pending' => ~Held(u)
    BY <1>1, <1>2
  <2>. QED  BY <1>1, <1>2, <1>4, <2>1, <2>2
<1>. QED  BY <1>3, <1>5, <1>6, <1>7, <1>8 DEF Inv

LEMMA ReloadFailsInv ==
    ASSUME Types, Inv, ReloadFails
    PROVE  Types' /\ Inv'
<1>1. /\ up /\ reload = "query" /\ reload' = "push"
      /\ dropped' = dropped \union {t \in Tasks \ own : Unfinished(t)}
      /\ UNCHANGED <<dbVars, lifeVars, creating, retryVars, pending, queueVars,
                     workerVars, own, twice>>
  BY DEF ReloadFails
<1>2. /\ pending = {} /\ twice = {}
      /\ RetriesOK' /\ LineOK' /\ WorkersOK'
      /\ \A u \in Tasks : Held(u)' <=> (Held(u) \/ u \in pending')
      /\ \A u \in Tasks : Once(u) /\ (u \in pending' => ~Held(u)) => Once(u)'
  BY <1>1, ReloadPlaces
<1>3. Types'
  BY <1>1, <1>2 DEF Types, RowsOK, LifeOK, LoadOK, HistoryOK, dbVars, lifeVars
<1>4. \A u \in Tasks : Unfinished(u)' <=> Unfinished(u)
  BY <1>1 DEF dbVars, Unfinished
<1>5. Down' /\ Fresh'
  BY <1>1 DEF Down, Fresh, lifeVars
<1>6. OwnHeld'
  BY <1>1, <1>2, <1>4 DEF Inv, OwnHeld, Types, HistoryOK
<1>7. NoTaskForgotten'
  BY <1>1, <1>2, <1>4 DEF Inv, OwnHeld, NoTaskForgotten
<1>8. Copies'
  BY <1>1, <1>2, <1>4 DEF Inv, Copies
<1>. QED  BY <1>3, <1>5, <1>6, <1>7, <1>8 DEF Inv

\* A crash empties every hand.
LEMMA CrashInv ==
    ASSUME Types, Crash
    PROVE  Types' /\ Inv'
<1>1. /\ up' = FALSE /\ crashes < MaxCrashes /\ crashes' = crashes + 1
      /\ creating' = {} /\ pending' = {} /\ taskQueue' = <<>>
      /\ late' = [t \in Tasks |-> 0]
      /\ rp' = [r \in Retries |-> IF rp[r] = "new" THEN "new" ELSE "over"]
      /\ rt' = [r \in Retries |-> NoTask]
      /\ wp' = [w \in Workers |-> "idle"] /\ wt' = [w \in Workers |-> NoTask]
      /\ reload' = "push" /\ own' = {} /\ twice' = {} /\ dropped' = {}
      /\ UNCHANGED dbVars
  BY DEF Crash
<1>2. Len(taskQueue') = 0 /\ taskQueue' \in Seq(Tasks)
  BY <1>1
<1>3. RowsOK'
  BY <1>1 DEF Types, RowsOK, dbVars
<1>4. LifeOK' /\ LoadOK' /\ HistoryOK'
  <2>1. crashes' \in 0 .. MaxCrashes
    BY <1>1, TaskAssumption DEF Types, LifeOK
  <2>2. LifeOK'
    BY <1>1, <2>1, Zenon DEF LifeOK
  <2>3. LoadOK' /\ HistoryOK'
    BY <1>1 DEF LoadOK, HistoryOK
  <2>. QED  BY <2>2, <2>3
<1>5. RetriesOK' /\ WorkersOK'
  BY <1>1 DEF Types, RetriesOK, WorkersOK
<1>6. LineOK'
  BY <1>1, <1>2, TaskAssumption DEF LineOK
<1>7. Types'
  BY <1>1, <1>3, <1>4, <1>5, <1>6 DEF Types
<1>8. \A u \in Tasks : ~InLine(u)' /\ LineOnce(u)'
  BY <1>1, <1>2 DEF InLine, LineOnce, Queued, QueuedOnce
<1>9. \A u \in Tasks : ~InWork(u)' /\ WorkOnce(u)'
  BY <1>1 DEF InWork, WorkOnce
<1>10. /\ \A u \in Tasks : ~Pushed(u)' /\ PushOnce(u)'
       /\ \A r \in Retries : rp'[r] \notin {"write", "push"}
  BY <1>1 DEF Pushed, PushOnce
<1>11. \A u \in Tasks : ~Held(u)' /\ Once(u)'
  BY <1>1, <1>8, <1>9, <1>10 DEF Held, Once
<1>12. Down' /\ OwnHeld' /\ Fresh' /\ NoTaskForgotten'
  BY <1>1, <1>10, <1>11 DEF Down, OwnHeld, Fresh, NoTaskForgotten
<1>13. Copies'
  BY <1>11 DEF Copies
<1>. QED  BY <1>7, <1>12, <1>13 DEF Inv

LEMMA RestartInv ==
    ASSUME Types, Inv, Restart
    PROVE  Types' /\ Inv'
<1>1. /\ ~up /\ up' = TRUE /\ reload' = "query"
      /\ UNCHANGED <<dbVars, crashes, creating, retryVars, pending, queueVars,
                     workerVars, historyVars>>
  BY DEF Restart
<1>2. Types'
  BY <1>1, SameLine, SameWork, SameRetry
  DEF Types, RowsOK, LifeOK, LoadOK, HistoryOK, dbVars, historyVars
<1>3. \A u \in Tasks :
         /\ (InLine(u)' <=> InLine(u)) /\ (LineOnce(u)' <=> LineOnce(u))
         /\ (InWork(u)' <=> InWork(u)) /\ (WorkOnce(u)' <=> WorkOnce(u))
         /\ (Pushed(u)' <=> Pushed(u)) /\ (PushOnce(u)' <=> PushOnce(u))
  BY <1>1, SameLine, SameWork, SameRetry
<1>4. \A u \in Tasks : (Held(u)' <=> Held(u)) /\ (Once(u) => Once(u)')
  BY <1>1, <1>3 DEF Held, Once
<1>5. \A u \in Tasks : Unfinished(u)' <=> Unfinished(u)
  BY <1>1 DEF dbVars, Unfinished
<1>6. Down' /\ NoTaskForgotten'
  BY <1>1 DEF Down, NoTaskForgotten
<1>7. OwnHeld' /\ Copies'
  BY <1>1, <1>4, <1>5 DEF Inv, OwnHeld, Copies, Types, HistoryOK, historyVars
<1>8. pending = {} /\ \A u \in Tasks : ~Held(u)
  <2>1. \A u \in Tasks : ~Held(u)
    BY <1>1 DEF Inv, Down
  <2>2. pending = {}
    BY <2>1 DEF Held, Types, LoadOK
  <2>. QED  BY <2>1, <2>2
<1>9. Fresh'
  <2>1. pending' = {} /\ twice' = {} /\ own' = own
    BY <1>1, <1>8 DEF Inv, Down, historyVars
  <2>. QED  BY <1>4, <1>8, <2>1 DEF Fresh
<1>. QED  BY <1>2, <1>6, <1>7, <1>9 DEF Inv

-----------------------------------------------------------------------------
(***************************************************************************)
(* The theorems.                                                           *)
(***************************************************************************)
LEMMA InitInv ==
    ASSUME Init
    PROVE  Types /\ Inv
<1>1. /\ task = [t \in Tasks |-> "none"] /\ clone = [t \in Tasks |-> "none"]
      /\ up = TRUE /\ crashes = 0 /\ creating = {}
      /\ rp = [r \in Retries |-> "new"] /\ rt = [r \in Retries |-> NoTask]
      /\ reload = "query" /\ pending = {}
      /\ taskQueue = <<>> /\ late = [t \in Tasks |-> 0]
      /\ wp = [w \in Workers |-> "idle"] /\ wt = [w \in Workers |-> NoTask]
      /\ own = {} /\ twice = {} /\ dropped = {}
  BY DEF Init
<1>2. Len(taskQueue) = 0 /\ taskQueue \in Seq(Tasks)
  BY <1>1
<1>3. LifeOK
  <2>1. crashes \in 0 .. MaxCrashes
    BY <1>1, TaskAssumption
  <2>. QED  BY <1>1, <2>1, Zenon DEF LifeOK
<1>4. RowsOK /\ RetriesOK /\ LoadOK /\ WorkersOK /\ HistoryOK
  BY <1>1 DEF RowsOK, RetriesOK, LoadOK, WorkersOK, HistoryOK
<1>5. LineOK
  BY <1>1, <1>2, TaskAssumption DEF LineOK
<1>6. Types
  BY <1>1, <1>3, <1>4, <1>5 DEF Types
<1>7. \A u \in Tasks : ~InLine(u) /\ LineOnce(u)
  BY <1>1, <1>2 DEF InLine, LineOnce, Queued, QueuedOnce
<1>8. \A u \in Tasks : ~InWork(u) /\ WorkOnce(u)
  BY <1>1 DEF InWork, WorkOnce
<1>9. \A u \in Tasks : ~Pushed(u) /\ PushOnce(u)
  BY <1>1 DEF Pushed, PushOnce
<1>10. \A u \in Tasks : ~Held(u) /\ Once(u)
  BY <1>1, <1>7, <1>8, <1>9 DEF Held, Once
<1>11. Down /\ OwnHeld /\ Fresh /\ NoTaskForgotten
  BY <1>1, <1>10 DEF Down, OwnHeld, Fresh, NoTaskForgotten
<1>12. Copies
  BY <1>10 DEF Copies
<1>. QED  BY <1>6, <1>11, <1>12 DEF Inv

LEMMA StutterInv ==
    ASSUME Types, Inv, UNCHANGED vars
    PROVE  Types' /\ Inv'
<1>1. UNCHANGED <<dbVars, lifeVars, creating, retryVars, reloadVars, queueVars,
                  workerVars, historyVars>>
  BY DEF vars
<1>2. Types'
  BY <1>1, SameLine, SameWork, SameRetry
  DEF Types, RowsOK, LifeOK, LoadOK, HistoryOK, dbVars, lifeVars, reloadVars,
      historyVars
<1>3. \A u \in Tasks :
         /\ (InLine(u)' <=> InLine(u)) /\ (LineOnce(u)' <=> LineOnce(u))
         /\ (InWork(u)' <=> InWork(u)) /\ (WorkOnce(u)' <=> WorkOnce(u))
         /\ (Pushed(u)' <=> Pushed(u)) /\ (PushOnce(u)' <=> PushOnce(u))
  BY <1>1, SameLine, SameWork, SameRetry
<1>4. UNCHANGED <<up, reload, pending, rp, task, creating, historyVars>>
  BY <1>1 DEF reloadVars, lifeVars, retryVars, dbVars
<1>5. \A u \in Tasks : Unfinished(u)' <=> Unfinished(u)
  BY <1>4 DEF Unfinished
<1>6. \A u \in Tasks : (Held(u)' <=> Held(u)) /\ (Once(u) => Once(u)')
  BY <1>3, <1>4 DEF Held, Once
<1>7. ~up => \A r \in Retries : rp'[r] \notin {"write", "push"}
  BY <1>4 DEF Inv, Down
<1>8. Inv'
  BY <1>4, <1>5, <1>6, <1>7, Moves DEF Types
<1>. QED  BY <1>2, <1>8

LEMMA StepInv ==
    ASSUME Types, Inv, [Next]_vars
    PROVE  Types' /\ Inv'
<1>1. ASSUME NEW t \in Tasks,
             \/ CreateVoiceClone(t) \/ CreateEnqueues(t) \/ DeleteVoiceClone(t)
             \/ LateEnqueues(t) \/ ReloadEnqueues(t)
      PROVE  Types' /\ Inv'
  BY <1>1, CreateInv, CreateEnqueuesInv, DeleteInv, LateInv, ReloadEnqueuesInv
<1>2. ASSUME NEW r \in Retries,
             RetryWrites(r) \/ RetryRollsBack(r) \/ RetryEnqueues(r)
      PROVE  Types' /\ Inv'
  BY <1>2, RetryWritesInv, RetryRollsBackInv, RetryEnqueuesInv
<1>3. ASSUME NEW r \in Retries, NEW t \in Tasks, RetryReads(r, t)
      PROVE  Types' /\ Inv'
  BY <1>3, RetryReadsInv
<1>4. ASSUME NEW w \in Workers, Worker(w)
      PROVE  Types' /\ Inv'
  <2>1. CASE WorkerPicks(w)
    BY <2>1, PicksInv
  <2>2. CASE WorkerClaims(w)
    BY <2>2, ClaimsInv
  <2>3. CASE WorkerSucceeds(w)
    BY <2>3, FinishInv DEF WorkerSucceeds
  <2>4. CASE WorkerFails(w)
    BY <2>4, FinishInv DEF WorkerFails
  <2>5. CASE WorkerLoses(w)
    BY <2>5, LosesInv
  <2>. QED  BY <1>4, <2>1, <2>2, <2>3, <2>4, <2>5 DEF Worker
<1>5. CASE ReloadQueries \/ ReloadFails
  BY <1>5, ReloadQueriesInv, ReloadFailsInv
<1>6. CASE Crash \/ Restart
  BY <1>6, CrashInv, RestartInv
<1>7. CASE UNCHANGED vars
  BY <1>7, StutterInv
<1>. QED  BY <1>1, <1>2, <1>3, <1>4, <1>5, <1>6, <1>7 DEF Next

LEMMA AlwaysInv == Spec => [](Types /\ Inv)
<1>1. Init => Types /\ Inv
  BY InitInv
<1>2. Types /\ Inv /\ [Next]_vars => Types' /\ Inv'
  BY StepInv
<1>. QED  BY <1>1, <1>2, PTL DEF Spec

\* Every variable of the tasks keeps its type and the channel its size, for
\* any number of tasks, workers, retries and crashes.
THEOREM CloneTypeCorrect == Spec => []TypeOK
<1>1. Types /\ Inv => TypeOK
  BY TypesAreTypeOK
<1>. QED  BY <1>1, AlwaysInv, PTL

\* While the process runs, every unfinished task is in somebody's hands, is
\* about to be loaded, or was dropped by a failure of the database.
THEOREM TasksNotForgotten == Spec => []NoTaskForgotten
<1>1. Types /\ Inv => NoTaskForgotten
  BY DEF Inv
<1>. QED  BY <1>1, AlwaysInv, PTL

\* Two workers run one task only if the start has loaded it on top of its
\* submission.
THEOREM TasksRunAlone == Spec => []RunsAlone
<1>1. Types /\ Inv => RunsAlone
  <2>. SUFFICES ASSUME Types, Inv, NEW v \in Workers, NEW w \in Workers,
                       v # w, wp[v] = "run", wp[w] = "run", wt[v] = wt[w],
                       wt[w] \notin twice
                PROVE  FALSE
    BY DEF RunsAlone
  <2>1. wt[w] \in Tasks
    BY DEF Types, WorkersOK
  <2>2. WorkOnce(wt[w])
    BY <2>1 DEF Inv, Copies, Once
  <2>. QED  BY <2>2 DEF WorkOnce
<1>. QED  BY <1>1, AlwaysInv, PTL

\* What each status of a task says of its clone.
LEMMA CloneStatusIs ==
    /\ CloneStatus("none") = "none"
    /\ CloneStatus("queued") = "processing" /\ CloneStatus("processing") = "processing"
    /\ CloneStatus("succeeded") = "active" /\ CloneStatus("failed") = "failed"
BY DEF CloneStatus

\* A task that was not submitted has no clone, not even a deleted one.
NotYet == \A t \in Tasks : task[t] = "none" => clone[t] = "none"

RowsAgree == StatusAgrees /\ NotYet

\* A step that writes the rows of one task, in line with each other.
LEMMA RowsWritten ==
    ASSUME RowsOK, RowsAgree, NEW t \in Tasks, NEW ts, NEW cs,
           task' = [task EXCEPT ![t] = ts], clone' = [clone EXCEPT ![t] = cs],
           ts # "none", cs = "deleted" \/ cs = CloneStatus(ts)
    PROVE  RowsAgree'
<1>. SUFFICES ASSUME NEW u \in Tasks
              PROVE  /\ clone'[u] # "deleted" => clone'[u] = CloneStatus(task'[u])
                     /\ task'[u] = "none" => clone'[u] = "none"
  BY DEF RowsAgree, NotYet, StatusAgrees, CloneStatus
<1>1. CASE u = t
  BY <1>1 DEF RowsOK
<1>2. CASE u # t
  <2>1. clone'[u] = clone[u] /\ task'[u] = task[u]
    BY <1>2 DEF RowsOK
  <2>. QED  BY <2>1 DEF RowsAgree, NotYet, StatusAgrees
<1>. QED  BY <1>1, <1>2

LEMMA RowsUntouched ==
    ASSUME RowsAgree, UNCHANGED <<task, clone>>
    PROVE  RowsAgree'
BY DEF RowsAgree, NotYet, StatusAgrees, CloneStatus

LEMMA StatusStep ==
    ASSUME Types, RowsAgree, [Next]_vars
    PROVE  RowsAgree'
<1>. RowsOK
  BY DEF Types
<1>1. ASSUME NEW t \in Tasks, CreateVoiceClone(t)
      PROVE  RowsAgree'
  BY <1>1, RowsWritten, CloneStatusIs DEF CreateVoiceClone
<1>2. ASSUME NEW t \in Tasks, DeleteVoiceClone(t)
      PROVE  RowsAgree'
  <2>1. task' = [task EXCEPT ![t] = task[t]]
    BY <1>2 DEF DeleteVoiceClone, RowsOK
  <2>2. clone' = [clone EXCEPT ![t] = "deleted"]
    BY <1>2 DEF DeleteVoiceClone
  <2>3. task[t] # "none"
    BY <1>2 DEF DeleteVoiceClone, RowsAgree, NotYet
  <2>. QED  BY <2>1, <2>2, <2>3, RowsWritten
<1>3. ASSUME NEW r \in Retries, RetryWrites(r)
      PROVE  RowsAgree'
  <2>1. PICK t \in Tasks : t = rt[r]
    BY <1>3 DEF RetryWrites, Types, RetriesOK
  <2>2. CASE task[t] = "failed"
    <3>1. /\ task' = [task EXCEPT ![t] = "queued"]
          /\ clone' = [clone EXCEPT ![t] = "processing"]
      BY <1>3, <2>1, <2>2 DEF RetryWrites
    <3>. QED  BY <3>1, RowsWritten, CloneStatusIs
  <2>3. CASE task[t] # "failed"
    BY <1>3, <2>1, <2>3, RowsUntouched DEF RetryWrites
  <2>. QED  BY <2>2, <2>3
<1>4. ASSUME NEW w \in Workers, WorkerClaims(w)
      PROVE  RowsAgree'
  <2>1. PICK t \in Tasks : t = wt[w]
    BY <1>4 DEF WorkerClaims, Types, WorkersOK
  <2>2. CASE Unfinished(t)
    <3>1. /\ task' = [task EXCEPT ![t] = "processing"]
          /\ clone' = [clone EXCEPT ![t] = "processing"]
      BY <1>4, <2>1, <2>2 DEF WorkerClaims
    <3>. QED  BY <3>1, RowsWritten, CloneStatusIs
  <2>3. CASE ~Unfinished(t)
    BY <1>4, <2>1, <2>3, RowsUntouched DEF WorkerClaims, dbVars
  <2>. QED  BY <2>2, <2>3
<1>5. ASSUME NEW w \in Workers, NEW cs, NEW ts, Finish(w, cs, ts), cs = CloneStatus(ts),
             ts # "none"
      PROVE  RowsAgree'
  <2>1. PICK t \in Tasks : t = wt[w]
    BY <1>5 DEF Finish, Types, WorkersOK
  <2>2. PICK c : c = IF clone[t] = "deleted" THEN "deleted" ELSE cs
    OBVIOUS
  <2>3. task' = [task EXCEPT ![t] = ts] /\ clone' = [clone EXCEPT ![t] = c]
    BY <1>5, <2>1, <2>2 DEF Finish, RowsOK
  <2>. QED  BY <1>5, <2>2, <2>3, RowsWritten
<1>6. ASSUME NEW w \in Workers, Worker(w)
      PROVE  RowsAgree'
  <2>1. CASE WorkerPicks(w) \/ WorkerLoses(w)
    BY <2>1, RowsUntouched DEF WorkerPicks, WorkerLoses, dbVars
  <2>2. CASE WorkerClaims(w)
    BY <1>4, <2>2
  <2>3. CASE WorkerSucceeds(w)
    BY <1>5, <2>3, CloneStatusIs DEF WorkerSucceeds
  <2>4. CASE WorkerFails(w)
    BY <1>5, <2>4, CloneStatusIs DEF WorkerFails
  <2>. QED  BY <1>6, <2>1, <2>2, <2>3, <2>4 DEF Worker
<1>7. ASSUME NEW t \in Tasks,
             \/ CreateEnqueues(t) \/ LateEnqueues(t) \/ ReloadEnqueues(t)
             \/ \E r \in Retries : RetryReads(r, t) \/ RetryEnqueues(r)
      PROVE  RowsAgree'
  BY <1>7, RowsUntouched
  DEF CreateEnqueues, LateEnqueues, ReloadEnqueues, RetryReads, RetryEnqueues, dbVars
<1>8. CASE ReloadQueries \/ ReloadFails \/ Crash \/ Restart
  BY <1>8, RowsUntouched DEF ReloadQueries, ReloadFails, Crash, Restart, dbVars
<1>9. CASE UNCHANGED vars
  BY <1>9, RowsUntouched DEF vars, dbVars
<1>10. ASSUME NEW r \in Retries, RetryRollsBack(r) \/ RetryEnqueues(r)
       PROVE  RowsAgree'
  BY <1>10, RowsUntouched DEF RetryRollsBack, RetryEnqueues, dbVars
<1>. QED  BY <1>1, <1>2, <1>3, <1>6, <1>7, <1>8, <1>9, <1>10 DEF Next

LEMMA AlwaysAgree == Spec => []RowsAgree
<1>1. Init => RowsAgree
  BY CloneStatusIs DEF Init, RowsAgree, NotYet, StatusAgrees
<1>2. Types /\ Inv /\ RowsAgree /\ [Next]_vars => RowsAgree'
  BY StatusStep
<1>. QED  BY <1>1, <1>2, AlwaysInv, PTL DEF Spec

\* A clone that is not deleted always says what its task says.
THEOREM StatusAlwaysAgrees == Spec => []StatusAgrees
<1>1. RowsAgree => StatusAgrees
  BY DEF RowsAgree
<1>. QED  BY <1>1, AlwaysAgree, PTL

\* Only a retry that had read a clone before its deletion brings it back once
\* its task has ended.
THEOREM DeletedClonesStay == Spec => DeletedStays
<1>. DEFINE Stays == \A t \in Tasks :
              (/\ clone[t] = "deleted" /\ ~Unfinished(t)
               /\ \A r \in Retries : ~(rp[r] = "write" /\ rt[r] = t))
                  => clone'[t] = "deleted"
<1>1. Types /\ RowsAgree /\ [Next]_vars => Stays
  <2>. SUFFICES ASSUME Types, RowsAgree, [Next]_vars, NEW t \in Tasks, clone[t] = "deleted",
                       ~Unfinished(t),
                       \A r \in Retries : ~(rp[r] = "write" /\ rt[r] = t)
                PROVE  clone'[t] = "deleted"
    OBVIOUS
  <2>. RowsOK
    BY DEF Types
  <2>1. ASSUME NEW u \in Tasks, CreateVoiceClone(u)
        PROVE  clone'[t] = "deleted"
    <3>1. CASE u = t
      <4>1. clone[t] = "none"
        BY <2>1, <3>1 DEF CreateVoiceClone, RowsAgree, NotYet
      <4>. QED  BY <4>1
    <3>2. CASE u # t
      BY <2>1, <3>2 DEF CreateVoiceClone, RowsOK
    <3>. QED  BY <3>1, <3>2
  <2>2. ASSUME NEW u \in Tasks, DeleteVoiceClone(u)
        PROVE  clone'[t] = "deleted"
    BY <2>2 DEF DeleteVoiceClone, RowsOK
  <2>3. ASSUME NEW r \in Retries, RetryWrites(r)
        PROVE  clone'[t] = "deleted"
    BY <2>3 DEF RetryWrites, RowsOK
  <2>4. ASSUME NEW w \in Workers, Worker(w)
        PROVE  clone'[t] = "deleted"
    <3>1. CASE WorkerPicks(w) \/ WorkerLoses(w)
      BY <3>1 DEF WorkerPicks, WorkerLoses, dbVars
    <3>2. CASE WorkerClaims(w)
      BY <3>2 DEF WorkerClaims, RowsOK, dbVars
    <3>3. ASSUME NEW cs, NEW ts, Finish(w, cs, ts)
          PROVE  clone'[t] = "deleted"
      BY <3>3 DEF Finish, RowsOK
    <3>. QED  BY <2>4, <3>1, <3>2, <3>3 DEF Worker, WorkerSucceeds, WorkerFails
  <2>5. ASSUME NEW u \in Tasks,
               \/ CreateEnqueues(u) \/ LateEnqueues(u) \/ ReloadEnqueues(u)
               \/ \E r \in Retries : RetryReads(r, u)
        PROVE  clone'[t] = "deleted"
    BY <2>5 DEF CreateEnqueues, LateEnqueues, ReloadEnqueues, RetryReads, dbVars
  <2>6. ASSUME NEW r \in Retries, RetryRollsBack(r) \/ RetryEnqueues(r)
        PROVE  clone'[t] = "deleted"
    BY <2>6 DEF RetryRollsBack, RetryEnqueues, dbVars
  <2>7. CASE ReloadQueries \/ ReloadFails \/ Crash \/ Restart
    BY <2>7 DEF ReloadQueries, ReloadFails, Crash, Restart, dbVars
  <2>8. CASE UNCHANGED vars
    BY <2>8 DEF vars, dbVars
  <2>. QED  BY <2>1, <2>2, <2>3, <2>4, <2>5, <2>6, <2>7, <2>8 DEF Next
<1>2. Types /\ RowsAgree /\ [Next]_vars => [Stays]_vars
  BY <1>1
<1>. QED  BY <1>2, AlwaysInv, AlwaysAgree, PTL DEF Spec, DeletedStays
=============================================================================
