-------------------------- MODULE VoiceCloneTasks --------------------------
(***************************************************************************)
(* Voice cloning in the management backend: the tasks of                   *)
(* manager/backend/controllers/voice_clone_task_worker.go and the requests *)
(* of voice_clone.go that submit, retry and delete them.                   *)
(*                                                                         *)
(* A clone and its one task are rows of a database.  What is to be done    *)
(* about an unfinished task is known only to the process: a channel,       *)
(* goroutines that wait for room in it, two workers.  A crash forgets all  *)
(* of that and leaves the rows; the next start loads the unfinished tasks  *)
(* again, while it already takes requests.                                 *)
(*                                                                         *)
(* A transaction is a step when its writes check what they depend on.      *)
(* RetryVoiceClone's write to the clone does not, so its reads are a step  *)
(* of their own, as under MySQL's snapshots.                               *)
(*                                                                         *)
(* Audio files, quotas, names, sharing and the providers' protocols are    *)
(* left out: a clone succeeds or fails.                                    *)
(***************************************************************************)
EXTENDS Integers, Sequences

CONSTANTS
    Tasks,       \* tasks, each with its clone
    Workers,     \* voiceCloneTaskWorkerCount
    Retries,     \* calls of RetryVoiceClone
    NoTask,
    QueueSize,   \* voiceCloneTaskQueueSize
    MaxCrashes,  \* bound on crashes
    MayFail      \* whether the database may fail

ASSUME TaskAssumption ==
    /\ NoTask \notin Tasks
    /\ QueueSize \in Nat \ {0}
    /\ MaxCrashes \in Nat
    /\ MayFail \in BOOLEAN

VARIABLES
    \* the database
    task,        \* status of each task
    clone,       \* status of its clone
    \* the process
    up, crashes,
    creating,    \* submitted by CreateVoiceClone, not yet queued
    rp, rt,      \* each retry: where it is, and its task
    reload,      \* reloadPendingVoiceCloneTasks: "query" or "push" ...
    pending,     \* ... and the tasks it has yet to queue
    taskQueue,
    late,        \* goroutines waiting to queue a task, per task
    wp, wt,      \* each worker: where it is, and its task
    \* history of this life of the process
    own,         \* tasks submitted in it
    twice,       \* tasks it has loaded after they were submitted in it
    dropped      \* tasks a failure of the database has left to nobody

dbVars == <<task, clone>>
retryVars == <<rp, rt>>
reloadVars == <<reload, pending>>
queueVars == <<taskQueue, late>>
workerVars == <<wp, wt>>
lifeVars == <<up, crashes>>
historyVars == <<own, twice, dropped>>
vars == <<dbVars, lifeVars, creating, retryVars, reloadVars, queueVars,
          workerVars, historyVars>>

Unfinished(t) == task[t] \in {"queued", "processing"}

Init ==
    /\ task = [t \in Tasks |-> "none"] /\ clone = [t \in Tasks |-> "none"]
    /\ up = TRUE /\ crashes = 0 /\ creating = {}
    /\ rp = [r \in Retries |-> "new"] /\ rt = [r \in Retries |-> NoTask]
    /\ reload = "query" /\ pending = {}
    /\ taskQueue = <<>> /\ late = [t \in Tasks |-> 0]
    /\ wp = [w \in Workers |-> "idle"] /\ wt = [w \in Workers |-> NoTask]
    /\ own = {} /\ twice = {} /\ dropped = {}

-----------------------------------------------------------------------------
(***************************************************************************)
(* enqueueVoiceCloneTask                                                   *)
(***************************************************************************)
\* Fault: a task that finds the queue full is lost.
EnqueueDrops(t) ==
    /\ taskQueue' = IF Len(taskQueue) < QueueSize THEN Append(taskQueue, t)
                                                  ELSE taskQueue
    /\ UNCHANGED late

\* Fault: the queue grows beyond its size.
EnqueueGrows(t) ==
    /\ taskQueue' = Append(taskQueue, t)
    /\ UNCHANGED late

\* Fault: the goroutine is left behind in either case.
EnqueueTwice(t) ==
    /\ taskQueue' = IF Len(taskQueue) < QueueSize THEN Append(taskQueue, t)
                                                  ELSE taskQueue
    /\ late' = [late EXCEPT ![t] = @ + 1]

\* Without room a goroutine is left behind that waits for it.
Enqueue(t) ==
    IF Len(taskQueue) < QueueSize
      THEN taskQueue' = Append(taskQueue, t) /\ UNCHANGED late
      ELSE late' = [late EXCEPT ![t] = @ + 1] /\ UNCHANGED taskQueue

LateEnqueues(t) ==
    /\ late[t] > 0 /\ Len(taskQueue) < QueueSize
    /\ taskQueue' = Append(taskQueue, t)
    /\ late' = [late EXCEPT ![t] = @ - 1]
    /\ UNCHANGED <<dbVars, lifeVars, creating, retryVars, reloadVars, workerVars,
                   historyVars>>

-----------------------------------------------------------------------------
(***************************************************************************)
(* The requests.                                                           *)
(***************************************************************************)
\* Clone and task are inserted in one transaction ...
CreateVoiceClone(t) ==
    /\ up /\ task[t] = "none"
    /\ task' = [task EXCEPT ![t] = "queued"]
    /\ clone' = [clone EXCEPT ![t] = "processing"]
    /\ creating' = creating \union {t}
    /\ own' = own \union {t}
    /\ UNCHANGED <<lifeVars, retryVars, reloadVars, queueVars, workerVars, twice,
                   dropped>>

\* ... and the task is queued after it.
CreateEnqueues(t) ==
    /\ t \in creating
    /\ creating' = creating \ {t}
    /\ Enqueue(t)
    /\ UNCHANGED <<dbVars, lifeVars, retryVars, reloadVars, workerVars,
                   historyVars>>

DeleteVoiceClone(t) ==
    /\ up /\ clone[t] \notin {"none", "deleted"}
    /\ clone' = [clone EXCEPT ![t] = "deleted"]
    /\ UNCHANGED <<task, lifeVars, creating, retryVars, reloadVars, queueVars,
                   workerVars, historyVars>>

RetryReads(r, t) ==
    /\ up /\ rp[r] = "new"
    /\ clone[t] \notin {"none", "deleted"} /\ task[t] = "failed"
    /\ rp' = [rp EXCEPT ![r] = "write"]
    /\ rt' = [rt EXCEPT ![r] = t]
    /\ UNCHANGED <<dbVars, lifeVars, creating, reloadVars, queueVars, workerVars,
                   historyVars>>

\* Fault: the clone is not told.
RetryWritesTask(r) ==
    /\ rp[r] = "write"
    /\ IF task[rt[r]] = "failed"
         THEN /\ task' = [task EXCEPT ![rt[r]] = "queued"]
              /\ rp' = [rp EXCEPT ![r] = "push"]
              /\ own' = own \union {rt[r]}
              /\ dropped' = dropped \ {rt[r]}
         ELSE /\ rp' = [rp EXCEPT ![r] = "over"]
              /\ UNCHANGED <<task, own, dropped>>
    /\ UNCHANGED <<clone, lifeVars, creating, rt, reloadVars, queueVars,
                   workerVars, twice>>

\* The task is written only if it is still failed; if not, the transaction,
\* which has also written the clone, is rolled back.
RetryWrites(r) ==
    /\ rp[r] = "write"
    /\ IF task[rt[r]] = "failed"
         THEN /\ task' = [task EXCEPT ![rt[r]] = "queued"]
              /\ clone' = [clone EXCEPT ![rt[r]] = "processing"]
              /\ rp' = [rp EXCEPT ![r] = "push"]
              /\ own' = own \union {rt[r]}
              /\ dropped' = dropped \ {rt[r]}
         ELSE /\ rp' = [rp EXCEPT ![r] = "over"]
              /\ UNCHANGED <<task, clone, own, dropped>>
    /\ UNCHANGED <<lifeVars, creating, rt, reloadVars, queueVars, workerVars,
                   twice>>

\* The transaction itself fails, and leaves both rows as they were.
RetryRollsBack(r) ==
    /\ MayFail /\ rp[r] = "write"
    /\ rp' = [rp EXCEPT ![r] = "over"]
    /\ UNCHANGED <<dbVars, lifeVars, creating, rt, reloadVars, queueVars,
                   workerVars, historyVars>>

RetryEnqueues(r) ==
    /\ rp[r] = "push"
    /\ rp' = [rp EXCEPT ![r] = "over"]
    /\ Enqueue(rt[r])
    /\ UNCHANGED <<dbVars, lifeVars, creating, rt, reloadVars, workerVars,
                   historyVars>>

-----------------------------------------------------------------------------
(***************************************************************************)
(* processVoiceCloneTask                                                   *)
(***************************************************************************)
WorkerPicks(w) ==
    /\ wp[w] = "idle" /\ taskQueue # <<>>
    /\ wp' = [wp EXCEPT ![w] = "claim"]
    /\ wt' = [wt EXCEPT ![w] = Head(taskQueue)]
    /\ taskQueue' = Tail(taskQueue)
    /\ UNCHANGED <<dbVars, lifeVars, creating, retryVars, reloadVars, late,
                   historyVars>>

\* claimVoiceCloneTask: a task in processing may be claimed, too, since it may
\* be left from a crash.
WorkerClaims(w) ==
    /\ wp[w] = "claim"
    /\ IF Unfinished(wt[w])
         THEN /\ task' = [task EXCEPT ![wt[w]] = "processing"]
              /\ clone' = [clone EXCEPT ![wt[w]] = "processing"]
              /\ wp' = [wp EXCEPT ![w] = "run"]
              /\ UNCHANGED wt
         ELSE /\ wp' = [wp EXCEPT ![w] = "idle"]
              /\ wt' = [wt EXCEPT ![w] = NoTask]
              /\ UNCHANGED dbVars
    /\ UNCHANGED <<lifeVars, creating, retryVars, reloadVars, queueVars,
                   historyVars>>

\* Fault: the result is written to a deleted clone.
FinishAnyway(w, cs, ts) ==
    /\ wp[w] = "run"
    /\ clone' = [clone EXCEPT ![wt[w]] = cs]
    /\ task' = [task EXCEPT ![wt[w]] = ts]
    /\ wp' = [wp EXCEPT ![w] = "idle"]
    /\ wt' = [wt EXCEPT ![w] = NoTask]
    /\ UNCHANGED <<lifeVars, creating, retryVars, reloadVars, queueVars,
                   historyVars>>

\* The transaction with which a run ends; a deleted clone is left alone.
Finish(w, cs, ts) ==
    /\ wp[w] = "run"
    /\ clone' = [clone EXCEPT ![wt[w]] = IF @ = "deleted" THEN @ ELSE cs]
    /\ task' = [task EXCEPT ![wt[w]] = ts]
    /\ wp' = [wp EXCEPT ![w] = "idle"]
    /\ wt' = [wt EXCEPT ![w] = NoTask]
    /\ UNCHANGED <<lifeVars, creating, retryVars, reloadVars, queueVars,
                   historyVars>>

WorkerSucceeds(w) == Finish(w, "active", "succeeded")

\* The provider fails or takes too long; audio or configuration is missing.
WorkerFails(w) == Finish(w, "failed", "failed")

\* The transaction of the claim, or the one at the end, fails: this is
\* logged, and the worker goes on to the next task.
WorkerLoses(w) ==
    /\ MayFail /\ wp[w] \in {"claim", "run"}
    /\ wp' = [wp EXCEPT ![w] = "idle"]
    /\ wt' = [wt EXCEPT ![w] = NoTask]
    /\ dropped' = dropped \union {wt[w]}
    /\ UNCHANGED <<dbVars, lifeVars, creating, retryVars, reloadVars, queueVars,
                   own, twice>>

-----------------------------------------------------------------------------
(***************************************************************************)
(* Crash and start.  startVoiceCloneWorkers loads the unfinished tasks in  *)
(* a goroutine of its own.                                                 *)
(***************************************************************************)
\* Fault: only tasks that were not begun are loaded.
ReloadQueriesQueued ==
    /\ up /\ reload = "query"
    /\ reload' = "push"
    /\ pending' = {t \in Tasks : task[t] = "queued"}
    /\ twice' = pending' \intersect own
    /\ UNCHANGED <<dbVars, lifeVars, creating, retryVars, queueVars, workerVars,
                   own, dropped>>

ReloadQueries ==
    /\ up /\ reload = "query"
    /\ reload' = "push"
    /\ pending' = {t \in Tasks : Unfinished(t)}
    /\ twice' = pending' \intersect own
    /\ UNCHANGED <<dbVars, lifeVars, creating, retryVars, queueVars, workerVars,
                   own, dropped>>

\* The query fails, and no task of an earlier life is taken up.
ReloadFails ==
    /\ MayFail /\ up /\ reload = "query"
    /\ reload' = "push"
    /\ dropped' = dropped \union {t \in Tasks \ own : Unfinished(t)}
    /\ UNCHANGED <<dbVars, lifeVars, creating, retryVars, pending, queueVars,
                   workerVars, own, twice>>

ReloadEnqueues(t) ==
    /\ t \in pending
    /\ pending' = pending \ {t}
    /\ Enqueue(t)
    /\ UNCHANGED <<dbVars, lifeVars, creating, retryVars, reload, workerVars,
                   historyVars>>

Crash ==
    /\ up /\ crashes < MaxCrashes
    /\ up' = FALSE
    /\ crashes' = crashes + 1
    /\ creating' = {}
    /\ rp' = [r \in Retries |-> IF rp[r] = "new" THEN "new" ELSE "over"]
    /\ rt' = [r \in Retries |-> NoTask]
    /\ reload' = "push" /\ pending' = {}
    /\ taskQueue' = <<>> /\ late' = [t \in Tasks |-> 0]
    /\ wp' = [w \in Workers |-> "idle"] /\ wt' = [w \in Workers |-> NoTask]
    /\ own' = {} /\ twice' = {} /\ dropped' = {}
    /\ UNCHANGED dbVars

Restart ==
    /\ ~up
    /\ up' = TRUE
    /\ reload' = "query"
    /\ UNCHANGED <<dbVars, crashes, creating, retryVars, pending, queueVars,
                   workerVars, historyVars>>

-----------------------------------------------------------------------------
Worker(w) ==
    \/ WorkerPicks(w) \/ WorkerClaims(w) \/ WorkerSucceeds(w) \/ WorkerFails(w)
    \/ WorkerLoses(w)

Next ==
    \/ \E t \in Tasks :
          \/ CreateVoiceClone(t) \/ CreateEnqueues(t) \/ DeleteVoiceClone(t)
          \/ LateEnqueues(t) \/ ReloadEnqueues(t)
    \/ \E r \in Retries :
          \/ RetryWrites(r) \/ RetryRollsBack(r) \/ RetryEnqueues(r)
          \/ \E t \in Tasks : RetryReads(r, t)
    \/ \E w \in Workers : Worker(w)
    \/ ReloadQueries \/ ReloadFails \/ Crash \/ Restart

Spec == Init /\ [][Next]_vars

\* Every goroutine that runs goes on; a provider's answer, or the five minutes
\* a run may take, end it.  Nothing makes a request come, the process crash or
\* anybody start it again.
Fairness ==
    /\ \A w \in Workers : WF_vars(Worker(w))
    /\ \A t \in Tasks : /\ WF_vars(CreateEnqueues(t)) /\ WF_vars(LateEnqueues(t))
                        /\ WF_vars(ReloadEnqueues(t))
    /\ \A r \in Retries : /\ WF_vars(RetryWrites(r) \/ RetryRollsBack(r))
                          /\ WF_vars(RetryEnqueues(r))
    /\ WF_vars(ReloadQueries \/ ReloadFails)

FairSpec == Spec /\ Fairness

-----------------------------------------------------------------------------
(***************************************************************************)
(* Properties                                                              *)
(***************************************************************************)
\* Every variable has its type, whoever has a task in hand has one, and the
\* channel holds no more than it was made for.
TypeOK ==
    /\ task \in [Tasks -> {"none", "queued", "processing", "succeeded", "failed"}]
    /\ clone \in [Tasks -> {"none", "processing", "active", "failed", "deleted"}]
    /\ up \in BOOLEAN /\ crashes \in 0 .. MaxCrashes
    /\ creating \subseteq Tasks
    /\ rp \in [Retries -> {"new", "write", "push", "over"}]
    /\ rt \in [Retries -> Tasks \union {NoTask}]
    /\ \A r \in Retries : rp[r] \in {"write", "push"} => rt[r] \in Tasks
    /\ reload \in {"query", "push"} /\ pending \subseteq Tasks
    /\ taskQueue \in Seq(Tasks) /\ Len(taskQueue) <= QueueSize
    /\ late \in [Tasks -> Nat]
    /\ wp \in [Workers -> {"idle", "claim", "run"}]
    /\ wt \in [Workers -> Tasks \union {NoTask}]
    /\ \A w \in Workers : wp[w] # "idle" => wt[w] \in Tasks
    /\ own \subseteq Tasks /\ twice \subseteq Tasks /\ dropped \subseteq Tasks

\* What the status of a task says of its clone.
CloneStatus(ts) ==
    CASE ts = "none" -> "none"
      [] ts \in {"queued", "processing"} -> "processing"
      [] ts = "succeeded" -> "active"
      [] ts = "failed" -> "failed"

\* The two rows never disagree: a user who has not deleted a clone reads from
\* it what its task says, although five transactions write them, some in the
\* other order, retries and deletions come at any time and a crash may fall
\* between any two of them.
StatusAgrees ==
    \A t \in Tasks : clone[t] # "deleted" => clone[t] = CloneStatus(task[t])

\* A task waits for a worker, has one, or is about to be queued by a retry.
InLine(t) == late[t] > 0 \/ \E i \in 1 .. Len(taskQueue) : taskQueue[i] = t

InWork(t) == \E w \in Workers : wp[w] # "idle" /\ wt[w] = t

Pushed(t) == \E r \in Retries : rp[r] = "push" /\ rt[r] = t

\* Somebody in the process will bring the task to a worker, or runs it.
Held(t) == t \in creating \/ t \in pending \/ InLine(t) \/ InWork(t) \/ Pushed(t)

\* While the process runs, a task the database calls unfinished is in
\* somebody's hands, or is about to be loaded: no full queue and no crash
\* between a commit and the enqueue after it leaves a row that nobody will
\* look at, except for a failure of the database itself.
NoTaskForgotten ==
    up => \A t \in Tasks :
              Unfinished(t) => Held(t) \/ reload = "query" \/ t \in dropped

\* Two workers run the same task only if the start has loaded a task that
\* was submitted while it ran.  The claim itself does not prevent it, as it
\* accepts a task in processing: what does is that a task is queued once.
RunsAlone ==
    \A v, w \in Workers :
        (v # w /\ wp[v] = "run" /\ wp[w] = "run" /\ wt[v] = wt[w])
            => wt[w] \in twice

\* A clone deleted after its task has ended stays deleted, whatever a second
\* run of the task, or a retry that comes later, does.  This says nothing of
\* the two ways in which the code does bring a deleted clone back: the claim
\* of a task that was still to be run, and a retry that had read the clone
\* before.
DeletedStays ==
    [][\A t \in Tasks :
          (/\ clone[t] = "deleted" /\ ~Unfinished(t)
           /\ \A r \in Retries : ~(rp[r] = "write" /\ rt[r] = t))
              => clone'[t] = "deleted"]_vars

\* A submitted task ends in this life of the process, should the process not
\* end first.  A task that a failed transaction has dropped need not: nobody
\* takes it up before the next start, in which it is one of those loaded.
TaskSettles ==
    \A t \in Tasks : Unfinished(t) ~> (~Unfinished(t) \/ ~up \/ t \in dropped)
=============================================================================
