----------------------------- MODULE ThreadPool -----------------------------
(***************************************************************************)
(* The thread pool, tc-src/base/ThreadPool.{h,cpp}: worker threads that    *)
(* take tasks from a queue, and clients that submit tasks, wait for the    *)
(* queue to drain and stop the pool.  One mutex and ONE condition variable *)
(* serve the workers, which wait for a task, and the clients, which wait   *)
(* for there to be none.  A step is a critical section, or one access to   *)
(* the counter atomic_ between two of them.                                *)
(***************************************************************************)
EXTENDS Integers, Sequences, FiniteSets

CONSTANTS
    Workers,   \* the most threads start() makes; thread i is threads_[i - 1]
    Client,    \* the threads that use the pool
    Owner,     \* the client that starts and stops it
    Task,      \* the tasks that are submitted, each of them once
    NULL,      \* no task, or no answer
    MayTimeOut,\* some clients wait for a limited time
    MaySpurious\* some waits end for no reason

Worker == 1..Workers

ASSUME PoolAssumption ==
    /\ Workers \in Nat \ {0}
    /\ Owner \in Client /\ Client \cap Worker = {}
    /\ NULL \notin Task \cup BOOLEAN
    /\ MayTimeOut \in BOOLEAN /\ MaySpurious \in BOOLEAN

VARIABLES
    tasks,     \* tasks_
    terminate, \* bTerminate_
    threadNum, \* threadNum_
    threads,   \* threads_: the workers that were started and not joined
    active,    \* atomic_
    wpc,       \* where each worker is in run()
    wtask,     \* the task each worker holds
    cpc,       \* where each client is
    answer,    \* what waitForAllDone last returned to each client
    ended      \* the tasks that were run, or discarded after their timeout

vars == <<tasks, terminate, threadNum, threads, active, wpc, wtask, cpc,
          answer, ended>>

\* "none": no thread.  "top": at the head of the loop.  "asleep", "woken": in
\* the wait of get(), and out of it without the mutex yet.  "got": back from
\* get() with a task; "running": counted in atomic_; "ran": the task is over;
\* "counted": out of atomic_ again.  "left": run() has returned.
WorkerPCs == {"none", "top", "asleep", "woken", "got", "running", "ran",
              "counted", "left"}

\* "asleep", "timed": in the wait, or wait_for, of waitForAllDone; "woken",
\* "timed_woken": notified; "expired": timed out; "joining": in stop().
ClientPCs == {"out", "asleep", "timed", "woken", "timed_woken", "expired",
              "joining"}

AsleepWorkers == {w \in Worker : wpc[w] = "asleep"}
AsleepClients == {c \in Client : cpc[c] \in {"asleep", "timed"}}
Busy == {w \in Worker : wpc[w] \in {"got", "running", "ran", "counted"}}

WokenPlace == [asleep |-> "woken", timed |-> "timed_woken"]
SleepPlace == [woken |-> "asleep", timed_woken |-> "timed"]
-----------------------------------------------------------------------------
(* The condition variable.  Whom it wakes is its business.                 *)

NotifyNobody == UNCHANGED <<wpc, cpc>>
NotifyOne ==
    \/ AsleepWorkers \cup AsleepClients = {} /\ NotifyNobody
    \/ \E w \in AsleepWorkers : wpc' = [wpc EXCEPT ![w] = "woken"] /\ UNCHANGED cpc
    \/ \E c \in AsleepClients :
          cpc' = [cpc EXCEPT ![c] = WokenPlace[@]] /\ UNCHANGED wpc

\* Everyone who sleeps, once v and d say where the others go on.
WakeWorkers(v) == [w \in Worker |-> IF w \in AsleepWorkers THEN "woken" ELSE v[w]]
WakeClients(d) == [c \in Client |-> IF c \in AsleepClients THEN WokenPlace[cpc[c]]
                                    ELSE d[c]]
-----------------------------------------------------------------------------
(* The clients.                                                            *)

\* init(): refused once there are threads.
Configure(n) ==
    /\ cpc[Owner] = "out" /\ threads = {}
    /\ threadNum' = n
    /\ UNCHANGED <<tasks, terminate, threads, active, wpc, wtask, cpc, answer, ended>>

\* start(): refused once there are threads.  It does not reset bTerminate_.
Start ==
    /\ cpc[Owner] = "out" /\ threads = {}
    /\ threads' = 1..threadNum
    /\ wpc' = [w \in Worker |-> IF w \in threads' THEN "top" ELSE wpc[w]]
    /\ UNCHANGED <<tasks, terminate, threadNum, active, wtask, cpc, answer, ended>>

\* The tasks that were submitted.
Held == {wtask[w] : w \in Worker} \ {NULL}
Queued == {tasks[i] : i \in DOMAIN tasks}
Submitted == Queued \cup Held \cup ended

\* exec()
ExecMutant(c, t) ==
    /\ cpc[c] = "out" /\ t \notin Submitted
    /\ tasks' = Append(tasks, t)
    /\ NotifyNobody
    /\ UNCHANGED <<terminate, threadNum, threads, active, wtask, answer, ended>>
Exec(c, t) ==
    /\ cpc[c] = "out" /\ t \notin Submitted
    /\ tasks' = Append(tasks, t)
    /\ NotifyOne
    /\ UNCHANGED <<terminate, threadNum, threads, active, wtask, answer, ended>>

Answer(c, b) == cpc' = [cpc EXCEPT ![c] = "out"] /\ answer' = [answer EXCEPT ![c] = b]

\* waitForAllDone(): there is nothing to wait for, or wait.
WaitNothing(c) ==
    /\ cpc[c] = "out" /\ tasks = <<>>
    /\ Answer(c, TRUE)
    /\ UNCHANGED <<tasks, terminate, threadNum, threads, active, wpc, wtask, ended>>

WaitSleeps(c) ==
    /\ cpc[c] = "out" /\ tasks # <<>>
    /\ \/ cpc' = [cpc EXCEPT ![c] = "asleep"]
       \/ MayTimeOut /\ cpc' = [cpc EXCEPT ![c] = "timed"]
    /\ answer' = [answer EXCEPT ![c] = NULL]
    /\ UNCHANGED <<tasks, terminate, threadNum, threads, active, wpc, wtask, ended>>

WaitExpires(c) ==
    /\ cpc[c] = "timed"
    /\ cpc' = [cpc EXCEPT ![c] = "expired"]
    /\ UNCHANGED <<tasks, terminate, threadNum, threads, active, wpc, wtask, answer, ended>>

\* Back with the mutex: the predicate is tasks_.empty(), and nothing else.
WaitResumes(c) ==
    /\ \/ /\ cpc[c] \in {"woken", "timed_woken", "expired"} /\ tasks = <<>>
          /\ Answer(c, TRUE)
       \/ cpc[c] = "expired" /\ tasks # <<>> /\ Answer(c, FALSE)
       \/ /\ cpc[c] \in {"woken", "timed_woken"} /\ tasks # <<>>
          /\ cpc' = [cpc EXCEPT ![c] = SleepPlace[@]] /\ UNCHANGED answer
    /\ UNCHANGED <<tasks, terminate, threadNum, threads, active, wpc, wtask, ended>>

\* stop(), also called by the destructor: the first critical section ...
Stop ==
    /\ cpc[Owner] = "out"
    /\ terminate' = TRUE
    /\ wpc' = WakeWorkers(wpc)
    /\ cpc' = WakeClients([cpc EXCEPT ![Owner] = "joining"])
    /\ UNCHANGED <<tasks, threadNum, threads, active, wtask, answer, ended>>

\* ... and, once every thread has returned, the second.
Joined == cpc[Owner] = "joining" /\ \A w \in threads : wpc[w] = "left"

StopEnds ==
    /\ Joined
    /\ threads' = {}
    /\ wpc' = [w \in Worker |-> IF w \in threads THEN "none" ELSE wpc[w]]
    /\ cpc' = [cpc EXCEPT ![Owner] = "out"]
    /\ UNCHANGED <<tasks, terminate, threadNum, active, wtask, answer, ended>>
-----------------------------------------------------------------------------
(* The workers.                                                            *)

\* What the predicate in get() waits for.
HasWorkMutant == tasks # <<>>
HasWork == terminate \/ tasks # <<>>

\* isTerminate() is read without the mutex.  A worker that misses the news
\* gets it from get(), which looks again under the mutex.
Leave(w) ==
    /\ wpc[w] = "top" /\ terminate
    /\ wpc' = [wpc EXCEPT ![w] = "left"]
    /\ UNCHANGED <<tasks, terminate, threadNum, threads, active, wtask, cpc, answer, ended>>

\* get() with the mutex held, at first or after a wait.
InGet(w) == wpc[w] \in {"top", "woken"}

GetSleeps(w) ==
    /\ InGet(w) /\ ~HasWork
    /\ wpc' = [wpc EXCEPT ![w] = "asleep"]
    /\ UNCHANGED <<tasks, terminate, threadNum, threads, active, wtask, cpc, answer, ended>>

GetRefused(w) ==
    /\ InGet(w) /\ terminate
    /\ wpc' = [wpc EXCEPT ![w] = "left"]
    /\ UNCHANGED <<tasks, terminate, threadNum, threads, active, wtask, cpc, answer, ended>>

GetTakesMutant(w) ==
    /\ InGet(w) /\ ~terminate /\ tasks # <<>>
    /\ wtask' = [wtask EXCEPT ![w] = Head(tasks)]
    /\ wpc' = [wpc EXCEPT ![w] = "got"]
    /\ UNCHANGED <<tasks, terminate, threadNum, threads, active, cpc, answer, ended>>
GetTakes(w) ==
    /\ InGet(w) /\ ~terminate /\ tasks # <<>>
    /\ wtask' = [wtask EXCEPT ![w] = Head(tasks)]
    /\ tasks' = Tail(tasks)
    /\ wpc' = [wpc EXCEPT ![w] = "got"]
    /\ UNCHANGED <<terminate, threadNum, threads, active, cpc, answer, ended>>

CountUp(w) ==
    /\ wpc[w] = "got"
    /\ active' = active + 1
    /\ wpc' = [wpc EXCEPT ![w] = "running"]
    /\ UNCHANGED <<tasks, terminate, threadNum, threads, wtask, cpc, answer, ended>>

\* The task is called, and what it throws is caught; or its time has passed
\* and it is not called.  Either way nobody calls it again.
RunTask(w) ==
    /\ wpc[w] = "running"
    /\ ended' = ended \cup {wtask[w]}
    /\ wpc' = [wpc EXCEPT ![w] = "ran"]
    /\ UNCHANGED <<tasks, terminate, threadNum, threads, active, wtask, cpc, answer>>

CountDown(w) ==
    /\ wpc[w] = "ran"
    /\ active' = active - 1
    /\ wtask' = [wtask EXCEPT ![w] = NULL]
    /\ wpc' = [wpc EXCEPT ![w] = "counted"]
    /\ UNCHANGED <<tasks, terminate, threadNum, threads, cpc, answer, ended>>

\* "All tasks have been executed": wake the clients, and with them the workers.
AllDoneMutant == active = 1 /\ tasks = <<>>
AllDone == active = 0 /\ tasks = <<>>

TellClients(w) ==
    /\ wpc[w] = "counted"
    /\ IF AllDone
       THEN /\ wpc' = WakeWorkers([wpc EXCEPT ![w] = "top"])
            /\ cpc' = WakeClients(cpc)
       ELSE wpc' = [wpc EXCEPT ![w] = "top"] /\ UNCHANGED cpc
    /\ UNCHANGED <<tasks, terminate, threadNum, threads, active, wtask, answer, ended>>

\* A wait may also end for no reason.
Spurious ==
    /\ MaySpurious
    /\ UNCHANGED <<tasks, terminate, threadNum, threads, active, wtask, answer, ended>>
    /\ \/ \E w \in AsleepWorkers : wpc' = [wpc EXCEPT ![w] = "woken"] /\ UNCHANGED cpc
       \/ \E c \in AsleepClients :
             cpc' = [cpc EXCEPT ![c] = WokenPlace[@]] /\ UNCHANGED wpc
-----------------------------------------------------------------------------
Init ==
    /\ tasks = <<>> /\ terminate = FALSE
    /\ threadNum = 1 /\ threads = {} /\ active = 0
    /\ wpc = [w \in Worker |-> "none"] /\ wtask = [w \in Worker |-> NULL]
    /\ cpc = [c \in Client |-> "out"] /\ answer = [c \in Client |-> NULL]
    /\ ended = {}

\* What a client asks for, and how what it asked for goes on.
Ask(c) == \/ \E t \in Task : Exec(c, t)
          \/ WaitNothing(c) \/ WaitSleeps(c)
Go(c)  == WaitExpires(c) \/ WaitResumes(c)
Work(w) == \/ Leave(w) \/ GetSleeps(w) \/ GetRefused(w) \/ GetTakes(w)
           \/ CountUp(w) \/ RunTask(w) \/ CountDown(w) \/ TellClients(w)

Next ==
    \/ \E n \in Worker : Configure(n)
    \/ Start \/ Stop \/ StopEnds \/ Spurious
    \/ \E c \in Client : Ask(c) \/ Go(c)
    \/ \E w \in Worker : Work(w)

Spec == Init /\ [][Next]_vars

\* A thread that can go on does, and a task that is called returns.  Nothing
\* makes a client ask for anything, or start or stop the pool.
FairSpec ==
    /\ Spec /\ WF_vars(StopEnds)
    /\ \A w \in Worker : WF_vars(Work(w))
    /\ \A c \in Client : WF_vars(Go(c))
-----------------------------------------------------------------------------
(* What the pool promises.                                                 *)

TypeOK ==
    /\ tasks \in Seq(Task)
    /\ terminate \in BOOLEAN
    /\ threadNum \in Worker /\ threads \subseteq Worker
    /\ active \in Nat
    /\ wpc \in [Worker -> WorkerPCs] /\ wtask \in [Worker -> Task \cup {NULL}]
    /\ cpc \in [Client -> ClientPCs] /\ answer \in [Client -> BOOLEAN \cup {NULL}]
    /\ ended \subseteq Task

\* A task is in one place: once in the queue, with one worker, or over.
TaskOnce ==
    /\ \A i, j \in DOMAIN tasks : tasks[i] = tasks[j] => i = j
    /\ \A w, x \in Worker : wtask[w] # NULL /\ wtask[w] = wtask[x] => w = x
    /\ Queued \cap (Held \cup ended) = {}
    /\ \A w \in Worker : wpc[w] \in {"got", "running"} => wtask[w] \notin ended

\* atomic_ lags behind get() and never runs ahead: it counts the workers whose
\* task has been counted in and not out, so it is 0 only when none is.
ActiveCounts ==
    active = Cardinality({w \in Worker : wpc[w] \in {"running", "ran"}})

\* After stop() the pool is quiet: no thread is left, none holds a task.
StopIsQuiet ==
    threads = {} => /\ Held = {} /\ active = 0
                    /\ \A w \in Worker : wpc[w] = "none"

\* No wakeup is lost, though exec() may wake a client in place of a worker:
\* a queued task has a worker that is awake and will look at the queue.
QueuedTaskSeen ==
    tasks # <<>> /\ threads # {} /\ ~terminate =>
        \E w \in threads : wpc[w] # "asleep"

\* A client that waits while the queue is empty waits for a task in hand,
\* whose worker will wake it.
WaiterWillBeTold == tasks = <<>> /\ AsleepClients # {} => Busy # {}

\* The queue is first in, first out, and only workers take from it: nothing
\* that was queued is dropped or overtaken, by stop() either.
QueueIsFifo ==
    [][\/ tasks' = tasks
       \/ \E t \in Task : tasks' = Append(tasks, t)
       \/ tasks # <<>> /\ tasks' = Tail(tasks) /\ Head(tasks) \in Held']_vars

\* A task that is queued while the pool has threads is taken, unless the pool
\* is stopped.
QueuedTaskTaken ==
    \A t \in Task : (t \in Queued /\ threads # {}) ~> (t \in ended \/ terminate)

\* stop() returns.
StopReturns == cpc[Owner] = "joining" ~> cpc[Owner] = "out"
=============================================================================
