-------------------------- MODULE ThreadPoolProofs --------------------------
(* What ThreadPool keeps for every number of threads, clients and tasks,     *)
(* with waits that time out or end for no reason.                            *)
EXTENDS ThreadPool, FiniteSetTheorems, TLAPS

-----------------------------------------------------------------------------
(* The inductive invariant.                                                  *)

\* A worker is a thread of the pool or is nowhere, and holds a task exactly
\* from the moment it has taken it to the moment it counts itself out.
Places ==
    \A w \in Worker :
        /\ wpc[w] = "none" <=> w \notin threads
        /\ wtask[w] # NULL <=> wpc[w] \in {"got", "running", "ran"}

Running == {w \in Worker : wpc[w] \in {"running", "ran"}}

Inv == /\ TypeOK /\ Places /\ TaskOnce /\ ActiveCounts
       /\ QueuedTaskSeen /\ WaiterWillBeTold

-----------------------------------------------------------------------------
(* Helpers.                                                                  *)

LEMMA WorkersFinite ==
    /\ IsFiniteSet(Worker)
    /\ \A S \in SUBSET Worker : IsFiniteSet(S) /\ Cardinality(S) \in Nat
  <1>1. IsFiniteSet(Worker)
    BY FS_Interval, PoolAssumption DEF Worker
  <1>2. QED
    BY <1>1, FS_Subset, FS_CardinalityType

LEMMA QueuedAppend ==
    ASSUME NEW q \in Seq(Task), NEW t \in Task, NEW r, r = Append(q, t)
    PROVE  /\ r \in Seq(Task) /\ r # <<>> /\ Len(r) = Len(q) + 1
           /\ DOMAIN r = DOMAIN q \cup {Len(r)} /\ Len(r) \notin DOMAIN q
           /\ r[Len(r)] = t /\ \A i \in DOMAIN q : r[i] = q[i]
  OBVIOUS

LEMMA QueuedTail ==
    ASSUME NEW q \in Seq(Task), q # <<>>, NEW r, r = Tail(q)
    PROVE  /\ Head(q) \in Task /\ Head(q) = q[1] /\ 1 \in DOMAIN q
           /\ r \in Seq(Task)
           /\ \A i \in DOMAIN r : i + 1 \in DOMAIN q /\ i \in Nat \ {0}
                                  /\ r[i] = q[i + 1]
  OBVIOUS

\* Whom notify_one wakes does not matter to those who do not sleep.
Woken(w) == wpc[w] = "asleep" /\ wpc'[w] = "woken"

LEMMA NotifyOneWakes ==
    ASSUME TypeOK, NotifyOne
    PROVE  /\ wpc' \in [Worker -> WorkerPCs] /\ cpc' \in [Client -> ClientPCs]
           /\ \A w \in Worker : wpc'[w] = wpc[w] \/ Woken(w)
           /\ AsleepWorkers # {} /\ AsleepClients = {} =>
                 \E w \in AsleepWorkers : Woken(w)
  <1>1. CASE NotifyNobody /\ AsleepWorkers \cup AsleepClients = {}
    BY <1>1 DEF NotifyNobody, TypeOK
  <1>2. CASE \E w \in AsleepWorkers :
                wpc' = [wpc EXCEPT ![w] = "woken"] /\ UNCHANGED cpc
    <2>1. PICK w \in AsleepWorkers :
                wpc' = [wpc EXCEPT ![w] = "woken"] /\ UNCHANGED cpc
      BY <1>2
    <2>2. w \in Worker /\ wpc[w] = "asleep"
      BY DEF AsleepWorkers
    <2>3. Woken(w) /\ \A x \in Worker : x # w => wpc'[x] = wpc[x]
      BY <2>1, <2>2 DEF TypeOK, Woken
    <2>4. wpc' \in [Worker -> WorkerPCs] /\ cpc' \in [Client -> ClientPCs]
      BY <2>1 DEF TypeOK, WorkerPCs
    <2>5. QED
      BY <2>3, <2>4
  <1>3. CASE \E c \in AsleepClients :
                cpc' = [cpc EXCEPT ![c] = WokenPlace[cpc[c]]] /\ UNCHANGED wpc
    <2>1. PICK c \in AsleepClients :
                cpc' = [cpc EXCEPT ![c] = WokenPlace[cpc[c]]] /\ UNCHANGED wpc
      BY <1>3
    <2>2. c \in Client /\ WokenPlace[cpc[c]] \in {"woken", "timed_woken"}
      BY DEF AsleepClients, WokenPlace
    <2>3. WokenPlace[cpc[c]] \in ClientPCs
      BY <2>2 DEF ClientPCs
    <2>4. cpc' \in [Client -> ClientPCs]
      BY <2>1, <2>3 DEF TypeOK
    <2>5. QED
      BY <2>1, <2>4 DEF TypeOK
  <1>4. QED
    BY <1>1, <1>2, <1>3 DEF NotifyOne

LEMMA WakeWorkersWakes ==
    ASSUME NEW v \in [Worker -> WorkerPCs],
           wpc' = WakeWorkers(v)
    PROVE  /\ wpc' \in [Worker -> WorkerPCs]
           /\ \A w \in Worker : wpc'[w] = v[w] \/ Woken(w)
  BY DEF WakeWorkers, AsleepWorkers, Woken, WorkerPCs

LEMMA WakeClientsWakes ==
    ASSUME NEW d \in [Client -> ClientPCs],
           cpc' = WakeClients(d),
           \A c \in Client : c \notin AsleepClients => d[c] \notin {"asleep", "timed"}
    PROVE  cpc' \in [Client -> ClientPCs] /\ AsleepClients' = {}
  <1>1. \A c \in AsleepClients : WokenPlace[cpc[c]] \in {"woken", "timed_woken"}
    BY DEF AsleepClients, WokenPlace
  <1>2. \A c \in Client : cpc'[c] \in ClientPCs \ {"asleep", "timed"}
    BY <1>1 DEF WakeClients, ClientPCs
  <1>3. cpc' = [c \in Client |-> cpc'[c]]
    BY DEF WakeClients
  <1>4. QED
    BY <1>2, <1>3 DEF AsleepClients

-----------------------------------------------------------------------------
(* What a step leaves alone.                                                 *)

\* No worker takes, begins, ends or counts a task, comes or goes.
SameClass ==
    \A w \in Worker : \A p \in {"none", "got", "running", "ran"} :
        wpc'[w] = p <=> wpc[w] = p

LEMMA QuietStep ==
    ASSUME Inv, UNCHANGED <<wtask, ended, active, threads>>, SameClass,
           \/ tasks' = tasks
           \/ \E t \in Task \ Submitted : tasks' = Append(tasks, t)
    PROVE  Places' /\ TaskOnce' /\ ActiveCounts'
  <1>1. Places'
    BY DEF Inv, Places, SameClass
  <1>2. {w \in Worker : wpc'[w] \in {"running", "ran"}}
           = {w \in Worker : wpc[w] \in {"running", "ran"}}
    BY DEF SameClass
  <1>3. ActiveCounts'
    BY <1>2 DEF Inv, ActiveCounts
  <1>4. Held' = Held
    BY DEF Held
  <1>5. \A w \in Worker : wpc'[w] \in {"got", "running"} => wtask'[w] \notin ended'
    BY DEF Inv, TaskOnce, SameClass
  <1>6. TaskOnce'
    <2>1. CASE tasks' = tasks
      BY <1>4, <1>5, <2>1 DEF Inv, TaskOnce, Queued
    <2>2. CASE \E t \in Task \ Submitted : tasks' = Append(tasks, t)
      <3>1. PICK t \in Task \ Submitted : tasks' = Append(tasks, t)
        BY <2>2
      <3>2. t \notin Queued /\ t \notin Held /\ t \notin ended
        BY DEF Submitted
      <3>3. tasks \in Seq(Task)
        BY DEF Inv, TypeOK
      <3>4. /\ DOMAIN tasks' = DOMAIN tasks \cup {Len(tasks')}
            /\ tasks'[Len(tasks')] = t
            /\ \A i \in DOMAIN tasks : tasks'[i] = tasks[i]
        BY <3>1, <3>3, QueuedAppend
      <3>5. Queued' = Queued \cup {t}
        BY <3>4 DEF Queued
      <3>6. \A i \in DOMAIN tasks : tasks'[i] # t
        BY <3>2, <3>4 DEF Queued
      <3>7. \A i, j \in DOMAIN tasks' : tasks'[i] = tasks'[j] => i = j
        BY <3>4, <3>6 DEF Inv, TaskOnce
      <3>8. Queued' \cap (Held' \cup ended') = {}
        BY <1>4, <3>2, <3>5 DEF Inv, TaskOnce
      <3>9. QED
        BY <1>5, <3>7, <3>8 DEF Inv, TaskOnce
    <2>3. QED
      BY <2>1, <2>2
  <1>7. QED
    BY <1>1, <1>3, <1>6

\* A client that waits, while no worker does anything.
LEMMA ClientStep ==
    ASSUME Inv, UNCHANGED <<tasks, terminate, threadNum, threads, active, wpc,
                            wtask, ended>>,
           cpc' \in [Client -> ClientPCs],
           answer' \in [Client -> BOOLEAN \cup {NULL}],
           tasks = <<>> => AsleepClients' \subseteq AsleepClients
    PROVE  Inv'
  <1>1. Places' /\ TaskOnce' /\ ActiveCounts'
    BY QuietStep DEF SameClass
  <1>2. TypeOK'
    BY DEF Inv, TypeOK
  <1>3. QueuedTaskSeen'
    BY DEF Inv, QueuedTaskSeen
  <1>4. WaiterWillBeTold'
    BY DEF Inv, WaiterWillBeTold, Busy
  <1>5. QED
    BY <1>1, <1>2, <1>3, <1>4 DEF Inv

-----------------------------------------------------------------------------
(* The clients.                                                              *)

LEMMA ConfigureKeeps ==
    ASSUME Inv, NEW n \in Worker, Configure(n) PROVE Inv'
  <1>1. UNCHANGED <<tasks, terminate, threads, active, wpc, wtask, cpc, answer, ended>>
    BY DEF Configure
  <1>2. Places' /\ TaskOnce' /\ ActiveCounts'
    BY <1>1, QuietStep DEF SameClass
  <1>3. TypeOK'
    BY <1>1 DEF Inv, TypeOK, Configure
  <1>4. QueuedTaskSeen' /\ WaiterWillBeTold'
    BY <1>1 DEF Inv, QueuedTaskSeen, WaiterWillBeTold, Busy, AsleepClients
  <1>5. QED
    BY <1>2, <1>3, <1>4 DEF Inv

LEMMA StartKeeps == ASSUME Inv, Start PROVE Inv'
  <1>1. /\ threads = {} /\ threads' = 1..threadNum
        /\ wpc' = [w \in Worker |-> IF w \in threads' THEN "top" ELSE wpc[w]]
        /\ UNCHANGED <<tasks, terminate, threadNum, active, wtask, cpc, answer, ended>>
    BY DEF Start
  <1>2. threads' \subseteq Worker
    BY <1>1, PoolAssumption DEF Inv, TypeOK, Worker
  <1>3. \A w \in Worker : wpc[w] = "none" /\ wtask[w] = NULL
    BY <1>1 DEF Inv, Places
  <1>4. \A w \in Worker : wpc'[w] = IF w \in threads' THEN "top" ELSE "none"
    BY <1>1, <1>3
  <1>5. TypeOK'
    BY <1>1, <1>2 DEF Inv, TypeOK, WorkerPCs
  <1>6. Places'
    BY <1>1, <1>3, <1>4 DEF Places
  <1>7. TaskOnce'
    BY <1>1, <1>4 DEF Inv, TaskOnce, Queued, Held
  <1>8. ActiveCounts'
    <2>1. {w \in Worker : wpc'[w] \in {"running", "ran"}}
             = {w \in Worker : wpc[w] \in {"running", "ran"}}
      BY <1>3, <1>4
    <2>2. QED
      BY <1>1, <2>1 DEF Inv, ActiveCounts
  <1>9. QueuedTaskSeen'
    BY <1>2, <1>4 DEF QueuedTaskSeen
  <1>10. WaiterWillBeTold'
    BY <1>1, <1>3 DEF Inv, WaiterWillBeTold, Busy, AsleepClients
  <1>11. QED
    BY <1>5, <1>6, <1>7, <1>8, <1>9, <1>10 DEF Inv

LEMMA ExecKeeps ==
    ASSUME Inv, NEW c \in Client, NEW t \in Task, Exec(c, t) PROVE Inv'
  <1>1. /\ t \notin Submitted /\ tasks' = Append(tasks, t) /\ NotifyOne /\ TypeOK
        /\ UNCHANGED <<terminate, threadNum, threads, active, wtask, answer, ended>>
    BY DEF Exec, Inv
  <1>2. /\ wpc' \in [Worker -> WorkerPCs] /\ cpc' \in [Client -> ClientPCs]
        /\ \A w \in Worker : wpc'[w] = wpc[w] \/ Woken(w)
        /\ AsleepWorkers # {} /\ AsleepClients = {} =>
              \E w \in AsleepWorkers : Woken(w)
    BY <1>1, NotifyOneWakes
  <1>3. SameClass
    BY <1>2 DEF SameClass, Woken
  <1>4. Places' /\ TaskOnce' /\ ActiveCounts'
    BY <1>1, <1>3, QuietStep
  <1>5. tasks' \in Seq(Task) /\ tasks' # <<>>
    BY <1>1, QueuedAppend DEF TypeOK
  <1>6. TypeOK'
    BY <1>1, <1>2, <1>5 DEF TypeOK
  <1>7. QueuedTaskSeen'
    <2>1. SUFFICES ASSUME threads # {}, ~terminate
                   PROVE  \E w \in threads : wpc'[w] # "asleep"
      BY <1>1 DEF QueuedTaskSeen
    <2>2. threads \subseteq Worker
      BY <1>1 DEF TypeOK
    <2>3. CASE \E w \in threads : wpc[w] # "asleep"
      BY <1>2, <2>2, <2>3 DEF Woken
    <2>4. CASE \A w \in threads : wpc[w] = "asleep"
      <3>1. tasks = <<>>
        BY <2>1, <2>4 DEF Inv, QueuedTaskSeen
      <3>2. Busy = {}
        BY <2>4 DEF Busy, Inv, Places
      <3>3. AsleepClients = {}
        BY <3>1, <3>2 DEF Inv, WaiterWillBeTold
      <3>4. AsleepWorkers # {}
        BY <2>1, <2>2, <2>4 DEF AsleepWorkers
      <3>5. PICK w \in AsleepWorkers : Woken(w)
        BY <1>2, <3>3, <3>4
      <3>6. w \in Worker /\ wpc[w] # "none"
        BY DEF AsleepWorkers
      <3>7. w \in threads
        BY <3>6 DEF Inv, Places
      <3>8. QED
        BY <3>5, <3>7 DEF Woken
    <2>5. QED
      BY <2>3, <2>4
  <1>8. WaiterWillBeTold'
    BY <1>5 DEF WaiterWillBeTold
  <1>9. QED
    BY <1>4, <1>6, <1>7, <1>8 DEF Inv

LEMMA WaitKeeps ==
    ASSUME Inv, NEW c \in Client,
           WaitNothing(c) \/ WaitSleeps(c) \/ WaitExpires(c) \/ WaitResumes(c)
    PROVE  Inv'
  <1>1. UNCHANGED <<tasks, terminate, threadNum, threads, active, wpc, wtask, ended>>
    BY DEF WaitNothing, WaitSleeps, WaitExpires, WaitResumes
  <1>2. TypeOK
    BY DEF Inv
  <1>3. CASE tasks # <<>> /\ (WaitSleeps(c) \/ WaitResumes(c))
    <2>1. cpc[c] \in {"woken", "timed_woken"} =>
             SleepPlace[cpc[c]] \in {"asleep", "timed"}
      BY DEF SleepPlace
    <2>2. cpc' \in [Client -> ClientPCs]
      BY <1>2, <1>3, <2>1 DEF WaitSleeps, WaitResumes, Answer, TypeOK, ClientPCs
    <2>3. answer' \in [Client -> BOOLEAN \cup {NULL}]
      BY <1>2, <1>3 DEF WaitSleeps, WaitResumes, Answer, TypeOK
    <2>4. QED
      BY <1>1, <1>3, <2>2, <2>3, ClientStep
  <1>4. CASE Answer(c, TRUE)
    <2>1. cpc' \in [Client -> ClientPCs] /\ AsleepClients' \subseteq AsleepClients
      BY <1>2, <1>4 DEF Answer, TypeOK, ClientPCs, AsleepClients
    <2>2. answer' \in [Client -> BOOLEAN \cup {NULL}]
      BY <1>2, <1>4 DEF Answer, TypeOK
    <2>3. QED
      BY <1>1, <2>1, <2>2, ClientStep
  <1>5. CASE WaitExpires(c)
    <2>1. cpc' \in [Client -> ClientPCs] /\ AsleepClients' \subseteq AsleepClients
      BY <1>2, <1>5 DEF WaitExpires, TypeOK, ClientPCs, AsleepClients
    <2>2. answer' \in [Client -> BOOLEAN \cup {NULL}]
      BY <1>2, <1>5 DEF WaitExpires, TypeOK
    <2>3. QED
      BY <1>1, <2>1, <2>2, ClientStep
  <1>6. QED
    BY <1>3, <1>4, <1>5 DEF WaitNothing, WaitSleeps, WaitResumes

LEMMA StopKeeps == ASSUME Inv, Stop PROVE Inv'
  <1> DEFINE d == [cpc EXCEPT ![Owner] = "joining"]
  <1>1. /\ terminate' = TRUE /\ wpc' = WakeWorkers(wpc) /\ cpc' = WakeClients(d)
        /\ UNCHANGED <<tasks, threadNum, threads, active, wtask, answer, ended>>
    BY DEF Stop
  <1>2. TypeOK /\ wpc \in [Worker -> WorkerPCs]
    BY DEF Inv, TypeOK
  <1>3. /\ wpc' \in [Worker -> WorkerPCs]
        /\ \A w \in Worker : wpc'[w] = wpc[w] \/ Woken(w)
    BY <1>1, <1>2, WakeWorkersWakes
  <1>4. cpc' \in [Client -> ClientPCs] /\ AsleepClients' = {}
    <2>1. d \in [Client -> ClientPCs]
      BY <1>2 DEF TypeOK, ClientPCs
    <2>2. \A c \in Client : c \notin AsleepClients => d[c] \notin {"asleep", "timed"}
      BY <1>2 DEF TypeOK, AsleepClients
    <2>3. QED
      BY <1>1, <2>1, <2>2, WakeClientsWakes
  <1>5. SameClass
    BY <1>3 DEF SameClass, Woken
  <1>6. Places' /\ TaskOnce' /\ ActiveCounts'
    BY <1>1, <1>5, QuietStep
  <1>7. TypeOK'
    BY <1>1, <1>2, <1>3, <1>4 DEF TypeOK
  <1>8. QueuedTaskSeen' /\ WaiterWillBeTold'
    BY <1>1, <1>4 DEF QueuedTaskSeen, WaiterWillBeTold
  <1>9. QED
    BY <1>6, <1>7, <1>8 DEF Inv

LEMMA StopEndsKeeps == ASSUME Inv, StopEnds PROVE Inv'
  <1>1. /\ \A w \in threads : wpc[w] = "left"
        /\ threads' = {} /\ cpc' = [cpc EXCEPT ![Owner] = "out"]
        /\ wpc' = [w \in Worker |-> IF w \in threads THEN "none" ELSE wpc[w]]
        /\ UNCHANGED <<tasks, terminate, threadNum, active, wtask, answer, ended>>
    BY DEF StopEnds, Joined
  <1>2. TypeOK
    BY DEF Inv
  <1>3. \A w \in Worker : /\ wpc[w] \in {"left", "none"} /\ wpc'[w] = "none"
                          /\ wtask[w] = NULL
    BY <1>1 DEF Inv, Places
  <1>4. TypeOK'
    BY <1>1, <1>2, <1>3 DEF TypeOK, WorkerPCs, ClientPCs
  <1>5. Places'
    BY <1>1, <1>3 DEF Places
  <1>6. TaskOnce'
    BY <1>1, <1>3 DEF Inv, TaskOnce, Queued, Held
  <1>7. ActiveCounts'
    <2>1. {w \in Worker : wpc'[w] \in {"running", "ran"}}
             = {w \in Worker : wpc[w] \in {"running", "ran"}}
      BY <1>3
    <2>2. QED
      BY <1>1, <2>1 DEF Inv, ActiveCounts
  <1>8. QueuedTaskSeen'
    BY <1>1 DEF QueuedTaskSeen
  <1>9. WaiterWillBeTold'
    <2>1. Busy = {} /\ AsleepClients' \subseteq AsleepClients
      BY <1>1, <1>2, <1>3 DEF Busy, AsleepClients, TypeOK
    <2>2. QED
      BY <1>1, <2>1 DEF Inv, WaiterWillBeTold
  <1>10. QED
    BY <1>4, <1>5, <1>6, <1>7, <1>8, <1>9 DEF Inv

-----------------------------------------------------------------------------
(* The workers.                                                              *)

\* The worker goes to sleep or returns.
LEMMA RestKeeps ==
    ASSUME Inv, NEW w \in Worker, Leave(w) \/ GetSleeps(w) \/ GetRefused(w)
    PROVE  Inv'
  <1>1. PICK p \in {"left", "asleep"} : wpc' = [wpc EXCEPT ![w] = p]
    BY DEF Leave, GetSleeps, GetRefused
  <1>2. wpc[w] \in {"top", "woken"} /\ TypeOK
    BY DEF Leave, GetSleeps, GetRefused, InGet, Inv
  <1>3. UNCHANGED <<tasks, terminate, threadNum, threads, active, wtask, cpc, answer, ended>>
    BY DEF Leave, GetSleeps, GetRefused
  <1>4. wpc'[w] = p /\ \A x \in Worker : x # w => wpc'[x] = wpc[x]
    BY <1>1, <1>2 DEF TypeOK
  <1>5. SameClass
    BY <1>2, <1>4 DEF SameClass
  <1>6. Places' /\ TaskOnce' /\ ActiveCounts'
    BY <1>3, <1>5, QuietStep
  <1>7. TypeOK'
    BY <1>1, <1>2, <1>3 DEF TypeOK, WorkerPCs
  <1>8. QueuedTaskSeen'
    <2>1. terminate \/ tasks = <<>>
      BY DEF Leave, GetSleeps, GetRefused, HasWork
    <2>2. QED
      BY <1>3, <2>1 DEF QueuedTaskSeen
  <1>9. WaiterWillBeTold'
    <2>1. Busy' = Busy
      BY <1>2, <1>4 DEF Busy
    <2>2. AsleepClients' = AsleepClients
      BY <1>3 DEF AsleepClients
    <2>3. QED
      BY <1>3, <2>1, <2>2 DEF Inv, WaiterWillBeTold
  <1>10. QED
    BY <1>6, <1>7, <1>8, <1>9 DEF Inv

LEMMA GetTakesKeeps == ASSUME Inv, NEW w \in Worker, GetTakes(w) PROVE Inv'
  <1> DEFINE t == Head(tasks)
  <1>1. /\ wpc[w] \in {"top", "woken"} /\ tasks # <<>> /\ tasks' = Tail(tasks)
        /\ wtask' = [wtask EXCEPT ![w] = t] /\ wpc' = [wpc EXCEPT ![w] = "got"]
        /\ UNCHANGED <<terminate, threadNum, threads, active, cpc, answer, ended>>
    BY DEF GetTakes, InGet
  <1>2. TypeOK /\ tasks \in Seq(Task) /\ NULL \notin Task
    BY PoolAssumption DEF Inv, TypeOK
  <1>3. /\ t \in Task /\ t = tasks[1] /\ 1 \in DOMAIN tasks
        /\ tasks' \in Seq(Task)
        /\ \A i \in DOMAIN tasks' : i + 1 \in DOMAIN tasks /\ i \in Nat \ {0}
                                    /\ tasks'[i] = tasks[i + 1]
    BY <1>1, <1>2, QueuedTail
  <1>4. /\ wpc'[w] = "got" /\ wtask'[w] = t
        /\ \A x \in Worker : x # w => wpc'[x] = wpc[x] /\ wtask'[x] = wtask[x]
    BY <1>1, <1>2 DEF TypeOK
  <1>5. w \in threads /\ wtask[w] = NULL
    BY <1>1 DEF Inv, Places
  <1>6. TypeOK'
    BY <1>1, <1>2, <1>3 DEF TypeOK, WorkerPCs
  <1>7. Places'
    BY <1>1, <1>2, <1>3, <1>4, <1>5 DEF Inv, Places
  <1>8. t \in Queued /\ t \notin Held /\ t \notin ended
    BY <1>3 DEF Inv, TaskOnce, Queued
  <1>9. Held' = Held \cup {t}
    <2>1. \A x \in Worker : x # w => wtask'[x] = wtask[x]
      BY <1>4
    <2>2. QED
      BY <1>2, <1>3, <1>4, <1>5, <2>1 DEF Held
  <1>10. Queued' \subseteq Queued /\ t \notin Queued'
    <2>1. \A i \in DOMAIN tasks' : tasks'[i] # t
      <3>1. SUFFICES ASSUME NEW i \in DOMAIN tasks', tasks'[i] = t PROVE FALSE
        OBVIOUS
      <3>2. i + 1 \in DOMAIN tasks /\ tasks[i + 1] = tasks[1] /\ i \in Nat \ {0}
        BY <1>3, <3>1
      <3>3. i + 1 = 1
        BY <1>3, <3>2 DEF Inv, TaskOnce
      <3>4. QED
        BY <3>2, <3>3
    <2>2. QED
      BY <1>3, <2>1 DEF Queued
  <1>11. TaskOnce'
    <2>1. \A i, j \in DOMAIN tasks' : tasks'[i] = tasks'[j] => i = j
      <3>1. SUFFICES ASSUME NEW i \in DOMAIN tasks', NEW j \in DOMAIN tasks',
                            tasks'[i] = tasks'[j]
                     PROVE  i = j
        OBVIOUS
      <3>2. i + 1 = j + 1 /\ i \in Nat /\ j \in Nat
        BY <1>3, <3>1 DEF Inv, TaskOnce
      <3>3. QED
        BY <3>2
    <2>2. \A x \in Worker : wtask[x] # t
      BY <1>2, <1>3, <1>8 DEF Held
    <2>3. \A x, y \in Worker : wtask'[x] # NULL /\ wtask'[x] = wtask'[y] => x = y
      BY <1>4, <2>2 DEF Inv, TaskOnce
    <2>4. Queued' \cap (Held' \cup ended') = {}
      BY <1>1, <1>9, <1>10 DEF Inv, TaskOnce
    <2>5. \A x \in Worker : wpc'[x] \in {"got", "running"} => wtask'[x] \notin ended'
      BY <1>1, <1>4, <1>8 DEF Inv, TaskOnce
    <2>6. QED
      BY <2>1, <2>3, <2>4, <2>5 DEF TaskOnce
  <1>12. ActiveCounts'
    <2>1. {x \in Worker : wpc'[x] \in {"running", "ran"}}
             = {x \in Worker : wpc[x] \in {"running", "ran"}}
      BY <1>1, <1>4
    <2>2. QED
      BY <1>1, <2>1 DEF Inv, ActiveCounts
  <1>13. QueuedTaskSeen'
    BY <1>1, <1>4, <1>5 DEF QueuedTaskSeen
  <1>14. WaiterWillBeTold'
    BY <1>4 DEF WaiterWillBeTold, Busy
  <1>15. QED
    BY <1>6, <1>7, <1>11, <1>12, <1>13, <1>14 DEF Inv

\* A worker that goes on with its task, or has just done with it, is awake and
\* busy before and after.
LEMMA BusyStep ==
    ASSUME Inv, NEW w \in Worker,
           NEW p \in {"running", "ran", "counted"},
           wpc' = [wpc EXCEPT ![w] = p], wpc[w] \in {"got", "running", "ran"},
           UNCHANGED <<tasks, terminate, threads, cpc>>
    PROVE  QueuedTaskSeen' /\ WaiterWillBeTold'
  <1>1. wpc'[w] = p /\ \A x \in Worker : x # w => wpc'[x] = wpc[x]
    BY DEF Inv, TypeOK
  <1>2. Busy' = Busy
    BY <1>1 DEF Busy
  <1>3. WaiterWillBeTold'
    BY <1>2 DEF Inv, WaiterWillBeTold, AsleepClients
  <1>4. w \in threads
    BY DEF Inv, Places
  <1>5. QED
    BY <1>1, <1>3, <1>4 DEF QueuedTaskSeen

LEMMA CountUpKeeps == ASSUME Inv, NEW w \in Worker, CountUp(w) PROVE Inv'
  <1>1. /\ wpc[w] = "got" /\ active' = active + 1
        /\ wpc' = [wpc EXCEPT ![w] = "running"]
        /\ UNCHANGED <<tasks, terminate, threadNum, threads, wtask, cpc, answer, ended>>
    BY DEF CountUp
  <1>2. wpc'[w] = "running" /\ \A x \in Worker : x # w => wpc'[x] = wpc[x]
    BY <1>1 DEF Inv, TypeOK
  <1>3. TypeOK'
    BY <1>1 DEF Inv, TypeOK, WorkerPCs
  <1>4. Places'
    BY <1>1, <1>2 DEF Inv, Places
  <1>5. TaskOnce'
    BY <1>1, <1>2 DEF Inv, TaskOnce, Queued, Held
  <1>6. ActiveCounts'
    <2>1. Running' = Running \cup {w} /\ w \notin Running
      BY <1>1, <1>2 DEF Running
    <2>2. IsFiniteSet(Running)
      BY WorkersFinite DEF Running
    <2>3. Cardinality(Running') = Cardinality(Running) + 1
      BY <2>1, <2>2, FS_AddElement
    <2>4. QED
      BY <1>1, <2>3 DEF Inv, ActiveCounts, Running
  <1>7. QueuedTaskSeen' /\ WaiterWillBeTold'
    BY <1>1, BusyStep
  <1>8. QED
    BY <1>3, <1>4, <1>5, <1>6, <1>7 DEF Inv

LEMMA RunTaskKeeps == ASSUME Inv, NEW w \in Worker, RunTask(w) PROVE Inv'
  <1>1. /\ wpc[w] = "running" /\ ended' = ended \cup {wtask[w]}
        /\ wpc' = [wpc EXCEPT ![w] = "ran"]
        /\ UNCHANGED <<tasks, terminate, threadNum, threads, active, wtask, cpc, answer>>
    BY DEF RunTask
  <1>2. wpc'[w] = "ran" /\ \A x \in Worker : x # w => wpc'[x] = wpc[x]
    BY <1>1 DEF Inv, TypeOK
  <1>3. wtask[w] \in Task /\ wtask[w] \in Held
    BY <1>1 DEF Inv, TypeOK, Places, Held
  <1>4. TypeOK'
    BY <1>1, <1>3 DEF Inv, TypeOK, WorkerPCs
  <1>5. Places'
    BY <1>1, <1>2 DEF Inv, Places
  <1>6. TaskOnce'
    <2>1. Queued' \cap (Held' \cup ended') = {}
      BY <1>1, <1>3 DEF Inv, TaskOnce, Queued, Held
    <2>2. \A x \in Worker : x # w => wtask[x] # wtask[w]
      BY <1>1 DEF Inv, TaskOnce, Places
    <2>3. \A x \in Worker : wpc'[x] \in {"got", "running"} => wtask'[x] \notin ended'
      BY <1>1, <1>2, <2>2 DEF Inv, TaskOnce
    <2>4. QED
      BY <1>1, <2>1, <2>3 DEF Inv, TaskOnce
  <1>7. ActiveCounts'
    <2>1. Running' = Running
      BY <1>1, <1>2 DEF Running
    <2>2. QED
      BY <1>1, <2>1 DEF Inv, ActiveCounts, Running
  <1>8. QueuedTaskSeen' /\ WaiterWillBeTold'
    BY <1>1, BusyStep
  <1>9. QED
    BY <1>4, <1>5, <1>6, <1>7, <1>8 DEF Inv

LEMMA CountDownKeeps == ASSUME Inv, NEW w \in Worker, CountDown(w) PROVE Inv'
  <1>1. /\ wpc[w] = "ran" /\ active' = active - 1
        /\ wtask' = [wtask EXCEPT ![w] = NULL]
        /\ wpc' = [wpc EXCEPT ![w] = "counted"]
        /\ UNCHANGED <<tasks, terminate, threadNum, threads, cpc, answer, ended>>
    BY DEF CountDown
  <1>2. /\ wpc'[w] = "counted" /\ wtask'[w] = NULL
        /\ \A x \in Worker : x # w => wpc'[x] = wpc[x] /\ wtask'[x] = wtask[x]
    BY <1>1 DEF Inv, TypeOK
  <1>3. Running' = Running \ {w} /\ w \in Running /\ IsFiniteSet(Running)
    BY <1>1, <1>2, WorkersFinite DEF Running
  <1>4. /\ Cardinality(Running') = Cardinality(Running) - 1
        /\ Cardinality(Running') \in Nat
    <2>1. Running' \in SUBSET Worker
      BY DEF Running
    <2>2. QED
      BY <1>3, <2>1, FS_RemoveElement, WorkersFinite
  <1>5. ActiveCounts' /\ active' \in Nat
    BY <1>1, <1>4 DEF Inv, ActiveCounts, Running
  <1>6. TypeOK'
    BY <1>1, <1>5 DEF Inv, TypeOK, WorkerPCs
  <1>7. Places'
    BY <1>1, <1>2 DEF Inv, Places
  <1>8. TaskOnce'
    <2>1. Held' \subseteq Held
      BY <1>2 DEF Held
    <2>2. Queued' = Queued
      BY <1>1 DEF Queued
    <2>3. \A x, y \in Worker : wtask'[x] # NULL /\ wtask'[x] = wtask'[y] => x = y
      BY <1>2 DEF Inv, TaskOnce
    <2>4. \A x \in Worker : wpc'[x] \in {"got", "running"} => wtask'[x] \notin ended'
      BY <1>1, <1>2 DEF Inv, TaskOnce
    <2>5. QED
      BY <1>1, <2>1, <2>2, <2>3, <2>4 DEF Inv, TaskOnce
  <1>9. QueuedTaskSeen' /\ WaiterWillBeTold'
    BY <1>1, BusyStep
  <1>10. QED
    BY <1>5, <1>6, <1>7, <1>8, <1>9 DEF Inv

LEMMA TellClientsKeeps == ASSUME Inv, NEW w \in Worker, TellClients(w) PROVE Inv'
  <1> DEFINE v == [wpc EXCEPT ![w] = "top"]
  <1>1. /\ wpc[w] = "counted"
        /\ UNCHANGED <<tasks, terminate, threadNum, threads, active, wtask, answer, ended>>
    BY DEF TellClients
  <1>2. TypeOK /\ v \in [Worker -> WorkerPCs] /\ cpc \in [Client -> ClientPCs]
    BY DEF Inv, TypeOK, WorkerPCs
  <1>3. v[w] = "top" /\ \A x \in Worker : x # w => v[x] = wpc[x]
    BY <1>2 DEF TypeOK
  <1>4. /\ wpc' \in [Worker -> WorkerPCs]
        /\ \A x \in Worker : wpc'[x] = v[x] \/ Woken(x)
    <2>1. CASE AllDone
      BY <1>2, <2>1, WakeWorkersWakes DEF TellClients
    <2>2. CASE ~AllDone
      BY <1>2, <2>2 DEF TellClients
    <2>3. QED
      BY <2>1, <2>2
  <1>5. SameClass
    BY <1>1, <1>3, <1>4 DEF SameClass, Woken
  <1>6. Places' /\ TaskOnce' /\ ActiveCounts'
    BY <1>1, <1>5, QuietStep
  <1>7. CASE AllDone
    <2>1. cpc' = WakeClients(cpc)
      BY <1>7 DEF TellClients
    <2>2. \A c \in Client : c \notin AsleepClients => cpc[c] \notin {"asleep", "timed"}
      BY DEF AsleepClients
    <2>3. cpc' \in [Client -> ClientPCs] /\ AsleepClients' = {}
      BY <1>2, <2>1, <2>2, WakeClientsWakes
    <2>4. TypeOK'
      BY <1>1, <1>2, <1>4, <2>3 DEF TypeOK
    <2>5. QueuedTaskSeen' /\ WaiterWillBeTold'
      BY <1>1, <1>7, <2>3 DEF AllDone, QueuedTaskSeen, WaiterWillBeTold
    <2>6. QED
      BY <1>6, <2>4, <2>5 DEF Inv
  <1>8. CASE ~AllDone
    <2>1. wpc' = v /\ cpc' = cpc
      BY <1>8 DEF TellClients
    <2>2. TypeOK'
      BY <1>1, <1>2, <2>1 DEF TypeOK
    <2>3. QueuedTaskSeen'
      <3>1. w \in threads /\ wpc'[w] # "asleep"
        BY <1>1, <1>3, <2>1 DEF Inv, Places
      <3>2. QED
        BY <1>1, <3>1 DEF QueuedTaskSeen
    <2>4. WaiterWillBeTold'
      <3>1. SUFFICES ASSUME tasks = <<>> PROVE Busy' # {}
        BY <1>1 DEF WaiterWillBeTold
      <3>2. Cardinality(Running) # 0
        BY <1>8, <3>1 DEF AllDone, Inv, ActiveCounts, Running
      <3>3. PICK x \in Worker : wpc[x] \in {"running", "ran"}
        BY <3>2, FS_EmptySet DEF Running
      <3>4. wpc'[x] \in {"running", "ran"}
        BY <1>1, <1>3, <2>1, <3>3
      <3>5. QED
        BY <3>4 DEF Busy
    <2>5. QED
      BY <1>6, <2>2, <2>3, <2>4 DEF Inv
  <1>9. QED
    BY <1>7, <1>8

LEMMA SpuriousKeeps == ASSUME Inv, Spurious PROVE Inv'
  <1>1. /\ UNCHANGED <<tasks, terminate, threadNum, threads, active, wtask, answer, ended>>
        /\ NotifyOne
    BY DEF Spurious, NotifyOne
  <1>2. TypeOK
    BY DEF Inv
  <1>3. /\ wpc' \in [Worker -> WorkerPCs] /\ cpc' \in [Client -> ClientPCs]
        /\ \A w \in Worker : wpc'[w] = wpc[w] \/ Woken(w)
    BY <1>1, <1>2, NotifyOneWakes
  <1>4. SameClass
    BY <1>3 DEF SameClass, Woken
  <1>5. Places' /\ TaskOnce' /\ ActiveCounts'
    BY <1>1, <1>4, QuietStep
  <1>6. TypeOK'
    BY <1>1, <1>2, <1>3 DEF TypeOK
  <1>7. QueuedTaskSeen'
    BY <1>1, <1>2, <1>3 DEF Inv, QueuedTaskSeen, TypeOK, Woken
  <1>8. AsleepClients' \subseteq AsleepClients
    <2>1. CASE UNCHANGED cpc
      BY <2>1 DEF AsleepClients
    <2>2. CASE \E c \in AsleepClients : cpc' = [cpc EXCEPT ![c] = WokenPlace[cpc[c]]]
      <3>1. PICK c \in AsleepClients : cpc' = [cpc EXCEPT ![c] = WokenPlace[cpc[c]]]
        BY <2>2
      <3>2. \A d \in Client : d # c => cpc'[d] = cpc[d]
        BY <1>2, <3>1 DEF TypeOK
      <3>3. QED
        BY <3>2 DEF AsleepClients
    <2>3. QED
      BY <2>1, <2>2 DEF Spurious
  <1>9. Busy \subseteq Busy'
    BY <1>3 DEF Busy, Woken
  <1>10. WaiterWillBeTold'
    BY <1>1, <1>8, <1>9 DEF Inv, WaiterWillBeTold
  <1>11. QED
    BY <1>5, <1>6, <1>7, <1>10 DEF Inv

-----------------------------------------------------------------------------
(* The theorems.                                                             *)

LEMMA InitHolds == Init => Inv
  <1> SUFFICES ASSUME Init PROVE Inv
    OBVIOUS
  <1>1. TypeOK
    <2>1. threadNum \in Worker /\ threads \subseteq Worker
      BY PoolAssumption DEF Init, Worker
    <2>2. wpc \in [Worker -> WorkerPCs] /\ wtask \in [Worker -> Task \cup {NULL}]
      BY DEF Init, WorkerPCs
    <2>3. /\ cpc \in [Client -> ClientPCs]
          /\ answer \in [Client -> BOOLEAN \cup {NULL}]
      BY DEF Init, ClientPCs
    <2>4. terminate \in BOOLEAN
      BY DEF Init
    <2>5. tasks \in Seq(Task) /\ active \in Nat
      BY DEF Init
    <2>6. QED
      BY <2>1, <2>2, <2>3, <2>4, <2>5 DEF Init, TypeOK
  <1>2. Places
    BY DEF Init, Places
  <1>3. TaskOnce
    BY DEF Init, TaskOnce, Queued, Held
  <1>4. ActiveCounts
    <2>1. {w \in Worker : wpc[w] \in {"running", "ran"}} = {}
      BY DEF Init
    <2>2. QED
      BY <2>1, FS_EmptySet DEF Init, ActiveCounts
  <1>5. QueuedTaskSeen /\ WaiterWillBeTold
    BY DEF Init, QueuedTaskSeen, WaiterWillBeTold, AsleepClients
  <1>6. QED
    BY <1>1, <1>2, <1>3, <1>4, <1>5 DEF Inv

LEMMA StepKeeps == Inv /\ [Next]_vars => Inv'
  <1> SUFFICES ASSUME Inv, [Next]_vars PROVE Inv'
    OBVIOUS
  <1>1. CASE \E n \in Worker : Configure(n)
    BY <1>1, ConfigureKeeps
  <1>2. CASE Start \/ Stop \/ StopEnds \/ Spurious
    BY <1>2, StartKeeps, StopKeeps, StopEndsKeeps, SpuriousKeeps
  <1>3. CASE \E c \in Client : Ask(c) \/ Go(c)
    BY <1>3, ExecKeeps, WaitKeeps DEF Ask, Go
  <1>4. CASE \E w \in Worker : Work(w)
    BY <1>4, RestKeeps, GetTakesKeeps, CountUpKeeps, RunTaskKeeps,
       CountDownKeeps, TellClientsKeeps DEF Work
  <1>5. CASE UNCHANGED vars
    <2>1. UNCHANGED <<tasks, terminate, threadNum, threads, active, wpc, wtask,
                      cpc, answer, ended>>
      BY <1>5 DEF vars
    <2>2. AsleepClients' \subseteq AsleepClients
      BY <2>1 DEF AsleepClients
    <2>3. QED
      BY <2>1, <2>2, ClientStep DEF Inv, TypeOK
  <1>6. QED
    BY <1>1, <1>2, <1>3, <1>4, <1>5 DEF Next

LEMMA InvAlways == Spec => []Inv
  BY InitHolds, StepKeeps, PTL DEF Spec

\* The members of the pool and its threads keep their types, for any number of
\* threads, clients and tasks; atomic_ does not fall below 0.
THEOREM TypeCorrect == Spec => []TypeOK
  BY InvAlways, PTL DEF Inv

\* No task is lost, run twice or run while it is queued: get() moves it from
\* the queue to one worker, whoever else wakes up.
THEOREM TasksRunOnce == Spec => []TaskOnce
  BY InvAlways, PTL DEF Inv

\* atomic_ is the number of workers between its increment and its decrement.
THEOREM ActiveIsExact == Spec => []ActiveCounts
  BY InvAlways, PTL DEF Inv

\* While a task is queued and the pool is not stopped, a worker is awake, even
\* though exec() may wake a client, which shares the condition variable.
THEOREM TasksAreSeen == Spec => []QueuedTaskSeen
  BY InvAlways, PTL DEF Inv

\* Who waits for an empty queue that is empty waits for a task in hand: some
\* worker has yet to look at atomic_ and to wake everyone.
THEOREM WaitersAreTold == Spec => []WaiterWillBeTold
  BY InvAlways, PTL DEF Inv

\* A pool without threads holds no task and counts none.
THEOREM StoppedIsQuiet == Spec => []StopIsQuiet
  <1>1. Inv => StopIsQuiet
    <2> SUFFICES ASSUME Inv, threads = {} PROVE StopIsQuiet
      BY DEF StopIsQuiet
    <2>1. \A w \in Worker : wpc[w] = "none" /\ wtask[w] = NULL
      BY DEF Inv, Places
    <2>2. Held = {}
      BY <2>1 DEF Held
    <2>3. {w \in Worker : wpc[w] \in {"running", "ran"}} = {}
      BY <2>1
    <2>4. active = 0
      BY <2>3, FS_EmptySet DEF Inv, ActiveCounts
    <2>5. QED
      BY <2>1, <2>2, <2>4 DEF StopIsQuiet
  <1>2. QED
    BY <1>1, InvAlways, PTL

\* Nothing is dropped from the queue or overtakes in it: what leaves it is its
\* head, and goes to a worker.
THEOREM FirstInFirstOut == Spec => QueueIsFifo
  <1> DEFINE Step == \/ tasks' = tasks
                     \/ \E t \in Task : tasks' = Append(tasks, t)
                     \/ tasks # <<>> /\ tasks' = Tail(tasks) /\ Head(tasks) \in Held'
  <1>1. Inv /\ [Next]_vars => [Step]_vars
    <2> SUFFICES ASSUME Inv, [Next]_vars PROVE Step \/ UNCHANGED vars
      OBVIOUS
    <2>1. CASE \E w \in Worker : GetTakes(w)
      <3>1. PICK w \in Worker : GetTakes(w)
        BY <2>1
      <3>2. tasks # <<>> /\ tasks' = Tail(tasks) /\ wtask'[w] = Head(tasks)
        BY <3>1 DEF GetTakes, Inv, TypeOK
      <3>3. Head(tasks) \in Task
        BY <3>2 DEF Inv, TypeOK
      <3>4. Head(tasks) \in Held'
        BY <3>2, <3>3, PoolAssumption DEF Held
      <3>5. QED
        BY <3>2, <3>4
    <2>2. CASE \E c \in Client, t \in Task : Exec(c, t)
      BY <2>2 DEF Exec
    <2>3. CASE ~(\E w \in Worker : GetTakes(w)) /\ ~(\E c \in Client, t \in Task : Exec(c, t))
      BY <2>3 DEF Next, Configure, Start, Stop, StopEnds, Spurious, Ask, Go, Work,
         WaitNothing, WaitSleeps, WaitExpires, WaitResumes, Leave, GetSleeps,
         GetRefused, CountUp, RunTask, CountDown, TellClients
    <2>4. QED
      BY <2>1, <2>2, <2>3
  <1>2. QED
    BY <1>1, InvAlways, PTL DEF Spec, QueueIsFifo
=============================================================================
