------------------------------ MODULE ConnPool ------------------------------
(***************************************************************************)
(* The connection pools: CDBPool (mysql/DBPool.cpp) and CachePool          *)
(* (redis/CachePool.cpp), which are written alike.  Every method runs with *)
(* the mutex locked, connecting to the server included, so a step is one   *)
(* critical section; a thread inside m_cond_var.wait has let the mutex go, *)
(* and is asleep until it is notified, times out or wakes for no reason.   *)
(* It then has to get the mutex again, and others may get it first.        *)
(***************************************************************************)
EXTENDS Integers, Sequences, FiniteSets

CONSTANTS
    Thread,     \* the threads that use the pool
    Conn,       \* the connection objects that "new" may return
    NULL,       \* no connection
    MinConn,    \* MIN_DB_CONN_CNT, MIN_CACHE_CONN_CNT
    MaxConn,    \* the configured limit, ..._maxconncnt
    MayTimeOut, \* some callers pass timeout_ms > 0
    MayFail,    \* connecting to the server may fail
    MayClose,   \* the pool may be destroyed
    LocksTwice  \* whether the destructor locks twice: CDBPool FALSE, CachePool TRUE

ASSUME PoolAssumption ==
    /\ IsFiniteSet(Thread)
    /\ NULL \notin Conn
    /\ MinConn \in Nat /\ MaxConn \in Nat /\ MinConn <= MaxConn
    /\ MayTimeOut \in BOOLEAN /\ MayFail \in BOOLEAN
    /\ MayClose \in BOOLEAN /\ LocksTwice \subseteq BOOLEAN

VARIABLES
    free,   \* m_free_list
    cur,    \* m_db_cur_conn_cnt
    abort,  \* m_abort_request
    closing,\* the destructor is between its two critical sections
    pc,     \* where each thread is
    conn    \* the connection each thread uses

vars == <<free, cur, abort, closing, pc, conn>>

\* "out": outside the pool.  "asleep": in wait(), "timed": in wait_for().
\* "woken", "timed_woken": out of these, and yet to get the mutex again;
\* "expired": the same after the timeout.  "using": it has a connection.
PCs == {"out", "asleep", "timed", "woken", "timed_woken", "expired", "using"}

Asleep == {t \in Thread : pc[t] \in {"asleep", "timed"}}
Woken  == {t \in Thread : pc[t] \in {"woken", "timed_woken", "expired"}}
Users  == {t \in Thread : conn[t] # NULL}

\* The place of a thread that leaves its wait, and of one that goes back.
WokenPlace == [asleep |-> "woken", timed |-> "timed_woken"]
SleepPlace == [woken |-> "asleep", timed_woken |-> "timed"]

Elements(s) == {s[i] : i \in DOMAIN s}
-----------------------------------------------------------------------------
(* Pieces of the critical sections.                                        *)

\* pop_front, and the caller has it.
TakeFrontMutant(t) ==
    /\ conn' = [conn EXCEPT ![t] = Head(free)]
    /\ pc' = [pc EXCEPT ![t] = "using"]
    /\ UNCHANGED <<free, cur, abort, closing>>
TakeFront(t) ==
    /\ conn' = [conn EXCEPT ![t] = Head(free)]
    /\ free' = Tail(free)
    /\ pc' = [pc EXCEPT ![t] = "using"]
    /\ UNCHANGED <<cur, abort, closing>>

\* return NULL
GetNothing(t) ==
    /\ pc' = [pc EXCEPT ![t] = "out"]
    /\ UNCHANGED <<free, cur, abort, closing, conn>>

\* push_back, then notify_one: any one of the threads that sleep.
NotifyOneMutant(t) == pc' = [pc EXCEPT ![t] = "out"]
NotifyOne(t) ==
    IF Asleep = {} THEN pc' = [pc EXCEPT ![t] = "out"]
    ELSE \E u \in Asleep :
            pc' = [pc EXCEPT ![t] = "out", ![u] = WokenPlace[pc[u]]]

AtLimitMutant == cur > MaxConn
AtLimit == cur >= MaxConn

\* The wait goes on; and what is asked again after it.
MustWait == free = <<>> /\ ~abort
Refused  == abort
-----------------------------------------------------------------------------
(* GetDBConn / GetCacheConn.                                               *)

\* The pool is being destroyed.
GetRefused(t) == pc[t] = "out" /\ abort /\ GetNothing(t)

GetFree(t) == pc[t] = "out" /\ ~abort /\ free # <<>> /\ TakeFront(t)

\* Below the limit: make a connection, push it on the empty list, pop it.
GetNew(t) ==
    /\ pc[t] = "out" /\ MustWait /\ ~AtLimit
    /\ \E c \in Conn \ {conn[u] : u \in Thread} :
          conn' = [conn EXCEPT ![t] = c]
    /\ cur' = cur + 1
    /\ pc' = [pc EXCEPT ![t] = "using"]
    /\ UNCHANGED <<free, abort, closing>>

GetNewFails(t) ==
    /\ MayFail
    /\ pc[t] = "out" /\ MustWait /\ ~AtLimit
    /\ GetNothing(t)

\* At the limit: wait, or wait_for.
GetWaits(t) ==
    /\ pc[t] = "out" /\ MustWait /\ AtLimit
    /\ \/ pc' = [pc EXCEPT ![t] = "asleep"]
       \/ MayTimeOut /\ pc' = [pc EXCEPT ![t] = "timed"]
    /\ UNCHANGED <<free, cur, abort, closing, conn>>

\* The timeout passes.
Expire(t) ==
    /\ pc[t] = "timed"
    /\ pc' = [pc EXCEPT ![t] = "expired"]
    /\ UNCHANGED <<free, cur, abort, closing, conn>>

\* The thread has the mutex again and looks at the predicate of the wait.  A
\* thread that woke for no reason, or too late, sleeps again.
SleepAgain(t) ==
    /\ pc[t] \in {"woken", "timed_woken"} /\ MustWait
    /\ pc' = [pc EXCEPT ![t] = SleepPlace[@]]
    /\ UNCHANGED <<free, cur, abort, closing, conn>>

WakeRefused(t) == t \in Woken /\ Refused /\ GetNothing(t)

WakeEmpty(t) == pc[t] = "expired" /\ free = <<>> /\ ~Refused /\ GetNothing(t)

WakeTakes(t) ==
    /\ t \in Woken /\ free # <<>> /\ ~Refused
    /\ TakeFront(t)

Spurious(t) ==
    /\ t \in Asleep
    /\ pc' = [pc EXCEPT ![t] = WokenPlace[@]]
    /\ UNCHANGED <<free, cur, abort, closing, conn>>
-----------------------------------------------------------------------------
\* RelDBConn: a connection that is on the list is not put there again.
Release(t) ==
    /\ pc[t] = "using"
    /\ conn' = [conn EXCEPT ![t] = NULL]
    /\ IF conn[t] \in Elements(free)
       THEN pc' = [pc EXCEPT ![t] = "out"] /\ UNCHANGED free
       ELSE free' = Append(free, conn[t]) /\ NotifyOne(t)
    /\ UNCHANGED <<cur, abort, closing>>

\* The destructor.  Its threads are taken to leave before the memory goes.
NotifyAllMutant == UNCHANGED pc
NotifyAll ==
    pc' = [t \in Thread |-> IF t \in Asleep THEN WokenPlace[pc[t]] ELSE pc[t]]

Close ==
    /\ MayClose /\ ~abort
    /\ abort' = TRUE
    /\ NotifyAll
    /\ closing' \in LocksTwice
    /\ IF closing' THEN UNCHANGED free ELSE free' = <<>>
    /\ UNCHANGED <<cur, conn>>

CloseFree ==
    /\ closing /\ closing' = FALSE
    /\ free' = <<>> /\ cur' = 0
    /\ UNCHANGED <<abort, pc, conn>>
-----------------------------------------------------------------------------
\* The pool as Init() leaves it: MinConn connections, all free.
Init ==
    /\ free \in {s \in [1..MinConn -> Conn] :
                    \A i, j \in 1..MinConn : s[i] = s[j] => i = j}
    /\ cur = MinConn
    /\ abort = FALSE
    /\ closing = FALSE
    /\ pc = [t \in Thread |-> "out"]
    /\ conn = [t \in Thread |-> NULL]

Call(t) == \/ GetRefused(t) \/ GetFree(t) \/ GetNew(t) \/ GetNewFails(t)
           \/ GetWaits(t)
\* What a thread inside the pool, or back from it, goes on to do.
Continue(t) == \/ SleepAgain(t) \/ WakeRefused(t) \/ WakeEmpty(t)
               \/ WakeTakes(t) \/ Expire(t) \/ Release(t)

Next == \/ \E t \in Thread : Call(t) \/ Continue(t) \/ Spurious(t)
        \/ Close \/ CloseFree

Spec == Init /\ [][Next]_vars

\* A thread that can go on does: it gets the mutex, its timeout passes, the
\* handler that has the connection ends (AutoRelDBCon returns it).  Nothing
\* makes a thread call, wake for no reason, or destroy the pool.
FairSpec == Spec /\ \A t \in Thread : WF_vars(Continue(t))
-----------------------------------------------------------------------------
\* The type invariant: what the members and the threads' locals may hold.
TypeOK ==
    /\ free \in Seq(Conn)
    /\ cur \in Nat
    /\ abort \in BOOLEAN /\ closing \in BOOLEAN /\ (closing => abort)
    /\ pc \in [Thread -> PCs]
    /\ conn \in [Thread -> Conn \cup {NULL}]
    /\ \A t \in Thread : pc[t] = "using" <=> conn[t] # NULL

\* A connection is on the list once, or with one thread, never both: RelDBConn
\* pushes what GetDBConn popped, and threads barge in between a notification
\* and the thread it was meant for.
ExclusiveUse ==
    /\ \A t, u \in Users : conn[t] = conn[u] => t = u
    /\ \A i, j \in DOMAIN free : free[i] = free[j] => i = j
    /\ \A t \in Users : conn[t] \notin Elements(free)

\* No connection leaks and the limit holds: until the pool is closed the
\* counter is the number of connections that exist, though connecting fails
\* and waits time out; and no more than MaxConn ever do.
PoolConserved ==
    /\ ~abort => cur = Len(free) + Cardinality(Users)
    /\ Len(free) + Cardinality(Users) <= MaxConn

\* While a thread sleeps, each free connection has a thread that was woken and
\* is on its way to take it: a notification is never lost, though the thread
\* it wakes may find the list empty, or may have timed out at that moment.
NoLostWakeup == Asleep # {} => Len(free) <= Cardinality(Woken)

\* Once m_abort_request is set no thread is handed a connection, not even one
\* that was woken by a release before.
NothingAfterAbort ==
    [][abort => \A t \in Thread : conn'[t] # NULL => conn[t] # NULL]_vars

\* A free connection does not stay on the list while a thread sleeps.
FreeConnectionTaken ==
    (free # <<>> /\ Asleep # {}) ~> (free = <<>> \/ Asleep = {})

\* Once the pool is closed every thread gets out of it.
ClosedPoolEmpties == abort ~> \A t \in Thread : pc[t] \in {"out", "using"}

\* The pool is an ExclusivePool.
Abstract == INSTANCE ExclusivePool WITH
    Thread <- Thread, Conn <- Conn, MaxConn <- MaxConn, NULL <- NULL,
    conn <- conn
ImplementsExclusivePool == Abstract!Spec
=============================================================================
