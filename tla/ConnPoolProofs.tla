--------------------------- MODULE ConnPoolProofs ---------------------------
(* What ConnPool keeps for every number of threads and every limit.          *)
EXTENDS ConnPool, FiniteSetTheorems, SequenceTheorems, TLAPS

LEMMA TakeFrontTyped ==
    ASSUME TypeOK, NEW t \in Thread, free # <<>>, TakeFront(t)
    PROVE  TypeOK'
  <1>1. Head(free) \in Conn /\ Tail(free) \in Seq(Conn)
    BY HeadTailProperties DEF TypeOK
  <1>2. QED
    BY <1>1, PoolAssumption DEF TypeOK, TakeFront, PCs

LEMMA GetNothingTyped ==
    ASSUME TypeOK, NEW t \in Thread, pc[t] # "using", GetNothing(t)
    PROVE  TypeOK'
  BY DEF TypeOK, GetNothing, PCs

LEMMA ReleaseTyped ==
    ASSUME TypeOK, NEW t \in Thread, Release(t)
    PROVE  TypeOK'
  <1>1. conn[t] \in Conn
    BY DEF TypeOK, Release
  <1>2. Append(free, conn[t]) \in Seq(Conn)
    BY <1>1 DEF TypeOK
  <1>3. CASE pc' = [pc EXCEPT ![t] = "out"]
    BY <1>2, <1>3 DEF TypeOK, Release, PCs
  <1>4. CASE \E u \in Asleep :
                pc' = [pc EXCEPT ![t] = "out", ![u] = WokenPlace[pc[u]]]
    <2>1. PICK u \in Asleep :
                pc' = [pc EXCEPT ![t] = "out", ![u] = WokenPlace[pc[u]]]
      BY <1>4
    <2>2. u # t /\ u \in Thread /\ WokenPlace[pc[u]] \in {"woken", "timed_woken"}
      BY DEF Asleep, Release, WokenPlace
    <2>3. QED
      BY <1>2, <2>1, <2>2 DEF TypeOK, Release, PCs, Asleep
  <1>5. QED
    BY <1>3, <1>4 DEF Release, NotifyOne

LEMMA NotifyAllTyped ==
    ASSUME TypeOK, NotifyAll
    PROVE  /\ pc' \in [Thread -> PCs]
           /\ \A t \in Thread : pc'[t] = "using" <=> pc[t] = "using"
  BY DEF TypeOK, NotifyAll, PCs, Asleep, WokenPlace

LEMMA TypeStep == TypeOK /\ [Next]_vars => TypeOK'
  <1> SUFFICES ASSUME TypeOK, [Next]_vars PROVE TypeOK'
    OBVIOUS
  <1>1. ASSUME NEW t \in Thread, Call(t) PROVE TypeOK'
    <2>1. CASE GetRefused(t)
      BY <2>1, GetNothingTyped DEF GetRefused
    <2>2. CASE GetFree(t)
      BY <2>2, TakeFrontTyped DEF GetFree
    <2>3. CASE GetNew(t)
      BY <2>3, PoolAssumption DEF GetNew, TypeOK, PCs
    <2>4. CASE GetNewFails(t)
      BY <2>4, GetNothingTyped DEF GetNewFails
    <2>5. CASE GetWaits(t)
      BY <2>5 DEF GetWaits, TypeOK, PCs
    <2>6. QED
      BY <1>1, <2>1, <2>2, <2>3, <2>4, <2>5 DEF Call
  <1>2. ASSUME NEW t \in Thread, Continue(t) PROVE TypeOK'
    <2>1. CASE SleepAgain(t)
      BY <2>1 DEF SleepAgain, SleepPlace, TypeOK, PCs
    <2>2. CASE WakeRefused(t)
      BY <2>2, GetNothingTyped DEF WakeRefused, Woken
    <2>3. CASE WakeEmpty(t)
      BY <2>3, GetNothingTyped DEF WakeEmpty
    <2>4. CASE WakeTakes(t)
      BY <2>4, TakeFrontTyped DEF WakeTakes
    <2>5. CASE Expire(t)
      BY <2>5 DEF Expire, TypeOK, PCs
    <2>6. CASE Release(t)
      BY <2>6, ReleaseTyped
    <2>7. QED
      BY <1>2, <2>1, <2>2, <2>3, <2>4, <2>5, <2>6 DEF Continue
  <1>3. ASSUME NEW t \in Thread, Spurious(t) PROVE TypeOK'
    BY <1>3 DEF Spurious, Asleep, WokenPlace, TypeOK, PCs
  <1>4. CASE Close
    BY <1>4, NotifyAllTyped, PoolAssumption, EmptySeq DEF Close, TypeOK
  <1>5. CASE CloseFree
    BY <1>5, EmptySeq DEF CloseFree, TypeOK
  <1>6. CASE UNCHANGED vars
    BY <1>6 DEF vars, TypeOK
  <1>7. QED
    BY <1>1, <1>2, <1>3, <1>4, <1>5, <1>6 DEF Next

\* The members of the pool and the threads' locals keep their types, and a
\* thread is using the pool exactly when it has a connection.
THEOREM TypeCorrect == Spec => []TypeOK
  <1>1. Init => TypeOK
    <2>1. SUFFICES ASSUME Init PROVE TypeOK
      OBVIOUS
    <2>2. free \in Seq(Conn)
      BY <2>1, PoolAssumption DEF Init
    <2>3. QED
      BY <2>1, <2>2, PoolAssumption DEF Init, TypeOK, PCs
  <1>2. QED
    BY <1>1, TypeStep, PTL DEF Spec
-----------------------------------------------------------------------------
LEMMA TakeFrontExclusive ==
    ASSUME TypeOK, ExclusiveUse, NEW t \in Thread, free # <<>>, TakeFront(t),
           conn[t] = NULL
    PROVE  ExclusiveUse'
  <1>1. /\ Len(free) \in Nat \ {0} /\ DOMAIN free = 1..Len(free)
        /\ Head(free) = free[1] /\ Head(free) \in Conn
        /\ Tail(free) \in Seq(Conn) /\ Len(Tail(free)) = Len(free) - 1
        /\ DOMAIN Tail(free) = 1..(Len(free) - 1)
        /\ \A i \in 1..(Len(free) - 1) : Tail(free)[i] = free[i+1]
    BY HeadTailProperties, EmptySeq DEF TypeOK
  <1>2. /\ free' = Tail(free)
        /\ \A u \in Thread : conn'[u] = IF u = t THEN free[1] ELSE conn[u]
    BY <1>1 DEF TakeFront, TypeOK
  <1>3. \A u \in Users : conn[u] # free[1]
    BY <1>1 DEF ExclusiveUse, Elements
  <1>4. \A i, j \in DOMAIN free' : free'[i] = free'[j] => i = j
    BY <1>1, <1>2 DEF ExclusiveUse
  <1>5. \A u, w \in Users' : conn'[u] = conn'[w] => u = w
    BY <1>2, <1>3 DEF ExclusiveUse, Users
  <1>6. \A u \in Users' : conn'[u] \notin Elements(free')
    <2>1. SUFFICES ASSUME NEW u \in Users', NEW i \in 1..(Len(free) - 1),
                          conn'[u] = free[i+1]
                   PROVE  FALSE
      BY <1>1, <1>2 DEF Elements
    <2>2. CASE u = t
      BY <1>1, <1>2, <2>1, <2>2 DEF ExclusiveUse, Users
    <2>3. CASE u # t
      BY <1>1, <1>2, <2>1, <2>3 DEF ExclusiveUse, Users, Elements
    <2>4. QED
      BY <2>2, <2>3
  <1>7. QED
    BY <1>4, <1>5, <1>6 DEF ExclusiveUse

LEMMA ReleaseExclusive ==
    ASSUME TypeOK, ExclusiveUse, NEW t \in Thread, Release(t)
    PROVE  /\ ExclusiveUse'
           /\ free' = Append(free, conn[t])
           /\ Len(free') = Len(free) + 1
           /\ NotifyOne(t)
  <1>1. t \in Users /\ conn[t] \in Conn
    BY DEF Release, TypeOK, Users
  <1>2. free' = Append(free, conn[t]) /\ NotifyOne(t)
    BY <1>1 DEF Release, ExclusiveUse
  <1>3. /\ Len(free) \in Nat /\ DOMAIN free = 1..Len(free)
        /\ Len(free') = Len(free) + 1 /\ DOMAIN free' = 1..(Len(free) + 1)
        /\ \A i \in 1..Len(free) : free'[i] = free[i]
        /\ free'[Len(free) + 1] = conn[t]
    BY <1>1, <1>2 DEF TypeOK
  <1>4. \A u \in Thread : conn'[u] = IF u = t THEN NULL ELSE conn[u]
    BY DEF Release, TypeOK
  <1>5. \A i \in 1..Len(free) : free[i] # conn[t]
    BY <1>1, <1>3 DEF ExclusiveUse, Elements
  <1>6. \A i, j \in DOMAIN free' : free'[i] = free'[j] => i = j
    BY <1>3, <1>5 DEF ExclusiveUse
  <1>7. \A u, w \in Users' : conn'[u] = conn'[w] => u = w
    BY <1>4 DEF ExclusiveUse, Users
  <1>8. \A u \in Users' : conn'[u] \notin Elements(free')
    <2>1. SUFFICES ASSUME NEW u \in Users', NEW i \in 1..(Len(free) + 1),
                          conn'[u] = free'[i]
                   PROVE  FALSE
      BY <1>3 DEF Elements
    <2>2. u # t /\ u \in Users /\ conn'[u] = conn[u]
      BY <1>4 DEF Users
    <2>3. CASE i = Len(free) + 1
      BY <1>1, <1>3, <2>1, <2>2, <2>3 DEF ExclusiveUse
    <2>4. CASE i # Len(free) + 1
      <3>1. i \in 1..Len(free)
        BY <1>3, <2>4
      <3>2. conn[u] = free[i]
        BY <1>3, <2>1, <2>2, <3>1
      <3>3. QED
        BY <1>3, <2>2, <3>1, <3>2 DEF ExclusiveUse, Elements
    <2>5. QED
      BY <2>3, <2>4
  <1>9. QED
    BY <1>2, <1>3, <1>6, <1>7, <1>8 DEF ExclusiveUse

LEMMA ExclusiveStep == TypeOK /\ ExclusiveUse /\ [Next]_vars => ExclusiveUse'
  <1> SUFFICES ASSUME TypeOK, ExclusiveUse, [Next]_vars PROVE ExclusiveUse'
    OBVIOUS
  <1>1. CASE UNCHANGED <<free, conn>>
    BY <1>1 DEF ExclusiveUse, Users, Elements
  <1>2. ASSUME free' = <<>>, UNCHANGED conn PROVE ExclusiveUse'
    BY <1>2 DEF ExclusiveUse, Users, Elements
  <1>3. ASSUME NEW t \in Thread, Call(t) PROVE ExclusiveUse'
    <2>1. CASE GetFree(t)
      BY <2>1, TakeFrontExclusive DEF GetFree, TypeOK
    <2>2. CASE GetNew(t)
      <3>1. PICK c \in Conn \ {conn[u] : u \in Thread} :
                conn' = [conn EXCEPT ![t] = c]
        BY <2>2 DEF GetNew
      <3>2. free = <<>> /\ free' = <<>>
        BY <2>2 DEF GetNew, MustWait
      <3>3. \A u \in Thread : conn'[u] = IF u = t THEN c ELSE conn[u]
        BY <3>1 DEF TypeOK
      <3>4. \A u \in Thread : conn[u] # c
        BY <3>1
      <3>5. \A u, w \in Users' : conn'[u] = conn'[w] => u = w
        BY <3>3, <3>4 DEF ExclusiveUse, Users
      <3>6. QED
        BY <3>2, <3>5 DEF ExclusiveUse, Elements
    <2>3. CASE GetRefused(t) \/ GetNewFails(t) \/ GetWaits(t)
      BY <1>1, <2>3 DEF GetRefused, GetNewFails, GetWaits, GetNothing
    <2>4. QED
      BY <1>3, <2>1, <2>2, <2>3 DEF Call
  <1>4. ASSUME NEW t \in Thread, Continue(t) PROVE ExclusiveUse'
    <2>1. CASE WakeTakes(t)
      BY <2>1, TakeFrontExclusive DEF WakeTakes, Woken, TypeOK
    <2>2. CASE Release(t)
      BY <2>2, ReleaseExclusive
    <2>3. CASE SleepAgain(t) \/ WakeRefused(t) \/ WakeEmpty(t) \/ Expire(t)
      BY <1>1, <2>3 DEF SleepAgain, WakeRefused, WakeEmpty, Expire, GetNothing
    <2>4. QED
      BY <1>4, <2>1, <2>2, <2>3 DEF Continue
  <1>5. ASSUME NEW t \in Thread, Spurious(t) PROVE ExclusiveUse'
    BY <1>1, <1>5 DEF Spurious
  <1>6. CASE Close
    BY <1>1, <1>2, <1>6 DEF Close
  <1>7. CASE CloseFree
    BY <1>2, <1>7 DEF CloseFree
  <1>8. CASE UNCHANGED vars
    BY <1>1, <1>8 DEF vars
  <1>9. QED
    BY <1>3, <1>4, <1>5, <1>6, <1>7, <1>8 DEF Next

\* No connection is given to two threads, nor is one that is in use on the
\* free list: the check of RelDBConn never has anything to refuse.
THEOREM Exclusive == Spec => []ExclusiveUse
  <1>1. Init => ExclusiveUse
    BY PoolAssumption DEF Init, ExclusiveUse, Users, Elements
  <1>2. QED
    BY <1>1, ExclusiveStep, TypeCorrect, PTL DEF Spec
-----------------------------------------------------------------------------
LEMMA FiniteParts ==
    ASSUME NEW S, S \subseteq Thread
    PROVE  IsFiniteSet(S) /\ Cardinality(S) \in Nat
  BY PoolAssumption, FS_Subset, FS_CardinalityType

LEMMA UsersGain ==
    ASSUME TypeOK, NEW t \in Thread, conn[t] = NULL, NEW c \in Conn,
           conn' = [conn EXCEPT ![t] = c]
    PROVE  Cardinality(Users') = Cardinality(Users) + 1
  <1>1. Users' = Users \cup {t} /\ t \notin Users
    BY PoolAssumption DEF TypeOK, Users
  <1>2. IsFiniteSet(Users)
    BY FiniteParts DEF Users
  <1>3. QED
    BY <1>1, <1>2, FS_AddElement

LEMMA UsersLose ==
    ASSUME TypeOK, NEW t \in Thread, conn[t] # NULL,
           conn' = [conn EXCEPT ![t] = NULL]
    PROVE  Cardinality(Users') = Cardinality(Users) - 1
  <1>1. Users' = Users \ {t} /\ t \in Users
    BY DEF TypeOK, Users
  <1>2. IsFiniteSet(Users)
    BY FiniteParts DEF Users
  <1>3. QED
    BY <1>1, <1>2, FS_RemoveElement

LEMMA ConservedStep ==
    TypeOK /\ ExclusiveUse /\ PoolConserved /\ [Next]_vars => PoolConserved'
  <1> SUFFICES ASSUME TypeOK, ExclusiveUse, PoolConserved, [Next]_vars
               PROVE  PoolConserved'
    OBVIOUS
  <1>0. /\ Len(free) \in Nat /\ cur \in Nat /\ MaxConn \in Nat
        /\ Cardinality(Users) \in Nat
        /\ Len(<<>>) = 0 /\ (free # <<>> => Len(free) > 0)
    BY FiniteParts, PoolAssumption, EmptySeq DEF TypeOK, Users
  <1>1. ASSUME UNCHANGED <<free, conn, cur>>, abort => abort'
        PROVE  PoolConserved'
    BY <1>1 DEF PoolConserved, Users
  <1>2. ASSUME NEW t \in Thread, free # <<>>, TakeFront(t), conn[t] = NULL
        PROVE  PoolConserved'
    <2>1. Head(free) \in Conn /\ Len(Tail(free)) = Len(free) - 1
      BY <1>2, HeadTailProperties DEF TypeOK
    <2>2. Cardinality(Users') = Cardinality(Users) + 1
      BY <1>2, <2>1, UsersGain DEF TakeFront
    <2>3. QED
      BY <1>0, <1>2, <2>1, <2>2 DEF PoolConserved, TakeFront
  <1>3. ASSUME free' = <<>>, abort', UNCHANGED conn PROVE PoolConserved'
    BY <1>0, <1>3 DEF PoolConserved, Users
  <1>4. ASSUME NEW t \in Thread, Call(t) PROVE PoolConserved'
    <2>1. CASE GetFree(t)
      BY <1>2, <2>1 DEF GetFree, TypeOK
    <2>2. CASE GetNew(t)
      <3>1. Cardinality(Users') = Cardinality(Users) + 1
        BY <2>2, UsersGain DEF GetNew, TypeOK
      <3>2. /\ ~abort /\ ~abort' /\ Len(free) = 0 /\ Len(free') = 0
            /\ cur < MaxConn /\ cur' = cur + 1
        BY <1>0, <2>2 DEF GetNew, MustWait, AtLimit
      <3>3. QED
        BY <1>0, <3>1, <3>2 DEF PoolConserved
    <2>3. CASE GetRefused(t) \/ GetNewFails(t) \/ GetWaits(t)
      BY <1>1, <2>3 DEF GetRefused, GetNewFails, GetWaits, GetNothing
    <2>4. QED
      BY <1>4, <2>1, <2>2, <2>3 DEF Call
  <1>5. ASSUME NEW t \in Thread, Continue(t) PROVE PoolConserved'
    <2>1. CASE WakeTakes(t)
      BY <1>2, <2>1 DEF WakeTakes, Woken, TypeOK
    <2>2. CASE Release(t)
      <3>1. Cardinality(Users') = Cardinality(Users) - 1
        BY <2>2, UsersLose DEF Release, TypeOK
      <3>2. Len(free') = Len(free) + 1
        BY <2>2, ReleaseExclusive
      <3>3. QED
        BY <1>0, <2>2, <3>1, <3>2 DEF PoolConserved, Release
    <2>3. CASE SleepAgain(t) \/ WakeRefused(t) \/ WakeEmpty(t) \/ Expire(t)
      BY <1>1, <2>3 DEF SleepAgain, WakeRefused, WakeEmpty, Expire, GetNothing
    <2>4. QED
      BY <1>5, <2>1, <2>2, <2>3 DEF Continue
  <1>6. ASSUME NEW t \in Thread, Spurious(t) PROVE PoolConserved'
    BY <1>1, <1>6 DEF Spurious
  <1>7. CASE Close
    BY <1>1, <1>3, <1>7 DEF Close
  <1>8. CASE CloseFree
    BY <1>3, <1>8 DEF CloseFree, TypeOK
  <1>9. CASE UNCHANGED vars
    BY <1>1, <1>9 DEF vars
  <1>10. QED
    BY <1>4, <1>5, <1>6, <1>7, <1>8, <1>9 DEF Next

\* No connection leaks and no more than MaxConn exist, for any number of
\* threads, whatever fails or times out.
THEOREM Conserved == Spec => []PoolConserved
  <1>1. Init => PoolConserved
    <2>1. SUFFICES ASSUME Init PROVE PoolConserved
      OBVIOUS
    <2>2. Users = {} /\ Cardinality(Users) = 0
      BY <2>1, FS_EmptySet DEF Init, Users
    <2>3. Len(free) = MinConn /\ cur = MinConn
      BY <2>1, PoolAssumption DEF Init
    <2>4. QED
      BY <2>2, <2>3, PoolAssumption DEF PoolConserved
  <1>2. QED
    BY <1>1, ConservedStep, TypeCorrect, Exclusive, PTL DEF Spec
-----------------------------------------------------------------------------
\* Nobody sleeps in a pool that is closed; with this NoLostWakeup is inductive.
WakeupInv == NoLostWakeup /\ (abort => Asleep = {})

LEMMA WokenLeaves ==
    ASSUME TypeOK, NEW t \in Woken, NEW p \in {"out", "using"},
           pc' = [pc EXCEPT ![t] = p]
    PROVE  Asleep' = Asleep /\ Cardinality(Woken') = Cardinality(Woken) - 1
  <1>1. Woken' = Woken \ {t} /\ Asleep' = Asleep
    BY DEF TypeOK, Woken, Asleep
  <1>2. IsFiniteSet(Woken)
    BY FiniteParts DEF Woken
  <1>3. QED
    BY <1>1, <1>2, FS_RemoveElement

LEMMA SleeperWakes ==
    ASSUME TypeOK, NEW t \in Asleep, NEW q,
           q \in {"woken", "timed_woken", "expired"},
           \A u \in Thread \ {t} :
               /\ u \in Asleep' <=> u \in Asleep
               /\ u \in Woken' <=> u \in Woken,
           pc'[t] = q
    PROVE  Asleep' \subseteq Asleep /\ Cardinality(Woken') = Cardinality(Woken) + 1
  <1>1. Woken' = Woken \cup {t} /\ t \notin Woken /\ Asleep' \subseteq Asleep
    BY DEF Woken, Asleep
  <1>2. IsFiniteSet(Woken)
    BY FiniteParts DEF Woken
  <1>3. QED
    BY <1>1, <1>2, FS_AddElement

LEMMA WakeupStep ==
    TypeOK /\ ExclusiveUse /\ WakeupInv /\ [Next]_vars => WakeupInv'
  <1> SUFFICES ASSUME TypeOK, ExclusiveUse, WakeupInv, [Next]_vars
               PROVE  WakeupInv'
    OBVIOUS
  <1>0. /\ Len(free) \in Nat /\ Len(<<>>) = 0 /\ (free # <<>> => Len(free) > 0)
        /\ Cardinality(Woken) \in Nat /\ Cardinality(Woken') \in Nat
    BY FiniteParts, EmptySeq DEF TypeOK, Woken
  <1>1. ASSUME UNCHANGED <<free, abort>>, Asleep' = Asleep, Woken' = Woken
        PROVE  WakeupInv'
    BY <1>1 DEF WakeupInv, NoLostWakeup
  <1>2. ASSUME free' = <<>>, ~abort' PROVE WakeupInv'
    BY <1>0, <1>2 DEF WakeupInv, NoLostWakeup
  <1>3. ASSUME Asleep' = {} PROVE WakeupInv'
    BY <1>3 DEF WakeupInv, NoLostWakeup
  <1>4. ASSUME NEW t \in Thread, Call(t) PROVE WakeupInv'
    <2>1. CASE GetRefused(t) \/ GetNewFails(t)
      <3>1. Asleep' = Asleep /\ Woken' = Woken
        BY <2>1 DEF GetRefused, GetNewFails, GetNothing, TypeOK, Asleep, Woken
      <3>2. QED
        BY <1>1, <2>1, <3>1 DEF GetRefused, GetNewFails, GetNothing
    <2>2. CASE GetFree(t)
      <3>1. Asleep' = Asleep /\ Woken' = Woken
        BY <2>2 DEF GetFree, TakeFront, TypeOK, Asleep, Woken
      <3>2. Len(free') = Len(free) - 1
        BY <2>2, HeadTailProperties DEF GetFree, TakeFront, TypeOK
      <3>3. QED
        BY <1>0, <2>2, <3>1, <3>2
        DEF WakeupInv, NoLostWakeup, GetFree, TakeFront
    <2>3. CASE GetNew(t)
      BY <1>2, <2>3 DEF GetNew, MustWait
    <2>4. CASE GetWaits(t)
      BY <1>2, <2>4 DEF GetWaits, MustWait
    <2>5. QED
      BY <1>4, <2>1, <2>2, <2>3, <2>4 DEF Call
  <1>5. ASSUME NEW t \in Asleep, UNCHANGED <<free, abort>>,
               pc' = [pc EXCEPT ![t] = WokenPlace[@]] \/ pc' = [pc EXCEPT ![t] = "expired"]
        PROVE  WakeupInv'
    <2>1. pc'[t] \in {"woken", "timed_woken", "expired"}
      BY <1>5 DEF Asleep, WokenPlace, TypeOK
    <2>2. \A u \in Thread \ {t} : pc'[u] = pc[u]
      BY <1>5 DEF TypeOK
    <2>3. Asleep' \subseteq Asleep /\ Cardinality(Woken') = Cardinality(Woken) + 1
      BY <2>1, <2>2, SleeperWakes DEF Asleep, Woken
    <2>4. QED
      BY <1>0, <1>5, <2>3 DEF WakeupInv, NoLostWakeup
  <1>6. ASSUME NEW t \in Thread, Continue(t) PROVE WakeupInv'
    <2>1. CASE SleepAgain(t)
      BY <1>2, <2>1 DEF SleepAgain, MustWait
    <2>2. CASE WakeRefused(t)
      <3>1. Asleep' = Asleep /\ Asleep = {}
        BY <2>2, WokenLeaves DEF WakeRefused, GetNothing, Refused, WakeupInv
      <3>2. QED
        BY <1>3, <3>1
    <2>3. CASE WakeEmpty(t)
      BY <1>2, <2>3 DEF WakeEmpty, GetNothing, Refused
    <2>4. CASE WakeTakes(t)
      <3>1. Asleep' = Asleep /\ Cardinality(Woken') = Cardinality(Woken) - 1
        BY <2>4, WokenLeaves DEF WakeTakes, TakeFront
      <3>2. Len(free') = Len(free) - 1
        BY <2>4, HeadTailProperties DEF WakeTakes, TakeFront, TypeOK
      <3>3. QED
        BY <1>0, <2>4, <3>1, <3>2
        DEF WakeupInv, NoLostWakeup, WakeTakes, TakeFront
    <2>5. CASE Expire(t)
      BY <1>5, <2>5 DEF Expire, Asleep
    <2>6. CASE Release(t)
      <3>1. Len(free') = Len(free) + 1 /\ NotifyOne(t) /\ abort' = abort
        BY <2>6, ReleaseExclusive DEF Release
      <3>2. CASE Asleep = {}
        <4>1. Asleep' = {}
          BY <2>6, <3>1, <3>2 DEF NotifyOne, Asleep, TypeOK
        <4>2. QED
          BY <1>3, <4>1
      <3>3. CASE Asleep # {}
        <4>1. PICK u \in Asleep :
                pc' = [pc EXCEPT ![t] = "out", ![u] = WokenPlace[pc[u]]]
          BY <3>1, <3>3 DEF NotifyOne
        <4>2. pc'[u] \in {"woken", "timed_woken"} /\ pc[t] = "using"
          BY <2>6, <4>1 DEF Release, Asleep, WokenPlace, TypeOK
        <4>3. \A w \in Thread \ {u} :
                pc'[w] = IF w = t THEN "out" ELSE pc[w]
          BY <4>1 DEF TypeOK
        <4>4. Asleep' \subseteq Asleep /\ Cardinality(Woken') = Cardinality(Woken) + 1
          BY <4>2, <4>3, SleeperWakes DEF Asleep, Woken
        <4>5. QED
          BY <1>0, <3>1, <4>4 DEF WakeupInv, NoLostWakeup
      <3>4. QED
        BY <3>2, <3>3
    <2>7. QED
      BY <1>6, <2>1, <2>2, <2>3, <2>4, <2>5, <2>6 DEF Continue
  <1>7. ASSUME NEW t \in Thread, Spurious(t) PROVE WakeupInv'
    BY <1>5, <1>7 DEF Spurious
  <1>8. CASE Close
    BY <1>3, <1>8 DEF Close, NotifyAll, Asleep, WokenPlace, TypeOK
  <1>9. CASE CloseFree
    <2>1. Asleep' = {}
      BY <1>9 DEF CloseFree, TypeOK, WakeupInv, Asleep
    <2>2. QED
      BY <1>3, <2>1
  <1>10. CASE UNCHANGED vars
    BY <1>1, <1>10 DEF vars, Asleep, Woken
  <1>11. QED
    BY <1>4, <1>6, <1>7, <1>8, <1>9, <1>10 DEF Next

\* No notification is lost: while a thread sleeps, every free connection has a
\* woken thread coming for it.
THEOREM NoWakeupLost == Spec => []NoLostWakeup
  <1>1. Init => WakeupInv
    BY DEF Init, WakeupInv, NoLostWakeup, Asleep
  <1>2. WakeupInv => NoLostWakeup
    BY DEF WakeupInv
  <1>3. QED
    BY <1>1, <1>2, WakeupStep, TypeCorrect, Exclusive, PTL DEF Spec
-----------------------------------------------------------------------------
LEMMA SameCardinality == \A S : Abstract!Cardinality(S) = Cardinality(S)
  BY DEF Abstract!Cardinality, Cardinality

\* A step hands a connection to one thread, takes one from one, or does not
\* change who has what.
LEMMA AbstractStep ==
    TypeOK /\ ExclusiveUse /\ PoolConserved /\ [Next]_vars
        => [Abstract!Next]_conn
  <1> SUFFICES ASSUME TypeOK, ExclusiveUse, PoolConserved, [Next]_vars
               PROVE  Abstract!Next \/ UNCHANGED conn
    BY DEF Abstract!Next
  <1>0. /\ Abstract!Users = Users /\ Cardinality(Users) \in Nat
        /\ Abstract!Cardinality(Abstract!Users) = Cardinality(Users)
        /\ Len(free) \in Nat /\ cur \in Nat /\ MaxConn \in Nat
        /\ (free # <<>> => Len(free) > 0) /\ Len(<<>>) = 0
    BY FiniteParts, PoolAssumption, EmptySeq, SameCardinality
    DEF Abstract!Users, Users, TypeOK
  <1>1. ASSUME NEW t \in Thread, free # <<>>, TakeFront(t), conn[t] = NULL
        PROVE  Abstract!Acquire(t)
    <2>1. Head(free) \in Conn /\ Head(free) = free[1] /\ 1 \in DOMAIN free
      BY <1>0, <1>1, HeadTailProperties DEF TypeOK
    <2>2. \A u \in Thread : conn[u] # Head(free)
      BY <2>1, PoolAssumption DEF ExclusiveUse, Users, Elements
    <2>3. Cardinality(Users) < MaxConn
      BY <1>0, <1>1 DEF PoolConserved
    <2>4. QED
      BY <1>0, <1>1, <2>1, <2>2, <2>3 DEF Abstract!Acquire, TakeFront
  <1>2. ASSUME NEW t \in Thread, Call(t)
        PROVE  Abstract!Next \/ UNCHANGED conn
    <2>1. CASE GetFree(t)
      BY <1>1, <2>1 DEF GetFree, TypeOK, Abstract!Next
    <2>2. CASE GetNew(t)
      <3>1. conn[t] = NULL /\ Cardinality(Users) < MaxConn
        BY <1>0, <2>2 DEF GetNew, MustWait, AtLimit, TypeOK, PoolConserved
      <3>2. \E c \in Conn : /\ \A u \in Thread : conn[u] # c
                            /\ conn' = [conn EXCEPT ![t] = c]
        BY <2>2 DEF GetNew
      <3>3. QED
        BY <1>0, <3>1, <3>2 DEF Abstract!Acquire, Abstract!Next
    <2>3. CASE GetRefused(t) \/ GetNewFails(t) \/ GetWaits(t)
      BY <2>3 DEF GetRefused, GetNewFails, GetWaits, GetNothing
    <2>4. QED
      BY <1>2, <2>1, <2>2, <2>3 DEF Call
  <1>3. ASSUME NEW t \in Thread, Continue(t)
        PROVE  Abstract!Next \/ UNCHANGED conn
    <2>1. CASE WakeTakes(t)
      BY <1>1, <2>1 DEF WakeTakes, Woken, TypeOK, Abstract!Next
    <2>2. CASE Release(t)
      BY <2>2 DEF Release, TypeOK, Abstract!Return, Abstract!Next
    <2>3. CASE SleepAgain(t) \/ WakeRefused(t) \/ WakeEmpty(t) \/ Expire(t)
      BY <2>3 DEF SleepAgain, WakeRefused, WakeEmpty, Expire, GetNothing
    <2>4. QED
      BY <1>3, <2>1, <2>2, <2>3 DEF Continue
  <1>4. CASE Close \/ CloseFree \/ UNCHANGED vars
           \/ \E t \in Thread : Spurious(t)
    BY <1>4 DEF Close, CloseFree, Spurious, vars
  <1>5. QED
    BY <1>2, <1>3, <1>4 DEF Next

\* The pool implements ExclusivePool: whatever waits, fails, barges in or times
\* out, its callers see connections handed out one by one, within the limit.
THEOREM Refinement == Spec => ImplementsExclusivePool
  <1>1. Init => Abstract!Init
    BY DEF Init, Abstract!Init
  <1>2. QED
    BY <1>1, AbstractStep, TypeCorrect, Exclusive, Conserved, PTL
    DEF Spec, Abstract!Spec, ImplementsExclusivePool

\* A pool that is being destroyed hands out nothing more.
THEOREM NothingHandedOut == Spec => NothingAfterAbort
  <1> DEFINE Step == abort => \A t \in Thread : conn'[t] # NULL => conn[t] # NULL
  <1>1. TypeOK /\ [Next]_vars => [Step]_vars
    <2> SUFFICES ASSUME TypeOK, Next, abort, NEW u \in Thread, conn'[u] # NULL
                 PROVE  conn[u] # NULL
      BY DEF vars
    <2>1. ASSUME NEW t \in Thread, Release(t) PROVE conn[u] # NULL
      BY <2>1 DEF Release, TypeOK
    <2>2. CASE UNCHANGED conn
      BY <2>2
    <2>3. ASSUME NEW t \in Thread, Call(t) PROVE UNCHANGED conn
      BY <2>3 DEF Call, GetRefused, GetFree, GetNew, GetNewFails, GetWaits,
                  GetNothing, MustWait
    <2>4. ASSUME NEW t \in Thread, Continue(t), ~Release(t) PROVE UNCHANGED conn
      BY <2>4 DEF Continue, SleepAgain, WakeRefused, WakeEmpty, WakeTakes,
                  Expire, GetNothing, Refused
    <2>5. CASE Close \/ CloseFree \/ \E t \in Thread : Spurious(t)
      BY <2>2, <2>5 DEF Close, CloseFree, Spurious
    <2>6. QED
      BY <2>1, <2>2, <2>3, <2>4, <2>5 DEF Next
  <1>2. QED
    BY <1>1, TypeCorrect, PTL DEF Spec, NothingAfterAbort
=============================================================================
