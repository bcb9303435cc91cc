--------------------------- MODULE ExclusivePool ---------------------------
(***************************************************************************)
(* What a connection pool promises its callers: each has at most one       *)
(* connection, no connection serves two of them, and no more than MaxConn  *)
(* connections are out.  Nothing is said of how callers wait, of which     *)
(* connection they get or of when a connection is made.                    *)
(***************************************************************************)
EXTENDS Integers, FiniteSets

CONSTANTS Thread, Conn, MaxConn, NULL

VARIABLE conn    \* the connection each thread uses, or NULL

Users == {t \in Thread : conn[t] # NULL}

Acquire(t) ==
    /\ conn[t] = NULL
    /\ Cardinality(Users) < MaxConn
    /\ \E c \in Conn : /\ \A u \in Thread : conn[u] # c
                       /\ conn' = [conn EXCEPT ![t] = c]

Return(t) == conn[t] # NULL /\ conn' = [conn EXCEPT ![t] = NULL]

Init == conn = [t \in Thread |-> NULL]
Next == \E t \in Thread : Acquire(t) \/ Return(t)
Spec == Init /\ [][Next]_conn
=============================================================================
