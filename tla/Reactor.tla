------------------------------- MODULE Reactor -------------------------------
(***************************************************************************)
(* The event loop and the HTTP connections: CEventDispatch (Linux, epoll), *)
(* CBaseSocket, netlib and CHttpConn.  The server is one thread; peers and *)
(* the kernel act between any two of its steps.  A step of the server is   *)
(* one callback of one event: what peers do while it runs is what they do  *)
(* before or after it.  All events are edge-triggered.                     *)
(***************************************************************************)
EXTENDS Integers, FiniteSets

CONSTANTS
    Fd,        \* the descriptors the process may have open for connections
    NULL,      \* no descriptor, no connection
    MaxConns,  \* bound: how many peers connect
    ReqLen,    \* the bytes of a request, in units
    InLimit,   \* what OnRead accepts, in units: 2048 bytes
    RespLen    \* the bytes of an answer, in units

\* A connection's handle, which also names its CBaseSocket.
Conn == 1..MaxConns

ASSUME ReactorAssumption ==
    /\ NULL \notin Fd \cup Conn
    /\ MaxConns \in Nat
    /\ ReqLen \in Nat \ {0} /\ InLimit \in Nat /\ ReqLen <= InLimit
    /\ RespLen \in Nat \ {0}

VARIABLES
    backlog,    \* kernel: connections to be accepted
    open,       \* kernel: the connection each descriptor stands for
    sock,       \* kernel: the socket of each connection
    edge,       \* epoll: the descriptors on the ready list
    listenEdge, \* epoll: the listening socket is on it
    starved,    \* the last accept() failed for want of a descriptor
    socketMap,  \* g_socket_map
    refs,       \* m_refCount of each CBaseSocket, 0 once it is deleted
    connMap,    \* g_http_conn_map
    conn,       \* the members of each CHttpConn
    handles,    \* g_conn_handle_generator
    loop,       \* where the loop is
    batch,      \* events[]: what epoll_wait returned and is yet to be seen
    cur         \* the event in hand: its socket, and what is left of it

kernel == <<backlog, open, sock, edge, listenEdge, starved>>
maps   == <<socketMap, refs, connMap, conn, handles>>
where  == <<loop, batch, cur>>
vars   == <<kernel, maps, where>>

\* in: bytes to be read.  fin, rst: the peer closed, or reset.  full: send()
\* would block.  sent: bytes that send() has taken.
NewSock == [in |-> 0, fin |-> FALSE, rst |-> FALSE, full |-> FALSE, sent |-> 0]

\* in, out: what m_in_buf and m_out_buf hold.  idle: HTTP_CONN_TIMEOUT has
\* passed since m_last_recv_tick.  done: how often a handler was called.
NoConn     == [fd |-> NULL, busy |-> FALSE, in |-> 0, out |-> 0,
               idle |-> FALSE, done |-> 0]
NewConn(f) == [NoConn EXCEPT !.fd = f]

Nobody == [conn |-> NULL, ev |-> {}]
Events == {"in", "out", "hup"}

Accepted == {c \in Conn : \E f \in Fd : open[f] = c}
FdOf(c)  == CHOOSE f \in Fd : open[f] = c
-----------------------------------------------------------------------------
(* Peers, the kernel and time.                                             *)

PeerConnects ==
    /\ handles + backlog < MaxConns
    /\ backlog' = backlog + 1 /\ listenEdge' = TRUE
    /\ UNCHANGED <<open, sock, edge, starved, maps, where>>

\* The socket of c changes, which puts its descriptor on the ready list.
Changes(c, s) ==
    /\ sock' = [sock EXCEPT ![c] = s]
    /\ edge' = edge \cup {FdOf(c)}
    /\ UNCHANGED <<backlog, open, listenEdge, starved, maps, where>>

\* No peer sends more than makes OnRead close the connection.
PeerSends(c) ==
    /\ c \in Accepted /\ ~sock[c].fin /\ ~sock[c].rst
    /\ sock[c].in + conn[c].in <= InLimit
    /\ Changes(c, [sock[c] EXCEPT !.in = @ + 1])

PeerCloses(c) ==
    /\ c \in Accepted /\ ~sock[c].fin /\ ~sock[c].rst
    /\ Changes(c, [sock[c] EXCEPT !.fin = TRUE])

PeerResets(c) ==
    /\ c \in Accepted /\ ~sock[c].rst
    /\ Changes(c, [sock[c] EXCEPT !.rst = TRUE])

PeerReads(c) ==
    /\ c \in Accepted /\ sock[c].full
    /\ Changes(c, [sock[c] EXCEPT !.full = FALSE])

\* 60 seconds pass without a byte; the timer, which runs every second, is due.
TimePasses(c) ==
    /\ c \in connMap /\ ~conn[c].idle
    /\ conn' = [conn EXCEPT ![c].idle = TRUE]
    /\ UNCHANGED <<kernel, socketMap, refs, connMap, handles, where>>
-----------------------------------------------------------------------------
(* Closing: CHttpConn::Close, netlib_close, CBaseSocket::Close.            *)

RemoveBaseSocketMutant(fds) == socketMap
RemoveBaseSocket(fds) == [f \in Fd |-> IF f \in fds THEN NULL ELSE socketMap[f]]

CloseSocketMutant(fds) == open
CloseSocket(fds) == [f \in Fd |-> IF f \in fds THEN NULL ELSE open[f]]

\* CloseAll(S, r): the connections S are closed; r are the reference counts
\* but for the reference that the map of sockets held.  The CHttpConn is
\* deleted, and what its memory holds is of no interest any more.
CloseAll(S, r) ==
    LET fds == {f \in {conn[c].fd : c \in S} : socketMap[f] # NULL}
    IN  /\ connMap' = connMap \ S
        /\ conn' = [c \in Conn |-> IF c \in S THEN NoConn ELSE conn[c]]
        /\ socketMap' = RemoveBaseSocket(fds)
        /\ open' = CloseSocket(fds)
        /\ edge' = edge \ fds
        /\ refs' = [c \in Conn |-> IF \E f \in fds : socketMap[f] = c
                                   THEN r[c] - 1 ELSE r[c]]
        /\ sock' = [c \in Conn |-> IF c \in S THEN NewSock ELSE sock[c]]
        /\ UNCHANGED <<backlog, listenEdge, starved, handles>>

Close(c) == CloseAll({c}, refs)
-----------------------------------------------------------------------------
(* The loop: StartDispatch, _CheckTimer.                                   *)

\* What epoll finds of a socket that is on its ready list.
Mask(s) == (IF s.in > 0 \/ s.fin \/ s.rst THEN {"in"} ELSE {})
            \cup (IF ~s.full \/ s.rst THEN {"out"} ELSE {})
            \cup (IF s.rst THEN {"hup"} ELSE {})

Event(f)    == [fd |-> f, conn |-> open[f], ev |-> Mask(sock[open[f]])]
ListenEvent == [fd |-> NULL, conn |-> NULL, ev |-> {"in"}]

EpollWait ==
    /\ loop = "wait" /\ loop' = "dispatch"
    /\ batch' = {e \in {Event(f) : f \in edge} : e.ev # {}}
                  \cup (IF listenEdge /\ backlog > 0 THEN {ListenEvent} ELSE {})
    /\ edge' = {} /\ listenEdge' = FALSE
    /\ UNCHANGED <<backlog, open, sock, starved, maps, cur>>

\* FindBaseSocket counts a reference, which the loop gives back at the end.
FindBaseSocket(c) == [refs EXCEPT ![c] = @ + 1]

NextEvent(e) ==
    /\ loop = "dispatch" /\ cur = Nobody /\ e \in batch
    /\ batch' = batch \ {e}
    /\ IF e = ListenEvent THEN loop' = "accept" /\ UNCHANGED <<refs, cur>>
       ELSE /\ LET c == socketMap[e.fd]
               IN  IF c = NULL THEN UNCHANGED <<refs, cur>>
                   ELSE /\ refs' = FindBaseSocket(c)
                        /\ cur' = [conn |-> c, ev |-> e.ev]
            /\ UNCHANGED loop
    /\ UNCHANGED <<kernel, socketMap, connMap, conn, handles>>

\* The events of a record are looked at in this order.
Now(ev) == /\ loop = "dispatch" /\ ev \in cur.ev
           /\ ev = "out" => "in" \notin cur.ev
           /\ ev = "hup" => cur.ev = {"hup"}
           /\ cur' = [cur EXCEPT !.ev = @ \ {ev}]
           /\ UNCHANGED <<loop, batch>>

EventDone ==
    /\ loop = "dispatch" /\ cur # Nobody /\ cur.ev = {}
    /\ refs' = [refs EXCEPT ![cur.conn] = @ - 1]
    /\ cur' = Nobody
    /\ UNCHANGED <<kernel, socketMap, connMap, conn, handles, loop, batch>>

\* http_conn_timer_callback, after the batch.
TimedOutMutant(c) == conn[c].idle /\ ~conn[c].busy
TimedOut(c) == conn[c].idle

CheckTimer ==
    /\ loop = "dispatch" /\ cur = Nobody /\ batch = {}
    /\ loop' = "wait"
    /\ CloseAll({c \in connMap : TimedOut(c)}, refs)
    /\ UNCHANGED <<batch, cur>>
-----------------------------------------------------------------------------
(* Accepting: _AcceptNewSocket, http_callback, CHttpConn::OnConnect.       *)

FreeFds == {f \in Fd : open[f] = NULL}

Accept ==
    /\ loop = "accept" /\ backlog > 0
    /\ \E f \in FreeFds :
         LET c == handles + 1
         IN  /\ open' = [open EXCEPT ![f] = c]
             /\ edge' = edge \cup {f}
             /\ socketMap' = [socketMap EXCEPT ![f] = IF @ = NULL THEN c ELSE @]
             /\ refs' = [refs EXCEPT ![c] = 1]
             /\ connMap' = connMap \cup {c}
             /\ conn' = [conn EXCEPT ![c] = NewConn(f)]
             /\ handles' = c
    /\ backlog' = backlog - 1 /\ starved' = FALSE
    /\ UNCHANGED <<sock, listenEdge, where>>

\* accept() fails: there is nobody left, or no descriptor.
AcceptEnds ==
    /\ loop = "accept" /\ (backlog = 0 \/ FreeFds = {})
    /\ loop' = "dispatch"
    /\ starved' = (backlog > 0)
    /\ UNCHANGED <<backlog, open, sock, edge, listenEdge, maps, batch, cur>>
-----------------------------------------------------------------------------
(* Sending: CHttpConn::Send and OnWrite.                                   *)

\* How much of n units send() takes.
Sendable(s, n) == IF s.rst \/ s.full THEN {0} ELSE 1..n

\* netlib_send takes k of n units, and the rest is kept; or all of them, and
\* OnWriteComlete closes the connection.  m is the connection before.
Sent(c, m, s, n, k) ==
    IF k = n THEN Close(c)
    ELSE /\ conn' = [conn EXCEPT ![c] = [m EXCEPT !.out = n - k, !.busy = TRUE]]
         /\ sock' = [sock EXCEPT ![c] = [s EXCEPT !.full = ~s.rst, !.sent = @ + k]]
         /\ UNCHANGED <<backlog, open, edge, listenEdge, starved,
                        socketMap, refs, connMap, handles>>

SendMutant(c, m, s) ==
    \E k \in Sendable(s, RespLen) : Sent(c, m, s, RespLen, k)
Send(c, m, s) ==
    IF m.busy
    THEN /\ conn' = [conn EXCEPT ![c] = [m EXCEPT !.out = @ + RespLen]]
         /\ sock' = [sock EXCEPT ![c] = s]
         /\ UNCHANGED <<backlog, open, edge, listenEdge, starved,
                        socketMap, refs, connMap, handles>>
    ELSE \E k \in Sendable(s, RespLen) : Sent(c, m, s, RespLen, k)

\* After OnWriteComlete has deleted the connection OnWrite still writes
\* m_busy.  Nothing has reused that memory yet.
OnWrite ==
    /\ Now("out")
    /\ LET c == cur.conn
       IN  IF c \in connMap /\ conn[c].busy
           THEN \E k \in Sendable(sock[c], conn[c].out) :
                   Sent(c, conn[c], sock[c], conn[c].out, k)
           ELSE UNCHANGED <<kernel, maps>>
-----------------------------------------------------------------------------
(* Reading: CBaseSocket::OnRead, CHttpConn::OnRead and OnClose.            *)

\* NETLIB_MSG_CLOSE
Hangup(c) == IF c \in connMap THEN Close(c) ELSE UNCHANGED <<kernel, maps>>

\* What the loop of recv() takes: everything.
TakenMutant(s) == 1
Taken(s) == s.in

\* The url is unknown, or its handler runs and answers.
Handle(c, m, s) == Close(c) \/ Send(c, [m EXCEPT !.done = @ + 1], s)

\* The parser begins anew each time, and looks for one request.
IsReadAll(m) == m.in >= ReqLen

\* More than a request may have.
TooMuch(m) == m.in > InLimit

\* NETLIB_MSG_READ.  m_in_buf is never emptied: what was parsed before is
\* parsed again, and handled again if the answer is not sent yet.
Receive(c) ==
    LET m == [conn[c] EXCEPT !.in = @ + Taken(sock[c]), !.idle = FALSE]
        s == [sock[c] EXCEPT !.in = @ - Taken(sock[c])]
    IN  \/ TooMuch(m) /\ Close(c)
        \/ /\ ~TooMuch(m) /\ ~IsReadAll(m)
           /\ conn' = [conn EXCEPT ![c] = m] /\ sock' = [sock EXCEPT ![c] = s]
           /\ UNCHANGED <<backlog, open, edge, listenEdge, starved,
                          socketMap, refs, connMap, handles>>
        \/ ~TooMuch(m) /\ IsReadAll(m) /\ Handle(c, m, s)

OnRead ==
    /\ Now("in")
    /\ LET c == cur.conn
       IN  IF sock[c].in = 0 THEN Hangup(c)
           ELSE IF c \in connMap THEN Receive(c) ELSE UNCHANGED <<kernel, maps>>

OnClose == Now("hup") /\ Hangup(cur.conn)
-----------------------------------------------------------------------------
Init ==
    /\ backlog = 0 /\ listenEdge = FALSE /\ starved = FALSE
    /\ open = [f \in Fd |-> NULL] /\ edge = {}
    /\ sock = [c \in Conn |-> NewSock]
    /\ socketMap = [f \in Fd |-> NULL] /\ refs = [c \in Conn |-> 0]
    /\ connMap = {} /\ conn = [c \in Conn |-> NoConn] /\ handles = 0
    /\ loop = "wait" /\ batch = {} /\ cur = Nobody

Loop == \/ EpollWait \/ (\E e \in batch : NextEvent(e)) \/ EventDone \/ CheckTimer
        \/ Accept \/ AcceptEnds \/ OnRead \/ OnWrite \/ OnClose

Peers == PeerConnects \/ \E c \in Conn : \/ PeerSends(c) \/ PeerCloses(c)
                                         \/ PeerResets(c) \/ PeerReads(c)

Next == Loop \/ Peers \/ \E c \in Conn : TimePasses(c)

Spec == Init /\ [][Next]_vars

\* The loop runs and time passes; peers do as they like.
FairSpec == Spec /\ WF_vars(Loop) /\ \A c \in Conn : WF_vars(TimePasses(c))
-----------------------------------------------------------------------------
InMap(c) == \E f \in Fd : socketMap[f] = c

TypeOK ==
    /\ backlog \in 0..MaxConns /\ handles \in 0..MaxConns
    /\ listenEdge \in BOOLEAN /\ starved \in BOOLEAN
    /\ open \in [Fd -> Conn \cup {NULL}] /\ edge \subseteq Fd
    /\ sock \in [Conn -> [in : 0..InLimit + 1, fin : BOOLEAN, rst : BOOLEAN,
                          full : BOOLEAN, sent : Nat]]
    /\ socketMap \in [Fd -> Conn \cup {NULL}] /\ refs \in [Conn -> Nat]
    /\ connMap \subseteq Conn
    /\ conn \in [Conn -> [fd : Fd \cup {NULL}, busy : BOOLEAN, in : 0..InLimit,
                          out : Nat, idle : BOOLEAN, done : Nat]]
    /\ loop \in {"wait", "dispatch", "accept"}
    /\ batch \subseteq [fd : Fd \cup {NULL}, conn : Conn \cup {NULL}, ev : SUBSET Events]
    /\ cur \in [conn : Conn \cup {NULL}, ev : SUBSET Events]

\* A connection, its socket and its descriptor live and end together: the
\* two maps and the kernel agree, so no descriptor leaks and none is closed
\* twice, or for the connection that has it next.
MapsAgree ==
    /\ open = socketMap
    /\ connMap = Accepted
    /\ \A c \in connMap : socketMap[conn[c].fd] = c

\* A socket is deleted when nobody refers to it, neither the map nor the loop,
\* and not before: a callback may close the socket whose event is in hand.
RefsExact ==
    \A c \in Conn : refs[c] = (IF InMap(c) THEN 1 ELSE 0)
                                + (IF cur.conn = c THEN 1 ELSE 0)

\* An event reaches the connection it was reported for, though descriptors are
\* reused and connections are closed while a batch is being dispatched.
EventReachesItsSocket == \A e \in batch : e # ListenEvent => socketMap[e.fd] = e.conn

\* When the loop waits, nothing that it has to do has lost its edge: bytes to
\* be read, an answer that can go on, a connection to be accepted (unless
\* accept() failed for want of a descriptor).
EdgesPending ==
    loop = "wait" =>
        /\ \A c \in connMap :
              \/ sock[c].in > 0 \/ sock[c].rst
              \/ conn[c].busy /\ ~sock[c].full
              => FdOf(c) \in edge
        /\ backlog > 0 => listenEdge \/ starved

\* What was handled, once or again, is answered in full: while a connection is
\* open, what send() took and what m_out_buf holds make up its answers, and
\* m_busy says that there is a rest; with none OnWrite would never complete.
AnswerPending ==
    \A c \in connMap : /\ sock[c].sent + conn[c].out = conn[c].done * RespLen
                       /\ conn[c].busy <=> conn[c].out > 0
                       /\ conn[c].busy <=> conn[c].done > 0

\* Every connection ends: by its answer, its peer, the limit or the timeout.
ConnectionEnds == \A c \in Conn : c \in connMap ~> c \notin connMap
=============================================================================
