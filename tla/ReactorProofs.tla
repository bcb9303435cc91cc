---------------------------- MODULE ReactorProofs ----------------------------
(* What Reactor keeps for every number of descriptors and connections, every *)
(* length of requests and answers, and whatever peers do.                    *)
EXTENDS Reactor, TLAPS

-----------------------------------------------------------------------------
(* The inductive invariant.                                                  *)

Socks == [in : 0..InLimit + 1, fin : BOOLEAN, rst : BOOLEAN, full : BOOLEAN,
          sent : Nat]
Conns == [fd : Fd \cup {NULL}, busy : BOOLEAN, in : 0..InLimit, out : Nat,
          idle : BOOLEAN, done : Nat]

\* A connection has one descriptor, and a descriptor one connection.
Links ==
    /\ open = socketMap
    /\ \A f \in Fd : open[f] # NULL =>
          open[f] \in connMap /\ conn[open[f]].fd = f
    /\ \A c \in connMap : /\ conn[c].fd \in Fd /\ open[conn[c].fd] = c
                          /\ c <= handles
    /\ \A f \in edge : open[f] # NULL

\* Handles are given out once, and are enough for who waits to be accepted.
Given ==
    /\ handles + backlog <= MaxConns
    /\ cur.conn # NULL => cur.conn \in Conn /\ cur.conn <= handles

\* What the loop has in hand at each of its places.
Walk ==
    /\ cur.conn = NULL => cur = Nobody
    /\ loop \in {"wait", "accept"} => cur = Nobody
    /\ loop = "wait" => batch = {}

\* An event that is still to be dispatched is of a connection that is open,
\* and not of the one in hand: nothing closes it before.
Pending ==
    /\ \A e \in batch : e # ListenEvent =>
          /\ e.fd \in Fd /\ e.conn = open[e.fd]
          /\ e.conn # NULL /\ e.conn # cur.conn
    /\ \A d, e \in batch : d.fd = e.fd => d = e

Inv == TypeOK /\ Links /\ Given /\ Walk /\ Pending /\ RefsExact

-----------------------------------------------------------------------------
(* Helpers.                                                                  *)

LEMMA Parameters ==
    /\ NULL \notin Fd /\ NULL \notin Conn /\ Conn \subseteq Nat
    /\ MaxConns \in Nat /\ InLimit \in Nat /\ ReqLen \in Nat /\ RespLen \in Nat
  BY ReactorAssumption DEF Conn

LEMMA TypeParts ==
    ASSUME TypeOK
    PROVE  /\ sock \in [Conn -> Socks] /\ conn \in [Conn -> Conns]
           /\ open \in [Fd -> Conn \cup {NULL}] /\ refs \in [Conn -> Nat]
           /\ socketMap \in [Fd -> Conn \cup {NULL}]
           /\ connMap \subseteq Conn /\ edge \subseteq Fd
           /\ backlog \in Nat /\ handles \in Nat
  BY Parameters DEF TypeOK, Socks, Conns

LEMMA FreshTyped == NewSock \in Socks /\ NoConn \in Conns
  BY Parameters DEF NewSock, NoConn, Socks, Conns

LEMMA FdOfAccepted ==
    ASSUME NEW c \in Accepted PROVE FdOf(c) \in Fd /\ open[FdOf(c)] = c
  BY DEF Accepted, FdOf

LEMMA AcceptedIsOpen == Inv => connMap = Accepted
  <1> SUFFICES ASSUME Inv PROVE connMap = Accepted
    OBVIOUS
  <1>1. connMap \subseteq Accepted
    BY TypeParts DEF Inv, Links, Accepted
  <1>2. ASSUME NEW c \in Accepted PROVE c \in connMap
    <2>1. PICK f \in Fd : open[f] = c
      BY DEF Accepted
    <2>2. c # NULL
      BY Parameters DEF Accepted
    <2>3. QED
      BY <2>1, <2>2 DEF Inv, Links
  <1>3. QED
    BY <1>1, <1>2

\* Who is in the map of sockets.
LEMMA InMapIsConn ==
    ASSUME Inv, NEW c \in Conn PROVE InMap(c) <=> c \in connMap
  BY AcceptedIsOpen DEF Inv, Links, InMap, Accepted

-----------------------------------------------------------------------------
(* What a step leaves alone.                                                 *)

\* Nobody comes, goes, or is taken in hand.
LEMMA SameLinks ==
    ASSUME Inv, TypeOK',
           UNCHANGED <<open, socketMap, connMap, handles, refs, loop, batch>>,
           \A c \in connMap : conn'[c].fd = conn[c].fd,
           handles + backlog' <= MaxConns,
           \A f \in edge' : open[f] # NULL,
           cur'.conn = cur.conn, cur = Nobody => cur' = Nobody
    PROVE  Inv'
  <1>1. Links'
    BY DEF Inv, Links
  <1>2. Given' /\ Walk'
    BY DEF Inv, Given, Walk
  <1>3. Pending'
    BY DEF Inv, Pending
  <1>4. RefsExact'
    BY DEF Inv, RefsExact, InMap
  <1>5. QED
    BY <1>1, <1>2, <1>3, <1>4 DEF Inv

\* The event in hand was looked at.
HandStays == /\ UNCHANGED <<loop, batch>>
             /\ cur' = [cur EXCEPT !.ev = cur'.ev] /\ cur'.ev \subseteq cur.ev

LEMMA NowStays ==
    ASSUME Inv, NEW ev, Now(ev)
    PROVE  /\ HandStays /\ cur' \in [conn : Conn \cup {NULL}, ev : SUBSET Events]
           /\ cur'.conn = cur.conn /\ cur.conn \in Conn /\ cur # Nobody
           /\ loop = "dispatch"
  <1>1. /\ loop = "dispatch" /\ ev \in cur.ev
        /\ cur' = [cur EXCEPT !.ev = cur.ev \ {ev}] /\ UNCHANGED <<loop, batch>>
    BY DEF Now
  <1>2. cur \in [conn : Conn \cup {NULL}, ev : SUBSET Events]
    BY DEF Inv, TypeOK
  <1>3. /\ cur' \in [conn : Conn \cup {NULL}, ev : SUBSET Events]
        /\ cur'.conn = cur.conn /\ cur'.ev = cur.ev \ {ev}
    BY <1>1, <1>2
  <1>4. cur # Nobody
    BY <1>1 DEF Nobody
  <1>5. cur.conn \in Conn
    BY <1>2, <1>4 DEF Inv, Walk
  <1>6. QED
    BY <1>1, <1>3, <1>4, <1>5 DEF HandStays

-----------------------------------------------------------------------------
(* Peers and time.                                                           *)

LEMMA ChangesKeeps ==
    ASSUME Inv, NEW c \in Accepted, NEW s \in Socks, Changes(c, s) PROVE Inv'
  <1>1. /\ sock' = [sock EXCEPT ![c] = s] /\ edge' = edge \cup {FdOf(c)}
        /\ UNCHANGED <<backlog, open, listenEdge, starved>>
        /\ UNCHANGED <<socketMap, refs, connMap, conn, handles>>
        /\ UNCHANGED <<loop, batch, cur>>
    BY DEF Changes, maps, where
  <1>2. FdOf(c) \in Fd /\ open[FdOf(c)] = c /\ c # NULL
    BY FdOfAccepted, Parameters DEF Accepted
  <1>3. sock' \in [Conn -> Socks]
    BY <1>1, TypeParts DEF Inv
  <1>4. TypeOK'
    BY <1>1, <1>2, <1>3 DEF Inv, TypeOK, Socks
  <1>5. \A f \in edge' : open[f] # NULL
    BY <1>1, <1>2 DEF Inv, Links
  <1>6. QED
    BY <1>1, <1>4, <1>5, SameLinks DEF Inv, Given

LEMMA PeersKeep == ASSUME Inv, Peers PROVE Inv'
  <1>1. CASE PeerConnects
    <2>1. /\ handles + backlog < MaxConns /\ backlog' = backlog + 1
          /\ listenEdge' = TRUE
          /\ UNCHANGED <<open, sock, edge, starved>>
          /\ UNCHANGED <<socketMap, refs, connMap, conn, handles>>
          /\ UNCHANGED <<loop, batch, cur>>
      BY <1>1 DEF PeerConnects, maps, where
    <2>2. backlog \in Nat /\ handles \in Nat
      BY TypeParts DEF Inv
    <2>3. backlog' \in 0..MaxConns /\ handles + backlog' <= MaxConns
      BY <2>1, <2>2, Parameters
    <2>4. listenEdge' \in BOOLEAN
      BY <2>1
    <2>5. TypeOK'
      BY <2>1, <2>3, <2>4 DEF Inv, TypeOK
    <2>6. QED
      BY <2>1, <2>3, <2>5, SameLinks DEF Inv, Links
  <1>2. ASSUME NEW c \in Conn,
               PeerSends(c) \/ PeerCloses(c) \/ PeerResets(c) \/ PeerReads(c)
        PROVE  Inv'
    <2>1. c \in Accepted /\ sock[c] \in Socks /\ conn[c] \in Conns
      BY <1>2, TypeParts DEF Inv, PeerSends, PeerCloses, PeerResets, PeerReads
    <2>2. CASE PeerSends(c)
      <3>1. sock[c].in + conn[c].in <= InLimit
        BY <2>2 DEF PeerSends
      <3>2. sock[c].in + 1 \in 0..InLimit + 1
        BY <2>1, <3>1, Parameters DEF Socks, Conns
      <3>3. [sock[c] EXCEPT !.in = sock[c].in + 1] \in Socks
        BY <2>1, <3>2 DEF Socks
      <3>4. QED
        BY <2>1, <2>2, <3>3, ChangesKeeps DEF PeerSends
    <2>3. CASE PeerCloses(c)
      <3>1. [sock[c] EXCEPT !.fin = TRUE] \in Socks
        BY <2>1 DEF Socks
      <3>2. QED
        BY <2>1, <2>3, <3>1, ChangesKeeps DEF PeerCloses
    <2>4. CASE PeerResets(c)
      <3>1. [sock[c] EXCEPT !.rst = TRUE] \in Socks
        BY <2>1 DEF Socks
      <3>2. QED
        BY <2>1, <2>4, <3>1, ChangesKeeps DEF PeerResets
    <2>5. CASE PeerReads(c)
      <3>1. [sock[c] EXCEPT !.full = FALSE] \in Socks
        BY <2>1 DEF Socks
      <3>2. QED
        BY <2>1, <2>5, <3>1, ChangesKeeps DEF PeerReads
    <2>6. QED
      BY <1>2, <2>2, <2>3, <2>4, <2>5
  <1>3. QED
    BY <1>1, <1>2 DEF Peers

LEMMA TimeKeeps == ASSUME Inv, NEW c \in Conn, TimePasses(c) PROVE Inv'
  <1>1. /\ conn' = [conn EXCEPT ![c].idle = TRUE]
        /\ UNCHANGED <<backlog, open, sock, edge, listenEdge, starved>>
        /\ UNCHANGED <<socketMap, refs, connMap, handles>>
        /\ UNCHANGED <<loop, batch, cur>>
    BY DEF TimePasses, kernel, where
  <1>2. conn \in [Conn -> Conns]
    BY TypeParts DEF Inv
  <1>3. conn' \in [Conn -> Conns] /\ \A d \in Conn : conn'[d].fd = conn[d].fd
    <2>1. conn' = [conn EXCEPT ![c] = [conn[c] EXCEPT !.idle = TRUE]]
      BY <1>1
    <2>2. /\ [conn[c] EXCEPT !.idle = TRUE] \in Conns
          /\ [conn[c] EXCEPT !.idle = TRUE].fd = conn[c].fd
      BY <1>2 DEF Conns
    <2>3. QED
      BY <1>2, <2>1, <2>2
  <1>4. TypeOK'
    BY <1>1, <1>3 DEF Inv, TypeOK, Conns
  <1>5. QED
    BY <1>1, <1>3, <1>4, SameLinks, TypeParts DEF Inv, Links, Given

-----------------------------------------------------------------------------
(* Closing.                                                                  *)

\* What is closed: connections that are open, and among them none whose event
\* is still to be dispatched.
LEMMA CloseAllKeeps ==
    ASSUME Inv, NEW S \in SUBSET connMap, CloseAll(S, refs),
           cur' \in [conn : Conn \cup {NULL}, ev : SUBSET Events],
           cur'.conn = cur.conn, cur = Nobody => cur' = Nobody,
           cur # Nobody => cur' # Nobody,
           loop' \in {"wait", "dispatch"},
           loop' = "wait" => cur' = Nobody /\ batch' = {},
           batch' = batch, batch = {} \/ S \subseteq {cur.conn}
    PROVE  Inv'
  <1> DEFINE fds == {f \in {conn[c].fd : c \in S} : socketMap[f] # NULL}
  <1>1. /\ connMap' = connMap \ S
        /\ conn' = [c \in Conn |-> IF c \in S THEN NoConn ELSE conn[c]]
        /\ socketMap' = [f \in Fd |-> IF f \in fds THEN NULL ELSE socketMap[f]]
        /\ open' = [f \in Fd |-> IF f \in fds THEN NULL ELSE open[f]]
        /\ edge' = edge \ fds
        /\ refs' = [c \in Conn |-> IF \E f \in fds : socketMap[f] = c
                                   THEN refs[c] - 1 ELSE refs[c]]
        /\ sock' = [c \in Conn |-> IF c \in S THEN NewSock ELSE sock[c]]
        /\ UNCHANGED <<backlog, listenEdge, starved, handles>>
    BY DEF CloseAll, RemoveBaseSocket, CloseSocket
  <1>2. /\ sock \in [Conn -> Socks] /\ conn \in [Conn -> Conns]
        /\ open \in [Fd -> Conn \cup {NULL}] /\ refs \in [Conn -> Nat]
        /\ connMap \subseteq Conn /\ edge \subseteq Fd /\ open = socketMap
        /\ socketMap \in [Fd -> Conn \cup {NULL}]
    BY TypeParts DEF Inv, Links
  <1>3. \A c \in connMap : conn[c].fd \in Fd /\ open[conn[c].fd] = c /\ c # NULL
    BY <1>2, Parameters DEF Inv, Links
  <1>4. \A f \in Fd : f \in fds <=> open[f] \in S
    <2>1. ASSUME NEW f \in Fd, f \in fds PROVE open[f] \in S
      <3>1. PICK c \in S : f = conn[c].fd
        BY <2>1
      <3>2. QED
        BY <1>3, <3>1
    <2>2. ASSUME NEW f \in Fd, open[f] \in S PROVE f \in fds
      <3>1. open[f] # NULL
        BY <1>3, <2>2
      <3>2. conn[open[f]].fd = f /\ socketMap[f] # NULL
        BY <1>2, <3>1 DEF Inv, Links
      <3>3. QED
        BY <2>2, <3>2
    <2>3. QED
      BY <2>1, <2>2
  <1>5. \A c \in Conn : (\E f \in fds : socketMap[f] = c) <=> c \in S
    BY <1>2, <1>3, <1>4
  <1>6. \A c \in S : refs[c] - 1 \in Nat
    <2>1. SUFFICES ASSUME NEW c \in S PROVE refs[c] - 1 \in Nat
      OBVIOUS
    <2>2. InMap(c) /\ c \in Conn
      BY <1>2, InMapIsConn
    <2>3. refs[c] # 0 /\ refs[c] \in Nat
      BY <1>2, <2>2 DEF Inv, RefsExact
    <2>4. QED
      BY <2>3
  <1>7. TypeOK'
    <2>1. sock' \in [Conn -> Socks] /\ conn' \in [Conn -> Conns]
      BY <1>1, <1>2, FreshTyped
    <2>2. /\ open' \in [Fd -> Conn \cup {NULL}]
          /\ socketMap' \in [Fd -> Conn \cup {NULL}]
      BY <1>1, <1>2
    <2>3. refs' \in [Conn -> Nat]
      BY <1>1, <1>2, <1>5, <1>6
    <2>4. batch' \subseteq [fd : Fd \cup {NULL}, conn : Conn \cup {NULL},
                            ev : SUBSET Events]
      BY DEF Inv, TypeOK
    <2>5. QED
      BY <1>1, <1>2, <2>1, <2>2, <2>3, <2>4 DEF Inv, TypeOK, Socks, Conns
  <1>8. Links'
    <2>1. open' = socketMap'
      BY <1>1, <1>2
    <2>2. ASSUME NEW f \in Fd, open'[f] # NULL
          PROVE  open'[f] \in connMap' /\ conn'[open'[f]].fd = f
      <3>1. open'[f] = open[f] /\ open[f] \notin S /\ open[f] # NULL
        BY <1>1, <1>4, <2>2
      <3>2. open[f] \in connMap /\ conn[open[f]].fd = f
        BY <3>1 DEF Inv, Links
      <3>3. QED
        BY <1>1, <1>2, <3>1, <3>2
    <2>3. ASSUME NEW c \in connMap'
          PROVE  /\ conn'[c].fd \in Fd /\ open'[conn'[c].fd] = c
                 /\ c <= handles'
      <3>1. c \in connMap /\ c \notin S /\ conn'[c] = conn[c]
        BY <1>1, <1>2, <2>3
      <3>2. QED
        BY <1>1, <1>3, <1>4, <3>1 DEF Inv, Links
    <2>4. \A f \in edge' : open'[f] # NULL
      BY <1>1, <1>2 DEF Inv, Links
    <2>5. QED
      BY <2>1, <2>2, <2>3, <2>4 DEF Links
  <1>9. Given' /\ Walk'
    BY <1>1 DEF Inv, Given, Walk
  <1>10. Pending'
    <2>1. CASE batch = {}
      BY <2>1 DEF Pending
    <2>2. CASE S \subseteq {cur.conn}
      <3>1. ASSUME NEW e \in batch, e # ListenEvent
            PROVE  /\ e.fd \in Fd /\ e.conn = open'[e.fd]
                   /\ e.conn # NULL /\ e.conn # cur.conn
        <4>1. /\ e.fd \in Fd /\ e.conn = open[e.fd]
              /\ e.conn # NULL /\ e.conn # cur.conn
          BY <3>1 DEF Inv, Pending
        <4>2. e.fd \notin fds
          BY <1>4, <2>2, <4>1
        <4>3. QED
          BY <1>1, <4>1, <4>2
      <3>2. QED
        BY <3>1 DEF Inv, Pending, ListenEvent
    <2>3. QED
      BY <2>1, <2>2
  <1>11. RefsExact'
    <2>1. ASSUME NEW c \in Conn PROVE InMap(c)' <=> InMap(c) /\ c \notin S
      <3>1. \A f \in Fd : socketMap'[f] = c <=> socketMap[f] = c /\ c \notin S
        BY <1>1, <1>2, <1>4, Parameters
      <3>2. QED
        BY <3>1 DEF InMap
    <2>2. ASSUME NEW c \in S PROVE InMap(c)
      BY <1>2, InMapIsConn
    <2>3. ASSUME NEW c \in Conn
          PROVE  refs'[c] = (IF InMap(c)' THEN 1 ELSE 0)
                              + (IF cur'.conn = c THEN 1 ELSE 0)
      <3>1. refs[c] = (IF InMap(c) THEN 1 ELSE 0)
                        + (IF cur.conn = c THEN 1 ELSE 0)
        BY DEF Inv, RefsExact
      <3>2. CASE c \in S
        BY <1>1, <1>5, <2>1, <2>2, <3>1, <3>2
      <3>3. CASE c \notin S
        BY <1>1, <1>5, <2>1, <3>1, <3>3
      <3>4. QED
        BY <3>2, <3>3
    <2>4. QED
      BY <2>3 DEF RefsExact
  <1>12. QED
    BY <1>7, <1>8, <1>9, <1>10, <1>11 DEF Inv

\* A callback closes the connection in hand.
LEMMA CloseKeeps ==
    ASSUME Inv, NEW ev, Now(ev), cur.conn \in connMap, Close(cur.conn)
    PROVE  Inv'
  <1>1. /\ HandStays /\ cur' \in [conn : Conn \cup {NULL}, ev : SUBSET Events]
        /\ cur'.conn = cur.conn /\ cur.conn \in Conn /\ cur # Nobody
        /\ loop = "dispatch"
    BY NowStays
  <1>2. loop' = "dispatch" /\ batch' = batch /\ cur' # Nobody
    BY <1>1, Parameters DEF HandStays, Nobody
  <1>3. {cur.conn} \in SUBSET connMap /\ CloseAll({cur.conn}, refs)
    BY DEF Close
  <1>4. QED
    BY <1>1, <1>2, <1>3, CloseAllKeeps

\* A callback changes the members of the connection in hand and its socket.
LEMMA TouchKeeps ==
    ASSUME Inv, NEW ev, Now(ev), cur.conn \in connMap,
           NEW m \in Conns, NEW s \in Socks, m.fd = conn[cur.conn].fd,
           conn' = [conn EXCEPT ![cur.conn] = m],
           sock' = [sock EXCEPT ![cur.conn] = s],
           UNCHANGED <<backlog, open, edge, listenEdge, starved,
                       socketMap, refs, connMap, handles>>
    PROVE  Inv'
  <1>1. /\ HandStays /\ cur' \in [conn : Conn \cup {NULL}, ev : SUBSET Events]
        /\ cur'.conn = cur.conn /\ cur.conn \in Conn /\ cur # Nobody
    BY NowStays
  <1>2. UNCHANGED <<loop, batch>>
    BY <1>1 DEF HandStays
  <1>3. sock' \in [Conn -> Socks] /\ conn' \in [Conn -> Conns]
    BY <1>1, TypeParts DEF Inv
  <1>4. \A c \in connMap : conn'[c].fd = conn[c].fd
    BY TypeParts DEF Inv
  <1>5. TypeOK'
    BY <1>1, <1>2, <1>3 DEF Inv, TypeOK, Socks, Conns
  <1>6. QED
    BY <1>1, <1>2, <1>4, <1>5, SameLinks DEF Inv, Links, Given

\* A callback does nothing.
LEMMA NothingKeeps ==
    ASSUME Inv, NEW ev, Now(ev), UNCHANGED <<kernel, maps>> PROVE Inv'
  <1>1. /\ HandStays /\ cur' \in [conn : Conn \cup {NULL}, ev : SUBSET Events]
        /\ cur'.conn = cur.conn /\ cur.conn \in Conn /\ cur # Nobody
    BY NowStays
  <1>2. /\ UNCHANGED <<loop, batch>>
        /\ UNCHANGED <<backlog, open, sock, edge, listenEdge, starved>>
        /\ UNCHANGED <<socketMap, refs, connMap, conn, handles>>
    BY <1>1 DEF HandStays, kernel, maps
  <1>3. TypeOK'
    BY <1>1, <1>2 DEF Inv, TypeOK
  <1>4. QED
    BY <1>1, <1>2, <1>3, SameLinks DEF Inv, Links, Given

-----------------------------------------------------------------------------
(* The callbacks.                                                            *)

LEMMA HangupKeeps ==
    ASSUME Inv, NEW ev, Now(ev), Hangup(cur.conn) PROVE Inv'
  <1>1. CASE cur.conn \in connMap
    BY <1>1, CloseKeeps DEF Hangup
  <1>2. CASE cur.conn \notin connMap
    BY <1>2, NothingKeeps DEF Hangup
  <1>3. QED
    BY <1>1, <1>2

LEMMA SendableUnits ==
    ASSUME NEW s, NEW n \in Nat, NEW k \in Sendable(s, n)
    PROVE  k \in Nat /\ k <= n
  BY DEF Sendable

\* netlib_send, of all of it or of a part.
LEMMA SentKeeps ==
    ASSUME Inv, NEW ev, Now(ev), cur.conn \in connMap,
           NEW m \in Conns, NEW s \in Socks, m.fd = conn[cur.conn].fd,
           NEW n \in Nat, NEW k \in Nat, k <= n,
           Sent(cur.conn, m, s, n, k)
    PROVE  Inv'
  <1>1. CASE k = n
    BY <1>1, CloseKeeps DEF Sent
  <1>2. CASE k # n
    <2>1. /\ [m EXCEPT !.out = n - k, !.busy = TRUE] \in Conns
          /\ [m EXCEPT !.out = n - k, !.busy = TRUE].fd = m.fd
      <3>1. n - k \in Nat
        OBVIOUS
      <3>2. QED
        BY <3>1 DEF Conns
    <2>2. [s EXCEPT !.full = ~s.rst, !.sent = s.sent + k] \in Socks
      <3>1. s.rst \in BOOLEAN /\ s.sent + k \in Nat
        BY DEF Socks
      <3>2. QED
        BY <3>1 DEF Socks
    <2>3. /\ conn' = [conn EXCEPT ![cur.conn] = [m EXCEPT !.out = n - k, !.busy = TRUE]]
          /\ sock' = [sock EXCEPT ![cur.conn] = [s EXCEPT !.full = ~s.rst, !.sent = s.sent + k]]
          /\ UNCHANGED <<backlog, open, edge, listenEdge, starved,
                         socketMap, refs, connMap, handles>>
      BY <1>2 DEF Sent
    <2>4. QED
      BY <2>1, <2>2, <2>3, TouchKeeps
  <1>3. QED
    BY <1>1, <1>2

LEMMA OnWriteKeeps == ASSUME Inv, OnWrite PROVE Inv'
  <1> DEFINE c == cur.conn
  <1>1. Now("out")
    BY DEF OnWrite
  <1>2. CASE c \in connMap /\ conn[c].busy
    <2>1. conn[c] \in Conns /\ sock[c] \in Socks
      BY <1>2, TypeParts DEF Inv
    <2>2. conn[c].out \in Nat
      BY <2>1 DEF Conns
    <2>3. PICK k \in Sendable(sock[c], conn[c].out) :
               Sent(c, conn[c], sock[c], conn[c].out, k)
      BY <1>2 DEF OnWrite
    <2>4. k \in Nat /\ k <= conn[c].out
      BY <2>2, SendableUnits
    <2>5. QED
      BY <1>1, <1>2, <2>1, <2>2, <2>3, <2>4, SentKeeps
  <1>3. CASE ~(c \in connMap /\ conn[c].busy)
    BY <1>1, <1>3, NothingKeeps DEF OnWrite
  <1>4. QED
    BY <1>2, <1>3

LEMMA HandleKeeps ==
    ASSUME Inv, NEW ev, Now(ev), cur.conn \in connMap,
           NEW m \in Conns, NEW s \in Socks, m.fd = conn[cur.conn].fd,
           Handle(cur.conn, m, s)
    PROVE  Inv'
  <1> DEFINE d == [m EXCEPT !.done = m.done + 1]
  <1>1. CASE Close(cur.conn)
    BY <1>1, CloseKeeps
  <1>2. CASE Send(cur.conn, d, s)
    <2>1. d \in Conns /\ d.fd = m.fd
      BY DEF Conns
    <2>2. CASE d.busy
      <3>1. /\ [d EXCEPT !.out = d.out + RespLen] \in Conns
            /\ [d EXCEPT !.out = d.out + RespLen].fd = d.fd
        <4>1. d.out + RespLen \in Nat
          <5>1. d.out \in Nat
            BY <2>1 DEF Conns
          <5>2. QED
            BY <5>1, Parameters
        <4> HIDE DEF d
        <4>2. QED
          BY <2>1, <4>1 DEF Conns
      <3>2. /\ conn' = [conn EXCEPT ![cur.conn] = [d EXCEPT !.out = d.out + RespLen]]
            /\ sock' = [sock EXCEPT ![cur.conn] = s]
            /\ UNCHANGED <<backlog, open, edge, listenEdge, starved,
                           socketMap, refs, connMap, handles>>
        BY <1>2, <2>2 DEF Send
      <3>3. QED
        BY <2>1, <3>1, <3>2, TouchKeeps
    <2>3. CASE ~d.busy
      <3>1. PICK k \in Sendable(s, RespLen) : Sent(cur.conn, d, s, RespLen, k)
        BY <1>2, <2>3 DEF Send
      <3>2. k \in Nat /\ k <= RespLen /\ RespLen \in Nat
        BY Parameters, SendableUnits
      <3>3. QED
        BY <2>1, <3>1, <3>2, SentKeeps
    <2>4. QED
      BY <2>2, <2>3
  <1>3. QED
    BY <1>1, <1>2 DEF Handle

LEMMA ReceiveKeeps ==
    ASSUME Inv, NEW ev, Now(ev), cur.conn \in connMap, Receive(cur.conn)
    PROVE  Inv'
  <1> DEFINE c == cur.conn
  <1> DEFINE m == [conn[c] EXCEPT !.in = conn[c].in + Taken(sock[c]), !.idle = FALSE]
  <1> DEFINE s == [sock[c] EXCEPT !.in = sock[c].in - Taken(sock[c])]
  <1>1. conn[c] \in Conns /\ sock[c] \in Socks
    BY TypeParts DEF Inv
  <1>2. s \in Socks
    BY <1>1, Parameters DEF Socks, Taken
  <1>3. m.fd = conn[c].fd
    BY <1>1 DEF Conns
  <1>4. ~TooMuch(m) => m \in Conns
    <2>1. SUFFICES ASSUME ~TooMuch(m) PROVE m \in Conns
      OBVIOUS
    <2>2. conn[c].in + sock[c].in \in Nat
      BY <1>1, Parameters DEF Conns, Socks
    <2>3. m.in = conn[c].in + sock[c].in
      BY <1>1 DEF Conns, Taken
    <2>4. conn[c].in + Taken(sock[c]) \in 0..InLimit
      BY <2>1, <2>2, <2>3, Parameters DEF TooMuch, Taken
    <2>5. QED
      BY <1>1, <2>4 DEF Conns
  <1>5. CASE TooMuch(m) /\ Close(c)
    BY <1>5, CloseKeeps
  <1>6. CASE /\ ~TooMuch(m) /\ ~IsReadAll(m)
             /\ conn' = [conn EXCEPT ![c] = m] /\ sock' = [sock EXCEPT ![c] = s]
             /\ UNCHANGED <<backlog, open, edge, listenEdge, starved,
                            socketMap, refs, connMap, handles>>
    BY <1>2, <1>3, <1>4, <1>6, TouchKeeps
  <1>7. CASE ~TooMuch(m) /\ IsReadAll(m) /\ Handle(c, m, s)
    BY <1>2, <1>3, <1>4, <1>7, HandleKeeps
  <1>8. QED
    BY <1>5, <1>6, <1>7 DEF Receive

LEMMA OnReadKeeps == ASSUME Inv, OnRead PROVE Inv'
  <1>1. Now("in")
    BY DEF OnRead
  <1>2. CASE Hangup(cur.conn)
    BY <1>1, <1>2, HangupKeeps
  <1>3. CASE cur.conn \in connMap /\ Receive(cur.conn)
    BY <1>1, <1>3, ReceiveKeeps
  <1>4. CASE UNCHANGED <<kernel, maps>>
    BY <1>1, <1>4, NothingKeeps
  <1>5. QED
    BY <1>2, <1>3, <1>4 DEF OnRead

-----------------------------------------------------------------------------
(* The loop.                                                                 *)

LEMMA EpollWaitKeeps == ASSUME Inv, EpollWait PROVE Inv'
  <1> DEFINE found == {e \in {Event(f) : f \in edge} : e.ev # {}}
  <1>1. /\ loop = "wait" /\ loop' = "dispatch" /\ edge' = {} /\ listenEdge' = FALSE
        /\ batch' = found \cup (IF listenEdge /\ backlog > 0 THEN {ListenEvent} ELSE {})
        /\ UNCHANGED <<backlog, open, sock, starved, cur>>
        /\ UNCHANGED <<socketMap, refs, connMap, conn, handles>>
    BY DEF EpollWait, maps
  <1>2. cur = Nobody /\ cur.conn = NULL
    BY <1>1 DEF Inv, Walk, Nobody
  <1>3. \A f \in edge : f \in Fd /\ open[f] \in Conn /\ open[f] # NULL
    BY TypeParts DEF Inv, Links
  <1>4. ASSUME NEW e \in found
        PROVE  \E f \in edge : /\ e.fd = f /\ e.conn = open[f]
                               /\ e = Event(f) /\ e.ev \in SUBSET Events
    <2>1. PICK f \in edge : e = Event(f)
      OBVIOUS
    <2>2. Mask(sock[open[f]]) \subseteq Events
      BY DEF Mask, Events
    <2>3. QED
      BY <2>1, <2>2 DEF Event
  <1>5. ListenEvent.fd = NULL /\ ListenEvent.conn = NULL /\ ListenEvent.ev \in SUBSET Events
    BY DEF ListenEvent, Events
  <1>6. batch' \subseteq [fd : Fd \cup {NULL}, conn : Conn \cup {NULL}, ev : SUBSET Events]
    <2>1. ASSUME NEW e \in found
          PROVE  e \in [fd : Fd \cup {NULL}, conn : Conn \cup {NULL}, ev : SUBSET Events]
      BY <1>3, <1>4 DEF Event
    <2>2. ListenEvent \in [fd : Fd \cup {NULL}, conn : Conn \cup {NULL}, ev : SUBSET Events]
      BY DEF ListenEvent, Events
    <2>3. QED
      BY <1>1, <2>1, <2>2
  <1>7. TypeOK'
    <2>1. listenEdge' \in BOOLEAN
      BY <1>1
    <2>2. QED
      BY <1>1, <1>6, <2>1 DEF Inv, TypeOK
  <1>8. Links'
    BY <1>1 DEF Inv, Links
  <1>9. Given' /\ Walk'
    BY <1>1, <1>2 DEF Inv, Given, Walk
  <1>10. Pending'
    <2>1. ASSUME NEW e \in batch', e # ListenEvent
          PROVE  /\ e.fd \in Fd /\ e.conn = open[e.fd]
                 /\ e.conn # NULL /\ e.conn # cur.conn
      BY <1>1, <1>2, <1>3, <1>4, <2>1
    <2>2. ASSUME NEW d \in batch', NEW e \in batch', d.fd = e.fd PROVE d = e
      BY <1>1, <1>3, <1>4, <1>5, <2>2, Parameters
    <2>3. QED
      BY <1>1, <2>1, <2>2 DEF Pending, ListenEvent
  <1>11. RefsExact'
    BY <1>1 DEF Inv, RefsExact, InMap
  <1>12. QED
    BY <1>7, <1>8, <1>9, <1>10, <1>11 DEF Inv

\* The loop goes on without taking an event of a connection in hand.
LEMMA LoopGoesOn ==
    ASSUME Inv, UNCHANGED kernel \/ starved' \in BOOLEAN,
           UNCHANGED <<backlog, open, sock, edge, listenEdge>>,
           starved' \in BOOLEAN, UNCHANGED <<maps, cur>>, cur = Nobody,
           batch' \subseteq batch, loop' \in {"dispatch", "accept"}
    PROVE  Inv'
  <1>1. UNCHANGED <<socketMap, refs, connMap, conn, handles>>
    BY DEF maps
  <1>2. TypeOK'
    BY <1>1 DEF Inv, TypeOK
  <1>3. Links' /\ Given' /\ Walk'
    BY <1>1 DEF Inv, Links, Given, Walk
  <1>4. Pending' /\ RefsExact'
    BY <1>1 DEF Inv, Pending, RefsExact, InMap, ListenEvent
  <1>5. QED
    BY <1>2, <1>3, <1>4 DEF Inv

LEMMA NextEventKeeps == ASSUME Inv, NEW e \in batch, NextEvent(e) PROVE Inv'
  <1> DEFINE c == socketMap[e.fd]
  <1>1. /\ loop = "dispatch" /\ cur = Nobody /\ cur.conn = NULL /\ batch' = batch \ {e}
        /\ UNCHANGED kernel /\ UNCHANGED <<socketMap, connMap, conn, handles>>
    BY DEF NextEvent, Nobody
  <1>2. UNCHANGED <<backlog, open, sock, edge, listenEdge, starved>>
    BY <1>1 DEF kernel
  <1>3. CASE e = ListenEvent
    <2>1. loop' = "accept" /\ UNCHANGED <<refs, cur>>
      BY <1>3 DEF NextEvent
    <2>2. starved' \in BOOLEAN
      BY <1>2 DEF Inv, TypeOK
    <2>3. QED
      BY <1>1, <1>2, <2>1, <2>2, LoopGoesOn DEF maps
  <1>4. CASE e # ListenEvent
    <2>1. /\ e.fd \in Fd /\ e.conn = open[e.fd] /\ e.conn # NULL /\ c = e.conn
      BY <1>4 DEF Inv, Pending, Links
    <2>2. /\ loop' = loop /\ refs' = [refs EXCEPT ![c] = refs[c] + 1]
          /\ cur' = [conn |-> c, ev |-> e.ev]
      BY <1>4, <2>1 DEF NextEvent, FindBaseSocket
    <2>3. c \in Conn /\ c \in connMap /\ c <= handles /\ conn[c].fd = e.fd
      BY <2>1, TypeParts DEF Inv, Links
    <2>4. e.ev \in SUBSET Events
      BY DEF Inv, TypeOK
    <2>5. TypeOK'
      <3>1. refs' \in [Conn -> Nat]
        BY <2>2, <2>3, TypeParts DEF Inv
      <3>2. cur' \in [conn : Conn \cup {NULL}, ev : SUBSET Events]
        BY <2>2, <2>3, <2>4
      <3>3. QED
        BY <1>1, <1>2, <2>2, <3>1, <3>2 DEF Inv, TypeOK
    <2>6. Links'
      BY <1>1, <1>2 DEF Inv, Links
    <2>7. Given' /\ Walk'
      BY <1>1, <1>2, <2>2, <2>3, Parameters DEF Inv, Given, Walk
    <2>8. Pending'
      <3>1. ASSUME NEW d \in batch', d # ListenEvent PROVE d.conn # c
        <4>1. d \in batch /\ d # e
          BY <1>1
        <4>2. d.fd \in Fd /\ d.conn = open[d.fd] /\ d.conn # NULL
          BY <3>1, <4>1 DEF Inv, Pending
        <4>3. conn[d.conn].fd = d.fd
          BY <4>2 DEF Inv, Links
        <4>4. d.fd # e.fd
          BY <4>1 DEF Inv, Pending
        <4>5. QED
          BY <2>3, <4>3, <4>4
      <3>2. QED
        BY <1>1, <1>2, <2>2, <3>1 DEF Inv, Pending, ListenEvent
    <2>9. RefsExact'
      <3>1. ASSUME NEW d \in Conn
            PROVE  refs'[d] = (IF InMap(d) THEN 1 ELSE 0)
                                + (IF c = d THEN 1 ELSE 0)
        <4>1. refs[d] = (IF InMap(d) THEN 1 ELSE 0) + 0
          BY <1>1, Parameters DEF Inv, RefsExact
        <4>2. QED
          BY <2>2, <2>3, <4>1, TypeParts DEF Inv
      <3>2. QED
        BY <1>1, <2>2, <3>1 DEF RefsExact, InMap
    <2>10. QED
      BY <2>5, <2>6, <2>7, <2>8, <2>9 DEF Inv
  <1>5. QED
    BY <1>3, <1>4

LEMMA EventDoneKeeps == ASSUME Inv, EventDone PROVE Inv'
  <1> DEFINE c == cur.conn
  <1>1. /\ loop = "dispatch" /\ cur # Nobody /\ cur' = Nobody
        /\ refs' = [refs EXCEPT ![c] = refs[c] - 1]
        /\ UNCHANGED <<backlog, open, sock, edge, listenEdge, starved>>
        /\ UNCHANGED <<socketMap, connMap, conn, handles, loop, batch>>
    BY DEF EventDone, kernel
  <1>2. c # NULL /\ c \in Conn /\ cur'.conn = NULL
    BY <1>1 DEF Inv, Walk, Given, Nobody
  <1>3. refs[c] = (IF InMap(c) THEN 1 ELSE 0) + 1
    BY <1>2 DEF Inv, RefsExact
  <1>4. TypeOK'
    <2>1. refs' \in [Conn -> Nat]
      BY <1>1, <1>2, <1>3, TypeParts DEF Inv
    <2>2. cur' \in [conn : Conn \cup {NULL}, ev : SUBSET Events]
      BY <1>1 DEF Nobody
    <2>3. QED
      BY <1>1, <2>1, <2>2 DEF Inv, TypeOK
  <1>5. Links'
    BY <1>1 DEF Inv, Links
  <1>6. Given' /\ Walk'
    BY <1>1, <1>2 DEF Inv, Given, Walk
  <1>7. Pending'
    BY <1>1, <1>2 DEF Inv, Pending
  <1>8. RefsExact'
    <2>1. ASSUME NEW d \in Conn
          PROVE  refs'[d] = (IF InMap(d) THEN 1 ELSE 0) + 0
      <3>1. refs[d] = (IF InMap(d) THEN 1 ELSE 0) + (IF c = d THEN 1 ELSE 0)
        BY DEF Inv, RefsExact
      <3>2. QED
        BY <1>1, <1>2, <3>1, TypeParts DEF Inv
    <2>2. QED
      BY <1>1, <1>2, <2>1, Parameters DEF RefsExact, InMap
  <1>9. QED
    BY <1>4, <1>5, <1>6, <1>7, <1>8 DEF Inv

LEMMA CheckTimerKeeps == ASSUME Inv, CheckTimer PROVE Inv'
  <1> DEFINE S == {c \in connMap : TimedOut(c)}
  <1>1. /\ loop' = "wait" /\ cur = Nobody /\ batch = {} /\ UNCHANGED <<batch, cur>>
        /\ CloseAll(S, refs)
    BY DEF CheckTimer
  <1>2. S \in SUBSET connMap
    OBVIOUS
  <1>3. cur' \in [conn : Conn \cup {NULL}, ev : SUBSET Events]
    BY <1>1 DEF Inv, TypeOK
  <1>4. QED
    BY <1>1, <1>2, <1>3, CloseAllKeeps

LEMMA AcceptKeeps == ASSUME Inv, Accept PROVE Inv'
  <1> DEFINE c == handles + 1
  <1>1. PICK f \in FreeFds :
            /\ open' = [open EXCEPT ![f] = c] /\ edge' = edge \cup {f}
            /\ socketMap' = [socketMap EXCEPT
                               ![f] = IF socketMap[f] = NULL THEN c ELSE socketMap[f]]
            /\ refs' = [refs EXCEPT ![c] = 1] /\ connMap' = connMap \cup {c}
            /\ conn' = [conn EXCEPT ![c] = NewConn(f)] /\ handles' = c
    BY DEF Accept
  <1>2. /\ loop = "accept" /\ backlog > 0 /\ backlog' = backlog - 1
        /\ starved' = FALSE /\ UNCHANGED <<sock, listenEdge, loop, batch, cur>>
    BY DEF Accept, where
  <1>3. /\ open \in [Fd -> Conn \cup {NULL}] /\ refs \in [Conn -> Nat]
        /\ socketMap = open /\ conn \in [Conn -> Conns]
        /\ backlog \in Nat /\ handles \in Nat /\ edge \subseteq Fd
        /\ connMap \subseteq Conn
    BY TypeParts DEF Inv, Links
  <1>4. cur = Nobody /\ cur.conn = NULL
    BY <1>2 DEF Inv, Walk, Nobody
  <1>5. /\ c \in Conn /\ c # NULL /\ handles' + backlog' <= MaxConns
        /\ backlog' \in 0..MaxConns /\ handles' \in 0..MaxConns
    <2>1. handles + backlog <= MaxConns
      BY DEF Inv, Given
    <2>2. c \in Conn
      BY <1>2, <1>3, <2>1, Parameters DEF Conn
    <2>3. QED
      BY <1>1, <1>2, <1>3, <2>1, <2>2, Parameters
  <1>6. f \in Fd /\ open[f] = NULL
    BY DEF FreeFds
  <1>7. /\ open'[f] = c /\ socketMap' = open'
        /\ \A g \in Fd : g # f => open'[g] = open[g]
    BY <1>1, <1>3, <1>6
  <1>8. c \notin connMap
    BY <1>3 DEF Inv, Links
  <1>9. /\ conn'[c] = NewConn(f) /\ NewConn(f) \in Conns /\ NewConn(f).fd = f
        /\ \A d \in connMap : conn'[d] = conn[d]
    <2>1. NewConn(f) \in Conns /\ NewConn(f).fd = f
      BY <1>6, FreshTyped DEF NewConn, Conns
    <2>2. QED
      BY <1>1, <1>3, <1>5, <1>8, <2>1
  <1>10. TypeOK'
    <2>1. conn' \in [Conn -> Conns] /\ refs' \in [Conn -> Nat]
      BY <1>1, <1>3, <1>9
    <2>2. /\ open' \in [Fd -> Conn \cup {NULL}]
          /\ socketMap' \in [Fd -> Conn \cup {NULL}]
      BY <1>1, <1>3, <1>5, <1>7
    <2>3. edge' \subseteq Fd /\ connMap' \subseteq Conn
      BY <1>1, <1>3, <1>5, <1>6
    <2>4. starved' \in BOOLEAN
      BY <1>2
    <2>5. QED
      BY <1>2, <1>5, <2>1, <2>2, <2>3, <2>4 DEF Inv, TypeOK, Conns
  <1>11. Links'
    <2>1. ASSUME NEW g \in Fd, open'[g] # NULL
          PROVE  open'[g] \in connMap' /\ conn'[open'[g]].fd = g
      <3>1. CASE g = f
        BY <1>1, <1>7, <1>9, <3>1
      <3>2. CASE g # f
        <4>1. open[g] \in connMap /\ conn[open[g]].fd = g /\ open'[g] = open[g]
          BY <1>7, <2>1, <3>2 DEF Inv, Links
        <4>2. QED
          BY <1>1, <1>9, <4>1
      <3>3. QED
        BY <3>1, <3>2
    <2>2. ASSUME NEW d \in connMap'
          PROVE  /\ conn'[d].fd \in Fd /\ open'[conn'[d].fd] = d
                 /\ d <= handles'
      <3>1. CASE d = c
        BY <1>1, <1>3, <1>6, <1>7, <1>9, <3>1
      <3>2. CASE d # c
        <4>1. /\ d \in connMap /\ conn[d].fd \in Fd /\ open[conn[d].fd] = d
              /\ d <= handles /\ d # NULL /\ d \in Nat
          BY <1>1, <1>3, <2>2, <3>2, Parameters DEF Inv, Links
        <4>2. conn'[d] = conn[d] /\ conn[d].fd # f
          BY <1>6, <1>9, <4>1
        <4>3. QED
          BY <1>1, <1>3, <1>7, <4>1, <4>2
      <3>3. QED
        BY <3>1, <3>2
    <2>3. \A g \in edge' : open'[g] # NULL
      BY <1>1, <1>3, <1>5, <1>7 DEF Inv, Links
    <2>4. QED
      BY <1>7, <2>1, <2>2, <2>3 DEF Links
  <1>12. Given' /\ Walk'
    BY <1>2, <1>4, <1>5 DEF Inv, Given, Walk
  <1>13. Pending'
    <2>1. ASSUME NEW e \in batch, e # ListenEvent
          PROVE  /\ e.fd \in Fd /\ e.conn = open'[e.fd]
                 /\ e.conn # NULL /\ e.conn # cur.conn
      BY <1>6, <1>7, <2>1 DEF Inv, Pending
    <2>2. QED
      BY <1>2, <2>1 DEF Inv, Pending, ListenEvent
  <1>14. RefsExact'
    <2>1. ASSUME NEW d \in Conn PROVE InMap(d)' <=> InMap(d) \/ d = c
      <3>1. \A g \in Fd : socketMap'[g] = d <=>
                            (g # f /\ socketMap[g] = d) \/ (g = f /\ d = c)
        BY <1>3, <1>7
      <3>2. d # NULL
        BY Parameters
      <3>3. QED
        BY <1>3, <1>6, <3>1, <3>2 DEF InMap
    <2>2. ~InMap(c)
      BY <1>5, <1>8, InMapIsConn
    <2>3. ASSUME NEW d \in Conn
          PROVE  refs'[d] = (IF InMap(d)' THEN 1 ELSE 0) + 0
      <3>1. refs[d] = (IF InMap(d) THEN 1 ELSE 0) + 0
        BY <1>4, Parameters DEF Inv, RefsExact
      <3>2. QED
        BY <1>1, <1>3, <1>5, <2>1, <2>2, <3>1
    <2>4. QED
      BY <1>2, <1>4, <2>3, Parameters DEF RefsExact
  <1>15. QED
    BY <1>10, <1>11, <1>12, <1>13, <1>14 DEF Inv

LEMMA AcceptEndsKeeps == ASSUME Inv, AcceptEnds PROVE Inv'
  <1>1. /\ loop = "accept" /\ loop' = "dispatch" /\ starved' \in BOOLEAN
        /\ UNCHANGED <<backlog, open, sock, edge, listenEdge, maps, batch, cur>>
    BY DEF AcceptEnds
  <1>2. cur = Nobody
    BY <1>1 DEF Inv, Walk
  <1>3. QED
    BY <1>1, <1>2, LoopGoesOn

-----------------------------------------------------------------------------
(* The theorems.                                                             *)

LEMMA InitHolds == Init => Inv
  <1> SUFFICES ASSUME Init PROVE Inv
    OBVIOUS
  <1>1. sock \in [Conn -> Socks] /\ conn \in [Conn -> Conns]
    BY FreshTyped DEF Init
  <1>2. cur \in [conn : Conn \cup {NULL}, ev : SUBSET Events]
    BY DEF Init, Nobody
  <1>3. listenEdge \in BOOLEAN /\ starved \in BOOLEAN
    BY DEF Init
  <1>4. TypeOK
    BY <1>1, <1>2, <1>3, Parameters DEF Init, TypeOK, Socks, Conns
  <1>5. Links /\ Given /\ Walk /\ Pending
    BY Parameters DEF Init, Links, Given, Walk, Pending, Nobody
  <1>6. RefsExact
    BY Parameters DEF Init, RefsExact, InMap, Nobody
  <1>7. QED
    BY <1>4, <1>5, <1>6 DEF Inv

LEMMA StepKeeps == Inv /\ [Next]_vars => Inv'
  <1> SUFFICES ASSUME Inv, [Next]_vars PROVE Inv'
    OBVIOUS
  <1>1. CASE Loop
    <2>1. CASE OnClose
      BY <2>1, HangupKeeps DEF OnClose
    <2>2. QED
      BY <1>1, <2>1, EpollWaitKeeps, NextEventKeeps, EventDoneKeeps,
         CheckTimerKeeps, AcceptKeeps, AcceptEndsKeeps, OnReadKeeps,
         OnWriteKeeps DEF Loop
  <1>2. CASE Peers
    BY <1>2, PeersKeep
  <1>3. CASE \E c \in Conn : TimePasses(c)
    BY <1>3, TimeKeeps
  <1>4. CASE UNCHANGED vars
    <2>1. /\ UNCHANGED <<backlog, open, sock, edge, listenEdge, starved>>
          /\ UNCHANGED <<socketMap, refs, connMap, conn, handles>>
          /\ UNCHANGED <<loop, batch, cur>>
      BY <1>4 DEF vars, kernel, maps, where
    <2>2. TypeOK'
      BY <2>1 DEF Inv, TypeOK
    <2>3. QED
      BY <2>1, <2>2, SameLinks DEF Inv, Links, Given
  <1>5. QED
    BY <1>1, <1>2, <1>3, <1>4 DEF Next

LEMMA InvAlways == Spec => []Inv
  BY InitHolds, StepKeeps, PTL DEF Spec

\* The maps, the members of the connections and the loop's locals keep their
\* types: no more than OnRead accepts is ever in m_in_buf, and no reference
\* count falls below 0.
THEOREM TypeCorrect == Spec => []TypeOK
  BY InvAlways, PTL DEF Inv

\* CHttpConn's map, the map of sockets and the kernel agree whichever of the
\* callbacks closes a connection, so no descriptor leaks or is closed twice.
THEOREM MapsAlwaysAgree == Spec => []MapsAgree
  <1>1. Inv => MapsAgree
    BY AcceptedIsOpen DEF Inv, Links, MapsAgree
  <1>2. QED
    BY <1>1, InvAlways, PTL

\* A CBaseSocket is deleted with its last reference, the map's or the loop's,
\* and never before or after.
THEOREM ReferencesAreExact == Spec => []RefsExact
  BY InvAlways, PTL DEF Inv

\* An event of a batch is dispatched to the connection it was reported for,
\* for any number of descriptors that are closed and reused meanwhile.
THEOREM EventsReachTheirSockets == Spec => []EventReachesItsSocket
  <1>1. Inv => EventReachesItsSocket
    BY DEF Inv, Links, Pending, EventReachesItsSocket
  <1>2. QED
    BY <1>1, InvAlways, PTL

-----------------------------------------------------------------------------
(* The answers: what was sent and what is kept make up what was handled.      *)

\* The answers of one connection.
Answers(m, s) ==
    /\ s.sent + m.out = m.done * RespLen
    /\ m.busy <=> m.out > 0
    /\ m.busy <=> m.done > 0

\* The socket of a connection that is not open is as accept() finds it.
Answered ==
    /\ \A c \in connMap : Answers(conn[c], sock[c])
    /\ \A c \in Conn \ connMap : sock[c] = NewSock

LEMMA NextMultiple ==
    ASSUME NEW n \in Nat PROVE /\ (n + 1) * RespLen = n * RespLen + RespLen
                               /\ n * RespLen \in Nat
                               /\ 1 * RespLen = RespLen /\ 0 * RespLen = 0
  BY ReactorAssumption

\* No answer is handled or sent, and nobody comes or goes.
LEMMA AnswersStay ==
    ASSUME Inv, Answered, connMap' = connMap,
           \A c \in connMap :
              /\ sock'[c].sent = sock[c].sent /\ conn'[c].out = conn[c].out
              /\ conn'[c].done = conn[c].done /\ conn'[c].busy = conn[c].busy,
           \A c \in Conn \ connMap : sock'[c] = sock[c]
    PROVE  Answered'
  BY DEF Answered, Answers

LEMMA CloseAllAnswered ==
    ASSUME Inv, Answered, NEW S \in SUBSET connMap, CloseAll(S, refs) PROVE Answered'
  <1>1. /\ connMap' = connMap \ S
        /\ conn' = [c \in Conn |-> IF c \in S THEN NoConn ELSE conn[c]]
        /\ sock' = [c \in Conn |-> IF c \in S THEN NewSock ELSE sock[c]]
    BY DEF CloseAll
  <1>2. connMap \subseteq Conn
    BY TypeParts DEF Inv
  <1>3. QED
    BY <1>1, <1>2 DEF Answered, Answers

\* The connection in hand is left with answers that add up.
LEMMA TouchAnswered ==
    ASSUME Inv, Answered, NEW c \in connMap, NEW m, NEW s, Answers(m, s),
           conn' = [conn EXCEPT ![c] = m], sock' = [sock EXCEPT ![c] = s],
           connMap' = connMap
    PROVE  Answered'
  <1>1. sock \in [Conn -> Socks] /\ conn \in [Conn -> Conns] /\ connMap \subseteq Conn
    BY TypeParts DEF Inv
  <1>2. conn'[c] = m /\ sock'[c] = s
    BY <1>1
  <1>3. \A d \in Conn : d # c => conn'[d] = conn[d] /\ sock'[d] = sock[d]
    BY <1>1
  <1>4. QED
    BY <1>1, <1>2, <1>3 DEF Answered

\* netlib_send, with n units to go before it.
LEMMA SentAnswered ==
    ASSUME Inv, Answered, NEW c \in connMap, NEW m \in Conns, NEW s \in Socks,
           NEW n \in Nat, NEW k \in Nat, k <= n,
           s.sent + n = m.done * RespLen, m.done > 0, Sent(c, m, s, n, k)
    PROVE  Answered'
  <1>1. CASE k = n
    BY <1>1, CloseAllAnswered DEF Sent, Close
  <1>2. CASE k # n
    <2> DEFINE mm == [m EXCEPT !.out = n - k, !.busy = TRUE]
    <2> DEFINE ss == [s EXCEPT !.full = ~s.rst, !.sent = s.sent + k]
    <2>1. conn' = [conn EXCEPT ![c] = mm] /\ sock' = [sock EXCEPT ![c] = ss]
          /\ connMap' = connMap
      BY <1>2 DEF Sent
    <2>2. /\ mm.out = n - k /\ mm.busy = TRUE /\ mm.done = m.done
          /\ ss.sent = s.sent + k
      BY DEF Conns, Socks
    <2>3. s.sent \in Nat /\ m.done \in Nat /\ m.done * RespLen \in Nat
      BY NextMultiple DEF Conns, Socks
    <2>4. n - k > 0 /\ s.sent + k + (n - k) = m.done * RespLen
      BY <1>2, <2>3
    <2>5. Answers(mm, ss)
      <3> HIDE DEF mm, ss
      <3>1. QED
        BY <2>2, <2>3, <2>4 DEF Answers
    <2>6. QED
      BY <2>1, <2>5, TouchAnswered
  <1>3. QED
    BY <1>1, <1>2

LEMMA HandleAnswered ==
    ASSUME Inv, Answered, NEW c \in connMap, NEW m \in Conns, NEW s \in Socks,
           Answers(m, s), Handle(c, m, s)
    PROVE  Answered'
  <1> DEFINE d == [m EXCEPT !.done = m.done + 1]
  <1>1. /\ m.done \in Nat /\ m.out \in Nat /\ s.sent \in Nat /\ m.busy \in BOOLEAN
        /\ RespLen \in Nat \ {0}
    BY ReactorAssumption DEF Conns, Socks
  <1>2. /\ d \in Conns /\ d.done = m.done + 1 /\ d.out = m.out /\ d.busy = m.busy
    BY <1>1 DEF Conns
  <1>3. /\ (m.done + 1) * RespLen = m.done * RespLen + RespLen
        /\ m.done * RespLen \in Nat /\ 1 * RespLen = RespLen /\ 0 * RespLen = 0
    BY <1>1, NextMultiple
  <1>4. CASE Close(c)
    BY <1>4, CloseAllAnswered DEF Close
  <1>5. CASE Send(c, d, s)
    <2>1. CASE m.busy
      <3> DEFINE e == [d EXCEPT !.out = d.out + RespLen]
      <3>1. /\ conn' = [conn EXCEPT ![c] = e] /\ sock' = [sock EXCEPT ![c] = s]
            /\ connMap' = connMap
        BY <1>2, <1>5, <2>1 DEF Send
      <3>2. e.out = m.out + RespLen /\ e.busy = m.busy /\ e.done = m.done + 1
        <4> HIDE DEF d
        <4>1. QED
          BY <1>2 DEF Conns
      <3>3. Answers(e, s)
        <4> HIDE DEF d, e
        <4>1. QED
          BY <1>1, <1>3, <2>1, <3>2 DEF Answers
      <3>4. QED
        BY <3>1, <3>3, TouchAnswered
    <2>2. CASE ~m.busy
      <3>1. PICK k \in Sendable(s, RespLen) : Sent(c, d, s, RespLen, k)
        BY <1>2, <1>5, <2>2 DEF Send
      <3>2. k \in Nat /\ k <= RespLen /\ RespLen \in Nat
        BY <1>1, SendableUnits
      <3>3. m.done = 0 /\ m.out = 0 /\ s.sent = 0
        <4>1. s.sent + m.out = m.done * RespLen /\ ~(m.done > 0) /\ ~(m.out > 0)
          BY <2>2 DEF Answers
        <4>2. m.done = 0 /\ m.out = 0
          BY <1>1, <4>1
        <4>3. QED
          BY <1>1, <1>3, <4>1, <4>2
      <3>4. s.sent + RespLen = d.done * RespLen /\ d.done > 0
        <4> HIDE DEF d
        <4>1. d.done = 1
          BY <1>2, <3>3
        <4>2. QED
          BY <1>1, <1>3, <3>3, <4>1
      <3>5. QED
        BY <1>2, <3>1, <3>2, <3>4, SentAnswered
    <2>3. QED
      BY <2>1, <2>2
  <1>6. QED
    BY <1>4, <1>5 DEF Handle

\* A peer changes what is to be read, or whether send() would block.
LEMMA ChangesAnswered ==
    ASSUME Inv, Answered, NEW c \in Accepted, NEW s, s.sent = sock[c].sent,
           Changes(c, s)
    PROVE  Answered'
  <1>1. sock' = [sock EXCEPT ![c] = s] /\ UNCHANGED <<connMap, conn>>
    BY DEF Changes, maps
  <1>2. sock \in [Conn -> Socks] /\ c \in connMap
    BY AcceptedIsOpen, TypeParts DEF Inv
  <1>3. QED
    BY <1>1, <1>2, AnswersStay

LEMMA PeersAnswered == ASSUME Inv, Answered, Peers PROVE Answered'
  <1>1. CASE PeerConnects
    BY <1>1, AnswersStay DEF PeerConnects, maps
  <1>2. ASSUME NEW c \in Conn,
               PeerSends(c) \/ PeerCloses(c) \/ PeerResets(c) \/ PeerReads(c)
        PROVE  Answered'
    <2>1. c \in Accepted /\ sock[c] \in Socks
      BY <1>2, TypeParts DEF Inv, PeerSends, PeerCloses, PeerResets, PeerReads
    <2>2. PICK s : /\ Changes(c, s)
                   /\ \/ s = [sock[c] EXCEPT !.in = sock[c].in + 1]
                      \/ s = [sock[c] EXCEPT !.fin = TRUE]
                      \/ s = [sock[c] EXCEPT !.rst = TRUE]
                      \/ s = [sock[c] EXCEPT !.full = FALSE]
      BY <1>2 DEF PeerSends, PeerCloses, PeerResets, PeerReads
    <2>3. s.sent = sock[c].sent
      BY <2>1, <2>2 DEF Socks
    <2>4. QED
      BY <2>1, <2>2, <2>3, ChangesAnswered
  <1>3. QED
    BY <1>1, <1>2 DEF Peers

LEMMA HangupAnswered ==
    ASSUME Inv, Answered, NEW c \in Conn, Hangup(c) PROVE Answered'
  <1>1. CASE c \in connMap
    BY <1>1, CloseAllAnswered DEF Hangup, Close
  <1>2. CASE c \notin connMap
    BY <1>2, AnswersStay DEF Hangup, kernel, maps
  <1>3. QED
    BY <1>1, <1>2

LEMMA ReceiveAnswered ==
    ASSUME Inv, Answered, NEW c \in connMap, Receive(c) PROVE Answered'
  <1> DEFINE m == [conn[c] EXCEPT !.in = conn[c].in + Taken(sock[c]), !.idle = FALSE]
  <1> DEFINE s == [sock[c] EXCEPT !.in = sock[c].in - Taken(sock[c])]
  <1>1. conn[c] \in Conns /\ sock[c] \in Socks
    BY TypeParts DEF Inv
  <1>2. /\ m.out = conn[c].out /\ m.busy = conn[c].busy /\ m.done = conn[c].done
        /\ s.sent = sock[c].sent
    BY <1>1 DEF Conns, Socks
  <1>3. Answers(m, s)
    <2> HIDE DEF m, s
    <2>1. QED
      BY <1>2 DEF Answered, Answers
  <1>4. s \in Socks
    BY <1>1, Parameters DEF Socks, Taken
  <1>5. CASE TooMuch(m) /\ Close(c)
    BY <1>5, CloseAllAnswered DEF Close
  <1>6. CASE /\ conn' = [conn EXCEPT ![c] = m] /\ sock' = [sock EXCEPT ![c] = s]
             /\ UNCHANGED connMap
    BY <1>3, <1>6, TouchAnswered
  <1>7. CASE ~TooMuch(m) /\ IsReadAll(m) /\ Handle(c, m, s)
    <2>1. m \in Conns
      <3>1. conn[c].in + Taken(sock[c]) \in 0..InLimit
        BY <1>1, <1>7, Parameters DEF Conns, Socks, TooMuch, Taken
      <3>2. QED
        BY <1>1, <3>1 DEF Conns
    <2>2. QED
      BY <1>3, <1>4, <1>7, <2>1, HandleAnswered
  <1>8. QED
    BY <1>5, <1>6, <1>7 DEF Receive

LEMMA OnReadAnswered == ASSUME Inv, Answered, OnRead PROVE Answered'
  <1>1. cur.conn \in Conn
    BY NowStays DEF OnRead
  <1>2. CASE Hangup(cur.conn)
    BY <1>1, <1>2, HangupAnswered
  <1>3. CASE cur.conn \in connMap /\ Receive(cur.conn)
    BY <1>3, ReceiveAnswered
  <1>4. CASE UNCHANGED <<kernel, maps>>
    BY <1>4, AnswersStay DEF kernel, maps
  <1>5. QED
    BY <1>2, <1>3, <1>4 DEF OnRead

LEMMA OnWriteAnswered == ASSUME Inv, Answered, OnWrite PROVE Answered'
  <1> DEFINE c == cur.conn
  <1>1. CASE c \in connMap /\ conn[c].busy
    <2>1. conn[c] \in Conns /\ sock[c] \in Socks
      BY <1>1, TypeParts DEF Inv
    <2>2. conn[c].out \in Nat
      BY <2>1 DEF Conns
    <2>3. PICK k \in Sendable(sock[c], conn[c].out) :
               Sent(c, conn[c], sock[c], conn[c].out, k)
      BY <1>1 DEF OnWrite
    <2>4. k \in Nat /\ k <= conn[c].out
      BY <2>2, SendableUnits
    <2>5. sock[c].sent + conn[c].out = conn[c].done * RespLen /\ conn[c].done > 0
      BY <1>1 DEF Answered, Answers
    <2>6. QED
      BY <1>1, <2>1, <2>2, <2>3, <2>4, <2>5, SentAnswered
  <1>2. CASE ~(c \in connMap /\ conn[c].busy)
    BY <1>2, AnswersStay DEF OnWrite, kernel, maps
  <1>3. QED
    BY <1>1, <1>2

LEMMA AcceptAnswered == ASSUME Inv, Answered, Accept PROVE Answered'
  <1> DEFINE c == handles + 1
  <1>1. PICK f \in FreeFds :
            connMap' = connMap \cup {c} /\ conn' = [conn EXCEPT ![c] = NewConn(f)]
    BY DEF Accept
  <1>2. sock' = sock /\ backlog > 0
    BY DEF Accept
  <1>3. /\ conn \in [Conn -> Conns] /\ backlog \in Nat /\ handles \in Nat
        /\ connMap \subseteq Conn
    BY TypeParts DEF Inv
  <1>4. c \in Conn /\ c \notin connMap
    <2>1. handles + backlog <= MaxConns /\ \A d \in connMap : d <= handles
      BY DEF Inv, Given, Links
    <2>2. QED
      BY <1>2, <1>3, <2>1, Parameters DEF Conn
  <1>5. Answers(conn'[c], sock'[c])
    <2>1. conn'[c] = NewConn(f) /\ sock'[c] = NewSock
      BY <1>1, <1>2, <1>3, <1>4 DEF Answered
    <2>2. QED
      BY <2>1, NextMultiple DEF Answers, NewConn, NoConn, NewSock
  <1>6. \A d \in connMap : conn'[d] = conn[d] /\ sock'[d] = sock[d]
    BY <1>1, <1>2, <1>3, <1>4
  <1>7. \A d \in connMap : Answers(conn'[d], sock'[d])
    BY <1>6 DEF Answered
  <1>8. QED
    BY <1>1, <1>2, <1>5, <1>7 DEF Answered

LEMMA AnsweredInit == Init => Answered
  BY DEF Init, Answered

LEMMA AnsweredStep == Inv /\ Answered /\ [Next]_vars => Answered'
  <1> SUFFICES ASSUME Inv, Answered, [Next]_vars PROVE Answered'
    OBVIOUS
  <1>1. CASE EpollWait \/ (\E e \in batch : NextEvent(e)) \/ EventDone \/ AcceptEnds
    <2>1. UNCHANGED <<sock, connMap, conn>>
      BY <1>1 DEF EpollWait, NextEvent, EventDone, AcceptEnds, kernel, maps
    <2>2. QED
      BY <2>1, AnswersStay
  <1>2. CASE CheckTimer
    BY <1>2, CloseAllAnswered DEF CheckTimer
  <1>3. CASE OnClose
    <2>1. cur.conn \in Conn
      BY <1>3, NowStays DEF OnClose
    <2>2. QED
      BY <1>3, <2>1, HangupAnswered DEF OnClose
  <1>4. CASE \E c \in Conn : TimePasses(c)
    <2>1. PICK c \in Conn : TimePasses(c)
      BY <1>4
    <2>2. /\ conn' = [conn EXCEPT ![c] = [conn[c] EXCEPT !.idle = TRUE]]
          /\ UNCHANGED <<sock, connMap>>
      BY <2>1 DEF TimePasses, kernel
    <2>3. /\ [conn[c] EXCEPT !.idle = TRUE].out = conn[c].out
          /\ [conn[c] EXCEPT !.idle = TRUE].done = conn[c].done
          /\ [conn[c] EXCEPT !.idle = TRUE].busy = conn[c].busy
      BY TypeParts DEF Inv, Conns
    <2>4. conn \in [Conn -> Conns] /\ connMap \subseteq Conn
      BY TypeParts DEF Inv
    <2>5. QED
      BY <2>2, <2>3, <2>4, AnswersStay
  <1>5. CASE UNCHANGED vars
    BY <1>5, AnswersStay DEF vars, kernel, maps
  <1>6. QED
    BY <1>1, <1>2, <1>3, <1>4, <1>5, PeersAnswered, OnReadAnswered,
       OnWriteAnswered, AcceptAnswered DEF Next, Loop

\* While a connection is open, what send() took and what m_out_buf holds make
\* up what its handlers answered, and m_busy says that there is a rest, for
\* every length of an answer and however send() cuts it.
THEOREM AnswersAddUp == Spec => []AnswerPending
  <1>1. Answered => AnswerPending
    BY DEF Answered, Answers, AnswerPending
  <1>2. QED
    BY <1>1, InitHolds, StepKeeps, AnsweredInit, AnsweredStep, PTL DEF Spec

-----------------------------------------------------------------------------
(* The edges: what is to be done was reported, or is on the ready list.       *)

\* The events of c that were reported and are still to be looked at.
Outstanding(c) ==
    {ev \in Events : \/ cur.conn = c /\ ev \in cur.ev
                     \/ \E e \in batch : e.conn = c /\ ev \in e.ev}

\* The events P see to what the socket s of a connection m needs.
SeenTo(P, m, s) ==
    /\ s.in > 0 => "in" \in P
    /\ s.rst => "hup" \in P
    /\ m.busy /\ ~s.full /\ ~s.rst => "out" \in P

Noticed(c) == conn[c].fd \in edge \/ SeenTo(Outstanding(c), conn[c], sock[c])

ListenerNoticed ==
    backlog > 0 => listenEdge \/ starved \/ ListenEvent \in batch \/ loop = "accept"

Waking == ListenerNoticed /\ \A c \in connMap : Noticed(c)

LEMMA FdOfConn == ASSUME Inv, NEW c \in connMap PROVE FdOf(c) = conn[c].fd
  <1>1. c \in Accepted /\ c # NULL
    BY AcceptedIsOpen, TypeParts, Parameters DEF Inv
  <1>2. QED
    BY <1>1, FdOfAccepted DEF Inv, Links

\* More events see to as much.
LEMMA MoreSeenTo ==
    ASSUME NEW P, NEW Q, P \subseteq Q, NEW m, NEW s, SeenTo(P, m, s)
    PROVE  SeenTo(Q, m, s)
  BY DEF SeenTo

\* A step that leaves a connection and its events alone.
LEMMA NoticedStays ==
    ASSUME NEW c \in Conn, Noticed(c), conn'[c] = conn[c], sock'[c] = sock[c],
           conn[c].fd \in edge => conn[c].fd \in edge',
           Outstanding(c) \subseteq Outstanding(c)'
    PROVE  Noticed(c)'
  BY MoreSeenTo DEF Noticed

\* Of the connection in hand, the batch has no further event.
LEMMA OutstandingInHand ==
    ASSUME Inv, cur # Nobody PROVE Outstanding(cur.conn) = cur.ev
  <1>1. cur.conn # NULL /\ cur.ev \subseteq Events
    BY DEF Inv, Walk, TypeOK
  <1>2. \A e \in batch : e.conn # cur.conn
    BY <1>1 DEF Inv, Pending, ListenEvent
  <1>3. QED
    BY <1>1, <1>2 DEF Outstanding

\* Of all others the events stay as they are.
LEMMA OutstandingOfOthers ==
    ASSUME NEW c \in Conn, c # cur.conn, cur'.conn = cur.conn, batch' = batch
    PROVE  Outstanding(c)' = Outstanding(c)
  BY DEF Outstanding

LEMMA CloseAllNoticed ==
    ASSUME Inv, Waking, NEW S \in SUBSET connMap, CloseAll(S, refs),
           NEW c \in connMap, c \notin S, Outstanding(c) \subseteq Outstanding(c)'
    PROVE  Noticed(c)'
  <1> DEFINE fds == {f \in {conn[d].fd : d \in S} : socketMap[f] # NULL}
  <1>1. /\ conn' = [d \in Conn |-> IF d \in S THEN NoConn ELSE conn[d]]
        /\ sock' = [d \in Conn |-> IF d \in S THEN NewSock ELSE sock[d]]
        /\ edge' = edge \ fds
    BY DEF CloseAll
  <1>2. c \in Conn
    BY TypeParts DEF Inv
  <1>3. conn[c].fd \notin fds
    BY DEF Inv, Links
  <1>4. QED
    BY <1>1, <1>2, <1>3, NoticedStays DEF Waking

\* Every callback of the connection in hand leaves the others and the listening
\* socket noticed.
LEMMA CallbackWaking ==
    ASSUME Inv, Waking, NEW ev, Now(ev), connMap' \subseteq connMap,
           UNCHANGED <<backlog, listenEdge, starved>>,
           \A c \in connMap : c # cur.conn =>
              /\ conn'[c] = conn[c] /\ sock'[c] = sock[c]
              /\ conn[c].fd \in edge => conn[c].fd \in edge',
           cur.conn \in connMap' =>
              \/ conn'[cur.conn].fd \in edge'
              \/ SeenTo(cur'.ev, conn'[cur.conn], sock'[cur.conn])
    PROVE  Waking'
  <1>1. /\ HandStays /\ cur'.conn = cur.conn /\ cur.conn \in Conn /\ cur # Nobody
        /\ cur' \in [conn : Conn \cup {NULL}, ev : SUBSET Events]
    BY NowStays
  <1>2. connMap \subseteq Conn
    BY TypeParts DEF Inv
  <1>3. ListenerNoticed'
    BY <1>1 DEF Waking, ListenerNoticed, HandStays, ListenEvent
  <1>4. ASSUME NEW c \in connMap, c # cur.conn PROVE Noticed(c)'
    <2>1. Outstanding(c)' = Outstanding(c)
      BY <1>1, <1>2, <1>4, OutstandingOfOthers DEF HandStays
    <2>2. QED
      BY <1>2, <1>4, <2>1, NoticedStays DEF Waking
  <1>5. ASSUME NEW c \in connMap', c = cur.conn PROVE Noticed(c)'
    <2>1. cur'.ev \subseteq Outstanding(c)'
      BY <1>1, <1>5 DEF Outstanding
    <2>2. QED
      BY <1>5, <2>1, MoreSeenTo DEF Noticed
  <1>6. QED
    BY <1>3, <1>4, <1>5 DEF Waking

\* A callback closes the connection in hand.
LEMMA CloseWaking ==
    ASSUME Inv, Waking, NEW ev, Now(ev), cur.conn \in connMap, Close(cur.conn)
    PROVE  Waking'
  <1> DEFINE fds == {f \in {conn[d].fd : d \in {cur.conn}} : socketMap[f] # NULL}
  <1>1. /\ connMap' = connMap \ {cur.conn}
        /\ UNCHANGED <<backlog, listenEdge, starved>>
        /\ conn' = [d \in Conn |-> IF d \in {cur.conn} THEN NoConn ELSE conn[d]]
        /\ sock' = [d \in Conn |-> IF d \in {cur.conn} THEN NewSock ELSE sock[d]]
        /\ edge' = edge \ fds
    BY DEF Close, CloseAll
  <1>2. connMap \subseteq Conn
    BY TypeParts DEF Inv
  <1>3. ASSUME NEW c \in connMap, c # cur.conn
        PROVE  /\ conn'[c] = conn[c] /\ sock'[c] = sock[c]
               /\ conn[c].fd \in edge => conn[c].fd \in edge'
    <2>1. conn[c].fd \notin fds
      BY <1>3 DEF Inv, Links
    <2>2. QED
      BY <1>1, <1>2, <1>3, <2>1
  <1>4. QED
    BY <1>1, <1>3, CallbackWaking

\* A callback that only changes the members of the connection in hand and its
\* socket, so that the events that are left see to what it needs.
LEMMA TouchWaking ==
    ASSUME Inv, Waking, NEW ev, Now(ev), NEW m, NEW s,
           m.fd = conn[cur.conn].fd,
           conn' = [conn EXCEPT ![cur.conn] = m],
           sock' = [sock EXCEPT ![cur.conn] = s],
           UNCHANGED <<backlog, edge, listenEdge, starved, connMap>>,
           SeenTo(cur.ev, conn[cur.conn], sock[cur.conn]) => SeenTo(cur.ev \ {ev}, m, s)
    PROVE  Waking'
  <1>1. /\ HandStays /\ cur'.conn = cur.conn /\ cur.conn \in Conn /\ cur # Nobody
    BY NowStays
  <1>2. sock \in [Conn -> Socks] /\ conn \in [Conn -> Conns] /\ connMap \subseteq Conn
    BY TypeParts DEF Inv
  <1>3. cur'.ev = cur.ev \ {ev}
    <2>1. cur \in [conn : Conn \cup {NULL}, ev : SUBSET Events]
      BY DEF Inv, TypeOK
    <2>2. QED
      BY <2>1 DEF Now
  <1>4. conn'[cur.conn] = m /\ sock'[cur.conn] = s
    BY <1>1, <1>2
  <1>5. cur.conn \in connMap =>
           conn[cur.conn].fd \in edge \/ SeenTo(cur.ev, conn[cur.conn], sock[cur.conn])
    BY <1>1, OutstandingInHand DEF Waking, Noticed
  <1>6. \A c \in connMap : c # cur.conn => conn'[c] = conn[c] /\ sock'[c] = sock[c]
    BY <1>1, <1>2
  <1>7. QED
    BY <1>3, <1>4, <1>5, <1>6, CallbackWaking

LEMMA NothingWaking ==
    ASSUME Inv, Waking, NEW ev, Now(ev), UNCHANGED <<kernel, maps>>,
           cur.conn \in connMap =>
              \/ conn[cur.conn].fd \in edge
              \/ SeenTo(cur.ev \ {ev}, conn[cur.conn], sock[cur.conn])
    PROVE  Waking'
  <1>1. cur'.ev = cur.ev \ {ev}
    <2>1. cur \in [conn : Conn \cup {NULL}, ev : SUBSET Events]
      BY DEF Inv, TypeOK
    <2>2. QED
      BY <2>1 DEF Now
  <1>2. QED
    BY <1>1, CallbackWaking DEF kernel, maps

LEMMA HangupWaking ==
    ASSUME Inv, Waking, NEW ev, Now(ev), Hangup(cur.conn) PROVE Waking'
  <1>1. CASE cur.conn \in connMap
    BY <1>1, CloseWaking DEF Hangup
  <1>2. CASE cur.conn \notin connMap
    BY <1>2, NothingWaking DEF Hangup
  <1>3. QED
    BY <1>1, <1>2

\* netlib_send: if it is cut short, send() would block.
LEMMA SentWaking ==
    ASSUME Inv, Waking, NEW ev \in {"in", "out"}, Now(ev), cur.conn \in connMap,
           NEW m \in Conns, NEW s \in Socks, m.fd = conn[cur.conn].fd,
           s.in > 0 => ev = "out" /\ sock[cur.conn].in > 0,
           s.rst = sock[cur.conn].rst,
           NEW n, NEW k, Sent(cur.conn, m, s, n, k)
    PROVE  Waking'
  <1>1. CASE k = n
    BY <1>1, CloseWaking DEF Sent
  <1>2. CASE k # n
    <2> DEFINE mm == [m EXCEPT !.out = n - k, !.busy = TRUE]
    <2> DEFINE ss == [s EXCEPT !.full = ~s.rst, !.sent = s.sent + k]
    <2>1. /\ conn' = [conn EXCEPT ![cur.conn] = mm] /\ sock' = [sock EXCEPT ![cur.conn] = ss]
          /\ UNCHANGED <<backlog, edge, listenEdge, starved, connMap>>
      BY <1>2 DEF Sent
    <2>2. mm.fd = m.fd /\ ss.in = s.in /\ ss.rst = s.rst /\ ss.full = ~s.rst
      BY DEF Conns, Socks
    <2> HIDE DEF mm, ss
    <2>3. SeenTo(cur.ev, conn[cur.conn], sock[cur.conn]) => SeenTo(cur.ev \ {ev}, mm, ss)
      BY <2>2 DEF SeenTo, Socks
    <2>4. QED
      BY <2>1, <2>2, <2>3, TouchWaking
  <1>3. QED
    BY <1>1, <1>2

LEMMA ReceiveWaking ==
    ASSUME Inv, Waking, Now("in"), cur.conn \in connMap, Receive(cur.conn)
    PROVE  Waking'
  <1> DEFINE c == cur.conn
  <1> DEFINE m == [conn[c] EXCEPT !.in = conn[c].in + Taken(sock[c]), !.idle = FALSE]
  <1> DEFINE s == [sock[c] EXCEPT !.in = sock[c].in - Taken(sock[c])]
  <1>1. conn[c] \in Conns /\ sock[c] \in Socks
    BY TypeParts DEF Inv
  <1>2. /\ m.fd = conn[c].fd /\ m.busy = conn[c].busy
        /\ s.in = 0 /\ s.rst = sock[c].rst /\ s.full = sock[c].full
    BY <1>1 DEF Conns, Socks, Taken
  <1>3. SeenTo(cur.ev, conn[c], sock[c]) => SeenTo(cur.ev \ {"in"}, m, s)
    <2> HIDE DEF m, s
    <2>1. QED
      BY <1>2 DEF SeenTo
  <1>4. s \in Socks
    BY <1>1, Parameters DEF Socks, Taken
  <1>5. CASE TooMuch(m) /\ Close(c)
    BY <1>5, CloseWaking
  <1>6. CASE /\ conn' = [conn EXCEPT ![c] = m] /\ sock' = [sock EXCEPT ![c] = s]
             /\ UNCHANGED <<backlog, edge, listenEdge, starved, connMap>>
    BY <1>2, <1>3, <1>6, TouchWaking
  <1>7. CASE ~TooMuch(m) /\ Handle(c, m, s)
    <2> DEFINE d == [m EXCEPT !.done = m.done + 1]
    <2>1. m \in Conns
      <3>1. conn[c].in + Taken(sock[c]) \in 0..InLimit
        BY <1>1, <1>7, Parameters DEF Conns, Socks, TooMuch, Taken
      <3>2. QED
        BY <1>1, <3>1 DEF Conns
    <2> HIDE DEF m, s
    <2>2. d \in Conns /\ d.fd = m.fd /\ d.busy = m.busy
      BY <2>1 DEF Conns
    <2>3. CASE Close(c)
      BY <2>3, CloseWaking
    <2>4. CASE Send(c, d, s) /\ d.busy
      <3> DEFINE e == [d EXCEPT !.out = d.out + RespLen]
      <3>1. /\ conn' = [conn EXCEPT ![c] = e] /\ sock' = [sock EXCEPT ![c] = s]
            /\ UNCHANGED <<backlog, edge, listenEdge, starved, connMap>>
        BY <2>4 DEF Send
      <3>2. e.fd = d.fd /\ e.busy = d.busy
        <4> HIDE DEF d
        <4>1. QED
          BY <2>2 DEF Conns
      <3>3. SeenTo(cur.ev, conn[c], sock[c]) => SeenTo(cur.ev \ {"in"}, e, s)
        <4> HIDE DEF d, e
        <4>1. QED
          BY <1>3, <2>2, <3>2 DEF SeenTo
      <3>4. QED
        BY <1>2, <2>2, <3>1, <3>2, <3>3, TouchWaking
    <2>5. CASE Send(c, d, s) /\ ~d.busy
      <3>1. PICK k \in Sendable(s, RespLen) : Sent(c, d, s, RespLen, k)
        BY <2>5 DEF Send
      <3> HIDE DEF d
      <3>2. d.fd = conn[c].fd /\ ~(s.in > 0) /\ s.rst = sock[c].rst
        BY <1>2, <2>2
      <3>3. QED
        BY <1>4, <2>2, <3>1, <3>2, SentWaking
    <2>6. QED
      BY <1>7, <2>3, <2>4, <2>5 DEF Handle
  <1>8. QED
    BY <1>5, <1>6, <1>7 DEF Receive

LEMMA OnReadWaking == ASSUME Inv, Waking, OnRead PROVE Waking'
  <1>1. Now("in")
    BY DEF OnRead
  <1>2. CASE Hangup(cur.conn)
    BY <1>1, <1>2, HangupWaking
  <1>3. CASE cur.conn \in connMap /\ Receive(cur.conn)
    BY <1>1, <1>3, ReceiveWaking
  <1>4. CASE cur.conn \notin connMap /\ UNCHANGED <<kernel, maps>>
    BY <1>1, <1>4, NothingWaking
  <1>5. QED
    BY <1>2, <1>3, <1>4 DEF OnRead

LEMMA OnWriteWaking == ASSUME Inv, Waking, OnWrite PROVE Waking'
  <1> DEFINE c == cur.conn
  <1>1. Now("out") /\ cur # Nobody
    BY NowStays DEF OnWrite
  <1>2. CASE c \in connMap /\ conn[c].busy
    <2>1. conn[c] \in Conns /\ sock[c] \in Socks
      BY <1>2, TypeParts DEF Inv
    <2>2. PICK k \in Sendable(sock[c], conn[c].out) :
               Sent(c, conn[c], sock[c], conn[c].out, k)
      BY <1>2 DEF OnWrite
    <2>3. QED
      BY <1>1, <1>2, <2>1, <2>2, SentWaking
  <1>3. CASE ~(c \in connMap /\ conn[c].busy)
    <2>1. ASSUME c \in connMap
          PROVE  conn[c].fd \in edge \/ SeenTo(cur.ev \ {"out"}, conn[c], sock[c])
      <3>1. conn[c].fd \in edge \/ SeenTo(cur.ev, conn[c], sock[c])
        BY <1>1, <2>1, OutstandingInHand DEF Waking, Noticed
      <3>2. QED
        BY <1>3, <2>1, <3>1 DEF SeenTo
    <2>2. QED
      BY <1>1, <1>3, <2>1, NothingWaking DEF OnWrite
  <1>4. QED
    BY <1>2, <1>3

\* A peer does something: the descriptor goes on the ready list.
LEMMA ChangesWaking ==
    ASSUME Inv, Waking, NEW c \in Accepted, NEW s, Changes(c, s) PROVE Waking'
  <1>1. /\ sock' = [sock EXCEPT ![c] = s] /\ edge' = edge \cup {FdOf(c)}
        /\ UNCHANGED <<backlog, listenEdge, starved, connMap, conn, loop, batch, cur>>
    BY DEF Changes, maps, where
  <1>2. connMap \subseteq Conn /\ c \in connMap /\ sock \in [Conn -> Socks]
    BY AcceptedIsOpen, TypeParts DEF Inv
  <1>3. ASSUME NEW d \in connMap, d # c PROVE Noticed(d)'
    <2>1. Outstanding(d)' = Outstanding(d)
      BY <1>1 DEF Outstanding
    <2>2. QED
      BY <1>1, <1>2, <1>3, <2>1, NoticedStays DEF Waking
  <1>4. conn'[c].fd \in edge'
    BY <1>1, <1>2, FdOfConn
  <1>5. QED
    BY <1>1, <1>3, <1>4 DEF Waking, Noticed, ListenerNoticed

LEMMA PeersWaking == ASSUME Inv, Waking, Peers PROVE Waking'
  <1>1. CASE PeerConnects
    <2>1. /\ listenEdge' = TRUE
          /\ UNCHANGED <<sock, edge, connMap, conn, batch, cur>>
      BY <1>1 DEF PeerConnects, maps, where
    <2>2. ListenerNoticed'
      BY <2>1 DEF ListenerNoticed
    <2>3. ASSUME NEW c \in connMap PROVE Noticed(c)'
      BY <2>1 DEF Waking, Noticed, Outstanding
    <2>4. QED
      BY <2>1, <2>2, <2>3 DEF Waking
  <1>2. ASSUME NEW c \in Conn,
               PeerSends(c) \/ PeerCloses(c) \/ PeerResets(c) \/ PeerReads(c)
        PROVE  Waking'
    <2>1. c \in Accepted /\ \E s : Changes(c, s)
      BY <1>2 DEF PeerSends, PeerCloses, PeerResets, PeerReads
    <2>2. QED
      BY <2>1, ChangesWaking
  <1>3. QED
    BY <1>1, <1>2 DEF Peers

\* epoll_wait: what was on the ready list is reported with what it needs.
LEMMA EpollWaitWaking == ASSUME Inv, Waking, EpollWait PROVE Waking'
  <1> DEFINE found == {e \in {Event(f) : f \in edge} : e.ev # {}}
  <1>1. /\ loop = "wait" /\ loop' = "dispatch"
        /\ batch' = found \cup (IF listenEdge /\ backlog > 0 THEN {ListenEvent} ELSE {})
        /\ UNCHANGED <<backlog, sock, starved, cur, connMap, conn>>
    BY DEF EpollWait, maps
  <1>2. cur = Nobody /\ batch = {}
    BY <1>1 DEF Inv, Walk
  <1>3. ListenerNoticed'
    BY <1>1, <1>2 DEF Waking, ListenerNoticed
  <1>4. ASSUME NEW c \in connMap PROVE Noticed(c)'
    <2>1. /\ c \in Conn /\ sock[c] \in Socks /\ conn[c].fd \in Fd
          /\ open[conn[c].fd] = c
      BY TypeParts DEF Inv, Links
    <2>2. CASE conn[c].fd \notin edge
      <3>1. Outstanding(c) = {}
        BY <1>2, <2>1, Parameters DEF Outstanding, Nobody
      <3>2. SeenTo({}, conn[c], sock[c])
        BY <2>2, <3>1 DEF Waking, Noticed
      <3>3. SeenTo(Outstanding(c)', conn[c], sock[c])
        BY <3>2, MoreSeenTo
      <3>4. QED
        BY <1>1, <3>3 DEF Noticed
    <2>3. CASE conn[c].fd \in edge
      <3> DEFINE e == Event(conn[c].fd)
      <3>1. e.conn = c /\ e.ev = Mask(sock[c]) /\ Mask(sock[c]) \subseteq Events
        BY <2>1 DEF Event, Mask, Events
      <3>2. SeenTo(Mask(sock[c]), conn[c], sock[c])
        BY <2>1 DEF SeenTo, Mask, Socks
      <3>3. e \in batch' \/ Mask(sock[c]) = {}
        BY <1>1, <2>3, <3>1
      <3>4. Mask(sock[c]) \subseteq Outstanding(c)'
        <4> HIDE DEF e
        <4>1. QED
          BY <3>1, <3>3 DEF Outstanding
      <3>5. SeenTo(Outstanding(c)', conn[c], sock[c])
        BY <3>2, <3>4, MoreSeenTo
      <3>6. QED
        BY <1>1, <3>5 DEF Noticed
    <2>4. QED
      BY <2>2, <2>3
  <1>5. QED
    BY <1>1, <1>3, <1>4 DEF Waking

\* The loop goes on, and every event stays reported.
LEMMA LoopWaking ==
    ASSUME Inv, Waking, UNCHANGED <<backlog, sock, edge, listenEdge, connMap, conn>>,
           \A c \in connMap : Outstanding(c) \subseteq Outstanding(c)',
           ListenerNoticed'
    PROVE  Waking'
  <1>1. connMap \subseteq Conn
    BY TypeParts DEF Inv
  <1>2. ASSUME NEW c \in connMap PROVE Noticed(c)'
    BY <1>1, NoticedStays DEF Waking
  <1>3. QED
    BY <1>2 DEF Waking

LEMMA NextEventWaking ==
    ASSUME Inv, Waking, NEW e \in batch, NextEvent(e) PROVE Waking'
  <1>1. /\ loop = "dispatch" /\ cur = Nobody /\ batch' = batch \ {e}
        /\ UNCHANGED <<backlog, sock, edge, listenEdge, starved, connMap, conn>>
        /\ e = ListenEvent => loop' = "accept" /\ cur' = cur
    BY DEF NextEvent, kernel
  <1>2. CASE e = ListenEvent
    <2>1. ListenerNoticed'
      BY <1>1, <1>2 DEF ListenerNoticed
    <2>2. ASSUME NEW c \in connMap PROVE Outstanding(c) \subseteq Outstanding(c)'
      <3>1. c # NULL
        BY TypeParts, Parameters DEF Inv
      <3>2. QED
        BY <1>1, <1>2, <3>1 DEF Outstanding, ListenEvent
    <2>3. QED
      BY <1>1, <2>1, <2>2, LoopWaking
  <1>3. CASE e # ListenEvent
    <2>1. /\ e.fd \in Fd /\ e.conn = socketMap[e.fd] /\ e.conn # NULL
      BY <1>3 DEF Inv, Pending, Links
    <2>2. loop' = loop /\ cur' = [conn |-> e.conn, ev |-> e.ev]
      BY <1>3, <2>1 DEF NextEvent
    <2>3. ListenerNoticed'
      BY <1>1, <1>3, <2>2 DEF Waking, ListenerNoticed, ListenEvent
    <2>4. ASSUME NEW c \in connMap PROVE Outstanding(c) \subseteq Outstanding(c)'
      <3>1. cur.ev = {}
        BY <1>1 DEF Nobody
      <3>2. QED
        BY <1>1, <2>2, <3>1 DEF Outstanding
    <2>5. QED
      BY <1>1, <2>3, <2>4, LoopWaking
  <1>4. QED
    BY <1>2, <1>3

LEMMA EventDoneWaking == ASSUME Inv, Waking, EventDone PROVE Waking'
  <1>1. /\ cur.ev = {} /\ cur' = Nobody
        /\ UNCHANGED <<backlog, sock, edge, listenEdge, starved, connMap, conn>>
        /\ UNCHANGED <<loop, batch>>
    BY DEF EventDone, kernel
  <1>2. ListenerNoticed'
    BY <1>1 DEF Waking, ListenerNoticed, ListenEvent
  <1>3. ASSUME NEW c \in connMap PROVE Outstanding(c) \subseteq Outstanding(c)'
    BY <1>1 DEF Outstanding
  <1>4. QED
    BY <1>1, <1>2, <1>3, LoopWaking

LEMMA CheckTimerWaking == ASSUME Inv, Waking, CheckTimer PROVE Waking'
  <1> DEFINE S == {c \in connMap : TimedOut(c)}
  <1>1. /\ loop = "dispatch" /\ batch = {} /\ UNCHANGED <<batch, cur>>
        /\ CloseAll(S, refs) /\ connMap' = connMap \ S
        /\ UNCHANGED <<backlog, listenEdge, starved>>
    BY DEF CheckTimer, CloseAll
  <1>2. ListenerNoticed'
    BY <1>1 DEF Waking, ListenerNoticed
  <1>3. ASSUME NEW c \in connMap, c \notin S PROVE Noticed(c)'
    <2>1. Outstanding(c)' = Outstanding(c)
      BY <1>1 DEF Outstanding
    <2>2. S \in SUBSET connMap
      OBVIOUS
    <2> HIDE DEF S
    <2>3. QED
      BY <1>1, <1>3, <2>1, <2>2, CloseAllNoticed
  <1>4. QED
    BY <1>1, <1>2, <1>3 DEF Waking

LEMMA AcceptWaking == ASSUME Inv, Waking, Accept PROVE Waking'
  <1> DEFINE c == handles + 1
  <1>1. PICK f \in FreeFds :
            /\ connMap' = connMap \cup {c} /\ edge' = edge \cup {f}
            /\ conn' = [conn EXCEPT ![c] = NewConn(f)]
    BY DEF Accept
  <1>2. /\ loop = "accept" /\ backlog > 0
        /\ UNCHANGED <<sock, listenEdge, loop, batch, cur>>
    BY DEF Accept, where
  <1>3. /\ conn \in [Conn -> Conns] /\ backlog \in Nat /\ handles \in Nat
        /\ connMap \subseteq Conn
    BY TypeParts DEF Inv
  <1>4. c \in Conn /\ c \notin connMap
    <2>1. handles + backlog <= MaxConns /\ \A d \in connMap : d <= handles
      BY DEF Inv, Given, Links
    <2>2. QED
      BY <1>2, <1>3, <2>1, Parameters DEF Conn
  <1>5. conn'[c].fd = f /\ f \in edge'
    BY <1>1, <1>3, <1>4 DEF NewConn, NoConn
  <1>6. ASSUME NEW d \in connMap PROVE Noticed(d)'
    <2>1. conn'[d] = conn[d] /\ Outstanding(d)' = Outstanding(d)
      BY <1>1, <1>2, <1>3, <1>4 DEF Outstanding
    <2>2. QED
      BY <1>1, <1>2, <1>3, <2>1, NoticedStays DEF Waking
  <1>7. ASSUME NEW d \in connMap', d = c PROVE Noticed(d)'
    BY <1>5, <1>7 DEF Noticed
  <1>8. ListenerNoticed'
    BY <1>2 DEF ListenerNoticed
  <1>9. QED
    BY <1>1, <1>6, <1>7, <1>8 DEF Waking

LEMMA AcceptEndsWaking == ASSUME Inv, Waking, AcceptEnds PROVE Waking'
  <1>1. /\ starved' = (backlog > 0)
        /\ UNCHANGED <<backlog, sock, edge, listenEdge, connMap, conn, batch, cur>>
    BY DEF AcceptEnds, maps
  <1>2. ListenerNoticed'
    BY <1>1 DEF ListenerNoticed
  <1>3. ASSUME NEW c \in connMap PROVE Outstanding(c) \subseteq Outstanding(c)'
    BY <1>1 DEF Outstanding
  <1>4. QED
    BY <1>1, <1>2, <1>3, LoopWaking

LEMMA TimeWaking == ASSUME Inv, Waking, NEW c \in Conn, TimePasses(c) PROVE Waking'
  <1>1. /\ conn' = [conn EXCEPT ![c] = [conn[c] EXCEPT !.idle = TRUE]]
        /\ UNCHANGED <<backlog, sock, edge, listenEdge, starved, connMap>>
        /\ UNCHANGED <<loop, batch, cur>>
    BY DEF TimePasses, kernel, where
  <1>2. /\ [conn[c] EXCEPT !.idle = TRUE].fd = conn[c].fd
        /\ [conn[c] EXCEPT !.idle = TRUE].busy = conn[c].busy
    BY TypeParts DEF Inv, Conns
  <1>3. conn \in [Conn -> Conns] /\ connMap \subseteq Conn
    BY TypeParts DEF Inv
  <1>4. \A d \in Conn : conn'[d].fd = conn[d].fd /\ conn'[d].busy = conn[d].busy
    BY <1>1, <1>2, <1>3
  <1>5. ASSUME NEW d \in connMap PROVE Noticed(d)'
    <2>1. Outstanding(d)' = Outstanding(d)
      BY <1>1 DEF Outstanding
    <2>2. QED
      BY <1>1, <1>3, <1>4, <2>1 DEF Waking, Noticed, SeenTo
  <1>6. QED
    BY <1>1, <1>5 DEF Waking, ListenerNoticed, ListenEvent

LEMMA WakingInit == Init => Waking
  BY DEF Init, Waking, ListenerNoticed

LEMMA WakingStep == Inv /\ Waking /\ [Next]_vars => Waking'
  <1> SUFFICES ASSUME Inv, Waking, [Next]_vars PROVE Waking'
    OBVIOUS
  <1>1. CASE OnClose
    BY <1>1, HangupWaking DEF OnClose
  <1>2. CASE UNCHANGED vars
    <2>1. UNCHANGED <<backlog, sock, edge, listenEdge, starved, connMap, conn, loop, batch, cur>>
      BY <1>2 DEF vars, kernel, maps, where
    <2>2. ListenerNoticed'
      BY <2>1 DEF Waking, ListenerNoticed, ListenEvent
    <2>3. \A c \in connMap : Outstanding(c) \subseteq Outstanding(c)'
      BY <2>1 DEF Outstanding
    <2>4. QED
      BY <2>1, <2>2, <2>3, LoopWaking
  <1>3. QED
    BY <1>1, <1>2, PeersWaking, TimeWaking, EpollWaitWaking, NextEventWaking,
       EventDoneWaking, CheckTimerWaking, AcceptWaking, AcceptEndsWaking,
       OnReadWaking, OnWriteWaking DEF Next, Loop

\* When the loop waits in epoll_wait, no edge is lost: bytes to be read, an
\* answer that can go on and a connection to be accepted are on the ready list,
\* for any number of descriptors, peers and events in a batch.
THEOREM NoEdgeIsLost == Spec => []EdgesPending
  <1>1. Inv /\ Waking => EdgesPending
    <2> SUFFICES ASSUME Inv, Waking, loop = "wait" PROVE EdgesPending
      BY DEF EdgesPending
    <2>1. cur = Nobody /\ batch = {}
      BY DEF Inv, Walk
    <2>2. ASSUME NEW c \in connMap,
                 sock[c].in > 0 \/ sock[c].rst \/ (conn[c].busy /\ ~sock[c].full)
          PROVE  FdOf(c) \in edge
      <3>1. c \in Conn
        BY TypeParts DEF Inv
      <3>2. Outstanding(c) = {}
        BY <2>1, <3>1, Parameters DEF Outstanding, Nobody
      <3>3. conn[c].fd \in edge
        BY <2>2, <3>2 DEF Waking, Noticed, SeenTo
      <3>4. QED
        BY <3>3, FdOfConn
    <2>3. backlog > 0 => listenEdge \/ starved
      BY <2>1 DEF Waking, ListenerNoticed
    <2>4. QED
      BY <2>2, <2>3 DEF EdgesPending
  <1>2. QED
    BY <1>1, InitHolds, StepKeeps, WakingInit, WakingStep, PTL DEF Spec
============================================================================
