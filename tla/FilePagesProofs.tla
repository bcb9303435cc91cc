--------------------------- MODULE FilePagesProofs ---------------------------
(* What the page "my files" keeps for every number of pages, users and files, *)
(* whatever is lost, refused or answered out of order.                        *)
EXTENDS FilePages, TLAPS

\* The results about the server are those of FileServiceProofs.
P == INSTANCE FileServiceProofs WITH
    Ops <- PageOps, MaxUploads <- 0, MaxPv <- 0, MaxDrift <- 0,
    FreshUploads <- FALSE, Repeats <- FALSE

-----------------------------------------------------------------------------
(* Both instances of FileService are the same: S of the page, P of the proofs. *)

LEMMA ServerParameters == P!ParametersAssumption
  BY PagesAssumption
  DEF P!ParametersAssumption, P!AllOps, S!AllOps, P!AllFaults, S!AllFaults, PageOps

LEMMA SameSizes == \A X : S!Cardinality(X) = P!Cardinality(X)
  BY DEF S!Cardinality, P!Cardinality

LEMMA SameReads ==
    /\ \A m : S!RowsOf(m) = P!RowsOf(m)
    /\ \A f : S!HasShare(f) <=> P!HasShare(f)
    /\ S!Ranked = P!Ranked /\ S!ShareRows = P!ShareRows
  BY DEF S!RowsOf, P!RowsOf, S!HasShare, P!HasShare, S!Ranked, P!Ranked,
         S!ShareRows, P!ShareRows

LEMMA SameFirst == \A m : S!FirstOf(m) = P!FirstOf(m)
  BY SameReads DEF S!FirstOf, P!FirstOf

LEMMA SameSync == S!InSync <=> P!InSync
  BY SameReads, SameSizes DEF S!InSync, P!InSync

LEMMA SameCount == \A f : S!ZLexCount(f) = P!ZLexCount(f)
  BY SameReads, SameSizes DEF S!ZLexCount, P!ZLexCount, S!Before, P!Before

LEMMA SameListed == \A u : S!Listed(u) = P!Listed(u)
  BY SameReads DEF S!Listed, P!Listed

LEMMA SameCodes ==
    /\ S!OK = P!OK /\ S!FAIL = P!FAIL /\ S!SHARE_HAD = P!SHARE_HAD
    /\ S!FILE_EXIST = P!FILE_EXIST /\ S!PCs = P!PCs /\ S!AllOps = P!AllOps
  BY DEF S!OK, P!OK, S!FAIL, P!FAIL, S!SHARE_HAD, P!SHARE_HAD, S!FILE_EXIST,
         P!FILE_EXIST, S!PCs, P!PCs, S!AllOps, P!AllOps

LEMMA SameRequests == S!Requests = P!Requests
  BY SameCodes DEF S!Requests, P!Requests

LEMMA SameTypeOK == S!TypeOK <=> P!TypeOK
  BY SameRequests DEF S!TypeOK, P!TypeOK, S!Row, P!Row, S!OwnRow, P!OwnRow

LEMMA SameUpload == S!Upload <=> P!Upload
  BY DEF
    S!mysql, P!mysql, S!redis, P!redis, S!dfs, P!dfs, S!aux, P!aux, S!OK,
    P!OK, S!M, P!M, S!At, P!At, S!Goto, P!Goto, S!Reply, P!Reply,
    S!IncUserCount, P!IncUserCount, S!AddOwnRow, P!AddOwnRow, S!UploadStore,
    P!UploadStore, S!UploadInfo, P!UploadInfo, S!UploadOwn, P!UploadOwn,
    S!UploadCount, P!UploadCount, S!Upload, P!Upload

LEMMA SameInstantUpload == S!InstantUpload <=> P!InstantUpload
  BY SameReads, SameFirst DEF
    S!mysql, P!mysql, S!redis, P!redis, S!dfs, P!dfs, S!aux, P!aux, S!FAIL,
    P!FAIL, S!FILE_EXIST, P!FILE_EXIST, S!M, P!M, S!Owns, P!Owns, S!At,
    P!At, S!Goto, P!Goto, S!Reply, P!Reply, S!SetRefCount, P!SetRefCount,
    S!IncUserCount, P!IncUserCount, S!AddOwnRow, P!AddOwnRow, S!Md5Check,
    P!Md5Check, S!Md5Ref, P!Md5Ref, S!Md5Own, P!Md5Own, S!Md5Count,
    P!Md5Count, S!Md5Restore, P!Md5Restore, S!InstantUpload, P!InstantUpload

LEMMA SameShare == S!Share <=> P!Share
  BY SameCount, SameReads DEF
    S!mysql, P!mysql, S!redis, P!redis, S!dfs, P!dfs, S!aux, P!aux, S!OK,
    P!OK, S!FAIL, P!FAIL, S!SHARE_HAD, P!SHARE_HAD, S!At, P!At, S!Goto,
    P!Goto, S!Reply, P!Reply, S!SetShared, P!SetShared, S!SetScore,
    P!SetScore, S!ShareCheck, P!ShareCheck, S!ShareHealZset,
    P!ShareHealZset, S!ShareHealHash, P!ShareHealHash, S!ShareFlag,
    P!ShareFlag, S!ShareInsert, P!ShareInsert, S!ShareCount, P!ShareCount,
    S!ShareZset, P!ShareZset, S!ShareHash, P!ShareHash, S!Share, P!Share

LEMMA SameDelete == S!Delete <=> P!Delete
  BY SameCount, SameReads, SameFirst DEF
    S!mysql, P!mysql, S!redis, P!redis, S!dfs, P!dfs, S!aux, P!aux, S!OK,
    P!OK, S!FAIL, P!FAIL, S!M, P!M, S!Owns, P!Owns, S!At, P!At, S!Goto,
    P!Goto, S!Reply, P!Reply, S!Fault, P!Fault, S!SetRefCount,
    P!SetRefCount, S!DropShareRows, P!DropShareRows, S!SetScore, P!SetScore,
    S!Lower, P!Lower, S!Unreferenced, P!Unreferenced, S!IsShared,
    P!IsShared, S!DeleteCheck, P!DeleteCheck, S!DeleteShareRows,
    P!DeleteShareRows, S!DeleteShareCount, P!DeleteShareCount, S!DeleteZset,
    P!DeleteZset, S!DeleteHash, P!DeleteHash, S!DeleteUserCount,
    P!DeleteUserCount, S!DeleteOwn, P!DeleteOwn, S!DeleteRef, P!DeleteRef,
    S!DeleteInfo, P!DeleteInfo, S!DeleteStore, P!DeleteStore, S!Delete,
    P!Delete

LEMMA SameOwnPv == S!CountOwnDownload <=> P!CountOwnDownload
  BY DEF
    S!redis, P!redis, S!dfs, P!dfs, S!aux, P!aux, S!OK, P!OK, S!FAIL,
    P!FAIL, S!At, P!At, S!Reply, P!Reply, S!CountOwnDownload,
    P!CountOwnDownload

LEMMA SameCancel == S!Cancel <=> P!Cancel
  BY DEF
    S!mysql, P!mysql, S!redis, P!redis, S!dfs, P!dfs, S!aux, P!aux, S!OK,
    P!OK, S!FAIL, P!FAIL, S!At, P!At, S!Goto, P!Goto, S!Reply, P!Reply,
    S!DealshareReply, P!DealshareReply, S!SetShared, P!SetShared,
    S!DropShareRows, P!DropShareRows, S!SetScore, P!SetScore, S!Lower,
    P!Lower, S!CancelFlag, P!CancelFlag, S!CancelCount, P!CancelCount,
    S!CancelRows, P!CancelRows, S!CancelZset, P!CancelZset, S!CancelHash,
    P!CancelHash, S!Cancel, P!Cancel

LEMMA SameSave == S!Save <=> P!Save
  BY SameReads, SameFirst DEF
    S!mysql, P!mysql, S!redis, P!redis, S!dfs, P!dfs, S!aux, P!aux, S!OK,
    P!OK, S!FAIL, P!FAIL, S!FILE_EXIST, P!FILE_EXIST, S!M, P!M, S!Owns,
    P!Owns, S!At, P!At, S!Goto, P!Goto, S!Reply, P!Reply, S!DealshareReply,
    P!DealshareReply, S!SetRefCount, P!SetRefCount, S!IncUserCount,
    P!IncUserCount, S!AddOwnRow, P!AddOwnRow, S!SaveCheck, P!SaveCheck,
    S!SaveRef, P!SaveRef, S!SaveOwn, P!SaveOwn, S!SaveCount, P!SaveCount,
    S!Save, P!Save

LEMMA SameSharePv == S!SharePv <=> P!SharePv
  BY SameReads, SameCount DEF
    S!mysql, P!mysql, S!redis, P!redis, S!dfs, P!dfs, S!aux, P!aux, S!OK,
    P!OK, S!FAIL, P!FAIL, S!At, P!At, S!Goto, P!Goto, S!Reply, P!Reply,
    S!DealshareReply, P!DealshareReply, S!SetScore, P!SetScore,
    S!SharePvUpdate, P!SharePvUpdate, S!SharePvZset, P!SharePvZset,
    S!SharePvHash, P!SharePvHash, S!SharePv, P!SharePv

LEMMA SameRanking == S!Ranking <=> P!Ranking
  BY SameSync, SameReads DEF
    S!mysql, P!mysql, S!redis, P!redis, S!dfs, P!dfs, S!aux, P!aux, S!OK,
    P!OK, S!FAIL, P!FAIL, S!Pv, P!Pv, S!At, P!At, S!Goto, P!Goto, S!Reply,
    P!Reply, S!SetScore, P!SetScore, S!RankCount, P!RankCount,
    S!RankCompare, P!RankCompare, S!RankClearZset, P!RankClearZset,
    S!RankClearHash, P!RankClearHash, S!RankLoad, P!RankLoad,
    S!RankImportZset, P!RankImportZset, S!RankImportHash, P!RankImportHash,
    S!RankList, P!RankList, S!Ranking, P!Ranking

LEMMA SameListing == S!List <=> P!List
  BY DEF
    S!mysql, P!mysql, S!redis, P!redis, S!dfs, P!dfs, S!aux, P!aux, S!OK,
    P!OK, S!At, P!At, S!Goto, P!Goto, S!Reply, P!Reply, S!ListCount,
    P!ListCount, S!ListRows, P!ListRows, S!List, P!List

LEMMA SameSqlFails == S!SqlFails <=> P!SqlFails
  BY SameReads DEF
    S!mysql, P!mysql, S!redis, P!redis, S!dfs, P!dfs, S!OK, P!OK, S!FAIL,
    P!FAIL, S!M, P!M, S!At, P!At, S!Goto, P!Goto, S!Reply, P!Reply,
    S!DealshareReply, P!DealshareReply, S!Fault, P!Fault, S!SqlFails,
    P!SqlFails

LEMMA SameQueryFails == S!QueryFails <=> P!QueryFails
  BY SameReads, SameCount DEF
    S!mysql, P!mysql, S!redis, P!redis, S!dfs, P!dfs, S!OK, P!OK, S!FAIL,
    P!FAIL, S!M, P!M, S!At, P!At, S!Goto, P!Goto, S!Reply, P!Reply,
    S!DealshareReply, P!DealshareReply, S!Fault, P!Fault, S!QueryFails,
    P!QueryFails

LEMMA SameRedisFails == S!RedisFails <=> P!RedisFails
  BY DEF
    S!mysql, P!mysql, S!redis, P!redis, S!dfs, P!dfs, S!OK, P!OK, S!FAIL,
    P!FAIL, S!SHARE_HAD, P!SHARE_HAD, S!At, P!At, S!Goto, P!Goto, S!Reply,
    P!Reply, S!DealshareReply, P!DealshareReply, S!Fault, P!Fault,
    S!RedisFails, P!RedisFails

LEMMA SameDfsFails == S!DfsFails <=> P!DfsFails
  BY DEF
    S!mysql, P!mysql, S!redis, P!redis, S!dfs, P!dfs, S!FAIL, P!FAIL,
    S!Reply, P!Reply, S!Fault, P!Fault, S!DfsFails, P!DfsFails

LEMMA SameCrash == S!Crash <=> P!Crash
  BY DEF
    S!mysql, P!mysql, S!redis, P!redis, S!dfs, P!dfs, S!OK, P!OK, S!Idle,
    P!Idle, S!At, P!At, S!Fault, P!Fault, S!Crash, P!Crash

LEMMA SameRedisLoss == S!RedisLoss <=> P!RedisLoss
  BY DEF
    S!mysql, P!mysql, S!dfs, P!dfs, S!At, P!At, S!Fault, P!Fault,
    S!RedisLoss, P!RedisLoss

LEMMA SameRespond == S!Respond <=> P!Respond
  BY DEF
    S!mysql, P!mysql, S!redis, P!redis, S!dfs, P!dfs, S!OK, P!OK, S!Idle,
    P!Idle, S!At, P!At, S!Respond, P!Respond

LEMMA SameRequestRanking == S!RequestRanking <=> P!RequestRanking
  BY DEF
    S!mysql, P!mysql, S!redis, P!redis, S!dfs, P!dfs, S!OK, P!OK, S!Idle,
    P!Idle, S!At, P!At, S!FirstStep, P!FirstStep, S!RequestRanking,
    P!RequestRanking

LEMMA SameInit == S!Init <=> P!Init
  BY DEF
    S!OK, P!OK, S!Idle, P!Idle, S!Init, P!Init

LEMMA SameDispatch ==
    ASSUME NEW op, NEW u, NEW f PROVE S!Dispatch(op, u, f) <=> P!Dispatch(op, u, f)
  BY DEF
    S!mysql, P!mysql, S!redis, P!redis, S!dfs, P!dfs, S!OK, P!OK, S!Idle,
    P!Idle, S!At, P!At, S!FirstStep, P!FirstStep, S!Dispatch, P!Dispatch

LEMMA SameHandle == S!Handle <=> P!Handle
  BY SameUpload, SameInstantUpload, SameShare, SameDelete, SameOwnPv, SameCancel,
     SameSave, SameSharePv, SameRanking, SameListing DEF S!Handle, P!Handle

-----------------------------------------------------------------------------
(* What the server does to the lists.                                         *)

\* The server is sound, and its users have and name only files they chose.
Server == P!Typed /\ P!Edits /\ P!Confined(Disk)

\* What goes on takes nothing from the list of u: it is not about u, or it is a
\* share of one of u's files.
Gentle(u) == P!Aside(u, Disk) \/ (req.op = "share" /\ req.user = u)

ListKept(u) ==
    /\ P!Aside(u, Disk) => P!Listed(u)' = P!Listed(u) /\ P!Aside(u, Disk)'
    /\ Gentle(u) => P!Backed(P!Listed(u), P!Listed(u)') /\ Gentle(u)'

LEMMA BackedOften ==
    /\ \A R : P!Backed(R, R) /\ P!Backed({}, R)
    /\ \A Q, R, T : P!Backed(Q, R) /\ P!Backed(R, T) => P!Backed(Q, T)
  BY DEF P!Backed

LEMMA ServerStarts ==
    S!Init => /\ Server
              /\ \A u \in User : P!Aside(u, Disk) /\ P!Listed(u) = {}
  BY ServerParameters, SameInit, P!UnusedServer DEF Server

LEMMA ServerServes ==
    ASSUME Server, S!Handle \/ S!SqlFails \/ S!QueryFails \/ S!RedisFails \/ S!DfsFails
    PROVE  Server' /\ P!GoesOn /\ \A u \in User : ListKept(u)
  <1>1. P!Handle \/ P!SqlFails \/ P!QueryFails \/ P!RedisFails \/ P!DfsFails
    BY SameHandle, SameSqlFails, SameQueryFails, SameRedisFails, SameDfsFails
  <1>2. /\ Server' /\ P!GoesOn
        /\ \A u \in User : P!Aside(u, Disk) =>
              P!Listed(u)' = P!Listed(u) /\ P!Aside(u, Disk)'
    BY <1>1, ServerParameters, P!ServedElsewhere DEF Server
  <1>3. ASSUME NEW u \in User, Gentle(u)
        PROVE  P!Backed(P!Listed(u), P!Listed(u)') /\ Gentle(u)'
    <2>1. CASE P!Aside(u, Disk)
      BY <1>2, <2>1, BackedOften DEF Gentle
    <2>2. CASE req.op = "share" /\ req.user = u
      <3>1. P!Backed(P!Listed(u), P!Listed(u)')
        BY <1>1, <2>2, ServerParameters, P!ShareRaises DEF Server
      <3>2. QED
        BY <1>2, <2>2, <3>1 DEF P!GoesOn, Gentle
    <2>3. QED
      BY <1>3, <2>1, <2>2 DEF Gentle
  <1>4. QED
    BY <1>2, <1>3 DEF ListKept

\* If the list stays, and what goes on is as gentle as before.
LEMMA ListsStay ==
    ASSUME NEW u, P!Listed(u)' = P!Listed(u), P!Aside(u, Disk) => P!Aside(u, Disk)',
           P!Aside(u, Disk)' \/ (req'.op = req.op /\ req'.user = req.user)
    PROVE  ListKept(u)
  BY BackedOften DEF ListKept, Gentle

LEMMA ServerEnds ==
    ASSUME Server, S!Respond \/ S!Crash \/ S!RedisLoss \/ S!RequestRanking
    PROVE  /\ Server'
           /\ \A u \in User : ListKept(u) /\ P!Listed(u)' = P!Listed(u)
  <1>1. /\ Server' /\ (req'.op \notin P!EditOps \/ UNCHANGED req)
        /\ \A u \in User : P!Listed(u)' = P!Listed(u)
        /\ \A u \in User : P!Aside(u, Disk) => P!Aside(u, Disk)'
    BY ServerParameters, SameRespond, SameCrash, SameRedisLoss, SameRequestRanking,
       P!EndsElsewhere DEF Server
  <1>2. \A u \in User : P!Aside(u, Disk)' \/ (req'.op = req.op /\ req'.user = req.user)
    BY <1>1 DEF P!Aside
  <1>3. QED
    BY <1>1, <1>2, ListsStay

LEMMA ServerTakes ==
    ASSUME Server, NEW op \in PageOps \ {"rank"}, NEW u \in User, NEW f \in File,
           S!Dispatch(op, u, f), op \notin {"list", "count"} => f \in Disk[u]
    PROVE  /\ Server' /\ ~P!At("idle")' /\ req'.op = op /\ req'.user = u
           /\ \A v \in User : P!Listed(v)' = P!Listed(v)
           /\ \A v \in User :
                 (\/ op \in {"list", "pv", "count"}
                  \/ v # u /\ \A g \in Disk[v] : Md5Of[g] # Md5Of[f])
                    => P!Aside(v, Disk)'
  <1>1. P!Dispatch(op, u, f) /\ op \in P!AllOps \ {"rank"}
    BY SameDispatch DEF PageOps, P!AllOps
  <1>2. op \in P!EditOps => f \in Disk[u] /\ op \notin {"list", "pv", "count"}
    BY DEF P!EditOps
  <1>3. QED
    BY <1>1, <1>2, ServerParameters, P!TakenElsewhere DEF Server

LEMMA ServerStill ==
    ASSUME Server, UNCHANGED server
    PROVE  /\ Server'
           /\ \A u \in User : P!Listed(u)' = P!Listed(u)
           /\ \A u \in User : P!Aside(u, Disk) => P!Aside(u, Disk)'
  <1>1. P!Typed'
    BY ServerParameters, P!TypedStep
    DEF Server, server, P!vars, P!mysql, P!redis, P!dfs, P!aux
  <1>2. P!Edits' /\ P!Confined(Disk)'
    BY DEF Server, server, P!Edits, P!Confined, P!Owns
  <1>3. \A u \in User : P!Listed(u)' = P!Listed(u)
    BY DEF server, P!Listed, P!RowsOf
  <1>4. \A u \in User : P!Aside(u, Disk) => P!Aside(u, Disk)'
    BY DEF server, P!Aside, P!M
  <1>5. QED
    BY <1>1, <1>2, <1>3, <1>4 DEF Server

LEMMA ServerTyped ==
    ASSUME Server
    PROVE  /\ S!TypeOK /\ req.code \in 0..5 /\ req.user \in User \cup {NULL}
           /\ \A u \in User : /\ P!Listed(u) \subseteq Row
                              /\ Files(P!Listed(u)) \subseteq Disk[u]
  <1>1. P!TypeOK /\ S!TypeOK
    BY SameTypeOK DEF Server, P!Typed
  <1>2. req.code \in 0..5 /\ req.user \in User \cup {NULL}
    BY <1>1 DEF P!TypeOK, P!Requests, P!OK, P!FAIL, P!SHARE_HAD, P!FILE_EXIST
  <1>3. ASSUME NEW u \in User, NEW r \in P!Listed(u)
        PROVE  r \in Row /\ r.file \in Disk[u]
    <2>1. PICK f \in File : \E i \in DOMAIN own[<<u, f>>] :
             r = [file |-> f, shared |-> own[<<u, f>>][i].shared]
      BY <1>3 DEF P!Listed
    <2>2. PICK i \in DOMAIN own[<<u, f>>] :
             r = [file |-> f, shared |-> own[<<u, f>>][i].shared]
      BY <2>1
    <2>3. own[<<u, f>>] \in Seq(P!OwnRow)
      BY <1>1 DEF P!TypeOK
    <2>4. own[<<u, f>>][i].shared \in {0, 1} /\ own[<<u, f>>] # <<>>
      <3>1. own[<<u, f>>][i] \in P!OwnRow
        BY <2>2, <2>3
      <3>2. own[<<u, f>>] # <<>>
        BY <2>2
      <3>3. QED
        BY <3>1, <3>2 DEF P!OwnRow
    <2>5. f \in Disk[u]
      BY <2>4 DEF Server, P!Confined, P!Owns
    <2>6. QED
      BY <2>2, <2>4, <2>5 DEF Row
  <1>4. QED
    BY <1>1, <1>2, <1>3 DEF Files

-----------------------------------------------------------------------------
(* Every variable is of its type.                                             *)

PageTyped ==
    /\ rows \in [Tab -> SUBSET Row] /\ chosen \in [Tab -> SUBSET Row]
    /\ error \in [Tab -> BOOLEAN] /\ silent \in [Tab -> BOOLEAN]
    /\ clicks \in 0..MaxClicks /\ trouble \in 0..MaxTrouble

\* The requests that change no list, and do not bring one.
Still(m) == m.op \in {"pv", "count"}

\* What is under way for a page: nothing, one request, a batch of deletions, or
\* a download that is counted, or the count of a new page, and a list.
Paired(M) ==
    /\ \A m, n \in M : m.tab = n.tab /\ m # n =>
          \/ m.by = "batch" /\ n.by = "batch"
          \/ m.op = "list" /\ Still(n)
          \/ Still(m) /\ n.op = "list"
    /\ \A m \in M : /\ m.by = "batch" => m.op = "del"
                    /\ m.by = "selected" => m.op = "share"
                    /\ m.by = "mount" => m.op \in {"list", "count"}

\* The requests N under way, while the server handles s: it handles the one
\* that is taken, none is answered before, and what a page asks for, and is
\* answered, are files its user chose from the disk.
Traffic(N, s) ==
    /\ N \subseteq Message /\ Paired(N)
    /\ {m \in N : m.state = "taken"} = IF s = NULL THEN {} ELSE {s}
    /\ \A m \in N : /\ m.state # "answered" =>
                          m.code = NULL /\ m.rows = {} /\ ~m.none
                    /\ m.op \notin {"list", "count"} => m.file \in Disk[UserOf[m.tab]]
                    /\ Files(m.rows) \subseteq Disk[UserOf[m.tab]]

\* The server is busy with the request it handles for a page.
Busy ==
    /\ serving # NULL => /\ ~P!At("idle") /\ req.op = serving.op
                         /\ req.user = UserOf[serving.tab]
    /\ P!At("idle") => req.op = NULL

\* A page shows files its user chose from the disk.
Yours == \A t \in Tab : Files(rows[t]) \subseteq Disk[UserOf[t]]

Sound == Server /\ PageTyped /\ Traffic(net, serving) /\ Busy /\ Yours

\* Requests that page t has just sent.
Sent(t, M) ==
    /\ M \subseteq Message /\ Paired(M)
    /\ \A m \in M : /\ m.tab = t /\ m.state = "sent" /\ m.code = NULL
                    /\ m.rows = {} /\ ~m.none
                    /\ m.op \notin {"list", "count"} => m.file \in Disk[UserOf[t]]
    /\ \E m \in M : ~Still(m)

\* The requests whose failure leaves the page as it is, without an error.
Mild(m) == Still(m) \/ m.by = "selected"

\* What a user sends from a row.
Singles == PageOps \ {"rank", "count", "pv"}

LEMMA OneSent ==
    ASSUME NEW t \in Tab, NEW op \in Singles, NEW f \in File,
           NEW by \in {"row", "selected"}, by = "selected" => op = "share",
           op # "list" => f \in Disk[UserOf[t]]
    PROVE  Sent(t, {Msg(t, op, f, by)}) /\ (by = "row" => ~Mild(Msg(t, op, f, by)))
  BY DEF Sent, Paired, Msg, Message, Still, Mild, Singles

LEMMA MountSent ==
    ASSUME NEW t \in Tab
    PROVE  Sent(t, MountRequests(t)) /\ \E m \in MountRequests(t) : ~Mild(m)
  <1>1. AnyFile \in File
    BY PagesAssumption DEF AnyFile
  <1>2. MountRequests(t) = {Msg(t, "count", AnyFile, "mount"), Msg(t, "list", AnyFile, "mount")}
    BY DEF MountRequests
  <1>3. QED
    BY <1>1, <1>2 DEF Sent, Paired, Msg, Message, Still, Mild, PageOps

\* A click on page t that sends M, or opens the page again.
Sends(t, M) ==
    /\ Sent(t, M) /\ net' = net \cup M
    /\ \/ /\ UNCHANGED <<rows, chosen, error, silent>>
          /\ (\A m \in M : Mild(m)) => Ready(t)
       \/ /\ rows' = [rows EXCEPT ![t] = {}] /\ chosen' = [chosen EXCEPT ![t] = {}]
          /\ error' = [error EXCEPT ![t] = FALSE]
          /\ silent' = [silent EXCEPT ![t] = FALSE]
          /\ \E m \in M : ~Mild(m)

Clicked(t) ==
    /\ UNCHANGED <<server, serving, trouble>> /\ Quiet(t) /\ S!At("idle")
    /\ \/ /\ UNCHANGED <<net, clicks, rows, error, silent>>
          /\ chosen' \in [Tab -> SUBSET Row]
       \/ clicks' \in 0..MaxClicks /\ \E M : Sends(t, M)

LEMMA ClickSends == ASSUME PageTyped, Yours, NEW t \in Tab, Clicks(t) PROVE Clicked(t)
  <1>1. ASSUME NEW M, Sent(t, M), Click(t, M), UNCHANGED chosen, Quiet(t),
               (\A m \in M : Mild(m)) => Ready(t)
        PROVE  Clicked(t)
    <2>1. /\ UNCHANGED <<server, serving, trouble>> /\ S!At("idle")
          /\ clicks' \in 0..MaxClicks /\ net' = net \cup M
          /\ UNCHANGED <<rows, chosen, error, silent>>
      BY <1>1, PagesAssumption DEF Click, Asks, PageTyped
    <2>2. Sends(t, M)
      BY <1>1, <2>1 DEF Sends
    <2>3. QED
      BY <1>1, <2>1, <2>2 DEF Clicked
  <1>2. ASSUME NEW op \in Singles, NEW f \in File,
               op # "list" => f \in Disk[UserOf[t]], Single(t, op, f), Quiet(t)
        PROVE  Clicked(t)
    <2>1. /\ Sent(t, {Msg(t, op, f, "row")})
          /\ ~ \A m \in {Msg(t, op, f, "row")} : Mild(m)
      BY <1>2, OneSent
    <2>2. QED
      BY <1>1, <1>2, <2>1 DEF Single
  <1>3. ASSUME NEW r \in rows[t] PROVE r.file \in File /\ r.file \in Disk[UserOf[t]]
    <2>1. r \in Row /\ r.file \in Files(rows[t])
      BY <1>3 DEF PageTyped, Files
    <2>2. QED
      BY <2>1 DEF Row, Yours
  <1>4. {"list", "share", "cancel", "del", "md5"} \subseteq Singles
    BY DEF PageOps, Singles
  <1>5. CASE RefreshTable(t)
    <2>1. AnyFile \in File
      BY PagesAssumption DEF AnyFile
    <2>2. QED
      BY <1>2, <1>4, <1>5, <2>1 DEF RefreshTable
  <1>6. CASE OnShareFile(t)
    BY <1>2, <1>3, <1>4, <1>6 DEF OnShareFile, Ready
  <1>7. CASE OnCancelShareFile(t)
    BY <1>2, <1>3, <1>4, <1>7 DEF OnCancelShareFile, Ready
  <1>8. CASE OnDeleteFile(t)
    BY <1>2, <1>3, <1>4, <1>8 DEF OnDeleteFile, Ready
  <1>9. CASE OnDownloadFile(t)
    <2>1. PICK r \in rows[t] :
             Click(t, {Msg(t, "pv", r.file, "row"), Msg(t, "list", r.file, "row")})
      BY <1>9 DEF OnDownloadFile
    <2>2. Sent(t, {Msg(t, "pv", r.file, "row"), Msg(t, "list", r.file, "row")})
      BY <1>3 DEF Sent, Paired, Msg, Message, PageOps, Still
    <2>3. QED
      BY <1>1, <1>9, <2>1, <2>2 DEF OnDownloadFile, Ready
  <1>10. CASE DeleteFiles(t)
    <2> DEFINE M == {Msg(t, "del", f, "batch") : f \in Files(chosen[t])}
    <2>1. Click(t, M) /\ UNCHANGED chosen /\ Ready(t)
      BY <1>10 DEF DeleteFiles
    <2>2. \A f \in Files(chosen[t]) : f \in File /\ f \in Disk[UserOf[t]]
      BY <1>3, <1>10 DEF DeleteFiles, Files
    <2>3. Files(chosen[t]) # {}
      BY <1>10 DEF DeleteFiles, Files
    <2>4. Sent(t, M)
      <3>1. \A m \in M : /\ m \in Message /\ m.by = "batch" /\ m.op = "del"
                         /\ m.tab = t /\ m.state = "sent" /\ m.code = NULL
                         /\ m.rows = {} /\ ~m.none /\ m.file \in Disk[UserOf[t]]
        <4>1. SUFFICES ASSUME NEW f \in Files(chosen[t])
                       PROVE  LET m == Msg(t, "del", f, "batch")
                              IN  /\ m \in Message /\ m.by = "batch" /\ m.op = "del"
                                  /\ m.tab = t /\ m.state = "sent" /\ m.code = NULL
                                  /\ m.rows = {} /\ ~m.none
                                  /\ m.file \in Disk[UserOf[t]]
          OBVIOUS
        <4>2. QED
          BY <2>2 DEF Msg, Message, PageOps
      <3>2. M # {}
        BY <2>3
      <3> HIDE DEF M
      <3>3. QED
        BY <3>1, <3>2 DEF Sent, Paired, Still
    <2> HIDE DEF M
    <2>5. QED
      BY <1>1, <2>1, <2>4 DEF Ready
  <1>11. CASE BeforeUpload(t)
    BY <1>2, <1>4, <1>11, PagesAssumption DEF BeforeUpload, Ready
  <1>12. CASE ShareFiles(t)
    <2>1. PICK r \in rows[t] : Click(t, {Msg(t, "share", r.file, "selected")})
      BY <1>12 DEF ShareFiles
    <2>2. Sent(t, {Msg(t, "share", r.file, "selected")})
      BY <1>3, <1>4, OneSent
    <2>3. QED
      BY <1>1, <1>12, <2>1, <2>2 DEF ShareFiles, Ready
  <1>13. CASE Mount(t)
    <2>1. /\ UNCHANGED <<server, serving, trouble>> /\ S!At("idle") /\ Quiet(t)
          /\ clicks' \in 0..MaxClicks /\ net' = net \cup MountRequests(t)
      BY <1>13, PagesAssumption DEF Mount, Asks, PageTyped
    <2>2. Sends(t, MountRequests(t))
      BY <1>13, <2>1, MountSent DEF Mount, Sends
    <2>3. QED
      BY <2>1, <2>2 DEF Clicked
  <1>14. ASSUME NEW R \in SUBSET rows[t], OnSelect(t, R) PROVE Clicked(t)
    BY <1>14 DEF OnSelect, Ready, PageTyped, Clicked
  <1>15. QED
    BY <1>5, <1>6, <1>7, <1>8, <1>9, <1>10, <1>11, <1>12, <1>13, <1>14 DEF Clicks

-----------------------------------------------------------------------------
(* The requests under way.                                                    *)

LEMMA Untaken == ~ \E m \in Message : m = NULL
  BY PagesAssumption

LEMMA Added ==
    ASSUME NEW N, NEW s, Traffic(N, s), NEW t \in Tab, \A m \in N : m.tab # t,
           NEW K, Sent(t, K)
    PROVE  Traffic(N \cup K, s)
  <1>1. {m \in N \cup K : m.state = "taken"} = {m \in N : m.state = "taken"}
    BY DEF Sent
  <1>2. Paired(N \cup K)
    BY DEF Traffic, Sent, Paired
  <1>3. \A m \in N \cup K :
           /\ m.state # "answered" => m.code = NULL /\ m.rows = {} /\ ~m.none
           /\ m.op \notin {"list", "count"} => m.file \in Disk[UserOf[m.tab]]
           /\ Files(m.rows) \subseteq Disk[UserOf[m.tab]]
    <2>1. Files({}) = {}
      BY DEF Files
    <2>2. QED
      BY <2>1 DEF Traffic, Sent
  <1>4. QED
    BY <1>1, <1>2, <1>3 DEF Traffic, Sent

LEMMA Removed ==
    ASSUME NEW N, NEW s, Traffic(N, s), NEW m \in N, NEW r,
           IF m.state = "taken" THEN r = NULL ELSE r = s
    PROVE  Traffic(N \ {m}, r)
  <1>1. Paired(N \ {m})
    BY DEF Traffic, Paired
  <1>2. m # NULL
    BY Untaken DEF Traffic
  <1>3. {n \in N \ {m} : n.state = "taken"} = IF r = NULL THEN {} ELSE {r}
    <2>1. {n \in N \ {m} : n.state = "taken"} = {n \in N : n.state = "taken"} \ {m}
      OBVIOUS
    <2>2. m.state = "taken" <=> m \in {n \in N : n.state = "taken"}
      OBVIOUS
    <2>3. QED
      BY <2>1, <2>2, <1>2 DEF Traffic
  <1>4. QED
    BY <1>1, <1>3 DEF Traffic

\* A request that is settled makes room for those that follow it.
LEMMA Followed ==
    ASSUME NEW N, NEW s, Traffic(N, s), NEW m \in N, m.tab \in Tab, NEW r, NEW K,
           IF m.state = "taken" THEN r = NULL ELSE r = s,
           K = {} \/ (Sent(m.tab, K) /\ \A n \in N \ {m} : n.tab # m.tab)
    PROVE  Traffic((N \ {m}) \cup K, r)
  <1>1. Traffic(N \ {m}, r)
    BY Removed
  <1>2. CASE K = {}
    BY <1>1, <1>2, Zenon
  <1>3. CASE Sent(m.tab, K) /\ \A n \in N \ {m} : n.tab # m.tab
    BY <1>1, <1>3, Added
  <1>4. QED
    BY <1>2, <1>3

\* The request m with another state, a code, rows and what their total says.
Turned(m, state, code, R, none) ==
    [m EXCEPT !.state = state, !.code = code, !.rows = R, !.none = none]

LEMMA TurnedFields ==
    ASSUME NEW m \in Message, NEW state \in {"sent", "taken", "answered"},
           NEW code \in 0..5 \cup {NULL}, NEW R \in SUBSET Row, NEW none \in BOOLEAN
    PROVE  LET n == Turned(m, state, code, R, none)
           IN  /\ n \in Message /\ n.tab = m.tab /\ n.op = m.op /\ n.file = m.file
               /\ n.by = m.by /\ n.state = state /\ n.code = code
               /\ n.rows = R /\ n.none = none
  BY DEF Turned, Message

LEMMA TurnedTraffic ==
    ASSUME NEW N, NEW s, Traffic(N, s), NEW m \in N, NEW r,
           NEW state \in {"taken", "answered"}, NEW code \in 0..5 \cup {NULL},
           NEW R \in SUBSET Row, Files(R) \subseteq Disk[UserOf[m.tab]],
           NEW none \in BOOLEAN,
           state # "answered" => code = NULL /\ R = {} /\ ~none,
           s = NULL \/ s = m,
           r = IF state = "taken" THEN Turned(m, state, code, R, none) ELSE NULL
    PROVE  Traffic((N \ {m}) \cup {Turned(m, state, code, R, none)}, r)
  <1> DEFINE n == Turned(m, state, code, R, none)
             T == (N \ {m}) \cup {n}
  <1>1. m \in Message
    BY DEF Traffic
  <1>2. /\ n \in Message /\ n.tab = m.tab /\ n.op = m.op /\ n.file = m.file
        /\ n.by = m.by /\ n.state = state /\ n.code = code /\ n.rows = R
        /\ n.none = none
    BY <1>1, TurnedFields
  <1> HIDE DEF n
  <1>3. Paired(T)
    BY <1>2 DEF Traffic, Paired, Still
  <1>4. \A k \in N \ {m} : k.state # "taken"
    <2>1. ASSUME NEW k \in N, k.state = "taken" PROVE k = m
      <3>1. k \in {j \in N : j.state = "taken"}
        BY <2>1
      <3>2. QED
        BY <3>1 DEF Traffic
    <2>2. QED
      BY <2>1
  <1>5. {k \in T : k.state = "taken"} = IF r = NULL THEN {} ELSE {r}
    <2>1. n # NULL
      BY <1>2, Untaken
    <2>2. r = IF state = "taken" THEN n ELSE NULL
      BY DEF n
    <2>3. {k \in T : k.state = "taken"} = IF state = "taken" THEN {n} ELSE {}
      BY <1>2, <1>4
    <2>4. QED
      BY <2>1, <2>2, <2>3
  <1>6. \A k \in T : /\ k \in Message
                     /\ k.state # "answered" =>
                           k.code = NULL /\ k.rows = {} /\ ~k.none
                     /\ k.op \notin {"list", "count"} => k.file \in Disk[UserOf[k.tab]]
                     /\ Files(k.rows) \subseteq Disk[UserOf[k.tab]]
    BY <1>2 DEF Traffic
  <1>7. Traffic(T, r)
    BY <1>3, <1>5, <1>6 DEF Traffic
  <1>8. QED
    BY <1>7 DEF n

\* What follows an answer is sent by a page that has nothing else under way.
LEMMA Alone ==
    ASSUME NEW s, Traffic(net, s), NEW m \in net, m.op \notin {"pv", "list", "count"},
           m.by = "batch" => LastOfBatch(m)
    PROVE  \A n \in net \ {m} : n.tab # m.tab
  <1>1. SUFFICES ASSUME NEW n \in net \ {m}, n.tab = m.tab PROVE FALSE
    OBVIOUS
  <1>2. m.by = "batch" /\ n.by = "batch"
    BY <1>1 DEF Traffic, Paired, Still
  <1>3. QED
    BY <1>1, <1>2 DEF LastOfBatch, Of

LEMMA RefreshSent ==
    ASSUME NEW m \in Message
    PROVE  Sent(m.tab, Refresh(m)) /\ m.tab \in Tab /\ \A k \in Refresh(m) : ~Mild(k)
  <1>1. m.tab \in Tab /\ m.file \in File /\ "list" \in Singles
    BY DEF Message, PageOps, Singles
  <1>2. QED
    BY <1>1, OneSent DEF Refresh

LEMMA FollowUpSent ==
    ASSUME NEW s, Traffic(net, s), NEW m \in net
    PROVE  \/ FollowUp(m) = {}
           \/ /\ Sent(m.tab, FollowUp(m)) /\ \A k \in FollowUp(m) : ~Mild(k)
              /\ \A n \in net \ {m} : n.tab # m.tab
              /\ m.op \notin {"pv", "list", "count"}
  <1>1. m \in Message /\ m.op \in PageOps \ {"rank"} /\ m.tab \in Tab
        /\ m.file \in File
    BY DEF Traffic, Message
  <1>2. CASE m.op \in {"list", "pv", "count"}
    BY <1>2 DEF FollowUp
  <1>3. CASE m.op \in {"share", "upload", "cancel", "del", "md5"} /\ FollowUp(m) # {}
    <2>1. m.by = "batch" => LastOfBatch(m)
      <3>1. m.by = "batch" => m.op = "del"
        BY DEF Traffic, Paired
      <3>2. QED
        BY <1>3, <3>1 DEF FollowUp
    <2>2. \A n \in net \ {m} : n.tab # m.tab
      BY <1>3, <2>1, Alone
    <2>3. Sent(m.tab, FollowUp(m)) /\ \A k \in FollowUp(m) : ~Mild(k)
      <3>1. CASE FollowUp(m) = Refresh(m)
        BY <1>1, <3>1, RefreshSent
      <3>2. CASE m.op = "md5" /\ FollowUp(m) = {Msg(m.tab, "upload", m.file, "row")}
        <4>1. m.file \in Disk[UserOf[m.tab]] /\ "upload" \in Singles
          BY <3>2 DEF Traffic, PageOps, Singles
        <4>2. QED
          BY <1>1, <3>2, <4>1, OneSent
      <3>3. FollowUp(m) = Refresh(m) \/ (m.op = "md5" /\ FollowUp(m) = {Msg(m.tab, "upload", m.file, "row")})
        <4>1. CASE m.op = "md5"
          <5>1. FollowUp(m) = CASE m.code = S!OK -> Refresh(m)
                                [] m.code = S!FAIL /\ m.file \notin TooBig ->
                                      {Msg(m.tab, "upload", m.file, "row")}
                                [] OTHER -> {}
            BY <4>1 DEF FollowUp
          <5>2. QED
            BY <1>3, <4>1, <5>1
        <4>2. CASE m.op \in {"share", "upload", "cancel", "del"}
          BY <1>3, <4>2 DEF FollowUp
        <4>3. QED
          BY <1>3, <4>1, <4>2
      <3>4. QED
        BY <3>1, <3>2, <3>3
    <2>4. QED
      BY <1>3, <2>2, <2>3
  <1>4. QED
    BY <1>1, <1>2, <1>3 DEF PageOps

LEMMA DropTraffic ==
    ASSUME NEW s, Traffic(net, s), NEW m \in net, NEW r,
           IF m.state = "taken" THEN r = NULL ELSE r = s, Drop(m)
    PROVE  Traffic(net', r)
  <1> DEFINE K == IF m.by = "batch" /\ LastOfBatch(m) THEN Refresh(m) ELSE {}
  <1>1. m \in Message
    BY DEF Traffic
  <1>2. K = {} \/ (Sent(m.tab, K) /\ \A n \in net \ {m} : n.tab # m.tab)
    <2>1. CASE m.by = "batch" /\ LastOfBatch(m)
      <3>1. m.op = "del"
        BY <2>1 DEF Traffic, Paired
      <3>2. \A n \in net \ {m} : n.tab # m.tab
        BY <2>1, <3>1, Alone
      <3>3. QED
        BY <1>1, <2>1, <3>2, RefreshSent
    <2>2. QED
      BY <2>1
  <1>3. net' = (net \ {m}) \cup K /\ m.tab \in Tab
    BY <1>1 DEF Drop, Message
  <1> HIDE DEF K
  <1>4. Traffic((net \ {m}) \cup K, r)
    BY <1>2, <1>3, Followed
  <1>5. QED
    BY <1>3, <1>4, Zenon

-----------------------------------------------------------------------------
(* Every step keeps the pages and the server sound.                           *)

LEMMA SameAt == \A pc : S!At(pc) <=> P!At(pc)
  BY DEF S!At, P!At

LEMMA ServedIsTaken ==
    ASSUME Sound
    PROVE  /\ serving # NULL => /\ serving \in net /\ serving.state = "taken"
                                /\ serving.op # "rank"
           /\ \A m \in net : m \in Message /\ (m.state = "taken" => m = serving)
           /\ S!At("idle") => serving = NULL
  <1> DEFINE T == {m \in net : m.state = "taken"}
  <1>1. (T = IF serving = NULL THEN {} ELSE {serving}) /\ net \subseteq Message
    BY DEF Sound, Traffic
  <1>2. \A m : m \in T <=> m \in net /\ m.state = "taken"
    OBVIOUS
  <1>3. (serving # NULL => serving \in T) /\ \A m \in T : m = serving
    <2> HIDE DEF T
    <2>1. QED
      BY <1>1
  <1> HIDE DEF T
  <1>4. S!At("idle") => serving = NULL
    BY SameAt DEF Sound, Busy
  <1>5. QED
    BY <1>1, <1>2, <1>3, <1>4 DEF Message

LEMMA StillBusy ==
    ASSUME Busy, UNCHANGED server, serving' = serving \/ serving' = NULL PROVE Busy'
  BY DEF Busy, server, P!At

LEMMA SoundStarts == Init => Sound
  <1> SUFFICES ASSUME Init PROVE Sound
    OBVIOUS
  <1>1. Server
    BY ServerStarts DEF Init
  <1>2. PageTyped /\ Yours
    BY PagesAssumption DEF Init, PageTyped, Yours, Files
  <1>3. Traffic(net, serving)
    <2>1. ASSUME NEW m \in net
          PROVE  \E t \in Tab : m.tab = t /\ m \in MountRequests(t) /\ Sent(t, MountRequests(t))
      <3>1. PICK t \in Tab : m \in MountRequests(t)
        BY DEF Init
      <3>2. QED
        BY <3>1, MountSent DEF Sent
    <2>2. \A m \in net : /\ m \in Message /\ m.state = "sent" /\ m.code = NULL
                         /\ m.rows = {} /\ ~m.none
                         /\ m.op \notin {"list", "count"} => m.file \in Disk[UserOf[m.tab]]
      BY <2>1 DEF Sent
    <2>3. Paired(net)
      <3>1. ASSUME NEW m \in net, NEW n \in net, m.tab = n.tab
            PROVE  \E M : m \in M /\ n \in M /\ Paired(M)
        BY <2>1, <3>1 DEF Sent
      <3>2. QED
        BY <3>1 DEF Paired
    <2>4. \A m \in net : Files(m.rows) = {}
      BY <2>2 DEF Files
    <2>5. QED
      BY <2>2, <2>3, <2>4 DEF Traffic, Init
  <1>4. Busy
    BY DEF Init, S!Init, S!Idle, Busy, P!At
  <1>5. QED
    BY <1>1, <1>2, <1>3, <1>4 DEF Sound

LEMMA SoundClick == ASSUME Sound, NEW t \in Tab, Clicks(t) PROVE Sound'
  <1>1. Clicked(t)
    BY ClickSends DEF Sound
  <1>2. Server' /\ Busy'
    BY <1>1, ServerStill, StillBusy DEF Sound, Clicked
  <1>3. Yours'
    <2>1. \A s \in Tab : rows'[s] \in {rows[s], {}}
      BY <1>1 DEF Clicked, Sends, Sound, PageTyped
    <2>2. Files({}) = {}
      BY DEF Files
    <2>3. QED
      BY <2>1, <2>2 DEF Sound, Yours
  <1>4. PageTyped'
    BY <1>1 DEF Sound, PageTyped, Clicked, Sends
  <1>5. Traffic(net', serving)
    <2>1. CASE UNCHANGED net
      BY <2>1, Zenon DEF Sound
    <2>2. ASSUME NEW M, Sent(t, M), net' = net \cup M PROVE Traffic(net', serving)
      <3>1. \A m \in net : m.tab # t
        BY <1>1 DEF Clicked, Quiet, Of
      <3>2. Traffic(net \cup M, serving)
        BY <2>2, <3>1, Added DEF Sound
      <3>3. QED
        BY <2>2, <3>2, Zenon
    <2>3. QED
      BY <1>1, <2>1, <2>2 DEF Clicked, Sends
  <1>6. QED
    BY <1>1, <1>2, <1>3, <1>4, <1>5 DEF Sound, Traffic, Clicked

LEMMA SoundTake == ASSUME Sound, NEW m \in net, Take(m) PROVE Sound'
  <1>1. m \in Message /\ serving = NULL /\ m.code = NULL /\ m.rows = {} /\ ~m.none
    <2>1. S!At("idle")
      BY DEF Take, S!Dispatch
    <2>2. QED
      BY <2>1, ServedIsTaken DEF Take, Sound, Traffic
  <1>2. UserOf[m.tab] \in User /\ m.op \in PageOps \ {"rank"} /\ m.file \in File
    BY <1>1, PagesAssumption DEF Message
  <1>3. Server' /\ ~P!At("idle")' /\ req'.op = m.op /\ req'.user = UserOf[m.tab]
    <2>1. m.op \notin {"list", "count"} => m.file \in Disk[UserOf[m.tab]]
      BY DEF Sound, Traffic
    <2>2. QED
      BY <1>2, <2>1, ServerTakes DEF Take, Sound
  <1> DEFINE n == Turned(m, "taken", NULL, {}, FALSE)
  <1>4. serving' = n /\ net' = (net \ {m}) \cup {n}
    <2>1. [m EXCEPT !.state = "taken"] = Turned(m, "taken", NULL, {}, FALSE)
      BY <1>1 DEF Turned, Message
    <2>2. QED
      BY <2>1 DEF Take, Becomes, Turned
  <1>5. n.op = m.op /\ n.tab = m.tab
    BY <1>1 DEF Turned, Message
  <1>6. Traffic((net \ {m}) \cup {n}, n)
    <2>1. Files({}) = {}
      BY DEF Files
    <2>2. QED
      BY <1>1, <2>1, TurnedTraffic DEF Sound
  <1> HIDE DEF n
  <1>7. Traffic(net', serving')
    BY <1>4, <1>6, Zenon
  <1>8. Busy'
    BY <1>3, <1>4, <1>5 DEF Busy
  <1>9. PageTyped' /\ Yours'
    BY DEF Take, page, Sound, PageTyped, Yours
  <1>10. QED
    BY <1>3, <1>7, <1>8, <1>9 DEF Sound, Traffic

LEMMA SoundRefuse == ASSUME Sound, NEW m \in net, Refuse(m) PROVE Sound'
  <1>1. serving = NULL /\ m \in Message /\ UNCHANGED <<server, page, serving, clicks>>
    BY ServedIsTaken DEF Refuse
  <1>2. Server' /\ Busy' /\ PageTyped' /\ Yours'
    <2>1. trouble' \in 0..MaxTrouble
      BY PagesAssumption DEF Refuse, Sound, PageTyped
    <2>2. QED
      BY <1>1, <2>1, ServerStill, StillBusy DEF Sound, PageTyped, Yours, page
  <1>3. PICK code \in 0..5 : net' = (net \ {m}) \cup {Turned(m, "answered", code, {}, FALSE)}
    <2>1. S!FAIL \in 0..5 /\ REFUSED \in 0..5
      BY DEF S!FAIL, REFUSED
    <2>2. CASE m.op \in {"list", "count"}
      BY <2>1, <2>2 DEF Refuse, Becomes, Turned
    <2>3. CASE m.op \notin {"list", "count"}
      BY <2>1, <2>3 DEF Refuse, Becomes, Turned
    <2>4. QED
      BY <2>2, <2>3
  <1>4. Traffic((net \ {m}) \cup {Turned(m, "answered", code, {}, FALSE)}, NULL)
    <2>1. Files({}) = {}
      BY DEF Files
    <2>2. QED
      BY <1>1, <2>1, TurnedTraffic DEF Sound
  <1>5. Traffic(net', serving')
    BY <1>1, <1>3, <1>4, Zenon
  <1>6. QED
    BY <1>2, <1>5 DEF Sound, Traffic

LEMMA SoundSettle == ASSUME Sound, NEW m \in net, Settle(m) PROVE Sound'
  <1>1. UNCHANGED <<server, chosen, serving, clicks, trouble>> /\ m.state # "taken"
    BY DEF Settle
  <1>2. m \in Message /\ m.tab \in Tab /\ m.rows \subseteq Row
        /\ Files(m.rows) \subseteq Disk[UserOf[m.tab]]
    BY DEF Sound, Traffic, Message
  <1>3. Server' /\ Busy'
    BY <1>1, ServerStill, StillBusy DEF Sound
  <1>4. Traffic((net \ {m}) \cup FollowUp(m), serving)
    <2>1. FollowUp(m) = {} \/ (Sent(m.tab, FollowUp(m)) /\ \A n \in net \ {m} : n.tab # m.tab)
      BY FollowUpSent DEF Sound
    <2>2. QED
      BY <1>1, <1>2, <2>1, Followed DEF Sound
  <1>5. Traffic(net', serving')
    BY <1>1, <1>4, Zenon DEF Settle
  <1>6. TableAfter(m) \subseteq Row /\ Files(TableAfter(m)) \subseteq Disk[UserOf[m.tab]]
    <2>1. TableAfter(m) \in {rows[m.tab], m.rows, {}} /\ Files({}) = {}
      BY DEF TableAfter, Files
    <2>2. QED
      BY <1>2, <2>1 DEF Sound, PageTyped, Yours
  <1>7. PageTyped' /\ Yours'
    <2>1. (m.code # S!OK) \in BOOLEAN /\ Minded(m) \in BOOLEAN /\ Ignored(m) \in BOOLEAN
      BY DEF Minded, Ignored
    <2>2. QED
      BY <1>1, <1>2, <1>6, <2>1 DEF Settle, Sound, PageTyped, Yours
  <1>8. QED
    BY <1>3, <1>5, <1>7 DEF Sound, Traffic

LEMMA SoundDrop ==
    ASSUME Sound, NEW m \in net, Drop(m), Server', Busy',
           serving' = IF m.state = "taken" THEN NULL ELSE serving,
           clicks' = clicks, trouble' \in 0..MaxTrouble
    PROVE  Sound'
  <1>1. Traffic(net', serving')
    BY DropTraffic DEF Sound
  <1>2. PageTyped' /\ Yours'
    BY DEF Drop, Sound, PageTyped, Yours
  <1>3. QED
    BY <1>1, <1>2 DEF Sound, Traffic

LEMMA SoundLose == ASSUME Sound, NEW m \in net, Lose(m) PROVE Sound'
  <1>1. serving' = IF m.state = "taken" THEN NULL ELSE serving
    <2>1. m.state = "taken" <=> serving = m
      BY ServedIsTaken, Untaken
    <2>2. QED
      BY <2>1 DEF Lose
  <1>2. Server' /\ Busy'
    BY <1>1, ServerStill, StillBusy DEF Lose, Sound
  <1>3. trouble' \in 0..MaxTrouble
    BY PagesAssumption DEF Lose, Sound, PageTyped
  <1>4. QED
    BY <1>1, <1>2, <1>3, SoundDrop DEF Lose

LEMMA SoundServe ==
    ASSUME Sound, S!Handle \/ S!SqlFails \/ S!QueryFails \/ S!RedisFails \/ S!DfsFails,
           UNCHANGED <<page, net, serving, clicks, trouble>>
    PROVE  Sound'
  <1>1. Server' /\ P!GoesOn
    BY ServerServes DEF Sound
  <1>2. Busy'
    BY <1>1, ServedIsTaken DEF Sound, Busy, P!GoesOn
  <1>3. QED
    BY <1>1, <1>2 DEF Sound, PageTyped, Yours, page

LEMMA SoundLoss ==
    ASSUME Sound, S!RedisLoss \/ S!RequestRanking,
           UNCHANGED <<page, net, serving, clicks, trouble>>
    PROVE  Sound'
  <1>1. Server'
    BY ServerEnds DEF Sound
  <1>2. Busy'
    <2>1. CASE S!RedisLoss
      BY <2>1 DEF S!RedisLoss, Sound, Busy, P!At
    <2>2. CASE S!RequestRanking
      BY <2>2, ServedIsTaken
      DEF S!RequestRanking, S!Idle, S!FirstStep, Busy, P!At
    <2>3. QED
      BY <2>1, <2>2
  <1>3. QED
    BY <1>1, <1>2 DEF Sound, PageTyped, Yours, page

LEMMA SoundAnswer == ASSUME Sound, Answer PROVE Sound'
  <1>1. Server' /\ Busy'
    <2>1. Server'
      BY ServerEnds DEF Sound, Answer
    <2>2. QED
      BY <2>1 DEF Answer, S!Respond, S!Idle, Busy
  <1>2. PageTyped' /\ Yours' /\ serving' = NULL
    BY DEF Answer, Sound, PageTyped, Yours, page
  <1>3. CASE serving = NULL
    BY <1>1, <1>2, <1>3 DEF Answer, Sound, Traffic
  <1>4. CASE serving # NULL
    <2> DEFINE R == IF serving.op = "list" THEN S!Listed(req.user) ELSE {}
               none == serving.op = "list" /\ userCount[req.user] = 0
               n == Turned(serving, "answered", req.code, R, none)
    <2>1. /\ serving \in net /\ serving \in Message /\ serving.tab \in Tab
          /\ req.user = UserOf[serving.tab] /\ req.user \in User
      BY <1>4, ServedIsTaken, PagesAssumption DEF Message, Sound, Busy
    <2>2. R \subseteq Row /\ Files(R) \subseteq Disk[UserOf[serving.tab]]
          /\ req.code \in 0..5 /\ none \in BOOLEAN
      <3>1. Files({}) = {}
        BY DEF Files
      <3>2. QED
        BY <2>1, <3>1, ServerTyped, SameListed DEF Sound
    <2>3. net' = (net \ {serving}) \cup {n}
      BY <1>4 DEF Answer, Becomes, Turned
    <2> HIDE DEF R, none
    <2>4. Traffic((net \ {serving}) \cup {n}, NULL)
      BY <2>1, <2>2, TurnedTraffic DEF Sound
    <2> HIDE DEF n
    <2>5. Traffic(net', serving')
      BY <1>2, <2>3, <2>4, Zenon
    <2>6. QED
      BY <1>1, <1>2, <2>5 DEF Sound, Traffic
  <1>5. QED
    BY <1>3, <1>4

LEMMA SoundDies == ASSUME Sound, ServerDies PROVE Sound'
  <1>1. Server' /\ Busy'
    <2>1. Server'
      BY ServerEnds DEF Sound, ServerDies
    <2>2. QED
      BY <2>1 DEF ServerDies, S!Crash, S!Idle, Busy
  <1>2. CASE serving = NULL
    BY <1>1, <1>2 DEF ServerDies, Sound, Traffic, PageTyped, Yours, page
  <1>3. CASE serving # NULL
    <2>1. serving \in net /\ serving.state = "taken"
      BY <1>3, ServedIsTaken
    <2>2. Drop(serving) /\ serving' = NULL /\ clicks' = clicks /\ trouble' \in 0..MaxTrouble
      BY <1>3 DEF ServerDies, Sound, PageTyped
    <2>3. QED
      BY <1>1, <2>1, <2>2, SoundDrop
  <1>4. QED
    BY <1>2, <1>3

LEMMA SoundStep == Sound /\ [Next]_vars => Sound'
  <1> SUFFICES ASSUME Sound, [Next]_vars PROVE Sound'
    OBVIOUS
  <1>1. ASSUME NEW t \in Tab, Clicks(t) PROVE Sound'
    BY <1>1, SoundClick
  <1>2. ASSUME NEW m \in net, Take(m) \/ Refuse(m) \/ Settle(m) \/ Lose(m)
        PROVE  Sound'
    BY <1>2, SoundTake, SoundRefuse, SoundSettle, SoundLose
  <1>3. CASE OpenRanking
    BY <1>3, SoundLoss DEF OpenRanking
  <1>4. CASE Serve
    BY <1>4, SoundServe DEF Serve
  <1>5. CASE CallFails
    BY <1>5, SoundServe, SoundLoss DEF CallFails
  <1>6. CASE Answer \/ ServerDies
    BY <1>6, SoundAnswer, SoundDies
  <1>7. CASE UNCHANGED vars
    <2>1. Server' /\ Busy'
      BY <1>7, ServerStill, StillBusy DEF vars, Sound
    <2>2. QED
      BY <1>7, <2>1 DEF vars, Sound, Traffic, PageTyped, Yours, page
  <1>8. QED
    BY <1>1, <1>2, <1>3, <1>4, <1>5, <1>6, <1>7 DEF Next

LEMMA AlwaysSound == Spec => []Sound
  <1>1. QED
    BY SoundStarts, SoundStep, PTL DEF Spec

\* Whatever the pages ask for, in whatever order it is served, answered or
\* lost, every variable is of its type, and at most one request is taken: the
\* one the server handles.
THEOREM TypeCorrect == Spec => []TypeOK
  <1>1. Sound => TypeOK
    BY ServerTyped DEF Sound, PageTyped, Traffic, TypeOK
  <1>2. QED
    BY <1>1, AlwaysSound, PTL

-----------------------------------------------------------------------------
(* The table is true.                                                         *)

\* The pages are of different users, who have files of different digests: no
\* handler tells a page what another one did to the list it shows.
Apart ==
    \A s, t \in Tab : s # t =>
        /\ UserOf[s] # UserOf[t]
        /\ \A f \in Disk[UserOf[s]], g \in Disk[UserOf[t]] : Md5Of[f] # Md5Of[g]

\* The table of page t lists what is there once nothing is under way whose
\* failure would be shown, and it is up to date, or the page ignored an answer,
\* once nothing but a count is, ...
Up(t) ==
    LET u == UserOf[t]
    IN  ~error[t] =>
            /\ (\A m \in Of(t) : Mild(m)) =>
                  P!Backed(rows[t], P!Listed(u)) /\ Gentle(u)
            /\ (\A m \in Of(t) : Still(m)) =>
                  P!Aside(u, Disk) /\ (~silent[t] => rows[t] = P!Listed(u))

\* ... and the rows of an answer are, for as long as it is on its way.
Answered(t) ==
    \A m \in Of(t) : m.op = "list" /\ m.state # "sent" =>
        /\ P!Aside(UserOf[t], Disk)
        /\ m.state = "answered" /\ m.code = S!OK => m.rows = P!Listed(UserOf[t])

Fresh(t) == Up(t) /\ Answered(t)
Shown == \A t \in Tab : Fresh(t)

LEMMA UpKept ==
    ASSUME NEW t \in Tab, Up(t), ListKept(UserOf[t]),
           rows'[t] = rows[t], error'[t] = error[t], silent'[t] = silent[t],
           (\A m \in Of(t)' : Mild(m)) => \A m \in Of(t) : Mild(m),
           (\A m \in Of(t)' : Still(m)) => \A m \in Of(t) : Still(m)
    PROVE  Up(t)'
  BY BackedOften DEF Up, ListKept

LEMMA FreshStill ==
    ASSUME NEW t \in Tab, Fresh(t), ListKept(UserOf[t]),
           rows'[t] = rows[t], error'[t] = error[t], silent'[t] = silent[t],
           Of(t)' = Of(t)
    PROVE  Fresh(t)'
  <1>1. Up(t)'
    BY UpKept DEF Fresh
  <1>2. QED
    BY <1>1 DEF Fresh, Answered, ListKept

LEMMA OfOthers ==
    ASSUME NEW m, NEW K, net' = (net \ {m}) \cup K, \A k \in K : k.tab = m.tab,
           NEW t, t # m.tab
    PROVE  Of(t)' = Of(t)
  BY DEF Of

LEMMA IdleAside ==
    ASSUME Sound, S!At("idle") PROVE \A u \in User : P!Aside(u, Disk)
  <1>1. req.op = NULL
    BY SameAt DEF Sound, Busy
  <1>2. NULL \notin P!EditOps
    BY PagesAssumption DEF S!AllOps, P!EditOps
  <1>3. QED
    BY <1>1, <1>2 DEF P!Aside

LEMMA StillKept ==
    ASSUME Sound, UNCHANGED server
    PROVE  \A u \in User : ListKept(u) /\ P!Listed(u)' = P!Listed(u)
  BY ServerStill, ListsStay DEF Sound, server

LEMMA UsersOfTabs == \A t \in Tab : UserOf[t] \in User
  BY PagesAssumption

LEMMA ShownStarts == Init => Shown
  <1> SUFFICES ASSUME Init, NEW t \in Tab PROVE Fresh(t)
    BY DEF Shown
  <1>1. Of(t) = MountRequests(t)
    <2>1. \A s \in Tab : \A m \in MountRequests(s) : m.tab = s
      BY MountSent DEF Sent
    <2>2. QED
      BY <2>1 DEF Init, Of
  <1>2. \E m \in Of(t) : ~Mild(m)
    BY <1>1, MountSent
  <1>3. \A m \in Of(t) : m.state = "sent"
    BY <1>1, MountSent DEF Sent
  <1>4. QED
    BY <1>2, <1>3 DEF Fresh, Up, Answered, Mild

LEMMA ShownClick == ASSUME Sound, Shown, NEW t \in Tab, Clicks(t) PROVE Shown'
  <1>1. Clicked(t)
    BY ClickSends DEF Sound
  <1>2. \A s \in Tab : ListKept(UserOf[s])
    BY <1>1, StillKept, UsersOfTabs DEF Clicked
  <1>3. ASSUME UNCHANGED <<net, rows, error, silent>> PROVE Shown'
    BY <1>2, <1>3, FreshStill DEF Of, Shown
  <1>4. ASSUME NEW M, Sends(t, M) PROVE Shown'
    <2>1. Of(t)' = M /\ Of(t) = {}
      BY <1>1, <1>4 DEF Sends, Sent, Clicked, Quiet, Of
    <2>2. Fresh(t)'
      <3>1. \A m \in M : m.state = "sent"
        BY <1>4 DEF Sends, Sent
      <3>2. ~ \A m \in M : Still(m)
        BY <1>4 DEF Sends, Sent
      <3>3. ASSUME \A m \in M : Mild(m)
            PROVE  /\ P!Backed(rows'[t], P!Listed(UserOf[t])')
                   /\ Gentle(UserOf[t])'
        <4>1. Ready(t) /\ rows' = rows
          BY <1>4, <3>3 DEF Sends
        <4>2. P!Backed(rows[t], P!Listed(UserOf[t])) /\ Gentle(UserOf[t])
          BY <2>1, <4>1 DEF Ready, Shown, Fresh, Up
        <4>3. QED
          BY <1>2, <4>1, <4>2, BackedOften DEF ListKept
      <3>4. QED
        BY <2>1, <3>1, <3>2, <3>3 DEF Fresh, Up, Answered
    <2>3. ASSUME NEW s \in Tab, s # t PROVE Fresh(s)'
      <3>1. Of(s)' = Of(s)
        BY <1>4, <2>3 DEF Sends, Sent, Of
      <3>2. rows'[s] = rows[s] /\ error'[s] = error[s] /\ silent'[s] = silent[s]
        BY <1>4, <2>3 DEF Sends, Sound, PageTyped
      <3>3. QED
        BY <1>2, <3>1, <3>2, FreshStill DEF Shown
    <2>4. QED
      BY <2>2, <2>3 DEF Shown
  <1>5. QED
    BY <1>1, <1>3, <1>4 DEF Clicked

\* A request that is taken, refused or answered stays the request it was.
LEMMA TurnedOf ==
    ASSUME NEW m \in net, NEW n, n.tab = m.tab, n.op = m.op, n.by = m.by,
           net' = (net \ {m}) \cup {n}
    PROVE  /\ Of(m.tab)' = (Of(m.tab) \ {m}) \cup {n}
           /\ (\A k \in Of(m.tab)' : Mild(k)) => \A k \in Of(m.tab) : Mild(k)
           /\ (\A k \in Of(m.tab)' : Still(k)) => \A k \in Of(m.tab) : Still(k)
           /\ \A t \in Tab : t # m.tab => Of(t)' = Of(t)
  <1>1. Of(m.tab)' = (Of(m.tab) \ {m}) \cup {n}
    BY DEF Of
  <1>2. (Mild(n) <=> Mild(m)) /\ (Still(n) <=> Still(m))
    BY DEF Mild, Still
  <1>3. QED
    BY <1>1, <1>2 DEF Of

LEMMA ShownTake ==
    ASSUME Apart, Sound, Shown, NEW m \in net, Take(m) PROVE Shown'
  <1> DEFINE n == Turned(m, "taken", NULL, {}, FALSE)
             u == UserOf[m.tab]
  <1>1. /\ m \in Message /\ m.tab \in Tab /\ u \in User /\ m.file \in File
        /\ m.op \in PageOps \ {"rank"}
    BY ServedIsTaken, UsersOfTabs DEF Message
  <1>2. m.op \notin {"list", "count"} => m.file \in Disk[u]
    BY DEF Sound, Traffic
  <1>3. /\ \A v \in User : P!Listed(v)' = P!Listed(v)
        /\ \A v \in User :
              (\/ m.op \in {"list", "pv", "count"}
               \/ v # u /\ \A g \in Disk[v] : Md5Of[g] # Md5Of[m.file])
                 => P!Aside(v, Disk)'
        /\ req'.op = m.op /\ req'.user = u
    BY <1>1, <1>2, ServerTakes DEF Take, Sound
  <1>4. n.tab = m.tab /\ n.op = m.op /\ n.by = m.by /\ n.state = "taken"
    BY <1>1 DEF Turned, Message
  <1>5. net' = (net \ {m}) \cup {n} /\ rows' = rows /\ error' = error /\ silent' = silent
    BY DEF Take, Becomes, Turned, page
  <1> HIDE DEF n
  <1>6. /\ Of(m.tab)' = (Of(m.tab) \ {m}) \cup {n}
        /\ (\A k \in Of(m.tab)' : Mild(k)) => \A k \in Of(m.tab) : Mild(k)
        /\ (\A k \in Of(m.tab)' : Still(k)) => \A k \in Of(m.tab) : Still(k)
        /\ \A t \in Tab : t # m.tab => Of(t)' = Of(t)
    BY <1>4, <1>5, TurnedOf
  <1>7. ASSUME NEW t \in Tab, t # m.tab PROVE Fresh(t)'
    <2>1. m.op \in {"list", "count"}
            \/ (UserOf[t] # u /\ \A g \in Disk[UserOf[t]] : Md5Of[g] # Md5Of[m.file])
      BY <1>1, <1>2, <1>7 DEF Apart
    <2>2. ListKept(UserOf[t])
      BY <1>3, <2>1, UsersOfTabs, BackedOften DEF ListKept, Gentle
    <2>3. QED
      BY <1>5, <1>6, <1>7, <2>2, FreshStill DEF Shown
  <1>8. Fresh(m.tab) /\ m \in Of(m.tab)
    BY <1>1 DEF Shown, Of
  <1>9. Up(m.tab)'
    <2>1. Still(m) => P!Aside(u, Disk)'
      BY <1>1, <1>3 DEF Still
    <2>2. ASSUME ~error[m.tab], \A k \in Of(m.tab) : Mild(k)
          PROVE  P!Backed(rows[m.tab], P!Listed(u)') /\ Gentle(u)'
      <3>1. P!Backed(rows[m.tab], P!Listed(u)) /\ (Still(m) \/ m.by = "selected")
        BY <1>8, <2>2 DEF Fresh, Up, Mild
      <3>2. m.by = "selected" => m.op = "share"
        BY DEF Sound, Traffic, Paired
      <3>3. QED
        BY <1>1, <1>3, <2>1, <3>1, <3>2 DEF Gentle
    <2>3. ASSUME ~error[m.tab], \A k \in Of(m.tab) : Still(k)
          PROVE  P!Aside(u, Disk)' /\ (~silent[m.tab] => rows[m.tab] = P!Listed(u)')
      BY <1>1, <1>3, <1>8, <2>1, <2>3 DEF Fresh, Up
    <2>4. QED
      BY <1>5, <1>6, <2>2, <2>3 DEF Up
  <1>10. Answered(m.tab)'
    <2>1. SUFFICES ASSUME NEW k \in Of(m.tab)', k.op = "list", k.state # "sent"
                   PROVE  /\ P!Aside(u, Disk)'
                          /\ k.state = "answered" /\ k.code = S!OK => k.rows = P!Listed(u)'
      BY DEF Answered, S!OK
    <2>2. CASE k = n
      BY <1>1, <1>3, <1>4, <2>1, <2>2
    <2>3. CASE k \in Of(m.tab) \ {m}
      <3>1. m.op \in {"list", "pv", "count"}
        BY <2>1, <2>3 DEF Of, Sound, Traffic, Paired, Still
      <3>2. k.state = "answered" /\ k.code = S!OK => k.rows = P!Listed(u)
        BY <1>8, <2>1, <2>3 DEF Fresh, Answered
      <3>3. QED
        BY <1>1, <1>3, <3>1, <3>2
    <2>4. QED
      BY <1>6, <2>1, <2>2, <2>3
  <1>11. QED
    BY <1>7, <1>9, <1>10 DEF Shown, Fresh

LEMMA FreshTurned ==
    ASSUME NEW m \in net, m.tab \in Tab, Fresh(m.tab), ListKept(UserOf[m.tab]),
           NEW n, n.tab = m.tab, n.op = m.op, n.by = m.by,
           net' = (net \ {m}) \cup {n}, UNCHANGED page,
           m.op = "list" =>
               /\ P!Aside(UserOf[m.tab], Disk)
               /\ n.code = S!OK => n.rows = P!Listed(UserOf[m.tab])
    PROVE  Fresh(m.tab)'
  <1> DEFINE t == m.tab
  <1>1. Of(t)' = (Of(t) \ {m}) \cup {n}
    BY TurnedOf
  <1>2. Up(t)'
    BY TurnedOf, UpKept DEF Fresh, page
  <1>3. Answered(t)'
    <2>1. ASSUME NEW k \in Of(t)', k.op = "list", k.state # "sent"
          PROVE  /\ P!Aside(UserOf[t], Disk)'
                 /\ k.state = "answered" /\ k.code = S!OK => k.rows = P!Listed(UserOf[t])'
      <3>1. CASE k = n
        BY <2>1, <3>1 DEF ListKept
      <3>2. CASE k \in Of(t) \ {m}
        BY <2>1, <3>2 DEF ListKept, Fresh, Answered
      <3>3. QED
        BY <1>1, <2>1, <3>1, <3>2
    <2>2. QED
      BY <2>1 DEF Answered, S!OK
  <1>4. QED
    BY <1>2, <1>3 DEF Fresh

LEMMA ShownRefuse == ASSUME Sound, Shown, NEW m \in net, Refuse(m) PROVE Shown'
  <1>1. m \in Message /\ m.tab \in Tab /\ UNCHANGED page
    BY ServedIsTaken DEF Refuse, Message
  <1>2. \A t \in Tab : ListKept(UserOf[t]) /\ P!Aside(UserOf[t], Disk)
    BY StillKept, IdleAside, UsersOfTabs DEF Refuse
  <1>3. PICK code \in 0..5 : /\ net' = (net \ {m}) \cup {Turned(m, "answered", code, {}, FALSE)}
                             /\ m.op = "list" => code # S!OK
    <2>1. S!FAIL \in 0..5 /\ REFUSED \in 0..5 /\ S!FAIL # S!OK
      BY DEF S!FAIL, REFUSED, S!OK
    <2>2. CASE m.op \in {"list", "count"}
      BY <2>1, <2>2 DEF Refuse, Becomes, Turned
    <2>3. CASE m.op \notin {"list", "count"}
      BY <2>1, <2>3 DEF Refuse, Becomes, Turned
    <2>4. QED
      BY <2>2, <2>3
  <1> DEFINE n == Turned(m, "answered", code, {}, FALSE)
  <1>4. n.tab = m.tab /\ n.op = m.op /\ n.by = m.by /\ n.code = code
    BY <1>1 DEF Turned, Message
  <1>5. net' = (net \ {m}) \cup {n}
    BY <1>3
  <1> HIDE DEF n
  <1>6. Fresh(m.tab)'
    BY <1>1, <1>2, <1>3, <1>4, <1>5, FreshTurned DEF Shown
  <1>7. ASSUME NEW t \in Tab, t # m.tab PROVE Fresh(t)'
    BY <1>1, <1>2, <1>4, <1>5, <1>7, TurnedOf, FreshStill DEF Shown, page
  <1>8. QED
    BY <1>6, <1>7 DEF Shown

LEMMA ShownAnswer == ASSUME Sound, Shown, Answer PROVE Shown'
  <1>1. \A t \in Tab : ListKept(UserOf[t])
    BY ServerEnds, UsersOfTabs DEF Answer, Sound
  <1>2. CASE serving = NULL
    BY <1>1, <1>2, FreshStill DEF Answer, page, Of, Shown
  <1>3. ASSUME NEW m \in net, serving = m, serving # NULL PROVE Shown'
    <2> DEFINE R == IF m.op = "list" THEN S!Listed(req.user) ELSE {}
               none == m.op = "list" /\ userCount[req.user] = 0
               n == Turned(m, "answered", req.code, R, none)
    <2>1. /\ m \in Message /\ m.tab \in Tab /\ m.state = "taken"
          /\ req.user = UserOf[m.tab] /\ req.user \in User
      BY <1>3, ServedIsTaken, PagesAssumption DEF Message, Sound, Busy
    <2>2. R \subseteq Row /\ req.code \in 0..5 /\ none \in BOOLEAN
      BY <2>1, ServerTyped, SameListed DEF Sound
    <2>3. net' = (net \ {m}) \cup {n} /\ UNCHANGED page
      BY <1>3 DEF Answer, Becomes, Turned
    <2>4. m.op = "list" =>
              R = P!Listed(UserOf[m.tab]) /\ P!Aside(UserOf[m.tab], Disk)
      BY <2>1, SameListed DEF Shown, Fresh, Answered, Of
    <2> HIDE DEF R, none
    <2>5. n.tab = m.tab /\ n.op = m.op /\ n.by = m.by /\ n.rows = R
      BY <2>1, <2>2, TurnedFields
    <2> HIDE DEF n
    <2>6. Fresh(m.tab)'
      BY <1>1, <2>1, <2>3, <2>4, <2>5, FreshTurned DEF Shown
    <2>7. ASSUME NEW t \in Tab, t # m.tab PROVE Fresh(t)'
      BY <1>1, <2>1, <2>3, <2>5, <2>7, TurnedOf, FreshStill DEF Shown, page
    <2>8. QED
      BY <2>6, <2>7 DEF Shown
  <1>4. QED
    BY <1>2, <1>3, ServedIsTaken

\* A page shows what a list it asked for was answered with, unless it ignores
\* that, and every other answer it may go on after is followed by a refresh.
LEMMA ShownSettle == ASSUME Sound, Shown, NEW m \in net, Settle(m) PROVE Shown'
  <1> DEFINE t == m.tab
             u == UserOf[m.tab]
             K == FollowUp(m)
  <1>1. /\ m \in Message /\ t \in Tab /\ u \in User /\ Fresh(t)
        /\ m.op \in PageOps \ {"rank"} /\ m.state = "answered"
    BY ServedIsTaken, UsersOfTabs DEF Message, Shown, Settle
  <1>2. \A s \in Tab : /\ ListKept(UserOf[s]) /\ P!Aside(UserOf[s], Disk)
                       /\ P!Listed(UserOf[s])' = P!Listed(UserOf[s])
    BY StillKept, IdleAside, UsersOfTabs DEF Settle
  <1>3. \A k \in K : k.tab = t /\ k.state = "sent" /\ ~Mild(k)
    BY FollowUpSent DEF Sound, Sent
  <1>4. net' = (net \ {m}) \cup K
    BY DEF Settle
  <1>5. /\ rows'[t] = TableAfter(m)
        /\ error'[t] = IF Refreshed(m) THEN m.code # S!OK
                       ELSE error[t] \/ (Minded(m) /\ m.code # S!OK)
        /\ silent'[t] = IF Refreshed(m) /\ m.code = S!OK THEN FALSE
                        ELSE silent[t] \/ Ignored(m)
    BY <1>1 DEF Settle, Sound, PageTyped
  <1>6. ASSUME m.op \in PageOps \ {"rank", "list", "pv", "count"}, m.code = S!OK
        PROVE  K # {} \/ (m.op = "del" /\ m.by = "batch" /\ ~LastOfBatch(m))
    <2>1. Refresh(m) # {}
      BY DEF Refresh
    <2>2. CASE m.op = "md5"
      BY <1>6, <2>1, <2>2 DEF FollowUp
    <2>3. CASE m.op \in {"share", "upload", "cancel", "del"}
      BY <1>6, <2>1, <2>3 DEF FollowUp
    <2>4. QED
      BY <1>6, <2>2, <2>3 DEF PageOps
  <1> HIDE DEF K
  <1>7. Of(t)' = (Of(t) \ {m}) \cup K /\ m \in Of(t)
    BY <1>3, <1>4 DEF Of
  <1>8. ASSUME NEW s \in Tab, s # t PROVE Fresh(s)'
    <2>1. Of(s)' = Of(s)
      BY <1>3, <1>4, <1>8, OfOthers
    <2>2. rows'[s] = rows[s] /\ error'[s] = error[s] /\ silent'[s] = silent[s]
      BY <1>8 DEF Settle, Sound, PageTyped
    <2>3. QED
      BY <1>2, <2>1, <2>2, FreshStill DEF Shown
  <1>9. Answered(t)'
    <2>1. ASSUME NEW k \in Of(t)', k.op = "list", k.state # "sent"
          PROVE  /\ P!Aside(u, Disk)'
                 /\ k.state = "answered" /\ k.code = S!OK => k.rows = P!Listed(u)'
      <3>1. k \in Of(t)
        BY <1>3, <1>7, <2>1
      <3>2. QED
        BY <1>1, <1>2, <2>1, <3>1 DEF Fresh, Answered, ListKept
    <2>2. QED
      BY <2>1 DEF Answered, S!OK
  <1>10. ASSUME ~error'[t], \A k \in Of(t)' : Mild(k)
         PROVE  /\ P!Backed(rows'[t], P!Listed(u))
                /\ (\A k \in Of(t)' : Still(k)) /\ ~silent'[t] => rows'[t] = P!Listed(u)
    <2>1. K = {}
      BY <1>3, <1>7, <1>10
    <2>2. m.op = "list" /\ m.code = S!OK => m.rows = P!Listed(u)
      BY <1>1, <1>7 DEF Fresh, Answered
    <2>3. CASE m.op = "list" /\ m.by # "mount"
      <3>1. m.code = S!OK /\ rows'[t] = m.rows
        BY <1>5, <1>10, <2>3 DEF Refreshed, TableAfter
      <3>2. QED
        BY <2>2, <2>3, <3>1, BackedOften
    <2>4. CASE m.op = "list" /\ m.by = "mount"
      <3>1. rows'[t] = IF m.code # S!OK \/ m.none THEN {} ELSE m.rows
        BY <1>5, <2>4 DEF TableAfter
      <3>2. ~silent'[t] => m.code = S!OK /\ (m.none => m.rows = {})
        BY <1>5, <2>4 DEF Refreshed, Ignored
      <3>3. QED
        BY <2>2, <2>4, <3>1, <3>2, BackedOften
    <2>5. CASE m.op # "list"
      <3>1. /\ rows'[t] = rows[t] /\ ~error[t]
            /\ Minded(m) => m.code = S!OK
            /\ ~silent'[t] => ~silent[t] /\ ~Ignored(m)
        BY <1>5, <1>10, <2>5 DEF Refreshed, TableAfter
      <3>2. CASE Still(m)
        <4>1. /\ \A k \in Of(t) : Mild(k)
              /\ (\A k \in Of(t)' : Still(k)) => \A k \in Of(t) : Still(k)
          BY <1>7, <1>10, <3>2 DEF Mild
        <4>2. QED
          BY <1>1, <3>1, <4>1 DEF Fresh, Up
      <3>3. CASE ~Still(m) /\ m.by = "selected"
        <4>1. m.op = "share"
          BY <3>3 DEF Sound, Traffic, Paired
        <4>2. m.code # S!OK
          BY <1>6, <2>1, <4>1 DEF PageOps
        <4>3. silent'[t]
          BY <3>1, <3>3, <4>2, <1>5, <2>5 DEF Ignored, Refreshed
        <4>4. \A k \in Of(t) : Mild(k)
          BY <1>7, <1>10, <3>3 DEF Mild
        <4>5. QED
          BY <1>1, <3>1, <4>3, <4>4 DEF Fresh, Up
      <3>4. CASE ~Still(m) /\ m.by # "selected"
        <4>1. m.op \in PageOps \ {"rank", "list", "pv", "count"} /\ m.code = S!OK
          BY <1>1, <2>5, <3>1, <3>4 DEF Still, Minded
        <4>2. m.by = "batch" /\ ~LastOfBatch(m)
          BY <1>6, <2>1, <4>1
        <4>3. PICK k \in Of(t) \ {m} : k.by = "batch"
          BY <4>2 DEF LastOfBatch
        <4>4. k \in Of(t)' /\ k.op = "del"
          BY <1>7, <4>3 DEF Of, Sound, Traffic, Paired
        <4>5. QED
          BY <1>10, <4>3, <4>4 DEF Mild, Still
      <3>5. QED
        BY <3>2, <3>3, <3>4
    <2>6. QED
      BY <2>3, <2>4, <2>5
  <1>11. Up(t)'
    <2>1. P!Aside(u, Disk)' /\ Gentle(u)'
      BY <1>1, <1>2 DEF ListKept, Gentle
    <2>2. (\A k \in Of(t)' : Still(k)) => \A k \in Of(t)' : Mild(k)
      BY DEF Mild
    <2>3. QED
      BY <1>1, <1>2, <1>10, <2>1, <2>2 DEF Up
  <1>12. QED
    BY <1>8, <1>9, <1>11 DEF Shown, Fresh

LEMMA ShownDrop ==
    ASSUME Sound, Shown, NEW m \in net, Drop(m), \A t \in Tab : ListKept(UserOf[t])
    PROVE  Shown'
  <1> DEFINE K == IF m.by = "batch" /\ LastOfBatch(m) THEN Refresh(m) ELSE {}
  <1>1. m \in Message /\ m.tab \in Tab
    BY ServedIsTaken DEF Message
  <1>2. \A k \in K : k.tab = m.tab /\ k.state = "sent"
    BY DEF Refresh, Msg
  <1>3. net' = (net \ {m}) \cup K
    BY DEF Drop
  <1> HIDE DEF K
  <1>4. ASSUME NEW t \in Tab, t # m.tab PROVE Fresh(t)'
    <2>1. Of(t)' = Of(t)
      BY <1>2, <1>3, <1>4, OfOthers
    <2>2. rows'[t] = rows[t] /\ error'[t] = error[t] /\ silent'[t] = silent[t]
      BY <1>4 DEF Drop, Sound, PageTyped
    <2>3. QED
      BY <2>1, <2>2, FreshStill DEF Shown
  <1>5. error'[m.tab]
    BY <1>1 DEF Drop, Sound, PageTyped
  <1>6. Answered(m.tab)'
    <2>1. Fresh(m.tab) /\ ListKept(UserOf[m.tab])
      BY <1>1 DEF Shown
    <2>2. ASSUME NEW k \in Of(m.tab)', k.state # "sent" PROVE k \in Of(m.tab)
      BY <1>2, <1>3, <2>2 DEF Of
    <2>3. QED
      BY <2>1, <2>2 DEF Fresh, Answered, ListKept, S!OK
  <1>7. QED
    BY <1>4, <1>5, <1>6 DEF Shown, Fresh, Up

LEMMA ShownServer ==
    ASSUME Shown, \A t \in Tab : ListKept(UserOf[t]), UNCHANGED <<page, net>>
    PROVE  Shown'
  BY FreshStill DEF Shown, page, Of

LEMMA ShownStep == ASSUME Apart PROVE Sound /\ Shown /\ [Next]_vars => Shown'
  <1> SUFFICES ASSUME Sound, Shown, [Next]_vars PROVE Shown'
    OBVIOUS
  <1>1. ASSUME NEW t \in Tab, Clicks(t) PROVE Shown'
    BY <1>1, ShownClick
  <1>2. ASSUME NEW m \in net, Take(m) \/ Refuse(m) \/ Settle(m)
        PROVE  Shown'
    BY <1>2, ShownTake, ShownRefuse, ShownSettle
  <1>3. ASSUME NEW m \in net, Lose(m) PROVE Shown'
    BY <1>3, StillKept, UsersOfTabs, ShownDrop DEF Lose
  <1>4. CASE OpenRanking \/ Serve \/ CallFails
    <2>1. \A t \in Tab : ListKept(UserOf[t])
      BY <1>4, ServerServes, ServerEnds, UsersOfTabs
      DEF OpenRanking, Serve, CallFails, Sound
    <2>2. QED
      BY <1>4, <2>1, ShownServer DEF OpenRanking, Serve, CallFails
  <1>5. CASE Answer
    BY <1>5, ShownAnswer
  <1>6. CASE ServerDies
    <2>1. \A t \in Tab : ListKept(UserOf[t])
      BY <1>6, ServerEnds, UsersOfTabs DEF ServerDies, Sound
    <2>2. CASE serving = NULL
      BY <1>6, <2>1, <2>2, ShownServer DEF ServerDies
    <2>3. CASE serving # NULL
      BY <1>6, <2>1, <2>3, ServedIsTaken, ShownDrop DEF ServerDies
    <2>4. QED
      BY <2>2, <2>3
  <1>7. CASE UNCHANGED vars
    BY <1>7, StillKept, UsersOfTabs, ShownServer DEF vars
  <1>8. QED
    BY <1>1, <1>2, <1>3, <1>4, <1>5, <1>6, <1>7 DEF Next

\* A page that has its answers and shows no error lists nothing that
\* handleGetUserFilesList would not list now, and all that it would, with the
\* same flags, unless the page ignored an answer since its last refresh: however
\* many requests were lost, refused, failed or answered out of order.
THEOREM TablesStayTrue == ASSUME Apart PROVE Spec => []TableTrue
  <1>1. Shown => TableTrue
    <2> SUFFICES ASSUME Shown, NEW t \in Tab, Ready(t)
                 PROVE  /\ Files(rows[t]) \subseteq Files(P!Listed(UserOf[t]))
                        /\ ~silent[t] => rows[t] = P!Listed(UserOf[t])
      BY SameListed DEF TableTrue
    <2>1. /\ P!Backed(rows[t], P!Listed(UserOf[t]))
          /\ ~silent[t] => rows[t] = P!Listed(UserOf[t])
      BY DEF Shown, Fresh, Up, Ready, Quiet
    <2>2. QED
      BY <2>1 DEF P!Backed, Files
  <1>2. Sound /\ Shown /\ [Next]_vars => Shown'
    BY ShownStep
  <1>3. QED
    BY <1>1, <1>2, ShownStarts, AlwaysSound, PTL DEF Spec

-----------------------------------------------------------------------------
(* What the pages ask for.                                                    *)

\* No handler asks whether its user has the file, or shares it; the operations
\* whose page does.
RowOps == {"share", "del", "pv", "cancel"}

SharedBy(u, f) == \E i \in DOMAIN own[<<u, f>>] : own[<<u, f>>][i].shared = 1

\* What page t saw when it sent m is still so, and the request in hand will not
\* change it.
Due(m) ==
    /\ req.op \in P!EditOps => <<UserOf[m.tab], m.file>> # <<req.user, req.file>>
    /\ m.op \in {"share", "del", "pv"} => P!Owns(UserOf[m.tab], m.file)
    /\ m.op = "cancel" => SharedBy(UserOf[m.tab], m.file)

Waits(m) == m.state = "sent" /\ m.op \in RowOps

\* The deletions of a batch are of different files.
Asked ==
    /\ \A m \in net : Waits(m) => Due(m)
    /\ \A m, n \in net : m.tab = n.tab /\ m # n /\ m.by = "batch" /\ n.by = "batch"
                           => m.file # n.file

\* The page shows the row it acts on.
Saw(t, m) ==
    Ready(t) /\ \E r \in rows[t] : m.file = r.file /\ (m.op = "cancel" => r.shared = 1)

LEMMA ClickAsks ==
    ASSUME NEW t \in Tab, Clicks(t), NEW m, m \in net' \ net
    PROVE  /\ m.tab = t
           /\ m.op \in RowOps => Saw(t, m)
           /\ m.by = "batch" => m = Msg(t, "del", m.file, "batch")
  <1> DEFINE Known == /\ m.tab = t
                      /\ m.op \in RowOps => Saw(t, m)
                      /\ m.by = "batch" => m = Msg(t, "del", m.file, "batch")
  <1>1. ASSUME NEW M, Asks(M) PROVE m \in M
    BY <1>1 DEF Asks
  <1>2. ASSUME NEW op, NEW f, NEW b, m = Msg(t, op, f, b)
        PROVE  m.tab = t /\ m.op = op /\ m.file = f /\ m.by = b
    BY <1>2 DEF Msg
  <1>3. ASSUME NEW op, NEW f, Single(t, op, f)
        PROVE  m.tab = t /\ m.op = op /\ m.file = f /\ m.by = "row"
    <2>1. m \in {Msg(t, op, f, "row")}
      BY <1>1, <1>3 DEF Single, Click
    <2>2. QED
      BY <1>2, <2>1
  <1>4. ASSUME NEW op \in {"list", "md5"}, NEW f, Single(t, op, f) PROVE Known
    BY <1>3, <1>4 DEF RowOps
  <1>5. ASSUME NEW op \in {"share", "cancel", "del"}, NEW r \in rows[t], Ready(t),
               Single(t, op, r.file), op = "cancel" => r.shared = 1
        PROVE  Known
    BY <1>3, <1>5 DEF Saw
  <1>6. CASE RefreshTable(t)
    BY <1>4, <1>6 DEF RefreshTable
  <1>7. CASE BeforeUpload(t)
    BY <1>4, <1>7 DEF BeforeUpload
  <1>8. CASE OnShareFile(t) \/ OnCancelShareFile(t) \/ OnDeleteFile(t)
    <2>1. PICK op \in {"share", "cancel", "del"} : \E r \in rows[t] :
             Single(t, op, r.file) /\ (op = "cancel" => r.shared = 1) /\ Ready(t)
      BY <1>8 DEF OnShareFile, OnCancelShareFile, OnDeleteFile
    <2>2. QED
      BY <1>5, <2>1
  <1>9. CASE OnDownloadFile(t)
    <2>1. PICK r \in rows[t] :
             Click(t, {Msg(t, "pv", r.file, "row"), Msg(t, "list", r.file, "row")})
      BY <1>9 DEF OnDownloadFile
    <2>2. m \in {Msg(t, "pv", r.file, "row"), Msg(t, "list", r.file, "row")}
      BY <1>1, <2>1 DEF Click
    <2>3. PICK op \in {"pv", "list"} : m = Msg(t, op, r.file, "row")
      BY <2>2
    <2>4. m.tab = t /\ m.op = op /\ m.file = r.file /\ m.by = "row"
      BY <1>2, <2>3
    <2>5. QED
      BY <1>9, <2>4 DEF OnDownloadFile, Saw
  <1>10. CASE DeleteFiles(t)
    <2>1. m \in {Msg(t, "del", f, "batch") : f \in Files(chosen[t])}
      BY <1>1, <1>10 DEF DeleteFiles, Click
    <2>2. PICK f \in Files(chosen[t]) : m = Msg(t, "del", f, "batch")
      BY <2>1
    <2>3. PICK r \in rows[t] : f = r.file
      BY <1>10 DEF Files, DeleteFiles
    <2>4. m.tab = t /\ m.op = "del" /\ m.file = f
      BY <1>2, <2>2
    <2>5. QED
      BY <1>10, <2>2, <2>3, <2>4 DEF DeleteFiles, Saw
  <1>11. ASSUME NEW R \in SUBSET rows[t], OnSelect(t, R) PROVE Known
    BY <1>11 DEF OnSelect
  <1>12. CASE ShareFiles(t)
    <2>1. PICK r \in rows[t] : Click(t, {Msg(t, "share", r.file, "selected")})
      BY <1>12 DEF ShareFiles
    <2>2. m = Msg(t, "share", r.file, "selected")
      BY <1>1, <2>1 DEF Click
    <2>3. m.tab = t /\ m.op = "share" /\ m.file = r.file /\ m.by = "selected"
      BY <1>2, <2>2
    <2>4. QED
      BY <1>12, <2>3 DEF ShareFiles, Saw
  <1>13. CASE Mount(t)
    <2>1. m \in MountRequests(t)
      BY <1>1, <1>13 DEF Mount
    <2>2. PICK op \in {"count", "list"} : m = Msg(t, op, AnyFile, "mount")
      BY <2>1 DEF MountRequests
    <2>3. m.tab = t /\ m.op = op /\ m.by = "mount"
      BY <1>2, <2>2
    <2>4. QED
      BY <2>3 DEF RowOps
  <1>14. QED
    BY <1>6, <1>7, <1>8, <1>9, <1>10, <1>11, <1>12, <1>13 DEF Clicks

\* What a list shows is a row of user_file_list.
LEMMA ListedOwned ==
    ASSUME Server, NEW u \in User, NEW r \in P!Listed(u)
    PROVE  P!Owns(u, r.file) /\ (r.shared = 1 => SharedBy(u, r.file))
  <1>1. PICK f \in File : \E i \in DOMAIN own[<<u, f>>] :
           r = [file |-> f, shared |-> own[<<u, f>>][i].shared]
    BY DEF P!Listed
  <1>2. PICK i \in DOMAIN own[<<u, f>>] :
           r = [file |-> f, shared |-> own[<<u, f>>][i].shared]
    BY <1>1
  <1>3. own[<<u, f>>] # <<>>
    BY <1>2
  <1>4. QED
    BY <1>2, <1>3 DEF P!Owns, SharedBy

LEMMA AskedKept ==
    ASSUME Asked, \A m \in net : Waits(m) => (Due(m) => Due(m)'),
           \A m \in net' : Waits(m) => m \in net,
           \A m, n \in net' : m.tab = n.tab /\ m # n /\ m.by = "batch" /\ n.by = "batch"
                                => m.file # n.file
    PROVE  Asked'
  BY DEF Asked, Waits

LEMMA DueServed ==
    ASSUME Server, Server', P!OthersKept, P!GoesOn, NEW m \in Message, Due(m)
    PROVE  Due(m)'
  <1> DEFINE x == <<UserOf[m.tab], m.file>>
  <1>1. x \in User \X File
    BY PagesAssumption DEF Message
  <1>2. "rank" \notin P!EditOps
    BY DEF P!EditOps
  <1>3. req'.op \in P!EditOps => /\ req.op \in P!EditOps /\ req'.user = req.user
                                 /\ req'.file = req.file
    BY <1>2 DEF P!GoesOn
  <1>4. P!SameRow(x)
    BY <1>1 DEF P!OthersKept, Server, P!Edits, Due
  <1>5. own[x] \in Seq(P!OwnRow) /\ own'[x] \in Seq(P!OwnRow)
    BY <1>1 DEF Server, P!Typed, P!TypeOK
  <1> HIDE DEF x
  <1>6. own[x] # <<>> => own'[x] # <<>>
    BY <1>4, <1>5, P!EmptyDomain, ServerParameters DEF P!SameRow
  <1>7. QED
    BY <1>3, <1>4, <1>6 DEF Due, P!Owns, SharedBy, P!SameRow, x

LEMMA DueIdle ==
    ASSUME own' = own, req'.op \notin P!EditOps \/ req' = req, NEW m, Due(m)
    PROVE  Due(m)'
  BY DEF Due, P!Owns, SharedBy

LEMMA AskedStarts == Init => Asked
  <1> SUFFICES ASSUME Init, NEW m \in net PROVE m.by = "mount" /\ m.op \notin RowOps
    BY DEF Asked, Waits
  <1>1. PICK t \in Tab : m \in MountRequests(t)
    BY DEF Init
  <1>2. QED
    BY <1>1 DEF MountRequests, Msg, RowOps

LEMMA AskedClick ==
    ASSUME Sound, Shown, Asked, NEW t \in Tab, Clicks(t) PROVE Asked'
  <1>1. UNCHANGED server /\ Quiet(t) /\ S!At("idle") /\ net \subseteq net'
    BY ClickSends DEF Sound, Clicked, Sends
  <1>2. req.op \notin P!EditOps /\ own' = own /\ req' = req
    <2>1. req.op = NULL /\ NULL \notin P!EditOps
      BY <1>1, SameAt, PagesAssumption DEF Sound, Busy, S!AllOps, P!EditOps
    <2>2. QED
      BY <1>1, <2>1 DEF server
  <1>3. ASSUME NEW m, m \in net' \ net, Waits(m) PROVE Due(m)'
    <2>1. m.tab = t /\ Saw(t, m)
      BY <1>3, ClickAsks DEF Waits
    <2>2. PICK r \in rows[t] : m.file = r.file /\ (m.op = "cancel" => r.shared = 1)
      BY <2>1 DEF Saw
    <2>3. P!Backed(rows[t], P!Listed(UserOf[t]))
      BY <2>1 DEF Saw, Shown, Fresh, Up, Ready, Quiet
    <2>4. PICK q \in P!Listed(UserOf[t]) :
             q.file = r.file /\ (r.shared = 1 => q.shared = 1)
      BY <2>3 DEF P!Backed
    <2>5. P!Owns(UserOf[t], m.file) /\ (m.op = "cancel" => SharedBy(UserOf[t], m.file))
      BY <2>2, <2>4, ListedOwned, UsersOfTabs DEF Sound
    <2>6. Due(m)
      BY <1>2, <2>1, <2>5 DEF Due
    <2>7. QED
      BY <1>2, <2>6, DueIdle
  <1>4. ASSUME NEW m \in net, Waits(m) PROVE Due(m)'
    BY <1>2, <1>4, DueIdle DEF Asked
  <1>5. ASSUME NEW m \in net', NEW n \in net', m.tab = n.tab, m # n,
               m.by = "batch", n.by = "batch"
        PROVE  m.file # n.file
    <2>1. CASE m \in net /\ n \in net
      BY <1>5, <2>1 DEF Asked
    <2>2. CASE m \notin net
      <3>1. m.tab = t /\ m = Msg(t, "del", m.file, "batch")
        BY <1>5, <2>2, ClickAsks
      <3>2. n \notin net
        BY <1>1, <1>5, <3>1 DEF Quiet, Of
      <3>3. n = Msg(t, "del", n.file, "batch")
        BY <1>5, <3>2, ClickAsks
      <3>4. QED
        BY <1>5, <3>1, <3>3
    <2>3. CASE n \notin net
      <3>1. n.tab = t /\ n = Msg(t, "del", n.file, "batch")
        BY <1>5, <2>3, ClickAsks
      <3>2. m \notin net
        BY <1>1, <1>5, <3>1 DEF Quiet, Of
      <3>3. m = Msg(t, "del", m.file, "batch")
        BY <1>5, <3>2, ClickAsks
      <3>4. QED
        BY <1>5, <3>1, <3>3
    <2>4. QED
      BY <2>1, <2>2, <2>3
  <1>6. QED
    BY <1>3, <1>4, <1>5 DEF Asked, Waits

\* A request that is answered, or on its way to the answer, stays the request
\* it was; one that follows an answer deletes nothing.
LEMMA AskedReplaced ==
    ASSUME Asked, \A m \in net : Waits(m) => (Due(m) => Due(m)'),
           NEW m \in net, NEW K, net' = (net \ {m}) \cup K,
           \A k \in K : ~Waits(k) /\ k.tab = m.tab,
           \/ \A k \in K : k.by # "batch"
           \/ \E n : K = {n} /\ n.by = m.by /\ n.file = m.file
    PROVE  Asked'
  <1>1. ASSUME NEW j \in net', NEW k \in net', j.tab = k.tab, j # k,
               j.by = "batch", k.by = "batch"
        PROVE  j.file # k.file
    <2>1. \A i \in net' : i.by = "batch" =>
             i \in net \ {m} \/ (i \in K /\ m.by = "batch" /\ i.file = m.file /\ K = {i})
      OBVIOUS
    <2>2. QED
      BY <1>1, <2>1 DEF Asked
  <1>2. \A k \in net' : Waits(k) => k \in net
    OBVIOUS
  <1>3. QED
    BY <1>1, <1>2, AskedKept

LEMMA AskedTake ==
    ASSUME Apart, Sound, Asked, NEW m \in net, Take(m) PROVE Asked'
  <1> DEFINE n == Turned(m, "taken", NULL, {}, FALSE)
  <1>1. m \in Message /\ m.tab \in Tab
    BY ServedIsTaken DEF Message
  <1>2. n.tab = m.tab /\ n.op = m.op /\ n.file = m.file /\ n.by = m.by
        /\ n.state = "taken"
    BY <1>1 DEF Turned, Message
  <1>3. net' = (net \ {m}) \cup {n}
    BY DEF Take, Becomes, Turned
  <1> HIDE DEF n
  <1>4. own' = own /\ req'.op = m.op /\ req'.user = UserOf[m.tab] /\ req'.file = m.file
    BY DEF Take, S!Dispatch, S!mysql, S!Idle
  <1>5. ASSUME NEW k \in net \ {m}, Waits(k), Due(k) PROVE Due(k)'
    <2>1. k.tab \in Tab
      BY ServedIsTaken DEF Message
    <2>2. m.op \in P!EditOps => <<UserOf[k.tab], k.file>> # <<UserOf[m.tab], m.file>>
      <3>1. CASE k.tab # m.tab
        BY <1>1, <2>1, <3>1 DEF Apart
      <3>2. CASE k.tab = m.tab
        <4>1. m.op \in {"list", "pv", "count"} \/ (m.by = "batch" /\ k.by = "batch")
          BY <3>2 DEF Sound, Traffic, Paired, Still
        <4>2. CASE m.op \in {"list", "pv", "count"}
          BY <4>2 DEF P!EditOps
        <4>3. CASE m.by = "batch" /\ k.by = "batch"
          BY <3>2, <4>3 DEF Asked
        <4>4. QED
          BY <4>1, <4>2, <4>3
      <3>3. QED
        BY <3>1, <3>2
    <2>3. QED
      BY <1>4, <1>5, <2>2 DEF Due, P!Owns, SharedBy
  <1>6. ~Waits(n)
    BY <1>2 DEF Waits
  <1>7. ASSUME NEW j \in net', NEW k \in net', j.tab = k.tab, j # k,
               j.by = "batch", k.by = "batch"
        PROVE  j.file # k.file
    <2>1. \A i \in net' : i \in net \ {m} \/ i = n
      BY <1>3
    <2>2. QED
      BY <1>2, <1>7, <2>1 DEF Asked
  <1>8. \A k \in net' : Waits(k) => Due(k)'
    BY <1>3, <1>5, <1>6 DEF Asked
  <1>9. QED
    BY <1>7, <1>8 DEF Asked, Waits

LEMMA AskedTurned ==
    ASSUME Asked, \A k \in net : Waits(k) => (Due(k) => Due(k)'),
           NEW m \in net, m \in Message, NEW code \in 0..5 \cup {NULL},
           NEW R \in SUBSET Row, NEW none \in BOOLEAN,
           net' = (net \ {m}) \cup {Turned(m, "answered", code, R, none)}
    PROVE  Asked'
  <1> DEFINE n == Turned(m, "answered", code, R, none)
  <1>1. n.tab = m.tab /\ n.file = m.file /\ n.by = m.by /\ n.state = "answered"
    BY TurnedFields
  <1>2. net' = (net \ {m}) \cup {n}
    OBVIOUS
  <1> HIDE DEF n
  <1>3. \A k \in {n} : ~Waits(k) /\ k.tab = m.tab
    BY <1>1 DEF Waits
  <1>4. \E k : {n} = {k} /\ k.by = m.by /\ k.file = m.file
    BY <1>1
  <1>5. QED
    BY <1>2, <1>3, <1>4, AskedReplaced

LEMMA StillDue ==
    ASSUME UNCHANGED server, NEW m, Due(m) PROVE Due(m)'
  BY DueIdle DEF server

LEMMA AskedRefuse == ASSUME Sound, Asked, NEW m \in net, Refuse(m) PROVE Asked'
  <1>1. PICK code \in 0..5 : net' = (net \ {m}) \cup {Turned(m, "answered", code, {}, FALSE)}
    <2>1. S!FAIL \in 0..5 /\ REFUSED \in 0..5
      BY DEF S!FAIL, REFUSED
    <2>2. CASE m.op \in {"list", "count"}
      BY <2>1, <2>2 DEF Refuse, Becomes, Turned
    <2>3. CASE m.op \notin {"list", "count"}
      BY <2>1, <2>3 DEF Refuse, Becomes, Turned
    <2>4. QED
      BY <2>2, <2>3
  <1>2. \A k \in net : Waits(k) => (Due(k) => Due(k)')
    BY StillDue DEF Refuse
  <1>3. QED
    BY <1>1, <1>2, ServedIsTaken, AskedTurned

LEMMA FollowersWaitNot ==
    ASSUME NEW m \in Message
    PROVE  /\ \A k \in Refresh(m) : ~Waits(k) /\ k.tab = m.tab /\ k.by # "batch"
           /\ m.op \in PageOps \ {"rank"} =>
                 \A k \in FollowUp(m) : ~Waits(k) /\ k.tab = m.tab /\ k.by # "batch"
  <1>1. \A op \in {"list", "upload"} : LET k == Msg(m.tab, op, m.file, "row")
                                      IN  ~Waits(k) /\ k.tab = m.tab /\ k.by # "batch"
    BY DEF Msg, Waits, RowOps
  <1>2. FollowUp(m) = {} \/ FollowUp(m) = Refresh(m)
          \/ FollowUp(m) = {Msg(m.tab, "upload", m.file, "row")}
          \/ m.op \notin PageOps \ {"rank"}
    <2>1. CASE m.op = "md5"
      <3>1. FollowUp(m) = CASE m.code = S!OK -> Refresh(m)
                            [] m.code = S!FAIL /\ m.file \notin TooBig ->
                                  {Msg(m.tab, "upload", m.file, "row")}
                            [] OTHER -> {}
        BY <2>1 DEF FollowUp
      <3>2. QED
        BY <3>1
    <2>2. CASE m.op \in {"list", "count", "pv", "cancel", "share", "upload", "del"}
      BY <2>2 DEF FollowUp
    <2>3. QED
      BY <2>1, <2>2 DEF PageOps
  <1>3. QED
    BY <1>1, <1>2 DEF Refresh

LEMMA AskedSettle == ASSUME Sound, Asked, NEW m \in net, Settle(m) PROVE Asked'
  <1>1. m \in Message /\ m.op \in PageOps \ {"rank"}
    BY ServedIsTaken DEF Message
  <1>2. \A k \in FollowUp(m) : ~Waits(k) /\ k.tab = m.tab /\ k.by # "batch"
    BY <1>1, FollowersWaitNot
  <1>3. \A k \in net : Waits(k) => (Due(k) => Due(k)')
    BY StillDue DEF Settle
  <1>4. QED
    BY <1>2, <1>3, AskedReplaced DEF Settle

LEMMA AskedDrop ==
    ASSUME Sound, Asked, NEW m \in net, Drop(m),
           \A k \in net : Waits(k) => (Due(k) => Due(k)')
    PROVE  Asked'
  <1> DEFINE K == IF m.by = "batch" /\ LastOfBatch(m) THEN Refresh(m) ELSE {}
  <1>1. \A k \in K : ~Waits(k) /\ k.tab = m.tab /\ k.by # "batch"
    BY ServedIsTaken, FollowersWaitNot
  <1>2. net' = (net \ {m}) \cup K
    BY DEF Drop
  <1> HIDE DEF K
  <1>3. QED
    BY <1>1, <1>2, AskedReplaced

LEMMA AskedServer ==
    ASSUME Asked, \A m \in net : Waits(m) => (Due(m) => Due(m)'), UNCHANGED net
    PROVE  Asked'
  BY DEF Asked

\* What a step of the server leaves of a request that waits for it.
LEMMA DueServer ==
    ASSUME Sound, NEW m \in Message, Due(m),
           \/ S!Handle \/ S!SqlFails \/ S!QueryFails \/ S!RedisFails \/ S!DfsFails
           \/ S!Respond \/ S!Crash \/ S!RedisLoss \/ S!RequestRanking
    PROVE  Due(m)'
  <1>1. CASE S!Handle \/ S!SqlFails \/ S!QueryFails \/ S!RedisFails \/ S!DfsFails
    <2>1. P!OthersKept
      BY <1>1, ServerParameters, SameHandle, SameSqlFails, SameQueryFails,
         SameRedisFails, SameDfsFails, P!HandleElsewhere DEF Sound, Server
    <2>2. QED
      BY <1>1, <2>1, ServerServes, DueServed DEF Sound
  <1>2. CASE S!Respond \/ S!Crash \/ S!RedisLoss \/ S!RequestRanking
    <2>1. own' = own
      BY <1>2 DEF S!Respond, S!Crash, S!RedisLoss, S!RequestRanking, S!mysql
    <2>2. req'.op \notin P!EditOps \/ req' = req
      <3>1. NULL \notin P!EditOps /\ "rank" \notin P!EditOps
        BY PagesAssumption DEF S!AllOps, P!EditOps
      <3>2. req'.op \in {NULL, "rank"} \/ req' = req
        <4>1. S!Respond \/ S!Crash => req'.op = NULL
          BY DEF S!Respond, S!Crash, S!Idle
        <4>2. S!RequestRanking => req'.op = "rank"
          BY DEF S!RequestRanking, S!Idle
        <4>3. S!RedisLoss => req' = req
          BY DEF S!RedisLoss
        <4>4. QED
          BY <1>2, <4>1, <4>2, <4>3
      <3>3. QED
        BY <3>1, <3>2
    <2>3. QED
      BY <2>1, <2>2, DueIdle
  <1>3. QED
    BY <1>1, <1>2

LEMMA AskedStep == ASSUME Apart PROVE Sound /\ Shown /\ Asked /\ [Next]_vars => Asked'
  <1> SUFFICES ASSUME Sound, Shown, Asked, [Next]_vars PROVE Asked'
    OBVIOUS
  <1>1. ASSUME NEW t \in Tab, Clicks(t) PROVE Asked'
    BY <1>1, AskedClick
  <1>2. ASSUME NEW m \in net, Take(m) \/ Refuse(m) \/ Settle(m) PROVE Asked'
    BY <1>2, AskedTake, AskedRefuse, AskedSettle
  <1>3. ASSUME NEW m \in net, Lose(m) PROVE Asked'
    BY <1>3, StillDue, AskedDrop DEF Lose
  <1>4. CASE OpenRanking \/ Serve \/ CallFails
    <2>1. \A m \in net : Waits(m) => (Due(m) => Due(m)')
      BY <1>4, DueServer, ServedIsTaken DEF OpenRanking, Serve, CallFails
    <2>2. QED
      BY <1>4, <2>1, AskedServer DEF OpenRanking, Serve, CallFails
  <1>5. CASE Answer
    <2>1. \A m \in net : Waits(m) => (Due(m) => Due(m)')
      BY <1>5, DueServer, ServedIsTaken DEF Answer
    <2>2. CASE serving = NULL
      BY <1>5, <2>1, <2>2, AskedServer DEF Answer
    <2>3. CASE serving # NULL
      <3> DEFINE R == IF serving.op = "list" THEN S!Listed(req.user) ELSE {}
                 none == serving.op = "list" /\ userCount[req.user] = 0
      <3>1. /\ serving \in net /\ serving \in Message /\ req.user \in User
        BY <2>3, ServedIsTaken, PagesAssumption DEF Message, Sound, Busy
      <3>2. R \subseteq Row /\ req.code \in 0..5 /\ none \in BOOLEAN
        BY <3>1, ServerTyped, SameListed DEF Sound
      <3>3. net' = (net \ {serving}) \cup {Turned(serving, "answered", req.code, R, none)}
        BY <1>5, <2>3 DEF Answer, Becomes, Turned
      <3> HIDE DEF R, none
      <3>4. QED
        BY <2>1, <3>1, <3>2, <3>3, AskedTurned
    <2>4. QED
      BY <2>2, <2>3
  <1>6. CASE ServerDies
    <2>1. \A m \in net : Waits(m) => (Due(m) => Due(m)')
      BY <1>6, DueServer, ServedIsTaken DEF ServerDies
    <2>2. CASE serving = NULL
      BY <1>6, <2>1, <2>2, AskedServer DEF ServerDies
    <2>3. CASE serving # NULL
      BY <1>6, <2>1, <2>3, ServedIsTaken, AskedDrop DEF ServerDies
    <2>4. QED
      BY <2>2, <2>3
  <1>7. CASE UNCHANGED vars
    <2>1. \A m \in net : Waits(m) => (Due(m) => Due(m)')
      BY <1>7, StillDue DEF vars
    <2>2. QED
      BY <1>7, <2>1, AskedServer DEF vars
  <1>8. QED
    BY <1>1, <1>2, <1>3, <1>4, <1>5, <1>6, <1>7 DEF Next

LEMMA TakesOffered ==
    ASSUME Sound, Asked, NEW m \in net, Take(m) PROVE FileServiceStep
  <1>1. m.op \in PageOps \ {"rank"} /\ UserOf[m.tab] \in User /\ m.file \in File
    BY ServedIsTaken, PagesAssumption DEF Message
  <1>2. m.op \in RowOps => Due(m)
    BY DEF Take, Asked, Waits
  <1>3. S!Offered(m.op, UserOf[m.tab], m.file)
    BY <1>1, <1>2 DEF S!Offered, Due, RowOps, PageOps, S!Owns, P!Owns, SharedBy
  <1>4. S!Dispatch(m.op, UserOf[m.tab], m.file)
    BY DEF Take
  <1>5. QED
    BY <1>1, <1>3, <1>4 DEF FileServiceStep

\* Only five actions touch the server otherwise than by handing it a request:
\* what the pages and the network do among themselves leaves it alone.
LEMMA ServerKeepsToOffer ==
    ASSUME Sound, Asked, Next PROVE FileServiceStep \/ UNCHANGED server
  <1>1. (OpenRanking \/ Serve \/ CallFails \/ Answer \/ ServerDies) => FileServiceStep
    BY DEF OpenRanking, Serve, CallFails, Answer, ServerDies, FileServiceStep
  <1>2. \A m \in net : Take(m) => FileServiceStep
    BY TakesOffered
  <1>3. \A m \in net : Refuse(m) \/ Settle(m) \/ Lose(m) => UNCHANGED server
    BY DEF Refuse, Settle, Lose
  <1>4. \A t \in Tab : Clicks(t) => UNCHANGED server
    BY ClickSends DEF Sound, Clicked
  <1>5. QED
    BY <1>1, <1>2, <1>3, <1>4 DEF Next

\* A user who waits for the answer and refreshes after an error makes the server
\* do nothing but what FileService does: of the file API, which asks nobody
\* whether the file is theirs or shared, a page deletes, shares and counts only
\* what its user has, and cancels only what its user shares, even of a batch
\* half of which is lost.
THEOREM PagesAskWhatIsOffered == ASSUME Apart PROVE Spec => ImplementsFileService
  <1>1. Sound /\ Asked /\ [Next]_vars => [FileServiceStep]_server
    BY ServerKeepsToOffer DEF vars
  <1>2. Sound /\ Shown /\ [Next]_vars => Shown'
    BY ShownStep
  <1>3. Sound /\ Shown /\ Asked /\ [Next]_vars => Asked'
    BY AskedStep
  <1>4. Init => S!Init
    BY DEF Init
  <1>5. QED
    BY <1>1, <1>2, <1>3, <1>4, ShownStarts, AskedStarts, AlwaysSound, PTL
    DEF Spec, ImplementsFileService
=============================================================================
