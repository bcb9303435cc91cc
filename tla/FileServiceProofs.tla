-------------------------- MODULE FileServiceProofs --------------------------
(* What FileService keeps for every set of users and files, every operation,  *)
(* every fault and however many of them.                                      *)
EXTENDS FileService, NaturalsInduction, WellFoundedInduction,
        FiniteSetTheorems, TLAPS

(* Helpers.                                                                   *)

\* The oldest row of a digest exists when there is a row.
LEMMA FirstOfIsRow ==
    ASSUME NEW m, DOMAIN fileInfo \subseteq Nat, RowsOf(m) # {}
    PROVE  FirstOf(m) \in RowsOf(m)
  <1>1. RowsOf(m) \subseteq Nat
    BY DEF RowsOf
  <1>2. \E i \in RowsOf(m) : \A j \in RowsOf(m) : ~(<<j, i>> \in OpToRel(<, Nat))
    BY <1>1, NatLessThanWellFounded, WFMin
  <1>3. \A i, j \in Nat : <<j, i>> \in OpToRel(<, Nat) <=> j < i
    BY DEF OpToRel
  <1>4. \E i \in RowsOf(m) : \A j \in RowsOf(m) : i <= j
    <2>1. PICK i \in RowsOf(m) : \A j \in RowsOf(m) : ~(<<j, i>> \in OpToRel(<, Nat))
      BY <1>2
    <2>2. \A j \in RowsOf(m) : ~(j < i)
      BY <1>1, <1>3, <2>1
    <2>3. \A j \in RowsOf(m) : i <= j
      BY <1>1, <2>2
    <2>4. QED
      BY <2>3
  <1>5. QED
    BY <1>4 DEF FirstOf

LEMMA RowSeqs == \A n \in Nat : [1..n -> OwnRow] \subseteq Seq(OwnRow)
  OBVIOUS

LEMMA RowUpdates ==
    \A r \in OwnRow : /\ \A v \in {0, 1} : [r EXCEPT !.shared = v] \in OwnRow
                      /\ [r EXCEPT !.pv = 1] \in OwnRow
  BY DEF OwnRow

LEMMA MapsOfSeqs ==
    /\ \A s \in Seq(OwnRow), v \in {0, 1} :
          [i \in DOMAIN s |-> [s[i] EXCEPT !.shared = v]] \in Seq(OwnRow)
    /\ \A s \in Seq(OwnRow) :
          [i \in DOMAIN s |-> [s[i] EXCEPT !.pv = 1]] \in Seq(OwnRow)
    /\ \A s \in Seq(Nat), n \in Nat : [i \in DOMAIN s |-> n] \in Seq(Nat)
  <1>1. ASSUME NEW s \in Seq(OwnRow), NEW v \in {0, 1}
        PROVE  [i \in DOMAIN s |-> [s[i] EXCEPT !.shared = v]] \in Seq(OwnRow)
    <2>1. DOMAIN s = 1..Len(s) /\ Len(s) \in Nat
      OBVIOUS
    <2>2. \A i \in 1..Len(s) : s[i] \in OwnRow
      OBVIOUS
    <2>3. \A i \in 1..Len(s) : [s[i] EXCEPT !.shared = v] \in OwnRow
      BY <2>2, RowUpdates
    <2>4. [i \in 1..Len(s) |-> [s[i] EXCEPT !.shared = v]] \in [1..Len(s) -> OwnRow]
      BY <2>3
    <2>5. QED
      BY <2>1, <2>4, RowSeqs, Zenon
  <1>2. ASSUME NEW s \in Seq(OwnRow)
        PROVE  [i \in DOMAIN s |-> [s[i] EXCEPT !.pv = 1]] \in Seq(OwnRow)
    <2>1. DOMAIN s = 1..Len(s) /\ Len(s) \in Nat
      OBVIOUS
    <2>2. \A i \in 1..Len(s) : s[i] \in OwnRow
      OBVIOUS
    <2>3. \A i \in 1..Len(s) : [s[i] EXCEPT !.pv = 1] \in OwnRow
      BY <2>2, RowUpdates
    <2>4. [i \in 1..Len(s) |-> [s[i] EXCEPT !.pv = 1]] \in [1..Len(s) -> OwnRow]
      BY <2>3
    <2>5. QED
      BY <2>1, <2>4, RowSeqs, Zenon
  <1>3. ASSUME NEW s \in Seq(Nat), NEW n \in Nat
        PROVE  [i \in DOMAIN s |-> n] \in Seq(Nat)
    OBVIOUS
  <1>4. QED
    BY <1>1, <1>2, <1>3

\* The handler goes on at p, its other locals that matter here as they are.
Moves(p) ==
    /\ req' \in Requests /\ req'.pc = p
    /\ req'.op = req.op /\ req'.user = req.user /\ req'.file = req.file
    /\ req'.fid = req.fid /\ req'.todo = req.todo

LEMMA GotoMoves == ASSUME TypeOK, NEW p \in PCs, Goto(p) PROVE Moves(p)
  BY DEF TypeOK, Goto, Requests, Moves

LEMMA ReplyMoves ==
    ASSUME TypeOK, NEW c \in {OK, FAIL, SHARE_HAD, FILE_EXIST}, Reply(c)
    PROVE  Moves("reply")
  <1>1. "reply" \in PCs
    BY DEF PCs
  <1>2. QED
    BY <1>1 DEF TypeOK, Reply, Requests, Moves

LEMMA DealshareReplyMoves ==
    ASSUME TypeOK, NEW c, DealshareReply(c) PROVE Moves("reply")
  BY ReplyMoves DEF DealshareReply

LEMMA CountMoves ==
    ASSUME TypeOK, NEW p \in PCs, NEW n \in Nat,
           req' = [req EXCEPT !.pc = p, !.count = n]
    PROVE  Moves(p)
  BY DEF TypeOK, Requests, Moves

LEMMA RankedMoves ==
    ASSUME TypeOK, NEW p \in PCs, req' = [req EXCEPT !.pc = p, !.ranked = TRUE]
    PROVE  Moves(p)
  BY DEF TypeOK, Requests, Moves

LEMMA FidGoesOn ==
    ASSUME TypeOK, NEW p \in PCs, NEW n \in Nat,
           req' = [req EXCEPT !.pc = p, !.fid = n]
    PROVE  /\ req' \in Requests /\ req'.pc = p /\ req'.fid = n
           /\ req'.op = req.op /\ req'.user = req.user /\ req'.file = req.file
  BY DEF TypeOK, Requests

-----------------------------------------------------------------------------
(* The inductive invariant.                                                   *)

SharePCs  == {"share_check", "share_heal_zset", "share_heal_hash", "share_flag",
              "share_row", "share_count", "share_zset", "share_hash"}
DeletePCs == {"del_check", "del_share_rows", "del_share_count", "del_zset",
              "del_hash", "del_user_count", "del_own", "del_ref", "del_info",
              "del_store"}
RankPCs   == {"rank_count", "rank_compare", "rank_clear_zset",
              "rank_clear_hash", "rank_load", "rank_import_zset",
              "rank_import_hash", "rank_list"}

\* Where the handler is tells what it handles, and what its locals hold.
Control ==
    /\ req.pc \in SharePCs => req.op = "share"
    /\ req.pc \in DeletePCs => req.op = "del"
    /\ req.pc \in RankPCs => req.op = "rank"
    /\ req.pc \notin RankPCs \cup {"idle", "reply"} => req.op \notin {NULL, "rank"}
    /\ req.op \notin {NULL, "rank"} => req.user \in User /\ req.file \in File
    /\ last.op \notin {NULL, "rank"} => last.user \in User /\ last.file \in File
    /\ req.pc \in {"md5_ref", "save_ref", "del_info"} => RowsOf(M) # {}
    /\ req.pc = "up_info" => req.fid \in Nat
    /\ req.pc \in {"rank_import_zset", "rank_import_hash"} => req.todo \subseteq ShareRows
    /\ req.pc = "rank_import_hash" => req.file \in File

Typed == TypeOK /\ Control

\* The part of TypeOK that is about the tables, the caches and the storage.
DataTyped ==
    /\ DOMAIN fileInfo \subseteq Nat
    /\ fileInfo \in [DOMAIN fileInfo -> Row]
    /\ own \in [User \X File -> Seq(OwnRow)]
    /\ shares \in [User \X File -> Seq(Nat)]
    /\ userCount \in [User -> Nat \cup {NULL}]
    /\ shareCount \in Int \cup {NULL}
    /\ zset \in [File -> Nat \cup {NULL}]
    /\ hash \subseteq File
    /\ stored \subseteq Nat
    /\ uploads \in Nat

LEMMA TypeParts ==
    /\ TypeOK <=> DataTyped /\ req \in Requests /\ last \in Requests /\ faults \in Nat
    /\ TypeOK' <=> DataTyped' /\ req' \in Requests /\ last' \in Requests /\ faults' \in Nat
  BY DEF TypeOK, DataTyped

(* What the statements write has the type of what they write to.              *)

LEMMA SameData ==
    ASSUME DataTyped, UNCHANGED <<mysql, redis, dfs>>
    PROVE  DataTyped'
  BY DEF DataTyped, mysql, redis, dfs

LEMMA AddOwnRowTyped ==
    ASSUME DataTyped, NEW u \in User, NEW f \in File, AddOwnRow(u, f)
    PROVE  own' \in [User \X File -> Seq(OwnRow)]
  <1>1. [shared |-> 0, pv |-> 0] \in OwnRow
    BY DEF OwnRow
  <1>2. Append(own[<<u, f>>], [shared |-> 0, pv |-> 0]) \in Seq(OwnRow)
    BY <1>1 DEF DataTyped
  <1>3. QED
    BY <1>2 DEF DataTyped, AddOwnRow

LEMMA IncUserCountTyped ==
    ASSUME DataTyped, NEW u \in User, IncUserCount(u)
    PROVE  userCount' \in [User -> Nat \cup {NULL}]
  BY DEF DataTyped, IncUserCount

LEMMA SetRefCountTyped ==
    ASSUME DataTyped, NEW m, NEW n \in Nat, SetRefCount(m, n)
    PROVE  /\ DOMAIN fileInfo' = DOMAIN fileInfo
           /\ fileInfo' \in [DOMAIN fileInfo' -> Row]
           /\ \A d : {i \in DOMAIN fileInfo' : fileInfo'[i].md5 = d} = RowsOf(d)
  BY DEF DataTyped, SetRefCount, Row, RowsOf

LEMMA SetSharedTyped ==
    ASSUME DataTyped, NEW u \in User, NEW f \in File, NEW v \in {0, 1},
           SetShared(u, f, v)
    PROVE  own' \in [User \X File -> Seq(OwnRow)]
  <1>1. [i \in DOMAIN own[<<u, f>>] |-> [own[<<u, f>>][i] EXCEPT !.shared = v]]
           \in Seq(OwnRow)
    BY MapsOfSeqs DEF DataTyped
  <1>2. QED
    BY <1>1 DEF DataTyped, SetShared

LEMMA SetScoreTyped ==
    ASSUME DataTyped, NEW f \in File, NEW s \in Nat \cup {NULL}, SetScore(f, s)
    PROVE  zset' \in [File -> Nat \cup {NULL}]
  BY DEF DataTyped, SetScore

LEMMA EmptyRows == <<>> \in Seq(Nat) /\ <<>> \in Seq(OwnRow)
  OBVIOUS

LEMMA LowerTyped == \A n \in Nat : Lower(n) \in Nat
  BY DEF Lower

LEMMA FirstCount ==
    ASSUME DataTyped, NEW m, RowsOf(m) # {}
    PROVE  FirstOf(m) \in Nat /\ fileInfo[FirstOf(m)].count \in Nat
  <1>1. FirstOf(m) \in DOMAIN fileInfo
    BY FirstOfIsRow DEF DataTyped, RowsOf
  <1>2. QED
    BY <1>1 DEF DataTyped, Row

LEMMA Addressed ==
    ASSUME Typed, req.pc \notin RankPCs \cup {"idle", "reply"}
    PROVE  /\ DataTyped /\ req.user \in User /\ req.file \in File /\ req.count \in Nat
           /\ <<req.user, req.file>> \in User \X File /\ M \in Md5
  BY TypeParts, ParametersAssumption DEF Typed, Control, TypeOK, Requests, M

LEMMA UploadData == Typed /\ Upload => DataTyped'
  <1> SUFFICES ASSUME Typed, Upload PROVE DataTyped'
    OBVIOUS
  <1>1. CASE UploadStore
    BY <1>1, TypeParts DEF UploadStore, DataTyped, Typed, mysql, redis
  <1>2. CASE UploadInfo
    <2>1. DataTyped /\ req.fid \in Nat /\ M \in Md5
      BY <1>2, Addressed DEF UploadInfo, At, RankPCs, Typed, Control
    <2>2. QED
      BY <1>2, <2>1 DEF UploadInfo, DataTyped, Row, redis, dfs
  <1>3. CASE UploadOwn
    <2>1. DataTyped /\ req.user \in User /\ req.file \in File
      BY <1>3, Addressed DEF UploadOwn, At, RankPCs
    <2>2. QED
      BY <1>3, <2>1, AddOwnRowTyped DEF UploadOwn, DataTyped, redis, dfs
  <1>4. CASE UploadCount
    <2>1. DataTyped /\ req.user \in User
      BY <1>4, Addressed DEF UploadCount, At, RankPCs
    <2>2. QED
      BY <1>4, <2>1, IncUserCountTyped DEF UploadCount, DataTyped, redis, dfs
  <1>5. QED
    BY <1>1, <1>2, <1>3, <1>4 DEF Upload

LEMMA InstantUploadData == Typed /\ InstantUpload => DataTyped'
  <1> SUFFICES ASSUME Typed, InstantUpload PROVE DataTyped'
    OBVIOUS
  <1>1. CASE Md5Check
    BY <1>1, SameData, TypeParts DEF Md5Check, Typed
  <1>2. CASE Md5Ref
    <2>1. DataTyped /\ RowsOf(M) # {}
      BY <1>2, TypeParts DEF Md5Ref, At, Typed, Control
    <2>2. fileInfo[FirstOf(M)].count + 1 \in Nat
      BY <2>1, FirstCount
    <2>3. QED
      BY <1>2, <2>1, <2>2, SetRefCountTyped DEF Md5Ref, DataTyped, redis, dfs
  <1>3. CASE Md5Own
    <2>1. DataTyped /\ req.user \in User /\ req.file \in File
      BY <1>3, Addressed DEF Md5Own, At, RankPCs
    <2>2. QED
      BY <1>3, <2>1, AddOwnRowTyped DEF Md5Own, DataTyped, redis, dfs
  <1>4. CASE Md5Count
    <2>1. DataTyped /\ req.user \in User
      BY <1>4, Addressed DEF Md5Count, At, RankPCs
    <2>2. QED
      BY <1>4, <2>1, IncUserCountTyped DEF Md5Count, DataTyped, redis, dfs
  <1>5. CASE Md5Restore
    <2>1. DataTyped /\ req.count \in Nat
      BY <1>5, Addressed DEF Md5Restore, At, RankPCs
    <2>2. QED
      BY <1>5, <2>1, SetRefCountTyped DEF Md5Restore, DataTyped, redis, dfs
  <1>6. QED
    BY <1>1, <1>2, <1>3, <1>4, <1>5 DEF InstantUpload

LEMMA ShareData == Typed /\ Share => DataTyped'
  <1> SUFFICES ASSUME Typed, Share PROVE DataTyped'
    OBVIOUS
  <1>0. ASSUME req.pc \in SharePCs
        PROVE  DataTyped /\ req.user \in User /\ req.file \in File
    BY <1>0, Addressed DEF SharePCs, RankPCs
  <1>1. CASE ShareCheck
    BY <1>1, SameData, TypeParts DEF ShareCheck, Typed
  <1>2. CASE ShareHealZset \/ ShareZset
    BY <1>0, <1>2, SetScoreTyped
    DEF ShareHealZset, ShareZset, At, SharePCs, DataTyped, mysql, dfs
  <1>3. CASE ShareHealHash \/ ShareHash
    BY <1>0, <1>3 DEF ShareHealHash, ShareHash, At, SharePCs, DataTyped, mysql, dfs
  <1>4. CASE ShareFlag
    BY <1>0, <1>4, SetSharedTyped
    DEF ShareFlag, At, SharePCs, DataTyped, redis, dfs
  <1>5. CASE ShareInsert
    <2>1. DataTyped /\ <<req.user, req.file>> \in User \X File
      BY <1>0, <1>5 DEF ShareInsert, At, SharePCs
    <2>2. Append(shares[<<req.user, req.file>>], 0) \in Seq(Nat)
      BY <2>1 DEF DataTyped
    <2>3. QED
      BY <1>5, <2>1, <2>2 DEF ShareInsert, DataTyped, redis, dfs
  <1>6. CASE ShareCount
    BY <1>6, TypeParts DEF ShareCount, Typed, DataTyped, redis, dfs
  <1>7. QED
    BY <1>1, <1>2, <1>3, <1>4, <1>5, <1>6 DEF Share

LEMMA DeleteData == Typed /\ Delete => DataTyped'
  <1> SUFFICES ASSUME Typed, Delete PROVE DataTyped'
    OBVIOUS
  <1>0. DataTyped
    BY TypeParts DEF Typed
  <1>1. CASE DeleteCheck
    BY <1>0, <1>1, SameData DEF DeleteCheck
  <1>2. CASE DeleteShareRows
    BY <1>0, <1>2, EmptyRows DEF DeleteShareRows, DropShareRows, DataTyped, redis, dfs
  <1>3. CASE DeleteShareCount
    BY <1>0, <1>3 DEF DeleteShareCount, DataTyped, redis, dfs
  <1>4. CASE DeleteZset
    BY <1>0, <1>4 DEF DeleteZset, SetScore, DataTyped, mysql, dfs
  <1>5. CASE DeleteHash
    BY <1>0, <1>5 DEF DeleteHash, DataTyped, mysql, dfs
  <1>6. CASE DeleteUserCount
    <2>1. req.user \in User
      BY <1>6, Addressed DEF DeleteUserCount, At, RankPCs
    <2>2. userCount[req.user] # NULL => Lower(userCount[req.user]) \in Nat
      BY <1>0, <2>1, LowerTyped DEF DataTyped
    <2>3. QED
      BY <1>0, <1>6, <2>1, <2>2 DEF DeleteUserCount, DataTyped, redis, dfs
  <1>7. CASE DeleteOwn
    BY <1>0, <1>7, EmptyRows DEF DeleteOwn, DataTyped, redis, dfs
  <1>8. CASE DeleteRef
    <2>1. CASE RowsOf(M) = {} \/ UNCHANGED fileInfo
      BY <1>0, <1>8, <2>1 DEF DeleteRef, DataTyped, redis, dfs
    <2>2. CASE RowsOf(M) # {} /\ SetRefCount(M, Lower(fileInfo[FirstOf(M)].count))
      <3>1. Lower(fileInfo[FirstOf(M)].count) \in Nat
        BY <1>0, <2>2, FirstCount, LowerTyped
      <3>2. QED
        BY <1>0, <1>8, <2>2, <3>1, SetRefCountTyped
        DEF DeleteRef, DataTyped, redis, dfs
    <2>3. QED
      BY <1>8, <2>1, <2>2 DEF DeleteRef
  <1>9. CASE DeleteInfo
    BY <1>0, <1>9 DEF DeleteInfo, DataTyped, redis, dfs
  <1>10. CASE DeleteStore
    BY <1>0, <1>10 DEF DeleteStore, DataTyped, mysql, redis
  <1>11. QED
    BY <1>1, <1>2, <1>3, <1>4, <1>5, <1>6, <1>7, <1>8, <1>9, <1>10 DEF Delete

LEMMA CancelData == Typed /\ Cancel => DataTyped'
  <1> SUFFICES ASSUME Typed, Cancel PROVE DataTyped'
    OBVIOUS
  <1>0. DataTyped
    BY TypeParts DEF Typed
  <1>1. CASE CancelFlag
    <2>1. req.user \in User /\ req.file \in File
      BY <1>1, Addressed DEF CancelFlag, At, RankPCs
    <2>2. QED
      BY <1>0, <1>1, <2>1, SetSharedTyped DEF CancelFlag, DataTyped, redis, dfs
  <1>2. CASE CancelCount
    BY <1>0, <1>2 DEF CancelCount, Lower, DataTyped, redis, dfs
  <1>3. CASE CancelRows
    BY <1>0, <1>3, EmptyRows DEF CancelRows, DropShareRows, DataTyped, redis, dfs
  <1>4. CASE CancelZset
    BY <1>0, <1>4 DEF CancelZset, SetScore, DataTyped, mysql, dfs
  <1>5. CASE CancelHash
    BY <1>0, <1>5 DEF CancelHash, DataTyped, mysql, dfs
  <1>6. QED
    BY <1>1, <1>2, <1>3, <1>4, <1>5 DEF Cancel

LEMMA SaveData == Typed /\ Save => DataTyped'
  <1> SUFFICES ASSUME Typed, Save PROVE DataTyped'
    OBVIOUS
  <1>0. ASSUME req.pc \in {"save_ref", "save_own", "save_count"}
        PROVE  DataTyped /\ req.user \in User /\ req.file \in File
    BY <1>0, Addressed DEF RankPCs
  <1>1. CASE SaveCheck
    BY <1>1, SameData, TypeParts DEF SaveCheck, Typed
  <1>2. CASE SaveRef
    <2>1. DataTyped /\ RowsOf(M) # {}
      BY <1>2, TypeParts DEF SaveRef, At, Typed, Control
    <2>2. fileInfo[FirstOf(M)].count + 1 \in Nat
      BY <2>1, FirstCount
    <2>3. QED
      BY <1>2, <2>1, <2>2, SetRefCountTyped DEF SaveRef, DataTyped, redis, dfs
  <1>3. CASE SaveOwn
    BY <1>0, <1>3, AddOwnRowTyped DEF SaveOwn, At, DataTyped, redis, dfs
  <1>4. CASE SaveCount
    BY <1>0, <1>4, IncUserCountTyped DEF SaveCount, At, DataTyped, redis, dfs
  <1>5. QED
    BY <1>1, <1>2, <1>3, <1>4 DEF Save

LEMMA CountOwnDownloadData == Typed /\ CountOwnDownload => DataTyped'
  <1> SUFFICES ASSUME Typed, CountOwnDownload PROVE DataTyped'
    OBVIOUS
  <1>1. DataTyped /\ <<req.user, req.file>> \in User \X File
    BY Addressed DEF CountOwnDownload, At, RankPCs
  <1>2. [i \in DOMAIN own[<<req.user, req.file>>] |->
            [own[<<req.user, req.file>>][i] EXCEPT !.pv = 1]] \in Seq(OwnRow)
    BY <1>1, MapsOfSeqs DEF DataTyped
  <1>3. QED
    BY <1>1, <1>2 DEF CountOwnDownload, DataTyped, redis, dfs

LEMMA RankedScore ==
    ASSUME DataTyped, NEW f, ZLexCount(f) = 1
    PROVE  f \in File /\ zset[f] \in Nat
  <1>1. f \in Ranked
    BY DEF ZLexCount
  <1>2. QED
    BY <1>1 DEF Ranked, DataTyped

LEMMA SharePvData == Typed /\ SharePv => DataTyped'
  <1> SUFFICES ASSUME Typed, SharePv PROVE DataTyped'
    OBVIOUS
  <1>0. ASSUME req.pc \in {"sp_update", "sp_zset", "sp_hash"}
        PROVE  DataTyped /\ req.user \in User /\ req.file \in File /\ req.count \in Nat
    BY <1>0, Addressed DEF RankPCs
  <1>1. CASE SharePvUpdate
    <2>1. DataTyped /\ req.file \in File
      BY <1>0, <1>1 DEF SharePvUpdate, At
    <2>2. CASE UNCHANGED shares
      BY <1>1, <2>1, <2>2 DEF SharePvUpdate, DataTyped, redis, dfs
    <2>3. ASSUME NEW u \in User, NEW i \in DOMAIN shares[<<u, req.file>>],
                 shares' = [x \in User \X File |->
                     IF x[2] = req.file
                     THEN [k \in DOMAIN shares[x] |-> shares[<<u, req.file>>][i] + 1]
                     ELSE shares[x]]
          PROVE  DataTyped'
      <3>1. shares[<<u, req.file>>] \in Seq(Nat)
        BY <2>1 DEF DataTyped
      <3>2. shares[<<u, req.file>>][i] + 1 \in Nat
        BY <2>3, <3>1
      <3>3. \A x \in User \X File :
               [k \in DOMAIN shares[x] |-> shares[<<u, req.file>>][i] + 1] \in Seq(Nat)
        BY <2>1, <3>2, MapsOfSeqs DEF DataTyped
      <3>4. shares' \in [User \X File -> Seq(Nat)]
        BY <2>1, <2>3, <3>3 DEF DataTyped
      <3>5. QED
        BY <1>1, <2>1, <3>4 DEF SharePvUpdate, DataTyped, redis, dfs
    <2>4. QED
      BY <1>1, <2>2, <2>3 DEF SharePvUpdate
  <1>2. CASE SharePvZset
    <2>1. DataTyped /\ req.file \in File /\ req.count \in Nat
      BY <1>0, <1>2 DEF SharePvZset, At
    <2>2. zset' \in [File -> Nat \cup {NULL}]
      <3>1. CASE ZLexCount(req.file) = 1
        BY <1>2, <2>1, <3>1, RankedScore, SetScoreTyped DEF SharePvZset
      <3>2. CASE ZLexCount(req.file) = 0
        BY <1>2, <2>1, <3>2, SetScoreTyped DEF SharePvZset
      <3>3. CASE ZLexCount(req.file) \notin {0, 1}
        BY <1>2, <2>1, <3>3 DEF SharePvZset, DataTyped
      <3>4. QED
        BY <3>1, <3>2, <3>3
    <2>3. QED
      BY <1>2, <2>1, <2>2 DEF SharePvZset, DataTyped, mysql, dfs
  <1>3. CASE SharePvHash
    BY <1>0, <1>3 DEF SharePvHash, At, DataTyped, mysql, dfs
  <1>4. QED
    BY <1>1, <1>2, <1>3 DEF SharePv

LEMMA RankingData == Typed /\ Ranking => DataTyped'
  <1> SUFFICES ASSUME Typed, Ranking PROVE DataTyped'
    OBVIOUS
  <1>0. DataTyped
    BY TypeParts DEF Typed
  <1>1. CASE RankCount
    BY <1>0, <1>1 DEF RankCount, DataTyped, redis, dfs
  <1>2. CASE RankCompare \/ RankLoad \/ RankList
    BY <1>0, <1>2, SameData DEF RankCompare, RankLoad, RankList
  <1>3. CASE RankClearZset
    BY <1>0, <1>3 DEF RankClearZset, DataTyped, mysql, dfs
  <1>4. CASE RankClearHash
    BY <1>0, <1>4 DEF RankClearHash, DataTyped, mysql, dfs
  <1>5. CASE RankImportZset
    <2>1. req.todo \subseteq ShareRows
      BY <1>5 DEF RankImportZset, At, Typed, Control
    <2>2. ASSUME NEW r \in ShareRows PROVE r[1][2] \in File /\ Pv(r) \in Nat
      BY <1>0, <2>2 DEF DataTyped, ShareRows, Pv
    <2>3. zset' \in [File -> Nat \cup {NULL}]
      BY <1>0, <1>5, <2>1, <2>2, SetScoreTyped DEF RankImportZset, DataTyped
    <2>4. QED
      BY <1>0, <1>5, <2>3 DEF RankImportZset, DataTyped, mysql, dfs
  <1>6. CASE RankImportHash
    <2>1. req.file \in File
      BY <1>6 DEF RankImportHash, At, Typed, Control
    <2>2. QED
      BY <1>0, <1>6, <2>1 DEF RankImportHash, DataTyped, mysql, dfs
  <1>7. QED
    BY <1>1, <1>2, <1>3, <1>4, <1>5, <1>6 DEF Ranking

LEMMA ListData == Typed /\ List => DataTyped'
  <1> SUFFICES ASSUME Typed, List PROVE DataTyped'
    OBVIOUS
  <1>1. DataTyped
    BY TypeParts DEF Typed
  <1>2. CASE ListCount
    BY <1>1, <1>2 DEF ListCount, DataTyped, redis, dfs
  <1>3. CASE ListRows
    BY <1>1, <1>3, SameData DEF ListRows
  <1>4. QED
    BY <1>2, <1>3 DEF List

LEMMA OtherData ==
    Typed /\ (\/ \E op \in Ops, u \in User, f \in File : Request(op, u, f)
              \/ RequestRanking \/ RepeatRequest \/ Respond \/ SqlFails
              \/ QueryFails \/ RedisFails \/ DfsFails \/ Crash \/ RedisLoss)
        => DataTyped'
  <1>1. Typed /\ RedisLoss => DataTyped'
    BY TypeParts DEF Typed, RedisLoss, DataTyped, mysql, dfs
  <1>2. QED
    BY <1>1, SameData, TypeParts
    DEF Typed, Request, Dispatch, RequestRanking, RepeatRequest, Respond,
        SqlFails, QueryFails, RedisFails, DfsFails, Crash

LEMMA DataStep == Typed /\ [Next]_vars => DataTyped'
  <1>1. Typed /\ UNCHANGED vars => DataTyped'
    BY SameData, TypeParts DEF Typed, vars
  <1>2. QED
    BY <1>1, UploadData, InstantUploadData, ShareData, DeleteData, CancelData,
       SaveData, CountOwnDownloadData, SharePvData, RankingData, ListData,
       OtherData DEF Next, Handle
-----------------------------------------------------------------------------
(* The handler's locals, and where it goes on.                                *)

\* The handlers of users' requests that Control does not tell apart.
OtherPCs == PCs \ (SharePCs \cup DeletePCs \cup RankPCs \cup {"idle", "reply"})

LocalsTyped == req \in Requests /\ last \in Requests /\ faults \in Nat /\ Control

LEMMA MoveOn ==
    ASSUME Typed, NEW p, Moves(p), UNCHANGED last, faults' \in Nat,
           \/ p = "reply"
           \/ req.pc \in SharePCs /\ p \in SharePCs
           \/ req.pc \in DeletePCs /\ p \in DeletePCs
           \/ req.pc \in OtherPCs /\ p \in OtherPCs
           \/ req.pc \in RankPCs /\ p \in RankPCs,
           p \in {"md5_ref", "save_ref", "del_info"} => RowsOf(M)' # {},
           p \notin {"up_info", "rank_import_zset", "rank_import_hash"}
    PROVE  LocalsTyped'
  <1>1. req' \in Requests /\ last' \in Requests
    BY DEF Moves, Typed, TypeOK
  <1>2. Control'
    BY DEF Typed, Control, Moves, OtherPCs, SharePCs, DeletePCs, RankPCs
  <1>3. QED
    BY <1>1, <1>2 DEF LocalsTyped

LEMMA SameRows == ASSUME UNCHANGED fileInfo, NEW p, Moves(p)
                  PROVE  RowsOf(M)' = RowsOf(M)
  BY DEF RowsOf, M, Moves

LEMMA UploadLocals == Typed /\ Upload => LocalsTyped'
  <1> SUFFICES ASSUME Typed, Upload PROVE LocalsTyped'
    OBVIOUS
  <1>0. TypeOK /\ Control
    BY DEF Typed
  <1>1. CASE UploadStore
    <2>1. "up_info" \in PCs /\ uploads' \in Nat
      BY <1>0, <1>1 DEF UploadStore, PCs, TypeOK
    <2>2. /\ req' \in Requests /\ req'.pc = "up_info" /\ req'.fid \in Nat
          /\ req'.op = req.op /\ req'.user = req.user /\ req'.file = req.file
      BY <1>0, <1>1, <2>1, FidGoesOn DEF UploadStore
    <2>3. QED
      BY <1>0, <1>1, <2>2 DEF UploadStore, LocalsTyped, Control, TypeOK, At,
                              SharePCs, DeletePCs, RankPCs, aux
  <1>2. CASE UploadInfo \/ UploadOwn \/ UploadCount
    <2>1. /\ req.pc \in OtherPCs
          /\ Moves("up_own") \/ Moves("up_count") \/ Moves("reply")
          /\ UNCHANGED last /\ faults' \in Nat
      BY <1>0, <1>2, GotoMoves, ReplyMoves
      DEF UploadInfo, UploadOwn, UploadCount, At, OtherPCs, PCs, SharePCs,
          DeletePCs, RankPCs, aux, TypeOK
    <2>2. {"up_own", "up_count"} \subseteq OtherPCs
      BY DEF OtherPCs, PCs, SharePCs, DeletePCs, RankPCs
    <2>3. QED
      BY <2>1, <2>2, MoveOn
  <1>3. QED
    BY <1>1, <1>2 DEF Upload

LEMMA InstantUploadLocals == Typed /\ InstantUpload => LocalsTyped'
  <1> SUFFICES ASSUME Typed, InstantUpload PROVE LocalsTyped'
    OBVIOUS
  <1>0. TypeOK /\ DataTyped /\ UNCHANGED last /\ faults' \in Nat
    BY TypeParts DEF Typed, InstantUpload, Md5Check, Md5Ref, Md5Own, Md5Count,
                     Md5Restore, aux
  <1>1. /\ req.pc \in OtherPCs
        /\ {"md5_ref", "md5_own", "md5_count", "md5_restore"} \subseteq OtherPCs
        /\ OtherPCs \subseteq PCs
    BY DEF InstantUpload, Md5Check, Md5Ref, Md5Own, Md5Count, Md5Restore, At,
           OtherPCs, PCs, SharePCs, DeletePCs, RankPCs
  <1>2. CASE Md5Check
    <2>1. Moves("reply") \/ (Moves("md5_ref") /\ RowsOf(M) # {})
      BY <1>0, <1>1, <1>2, GotoMoves, ReplyMoves DEF Md5Check
    <2>2. UNCHANGED fileInfo
      BY <1>2 DEF Md5Check, mysql
    <2>3. QED
      BY <1>0, <1>1, <2>1, <2>2, SameRows, MoveOn
  <1>3. CASE Md5Ref
    <2>1. fileInfo[FirstOf(M)].count \in Nat
      BY <1>0, <1>3, FirstCount DEF Md5Ref, At, Typed, Control
    <2>2. Moves("md5_own")
      BY <1>0, <1>1, <1>3, <2>1, CountMoves DEF Md5Ref
    <2>3. QED
      BY <1>0, <1>1, <2>2, MoveOn
  <1>4. CASE Md5Own \/ Md5Count \/ Md5Restore
    <2>1. Moves("md5_count") \/ Moves("md5_restore") \/ Moves("reply")
      BY <1>0, <1>1, <1>4, GotoMoves, ReplyMoves DEF Md5Own, Md5Count, Md5Restore
    <2>2. QED
      BY <1>0, <1>1, <2>1, MoveOn
  <1>5. QED
    BY <1>2, <1>3, <1>4 DEF InstantUpload

LEMMA ShareLocals == Typed /\ Share => LocalsTyped'
  <1> SUFFICES ASSUME Typed, Share PROVE LocalsTyped'
    OBVIOUS
  <1>0. TypeOK /\ UNCHANGED last /\ faults' \in Nat
    BY DEF Typed, TypeOK, Share, ShareCheck, ShareHealZset, ShareHealHash,
           ShareFlag, ShareInsert, ShareCount, ShareZset, ShareHash, aux
  <1>1. req.pc \in SharePCs /\ SharePCs \subseteq PCs
    BY DEF Share, ShareCheck, ShareHealZset, ShareHealHash, ShareFlag,
           ShareInsert, ShareCount, ShareZset, ShareHash, At, SharePCs, PCs
  <1>2. (\E p \in SharePCs : Goto(p)) \/ (\E c \in {OK, FAIL, SHARE_HAD} : Reply(c))
    BY DEF Share, ShareCheck, ShareHealZset, ShareHealHash, ShareFlag,
           ShareInsert, ShareCount, ShareZset, ShareHash, SharePCs
  <1>3. \E p \in SharePCs \cup {"reply"} : Moves(p)
    BY <1>0, <1>1, <1>2, GotoMoves, ReplyMoves
  <1>4. \A p \in SharePCs \cup {"reply"} : p \notin {"md5_ref", "save_ref",
            "del_info", "up_info", "rank_import_zset", "rank_import_hash"}
    BY DEF SharePCs
  <1>5. QED
    BY <1>0, <1>1, <1>3, <1>4, MoveOn

LEMMA DeleteLocals == Typed /\ Delete => LocalsTyped'
  <1> SUFFICES ASSUME Typed, Delete PROVE LocalsTyped'
    OBVIOUS
  <1>0. TypeOK /\ DataTyped /\ UNCHANGED last /\ faults' \in Nat
    BY TypeParts
    DEF Typed, Delete, DeleteCheck, DeleteShareRows, DeleteShareCount,
        DeleteZset, DeleteHash, DeleteUserCount, DeleteOwn, DeleteRef,
        DeleteInfo, DeleteStore, aux, Fault
  <1>1. req.pc \in DeletePCs /\ DeletePCs \subseteq PCs
    BY DEF Delete, DeleteCheck, DeleteShareRows, DeleteShareCount, DeleteZset,
           DeleteHash, DeleteUserCount, DeleteOwn, DeleteRef, DeleteInfo,
           DeleteStore, At, DeletePCs, PCs
  <1>2. ASSUME NEW p \in (DeletePCs \ {"del_info"}) \cup {"reply"}, Moves(p)
        PROVE  LocalsTyped'
    <2>1. p \notin {"md5_ref", "save_ref", "del_info", "up_info",
                    "rank_import_zset", "rank_import_hash"}
      BY <1>2 DEF DeletePCs
    <2>2. QED
      BY <1>0, <1>1, <1>2, <2>1, MoveOn
  <1>3. CASE DeleteRef
    <2>1. Moves("reply") \/ (Moves("del_info") /\ RowsOf(M) # {})
      BY <1>0, <1>1, <1>3, GotoMoves, ReplyMoves DEF DeleteRef, DeletePCs
    <2>2. ASSUME Moves("del_info"), RowsOf(M) # {} PROVE RowsOf(M)' # {}
      <3>1. CASE UNCHANGED fileInfo
        BY <2>2, <3>1, SameRows
      <3>2. CASE SetRefCount(M, Lower(fileInfo[FirstOf(M)].count))
        <4>1. Lower(fileInfo[FirstOf(M)].count) \in Nat
          BY <1>0, <2>2, FirstCount, LowerTyped
        <4>2. \A d : {i \in DOMAIN fileInfo' : fileInfo'[i].md5 = d} = RowsOf(d)
          BY <1>0, <3>2, <4>1, SetRefCountTyped
        <4>3. M' = M
          BY <2>2 DEF M, Moves
        <4>4. QED
          BY <2>2, <4>2, <4>3 DEF RowsOf
      <3>3. QED
        BY <1>3, <2>2, <3>1, <3>2 DEF DeleteRef
    <2>3. "del_info" \in DeletePCs
      BY DEF DeletePCs
    <2>4. QED
      BY <1>0, <1>1, <1>2, <2>1, <2>2, <2>3, MoveOn
  <1>4. CASE DeleteInfo
    <2>1. FirstOf(M) \in Nat /\ "del_store" \in PCs
      BY <1>0, <1>4, FirstCount DEF DeleteInfo, At, Typed, Control, PCs
    <2>2. /\ req' \in Requests /\ req'.pc = "del_store"
          /\ req'.op = req.op /\ req'.user = req.user /\ req'.file = req.file
      BY <1>0, <1>4, <2>1, FidGoesOn DEF DeleteInfo
    <2>3. QED
      BY <1>0, <1>4, <2>2
      DEF DeleteInfo, LocalsTyped, Typed, Control, TypeOK, At, SharePCs,
          DeletePCs, RankPCs
  <1>5. CASE DeleteCheck
    <2>1. \/ Moves("reply") \/ Moves("del_share_rows") \/ Moves("del_user_count")
      BY <1>0, <1>1, <1>5, GotoMoves, ReplyMoves, RankedMoves
      DEF DeleteCheck, DeletePCs
    <2>2. QED
      BY <1>2, <2>1 DEF DeletePCs
  <1>6. CASE ~(DeleteRef \/ DeleteInfo \/ DeleteCheck)
    <2>1. \/ \E p \in DeletePCs \ {"del_info"} : Goto(p)
          \/ \E c \in {OK, FAIL} : Reply(c)
      BY <1>6 DEF Delete, DeleteShareRows, DeleteShareCount, DeleteZset,
                  DeleteHash, DeleteUserCount, DeleteOwn, DeleteStore, DeletePCs
    <2>2. QED
      BY <1>0, <1>1, <1>2, <2>1, GotoMoves, ReplyMoves
  <1>7. QED
    BY <1>3, <1>4, <1>5, <1>6

\* The handlers that only move within OtherPCs, or answer.
LEMMA MoveOther ==
    ASSUME Typed, req.pc \in OtherPCs, UNCHANGED last, faults' \in Nat,
           NEW p \in (OtherPCs \ {"md5_ref", "save_ref", "up_info"}) \cup {"reply"},
           Moves(p)
    PROVE  LocalsTyped'
  <1>1. p \notin {"md5_ref", "save_ref", "del_info", "up_info",
                  "rank_import_zset", "rank_import_hash"}
    BY DEF OtherPCs, DeletePCs, RankPCs
  <1>2. QED
    BY <1>1, MoveOn

LEMMA CancelLocals == Typed /\ Cancel => LocalsTyped'
  <1> SUFFICES ASSUME Typed, Cancel PROVE LocalsTyped'
    OBVIOUS
  <1>0. TypeOK /\ UNCHANGED last /\ faults' \in Nat
    BY DEF Typed, TypeOK, Cancel, CancelFlag, CancelCount, CancelRows,
           CancelZset, CancelHash, aux
  <1>1. /\ req.pc \in OtherPCs /\ OtherPCs \subseteq PCs
        /\ {"cancel_count", "cancel_rows", "cancel_zset", "cancel_hash"}
              \subseteq OtherPCs \ {"md5_ref", "save_ref", "up_info"}
    BY DEF Cancel, CancelFlag, CancelCount, CancelRows, CancelZset, CancelHash,
           At, OtherPCs, PCs, SharePCs, DeletePCs, RankPCs
  <1>2. \/ \E p \in {"cancel_count", "cancel_rows", "cancel_zset", "cancel_hash"} : Goto(p)
        \/ \E c \in {OK, FAIL} : DealshareReply(c)
    BY DEF Cancel, CancelFlag, CancelCount, CancelRows, CancelZset, CancelHash
  <1>3. QED
    BY <1>0, <1>1, <1>2, GotoMoves, DealshareReplyMoves, MoveOther

LEMMA SaveLocals == Typed /\ Save => LocalsTyped'
  <1> SUFFICES ASSUME Typed, Save PROVE LocalsTyped'
    OBVIOUS
  <1>0. TypeOK /\ UNCHANGED last /\ faults' \in Nat
    BY DEF Typed, TypeOK, Save, SaveCheck, SaveRef, SaveOwn, SaveCount, aux
  <1>1. /\ req.pc \in OtherPCs /\ OtherPCs \subseteq PCs /\ "save_ref" \in OtherPCs
        /\ {"save_own", "save_count"} \subseteq OtherPCs \ {"md5_ref", "save_ref", "up_info"}
    BY DEF Save, SaveCheck, SaveRef, SaveOwn, SaveCount, At, OtherPCs, PCs,
           SharePCs, DeletePCs, RankPCs
  <1>2. CASE SaveCheck
    <2>1. Moves("reply") \/ (Moves("save_ref") /\ RowsOf(M) # {})
      BY <1>0, <1>1, <1>2, GotoMoves, DealshareReplyMoves DEF SaveCheck
    <2>2. UNCHANGED fileInfo
      BY <1>2 DEF SaveCheck, mysql
    <2>3. QED
      BY <1>0, <1>1, <2>1, <2>2, SameRows, MoveOn
  <1>3. CASE SaveRef \/ SaveOwn \/ SaveCount
    <2>1. Moves("save_own") \/ Moves("save_count") \/ Moves("reply")
      BY <1>0, <1>1, <1>3, GotoMoves, DealshareReplyMoves
      DEF SaveRef, SaveOwn, SaveCount
    <2>2. QED
      BY <1>0, <1>1, <2>1, MoveOther
  <1>4. QED
    BY <1>2, <1>3 DEF Save

LEMMA PvLocals == Typed /\ (SharePv \/ CountOwnDownload) => LocalsTyped'
  <1> SUFFICES ASSUME Typed, SharePv \/ CountOwnDownload PROVE LocalsTyped'
    OBVIOUS
  <1>0. TypeOK /\ DataTyped /\ UNCHANGED last /\ faults' \in Nat
    BY TypeParts DEF Typed, SharePv, SharePvUpdate, SharePvZset, SharePvHash,
                     CountOwnDownload, aux
  <1>1. /\ req.pc \in OtherPCs /\ OtherPCs \subseteq PCs
        /\ {"sp_zset", "sp_hash"} \subseteq OtherPCs \ {"md5_ref", "save_ref", "up_info"}
    <2>1. req.pc \in {"pv_update", "sp_update", "sp_zset", "sp_hash"}
      BY DEF SharePv, SharePvUpdate, SharePvZset, SharePvHash, CountOwnDownload, At
    <2>2. QED
      BY <2>1 DEF OtherPCs, PCs, SharePCs, DeletePCs, RankPCs
  <1>2. CASE SharePvUpdate
    <2>1. CASE DealshareReply(FAIL)
      BY <1>0, <1>1, <2>1, DealshareReplyMoves, MoveOther
    <2>2. ASSUME NEW u \in User, NEW i \in DOMAIN shares[<<u, req.file>>],
                 req' = [req EXCEPT !.pc = "sp_zset",
                                    !.count = shares[<<u, req.file>>][i] + 1]
          PROVE  LocalsTyped'
      <3>1. req.file \in File
        BY <1>2, Addressed DEF SharePvUpdate, At, RankPCs
      <3>2. shares[<<u, req.file>>] \in Seq(Nat)
        BY <1>0, <3>1 DEF DataTyped
      <3>3. shares[<<u, req.file>>][i] + 1 \in Nat
        BY <2>2, <3>2
      <3>4. Moves("sp_zset")
        BY <1>0, <1>1, <2>2, <3>3, CountMoves
      <3>5. QED
        BY <1>0, <1>1, <3>4, MoveOther
    <2>3. QED
      BY <1>2, <2>1, <2>2 DEF SharePvUpdate
  <1>3. CASE SharePvZset \/ SharePvHash \/ CountOwnDownload
    <2>1. Moves("sp_hash") \/ Moves("reply")
      BY <1>0, <1>1, <1>3, GotoMoves, ReplyMoves, DealshareReplyMoves
      DEF SharePvZset, SharePvHash, CountOwnDownload
    <2>2. QED
      BY <1>0, <1>1, <2>1, MoveOther
  <1>4. QED
    BY <1>2, <1>3 DEF SharePv

LEMMA TodoGoesOn ==
    ASSUME TypeOK, NEW p \in PCs, NEW f \in File \cup {NULL}, NEW t,
           t \subseteq (User \X File) \X Nat,
           \/ req' = [req EXCEPT !.pc = p, !.file = f, !.todo = t]
           \/ req' = [req EXCEPT !.pc = p, !.todo = t] /\ f = req.file
    PROVE  /\ req' \in Requests /\ req'.pc = p /\ req'.file = f /\ req'.todo = t
           /\ req'.op = req.op
  BY DEF TypeOK, Requests

LEMMA ShareRowsTyped ==
    DataTyped => ShareRows \subseteq (User \X File) \X Nat
  BY DEF DataTyped, ShareRows

\* An import takes a row off the list of those to be imported.
LEMMA ImportsRow ==
    ASSUME Typed, At("rank_import_zset"), NEW r \in req.todo,
           req' = [req EXCEPT !.pc = "rank_import_hash", !.file = r[1][2],
                              !.todo = @ \ {r}],
           UNCHANGED <<mysql, last>>, faults' \in Nat
    PROVE  LocalsTyped'
  <1>1. /\ TypeOK /\ DataTyped /\ req.todo \subseteq ShareRows /\ req.op = "rank"
        /\ "rank_import_hash" \in PCs
    BY TypeParts DEF Typed, Control, At, RankPCs, PCs
  <1>2. /\ r[1][2] \in File
        /\ req.todo \ {r} \subseteq (User \X File) \X Nat
    BY <1>1, ShareRowsTyped
  <1>3. /\ req' \in Requests /\ req'.pc = "rank_import_hash"
        /\ req'.file \in File /\ req'.todo \subseteq ShareRows /\ req'.op = "rank"
    <2>1. req' = [req EXCEPT !.pc = "rank_import_hash", !.file = r[1][2],
                             !.todo = req.todo \ {r}]
      OBVIOUS
    <2>2. /\ req' \in Requests /\ req'.pc = "rank_import_hash"
          /\ req'.file = r[1][2] /\ req'.todo = req.todo \ {r} /\ req'.op = req.op
      <3>1. req \in Requests
        BY <1>1 DEF TypeOK
      <3>2. QED
        BY <1>1, <1>2, <2>1, <3>1 DEF Requests
    <2>3. QED
      BY <1>1, <1>2, <2>2
  <1>4. ShareRows' = ShareRows
    BY DEF ShareRows, mysql
  <1>5. QED
    BY <1>1, <1>3, <1>4
    DEF LocalsTyped, Typed, Control, TypeOK, SharePCs, DeletePCs, RankPCs

\* A step of the ranking that leaves the list alone.
LEMMA MoveRank ==
    ASSUME Typed, req.pc \in RankPCs, UNCHANGED last, faults' \in Nat,
           NEW p \in RankPCs \cup {"reply"}, Moves(p), p # "rank_import_hash",
           p = "rank_import_zset" => /\ req.todo \subseteq ShareRows
                                     /\ UNCHANGED shares
    PROVE  LocalsTyped'
  <1>1. ShareRows' = ShareRows \/ p # "rank_import_zset"
    BY DEF ShareRows
  <1>2. QED
    BY <1>1 DEF LocalsTyped, Typed, Control, Moves, TypeOK, SharePCs, DeletePCs,
                RankPCs

LEMMA RankingLocals == Typed /\ Ranking => LocalsTyped'
  <1> SUFFICES ASSUME Typed, Ranking PROVE LocalsTyped'
    OBVIOUS
  <1>0. TypeOK /\ DataTyped /\ UNCHANGED last /\ faults' \in Nat
    BY TypeParts
    DEF Typed, Ranking, RankCount, RankCompare, RankClearZset, RankClearHash,
        RankLoad, RankImportZset, RankImportHash, RankList, aux
  <1>1. req.pc \in RankPCs /\ RankPCs \subseteq PCs
    BY DEF Ranking, RankCount, RankCompare, RankClearZset, RankClearHash,
        RankLoad, RankImportZset, RankImportHash, RankList, At, RankPCs, PCs
  <1>2. CASE RankLoad
    <2>1. /\ req' \in Requests /\ req'.pc = "rank_import_zset"
          /\ req'.file = req.file /\ req'.todo = ShareRows /\ req'.op = req.op
      BY <1>0, <1>1, <1>2, TodoGoesOn, ShareRowsTyped
      DEF RankLoad, RankPCs, TypeOK, Requests
    <2>2. ShareRows' = ShareRows /\ req.op = "rank"
      BY <1>1, <1>2 DEF RankLoad, ShareRows, mysql, Typed, Control
    <2>3. QED
      BY <1>0, <2>1, <2>2
      DEF LocalsTyped, Typed, Control, TypeOK, SharePCs, DeletePCs, RankPCs
  <1>3. CASE RankImportZset
    <2>1. CASE Goto("rank_list")
      BY <1>0, <1>1, <2>1, GotoMoves, MoveRank DEF RankPCs
    <2>2. CASE ~Goto("rank_list")
      BY <1>0, <1>3, <2>2, ImportsRow DEF RankImportZset, mysql
    <2>3. QED
      BY <2>1, <2>2
  <1>4. CASE RankImportHash
    <2>1. /\ Moves("rank_import_zset") /\ req.todo \subseteq ShareRows
          /\ UNCHANGED shares
      BY <1>0, <1>1, <1>4, GotoMoves
      DEF RankImportHash, RankPCs, At, Typed, Control, mysql
    <2>2. QED
      BY <1>0, <1>1, <2>1, MoveRank DEF RankPCs
  <1>5. CASE ~(RankLoad \/ RankImportZset \/ RankImportHash)
    <2>1. \/ \E c \in {OK, FAIL} : Reply(c)
          \/ \E p \in RankPCs \ {"rank_import_zset", "rank_import_hash"} : Goto(p)
      BY <1>5 DEF Ranking, RankCount, RankCompare, RankClearZset, RankClearHash,
                  RankList, RankPCs
    <2>2. QED
      BY <1>0, <1>1, <2>1, GotoMoves, ReplyMoves, MoveRank
  <1>6. QED
    BY <1>2, <1>3, <1>4, <1>5

\* The record of a request just received.
LEMMA Received ==
    ASSUME NEW op \in AllOps \ {"rank"}, NEW u \in User, NEW f \in File,
           req' = [Idle EXCEPT !.op = op, !.user = u, !.file = f, !.pc = FirstStep[op]],
           last' = Idle, UNCHANGED faults, Typed
    PROVE  LocalsTyped'
  <1>1. /\ FirstStep[op] \in PCs \ {"idle", "reply"}
        /\ FirstStep[op] \in SharePCs => op = "share"
        /\ FirstStep[op] \in DeletePCs => op = "del"
        /\ FirstStep[op] \notin RankPCs
        /\ FirstStep[op] \notin {"md5_ref", "save_ref", "del_info", "up_info",
                               "rank_import_zset", "rank_import_hash"}
    BY DEF AllOps, FirstStep, PCs, SharePCs, DeletePCs, RankPCs
  <1>2. /\ req' \in Requests /\ req'.pc = FirstStep[op]
        /\ req'.op = op /\ req'.user = u /\ req'.file = f
    BY <1>1 DEF Idle, Requests, OK
  <1>3. last' \in Requests /\ last'.op = NULL
    BY DEF Idle, Requests, OK, PCs
  <1>4. QED
    BY <1>1, <1>2, <1>3, ParametersAssumption
    DEF LocalsTyped, Control, Typed, TypeOK, AllOps

LEMMA ListLocals == Typed /\ List => LocalsTyped'
  <1> SUFFICES ASSUME Typed, List PROVE LocalsTyped'
    OBVIOUS
  <1>0. TypeOK /\ UNCHANGED last /\ faults' \in Nat
    BY DEF Typed, TypeOK, List, ListCount, ListRows, aux
  <1>1. /\ req.pc \in OtherPCs /\ OtherPCs \subseteq PCs
        /\ "list_rows" \in OtherPCs \ {"md5_ref", "save_ref", "up_info"}
    BY DEF List, ListCount, ListRows, At, OtherPCs, PCs, SharePCs, DeletePCs,
           RankPCs
  <1>2. Moves("list_rows") \/ Moves("reply")
    BY <1>0, <1>1, GotoMoves, ReplyMoves DEF List, ListCount, ListRows
  <1>3. QED
    BY <1>0, <1>1, <1>2, MoveOther

LEMMA RequestLocals ==
    Typed /\ (\/ \E op \in Ops, u \in User, f \in File : Request(op, u, f)
              \/ RequestRanking \/ RepeatRequest \/ Respond \/ Crash \/ RedisLoss)
        => LocalsTyped'
  <1>1. ASSUME Typed, NEW op \in Ops, NEW u \in User, NEW f \in File,
               Request(op, u, f)
        PROVE  LocalsTyped'
    BY <1>1, Received, ParametersAssumption DEF Request, Dispatch
  <1>2. ASSUME Typed, RepeatRequest PROVE LocalsTyped'
    BY <1>2, Received DEF RepeatRequest, Typed, TypeOK, Control, Requests
  <1>3. Idle \in Requests /\ Idle.op = NULL /\ Idle.pc = "idle"
    BY DEF Idle, Requests, OK, PCs
  <1>4. ASSUME Typed, RequestRanking PROVE LocalsTyped'
    <2>1. /\ req' \in Requests /\ req'.pc = "rank_count" /\ req'.op = "rank"
          /\ last' = Idle /\ faults' = faults
      BY <1>4 DEF RequestRanking, Idle, Requests, OK, PCs, FirstStep, AllOps
    <2>2. QED
      BY <1>3, <1>4, <2>1
      DEF LocalsTyped, Control, Typed, TypeOK, SharePCs, DeletePCs, RankPCs
  <1>5. ASSUME Typed, Respond PROVE LocalsTyped'
    <2>1. /\ req' = Idle /\ faults' = faults /\ last' \in Requests
          /\ \/ last'.op = NULL
             \/ last'.op = req.op /\ last'.user = req.user /\ last'.file = req.file
      BY <1>3, <1>5 DEF Respond, Idle, Typed, TypeOK, Requests
    <2>2. QED
      BY <1>3, <1>5, <2>1
      DEF LocalsTyped, Control, Typed, TypeOK, SharePCs, DeletePCs, RankPCs
  <1>6. ASSUME Typed, Crash \/ RedisLoss PROVE LocalsTyped'
    <2>1. /\ req' = Idle \/ UNCHANGED <<req, mysql>> 
          /\ last' = last /\ faults' \in Nat
      BY <1>6 DEF Crash, RedisLoss, Fault, Typed, TypeOK
    <2>2. CASE req' = Idle
      BY <1>3, <1>6, <2>1, <2>2
      DEF LocalsTyped, Control, Typed, TypeOK, SharePCs, DeletePCs, RankPCs
    <2>3. CASE UNCHANGED <<req, mysql>>
      BY <1>6, <2>1, <2>3
      DEF LocalsTyped, Control, Typed, TypeOK, mysql, RowsOf, M, ShareRows
    <2>4. QED
      BY <2>1, <2>2, <2>3
  <1>7. QED
    BY <1>1, <1>2, <1>4, <1>5, <1>6

LEMMA FaultLocals ==
    Typed /\ (SqlFails \/ QueryFails \/ RedisFails \/ DfsFails) => LocalsTyped'
  <1> SUFFICES ASSUME Typed, SqlFails \/ QueryFails \/ RedisFails \/ DfsFails
               PROVE  LocalsTyped'
    OBVIOUS
  <1>0. /\ TypeOK /\ UNCHANGED last /\ faults' \in Nat
        /\ UNCHANGED fileInfo /\ UNCHANGED shares
    <2>1. TypeOK /\ faults \in Nat
      BY DEF Typed, TypeOK
    <2>2. \/ Fault("sql") \/ Fault("query") \/ Fault("redis") \/ Fault("dfs")
      BY DEF SqlFails, QueryFails, RedisFails, DfsFails
    <2>3. faults' \in Nat
      BY <2>1, <2>2 DEF Fault
    <2>4. UNCHANGED mysql /\ UNCHANGED last
      BY DEF SqlFails, QueryFails, RedisFails, DfsFails
    <2>5. QED
      BY <2>1, <2>3, <2>4 DEF mysql
  <1>1. SharePCs \cup DeletePCs \cup RankPCs \cup OtherPCs \subseteq PCs
    BY DEF SharePCs, DeletePCs, RankPCs, OtherPCs, PCs
  <1>2. ASSUME Moves("reply") PROVE LocalsTyped'
    BY <1>0, <1>2, MoveOn
  <1>3. CASE SqlFails
    <2>1. CASE At("md5_own") /\ Goto("md5_restore")
      <3>1. "md5_restore" \in OtherPCs /\ req.pc \in OtherPCs
        BY <2>1 DEF At, OtherPCs, PCs, SharePCs, DeletePCs, RankPCs
      <3>2. QED
        BY <1>0, <1>1, <2>1, <3>1, GotoMoves, MoveOther
    <2>2. CASE ~(At("md5_own") /\ Goto("md5_restore"))
      BY <1>0, <1>2, <1>3, <2>2, ReplyMoves, DealshareReplyMoves DEF SqlFails
    <2>3. QED
      BY <2>1, <2>2
  <1>4. CASE QueryFails
    <2>1. CASE At("md5_check") /\ RowsOf(M) # {} /\ Goto("md5_ref")
      <3>1. "md5_ref" \in OtherPCs /\ req.pc \in OtherPCs
        BY <2>1 DEF At, OtherPCs, PCs, SharePCs, DeletePCs, RankPCs
      <3>2. Moves("md5_ref")
        BY <1>0, <1>1, <2>1, <3>1, GotoMoves
      <3>3. QED
        BY <1>0, <2>1, <3>1, <3>2, SameRows, MoveOn
    <2>2. CASE At("share_check") /\ Goto("share_flag")
      <3>1. "share_flag" \in SharePCs /\ req.pc \in SharePCs
        BY <2>2 DEF At, SharePCs
      <3>2. QED
        BY <1>0, <1>1, <2>2, <3>1, GotoMoves, MoveOn
    <2>3. CASE Reply(FAIL) \/ DealshareReply(FAIL)
      BY <1>0, <1>2, <2>3, ReplyMoves, DealshareReplyMoves
    <2>4. QED
      BY <1>4, <2>1, <2>2, <2>3 DEF QueryFails
  <1>5. CASE DfsFails
    BY <1>0, <1>2, <1>5, ReplyMoves DEF DfsFails
  <1>6. CASE RedisFails
    <2>1. CASE Reply(FAIL) \/ Reply(OK) \/ Reply(SHARE_HAD)
               \/ DealshareReply(FAIL) \/ DealshareReply(OK)
      BY <1>0, <1>2, <2>1, ReplyMoves, DealshareReplyMoves
    <2>2. CASE req.pc \in SharePCs /\ \E p \in SharePCs : Goto(p)
      <3>1. PICK p \in SharePCs : Moves(p)
        BY <1>0, <1>1, <2>2, GotoMoves
      <3>2. QED
        BY <1>0, <2>2, <3>1, MoveOn DEF SharePCs
    <2>3. CASE req.pc \in DeletePCs /\ \E p \in {"del_hash", "del_user_count"} : Goto(p)
      <3>1. {"del_hash", "del_user_count"} \subseteq DeletePCs
        BY DEF DeletePCs
      <3>2. PICK p \in {"del_hash", "del_user_count"} : Moves(p)
        BY <1>0, <1>1, <2>3, <3>1, GotoMoves
      <3>3. QED
        BY <1>0, <2>3, <3>1, <3>2, MoveOn
    <2>4. CASE /\ req.pc \in RankPCs
               /\ \E p \in {"rank_list", "rank_clear_zset", "rank_clear_hash",
                           "rank_load"} : Goto(p)
      <3>1. {"rank_list", "rank_clear_zset", "rank_clear_hash", "rank_load"}
                \subseteq RankPCs
        BY DEF RankPCs
      <3>2. PICK p \in {"rank_list", "rank_clear_zset", "rank_clear_hash",
                        "rank_load"} : Moves(p)
        BY <1>0, <1>1, <2>4, <3>1, GotoMoves
      <3>3. QED
        BY <1>0, <2>4, <3>1, <3>2, MoveRank
    <2>5. CASE At("rank_import_hash") /\ Goto("rank_import_zset")
      <3>1. /\ req.pc \in RankPCs /\ "rank_import_zset" \in RankPCs
            /\ req.todo \subseteq ShareRows
        BY <2>5 DEF At, RankPCs, Typed, Control
      <3>2. Moves("rank_import_zset")
        BY <1>0, <1>1, <2>5, <3>1, GotoMoves
      <3>3. QED
        BY <1>0, <3>1, <3>2, MoveRank
    <2>6. CASE /\ At("rank_import_zset")
               /\ \E r \in req.todo :
                     req' = [req EXCEPT !.pc = "rank_import_hash",
                                        !.file = r[1][2], !.todo = @ \ {r}]
      BY <1>0, <1>6, <2>6, ImportsRow DEF RedisFails
    <2>7. QED
      BY <1>6, <2>1, <2>2, <2>3, <2>4, <2>5, <2>6
      DEF RedisFails, At, SharePCs, DeletePCs, RankPCs
  <1>7. QED
    BY <1>3, <1>4, <1>5, <1>6

LEMMA LocalsStep == Typed /\ [Next]_vars => LocalsTyped'
  <1>1. Typed /\ UNCHANGED vars => LocalsTyped'
    BY DEF Typed, TypeOK, LocalsTyped, Control, vars, mysql, aux, RowsOf, M, ShareRows
  <1>2. QED
    BY <1>1, UploadLocals, InstantUploadLocals, ShareLocals, DeleteLocals,
       CancelLocals, SaveLocals, PvLocals, RankingLocals, ListLocals,
       RequestLocals, FaultLocals DEF Next, Handle

LEMMA TypedInit == Init => Typed
  BY DEF Init, Typed, TypeOK, Control, Idle, Requests, OK, PCs, SharePCs,
         DeletePCs, RankPCs

LEMMA TypedStep == Typed /\ [Next]_vars => Typed'
  BY DataStep, LocalsStep, TypeParts DEF Typed, LocalsTyped

\* Every table, cache and local variable keeps its type, whatever faults strike
\* between the statements of the handlers.
THEOREM TypeCorrect == Spec => []TypeOK
  BY TypedInit, TypedStep, PTL DEF Spec, Typed

-----------------------------------------------------------------------------
(* How a handler goes on.                                                     *)

UploadPCs == {"up_store", "up_info", "up_own", "up_count"}
Md5PCs    == {"md5_check", "md5_ref", "md5_own", "md5_count", "md5_restore"}
CancelPCs == {"cancel_flag", "cancel_count", "cancel_rows", "cancel_zset",
              "cancel_hash"}
AllSavePCs == {"save_check", "save_ref", "save_own", "save_count"}
PvPCs     == {"pv_update", "sp_update", "sp_zset", "sp_hash"}
ListPCs   == {"list_count", "list_rows"}

\* The request in hand stays in hand.
GoesOn ==
    /\ ~At("idle") /\ ~At("idle")' /\ UNCHANGED last
    /\ req'.op = req.op
    /\ req.op # "rank" => req'.user = req.user /\ req'.file = req.file

\* A handler is among the steps S and goes on there, or answers.
Within(S) == GoesOn /\ req.pc \in S /\ req'.pc \in S \cup {"reply"}

LEMMA AnswersOrMoves ==
    ASSUME TypeOK, ~At("idle"), UNCHANGED last, NEW S \in SUBSET (PCs \ {"idle"}),
           \/ \E p \in S : Goto(p)
           \/ \E c \in {OK, FAIL, SHARE_HAD, FILE_EXIST} : Reply(c) \/ DealshareReply(c)
           \/ \E p \in S, n \in Nat : req' = [req EXCEPT !.pc = p, !.count = n]
    PROVE  GoesOn /\ req'.pc \in S \cup {"reply"}
  <1>1. \E p \in S \cup {"reply"} : Moves(p)
    BY GotoMoves, ReplyMoves, DealshareReplyMoves, CountMoves
  <1>2. \A p \in S \cup {"reply"} : p # "idle"
    OBVIOUS
  <1>3. QED
    BY <1>1, <1>2 DEF Moves, GoesOn, At

LEMMA HandlerPlaces ==
    /\ \A p \in UploadPCs \cup Md5PCs \cup SharePCs \cup DeletePCs \cup CancelPCs
                  \cup AllSavePCs \cup PvPCs \cup ListPCs :
          p \in PCs \ (RankPCs \cup {"idle", "reply"})
    /\ RankPCs \subseteq PCs \ {"idle", "reply"}
  BY DEF UploadPCs, Md5PCs, SharePCs, DeletePCs, CancelPCs, AllSavePCs, PvPCs,
         ListPCs, RankPCs, PCs

LEMMA UploadGoesOn == Typed /\ Upload => Within(UploadPCs)
  <1> SUFFICES ASSUME Typed, Upload PROVE Within(UploadPCs)
    OBVIOUS
  <1>1. TypeOK /\ req.pc \in UploadPCs /\ UNCHANGED last
    BY DEF Typed, Upload, UploadStore, UploadInfo, UploadOwn, UploadCount, At,
           UploadPCs, aux
  <1>2. ~At("idle") /\ UploadPCs \in SUBSET (PCs \ {"idle"})
    BY <1>1, HandlerPlaces DEF At
  <1>3. CASE UploadStore
    BY <1>1, <1>2, <1>3
    DEF UploadStore, Within, GoesOn, At, TypeOK, Requests, UploadPCs
  <1>4. CASE ~UploadStore
    BY <1>1, <1>2, <1>4, AnswersOrMoves
    DEF Upload, UploadInfo, UploadOwn, UploadCount, UploadPCs, Within
  <1>5. QED
    BY <1>3, <1>4

LEMMA InstantUploadGoesOn == Typed /\ InstantUpload => Within(Md5PCs)
  <1> SUFFICES ASSUME Typed, InstantUpload PROVE Within(Md5PCs)
    OBVIOUS
  <1>1. TypeOK /\ req.pc \in Md5PCs /\ UNCHANGED last
    BY DEF Typed, InstantUpload, Md5Check, Md5Ref, Md5Own, Md5Count, Md5Restore,
           At, Md5PCs, aux
  <1>2. ~At("idle") /\ Md5PCs \in SUBSET (PCs \ {"idle"})
    BY <1>1, HandlerPlaces DEF At
  <1>3. \/ \E p \in Md5PCs : Goto(p)
        \/ \E c \in {OK, FAIL, FILE_EXIST} : Reply(c)
        \/ \E p \in Md5PCs, n \in Nat : req' = [req EXCEPT !.pc = p, !.count = n]
    <2>1. CASE Md5Ref
      <3>1. fileInfo[FirstOf(M)].count \in Nat
        BY <1>1, <2>1, FirstCount, TypeParts DEF Md5Ref, At, Typed, Control
      <3>2. QED
        BY <2>1, <3>1 DEF Md5Ref, Md5PCs
    <2>2. CASE ~Md5Ref
      BY <2>2 DEF InstantUpload, Md5Check, Md5Own, Md5Count, Md5Restore, Md5PCs
    <2>3. QED
      BY <2>1, <2>2
  <1>4. QED
    BY <1>1, <1>2, <1>3, AnswersOrMoves DEF Within

LEMMA ShareGoesOn == Typed /\ Share => Within(SharePCs)
  <1> SUFFICES ASSUME Typed, Share PROVE Within(SharePCs)
    OBVIOUS
  <1>1. TypeOK /\ req.pc \in SharePCs /\ UNCHANGED last
    BY DEF Typed, Share, ShareCheck, ShareHealZset, ShareHealHash, ShareFlag,
           ShareInsert, ShareCount, ShareZset, ShareHash, At, SharePCs, aux
  <1>2. ~At("idle") /\ SharePCs \in SUBSET (PCs \ {"idle"})
    BY <1>1, HandlerPlaces DEF At
  <1>3. (\E p \in SharePCs : Goto(p)) \/ \E c \in {OK, FAIL, SHARE_HAD} : Reply(c)
    BY DEF SharePCs, Share, ShareCheck, ShareHealZset, ShareHealHash, ShareFlag,
           ShareInsert, ShareCount, ShareZset, ShareHash
  <1>4. QED
    BY <1>1, <1>2, <1>3, AnswersOrMoves DEF Within

LEMMA DeleteGoesOn == Typed /\ Delete => Within(DeletePCs)
  <1> SUFFICES ASSUME Typed, Delete PROVE Within(DeletePCs)
    OBVIOUS
  <1>1. TypeOK /\ req \in Requests /\ req.pc \in DeletePCs /\ UNCHANGED last
    BY DEF Typed, TypeOK, Delete, DeleteCheck, DeleteShareRows,
           DeleteShareCount, DeleteZset, DeleteHash, DeleteUserCount,
           DeleteOwn, DeleteRef, DeleteInfo, DeleteStore, At, DeletePCs, aux
  <1>2. ~At("idle") /\ DeletePCs \in SUBSET (PCs \ {"idle"})
    BY <1>1, HandlerPlaces DEF At
  <1>3. CASE DeleteInfo
    BY <1>1, <1>3 DEF DeleteInfo, Within, GoesOn, Requests, At, DeletePCs
  <1>4. CASE DeleteCheck /\ req' = [req EXCEPT !.pc = "del_share_rows", !.ranked = TRUE]
    BY <1>1, <1>4 DEF DeleteCheck, Within, GoesOn, Requests, At, DeletePCs
  <1>5. CASE (\E p \in DeletePCs : Goto(p)) \/ \E c \in {OK, FAIL} : Reply(c)
    BY <1>1, <1>2, <1>5, AnswersOrMoves DEF Within
  <1>6. QED
    BY <1>3, <1>4, <1>5
    DEF Delete, DeleteCheck, DeleteShareRows, DeleteShareCount, DeleteZset,
        DeleteHash, DeleteUserCount, DeleteOwn, DeleteRef, DeleteStore, DeletePCs

LEMMA CancelGoesOn == Typed /\ Cancel => Within(CancelPCs)
  <1> SUFFICES ASSUME Typed, Cancel PROVE Within(CancelPCs)
    OBVIOUS
  <1>1. TypeOK /\ req.pc \in CancelPCs /\ UNCHANGED last
    BY DEF Typed, Cancel, CancelFlag, CancelCount, CancelRows, CancelZset,
           CancelHash, At, CancelPCs, aux
  <1>2. ~At("idle") /\ CancelPCs \in SUBSET (PCs \ {"idle"})
    BY <1>1, HandlerPlaces DEF At
  <1>3. (\E p \in CancelPCs : Goto(p)) \/ \E c \in {OK, FAIL} : DealshareReply(c)
    BY DEF CancelPCs, Cancel, CancelFlag, CancelCount, CancelRows, CancelZset,
           CancelHash
  <1>4. QED
    BY <1>1, <1>2, <1>3, AnswersOrMoves DEF Within

LEMMA SaveGoesOn == Typed /\ Save => Within(AllSavePCs)
  <1> SUFFICES ASSUME Typed, Save PROVE Within(AllSavePCs)
    OBVIOUS
  <1>1. TypeOK /\ req.pc \in AllSavePCs /\ UNCHANGED last
    BY DEF Typed, Save, SaveCheck, SaveRef, SaveOwn, SaveCount, At, AllSavePCs, aux
  <1>2. ~At("idle") /\ AllSavePCs \in SUBSET (PCs \ {"idle"})
    BY <1>1, HandlerPlaces DEF At
  <1>3. \/ \E p \in AllSavePCs : Goto(p)
        \/ \E c \in {OK, FAIL, FILE_EXIST} : DealshareReply(c)
    BY DEF AllSavePCs, Save, SaveCheck, SaveRef, SaveOwn, SaveCount
  <1>4. QED
    BY <1>1, <1>2, <1>3, AnswersOrMoves DEF Within

LEMMA PvGoesOn == Typed /\ (SharePv \/ CountOwnDownload) => Within(PvPCs)
  <1> SUFFICES ASSUME Typed, SharePv \/ CountOwnDownload PROVE Within(PvPCs)
    OBVIOUS
  <1>1. TypeOK /\ DataTyped /\ req.pc \in PvPCs /\ UNCHANGED last
    BY TypeParts DEF Typed, SharePv, SharePvUpdate, SharePvZset, SharePvHash,
           CountOwnDownload, At, PvPCs, aux
  <1>2. ~At("idle") /\ PvPCs \in SUBSET (PCs \ {"idle"})
    BY <1>1, HandlerPlaces DEF At
  <1>3. \/ \E p \in PvPCs : Goto(p)
        \/ \E c \in {OK, FAIL} : Reply(c) \/ DealshareReply(c)
        \/ \E p \in PvPCs, n \in Nat : req' = [req EXCEPT !.pc = p, !.count = n]
    <2>1. CASE SharePvUpdate
      <3>1. ASSUME NEW u \in User, NEW i \in DOMAIN shares[<<u, req.file>>]
            PROVE  shares[<<u, req.file>>][i] + 1 \in Nat
        <4>1. <<u, req.file>> \in User \X File
          BY <1>1, Addressed, HandlerPlaces
        <4>2. shares[<<u, req.file>>] \in Seq(Nat)
          BY <1>1, <4>1 DEF DataTyped
        <4>3. QED
          BY <3>1, <4>2
      <3>2. QED
        BY <2>1, <3>1 DEF SharePvUpdate, PvPCs
    <2>2. CASE ~SharePvUpdate
      BY <2>2 DEF SharePv, SharePvZset, SharePvHash, CountOwnDownload, PvPCs
    <2>3. QED
      BY <2>1, <2>2
  <1>4. QED
    BY <1>1, <1>2, <1>3, AnswersOrMoves DEF Within

LEMMA RankingGoesOn == Typed /\ Ranking => Within(RankPCs)
  <1> SUFFICES ASSUME Typed, Ranking PROVE Within(RankPCs)
    OBVIOUS
  <1>1. TypeOK /\ req \in Requests /\ req.pc \in RankPCs /\ UNCHANGED last
    BY DEF Typed, TypeOK, Ranking, RankCount, RankCompare, RankClearZset,
           RankClearHash, RankLoad, RankImportZset, RankImportHash, RankList,
           At, RankPCs, aux
  <1>2. /\ req.op = "rank" /\ ~At("idle")
        /\ RankPCs \in SUBSET (PCs \ {"idle"})
        /\ {"rank_import_zset", "rank_import_hash"} \subseteq RankPCs
    BY <1>1, HandlerPlaces DEF At, Typed, Control, RankPCs
  <1>3. CASE RankLoad
    BY <1>1, <1>2, <1>3 DEF RankLoad, Within, GoesOn, Requests, At
  <1>4. CASE \E r \in req.todo :
                req' = [req EXCEPT !.pc = "rank_import_hash",
                                   !.file = r[1][2], !.todo = @ \ {r}]
    BY <1>1, <1>2, <1>4 DEF Within, GoesOn, Requests, At
  <1>5. CASE (\E p \in RankPCs : Goto(p)) \/ \E c \in {OK, FAIL} : Reply(c)
    BY <1>1, <1>2, <1>5, AnswersOrMoves DEF Within
  <1>6. QED
    BY <1>3, <1>4, <1>5
    DEF Ranking, RankCount, RankCompare, RankClearZset, RankClearHash,
        RankImportZset, RankImportHash, RankList, RankPCs

LEMMA ListGoesOn == Typed /\ List => Within(ListPCs)
  <1> SUFFICES ASSUME Typed, List PROVE Within(ListPCs)
    OBVIOUS
  <1>1. TypeOK /\ req.pc \in ListPCs /\ UNCHANGED last
    BY DEF Typed, List, ListCount, ListRows, At, ListPCs, aux
  <1>2. ~At("idle") /\ ListPCs \in SUBSET (PCs \ {"idle"})
    BY <1>1, HandlerPlaces DEF At
  <1>3. QED
    BY <1>1, <1>2, AnswersOrMoves DEF List, ListCount, ListRows, ListPCs, Within

\* A call that fails takes no handler to the steps of another.
LEMMA FaultsGoOn ==
    Typed /\ (SqlFails \/ QueryFails \/ RedisFails \/ DfsFails)
        => \E S \in {UploadPCs, Md5PCs, SharePCs, DeletePCs, CancelPCs, AllSavePCs,
                     PvPCs, RankPCs, ListPCs} : Within(S)
  <1> SUFFICES ASSUME Typed, SqlFails \/ QueryFails \/ RedisFails \/ DfsFails
               PROVE  \E S \in {UploadPCs, Md5PCs, SharePCs, DeletePCs, CancelPCs,
                                AllSavePCs, PvPCs, RankPCs, ListPCs} : Within(S)
    OBVIOUS
  <1>1. TypeOK /\ req \in Requests /\ UNCHANGED last
    BY DEF Typed, TypeOK, SqlFails, QueryFails, RedisFails, DfsFails
  <1>2. ASSUME NEW S \in {UploadPCs, Md5PCs, SharePCs, DeletePCs, CancelPCs,
                          AllSavePCs, PvPCs, RankPCs, ListPCs}, req.pc \in S,
               \/ \E p \in S : Goto(p)
               \/ \E c \in {OK, FAIL, SHARE_HAD} : Reply(c) \/ DealshareReply(c)
        PROVE  Within(S)
    <2>1. ~At("idle") /\ S \in SUBSET (PCs \ {"idle"})
      BY <1>2, HandlerPlaces DEF At
    <2>2. QED
      BY <1>1, <1>2, <2>1, AnswersOrMoves DEF Within
  <1>3. \A p \in PCs \ {"idle", "reply"} :
           p \in UploadPCs \cup Md5PCs \cup SharePCs \cup DeletePCs \cup CancelPCs
                   \cup AllSavePCs \cup PvPCs \cup RankPCs \cup ListPCs
    BY DEF UploadPCs, Md5PCs, SharePCs, DeletePCs, CancelPCs, AllSavePCs, PvPCs,
           ListPCs, RankPCs, PCs
  <1>4. ASSUME req.pc \notin {"idle", "reply"},
               \E c \in {OK, FAIL, SHARE_HAD} : Reply(c) \/ DealshareReply(c)
        PROVE  \E S \in {UploadPCs, Md5PCs, SharePCs, DeletePCs, CancelPCs,
                         AllSavePCs, PvPCs, RankPCs, ListPCs} : Within(S)
    BY <1>1, <1>2, <1>3, <1>4 DEF Requests
  <1>5. CASE SqlFails
    BY <1>2, <1>4, <1>5 DEF SqlFails, At, Md5PCs
  <1>6. CASE QueryFails
    BY <1>2, <1>4, <1>6 DEF QueryFails, At, Md5PCs, SharePCs
  <1>7. CASE DfsFails
    BY <1>4, <1>7 DEF DfsFails
  <1>8. CASE RedisFails
    <2>1. CASE /\ At("rank_import_zset")
               /\ \E r \in req.todo :
                     req' = [req EXCEPT !.pc = "rank_import_hash",
                                        !.file = r[1][2], !.todo = @ \ {r}]
      <3>1. req.op = "rank" /\ {"rank_import_zset", "rank_import_hash"} \subseteq RankPCs
        BY <2>1 DEF At, RankPCs, Typed, Control
      <3>2. Within(RankPCs)
        BY <1>1, <2>1, <3>1 DEF GoesOn, Requests, At, Within
      <3>3. QED
        BY <3>2
    <2>2. CASE \/ req.pc \in SharePCs /\ \E p \in SharePCs : Goto(p)
               \/ req.pc \in DeletePCs /\ \E p \in DeletePCs : Goto(p)
               \/ req.pc \in RankPCs /\ \E p \in RankPCs : Goto(p)
      BY <1>2, <2>2
    <2>3. CASE /\ req.pc \notin {"idle", "reply"}
               /\ \E c \in {OK, FAIL, SHARE_HAD} : Reply(c) \/ DealshareReply(c)
      BY <1>4, <2>3
    <2>4. QED
      BY <1>8, <2>1, <2>2, <2>3 DEF RedisFails, At, SharePCs, DeletePCs, RankPCs
  <1>9. QED
    BY <1>5, <1>6, <1>7, <1>8

-----------------------------------------------------------------------------
(* Who shares a file has it.                                                  *)

\* Where a delete has taken the user's share rows and not yet the user's row.
Unshared == {"del_share_count", "del_zset", "del_hash", "del_user_count", "del_own"}

\* SharedFileOwned is not inductive: a share relies on its user's row, checked
\* when the page was drawn, and a delete on the share rows it took before.
Sharing ==
    /\ SharedFileOwned
    /\ req.op = "share" => Owns(req.user, req.file)
    /\ last.op = "share" => Owns(last.user, last.file)
    /\ req.pc \in Unshared => shares[<<req.user, req.file>>] = <<>>
    /\ ~At("idle") => last.op = NULL

\* No list loses a file and no file comes to be shared.
RowsKept ==
    \A x \in User \X File : /\ own[x] # <<>> => own'[x] # <<>>
                            /\ shares[x] = <<>> => shares'[x] = <<>>

LEMMA SharingGoesOn ==
    ASSUME Typed, Sharing, RowsKept, GoesOn,
           req'.pc \in Unshared =>
               req.op = "del" /\ shares'[<<req.user, req.file>>] = <<>>
    PROVE  Sharing'
  <1>1. SharedFileOwned'
    <2> SUFFICES ASSUME NEW u \in User, NEW f \in File, shares'[<<u, f>>] # <<>>
                 PROVE  own'[<<u, f>>] # <<>>
      BY DEF SharedFileOwned, Owns
    <2>1. <<u, f>> \in User \X File
      OBVIOUS
    <2>2. shares[<<u, f>>] # <<>>
      BY <2>1 DEF RowsKept
    <2>3. own[<<u, f>>] # <<>>
      BY <2>2 DEF Sharing, SharedFileOwned, Owns
    <2>4. QED
      BY <2>1, <2>3 DEF RowsKept
  <1>2. req'.op = "share" => Owns(req.user, req.file)'
    <2> SUFFICES ASSUME req.op = "share" PROVE own'[<<req'.user, req'.file>>] # <<>>
      BY DEF GoesOn, Owns
    <2>1. <<req.user, req.file>> \in User \X File
      BY ParametersAssumption DEF Typed, Control, AllOps
    <2>2. own[<<req.user, req.file>>] # <<>>
      BY DEF Sharing, Owns
    <2>3. QED
      BY <2>1, <2>2 DEF RowsKept, GoesOn
  <1>3. req'.pc \in Unshared => shares'[<<req'.user, req'.file>>] = <<>>
    <2> SUFFICES ASSUME req'.pc \in Unshared
                 PROVE  shares'[<<req'.user, req'.file>>] = <<>>
      OBVIOUS
    <2>1. <<req.user, req.file>> \in User \X File
      BY ParametersAssumption DEF Typed, Control, AllOps
    <2>2. QED
      BY <2>1 DEF RowsKept, GoesOn
  <1>4. last'.op = NULL
    BY DEF GoesOn, Sharing
  <1>5. QED
    BY <1>1, <1>2, <1>3, <1>4, ParametersAssumption DEF Sharing, AllOps

\* What keeps the rows: appending to a list, changing fields, leaving all alone.
LEMMA KeptByFrame == UNCHANGED <<own, shares>> => RowsKept
  BY DEF RowsKept

LEMMA MapsKeepRows ==
    /\ \A s \in Seq(OwnRow), v \in {0, 1} :
          s # <<>> => [i \in DOMAIN s |-> [s[i] EXCEPT !.shared = v]] # <<>>
    /\ \A s \in Seq(OwnRow) :
          s # <<>> => [i \in DOMAIN s |-> [s[i] EXCEPT !.pv = 1]] # <<>>
  <1>1. \A s \in Seq(OwnRow) : s # <<>> => 1 \in DOMAIN s
    OBVIOUS
  <1>2. DOMAIN <<>> = {}
    OBVIOUS
  <1>3. ASSUME NEW s \in Seq(OwnRow), NEW v \in {0, 1}, s # <<>>
        PROVE  [i \in DOMAIN s |-> [s[i] EXCEPT !.shared = v]] # <<>>
    <2>1. 1 \in DOMAIN [i \in DOMAIN s |-> [s[i] EXCEPT !.shared = v]]
      BY <1>1, <1>3, Zenon
    <2>2. QED
      BY <1>2, <2>1, Zenon
  <1>4. ASSUME NEW s \in Seq(OwnRow), s # <<>>
        PROVE  [i \in DOMAIN s |-> [s[i] EXCEPT !.pv = 1]] # <<>>
    <2>1. 1 \in DOMAIN [i \in DOMAIN s |-> [s[i] EXCEPT !.pv = 1]]
      BY <1>1, <1>4, Zenon
    <2>2. QED
      BY <1>2, <2>1, Zenon
  <1>5. QED
    BY <1>3, <1>4, Zenon

LEMMA KeptByAddOwnRow ==
    ASSUME TypeOK, NEW u \in User, NEW f \in File, AddOwnRow(u, f),
           UNCHANGED shares
    PROVE  RowsKept
  <1>1. own \in [User \X File -> Seq(OwnRow)]
    BY DEF TypeOK
  <1>2. \A s \in Seq(OwnRow) : Append(s, [shared |-> 0, pv |-> 0]) # <<>>
    OBVIOUS
  <1>3. QED
    BY <1>1, <1>2 DEF AddOwnRow, RowsKept

LEMMA KeptBySetShared ==
    ASSUME TypeOK, NEW u \in User, NEW f \in File, NEW v \in {0, 1},
           SetShared(u, f, v), UNCHANGED shares
    PROVE  RowsKept
  <1> SUFFICES ASSUME NEW x \in User \X File, own[x] # <<>>
               PROVE  own'[x] # <<>>
    BY DEF RowsKept
  <1>1. own \in [User \X File -> Seq(OwnRow)] /\ own[x] \in Seq(OwnRow)
    BY DEF TypeOK
  <1>2. [i \in DOMAIN own[x] |-> [own[x][i] EXCEPT !.shared = v]] # <<>>
    BY <1>1, MapsKeepRows
  <1>3. QED
    BY <1>1, <1>2 DEF SetShared

LEMMA KeptByDropShareRows ==
    ASSUME TypeOK, NEW u, NEW f, DropShareRows(u, f), UNCHANGED own
    PROVE  RowsKept
  BY DEF TypeOK, RowsKept, DropShareRows

\* The steps of a handler that neither take a user's row nor add a share row.
LEMMA UploadSharing == Typed /\ Sharing /\ Upload => Sharing'
  <1> SUFFICES ASSUME Typed, Sharing, Upload PROVE Sharing'
    OBVIOUS
  <1>1. TypeOK /\ req \in Requests /\ req.pc \notin RankPCs \cup {"idle", "reply"}
    BY DEF Typed, TypeOK, Upload, UploadStore, UploadInfo, UploadOwn,
           UploadCount, At, RankPCs
  <1>2. GoesOn /\ req'.pc \notin Unshared
    BY UploadGoesOn DEF Within, UploadPCs, Unshared
  <1>3. RowsKept
    <2>1. CASE UploadOwn
      BY <1>1, <2>1, Addressed, KeptByAddOwnRow DEF UploadOwn
    <2>2. CASE ~UploadOwn
      BY <2>2, KeptByFrame
      DEF Upload, UploadStore, UploadInfo, UploadCount, mysql
    <2>3. QED
      BY <2>1, <2>2
  <1>4. QED
    BY <1>2, <1>3, SharingGoesOn

LEMMA InstantUploadSharing == Typed /\ Sharing /\ InstantUpload => Sharing'
  <1> SUFFICES ASSUME Typed, Sharing, InstantUpload PROVE Sharing'
    OBVIOUS
  <1>1. TypeOK /\ req \in Requests /\ req.pc \notin RankPCs \cup {"idle", "reply"}
    BY DEF Typed, TypeOK, InstantUpload, Md5Check, Md5Ref, Md5Own, Md5Count,
           Md5Restore, At, RankPCs
  <1>2. GoesOn /\ req'.pc \notin Unshared
    BY InstantUploadGoesOn DEF Within, Md5PCs, Unshared
  <1>3. RowsKept
    <2>1. CASE Md5Own
      BY <1>1, <2>1, Addressed, KeptByAddOwnRow DEF Md5Own
    <2>2. CASE ~Md5Own
      BY <2>2, KeptByFrame
      DEF InstantUpload, Md5Check, Md5Ref, Md5Count, Md5Restore, mysql
    <2>3. QED
      BY <2>1, <2>2
  <1>4. QED
    BY <1>2, <1>3, SharingGoesOn

LEMMA SaveSharing == Typed /\ Sharing /\ Save => Sharing'
  <1> SUFFICES ASSUME Typed, Sharing, Save PROVE Sharing'
    OBVIOUS
  <1>1. TypeOK /\ req \in Requests /\ req.pc \notin RankPCs \cup {"idle", "reply"}
    BY DEF Typed, TypeOK, Save, SaveCheck, SaveRef, SaveOwn, SaveCount, At, RankPCs
  <1>2. GoesOn /\ req'.pc \notin Unshared
    BY SaveGoesOn DEF Within, AllSavePCs, Unshared
  <1>3. RowsKept
    <2>1. CASE SaveOwn
      BY <1>1, <2>1, Addressed, KeptByAddOwnRow DEF SaveOwn
    <2>2. CASE ~SaveOwn
      BY <2>2, KeptByFrame DEF Save, SaveCheck, SaveRef, SaveCount, mysql
    <2>3. QED
      BY <2>1, <2>2
  <1>4. QED
    BY <1>2, <1>3, SharingGoesOn

LEMMA CancelSharing == Typed /\ Sharing /\ Cancel => Sharing'
  <1> SUFFICES ASSUME Typed, Sharing, Cancel PROVE Sharing'
    OBVIOUS
  <1>1. TypeOK /\ req \in Requests /\ req.pc \notin RankPCs \cup {"idle", "reply"}
    BY DEF Typed, TypeOK, Cancel, CancelFlag, CancelCount, CancelRows,
           CancelZset, CancelHash, At, RankPCs
  <1>2. GoesOn /\ req'.pc \notin Unshared
    BY CancelGoesOn DEF Within, CancelPCs, Unshared
  <1>3. RowsKept
    <2>1. CASE CancelFlag
      BY <1>1, <2>1, Addressed, KeptBySetShared DEF CancelFlag
    <2>2. CASE CancelRows
      BY <1>1, <2>2, KeptByDropShareRows DEF CancelRows
    <2>3. CASE CancelCount \/ CancelZset \/ CancelHash
      BY <2>3, KeptByFrame DEF CancelCount, CancelZset, CancelHash, mysql
    <2>4. QED
      BY <2>1, <2>2, <2>3 DEF Cancel
  <1>4. QED
    BY <1>2, <1>3, SharingGoesOn

\* A share adds its row while the user still has the file.
LEMMA ShareSharing == Typed /\ Sharing /\ Share => Sharing'
  <1> SUFFICES ASSUME Typed, Sharing, Share PROVE Sharing'
    OBVIOUS
  <1>1. /\ TypeOK /\ req.pc \in SharePCs /\ ~At("idle")
        /\ req.pc \notin RankPCs \cup {"idle", "reply"}
    BY DEF Typed, TypeOK, Share, ShareCheck, ShareHealZset, ShareHealHash,
           ShareFlag, ShareInsert, ShareCount, ShareZset, ShareHash, At,
           SharePCs, RankPCs
  <1>2. GoesOn /\ req'.pc \notin Unshared
    BY ShareGoesOn DEF Within, SharePCs, Unshared
  <1>3. req.op = "share" /\ <<req.user, req.file>> \in User \X File
    BY <1>1, Addressed DEF Typed, Control
  <1>4. CASE ShareInsert
    <2>1. /\ UNCHANGED own /\ Owns(req.user, req.file)
          /\ \A x \in User \X File : x # <<req.user, req.file>> => shares'[x] = shares[x]
      BY <1>1, <1>3, <1>4 DEF ShareInsert, Sharing, TypeOK
    <2>2. SharedFileOwned'
      BY <2>1 DEF SharedFileOwned, Sharing, Owns
    <2>3. QED
      BY <1>2, <1>3, <2>1, <2>2, ParametersAssumption
      DEF Sharing, GoesOn, Owns, AllOps
  <1>5. CASE ~ShareInsert
    <2>1. RowsKept
      <3>1. CASE ShareFlag
        BY <1>1, <3>1, Addressed, KeptBySetShared DEF ShareFlag
      <3>2. CASE ~ShareFlag
        BY <1>5, <3>2, KeptByFrame
        DEF Share, ShareCheck, ShareHealZset, ShareHealHash, ShareCount,
            ShareZset, ShareHash, mysql
      <3>3. QED
        BY <3>1, <3>2
    <2>2. QED
      BY <1>2, <2>1, SharingGoesOn
  <1>6. QED
    BY <1>4, <1>5

\* A delete takes the user's row after the user's share rows.
LEMMA DeleteSharing == Typed /\ Sharing /\ Delete => Sharing'
  <1> SUFFICES ASSUME Typed, Sharing, Delete PROVE Sharing'
    OBVIOUS
  <1>1. /\ TypeOK /\ req \in Requests /\ req.pc \in DeletePCs /\ ~At("idle")
        /\ req.pc \notin RankPCs \cup {"idle", "reply"} /\ UNCHANGED last
    BY DEF Typed, TypeOK, Delete, DeleteCheck, DeleteShareRows,
           DeleteShareCount, DeleteZset, DeleteHash, DeleteUserCount,
           DeleteOwn, DeleteRef, DeleteInfo, DeleteStore, At, DeletePCs,
           RankPCs, aux
  <1>2. req.op = "del" /\ <<req.user, req.file>> \in User \X File
    BY <1>1, Addressed DEF Typed, Control
  <1>3. GoesOn
    BY DeleteGoesOn DEF Within
  <1>4. CASE DeleteShareRows
    <2>1. RowsKept /\ req.pc = "del_share_rows"
      BY <1>1, <1>4, KeptByDropShareRows DEF DeleteShareRows, At
    <2>2. shares'[<<req.user, req.file>>] = <<>>
      BY <1>1, <1>2, <1>4 DEF DeleteShareRows, DropShareRows, TypeOK
    <2>3. QED
      BY <1>2, <1>3, <2>1, <2>2, SharingGoesOn
  <1>5. CASE DeleteOwn
    <2>1. /\ UNCHANGED shares /\ shares[<<req.user, req.file>>] = <<>>
          /\ \A x \in User \X File : x # <<req.user, req.file>> => own'[x] = own[x]
          /\ req'.pc = "del_ref"
      BY <1>1, <1>5 DEF DeleteOwn, Sharing, Unshared, TypeOK, At, Goto, Requests
    <2>2. SharedFileOwned'
      BY <2>1 DEF SharedFileOwned, Sharing, Owns
    <2>3. QED
      BY <1>2, <1>3, <2>1, <2>2, ParametersAssumption
      DEF Sharing, GoesOn, Owns, AllOps, Unshared
  <1>6. CASE ~(DeleteShareRows \/ DeleteOwn)
    <2>1. RowsKept
      BY <1>6, KeptByFrame
      DEF Delete, DeleteCheck, DeleteShareCount, DeleteZset, DeleteHash,
          DeleteUserCount, DeleteRef, DeleteInfo, DeleteStore, mysql
    <2>2. req'.pc \in Unshared => shares[<<req.user, req.file>>] = <<>>
      <3>1. CASE DeleteCheck
        <4>1. req'.pc = "del_user_count" => ~Owns(req.user, req.file)
          BY <1>1, <3>1 DEF DeleteCheck, Goto, Reply, Requests, IsShared
        <4>2. req'.pc \in {"del_share_rows", "del_user_count", "reply"}
          BY <1>1, <3>1 DEF DeleteCheck, Goto, Reply, Requests
        <4>3. ~Owns(req.user, req.file) => shares[<<req.user, req.file>>] = <<>>
          BY <1>1, Addressed DEF Sharing, SharedFileOwned
        <4>4. QED
          BY <4>1, <4>2, <4>3 DEF Unshared
      <3>2. CASE req.pc \in Unshared
        BY <3>2 DEF Sharing
      <3>3. CASE DeleteRef \/ DeleteInfo \/ DeleteStore
        <4>1. req'.pc \in {"reply", "del_info", "del_store"}
          BY <1>1, <3>3 DEF DeleteRef, DeleteInfo, DeleteStore, Goto, Reply, Requests
        <4>2. QED
          BY <4>1 DEF Unshared
      <3>4. QED
        BY <1>6, <3>1, <3>2, <3>3
        DEF Delete, DeleteShareCount, DeleteZset, DeleteHash, DeleteUserCount,
            At, Unshared
    <2>3. QED
      BY <1>2, <1>3, <2>1, <2>2, SharingGoesOn DEF RowsKept
  <1>7. QED
    BY <1>4, <1>5, <1>6

LEMMA PvSharing == Typed /\ Sharing /\ (SharePv \/ CountOwnDownload) => Sharing'
  <1> SUFFICES ASSUME Typed, Sharing, SharePv \/ CountOwnDownload PROVE Sharing'
    OBVIOUS
  <1>1. /\ TypeOK /\ ~At("idle") /\ req.pc \notin RankPCs \cup {"idle", "reply"}
        /\ UNCHANGED last
    BY DEF Typed, TypeOK, SharePv, SharePvUpdate, SharePvZset, SharePvHash,
           CountOwnDownload, At, RankPCs, aux
  <1>2. /\ <<req.user, req.file>> \in User \X File /\ req.file \in File
        /\ own \in [User \X File -> Seq(OwnRow)]
        /\ shares \in [User \X File -> Seq(Nat)]
    BY <1>1, Addressed DEF TypeOK
  <1>3. GoesOn /\ req'.pc \notin Unshared
    BY PvGoesOn DEF Within, PvPCs, Unshared
  <1>4. RowsKept
    <2>1. CASE CountOwnDownload
      <3>1. \A x \in User \X File : own[x] # <<>> => own'[x] # <<>>
        <4> SUFFICES ASSUME NEW x \in User \X File, own[x] # <<>>
                     PROVE  own'[x] # <<>>
          OBVIOUS
        <4>1. [i \in DOMAIN own[x] |-> [own[x][i] EXCEPT !.pv = 1]] # <<>>
          BY <1>2, MapsKeepRows
        <4>2. QED
          BY <1>2, <2>1, <4>1 DEF CountOwnDownload
      <3>2. QED
        BY <2>1, <3>1 DEF CountOwnDownload, RowsKept
    <2>2. CASE SharePvUpdate
      <3>1. \A x \in User \X File, n \in Nat :
               shares[x] = <<>> => [k \in DOMAIN shares[x] |-> n] = <<>>
        <4>1. \A n : [k \in DOMAIN <<>> |-> n] = <<>>
          OBVIOUS
        <4>2. QED
          BY <4>1
      <3>2. \A x \in User \X File : shares[x] = <<>> => shares'[x] = <<>>
        <4>1. CASE UNCHANGED shares
          BY <4>1
        <4>2. ASSUME NEW n,
                     shares' = [x \in User \X File |->
                         IF x[2] = req.file THEN [k \in DOMAIN shares[x] |-> n]
                         ELSE shares[x]]
              PROVE  \A x \in User \X File : shares[x] = <<>> => shares'[x] = <<>>
          BY <4>2
        <4>3. QED
          BY <2>2, <4>1, <4>2 DEF SharePvUpdate
      <3>3. QED
        BY <2>2, <3>2 DEF SharePvUpdate, RowsKept
    <2>3. CASE SharePvZset \/ SharePvHash
      BY <2>3, KeptByFrame DEF SharePvZset, SharePvHash, mysql
    <2>4. QED
      BY <2>1, <2>2, <2>3 DEF SharePv
  <1>5. QED
    BY <1>3, <1>4, SharingGoesOn

LEMMA RankingSharing == Typed /\ Sharing /\ Ranking => Sharing'
  <1> SUFFICES ASSUME Typed, Sharing, Ranking PROVE Sharing'
    OBVIOUS
  <1>1. /\ TypeOK /\ req \in Requests /\ req.pc \in RankPCs /\ ~At("idle")
        /\ UNCHANGED <<own, shares, last>>
    BY DEF Typed, TypeOK, Ranking, RankCount, RankCompare, RankClearZset,
           RankClearHash, RankLoad, RankImportZset, RankImportHash, RankList,
           At, RankPCs, aux, mysql
  <1>2. req.op = "rank"
    BY <1>1 DEF Typed, Control
  <1>3. GoesOn /\ req'.pc \notin Unshared
    BY RankingGoesOn DEF Within, RankPCs, Unshared
  <1>4. QED
    BY <1>1, <1>3, KeptByFrame, SharingGoesOn

LEMMA ListSharing == Typed /\ Sharing /\ List => Sharing'
  <1> SUFFICES ASSUME Typed, Sharing, List PROVE Sharing'
    OBVIOUS
  <1>1. TypeOK /\ ~At("idle") /\ UNCHANGED <<own, shares, last>>
    BY DEF Typed, List, ListCount, ListRows, At, aux, mysql
  <1>3. GoesOn /\ req'.pc \notin Unshared
    BY ListGoesOn DEF Within, ListPCs, Unshared
  <1>4. QED
    BY <1>1, <1>3, KeptByFrame, SharingGoesOn DEF Unshared

\* Requests come and go: a share is asked for, or asked for again, only while
\* its user has the file, and no other request falls between.
LEMMA RequestSharing ==
    Typed /\ Sharing
      /\ (\/ \E op \in Ops, u \in User, f \in File : Request(op, u, f)
          \/ RequestRanking \/ RepeatRequest \/ Respond \/ Crash \/ RedisLoss)
        => Sharing'
  <1> SUFFICES ASSUME Typed, Sharing,
                      \/ \E op \in Ops, u \in User, f \in File : Request(op, u, f)
                      \/ RequestRanking \/ RepeatRequest \/ Respond
                      \/ Crash \/ RedisLoss
               PROVE  Sharing'
    OBVIOUS
  <1>1. UNCHANGED <<own, shares>>
    BY DEF Request, Dispatch, RequestRanking, RepeatRequest, Respond, Crash,
           RedisLoss, mysql
  <1>2. SharedFileOwned'
    BY <1>1 DEF Sharing, SharedFileOwned, Owns
  <1>3. Idle.pc = "idle" /\ Idle.op = NULL /\ NULL # "share" /\ Idle.pc \notin Unshared
    BY ParametersAssumption DEF Idle, AllOps, Unshared
  <1>4. \A op \in AllOps : FirstStep[op] \notin Unshared \cup {"idle"}
    BY DEF AllOps, FirstStep, Unshared
  <1>5. ASSUME NEW op \in AllOps, NEW u, NEW f,
               req' = [Idle EXCEPT !.op = op, !.user = u, !.file = f,
                                   !.pc = FirstStep[op]],
               last' = Idle, op = "share" => Owns(u, f)
        PROVE  Sharing'
    <2>1. /\ req'.op = op /\ req'.user = u /\ req'.file = f
          /\ req'.pc = FirstStep[op]
      BY <1>5 DEF Idle
    <2>2. QED
      BY <1>1, <1>2, <1>3, <1>4, <1>5, <2>1 DEF Sharing, Owns, At
  <1>6. CASE \E op \in Ops, u \in User, f \in File : Request(op, u, f)
    BY <1>5, <1>6, ParametersAssumption DEF Request, Dispatch, Offered
  <1>7. CASE RepeatRequest
    <2>1. last.op \in AllOps
      BY <1>7 DEF RepeatRequest, Typed, TypeOK, Requests
    <2>2. QED
      BY <1>5, <1>7, <2>1 DEF RepeatRequest, Sharing
  <1>8. CASE RequestRanking
    <2>1. req'.op = "rank" /\ req'.pc = "rank_count" /\ last' = Idle
      BY <1>8 DEF RequestRanking, Idle, FirstStep
    <2>2. QED
      BY <1>1, <1>2, <1>3, <2>1 DEF Sharing, Unshared
  <1>9. CASE Respond
    <2>1. /\ req' = Idle
          /\ \/ last' = Idle
             \/ last'.op = req.op /\ last'.user = req.user /\ last'.file = req.file
      BY <1>9 DEF Respond, Idle
    <2>2. QED
      BY <1>1, <1>2, <1>3, <2>1 DEF Sharing, Owns, At
  <1>10. CASE Crash
    <2>1. req' = Idle /\ last' = last
      BY <1>10 DEF Crash
    <2>2. QED
      BY <1>1, <1>2, <1>3, <2>1 DEF Sharing, Owns, At
  <1>11. CASE RedisLoss
    BY <1>1, <1>2, <1>11 DEF RedisLoss, Sharing, Owns, At
  <1>12. QED
    BY <1>6, <1>7, <1>8, <1>9, <1>10, <1>11

\* A handler whose call failed moves on without touching MySQL.
LEMMA FaultSharing ==
    Typed /\ Sharing /\ (SqlFails \/ QueryFails \/ RedisFails \/ DfsFails) => Sharing'
  <1> SUFFICES ASSUME Typed, Sharing,
                      SqlFails \/ QueryFails \/ RedisFails \/ DfsFails
               PROVE  Sharing'
    OBVIOUS
  <1>1. UNCHANGED <<own, shares, last>>
    <2>1. UNCHANGED mysql /\ UNCHANGED last
      BY DEF SqlFails, QueryFails, RedisFails, DfsFails
    <2>2. QED
      BY <2>1 DEF mysql
  <1>2. TypeOK /\ req \in Requests
    BY DEF Typed, TypeOK
  <1> DEFINE S == PCs \ (Unshared \cup {"idle", "reply"})
  <1>3. S \in SUBSET (PCs \ {"idle"})
    OBVIOUS
  <1>4. ASSUME ~At("idle"), \/ \E p \in S : Goto(p)
                            \/ \E c \in {OK, FAIL, SHARE_HAD} : Reply(c) \/ DealshareReply(c)
        PROVE  Sharing'
    <2>1. GoesOn /\ req'.pc \in S \cup {"reply"}
      BY <1>1, <1>2, <1>3, <1>4, AnswersOrMoves
    <2>2. QED
      BY <1>1, <2>1, KeptByFrame, SharingGoesOn DEF Unshared
  <1>5. CASE SqlFails
    <2>1. ~At("idle") /\ "md5_restore" \in S
      BY <1>5 DEF SqlFails, At, PCs, Unshared
    <2>2. QED
      BY <1>4, <1>5, <2>1 DEF SqlFails
  <1>6. CASE QueryFails
    <2>1. ~At("idle") /\ {"md5_ref", "share_flag"} \subseteq S
      BY <1>6 DEF QueryFails, At, PCs, Unshared
    <2>2. QED
      BY <1>4, <1>6, <2>1 DEF QueryFails
  <1>7. CASE DfsFails
    <2>1. ~At("idle")
      BY <1>7 DEF DfsFails, At
    <2>2. QED
      BY <1>4, <1>7, <2>1 DEF DfsFails
  <1>8. CASE RedisFails
    <2>1. ~At("idle")
      BY <1>8 DEF RedisFails, At
    <2>2. {"share_heal_hash", "share_hash", "rank_list", "rank_clear_zset",
           "rank_clear_hash", "rank_load", "rank_import_zset"} \subseteq S
      BY DEF PCs, Unshared
    <2>3. CASE \/ At("del_zset") /\ Goto("del_hash")
               \/ At("del_hash") /\ Goto("del_user_count")
      <3>1. /\ req.pc \in Unshared /\ req.pc \in DeletePCs
            /\ {"del_hash", "del_user_count"} \in SUBSET (PCs \ {"idle"})
        BY <2>3 DEF At, Unshared, DeletePCs, PCs
      <3>2. GoesOn
        BY <1>1, <1>2, <2>1, <2>3, <3>1, AnswersOrMoves
      <3>3. req.op = "del" /\ shares'[<<req.user, req.file>>] = <<>>
        BY <1>1, <3>1 DEF Sharing, Typed, Control
      <3>4. QED
        BY <1>1, <3>2, <3>3, KeptByFrame, SharingGoesOn
    <2>4. CASE /\ At("rank_import_zset")
               /\ \E r \in req.todo :
                     req' = [req EXCEPT !.pc = "rank_import_hash",
                                        !.file = r[1][2], !.todo = @ \ {r}]
      <3>1. req.op = "rank"
        BY <2>4 DEF At, RankPCs, Typed, Control
      <3>2. GoesOn /\ req'.pc \notin Unshared
        BY <1>1, <1>2, <2>1, <2>4, <3>1 DEF GoesOn, Requests, At, Unshared
      <3>3. QED
        BY <1>1, <3>2, KeptByFrame, SharingGoesOn
    <2>5. QED
      BY <1>4, <1>8, <2>1, <2>2, <2>3, <2>4 DEF RedisFails
  <1>9. QED
    BY <1>5, <1>6, <1>7, <1>8

LEMMA SharingInit == Init => Sharing
  BY ParametersAssumption
  DEF Init, Sharing, SharedFileOwned, Idle, Unshared, At, AllOps

LEMMA SharingStep == Typed /\ Sharing /\ [Next]_vars => Sharing'
  <1>1. Sharing /\ UNCHANGED vars => Sharing'
    BY DEF Sharing, SharedFileOwned, Owns, At, vars, mysql, aux
  <1>2. QED
    BY <1>1, UploadSharing, InstantUploadSharing, ShareSharing, DeleteSharing,
       CancelSharing, SaveSharing, PvSharing, RankingSharing, ListSharing,
       RequestSharing, FaultSharing DEF Next, Handle

\* Who shares a file has it in their list, whatever faults strike between the
\* statements of a delete and whatever request is sent twice.
THEOREM SharersOwn == Spec => []SharedFileOwned
  BY TypedInit, TypedStep, SharingInit, SharingStep, PTL DEF Spec, Sharing

-----------------------------------------------------------------------------
(* How many rows of user_file_list there are.                                 *)

LEMMA EmptyDomain == \A s \in Seq(OwnRow) : s = <<>> <=> DOMAIN s = {}
  OBVIOUS

LEMMA OwnRows ==
    ASSUME NEW S
    PROVE  \A e : e \in OwnRowsOf(S) <=> \E x \in S : e \in {x} \X DOMAIN own[x]
  BY DEF OwnRowsOf

LEMMA OwnRowsKept ==
    ASSUME NEW S \in SUBSET (User \X File),
           \A x \in User \X File : DOMAIN own'[x] = DOMAIN own[x]
    PROVE  OwnRowsOf(S)' = OwnRowsOf(S)
  BY DEF OwnRowsOf

LEMMA OwnRowsAdded ==
    ASSUME DataTyped, NEW u \in User, NEW f \in File, ~Owns(u, f), AddOwnRow(u, f),
           NEW S \in SUBSET (User \X File)
    PROVE  /\ <<<<u, f>>, 1>> \notin OwnRowsOf(S)
           /\ OwnRowsOf(S)' = IF <<u, f>> \in S
                              THEN OwnRowsOf(S) \cup {<<<<u, f>>, 1>>}
                              ELSE OwnRowsOf(S)
  <1>1. own[<<u, f>>] = <<>> /\ DOMAIN own[<<u, f>>] = {}
    BY DEF Owns
  <1>2. DOMAIN own'[<<u, f>>] = {1}
    BY <1>1 DEF AddOwnRow, DataTyped
  <1>3. \A x \in User \X File : x # <<u, f>> => own'[x] = own[x]
    BY DEF AddOwnRow, DataTyped
  <1>4. \A e : e \in OwnRowsOf(S)' <=> \E x \in S : e \in {x} \X DOMAIN own'[x]
    BY DEF OwnRowsOf
  <1>5. \A e : e \in OwnRowsOf(S)' <=>
               e \in OwnRowsOf(S) \/ (<<u, f>> \in S /\ e = <<<<u, f>>, 1>>)
    BY <1>1, <1>2, <1>3, <1>4, OwnRows
  <1>6. <<<<u, f>>, 1>> \notin OwnRowsOf(S)
    BY <1>1, OwnRows
  <1>7. CASE <<u, f>> \in S
    BY <1>5, <1>6, <1>7
  <1>8. CASE <<u, f>> \notin S
    BY <1>5, <1>6, <1>8
  <1>9. QED
    BY <1>6, <1>7, <1>8

LEMMA OwnRowsRemoved ==
    ASSUME DataTyped, NEW u \in User, NEW f \in File, Owns(u, f),
           DOMAIN own[<<u, f>>] \subseteq {1}, own' = [own EXCEPT ![<<u, f>>] = <<>>],
           NEW S \in SUBSET (User \X File)
    PROVE  /\ <<<<u, f>>, 1>> \in OwnRowsOf(S) <=> <<u, f>> \in S
           /\ OwnRowsOf(S)' = OwnRowsOf(S) \ {<<<<u, f>>, 1>>}
  <1>1. DOMAIN own[<<u, f>>] = {1}
    <2>1. own[<<u, f>>] \in Seq(OwnRow) /\ own[<<u, f>>] # <<>>
      BY DEF Owns, DataTyped
    <2>2. DOMAIN own[<<u, f>>] # {}
      BY <2>1, EmptyDomain
    <2>3. QED
      BY <2>2
  <1>2. DOMAIN own'[<<u, f>>] = {}
    BY DEF DataTyped
  <1>3. \A x \in User \X File : x # <<u, f>> => own'[x] = own[x]
    BY DEF DataTyped
  <1>4. \A e : e \in OwnRowsOf(S)' <=> \E x \in S : e \in {x} \X DOMAIN own'[x]
    BY DEF OwnRowsOf
  <1>5. \A e : e \in OwnRowsOf(S)' <=> e \in OwnRowsOf(S) /\ e # <<<<u, f>>, 1>>
    BY <1>1, <1>2, <1>3, <1>4, OwnRows
  <1>6. QED
    BY <1>1, <1>5, OwnRows

\* The lists are finite: a list grows by a row at a time.
ListsFinite ==
    /\ \A m \in Md5 : IsFiniteSet(OwnersOf(m))
    /\ \A v \in User : IsFiniteSet(ListOf(v))

\* The rows whose digest is m, and those of the user v, grow by n.
Grow(m, v, n) ==
    /\ \A d \in Md5 : Cardinality(OwnersOf(d))' =
           Cardinality(OwnersOf(d)) + IF d = m THEN n ELSE 0
    /\ \A w \in User : Cardinality(ListOf(w))' =
           Cardinality(ListOf(w)) + IF w = v THEN n ELSE 0

LEMMA OwnerJoins ==
    ASSUME DataTyped, ListsFinite, NEW u \in User, NEW f \in File, ~Owns(u, f),
           AddOwnRow(u, f)
    PROVE  ListsFinite' /\ Grow(Md5Of[f], u, 1)
  <1> DEFINE e == <<<<u, f>>, 1>>
             D(m) == {x \in User \X File : Md5Of[x[2]] = m}
             L(v) == {v} \X File
  <1>1. ASSUME NEW S \in SUBSET (User \X File), IsFiniteSet(OwnRowsOf(S))
        PROVE  /\ IsFiniteSet(OwnRowsOf(S)')
               /\ Cardinality(OwnRowsOf(S)') = Cardinality(OwnRowsOf(S)) +
                      IF <<u, f>> \in S THEN 1 ELSE 0
    <2>1. /\ e \notin OwnRowsOf(S)
          /\ OwnRowsOf(S)' = IF <<u, f>> \in S THEN OwnRowsOf(S) \cup {e}
                             ELSE OwnRowsOf(S)
      BY OwnRowsAdded
    <2>2. Cardinality(OwnRowsOf(S)) \in Nat
      BY <1>1, FS_CardinalityType
    <2>3. /\ IsFiniteSet(OwnRowsOf(S) \cup {e})
          /\ Cardinality(OwnRowsOf(S) \cup {e}) = Cardinality(OwnRowsOf(S)) + 1
      BY <1>1, <2>1, FS_AddElement
    <2>4. QED
      BY <1>1, <2>1, <2>2, <2>3
  <1>2. \A m : D(m) \in SUBSET (User \X File) /\ (<<u, f>> \in D(m) <=> m = Md5Of[f])
    OBVIOUS
  <1>3. \A v \in User : L(v) \in SUBSET (User \X File) /\ (<<u, f>> \in L(v) <=> v = u)
    OBVIOUS
  <1>4. ASSUME NEW m \in Md5
        PROVE  /\ IsFiniteSet(OwnersOf(m))'
               /\ Cardinality(OwnersOf(m))' =
                     Cardinality(OwnersOf(m)) + IF m = Md5Of[f] THEN 1 ELSE 0
    BY <1>1, <1>2 DEF OwnersOf, ListsFinite
  <1>5. ASSUME NEW v \in User
        PROVE  /\ IsFiniteSet(ListOf(v))'
               /\ Cardinality(ListOf(v))' =
                     Cardinality(ListOf(v)) + IF v = u THEN 1 ELSE 0
    BY <1>1, <1>3 DEF ListOf, ListsFinite
  <1>6. QED
    BY <1>4, <1>5 DEF ListsFinite, Grow

LEMMA OwnerLeaves ==
    ASSUME DataTyped, ListsFinite, NEW u \in User, NEW f \in File, Owns(u, f),
           DOMAIN own[<<u, f>>] \subseteq {1}, own' = [own EXCEPT ![<<u, f>>] = <<>>]
    PROVE  ListsFinite' /\ Grow(Md5Of[f], u, -1)
  <1> DEFINE e == <<<<u, f>>, 1>>
             D(m) == {x \in User \X File : Md5Of[x[2]] = m}
             L(v) == {v} \X File
  <1>1. ASSUME NEW S \in SUBSET (User \X File), IsFiniteSet(OwnRowsOf(S))
        PROVE  /\ IsFiniteSet(OwnRowsOf(S)')
               /\ Cardinality(OwnRowsOf(S)') = Cardinality(OwnRowsOf(S)) +
                      IF <<u, f>> \in S THEN -1 ELSE 0
    <2>1. /\ e \in OwnRowsOf(S) <=> <<u, f>> \in S
          /\ OwnRowsOf(S)' = OwnRowsOf(S) \ {e}
      BY OwnRowsRemoved
    <2>2. Cardinality(OwnRowsOf(S)) \in Nat
      BY <1>1, FS_CardinalityType
    <2>3. /\ IsFiniteSet(OwnRowsOf(S) \ {e})
          /\ Cardinality(OwnRowsOf(S) \ {e}) =
                IF e \in OwnRowsOf(S) THEN Cardinality(OwnRowsOf(S)) - 1
                ELSE Cardinality(OwnRowsOf(S))
      BY <1>1, FS_RemoveElement
    <2>4. QED
      BY <2>1, <2>2, <2>3
  <1>2. \A m : D(m) \in SUBSET (User \X File) /\ (<<u, f>> \in D(m) <=> m = Md5Of[f])
    OBVIOUS
  <1>3. \A v \in User : L(v) \in SUBSET (User \X File) /\ (<<u, f>> \in L(v) <=> v = u)
    OBVIOUS
  <1>4. ASSUME NEW m \in Md5
        PROVE  /\ IsFiniteSet(OwnersOf(m))'
               /\ Cardinality(OwnersOf(m))' =
                     Cardinality(OwnersOf(m)) + IF m = Md5Of[f] THEN -1 ELSE 0
    BY <1>1, <1>2 DEF OwnersOf, ListsFinite
  <1>5. ASSUME NEW v \in User
        PROVE  /\ IsFiniteSet(ListOf(v))'
               /\ Cardinality(ListOf(v))' =
                     Cardinality(ListOf(v)) + IF v = u THEN -1 ELSE 0
    BY <1>1, <1>3 DEF ListOf, ListsFinite
  <1>6. QED
    BY <1>4, <1>5 DEF ListsFinite, Grow

LEMMA ListsSame ==
    ASSUME \A x \in User \X File : DOMAIN own'[x] = DOMAIN own[x]
    PROVE  /\ \A m : OwnersOf(m)' = OwnersOf(m)
           /\ \A v \in User : ListOf(v)' = ListOf(v)
  BY OwnRowsKept DEF OwnersOf, ListOf

\* No row of the lists has the digest m.
NoOwners(m) == \A u \in User, f \in File : Md5Of[f] = m => ~Owns(u, f)

LEMMA NoOwnersCount ==
    ASSUME DataTyped, ListsFinite, NEW m \in Md5
    PROVE  /\ Cardinality(OwnersOf(m)) \in Nat
           /\ NoOwners(m) <=> Cardinality(OwnersOf(m)) = 0
  <1>1. IsFiniteSet(OwnersOf(m)) /\ Cardinality(OwnersOf(m)) \in Nat
    BY FS_CardinalityType DEF ListsFinite
  <1>2. ASSUME NEW u \in User, NEW f \in File
        PROVE  Owns(u, f) <=> DOMAIN own[<<u, f>>] # {}
    <2>1. own[<<u, f>>] \in Seq(OwnRow)
      BY DEF DataTyped
    <2>2. QED
      BY <2>1, EmptyDomain DEF Owns
  <1>3. \A e : e \in OwnersOf(m) <=>
           \E x \in User \X File : Md5Of[x[2]] = m /\ e \in {x} \X DOMAIN own[x]
    BY OwnRows DEF OwnersOf
  <1>4. NoOwners(m) <=> OwnersOf(m) = {}
    <2>1. ASSUME NoOwners(m), NEW e \in OwnersOf(m)
          PROVE  FALSE
      <3>1. PICK x \in User \X File : Md5Of[x[2]] = m /\ e \in {x} \X DOMAIN own[x]
        BY <1>3, <2>1
      <3>2. PICK u \in User, f \in File : x = <<u, f>>
        OBVIOUS
      <3>3. Md5Of[f] = m /\ DOMAIN own[<<u, f>>] # {}
        BY <3>1, <3>2
      <3>4. QED
        BY <1>2, <2>1, <3>3 DEF NoOwners
    <2>2. ASSUME OwnersOf(m) = {}, NEW u \in User, NEW f \in File, Md5Of[f] = m, Owns(u, f)
          PROVE  FALSE
      <3>1. PICK i \in DOMAIN own[<<u, f>>] : TRUE
        BY <1>2, <2>2
      <3>2. <<<<u, f>>, i>> \in {<<u, f>>} \X DOMAIN own[<<u, f>>]
        BY <3>1
      <3>3. <<<<u, f>>, i>> \in OwnersOf(m)
        BY <1>3, <2>2, <3>2
      <3>4. QED
        BY <2>2, <3>3
    <2>3. QED
      BY <2>1, <2>2 DEF NoOwners
  <1>5. QED
    BY <1>1, <1>4, FS_EmptySet

LEMMA ListCounted ==
    ASSUME DataTyped, ListsFinite, NEW u \in User
    PROVE  /\ Cardinality(ListOf(u)) \in Nat
           /\ (\E f \in File : Owns(u, f)) => Cardinality(ListOf(u)) > 0
  <1>1. IsFiniteSet(ListOf(u)) /\ Cardinality(ListOf(u)) \in Nat
    BY FS_CardinalityType DEF ListsFinite
  <1>2. ASSUME NEW f \in File, Owns(u, f)
        PROVE  ListOf(u) # {}
    <2>1. own[<<u, f>>] \in Seq(OwnRow) /\ own[<<u, f>>] # <<>>
      BY <1>2 DEF DataTyped, Owns
    <2>2. 1 \in DOMAIN own[<<u, f>>]
      BY <2>1
    <2>3. <<<<u, f>>, 1>> \in {<<u, f>>} \X DOMAIN own[<<u, f>>]
      BY <2>2
    <2>4. QED
      BY <2>3, OwnRows DEF ListOf
  <1>3. QED
    BY <1>1, <1>2, FS_EmptySet

-----------------------------------------------------------------------------
(* Reference counts and user counts against the lists.                        *)

\* What the counts rely on: clients that ask for no instant upload, upload a
\* digest once, and send no request twice.
CarefulClients == "md5" \notin Ops /\ FreshUploads /\ ~Repeats

AddPCs   == {"up_store", "up_info", "up_own", "save_ref", "save_own"}
SavePCs  == {"save_check", "save_ref", "save_own"}
OwnedPCs == {"del_check", "del_share_rows", "del_share_count", "del_zset",
             "del_hash", "del_user_count", "del_own"}
NoOwnerPCs == {"up_store", "up_info", "up_own", "del_info", "del_store"}

\* Where file_info already counts a row that is not in the list (any more or
\* yet), and where user_file_count does not count one that is.
RefPCs   == {"up_own", "save_own", "del_ref"}
CountPCs == {"up_count", "save_count", "del_own"}
CountOf(u) == IF userCount[u] = NULL THEN 0 ELSE userCount[u]
Ahead(m)   == IF req.pc \in RefPCs /\ M = m THEN 1 ELSE 0
Behind(u)  == IF req.pc \in CountPCs /\ req.user = u THEN 1 ELSE 0

\* How far the counts are from what they count, in the middle of a request too.
RefGap(i)  == fileInfo[i].count - Cardinality(OwnersOf(fileInfo[i].md5))
                 - Ahead(fileInfo[i].md5)
UserGap(u) == Cardinality(ListOf(u)) - CountOf(u) - Behind(u)

\* The rows and the files are where the next statement of a handler needs them.
Placed ==
    /\ \A x \in User \X File : DOMAIN own[x] \subseteq {1}
    /\ ListsFinite
    /\ OwnedFileStored
    /\ DOMAIN fileInfo \subseteq 1..uploads
    /\ last.op = NULL
    /\ req.pc \notin Md5PCs
    /\ req.pc \in AddPCs => ~Owns(req.user, req.file)
    /\ req.pc \in NoOwnerPCs => NoOwners(M)
    /\ req.pc \in {"up_store", "up_info"} => RowsOf(M) = {}
    /\ req.pc = "up_info" => /\ req.fid \in stored /\ req.fid \in 1..uploads
                             /\ req.fid \notin DOMAIN fileInfo
    /\ req.pc \in SavePCs \cup {"up_own"} => RowsOf(M) \cap stored # {}
    /\ req.pc \in OwnedPCs => Owns(req.user, req.file)
    /\ req.pc = "del_store" /\ req.fid \in DOMAIN fileInfo =>
          fileInfo[req.fid].md5 = M

RefsCover  == \A i \in DOMAIN fileInfo : RefGap(i) >= 0
UsersBelow == \A u \in User : UserGap(u) >= 0
Even == /\ \A i \in DOMAIN fileInfo : RefGap(i) = 0
        /\ \A u \in User : UserGap(u) = 0

Counting == Placed /\ RefsCover /\ UsersBelow

\* What a statement does to the gaps when it is executed, and what it leaves
\* of them when it is not.
GapsKept ==
    /\ \A i \in DOMAIN fileInfo' :
          RefGap(i)' = 0 \/ \E j \in DOMAIN fileInfo : RefGap(i)' = RefGap(j)
    /\ \A u \in User : \/ UserGap(u)' = UserGap(u)
                       \/ UserGap(u) > 0 /\ UserGap(u)' >= 0
GapsWiden ==
    /\ \A i \in DOMAIN fileInfo' : i \in DOMAIN fileInfo /\ RefGap(i)' >= RefGap(i)
    /\ \A u \in User : UserGap(u)' >= UserGap(u)

GapsTyped ==
    /\ \A i \in DOMAIN fileInfo : /\ RefGap(i) \in Int /\ fileInfo[i].md5 \in Md5
                                 /\ fileInfo[i].count \in Nat
    /\ \A u \in User : UserGap(u) \in Int /\ CountOf(u) \in Nat

LEMMA GapTypes == Typed /\ ListsFinite => GapsTyped
  <1> SUFFICES ASSUME Typed, ListsFinite PROVE GapsTyped
    OBVIOUS
  <1>1. DataTyped
    BY TypeParts DEF Typed
  <1>2. ASSUME NEW i \in DOMAIN fileInfo
        PROVE  /\ RefGap(i) \in Int /\ fileInfo[i].md5 \in Md5
               /\ fileInfo[i].count \in Nat
    <2>1. fileInfo[i].md5 \in Md5 /\ fileInfo[i].count \in Nat
      BY <1>1 DEF DataTyped, Row
    <2>2. Cardinality(OwnersOf(fileInfo[i].md5)) \in Nat
      BY <1>1, <2>1, NoOwnersCount
    <2>3. Ahead(fileInfo[i].md5) \in {0, 1}
      BY DEF Ahead
    <2>4. QED
      BY <2>1, <2>2, <2>3 DEF RefGap
  <1>3. ASSUME NEW u \in User
        PROVE  UserGap(u) \in Int /\ CountOf(u) \in Nat
    <2>1. CountOf(u) \in Nat
      BY <1>1 DEF DataTyped, CountOf
    <2>2. Cardinality(ListOf(u)) \in Nat
      BY <1>1, ListCounted
    <2>3. Behind(u) \in {0, 1}
      BY DEF Behind
    <2>4. QED
      BY <2>1, <2>2, <2>3 DEF UserGap
  <1>4. QED
    BY <1>2, <1>3 DEF GapsTyped

\* A statement that leaves the lists, the counts and the files as they are.
Calm ==
    /\ UNCHANGED <<fileInfo, stored, uploads>>
    /\ \A x \in User \X File : DOMAIN own'[x] = DOMAIN own[x]
    /\ \A u \in User : CountOf(u)' = CountOf(u)
    /\ last'.op = NULL

CalmPCs == PCs \ (Md5PCs \cup AddPCs \cup SavePCs \cup OwnedPCs \cup NoOwnerPCs
                     \cup RefPCs \cup CountPCs)

LEMMA OwnsSame ==
    ASSUME DataTyped, DataTyped', Calm, NEW u \in User, NEW f \in File
    PROVE  Owns(u, f)' <=> Owns(u, f)
  <1>1. /\ own[<<u, f>>] \in Seq(OwnRow) /\ own'[<<u, f>>] \in Seq(OwnRow)
        /\ DOMAIN own'[<<u, f>>] = DOMAIN own[<<u, f>>]
    BY DEF DataTyped, Calm
  <1>2. QED
    BY <1>1, EmptyDomain DEF Owns

LEMMA CalmStep ==
    ASSUME Typed, Typed', Placed, Calm,
           \/ req'.pc \in CalmPCs
           \/ /\ req.pc \in OwnedPCs /\ req'.pc \in OwnedPCs \ {"del_own"}
              /\ req'.user = req.user /\ req'.file = req.file
    PROVE  /\ Placed' /\ GapsWiden
           /\ req.pc \notin RefPCs \cup CountPCs => GapsKept
  <1>1. DataTyped /\ DataTyped'
    BY TypeParts DEF Typed
  <1>2. /\ \A m : OwnersOf(m)' = OwnersOf(m)
        /\ \A v \in User : ListOf(v)' = ListOf(v)
    BY ListsSame DEF Calm
  <1>3. ListsFinite /\ ListsFinite'
    BY <1>2 DEF ListsFinite, Placed
  <1>4. \A m : RowsOf(m)' = RowsOf(m)
    BY DEF RowsOf, Calm
  <1>5. \A u \in User, f \in File : Owns(u, f)' <=> Owns(u, f)
    BY <1>1, OwnsSame
  <1>6. OwnedFileStored'
    BY <1>4, <1>5 DEF OwnedFileStored, Placed, Calm
  <1>7. /\ req'.pc \notin Md5PCs \cup AddPCs \cup SavePCs \cup NoOwnerPCs
        /\ req'.pc \notin RefPCs \cup CountPCs
    BY DEF CalmPCs, OwnedPCs, Md5PCs, AddPCs, SavePCs, NoOwnerPCs, RefPCs, CountPCs
  <1>8. req'.pc \in OwnedPCs => Owns(req.user, req.file)' /\ req'.user = req.user
                                /\ req'.file = req.file
    <2>1. CASE req'.pc \in CalmPCs
      BY <2>1 DEF CalmPCs
    <2>2. CASE /\ req.pc \in OwnedPCs /\ req'.pc \in OwnedPCs
               /\ req'.user = req.user /\ req'.file = req.file
      <3>1. req.user \in User /\ req.file \in File
        BY <2>2, Addressed DEF OwnedPCs, RankPCs
      <3>2. QED
        BY <1>5, <2>2, <3>1 DEF Placed, Owns
    <2>3. QED
      BY <2>1, <2>2
  <1>9. Placed'
    <2>1. /\ \A x \in User \X File : DOMAIN own'[x] \subseteq {1}
          /\ DOMAIN fileInfo' \subseteq 1..uploads'
          /\ last'.op = NULL
      BY DEF Calm, Placed
    <2>2. req'.pc \in OwnedPCs => Owns(req.user, req.file)'
      BY <1>8
    <2>3. req'.pc \notin {"up_store", "up_info", "up_own", "del_store"}
      BY <1>7 DEF AddPCs, NoOwnerPCs
    <2>4. QED
      BY <1>3, <1>6, <1>7, <2>1, <2>2, <2>3 DEF Placed
  <1>10. ASSUME NEW i \in DOMAIN fileInfo
         PROVE  /\ RefGap(i)' >= RefGap(i)
                /\ req.pc \notin RefPCs => RefGap(i)' = RefGap(i)
    <2>1. Ahead(fileInfo[i].md5)' = 0 /\ Ahead(fileInfo[i].md5) \in {0, 1}
          /\ (req.pc \notin RefPCs => Ahead(fileInfo[i].md5) = 0)
      BY <1>7 DEF Ahead
    <2>2. /\ fileInfo'[i] = fileInfo[i] /\ fileInfo[i].count \in Nat
          /\ Cardinality(OwnersOf(fileInfo[i].md5)) \in Nat
      BY <1>1, <1>3, GapTypes, NoOwnersCount DEF GapsTyped, Calm
    <2>3. OwnersOf(fileInfo[i].md5)' = OwnersOf(fileInfo[i].md5)
      BY <1>2, <2>2 DEF Calm, OwnersOf
    <2>4. QED
      BY <2>1, <2>2, <2>3 DEF RefGap
  <1>11. ASSUME NEW u \in User
         PROVE  /\ UserGap(u)' >= UserGap(u)
                /\ req.pc \notin CountPCs => UserGap(u)' = UserGap(u)
    <2>1. Behind(u)' = 0 /\ Behind(u) \in {0, 1}
          /\ (req.pc \notin CountPCs => Behind(u) = 0)
      BY <1>7 DEF Behind
    <2>2. CountOf(u)' = CountOf(u) /\ CountOf(u) \in Nat
          /\ Cardinality(ListOf(u)) \in Nat /\ ListOf(u)' = ListOf(u)
      BY <1>1, <1>2, <1>3, GapTypes, ListCounted DEF GapsTyped, Calm
    <2>3. QED
      BY <2>1, <2>2 DEF UserGap
  <1>12. QED
    BY <1>9, <1>10, <1>11 DEF GapsWiden, GapsKept, Calm

\* The handlers of shares, downloads, rankings and lists change no count.
LEMMA SameOwnRows ==
    ASSUME DataTyped, NEW u \in User, NEW f \in File,
           \/ UNCHANGED own
           \/ \E v \in {0, 1} : SetShared(u, f, v)
           \/ own' = [own EXCEPT ![<<u, f>>] =
                        [i \in DOMAIN @ |-> [@[i] EXCEPT !.pv = 1]]]
    PROVE  \A x \in User \X File : DOMAIN own'[x] = DOMAIN own[x]
  BY DEF DataTyped, SetShared

\* Where the handlers of shares, cancels, downloads, rankings and lists are.
QuietPCs == SharePCs \cup RankPCs
              \cup {"reply", "idle", "pv_update", "cancel_flag", "cancel_count",
                    "cancel_rows", "cancel_zset", "cancel_hash", "sp_update",
                    "sp_zset", "sp_hash", "list_count", "list_rows"}

LEMMA QuietIsCalm == QuietPCs \subseteq CalmPCs
  <1>1. QuietPCs \subseteq PCs
    BY DEF QuietPCs, SharePCs, RankPCs, PCs
  <1>2. \A p \in QuietPCs :
           p \notin Md5PCs \cup AddPCs \cup SavePCs \cup OwnedPCs \cup NoOwnerPCs
                      \cup RefPCs \cup CountPCs
    BY DEF QuietPCs, SharePCs, RankPCs, Md5PCs, AddPCs, SavePCs, OwnedPCs,
           NoOwnerPCs, RefPCs, CountPCs
  <1>3. QED
    BY <1>1, <1>2 DEF CalmPCs

LEMMA CalmHandlers ==
    ASSUME Typed, Typed', Placed,
           Share \/ Cancel \/ SharePv \/ CountOwnDownload \/ Ranking \/ List
    PROVE  Placed' /\ GapsKept
  <1>1. DataTyped /\ req \in Requests /\ last.op = NULL
    BY TypeParts DEF Typed, Placed
  <1>2. UNCHANGED <<fileInfo, stored, uploads, last>>
    BY DEF Share, ShareCheck, ShareHealZset, ShareHealHash, ShareFlag,
           ShareInsert, ShareCount, ShareZset, ShareHash, Cancel, CancelFlag,
           CancelCount, CancelRows, CancelZset, CancelHash, SharePv,
           SharePvUpdate, SharePvZset, SharePvHash, CountOwnDownload, Ranking,
           RankCount, RankCompare, RankClearZset, RankClearHash, RankLoad,
           RankImportZset, RankImportHash, RankList, List, ListCount, ListRows,
           mysql, dfs, aux
  <1>3. req.pc \in CalmPCs
    <2>1. req.pc \in QuietPCs
      BY DEF Share, ShareCheck, ShareHealZset, ShareHealHash, ShareFlag,
           ShareInsert, ShareCount, ShareZset, ShareHash, Cancel, CancelFlag,
           CancelCount, CancelRows, CancelZset, CancelHash, SharePv,
           SharePvUpdate, SharePvZset, SharePvHash, CountOwnDownload, Ranking,
           RankCount, RankCompare, RankClearZset, RankClearHash, RankLoad,
           RankImportZset, RankImportHash, RankList, List, ListCount, ListRows,
           At, QuietPCs, SharePCs, RankPCs
    <2>2. QED
      BY <2>1, QuietIsCalm
  <1>4. req'.pc \in CalmPCs
    <2>1. CASE Share
      BY <1>1, <2>1, QuietIsCalm
      DEF Share, ShareCheck, ShareHealZset, ShareHealHash, ShareFlag,
          ShareInsert, ShareCount, ShareZset, ShareHash, Goto, Reply, Requests,
          QuietPCs, SharePCs
    <2>2. CASE Cancel \/ SharePv \/ CountOwnDownload \/ List
      BY <1>1, <2>2, QuietIsCalm
      DEF Cancel, CancelFlag, CancelCount, CancelRows, CancelZset, CancelHash,
          SharePv, SharePvUpdate, SharePvZset, SharePvHash, CountOwnDownload,
          List, ListCount, ListRows, Goto, Reply, DealshareReply, Requests,
          QuietPCs
    <2>3. CASE Ranking
      BY <1>1, <2>3, QuietIsCalm
      DEF Ranking, RankCount, RankCompare, RankClearZset, RankClearHash,
          RankLoad, RankImportZset, RankImportHash, RankList, Goto, Reply,
          Requests, QuietPCs, RankPCs
    <2>4. QED
      BY <2>1, <2>2, <2>3
  <1>5. \A x \in User \X File : DOMAIN own'[x] = DOMAIN own[x]
    <2>1. CASE ShareFlag \/ CancelFlag \/ CountOwnDownload
      <3>1. req.user \in User /\ req.file \in File
        BY <2>1, Addressed DEF ShareFlag, CancelFlag, CountOwnDownload, At, RankPCs
      <3>2. QED
        BY <1>1, <2>1, <3>1, SameOwnRows DEF ShareFlag, CancelFlag, CountOwnDownload
    <2>2. CASE UNCHANGED own
      BY <2>2
    <2>3. QED
      BY <2>1, <2>2
      DEF Share, ShareCheck, ShareHealZset, ShareHealHash, ShareInsert,
          ShareCount, ShareZset, ShareHash, Cancel, CancelCount, CancelRows,
          CancelZset, CancelHash, SharePv, SharePvUpdate, SharePvZset,
          SharePvHash, Ranking, RankCount, RankCompare, RankClearZset,
          RankClearHash, RankLoad, RankImportZset, RankImportHash, RankList,
          List, ListCount, ListRows, mysql
  <1>6. \A u \in User : CountOf(u)' = CountOf(u)
    <2>1. CASE ListCount
      BY <1>1, <2>1, ParametersAssumption DEF ListCount, CountOf, DataTyped
    <2>2. CASE UNCHANGED userCount
      BY <2>2 DEF CountOf
    <2>3. QED
      BY <2>1, <2>2
      DEF Share, ShareCheck, ShareHealZset, ShareHealHash, ShareFlag,
          ShareInsert, ShareCount, ShareZset, ShareHash, Cancel, CancelFlag,
          CancelCount, CancelRows, CancelZset, CancelHash, SharePv,
          SharePvUpdate, SharePvZset, SharePvHash, CountOwnDownload, Ranking,
          RankCount, RankCompare, RankClearZset, RankClearHash, RankLoad,
          RankImportZset, RankImportHash, RankList, List, ListRows, mysql
  <1>7. Calm
    BY <1>1, <1>2, <1>5, <1>6 DEF Calm
  <1>8. QED
    BY <1>3, <1>4, <1>7, CalmStep DEF CalmPCs

\* The statements that change the counts or the lists, one by one.
LEMMA GapsSame ==
    ASSUME Typed, ListsFinite, UNCHANGED <<fileInfo, own, userCount>>,
           req.pc \notin RefPCs \cup CountPCs, req'.pc \notin RefPCs \cup CountPCs
    PROVE  GapsKept
  <1>1. \A i \in DOMAIN fileInfo' : i \in DOMAIN fileInfo /\ RefGap(i)' = RefGap(i)
    BY DEF RefGap, Ahead, OwnersOf, OwnRowsOf
  <1>2. \A u \in User : UserGap(u)' = UserGap(u)
    BY DEF UserGap, Behind, CountOf, ListOf, OwnRowsOf
  <1>3. QED
    BY <1>1, <1>2 DEF GapsKept

LEMMA OwnersFrame ==
    ASSUME UNCHANGED own
    PROVE  /\ \A m : NoOwners(m)' <=> NoOwners(m)
           /\ \A u \in User, f \in File : Owns(u, f)' <=> Owns(u, f)
           /\ ListsFinite => ListsFinite'
  BY DEF NoOwners, Owns, ListsFinite, OwnersOf, ListOf, OwnRowsOf

LEMMA UploadStoreCounts ==
    ASSUME Typed, Typed', Placed, UploadStore PROVE Placed' /\ GapsKept
  <1>1. /\ req.user \in User /\ req.file \in File /\ uploads \in Nat
        /\ UNCHANGED <<fileInfo, own, userCount, last>>
    BY Addressed DEF UploadStore, At, RankPCs, mysql, aux, DataTyped
  <1>2. /\ req'.pc = "up_info" /\ req'.user = req.user /\ req'.file = req.file
        /\ req'.fid = uploads' /\ uploads' = uploads + 1
        /\ stored' = stored \cup {uploads'} /\ req.pc = "up_store"
    BY DEF UploadStore, At, Typed, TypeOK, Requests
  <1>3. OwnedFileStored'
    BY <1>1, <1>2, OwnersFrame DEF Placed, OwnedFileStored, RowsOf
  <1>4. NoOwners(M)' /\ RowsOf(M)' = {} /\ ~Owns(req.user, req.file)'
    BY <1>1, <1>2, OwnersFrame
    DEF Placed, NoOwnerPCs, AddPCs, M, NoOwners, RowsOf, Owns
  <1>5. DOMAIN fileInfo' \subseteq 1..uploads' /\ uploads' \notin DOMAIN fileInfo'
    BY <1>1, <1>2 DEF Placed
  <1>6. Placed'
    BY <1>1, <1>2, <1>3, <1>4, <1>5, OwnersFrame
    DEF Placed, Md5PCs, AddPCs, SavePCs, NoOwnerPCs, OwnedPCs
  <1>7. QED
    BY <1>1, <1>2, <1>6, GapsSame DEF Placed, RefPCs, CountPCs

LEMMA UploadInfoCounts ==
    ASSUME Typed, Typed', Placed, UploadInfo PROVE Placed' /\ GapsKept
  <1>1. /\ req.user \in User /\ req.file \in File /\ M \in Md5 /\ DataTyped
        /\ UNCHANGED <<own, userCount, last, stored, uploads>>
    BY Addressed DEF UploadInfo, At, RankPCs, dfs, aux
  <1>2. /\ req'.pc = "up_own" /\ req'.user = req.user /\ req'.file = req.file
        /\ req.pc = "up_info" /\ M' = M
    BY DEF UploadInfo, At, Goto, Typed, TypeOK, Requests, M
  <1>3. /\ req.fid \in stored /\ req.fid \in 1..uploads /\ req.fid \notin DOMAIN fileInfo
        /\ RowsOf(M) = {} /\ NoOwners(M) /\ ~Owns(req.user, req.file)
    BY <1>2 DEF Placed, NoOwnerPCs, AddPCs
  <1>4. /\ DOMAIN fileInfo' = DOMAIN fileInfo \cup {req.fid}
        /\ fileInfo'[req.fid] = [md5 |-> M, count |-> 1]
        /\ \A i \in DOMAIN fileInfo : fileInfo'[i] = fileInfo[i]
    BY <1>3 DEF UploadInfo
  <1>5. \A m : RowsOf(m) \subseteq RowsOf(m)'
    BY <1>4 DEF RowsOf
  <1>6. OwnedFileStored'
    BY <1>1, <1>5, OwnersFrame DEF Placed, OwnedFileStored
  <1>7. req.fid \in RowsOf(M)' \cap stored'
    BY <1>1, <1>2, <1>3, <1>4 DEF RowsOf
  <1>8. NoOwners(M)' /\ ~Owns(req.user, req.file)'
    BY <1>1, <1>2, <1>3, OwnersFrame DEF NoOwners, Owns
  <1>9. Placed'
    BY <1>1, <1>2, <1>3, <1>4, <1>6, <1>7, <1>8, OwnersFrame
    DEF Placed, Md5PCs, AddPCs, SavePCs, NoOwnerPCs, OwnedPCs
  <1>10. ASSUME NEW i, i = req.fid
         PROVE  RefGap(i)' = 0
    <2>1. /\ fileInfo'[i].md5 = M /\ fileInfo'[i].count = 1
          /\ Ahead(fileInfo[i].md5)' = 1
      BY <1>2, <1>4, <1>10 DEF Ahead, RefPCs
    <2>2. OwnersOf(fileInfo[i].md5)' = OwnersOf(M)
      BY <1>1, <2>1 DEF OwnersOf, OwnRowsOf
    <2>3. Cardinality(OwnersOf(M)) = 0
      BY <1>1, <1>3, NoOwnersCount DEF Placed
    <2>4. QED
      BY <2>1, <2>2, <2>3 DEF RefGap
  <1>11. ASSUME NEW i \in DOMAIN fileInfo
         PROVE  RefGap(i)' = RefGap(i)
    <2>1. fileInfo'[i] = fileInfo[i] /\ fileInfo[i].md5 # M
      BY <1>3, <1>4 DEF RowsOf
    <2>2. Ahead(fileInfo[i].md5)' = 0 /\ Ahead(fileInfo[i].md5) = 0
      BY <1>2, <2>1 DEF Ahead, RefPCs
    <2>3. OwnersOf(fileInfo[i].md5)' = OwnersOf(fileInfo[i].md5)
      BY <1>1, <2>1 DEF OwnersOf, OwnRowsOf
    <2>4. QED
      BY <2>1, <2>2, <2>3 DEF RefGap
  <1>12. \A u \in User : UserGap(u)' = UserGap(u)
    BY <1>1, <1>2 DEF UserGap, Behind, CountOf, ListOf, OwnRowsOf, CountPCs
  <1>13. QED
    BY <1>4, <1>9, <1>10, <1>11, <1>12 DEF GapsKept

\* user_file_list gets the row that file_info counts already.
LEMMA RowAdded ==
    ASSUME Typed, Typed', Placed, req.pc \in {"up_own", "save_own"},
           NEW p \in {"up_count", "save_count"}, Moves(p),
           AddOwnRow(req.user, req.file),
           UNCHANGED <<fileInfo, userCount, stored, uploads, last>>
    PROVE  Placed' /\ GapsKept
  <1>1. /\ req.user \in User /\ req.file \in File /\ M \in Md5 /\ DataTyped
        /\ DataTyped' /\ M' = M /\ req'.user = req.user /\ req'.pc = p
    BY Addressed, TypeParts DEF RankPCs, Moves, M, Typed
  <1>2. ~Owns(req.user, req.file) /\ RowsOf(M) \cap stored # {} /\ ListsFinite
    BY DEF Placed, AddPCs, SavePCs
  <1>3. ListsFinite' /\ Grow(M, req.user, 1)
    BY <1>1, <1>2, OwnerJoins DEF M
  <1>4. DOMAIN own'[<<req.user, req.file>>] = {1}
        /\ \A x \in User \X File : x # <<req.user, req.file>> => own'[x] = own[x]
    BY <1>1, <1>2 DEF AddOwnRow, Owns, DataTyped
  <1>5. OwnedFileStored'
    <2> SUFFICES ASSUME NEW u \in User, NEW f \in File, Owns(u, f)'
                 PROVE  RowsOf(Md5Of[f])' \cap stored' # {}
      BY DEF OwnedFileStored
    <2>1. \A m : RowsOf(m)' = RowsOf(m)
      BY DEF RowsOf
    <2>2. CASE <<u, f>> = <<req.user, req.file>>
      BY <1>2, <2>1, <2>2 DEF M
    <2>3. CASE <<u, f>> # <<req.user, req.file>>
      <3>1. Owns(u, f)
        BY <1>4, <2>3 DEF Owns
      <3>2. QED
        BY <2>1, <3>1 DEF Placed, OwnedFileStored
    <2>4. QED
      BY <2>2, <2>3
  <1>6. \A x \in User \X File : DOMAIN own'[x] \subseteq {1}
    BY <1>4 DEF Placed
  <1>7. Placed'
    BY <1>1, <1>3, <1>5, <1>6
    DEF Placed, Md5PCs, AddPCs, SavePCs, NoOwnerPCs, OwnedPCs
  <1>8. ASSUME NEW i \in DOMAIN fileInfo
        PROVE  RefGap(i)' = RefGap(i)
    <2>1. /\ fileInfo[i].md5 \in Md5 /\ fileInfo[i].count \in Nat
          /\ Cardinality(OwnersOf(fileInfo[i].md5)) \in Nat
      BY <1>1, <1>2, GapTypes, NoOwnersCount DEF GapsTyped
    <2>2. /\ Ahead(fileInfo[i].md5)' = 0
          /\ Ahead(fileInfo[i].md5) = IF fileInfo[i].md5 = M THEN 1 ELSE 0
      BY <1>1 DEF Ahead, RefPCs
    <2>3. Cardinality(OwnersOf(fileInfo[i].md5))' =
             Cardinality(OwnersOf(fileInfo[i].md5)) + IF fileInfo[i].md5 = M THEN 1 ELSE 0
      BY <1>3, <2>1 DEF Grow, OwnersOf, OwnRowsOf
    <2>4. QED
      BY <2>1, <2>2, <2>3 DEF RefGap
  <1>9. ASSUME NEW u \in User
        PROVE  UserGap(u)' = UserGap(u)
    <2>1. Cardinality(ListOf(u)) \in Nat /\ CountOf(u) \in Nat /\ CountOf(u)' = CountOf(u)
      BY <1>1, <1>2, GapTypes, ListCounted DEF GapsTyped, CountOf
    <2>2. Behind(u)' = (IF u = req.user THEN 1 ELSE 0) /\ Behind(u) = 0
      BY <1>1 DEF Behind, CountPCs
    <2>3. Cardinality(ListOf(u))' = Cardinality(ListOf(u)) + IF u = req.user THEN 1 ELSE 0
      BY <1>3 DEF Grow
    <2>4. QED
      BY <2>1, <2>2, <2>3 DEF UserGap
  <1>10. QED
    BY <1>7, <1>8, <1>9 DEF GapsKept

\* user_file_count counts the row that the list has already.
LEMMA RowCounted ==
    ASSUME Typed, Typed', Placed, req.pc \in {"up_count", "save_count"},
           Moves("reply"), IncUserCount(req.user),
           UNCHANGED <<fileInfo, own, stored, uploads, last>>
    PROVE  Placed' /\ GapsKept
  <1>1. /\ req.user \in User /\ DataTyped /\ DataTyped' /\ req'.pc = "reply"
    BY Addressed, TypeParts DEF RankPCs, Moves, Typed
  <1>2. ListsFinite /\ ListsFinite' /\ OwnedFileStored'
    BY OwnersFrame DEF Placed, OwnedFileStored, RowsOf
  <1>3. Placed'
    BY <1>1, <1>2 DEF Placed, Md5PCs, AddPCs, SavePCs, NoOwnerPCs, OwnedPCs
  <1>4. \A i \in DOMAIN fileInfo : RefGap(i)' = RefGap(i)
    BY <1>1 DEF RefGap, Ahead, RefPCs, OwnersOf, OwnRowsOf
  <1>5. ASSUME NEW u \in User
        PROVE  UserGap(u)' = UserGap(u)
    <2>1. /\ Cardinality(ListOf(u)) \in Nat /\ ListOf(u)' = ListOf(u)
          /\ CountOf(u) \in Nat
      BY <1>1, <1>2, GapTypes, ListCounted DEF GapsTyped, ListOf, OwnRowsOf
    <2>2. CountOf(u)' = CountOf(u) + IF u = req.user THEN 1 ELSE 0
      BY <1>1, ParametersAssumption DEF IncUserCount, CountOf, DataTyped
    <2>3. Behind(u)' = 0 /\ Behind(u) = IF u = req.user THEN 1 ELSE 0
      BY <1>1 DEF Behind, CountPCs
    <2>4. QED
      BY <2>1, <2>2, <2>3 DEF UserGap
  <1>6. QED
    BY <1>3, <1>4, <1>5 DEF GapsKept

\* The count of a digest set to n, its owners as they were.
LEMMA RefCountSet ==
    ASSUME Typed, Placed, NEW n \in Nat, M \in Md5, RowsOf(M) # {}, SetRefCount(M, n),
           UNCHANGED <<own, userCount, stored, uploads, last, M>>
    PROVE  /\ DataTyped /\ DOMAIN fileInfo' = DOMAIN fileInfo
           /\ \A i \in DOMAIN fileInfo :
                 /\ fileInfo'[i].md5 = fileInfo[i].md5
                 /\ fileInfo[i].md5 = M => fileInfo'[i].count = n
                 /\ fileInfo[i].md5 # M => fileInfo'[i] = fileInfo[i]
                 /\ OwnersOf(fileInfo[i].md5)' = OwnersOf(fileInfo[i].md5)
           /\ \A m : RowsOf(m)' = RowsOf(m)
           /\ OwnedFileStored' /\ ListsFinite /\ ListsFinite'
           /\ FirstOf(M) \in DOMAIN fileInfo /\ fileInfo[FirstOf(M)].md5 = M
           /\ fileInfo[FirstOf(M)].count \in Nat
  <1>1. DataTyped
    BY TypeParts DEF Typed
  <1>2. /\ DOMAIN fileInfo' = DOMAIN fileInfo
        /\ \A i \in DOMAIN fileInfo :
                 /\ fileInfo'[i].md5 = fileInfo[i].md5
                 /\ fileInfo[i].md5 = M => fileInfo'[i].count = n
                 /\ fileInfo[i].md5 # M => fileInfo'[i] = fileInfo[i]
    BY <1>1 DEF SetRefCount, DataTyped, Row
  <1>3. \A i \in DOMAIN fileInfo : OwnersOf(fileInfo[i].md5)' = OwnersOf(fileInfo[i].md5)
    BY <1>2 DEF OwnersOf, OwnRowsOf
  <1>4. \A m : RowsOf(m)' = RowsOf(m)
    BY <1>2 DEF RowsOf
  <1>5. OwnedFileStored' /\ ListsFinite /\ ListsFinite'
    BY <1>4, OwnersFrame DEF Placed, OwnedFileStored
  <1>6. FirstOf(M) \in RowsOf(M)
    BY <1>1, FirstOfIsRow DEF DataTyped
  <1>7. QED
    BY <1>1, <1>2, <1>3, <1>4, <1>5, <1>6, FirstCount DEF RowsOf

LEMMA SaveRefCounts ==
    ASSUME Typed, Typed', Placed, SaveRef PROVE Placed' /\ GapsKept
  <1>1. /\ req.user \in User /\ req.file \in File /\ M \in Md5 /\ DataTyped
        /\ UNCHANGED <<own, userCount, last, stored, uploads>>
        /\ req.pc = "save_ref" /\ RowsOf(M) # {}
    BY Addressed DEF SaveRef, At, RankPCs, dfs, aux, Typed, Control
  <1>2. /\ req'.pc = "save_own" /\ req'.user = req.user /\ req'.file = req.file
        /\ M' = M
    BY DEF SaveRef, At, Goto, Typed, TypeOK, Requests, M
  <1> DEFINE n == fileInfo[FirstOf(M)].count
  <1>3. n \in Nat /\ n + 1 \in Nat
    BY <1>1, FirstCount
  <1>4. SetRefCount(M, n + 1)
    BY DEF SaveRef
  <1> HIDE DEF n
  <1>5. /\ DOMAIN fileInfo' = DOMAIN fileInfo
        /\ \A i \in DOMAIN fileInfo :
              /\ fileInfo'[i].md5 = fileInfo[i].md5
              /\ fileInfo[i].md5 = M => fileInfo'[i].count = n + 1
              /\ fileInfo[i].md5 # M => fileInfo'[i] = fileInfo[i]
              /\ OwnersOf(fileInfo[i].md5)' = OwnersOf(fileInfo[i].md5)
        /\ \A m : RowsOf(m)' = RowsOf(m)
        /\ OwnedFileStored' /\ ListsFinite /\ ListsFinite'
        /\ FirstOf(M) \in DOMAIN fileInfo /\ fileInfo[FirstOf(M)].md5 = M
    BY <1>1, <1>2, <1>3, <1>4, RefCountSet
  <1>6. RowsOf(M)' \cap stored' # {} /\ ~Owns(req.user, req.file)'
    BY <1>1, <1>2, <1>5, OwnersFrame DEF Placed, SavePCs, AddPCs, Owns, RowsOf
  <1>7. Placed'
    BY <1>1, <1>2, <1>5, <1>6
    DEF Placed, Md5PCs, AddPCs, SavePCs, NoOwnerPCs, OwnedPCs
  <1>8. ASSUME NEW i \in DOMAIN fileInfo
        PROVE  RefGap(i)' = RefGap(i) \/ RefGap(i)' = RefGap(FirstOf(M))
    <2>1. /\ Ahead(fileInfo[i].md5)' = IF fileInfo[i].md5 = M THEN 1 ELSE 0
          /\ Ahead(fileInfo[i].md5) = 0 /\ Ahead(M) = 0
      BY <1>1, <1>2, <1>5 DEF Ahead, RefPCs
    <2>2. Cardinality(OwnersOf(fileInfo[i].md5)) \in Nat
      BY <1>1, <1>5, GapTypes, NoOwnersCount DEF GapsTyped
    <2>3. CASE fileInfo[i].md5 = M
      BY <1>3, <1>5, <2>1, <2>2, <2>3 DEF RefGap, n
    <2>4. CASE fileInfo[i].md5 # M
      BY <1>5, <2>1, <2>2, <2>4 DEF RefGap
    <2>5. QED
      BY <2>3, <2>4
  <1>9. \A u \in User : UserGap(u)' = UserGap(u)
    BY <1>1, <1>2 DEF UserGap, Behind, CountOf, ListOf, OwnRowsOf, CountPCs
  <1>10. QED
    BY <1>5, <1>7, <1>8, <1>9 DEF GapsKept

LEMMA UploadCounts == ASSUME Typed, Typed', Placed, Upload PROVE Placed' /\ GapsKept
  <1>0. TypeOK
    BY DEF Typed
  <1>1. CASE UploadOwn
    <2>1. "up_count" \in PCs
      BY DEF PCs
    <2>2. Moves("up_count")
      BY <1>0, <1>1, <2>1, GotoMoves DEF UploadOwn
    <2>3. QED
      BY <1>1, <2>2, RowAdded DEF UploadOwn, At, dfs, aux
  <1>2. CASE UploadCount
    <2>1. Moves("reply")
      BY <1>0, <1>2, ReplyMoves DEF UploadCount
    <2>2. QED
      BY <1>2, <2>1, RowCounted DEF UploadCount, At, dfs, aux
  <1>3. QED
    BY <1>1, <1>2, UploadStoreCounts, UploadInfoCounts DEF Upload

LEMMA SaveCounts == ASSUME Typed, Typed', Placed, Save PROVE Placed' /\ GapsKept
  <1>0. TypeOK
    BY DEF Typed
  <1>1. CASE SaveOwn
    <2>1. "save_count" \in PCs
      BY DEF PCs
    <2>2. Moves("save_count")
      BY <1>0, <1>1, <2>1, GotoMoves DEF SaveOwn
    <2>3. QED
      BY <1>1, <2>2, RowAdded DEF SaveOwn, At, dfs, aux
  <1>2. CASE SaveCount
    <2>1. Moves("reply")
      BY <1>0, <1>2, DealshareReplyMoves DEF SaveCount
    <2>2. QED
      BY <1>2, <2>1, RowCounted DEF SaveCount, At, dfs, aux
  <1>3. CASE SaveCheck
    <2>1. /\ UNCHANGED <<fileInfo, own, userCount, stored, uploads, last>>
          /\ req.pc = "save_check" /\ last.op = NULL
      BY <1>3 DEF SaveCheck, mysql, dfs, aux, At, Placed
    <2>2. CASE Moves("reply")
      <3>1. Calm /\ req'.pc \in CalmPCs
        BY <2>1, <2>2, QuietIsCalm DEF Calm, CountOf, Moves, QuietPCs
      <3>2. QED
        BY <2>1, <3>1, CalmStep DEF RefPCs, CountPCs
    <2>3. CASE ~Owns(req.user, req.file) /\ Moves("save_ref")
      <3>1. /\ req'.pc = "save_ref" /\ req'.user = req.user /\ req'.file = req.file
            /\ M' = M
        BY <2>3 DEF Moves, M
      <3>2. RowsOf(M)' \cap stored' # {} /\ ~Owns(req.user, req.file)'
        BY <2>1, <2>3, <3>1 DEF RowsOf, Owns, Placed, SavePCs
      <3>3. OwnedFileStored' /\ ListsFinite' /\ ListsFinite
        BY <2>1, OwnersFrame DEF Placed, OwnedFileStored, RowsOf
      <3>4. Placed'
        BY <2>1, <3>1, <3>2, <3>3
        DEF Placed, Md5PCs, AddPCs, SavePCs, NoOwnerPCs, OwnedPCs
      <3>5. QED
        BY <2>1, <3>1, <3>3, <3>4, GapsSame DEF RefPCs, CountPCs
    <2>4. "save_ref" \in PCs
      BY DEF PCs
    <2>5. QED
      BY <1>0, <1>3, <2>2, <2>3, <2>4, GotoMoves, DealshareReplyMoves DEF SaveCheck
  <1>4. QED
    BY <1>1, <1>2, <1>3, SaveRefCounts DEF Save

LEMMA DeleteCalm ==
    ASSUME Typed, Typed', Placed,
           \/ DeleteCheck \/ DeleteShareRows \/ DeleteShareCount \/ DeleteZset
           \/ DeleteHash
    PROVE  Placed' /\ GapsKept
  <1>1. /\ UNCHANGED <<fileInfo, own, userCount, stored, uploads, last>>
        /\ req.pc \in OwnedPCs \ {"del_own"} /\ last.op = NULL /\ req \in Requests
    BY DEF DeleteCheck, DeleteShareRows, DeleteShareCount, DeleteZset, DeleteHash,
           mysql, dfs, aux, At, Placed, OwnedPCs, Typed, TypeOK
  <1>2. Calm
    BY <1>1 DEF Calm, CountOf
  <1>3. req.user \in User /\ req.file \in File /\ Owns(req.user, req.file)
    BY <1>1, Addressed DEF Placed, OwnedPCs, RankPCs
  <1>4. /\ req'.pc \in (OwnedPCs \ {"del_own"}) \cup {"reply"}
        /\ req'.user = req.user /\ req'.file = req.file
    BY <1>1, <1>3
    DEF DeleteCheck, DeleteShareRows, DeleteShareCount, DeleteZset, DeleteHash,
        IsShared, Goto, Reply, Requests, OwnedPCs
  <1>5. req.pc \notin RefPCs \cup CountPCs
    BY <1>1 DEF OwnedPCs, RefPCs, CountPCs
  <1>6. QED
    BY <1>1, <1>2, <1>4, <1>5, CalmStep, QuietIsCalm DEF QuietPCs

LEMMA DeleteUserCountCounts ==
    ASSUME Typed, Typed', Placed, DeleteUserCount PROVE Placed' /\ GapsKept
  <1>1. /\ req.user \in User /\ req.file \in File /\ M \in Md5 /\ DataTyped
        /\ UNCHANGED <<fileInfo, own, last, stored, uploads>>
        /\ req.pc = "del_user_count" /\ Owns(req.user, req.file) /\ last.op = NULL
    BY Addressed DEF DeleteUserCount, At, RankPCs, dfs, aux, Placed, OwnedPCs
  <1>2. CASE userCount[req.user] = NULL
    <2>1. Calm
      BY <1>1, <1>2 DEF DeleteUserCount, Calm, CountOf
    <2>2. req'.pc = "reply"
      BY <1>2 DEF DeleteUserCount, Reply, Typed, TypeOK, Requests
    <2>3. QED
      BY <1>1, <2>1, <2>2, CalmStep, QuietIsCalm DEF QuietPCs, RefPCs, CountPCs
  <1>3. CASE userCount[req.user] # NULL
    <2>1. /\ req'.pc = "del_own" /\ req'.user = req.user /\ req'.file = req.file
          /\ userCount' = [userCount EXCEPT ![req.user] = Lower(@)]
      BY <1>3 DEF DeleteUserCount, Goto, Typed, TypeOK, Requests
    <2>2. Owns(req.user, req.file)' /\ OwnedFileStored' /\ ListsFinite /\ ListsFinite'
      BY <1>1, <2>1, OwnersFrame DEF Placed, OwnedFileStored, RowsOf, Owns
    <2>3. Placed'
      BY <1>1, <2>1, <2>2 DEF Placed, Md5PCs, AddPCs, SavePCs, NoOwnerPCs, OwnedPCs
    <2>4. \A i \in DOMAIN fileInfo : RefGap(i)' = RefGap(i)
      BY <1>1, <2>1 DEF RefGap, Ahead, RefPCs, OwnersOf, OwnRowsOf
    <2>5. ASSUME NEW u \in User
          PROVE  UserGap(u)' = UserGap(u) \/ (UserGap(u) > 0 /\ UserGap(u)' >= 0)
      <3>1. /\ Cardinality(ListOf(u)) \in Nat /\ ListOf(u)' = ListOf(u)
            /\ u = req.user => Cardinality(ListOf(u)) > 0
        BY <1>1, <2>2, ListCounted DEF ListOf, OwnRowsOf
      <3>2. /\ CountOf(u) \in Nat
            /\ u # req.user => CountOf(u)' = CountOf(u)
            /\ u = req.user => CountOf(u)' = Lower(CountOf(u))
        BY <1>1, <1>3, <2>1, LowerTyped, ParametersAssumption DEF CountOf, DataTyped
      <3>3. Behind(u)' = (IF u = req.user THEN 1 ELSE 0) /\ Behind(u) = 0
        BY <1>1, <2>1 DEF Behind, CountPCs
      <3>4. CASE u = req.user
        <4>1. \/ Lower(CountOf(u)) = CountOf(u) - 1
              \/ CountOf(u) = 0 /\ Lower(CountOf(u)) = 0
          BY <3>2 DEF Lower
        <4>2. QED
          BY <3>1, <3>2, <3>3, <3>4, <4>1 DEF UserGap
      <3>5. CASE u # req.user
        BY <3>1, <3>2, <3>3, <3>5 DEF UserGap
      <3>6. QED
        BY <3>4, <3>5
    <2>6. QED
      BY <1>1, <2>3, <2>4, <2>5 DEF GapsKept
  <1>4. QED
    BY <1>2, <1>3

LEMMA DeleteOwnCounts ==
    ASSUME Typed, Typed', Placed, DeleteOwn PROVE Placed' /\ GapsKept
  <1>1. /\ req.user \in User /\ req.file \in File /\ M \in Md5 /\ DataTyped
        /\ UNCHANGED <<fileInfo, userCount, last, stored, uploads>>
        /\ req.pc = "del_own" /\ Owns(req.user, req.file)
    BY Addressed DEF DeleteOwn, At, RankPCs, dfs, aux, Placed, OwnedPCs
  <1>2. /\ req'.pc = "del_ref" /\ req'.user = req.user /\ req'.file = req.file
        /\ M' = M
    BY DEF DeleteOwn, Goto, Typed, TypeOK, Requests, M
  <1>3. ListsFinite /\ ListsFinite' /\ Grow(M, req.user, -1)
    BY <1>1, OwnerLeaves DEF M, Placed, DeleteOwn
  <1>4. /\ DOMAIN own'[<<req.user, req.file>>] = {}
        /\ \A x \in User \X File : x # <<req.user, req.file>> => own'[x] = own[x]
        /\ own'[<<req.user, req.file>>] = <<>>
    BY <1>1 DEF DeleteOwn, DataTyped
  <1>5. OwnedFileStored'
    <2>1. \A u \in User, f \in File : Owns(u, f)' => Owns(u, f)
      BY <1>4 DEF Owns
    <2>2. QED
      BY <1>1, <2>1 DEF Placed, OwnedFileStored, RowsOf
  <1>6. Placed'
    BY <1>1, <1>2, <1>3, <1>4, <1>5
    DEF Placed, Md5PCs, AddPCs, SavePCs, NoOwnerPCs, OwnedPCs
  <1>7. ASSUME NEW i \in DOMAIN fileInfo
        PROVE  RefGap(i)' = RefGap(i)
    <2>1. /\ fileInfo[i].md5 \in Md5 /\ fileInfo[i].count \in Nat
          /\ Cardinality(OwnersOf(fileInfo[i].md5)) \in Nat
      BY <1>1, <1>3, GapTypes, NoOwnersCount DEF GapsTyped
    <2>2. /\ Ahead(fileInfo[i].md5) = 0
          /\ Ahead(fileInfo[i].md5)' = IF fileInfo[i].md5 = M THEN 1 ELSE 0
      BY <1>1, <1>2 DEF Ahead, RefPCs
    <2>3. Cardinality(OwnersOf(fileInfo[i].md5))' =
             Cardinality(OwnersOf(fileInfo[i].md5)) + IF fileInfo[i].md5 = M THEN -1 ELSE 0
      BY <1>1, <1>3, <2>1 DEF Grow, OwnersOf, OwnRowsOf
    <2>4. QED
      BY <1>1, <2>1, <2>2, <2>3 DEF RefGap
  <1>8. ASSUME NEW u \in User
        PROVE  UserGap(u)' = UserGap(u)
    <2>1. Cardinality(ListOf(u)) \in Nat /\ CountOf(u) \in Nat /\ CountOf(u)' = CountOf(u)
      BY <1>1, <1>3, GapTypes, ListCounted DEF GapsTyped, CountOf
    <2>2. Behind(u) = (IF u = req.user THEN 1 ELSE 0) /\ Behind(u)' = 0
      BY <1>1, <1>2 DEF Behind, CountPCs
    <2>3. Cardinality(ListOf(u))' = Cardinality(ListOf(u)) + IF u = req.user THEN -1 ELSE 0
      BY <1>3 DEF Grow
    <2>4. QED
      BY <2>1, <2>2, <2>3 DEF UserGap
  <1>9. QED
    BY <1>1, <1>6, <1>7, <1>8 DEF GapsKept

\* A count that comes down to 0 has no owner left: it covered them, and one.
LEMMA DeleteRefCounts ==
    ASSUME Typed, Typed', Counting, DeleteRef PROVE Placed' /\ GapsKept
  <1>1. /\ req.user \in User /\ req.file \in File /\ M \in Md5 /\ DataTyped
        /\ UNCHANGED <<own, userCount, last, stored, uploads>>
        /\ req.pc = "del_ref" /\ Placed /\ ListsFinite /\ last.op = NULL
    BY Addressed DEF DeleteRef, At, RankPCs, dfs, aux, Counting, Placed
  <1>2. /\ req'.pc \in {"del_info", "reply"} /\ req'.user = req.user
        /\ req'.file = req.file /\ M' = M
    BY DEF DeleteRef, Goto, Reply, Typed, TypeOK, Requests, M
  <1>3. CASE RowsOf(M) = {}
    <2>1. UNCHANGED fileInfo /\ req'.pc = "reply"
      BY <1>3 DEF DeleteRef, Reply, Typed, TypeOK, Requests
    <2>2. OwnedFileStored' /\ ListsFinite'
      BY <1>1, <2>1, OwnersFrame DEF Placed, OwnedFileStored, RowsOf
    <2>3. Placed'
      BY <1>1, <2>1, <2>2 DEF Placed, Md5PCs, AddPCs, SavePCs, NoOwnerPCs, OwnedPCs
    <2>4. ASSUME NEW i \in DOMAIN fileInfo
          PROVE  RefGap(i)' = RefGap(i)
      <3>1. fileInfo[i].md5 # M
        BY <1>3, <2>4 DEF RowsOf
      <3>2. Ahead(fileInfo[i].md5) = 0 /\ Ahead(fileInfo[i].md5)' = 0
        BY <2>1, <3>1 DEF Ahead, RefPCs
      <3>3. QED
        BY <1>1, <2>1, <3>2 DEF RefGap, OwnersOf, OwnRowsOf
    <2>5. \A u \in User : UserGap(u)' = UserGap(u)
      BY <1>1, <2>1 DEF UserGap, Behind, CountOf, ListOf, OwnRowsOf, CountPCs
    <2>6. QED
      BY <2>1, <2>3, <2>4, <2>5 DEF GapsKept
  <1>4. CASE RowsOf(M) # {}
    <2> DEFINE n == fileInfo[FirstOf(M)].count
    <2>1. FirstOf(M) \in DOMAIN fileInfo /\ fileInfo[FirstOf(M)].md5 = M /\ n \in Nat
      BY <1>1, <1>4, FirstOfIsRow, FirstCount DEF DataTyped, RowsOf
    <2>2. Cardinality(OwnersOf(M)) \in Nat /\ n >= Cardinality(OwnersOf(M)) + 1
      <3>1. RefGap(FirstOf(M)) >= 0 /\ Ahead(M) = 1
        BY <1>1, <2>1 DEF Counting, RefsCover, Ahead, RefPCs
      <3>2. QED
        BY <1>1, <2>1, <3>1, NoOwnersCount DEF RefGap
    <2>3. /\ SetRefCount(M, n - 1) /\ n - 1 \in Nat
          /\ req'.pc = "del_info" => n - 1 = 0
      <3>1. n > 0 /\ n - 1 \in Nat /\ Lower(n) = n - 1
        BY <2>1, <2>2 DEF Lower
      <3>2. SetRefCount(M, Lower(n))
        BY <1>4, <3>1 DEF DeleteRef
      <3>3. IF Unreferenced(Lower(n)) THEN Goto("del_info") ELSE Reply(OK)
        BY <1>4 DEF DeleteRef
      <3>4. req'.pc = "del_info" => Unreferenced(Lower(n))
        BY <3>3 DEF Goto, Reply, Typed, TypeOK, Requests
      <3>5. QED
        BY <3>1, <3>2, <3>4 DEF Unreferenced
    <2> HIDE DEF n
    <2>4. /\ DOMAIN fileInfo' = DOMAIN fileInfo
          /\ \A i \in DOMAIN fileInfo :
                /\ fileInfo'[i].md5 = fileInfo[i].md5
                /\ fileInfo[i].md5 = M => fileInfo'[i].count = n - 1
                /\ fileInfo[i].md5 # M => fileInfo'[i] = fileInfo[i]
                /\ OwnersOf(fileInfo[i].md5)' = OwnersOf(fileInfo[i].md5)
          /\ OwnedFileStored' /\ ListsFinite'
      BY <1>1, <1>2, <1>4, <2>3, RefCountSet
    <2>5. req'.pc = "del_info" => NoOwners(M)'
      <3>1. ASSUME req'.pc = "del_info"
            PROVE  NoOwners(M)
        BY <1>1, <2>1, <2>2, <2>3, <3>1, NoOwnersCount
      <3>2. QED
        BY <1>1, <1>2, <3>1, OwnersFrame DEF NoOwners
    <2>6. Placed'
      BY <1>1, <1>2, <2>4, <2>5
      DEF Placed, Md5PCs, AddPCs, SavePCs, NoOwnerPCs, OwnedPCs
    <2>7. ASSUME NEW i \in DOMAIN fileInfo
          PROVE  RefGap(i)' = RefGap(i) \/ RefGap(i)' = RefGap(FirstOf(M))
      <3>1. /\ Ahead(fileInfo[i].md5) = IF fileInfo[i].md5 = M THEN 1 ELSE 0
            /\ Ahead(fileInfo[i].md5)' = 0 /\ Ahead(M) = 1
        BY <1>1, <1>2, <2>4 DEF Ahead, RefPCs
      <3>2. CASE fileInfo[i].md5 = M
        BY <2>1, <2>2, <2>4, <3>1, <3>2 DEF RefGap, n
      <3>3. CASE fileInfo[i].md5 # M
        BY <2>4, <3>1, <3>3 DEF RefGap
      <3>4. QED
        BY <3>2, <3>3
    <2>8. \A u \in User : UserGap(u)' = UserGap(u)
      BY <1>1, <1>2 DEF UserGap, Behind, CountOf, ListOf, OwnRowsOf, CountPCs
    <2>9. QED
      BY <2>1, <2>4, <2>6, <2>7, <2>8 DEF GapsKept
  <1>5. QED
    BY <1>3, <1>4

LEMMA DeleteInfoCounts ==
    ASSUME Typed, Typed', Placed, DeleteInfo PROVE Placed' /\ GapsKept
  <1>1. /\ req.user \in User /\ req.file \in File /\ M \in Md5 /\ DataTyped
        /\ UNCHANGED <<own, userCount, last, stored, uploads>>
        /\ req.pc = "del_info" /\ RowsOf(M) # {} /\ NoOwners(M)
    BY Addressed
    DEF DeleteInfo, At, RankPCs, dfs, Placed, NoOwnerPCs, Typed, Control
  <1>2. FirstOf(M) \in DOMAIN fileInfo /\ fileInfo[FirstOf(M)].md5 = M
    BY <1>1, FirstOfIsRow DEF DataTyped, RowsOf
  <1>3. /\ req'.pc = "del_store" /\ req'.user = req.user /\ req'.file = req.file
        /\ req'.fid = FirstOf(M) /\ M' = M
    BY DEF DeleteInfo, Typed, TypeOK, Requests, M
  <1>4. /\ DOMAIN fileInfo' \subseteq DOMAIN fileInfo
        /\ \A i \in DOMAIN fileInfo' : fileInfo'[i] = fileInfo[i]
        /\ \A m : m # M => RowsOf(m)' = RowsOf(m)
    BY DEF DeleteInfo, RowsOf
  <1>5. OwnedFileStored'
    <2> SUFFICES ASSUME NEW u \in User, NEW f \in File, Owns(u, f)'
                 PROVE  RowsOf(Md5Of[f])' \cap stored' # {}
      BY DEF OwnedFileStored
    <2>1. Owns(u, f) /\ Md5Of[f] # M
      BY <1>1 DEF Owns, NoOwners
    <2>2. QED
      BY <1>1, <1>4, <2>1 DEF Placed, OwnedFileStored
  <1>6. NoOwners(M)' /\ ListsFinite /\ ListsFinite'
    BY <1>1, <1>3, OwnersFrame DEF NoOwners, Placed
  <1>7. Placed'
    BY <1>1, <1>2, <1>3, <1>4, <1>5, <1>6
    DEF Placed, Md5PCs, AddPCs, SavePCs, NoOwnerPCs, OwnedPCs
  <1>8. ASSUME NEW i \in DOMAIN fileInfo'
        PROVE  RefGap(i)' = RefGap(i)
    <2>1. Ahead(fileInfo[i].md5) = 0 /\ Ahead(fileInfo[i].md5)' = 0
      BY <1>1, <1>3 DEF Ahead, RefPCs
    <2>2. fileInfo'[i] = fileInfo[i]
      BY <1>4
    <2>3. OwnersOf(fileInfo[i].md5)' = OwnersOf(fileInfo[i].md5)
      BY <1>1, <2>2 DEF OwnersOf, OwnRowsOf
    <2>4. QED
      BY <2>1, <2>2, <2>3 DEF RefGap
  <1>9. \A u \in User : UserGap(u)' = UserGap(u)
    BY <1>1, <1>3 DEF UserGap, Behind, CountOf, ListOf, OwnRowsOf, CountPCs
  <1>10. QED
    BY <1>4, <1>7, <1>8, <1>9 DEF GapsKept

LEMMA DeleteStoreCounts ==
    ASSUME Typed, Typed', Placed, DeleteStore PROVE Placed' /\ GapsKept
  <1>1. /\ req.user \in User /\ req.file \in File /\ M \in Md5 /\ DataTyped
        /\ UNCHANGED <<fileInfo, own, userCount, last, uploads>>
        /\ req.pc = "del_store" /\ NoOwners(M) /\ stored' = stored \ {req.fid}
        /\ req.fid \in DOMAIN fileInfo => fileInfo[req.fid].md5 = M
    BY Addressed
    DEF DeleteStore, At, RankPCs, mysql, aux, Placed, NoOwnerPCs
  <1>2. req'.pc = "reply"
    BY DEF DeleteStore, Reply, Typed, TypeOK, Requests
  <1>3. OwnedFileStored'
    <2> SUFFICES ASSUME NEW u \in User, NEW f \in File, Owns(u, f)'
                 PROVE  RowsOf(Md5Of[f])' \cap stored' # {}
      BY DEF OwnedFileStored
    <2>1. Owns(u, f) /\ Md5Of[f] # M
      BY <1>1 DEF Owns, NoOwners
    <2>2. RowsOf(Md5Of[f]) \cap stored # {} /\ req.fid \notin RowsOf(Md5Of[f])
      BY <1>1, <2>1 DEF Placed, OwnedFileStored, RowsOf
    <2>3. QED
      BY <1>1, <2>2 DEF RowsOf
  <1>4. ListsFinite /\ ListsFinite'
    BY <1>1, OwnersFrame DEF Placed
  <1>5. Placed'
    BY <1>1, <1>2, <1>3, <1>4
    DEF Placed, Md5PCs, AddPCs, SavePCs, NoOwnerPCs, OwnedPCs
  <1>6. QED
    BY <1>1, <1>2, <1>4, <1>5, GapsSame DEF RefPCs, CountPCs

LEMMA DeleteCounts == ASSUME Typed, Typed', Counting, Delete PROVE Placed' /\ GapsKept
  BY DeleteCalm, DeleteUserCountCounts, DeleteOwnCounts, DeleteRefCounts,
     DeleteInfoCounts, DeleteStoreCounts DEF Delete, Counting

\* No handler of /api/md5 runs for careful clients.
LEMMA NoInstantUpload == ASSUME Placed, InstantUpload PROVE FALSE
  BY DEF Placed, InstantUpload, Md5Check, Md5Ref, Md5Own, Md5Count, Md5Restore,
         At, Md5PCs

\* A request for an upload finds no row of the digest, a save finds a row.
LEMMA RequestCounts ==
    ASSUME CarefulClients, Typed, Typed', Sharing, Placed,
           NEW op \in Ops, NEW u \in User, NEW f \in File, Request(op, u, f)
    PROVE  Placed' /\ GapsKept
  <1>1. /\ UNCHANGED <<fileInfo, own, userCount, stored, uploads>>
        /\ req.pc = "idle" /\ last' = Idle /\ op # "rank" /\ op # "md5"
        /\ op \in AllOps
    BY ParametersAssumption
    DEF Request, Dispatch, At, mysql, dfs, CarefulClients
  <1>2. /\ req'.op = op /\ req'.user = u /\ req'.file = f /\ req'.pc = FirstStep[op]
        /\ M' = Md5Of[f] /\ last'.op = NULL
    BY <1>1 DEF Request, Dispatch, Idle, M
  <1>3. OwnedFileStored' /\ ListsFinite /\ ListsFinite'
    BY <1>1, OwnersFrame DEF Placed, OwnedFileStored, RowsOf
  <1>4. /\ FirstStep[op] = "up_store" => op = "upload"
        /\ FirstStep[op] = "save_check" => op = "save"
        /\ FirstStep[op] = "del_check" => op = "del"
        /\ FirstStep[op] \notin Md5PCs \cup RefPCs \cup CountPCs
        /\ FirstStep[op] \in AddPCs \cup NoOwnerPCs => FirstStep[op] = "up_store"
        /\ FirstStep[op] \in SavePCs => FirstStep[op] = "save_check"
        /\ FirstStep[op] \in OwnedPCs => FirstStep[op] = "del_check"
    BY <1>1
    DEF AllOps, FirstStep, Md5PCs, RefPCs, CountPCs, AddPCs, NoOwnerPCs, SavePCs,
        OwnedPCs
  <1>5. op = "upload" => /\ RowsOf(M)' = {} /\ NoOwners(M)'
                         /\ ~Owns(req.user, req.file)'
    <2> SUFFICES ASSUME op = "upload"
                 PROVE  /\ RowsOf(M)' = {} /\ NoOwners(M)'
                        /\ ~Owns(req.user, req.file)'
      OBVIOUS
    <2>1. RowsOf(Md5Of[f]) = {}
      BY DEF Request, Offered, CarefulClients
    <2>2. NoOwners(Md5Of[f])
      BY <2>1 DEF NoOwners, Placed, OwnedFileStored
    <2>3. RowsOf(M)' = {}
      BY <1>1, <1>2, <2>1 DEF RowsOf
    <2>4. NoOwners(M)' /\ ~Owns(req.user, req.file)'
      BY <1>1, <1>2, <2>2 DEF NoOwners, Owns
    <2>5. QED
      BY <2>3, <2>4
  <1>6. op = "save" => RowsOf(M)' \cap stored' # {}
    <2> SUFFICES ASSUME op = "save"
                 PROVE  RowsOf(M)' \cap stored' # {}
      OBVIOUS
    <2>1. PICK v \in User : shares[<<v, f>>] # <<>>
      BY DEF Request, Offered, HasShare
    <2>2. RowsOf(Md5Of[f]) \cap stored # {}
      BY <2>1 DEF Sharing, SharedFileOwned, Placed, OwnedFileStored
    <2>3. QED
      BY <1>1, <1>2, <2>2 DEF RowsOf
  <1>7. op = "del" => Owns(req.user, req.file)'
    BY <1>1, <1>2 DEF Request, Offered, Owns
  <1>8. \A x \in User \X File : DOMAIN own'[x] \subseteq {1}
    BY <1>1 DEF Placed
  <1>9. DOMAIN fileInfo' \subseteq 1..uploads'
    BY <1>1 DEF Placed
  <1>10. /\ FirstStep[op] \notin {"up_info", "up_own", "del_store"}
    BY <1>4 DEF NoOwnerPCs, AddPCs
  <1>11. Placed'
    BY <1>2, <1>3, <1>4, <1>5, <1>6, <1>7, <1>8, <1>9, <1>10 DEF Placed
  <1>12. QED
    BY <1>1, <1>2, <1>3, <1>4, <1>11, GapsSame DEF RefPCs, CountPCs

LEMMA OtherCounts ==
    ASSUME CarefulClients, Typed, Typed', Placed,
           RequestRanking \/ RepeatRequest \/ Respond \/ Crash \/ RedisLoss
    PROVE  Placed' /\ GapsWiden /\ (Crash \/ GapsKept)
  <1>1. Idle.op = NULL /\ Idle.pc = "idle" /\ last.op = NULL
    BY DEF Idle, Placed
  <1>2. ~RepeatRequest
    BY <1>1 DEF RepeatRequest
  <1>3. /\ UNCHANGED <<fileInfo, own, userCount, stored, uploads>>
        /\ last'.op = NULL /\ req'.pc \in QuietPCs
    BY <1>1, <1>2
    DEF RequestRanking, Respond, Crash, RedisLoss, CarefulClients, mysql, dfs,
        Idle, FirstStep, QuietPCs, RankPCs, At
  <1>4. Calm /\ req'.pc \in CalmPCs
    BY <1>3, QuietIsCalm DEF Calm, CountOf
  <1>5. Crash \/ req.pc \notin RefPCs \cup CountPCs
    BY <1>2 DEF RequestRanking, Respond, RedisLoss, At, RefPCs, CountPCs
  <1>6. QED
    BY <1>4, <1>5, CalmStep

LEMMA FaultCounts ==
    ASSUME Typed, Typed', Placed, SqlFails \/ QueryFails \/ RedisFails \/ DfsFails
    PROVE  Placed' /\ GapsWiden /\ (SqlFails \/ GapsKept)
  <1>1. /\ UNCHANGED <<fileInfo, own, userCount, stored, uploads, last>>
        /\ last.op = NULL /\ req.pc \notin Md5PCs /\ req \in Requests
    BY DEF SqlFails, QueryFails, RedisFails, DfsFails, mysql, dfs, Placed, Typed,
           TypeOK
  <1>2. Calm
    BY <1>1 DEF Calm, CountOf
  <1>3. \/ req'.pc \in CalmPCs
        \/ /\ req.pc \in OwnedPCs /\ req'.pc \in OwnedPCs \ {"del_own"}
           /\ req'.user = req.user /\ req'.file = req.file
    <2>1. CASE SqlFails \/ QueryFails \/ DfsFails
      <3>1. req'.pc \in {"reply", "share_flag"}
        BY <1>1, <2>1
        DEF SqlFails, QueryFails, DfsFails, At, Md5PCs, Reply, DealshareReply,
            Goto, Requests
      <3>2. QED
        BY <3>1, QuietIsCalm DEF QuietPCs, SharePCs
    <2>2. CASE RedisFails
      <3>1. CASE At("del_zset") \/ At("del_hash")
        BY <1>1, <2>2, <3>1 DEF RedisFails, At, Goto, Requests, OwnedPCs
      <3>2. CASE req.pc \notin {"del_zset", "del_hash"}
        <4>1. req'.pc \in QuietPCs
          BY <1>1, <2>2, <3>2
          DEF RedisFails, At, Goto, Reply, DealshareReply, Requests, QuietPCs,
              SharePCs, RankPCs
        <4>2. QED
          BY <4>1, QuietIsCalm
      <3>3. QED
        BY <3>1, <3>2 DEF At
    <2>3. QED
      BY <2>1, <2>2
  <1>4. SqlFails \/ req.pc \notin RefPCs \cup CountPCs
    BY DEF QueryFails, RedisFails, DfsFails, At, RefPCs, CountPCs
  <1>5. QED
    BY <1>2, <1>3, <1>4, CalmStep

LEMMA StutterCounts ==
    ASSUME Typed, Typed', Placed, UNCHANGED vars PROVE Placed' /\ GapsKept
  <1>1. UNCHANGED <<fileInfo, own, userCount, stored, uploads, req, last>>
    BY DEF vars, mysql, dfs, aux
  <1>2. Placed'
    BY <1>1, OwnersFrame
    DEF Placed, OwnedFileStored, RowsOf, M, NoOwners, Owns
  <1>3. /\ \A i \in DOMAIN fileInfo' : i \in DOMAIN fileInfo /\ RefGap(i)' = RefGap(i)
        /\ \A u \in User : UserGap(u)' = UserGap(u)
    BY <1>1 DEF RefGap, Ahead, OwnersOf, OwnRowsOf, UserGap, Behind, CountOf,
                ListOf, M
  <1>4. QED
    BY <1>2, <1>3 DEF GapsKept

\* A statement that is executed keeps the gaps; one that is not widens them.
LEMMA CountsStep ==
    ASSUME CarefulClients, Typed, Typed', Sharing, Counting, [Next]_vars
    PROVE  Placed' /\ (GapsKept \/ (GapsWiden /\ (Crash \/ SqlFails)))
  <1>1. Placed
    BY DEF Counting
  <1>2. CASE Handle
    BY <1>1, <1>2, NoInstantUpload, UploadCounts, SaveCounts, DeleteCounts,
       CalmHandlers DEF Handle
  <1>3. CASE ~Handle
    BY <1>1, <1>3, RequestCounts, OtherCounts, FaultCounts, StutterCounts DEF Next
  <1>4. QED
    BY <1>2, <1>3

LEMMA CountingStep ==
    ASSUME CarefulClients, Typed, Typed', Sharing, Counting, [Next]_vars
    PROVE  Counting'
  <1>1. ListsFinite /\ ListsFinite'
    BY CountsStep DEF Counting, Placed
  <1>2. /\ \A i \in DOMAIN fileInfo : RefGap(i) \in Int /\ RefGap(i) >= 0
        /\ \A u \in User : UserGap(u) \in Int /\ UserGap(u) >= 0
    BY <1>1, GapTypes DEF GapsTyped, Counting, RefsCover, UsersBelow
  <1>3. /\ \A i \in DOMAIN fileInfo' : RefGap(i)' \in Int
        /\ \A u \in User : UserGap(u)' \in Int
    <2>1. Typed' /\ ListsFinite' => GapsTyped'
      BY GapTypes, PTL
    <2>2. QED
      BY <1>1, <2>1 DEF GapsTyped
  <1>4. CASE GapsKept
    BY <1>2, <1>3, <1>4, CountsStep DEF GapsKept, Counting, RefsCover, UsersBelow
  <1>5. CASE GapsWiden
    BY <1>2, <1>3, <1>5, CountsStep DEF GapsWiden, Counting, RefsCover, UsersBelow
  <1>6. QED
    BY <1>4, <1>5, CountsStep

LEMMA EvenStep ==
    ASSUME CarefulClients, Faults \cap {"crash", "sql"} = {}, Typed, Typed', Sharing,
           Counting, Even, [Next]_vars
    PROVE  Even'
  <1>1. GapsKept
    BY CountsStep DEF Crash, SqlFails, Fault
  <1>2. \A u \in User : UserGap(u) \in Int
    BY GapTypes DEF GapsTyped, Counting, Placed
  <1>3. QED
    BY <1>1, <1>2 DEF Even, GapsKept

LEMMA CountsInit == Init => Counting /\ Even
  <1> SUFFICES ASSUME Init PROVE Counting /\ Even
    OBVIOUS
  <1>1. /\ DOMAIN fileInfo = {} /\ req = Idle /\ last = Idle
        /\ \A x \in User \X File : own[x] = <<>> /\ DOMAIN own[x] = {}
        /\ \A u \in User : userCount[u] = NULL
    BY DEF Init
  <1>2. \A S \in SUBSET (User \X File) : OwnRowsOf(S) = {}
    BY <1>1 DEF OwnRowsOf
  <1>3. (\A m : OwnersOf(m) = {}) /\ \A u \in User : ListOf(u) = {}
    BY <1>2 DEF OwnersOf, ListOf
  <1>4. ListsFinite
    BY <1>3, FS_EmptySet DEF ListsFinite
  <1>5. req.pc = "idle" /\ last.op = NULL
    BY <1>1 DEF Idle
  <1>6. Placed
    BY <1>1, <1>4, <1>5
    DEF Placed, OwnedFileStored, Owns, Md5PCs, AddPCs, SavePCs, NoOwnerPCs, OwnedPCs
  <1>7. \A u \in User : UserGap(u) = 0
    <2>1. ASSUME NEW u \in User
          PROVE  Cardinality(ListOf(u)) = 0 /\ CountOf(u) = 0 /\ Behind(u) = 0
      BY <1>1, <1>3, <1>5, FS_EmptySet DEF CountOf, Behind, CountPCs
    <2>2. QED
      BY <2>1 DEF UserGap
  <1>8. QED
    BY <1>1, <1>6, <1>7 DEF Counting, RefsCover, UsersBelow, Even

\* For careful clients a file in somebody's list is held, whatever statement is
\* the last to be executed and whatever call fails.
THEOREM OwnersKeepFile == ASSUME CarefulClients PROVE Spec => []OwnedFileStored
  <1>1. Init => Typed /\ Sharing /\ Counting
    BY TypedInit, SharingInit, CountsInit
  <1>2. Typed /\ Sharing /\ Counting /\ [Next]_vars => (Typed /\ Sharing /\ Counting)'
    BY TypedStep, SharingStep, CountingStep
  <1>3. Counting => OwnedFileStored
    BY DEF Counting, Placed
  <1>4. QED
    BY <1>1, <1>2, <1>3, PTL DEF Spec

\* For careful clients the reference count of a digest covers its owners.
THEOREM RefCountsCover == ASSUME CarefulClients PROVE Spec => []RefCountCoversOwners
  <1>1. Init => Typed /\ Sharing /\ Counting
    BY TypedInit, SharingInit, CountsInit
  <1>2. Typed /\ Sharing /\ Counting /\ [Next]_vars => (Typed /\ Sharing /\ Counting)'
    BY TypedStep, SharingStep, CountingStep
  <1>3. Typed /\ Counting => RefCountCoversOwners
    <2> SUFFICES ASSUME Typed, Counting, NEW i \in DOMAIN fileInfo
                 PROVE  fileInfo[i].count >= Cardinality(OwnersOf(fileInfo[i].md5))
      BY DEF RefCountCoversOwners
    <2>1. RefGap(i) >= 0 /\ fileInfo[i].count \in Nat /\ fileInfo[i].md5 \in Md5
      BY GapTypes DEF GapsTyped, Counting, Placed, RefsCover
    <2>2. Cardinality(OwnersOf(fileInfo[i].md5)) \in Nat
      BY <2>1, TypeParts, NoOwnersCount DEF Counting, Placed, Typed
    <2>3. Ahead(fileInfo[i].md5) \in {0, 1}
      BY DEF Ahead
    <2>4. QED
      BY <2>1, <2>2, <2>3 DEF RefGap
  <1>4. QED
    BY <1>1, <1>2, <1>3, PTL DEF Spec

\* For careful clients user_file_count never claims more than the list holds.
THEOREM UserCountsBelow == ASSUME CarefulClients PROVE Spec => []UserCountNeverAbove
  <1>1. Init => Typed /\ Sharing /\ Counting
    BY TypedInit, SharingInit, CountsInit
  <1>2. Typed /\ Sharing /\ Counting /\ [Next]_vars => (Typed /\ Sharing /\ Counting)'
    BY TypedStep, SharingStep, CountingStep
  <1>3. Typed /\ Counting => UserCountNeverAbove
    <2> SUFFICES ASSUME Typed, Counting, NEW u \in User, userCount[u] # NULL
                 PROVE  userCount[u] <= Cardinality(ListOf(u))
      BY DEF UserCountNeverAbove
    <2>1. UserGap(u) >= 0 /\ CountOf(u) \in Nat /\ CountOf(u) = userCount[u]
      BY GapTypes DEF GapsTyped, Counting, Placed, UsersBelow, CountOf
    <2>2. Cardinality(ListOf(u)) \in Nat
      BY TypeParts, ListCounted DEF Counting, Placed, Typed
    <2>3. Behind(u) \in {0, 1}
      BY DEF Behind
    <2>4. QED
      BY <2>1, <2>2, <2>3 DEF UserGap
  <1>4. QED
    BY <1>1, <1>2, <1>3, PTL DEF Spec

\* Careful clients and a server that neither dies nor fails to write: between
\* requests both counts are exact, whatever Redis, FastDFS and reads do.
THEOREM CountsAreExact ==
    ASSUME CarefulClients, Faults \cap {"crash", "sql"} = {}
    PROVE  Spec => []CountsExact
  <1>1. Init => Typed /\ Sharing /\ Counting /\ Even
    BY TypedInit, SharingInit, CountsInit
  <1>2. Typed /\ Sharing /\ Counting /\ Even /\ [Next]_vars
          => (Typed /\ Sharing /\ Counting /\ Even)'
    BY TypedStep, SharingStep, CountingStep, EvenStep
  <1>3. Typed /\ Counting /\ Even => CountsExact
    <2> SUFFICES ASSUME Typed, Counting, Even, At("idle") PROVE CountsExact
      BY DEF CountsExact
    <2>1. ASSUME NEW i \in DOMAIN fileInfo
          PROVE  fileInfo[i].count = Cardinality(OwnersOf(fileInfo[i].md5))
      <3>1. RefGap(i) = 0 /\ fileInfo[i].count \in Nat /\ fileInfo[i].md5 \in Md5
        BY GapTypes DEF GapsTyped, Counting, Placed, Even
      <3>2. Cardinality(OwnersOf(fileInfo[i].md5)) \in Nat
        BY <3>1, TypeParts, NoOwnersCount DEF Counting, Placed, Typed
      <3>3. Ahead(fileInfo[i].md5) = 0
        BY DEF Ahead, At, RefPCs
      <3>4. QED
        BY <3>1, <3>2, <3>3 DEF RefGap
    <2>2. ASSUME NEW u \in User
          PROVE  Cardinality(ListOf(u)) = CountOf(u)
      <3>1. UserGap(u) = 0 /\ CountOf(u) \in Nat
        BY GapTypes DEF GapsTyped, Counting, Placed, Even
      <3>2. Cardinality(ListOf(u)) \in Nat
        BY TypeParts, ListCounted DEF Counting, Placed, Typed
      <3>3. Behind(u) = 0
        BY DEF Behind, At, CountPCs
      <3>4. QED
        BY <3>1, <3>2, <3>3 DEF UserGap
    <2>3. QED
      BY <2>1, <2>2 DEF CountsExact, CountOf
  <1>4. QED
    BY <1>1, <1>2, <1>3, PTL DEF Spec

-----------------------------------------------------------------------------
(* Which statements write what, and which go where.                           *)

LEMMA SharesWriters ==
    [Next]_vars => \/ UNCHANGED shares \/ DeleteShareRows \/ CancelRows
                   \/ SharePvUpdate \/ ShareInsert
  <1>1. Upload \/ InstantUpload \/ Save \/ List \/ CountOwnDownload
          => UNCHANGED shares
    BY DEF Upload, UploadStore, UploadInfo, UploadOwn, UploadCount, InstantUpload,
           Md5Check, Md5Ref, Md5Own, Md5Count, Md5Restore, Save, SaveCheck, SaveRef,
           SaveOwn, SaveCount, List, ListCount, ListRows, CountOwnDownload, mysql
  <1>2. Delete \/ Share => UNCHANGED shares \/ DeleteShareRows \/ ShareInsert
    BY DEF Delete, DeleteCheck, DeleteShareCount, DeleteZset, DeleteHash,
           DeleteUserCount, DeleteOwn, DeleteRef, DeleteInfo, DeleteStore, Share,
           ShareCheck, ShareHealZset, ShareHealHash, ShareFlag, ShareCount,
           ShareZset, ShareHash, mysql
  <1>3. Cancel \/ SharePv \/ Ranking
          => UNCHANGED shares \/ CancelRows \/ SharePvUpdate
    BY DEF Cancel, CancelFlag, CancelCount, CancelZset, CancelHash, SharePv,
           SharePvZset, SharePvHash, Ranking, RankCount, RankCompare,
           RankClearZset, RankClearHash, RankLoad, RankImportZset,
           RankImportHash, RankList, mysql
  <1>4. ~Handle /\ [Next]_vars => UNCHANGED shares
    BY DEF Next, vars, Request, Dispatch, RequestRanking, RepeatRequest, Respond,
           SqlFails, QueryFails, RedisFails, DfsFails, Crash, RedisLoss, mysql
  <1>5. QED
    BY <1>1, <1>2, <1>3, <1>4 DEF Handle

LEMMA OwnWriters ==
    [Next]_vars => \/ UNCHANGED own \/ UploadOwn \/ Md5Own \/ SaveOwn \/ DeleteOwn
                   \/ ShareFlag \/ CancelFlag \/ CountOwnDownload
  <1>1. Upload \/ InstantUpload \/ Save \/ List
          => UNCHANGED own \/ UploadOwn \/ Md5Own \/ SaveOwn
    BY DEF Upload, UploadStore, UploadInfo, UploadCount, InstantUpload, Md5Check,
           Md5Ref, Md5Count, Md5Restore, Save, SaveCheck, SaveRef, SaveCount, List,
           ListCount, ListRows, mysql
  <1>2. Delete \/ Share => UNCHANGED own \/ DeleteOwn \/ ShareFlag
    BY DEF Delete, DeleteCheck, DeleteShareRows, DeleteShareCount, DeleteZset,
           DeleteHash, DeleteUserCount, DeleteRef, DeleteInfo, DeleteStore, Share,
           ShareCheck, ShareHealZset, ShareHealHash, ShareInsert, ShareCount,
           ShareZset, ShareHash, mysql
  <1>3. Cancel \/ SharePv \/ Ranking => UNCHANGED own \/ CancelFlag
    BY DEF Cancel, CancelCount, CancelRows, CancelZset, CancelHash, SharePv,
           SharePvUpdate, SharePvZset, SharePvHash, Ranking, RankCount,
           RankCompare, RankClearZset, RankClearHash, RankLoad, RankImportZset,
           RankImportHash, RankList, mysql
  <1>4. ~Handle /\ [Next]_vars => UNCHANGED own
    BY DEF Next, vars, Request, Dispatch, RequestRanking, RepeatRequest, Respond,
           SqlFails, QueryFails, RedisFails, DfsFails, Crash, RedisLoss, mysql
  <1>5. QED
    BY <1>1, <1>2, <1>3, <1>4 DEF Handle

LEMMA ShareCountWriters ==
    [Next]_vars => \/ UNCHANGED shareCount \/ ShareCount \/ DeleteShareCount
                   \/ CancelCount \/ RankCount
  <1>1. Upload \/ InstantUpload \/ Save \/ List \/ CountOwnDownload
          => UNCHANGED shareCount
    BY DEF Upload, UploadStore, UploadInfo, UploadOwn, UploadCount, InstantUpload,
           Md5Check, Md5Ref, Md5Own, Md5Count, Md5Restore, Save, SaveCheck, SaveRef,
           SaveOwn, SaveCount, List, ListCount, ListRows, CountOwnDownload, mysql
  <1>2. Delete \/ Share => UNCHANGED shareCount \/ DeleteShareCount \/ ShareCount
    BY DEF Delete, DeleteCheck, DeleteShareRows, DeleteZset, DeleteHash,
           DeleteUserCount, DeleteOwn, DeleteRef, DeleteInfo, DeleteStore, Share,
           ShareCheck, ShareHealZset, ShareHealHash, ShareFlag, ShareInsert,
           ShareZset, ShareHash, mysql
  <1>3. Cancel \/ SharePv \/ Ranking
          => UNCHANGED shareCount \/ CancelCount \/ RankCount
    BY DEF Cancel, CancelFlag, CancelRows, CancelZset, CancelHash, SharePv,
           SharePvUpdate, SharePvZset, SharePvHash, Ranking, RankCompare,
           RankClearZset, RankClearHash, RankLoad, RankImportZset,
           RankImportHash, RankList, mysql
  <1>4. ~Handle /\ [Next]_vars => UNCHANGED shareCount
    BY DEF Next, vars, Request, Dispatch, RequestRanking, RepeatRequest, Respond,
           SqlFails, QueryFails, RedisFails, DfsFails, Crash, RedisLoss, mysql
  <1>5. QED
    BY <1>1, <1>2, <1>3, <1>4 DEF Handle

\* The statements of Redis.
CacheWriters ==
    \/ ShareHealZset \/ ShareHealHash \/ ShareZset \/ ShareHash
    \/ DeleteZset \/ DeleteHash \/ CancelZset \/ CancelHash
    \/ SharePvZset \/ SharePvHash \/ RankClearZset \/ RankClearHash
    \/ RankImportZset \/ RankImportHash \/ RedisLoss

LEMMA RedisWriters == [Next]_vars => UNCHANGED <<zset, hash>> \/ CacheWriters
  <1>1. Upload \/ InstantUpload \/ Save \/ List \/ CountOwnDownload
          => UNCHANGED <<zset, hash>>
    BY DEF Upload, UploadStore, UploadInfo, UploadOwn, UploadCount, InstantUpload,
           Md5Check, Md5Ref, Md5Own, Md5Count, Md5Restore, Save, SaveCheck, SaveRef,
           SaveOwn, SaveCount, List, ListCount, ListRows, CountOwnDownload, redis
  <1>2. Delete \/ Share => UNCHANGED <<zset, hash>> \/ CacheWriters
    BY DEF Delete, DeleteCheck, DeleteShareRows, DeleteShareCount,
           DeleteUserCount, DeleteOwn, DeleteRef, DeleteInfo, DeleteStore, Share,
           ShareCheck, ShareFlag, ShareInsert, ShareCount, CacheWriters, redis
  <1>3. Cancel \/ SharePv \/ Ranking => UNCHANGED <<zset, hash>> \/ CacheWriters
    BY DEF Cancel, CancelFlag, CancelCount, CancelRows, SharePv, SharePvUpdate,
           Ranking, RankCount, RankCompare, RankLoad, RankList, CacheWriters, redis
  <1>4. ~Handle /\ [Next]_vars => UNCHANGED <<zset, hash>> \/ CacheWriters
    BY DEF Next, vars, Request, Dispatch, RequestRanking, RepeatRequest, Respond,
           SqlFails, QueryFails, RedisFails, DfsFails, Crash, CacheWriters, redis
  <1>5. QED
    BY <1>1, <1>2, <1>3, <1>4 DEF Handle

SharePvPCs == {"sp_update", "sp_zset", "sp_hash"}

\* A statement leaves the handler in its own states, or with an answer.
LEMMA HandlersStay ==
    ASSUME Typed
    PROVE  /\ Upload => req'.pc \in UploadPCs \cup {"reply"}
           /\ InstantUpload => req'.pc \in Md5PCs \cup {"reply"}
           /\ Share => req'.pc \in SharePCs \cup {"reply"}
           /\ Delete => req'.pc \in DeletePCs \cup {"reply"}
           /\ Cancel => req'.pc \in CancelPCs \cup {"reply"}
           /\ Save => req'.pc \in AllSavePCs \cup {"reply"}
           /\ SharePv => req'.pc \in SharePvPCs \cup {"reply"}
           /\ CountOwnDownload => req'.pc = "reply"
           /\ Ranking => req'.pc \in RankPCs \cup {"reply"}
           /\ List => req'.pc \in {"list_rows", "reply"}
  <1>1. req \in Requests
    BY DEF Typed, TypeOK
  <1>2. SharePv => req'.pc \in SharePvPCs \cup {"reply"}
    BY <1>1 DEF SharePv, SharePvUpdate, SharePvZset, SharePvHash, Goto, Reply,
                DealshareReply, Requests, SharePvPCs
  <1>3. CountOwnDownload => req'.pc = "reply"
    BY <1>1 DEF CountOwnDownload, Reply, Requests
  <1>4. List => req'.pc \in {"list_rows", "reply"}
    BY <1>1 DEF List, ListCount, ListRows, Goto, Reply, Requests
  <1>5. QED
    BY <1>2, <1>3, <1>4, UploadGoesOn, InstantUploadGoesOn, ShareGoesOn,
       DeleteGoesOn, CancelGoesOn, SaveGoesOn, RankingGoesOn DEF Within

FirstPCs == {"up_store", "md5_check", "share_check", "del_check", "pv_update",
             "cancel_flag", "save_check", "sp_update", "rank_count", "list_count"}

LEMMA RequestsStart ==
    /\ \A op \in Ops, u \in User, f \in File :
          Request(op, u, f) => /\ At("idle") /\ req'.pc \in FirstPCs
                               /\ req'.op = op /\ req'.pc = FirstStep[op]
                               /\ req'.user = u /\ req'.file = f
    /\ Typed /\ RepeatRequest => /\ At("idle") /\ req'.pc \in FirstPCs
                                 /\ req'.op = last.op /\ req'.pc = FirstStep[last.op]
                                 /\ req'.user = last.user /\ req'.file = last.file
    /\ RequestRanking => At("idle") /\ req'.pc = "rank_count" /\ req'.op = "rank"
    /\ Respond \/ Crash => req'.pc = "idle" /\ req'.op = NULL
  <1>1. \A op \in AllOps : FirstStep[op] \in FirstPCs
    BY DEF AllOps, FirstStep, FirstPCs
  <1>2. ASSUME NEW op \in Ops, NEW u \in User, NEW f \in File, Request(op, u, f)
        PROVE  /\ At("idle") /\ req'.pc \in FirstPCs
               /\ req'.op = op /\ req'.pc = FirstStep[op]
               /\ req'.user = u /\ req'.file = f
    BY <1>1, <1>2, ParametersAssumption DEF Request, Dispatch, Idle
  <1>3. ASSUME Typed, RepeatRequest
        PROVE  /\ At("idle") /\ req'.pc \in FirstPCs
               /\ req'.op = last.op /\ req'.pc = FirstStep[last.op]
               /\ req'.user = last.user /\ req'.file = last.file
    <2>1. last.op \in AllOps
      BY <1>3 DEF RepeatRequest, Typed, TypeOK, Requests
    <2>2. QED
      BY <1>1, <1>3, <2>1 DEF RepeatRequest, Idle
  <1>4. RequestRanking => At("idle") /\ req'.pc = "rank_count" /\ req'.op = "rank"
    BY DEF RequestRanking, Idle, FirstStep
  <1>5. Respond \/ Crash => req'.pc = "idle" /\ req'.op = NULL
    BY DEF Respond, Crash, Idle
  <1>6. QED
    BY <1>2, <1>3, <1>4, <1>5

-----------------------------------------------------------------------------
(* A file is shared at most once.                                             *)

\* Where each handler is after a statement of it.
MayShare == {"share_flag", "share_row"}

\* The check of share_file_list, made before the flag is set, still holds when
\* the row is inserted: no other request falls between.
SoleSharer ==
    /\ \A x \in User \X File : DOMAIN shares[x] \subseteq {1}
    /\ \A u, v \in User, f \in File :
          shares[<<u, f>>] # <<>> /\ shares[<<v, f>>] # <<>> => u = v
    /\ req.pc \in MayShare => ~HasShare(req.file)

LEMMA ShareSeqs == \A s \in Seq(Nat) : s = <<>> <=> DOMAIN s = {}
  OBVIOUS

\* No file comes to be shared, no share row is added.
FewerShares == \A x \in User \X File : DOMAIN shares'[x] \subseteq DOMAIN shares[x]

LEMMA FewerSharesSole ==
    ASSUME DataTyped, DataTyped', SoleSharer, FewerShares, req'.pc \notin MayShare
    PROVE  SoleSharer'
  <1>1. \A x \in User \X File : shares'[x] # <<>> => shares[x] # <<>>
    BY ShareSeqs DEF FewerShares, DataTyped
  <1>2. QED
    BY <1>1 DEF SoleSharer, FewerShares

LEMMA FewerByDrop ==
    ASSUME DataTyped, NEW u, NEW f, DropShareRows(u, f)
    PROVE  FewerShares
  BY DEF DropShareRows, DataTyped, FewerShares

\* A download changes the pv of the rows, and neither adds nor takes one.
LEMMA PvKeepsRows ==
    ASSUME DataTyped, SharePvUpdate
    PROVE  \A x \in User \X File : DOMAIN shares'[x] = DOMAIN shares[x]
  <1>1. CASE UNCHANGED shares
    BY <1>1
  <1>2. ASSUME NEW n,
               shares' = [x \in User \X File |->
                  IF x[2] = req.file THEN [k \in DOMAIN shares[x] |-> n]
                  ELSE shares[x]]
        PROVE  \A x \in User \X File : DOMAIN shares'[x] = DOMAIN shares[x]
    BY <1>2 DEF DataTyped
  <1>3. \/ UNCHANGED shares
        \/ \E u \in User : \E i \in DOMAIN shares[<<u, req.file>>] :
               shares' = [x \in User \X File |->
                  IF x[2] = req.file
                  THEN [k \in DOMAIN shares[x] |-> shares[<<u, req.file>>][i] + 1]
                  ELSE shares[x]]
    BY Zenon DEF SharePvUpdate
  <1>4. QED
    BY <1>1, <1>2, <1>3, Zenon

LEMMA FewerSharesStep ==
    ASSUME Typed, [Next]_vars, ~ShareInsert
    PROVE  FewerShares
  <1>1. DataTyped
    BY TypeParts DEF Typed
  <1>2. CASE UNCHANGED shares
    BY <1>2 DEF FewerShares
  <1>3. CASE DeleteShareRows \/ CancelRows
    BY <1>1, <1>3, FewerByDrop DEF DeleteShareRows, CancelRows
  <1>4. CASE SharePvUpdate
    BY <1>1, <1>4, PvKeepsRows DEF FewerShares
  <1>5. QED
    BY <1>2, <1>3, <1>4, SharesWriters

\* Only the handler of a share goes where it will add a row.
LEMMA ToMayShare ==
    ASSUME Typed, [Next]_vars, "query" \notin Faults, req'.pc \in MayShare
    PROVE  ShareCheck \/ ShareFlag \/ UNCHANGED vars
  <1>1. req \in Requests
    BY DEF Typed, TypeOK
  <1>2. CASE Handle
    <2>1. Share
      BY <1>2, HandlersStay
      DEF Handle, MayShare, UploadPCs, Md5PCs, DeletePCs, CancelPCs, SavePCs,
          AllSavePCs, SharePvPCs, RankPCs
    <2>2. QED
      BY <1>1, <2>1
      DEF Share, ShareHealZset, ShareHealHash, ShareInsert, ShareCount, ShareZset,
          ShareHash, Goto, Reply, Requests, MayShare
  <1>3. CASE \/ \E op \in Ops, u \in User, f \in File : Request(op, u, f)
             \/ RequestRanking \/ RepeatRequest \/ Respond \/ Crash
    BY <1>3, RequestsStart DEF FirstPCs, MayShare
  <1>4. CASE SqlFails \/ RedisFails \/ DfsFails
    BY <1>1, <1>4 DEF SqlFails, RedisFails, DfsFails, At, Goto, Reply,
                      DealshareReply, Requests, MayShare
  <1>5. CASE RedisLoss
    BY <1>5 DEF RedisLoss, At, MayShare
  <1>6. CASE QueryFails
    BY <1>6 DEF QueryFails, Fault
  <1>7. QED
    BY <1>2, <1>3, <1>4, <1>5, <1>6 DEF Next

LEMMA SoleSharerStep ==
    "query" \notin Faults /\ Typed /\ Typed' /\ SoleSharer /\ [Next]_vars => SoleSharer'
  <1> SUFFICES ASSUME "query" \notin Faults, Typed, Typed', SoleSharer, [Next]_vars
               PROVE  SoleSharer'
    OBVIOUS
  <1>1. DataTyped /\ DataTyped' /\ req \in Requests
    BY TypeParts DEF Typed, TypeOK
  <1>2. CASE ShareInsert
    <2>1. /\ req.user \in User /\ req.file \in File /\ ~HasShare(req.file)
          /\ shares' = [shares EXCEPT ![<<req.user, req.file>>] = Append(@, 0)]
          /\ req'.pc = "share_count"
      BY <1>1, <1>2, Addressed
      DEF ShareInsert, At, Goto, Requests, RankPCs, SoleSharer, MayShare
    <2>2. \A u \in User : shares[<<u, req.file>>] = <<>>
      BY <2>1 DEF HasShare
    <2>3. DOMAIN shares'[<<req.user, req.file>>] \subseteq {1}
      BY <1>1, <2>1, <2>2 DEF DataTyped
    <2>4. \A x \in User \X File : x # <<req.user, req.file>> => shares'[x] = shares[x]
      BY <1>1, <2>1 DEF DataTyped
    <2>5. \A x \in User \X File : DOMAIN shares'[x] \subseteq {1}
      BY <2>3, <2>4 DEF SoleSharer
    <2>6. ASSUME NEW u \in User, NEW v \in User, NEW f \in File,
                 shares'[<<u, f>>] # <<>>, shares'[<<v, f>>] # <<>>
          PROVE  u = v
      BY <2>1, <2>2, <2>4, <2>6 DEF SoleSharer
    <2>7. QED
      BY <2>1, <2>5, <2>6 DEF SoleSharer, MayShare
  <1>3. CASE ~ShareInsert /\ req'.pc \notin MayShare
    BY <1>1, <1>3, FewerSharesStep, FewerSharesSole
  <1>4. CASE ~ShareInsert /\ req'.pc \in MayShare
    <2>1. UNCHANGED shares /\ req'.file = req.file
      BY <1>1, <1>4, ToMayShare
      DEF ShareCheck, ShareFlag, vars, mysql, Goto, Reply, Requests
    <2>2. ~HasShare(req.file)
      BY <1>1, <1>4, ToMayShare
      DEF ShareCheck, ShareFlag, vars, Goto, Reply, Requests, At, SoleSharer, MayShare
    <2>3. QED
      BY <2>1, <2>2 DEF SoleSharer, HasShare
  <1>5. QED
    BY <1>2, <1>3, <1>4

LEMMA SoleSharerInit == Init => SoleSharer
  BY DEF Init, SoleSharer, Idle, MayShare

\* However Redis fails and wherever the process dies, a file is shared once:
\* all it takes is that the SELECT on share_file_list does not fail.
THEOREM SharedOnce == ASSUME "query" \notin Faults PROVE Spec => []ShareRowUnique
  <1>1. Typed /\ SoleSharer => ShareRowUnique
    <2> SUFFICES ASSUME Typed, SoleSharer, NEW r \in ShareRows, NEW s \in ShareRows,
                        r[1][2] = s[1][2]
                 PROVE  r = s
      BY DEF ShareRowUnique
    <2>1. PICK x \in User \X File : r \in {x} \X DOMAIN shares[x]
      BY DEF ShareRows
    <2>2. PICK y \in User \X File : s \in {y} \X DOMAIN shares[y]
      BY DEF ShareRows
    <2>3. r = <<x, 1>> /\ s = <<y, 1>>
      BY <2>1, <2>2 DEF SoleSharer
    <2>4. shares[x] # <<>> /\ shares[y] # <<>>
      BY <2>1, <2>2, ShareSeqs, TypeParts DEF Typed, DataTyped
    <2>5. x[1] = y[1] /\ x[2] = y[2]
      BY <2>3, <2>4 DEF SoleSharer
    <2>6. QED
      BY <2>3, <2>5
  <1>2. QED
    BY <1>1, TypedInit, TypedStep, SoleSharerInit, SoleSharerStep, PTL DEF Spec

-----------------------------------------------------------------------------
(* Every ranked file has its name.                                            *)

\* Between the ZADD and the HSET of a file its name may still be missing; a
\* ZREM goes before the HDEL, and a ranking clears both before it imports.
Naming  == {"share_heal_hash", "share_hash", "sp_hash", "rank_import_hash"}
Pending == IF req.pc \in Naming THEN {req.file} ELSE {}
Named ==
    /\ Ranked \ Pending \subseteq hash
    /\ req.pc \in {"del_hash", "cancel_hash"} => req.file \notin Ranked
    /\ req.pc \in {"rank_clear_hash", "rank_load"} => Ranked = {}

Unnaming == {"del_hash", "cancel_hash", "rank_clear_hash", "rank_load"}

LEMMA ScoreSet ==
    ASSUME DataTyped, NEW f \in File, NEW s, SetScore(f, s)
    PROVE  Ranked' = IF s = NULL THEN Ranked \ {f} ELSE Ranked \cup {f}
  BY DEF DataTyped, SetScore, Ranked

\* The statements of Redis, when they are executed.
LEMMA NamedByWrites ==
    ASSUME Typed, Named, CacheWriters PROVE Named'
  <1>1. DataTyped /\ req \in Requests /\ NULL \notin Nat
    BY TypeParts, ParametersAssumption DEF Typed, TypeOK
  <1>2. CASE ShareHealZset \/ ShareZset
    <2>1. /\ req.file \in File /\ SetScore(req.file, 0) /\ UNCHANGED hash
          /\ req.pc \notin Naming /\ req'.pc \in Naming /\ req'.file = req.file
      BY <1>1, <1>2, Addressed
      DEF ShareHealZset, ShareZset, At, Goto, Requests, Naming, RankPCs
    <2>2. Ranked' = Ranked \cup {req.file}
      BY <1>1, <2>1, ScoreSet
    <2>3. QED
      BY <2>1, <2>2 DEF Named, Pending, Naming
  <1>3. CASE ShareHealHash \/ ShareHash \/ SharePvHash \/ RankImportHash
    <2>1. /\ hash' = hash \cup {req.file} /\ Ranked' = Ranked
          /\ req'.pc \notin Naming \cup Unnaming
      BY <1>1, <1>3
      DEF ShareHealHash, ShareHash, SharePvHash, RankImportHash, Ranked, Goto,
          Reply, DealshareReply, Requests, Naming, Unnaming
    <2>2. QED
      BY <2>1 DEF Named, Pending, Naming, Unnaming
  <1>4. CASE DeleteZset \/ CancelZset
    <2>1. /\ req.file \in File /\ SetScore(req.file, NULL) /\ UNCHANGED hash
          /\ req.pc \notin Naming /\ req'.pc \in {"del_hash", "cancel_hash"}
          /\ req'.file = req.file
      BY <1>1, <1>4, Addressed
      DEF DeleteZset, CancelZset, At, Goto, Requests, Naming, RankPCs
    <2>2. Ranked' = Ranked \ {req.file}
      BY <1>1, <2>1, ScoreSet
    <2>3. QED
      BY <2>1, <2>2 DEF Named, Pending, Naming
  <1>5. CASE DeleteHash \/ CancelHash
    <2>1. hash' = hash \ {req.file} /\ UNCHANGED zset
          /\ req.pc \in {"del_hash", "cancel_hash"}
      BY <1>5 DEF DeleteHash, CancelHash, At
    <2>2. req'.pc \in {"del_user_count", "reply"}
      <3>1. CASE DeleteHash
        BY <1>1, <3>1 DEF DeleteHash, Goto, Requests
      <3>2. CASE CancelHash
        BY <1>1, <3>2 DEF CancelHash, DealshareReply, Reply, Requests
      <3>3. QED
        BY <1>5, <3>1, <3>2
    <2>3. Ranked' = Ranked /\ Pending = {} /\ req.file \notin Ranked
      BY <2>1 DEF Ranked, Pending, Naming, Named
    <2>4. QED
      BY <2>1, <2>2, <2>3 DEF Named, Pending, Naming
  <1>6. CASE SharePvZset
    <2>1. /\ req.file \in File /\ UNCHANGED hash /\ req.pc \notin Naming
          /\ req'.file = req.file /\ req'.pc \in {"sp_hash", "reply"}
          /\ req.count \in Nat
      BY <1>1, <1>6, Addressed
      DEF SharePvZset, At, Goto, Reply, DealshareReply, Requests, Naming, RankPCs
    <2>2. CASE ZLexCount(req.file) = 1
      <3>1. req.file \in Ranked /\ zset[req.file] + 1 \in Nat
        BY <1>1, <2>2, RankedScore DEF Ranked
      <3>2. SetScore(req.file, zset[req.file] + 1) /\ req'.pc = "reply"
        <4>1. SetScore(req.file, zset[req.file] + 1) /\ DealshareReply(FAIL)
          BY <1>6, <2>2 DEF SharePvZset
        <4>2. QED
          BY <1>1, <4>1 DEF Reply, DealshareReply, Requests
      <3>3. Ranked' = Ranked \cup {req.file}
        BY <1>1, <2>1, <3>1, <3>2, ScoreSet
      <3>4. QED
        BY <2>1, <3>1, <3>2, <3>3 DEF Named, Pending, Naming
    <2>3. CASE ZLexCount(req.file) = 0
      <3>1. SetScore(req.file, req.count) /\ req'.pc = "sp_hash"
        BY <1>1, <1>6, <2>3 DEF SharePvZset, Goto, Requests
      <3>2. Ranked' = Ranked \cup {req.file}
        BY <1>1, <2>1, <3>1, ScoreSet
      <3>3. QED
        BY <2>1, <3>1, <3>2 DEF Named, Pending, Naming
    <2>4. CASE ZLexCount(req.file) \notin {0, 1}
      <3>1. UNCHANGED zset /\ req'.pc = "reply"
        BY <1>1, <1>6, <2>4 DEF SharePvZset, Reply, DealshareReply, Requests
      <3>2. QED
        BY <2>1, <3>1 DEF Named, Pending, Naming, Ranked
    <2>5. QED
      BY <2>2, <2>3, <2>4
  <1>7. CASE RankClearZset
    <2>1. Ranked' = {} /\ req'.pc = "rank_clear_hash"
      BY <1>1, <1>7 DEF RankClearZset, Ranked, Goto, Requests
    <2>2. QED
      BY <2>1 DEF Named
  <1>8. CASE RankClearHash
    <2>1. Ranked = {} /\ Ranked' = Ranked /\ req'.pc = "rank_load"
      BY <1>1, <1>8 DEF RankClearHash, Ranked, Goto, Requests, Named, At
    <2>2. QED
      BY <2>1 DEF Named
  <1>9. CASE RankImportZset
    <2>1. CASE UNCHANGED zset /\ Goto("rank_list")
      <3>1. Ranked' = Ranked /\ UNCHANGED hash /\ req'.pc = "rank_list"
            /\ req.pc = "rank_import_zset"
        BY <1>1, <1>9, <2>1 DEF RankImportZset, Ranked, Goto, Requests, At
      <3>2. QED
        BY <3>1 DEF Named, Pending, Naming
    <2>2. ASSUME NEW r \in req.todo, SetScore(r[1][2], Pv(r)),
                 req' = [req EXCEPT !.pc = "rank_import_hash",
                                    !.file = r[1][2], !.todo = @ \ {r}]
          PROVE  Named'
      <3>1. req.pc = "rank_import_zset" /\ UNCHANGED hash /\ r \in ShareRows
        BY <1>9 DEF RankImportZset, At, Typed, Control
      <3>2. r[1][2] \in File /\ Pv(r) \in Nat
        BY <1>1, <3>1 DEF DataTyped, ShareRows, Pv
      <3>3. Ranked' = Ranked \cup {r[1][2]}
        BY <1>1, <2>2, <3>2, ScoreSet
      <3>4. req'.pc = "rank_import_hash" /\ req'.file = r[1][2]
        BY <1>1, <2>2 DEF Requests
      <3>5. QED
        BY <3>1, <3>3, <3>4 DEF Named, Pending, Naming
    <2>3. QED
      BY <1>9, <2>1, <2>2 DEF RankImportZset
  <1>10. CASE RedisLoss
    <2>1. Ranked' = {} /\ UNCHANGED req
      BY <1>10 DEF RedisLoss, Ranked
    <2>2. QED
      BY <2>1 DEF Named
  <1>11. QED
    BY <1>2, <1>3, <1>4, <1>5, <1>6, <1>7, <1>8, <1>9, <1>10 DEF CacheWriters

\* Only a statement of Redis goes to or from where a name is missing.
LEMMA AroundNames ==
    ASSUME Typed, Next, ~CacheWriters, Faults \cap {"crash", "redis"} = {}
    PROVE  req.pc \notin Naming /\ req'.pc \notin Naming \cup Unnaming
  <1>1. req \in Requests
    BY DEF Typed, TypeOK
  <1>2. CASE Upload \/ InstantUpload \/ Save \/ List \/ CountOwnDownload
    <2>1. req.pc \notin Naming
      BY <1>2 DEF Upload, UploadStore, UploadInfo, UploadOwn, UploadCount,
                  InstantUpload, Md5Check, Md5Ref, Md5Own, Md5Count, Md5Restore,
                  Save, SaveCheck, SaveRef, SaveOwn, SaveCount, List, ListCount,
                  ListRows, CountOwnDownload, At, Naming
    <2>2. req'.pc \notin Naming \cup Unnaming
      BY <1>2, HandlersStay
      DEF UploadPCs, Md5PCs, SavePCs, AllSavePCs, Naming, Unnaming
    <2>3. QED
      BY <2>1, <2>2
  <1>3. CASE Share \/ Delete
    <2>1. CASE Share
      BY <1>1, <2>1
      DEF Share, ShareCheck, ShareFlag, ShareInsert, ShareCount, CacheWriters,
          At, Goto, Reply, Requests, Naming, Unnaming
    <2>2. CASE Delete
      BY <1>1, <2>2
      DEF Delete, DeleteCheck, DeleteShareRows, DeleteShareCount,
          DeleteUserCount, DeleteOwn, DeleteRef, DeleteInfo, DeleteStore,
          CacheWriters, At, Goto, Reply, Requests, Naming, Unnaming
    <2>3. QED
      BY <1>3, <2>1, <2>2
  <1>4. CASE Cancel \/ SharePv
    BY <1>1, <1>4
    DEF Cancel, CancelFlag, CancelCount, CancelRows, SharePv, SharePvUpdate,
        CacheWriters, At, Goto, Reply, DealshareReply, Requests, Naming, Unnaming
  <1>5. CASE Ranking
    BY <1>1, <1>5
    DEF Ranking, RankCount, RankCompare, RankLoad, RankList, CacheWriters, At,
        Goto, Reply, Requests, Naming, Unnaming
  <1>6. CASE (\E op \in Ops, u \in User, f \in File : Request(op, u, f))
             \/ RequestRanking \/ RepeatRequest
    BY <1>6, RequestsStart DEF FirstPCs, Naming, Unnaming, At
  <1>7. CASE Respond
    BY <1>7 DEF Respond, Idle, At, Naming, Unnaming
  <1>8. CASE SqlFails \/ QueryFails \/ DfsFails
    BY <1>1, <1>8 DEF SqlFails, QueryFails, DfsFails, At, Goto, Reply,
                      DealshareReply, Requests, Naming, Unnaming
  <1>9. CASE RedisFails \/ Crash
    BY <1>9 DEF RedisFails, Crash, Fault
  <1>10. QED
    BY <1>2, <1>3, <1>4, <1>5, <1>6, <1>7, <1>8, <1>9
    DEF Next, Handle, CacheWriters

LEMMA NamedStep ==
    Faults \cap {"crash", "redis"} = {} /\ Typed /\ Named /\ [Next]_vars => Named'
  <1> SUFFICES ASSUME Faults \cap {"crash", "redis"} = {}, Typed, Named, [Next]_vars
               PROVE  Named'
    OBVIOUS
  <1>1. req \in Requests
    BY DEF Typed, TypeOK
  <1>2. CASE CacheWriters
    BY <1>2, NamedByWrites
  <1>3. CASE UNCHANGED vars
    BY <1>3 DEF Named, Pending, Ranked, vars, redis
  <1>4. CASE ~CacheWriters /\ ~(UNCHANGED vars)
    <2>1. UNCHANGED <<zset, hash>>
      BY <1>4, RedisWriters
    <2>2. req.pc \notin Naming /\ req'.pc \notin Naming \cup Unnaming
      BY <1>4, AroundNames
    <2>3. QED
      BY <2>1, <2>2 DEF Named, Pending, Ranked, Unnaming
  <1>5. QED
    BY <1>2, <1>3, <1>4

LEMMA NamedInit == Init => Named
  BY DEF Init, Named, Pending, Ranked, Idle, Naming

\* While the process lives and Redis answers, a ranking never fails on HGET.
THEOREM RankedNamed ==
    ASSUME Faults \cap {"crash", "redis"} = {} PROVE Spec => []RankingNamed
  <1>1. Named => RankingNamed
    BY DEF Named, RankingNamed, Pending, At, Naming
  <1>2. QED
    BY <1>1, TypedInit, TypedStep, NamedInit, NamedStep, PTL DEF Spec

-----------------------------------------------------------------------------
(* The share counter never counts more than there is.                         *)

\* How far the counter of shares may be from the rows, above, while a handler
\* is between the row and the counter; NULL counts for 0.
ShareTotal == IF shareCount = NULL THEN 0 ELSE shareCount
ShareGap   == IF req.pc = "share_count" THEN -1
              ELSE IF req.pc = "del_share_count" THEN 1 ELSE 0
CountsFew ==
    /\ ShareTotal <= Cardinality(ShareRows) + ShareGap
    /\ req.pc = "cancel_rows" =>
         ShareTotal <= 0 \/ ShareTotal + 1 <= Cardinality(ShareRows)

CountingPCs == {"share_count", "del_share_count", "cancel_rows"}
CountingShares == \/ ShareInsert \/ ShareCount \/ DeleteShareRows
                  \/ DeleteShareCount \/ CancelCount \/ CancelRows

LEMMA ShareRowsSame ==
    ASSUME UNCHANGED shares \/ (DataTyped /\ SharePvUpdate)
    PROVE  ShareRows' = ShareRows
  <1>1. \A x \in User \X File : DOMAIN shares'[x] = DOMAIN shares[x]
    BY PvKeepsRows
  <1>2. QED
    BY <1>1 DEF ShareRows

LEMMA OneRowMore ==
    ASSUME DataTyped, NEW x \in User \X File,
           shares' = [shares EXCEPT ![x] = Append(@, 0)]
    PROVE  \E r : r \notin ShareRows /\ ShareRows' = ShareRows \cup {r}
  <1> DEFINE n == Len(shares[x]) + 1
  <1>1. /\ DOMAIN shares'[x] = DOMAIN shares[x] \cup {n} /\ n \notin DOMAIN shares[x]
        /\ \A y \in User \X File : y # x => shares'[y] = shares[y]
    BY DEF DataTyped
  <1>2. <<x, n>> \notin ShareRows
    BY <1>1 DEF ShareRows
  <1>3. \A r : r \in ShareRows' <=> r \in ShareRows \/ r = <<x, n>>
    BY <1>1 DEF ShareRows
  <1>4. ShareRows' = ShareRows \cup {<<x, n>>}
    BY <1>3
  <1>5. QED
    BY <1>2, <1>4

LEMMA OneRowLess ==
    ASSUME DataTyped, SoleSharer, NEW u \in User, NEW f \in File,
           DropShareRows(u, f)
    PROVE  ShareRows' = ShareRows \ {<<<<u, f>>, 1>>}
  <1>1. /\ DOMAIN shares'[<<u, f>>] = {} /\ DOMAIN shares[<<u, f>>] \subseteq {1}
        /\ \A y \in User \X File : y # <<u, f>> => shares'[y] = shares[y]
    BY DEF DataTyped, SoleSharer, DropShareRows
  <1>2. \A r : r \in ShareRows' <=> r \in ShareRows /\ r # <<<<u, f>>, 1>>
    BY <1>1 DEF ShareRows
  <1>3. QED
    BY <1>2

LEMMA CardLess ==
    ASSUME NEW S, IsFiniteSet(S), NEW x
    PROVE  /\ IsFiniteSet(S \ {x}) /\ Cardinality(S \ {x}) \in Nat
           /\ Cardinality(S) <= Cardinality(S \ {x}) + 1
  <1>1. /\ IsFiniteSet(S \ {x})
        /\ Cardinality(S \ {x}) = IF x \in S THEN Cardinality(S) - 1
                                  ELSE Cardinality(S)
    BY FS_RemoveElement
  <1>2. Cardinality(S) \in Nat /\ Cardinality(S \ {x}) \in Nat
    BY <1>1, FS_CardinalityType
  <1>3. QED
    BY <1>1, <1>2

LEMMA CardMore ==
    ASSUME NEW S, IsFiniteSet(S), NEW x, x \notin S
    PROVE  IsFiniteSet(S \cup {x}) /\ Cardinality(S \cup {x}) = Cardinality(S) + 1
  BY FS_AddElement

LEMMA SharesFiniteStep ==
    Typed /\ IsFiniteSet(ShareRows) /\ [Next]_vars => IsFiniteSet(ShareRows')
  <1> SUFFICES ASSUME Typed, IsFiniteSet(ShareRows), [Next]_vars
               PROVE  IsFiniteSet(ShareRows')
    OBVIOUS
  <1>1. DataTyped /\ req \in Requests
    BY TypeParts DEF Typed, TypeOK
  <1>2. CASE ShareInsert
    <2>1. /\ <<req.user, req.file>> \in User \X File
          /\ shares' = [shares EXCEPT ![<<req.user, req.file>>] = Append(@, 0)]
      BY <1>1, <1>2, Addressed DEF ShareInsert, At, RankPCs
    <2>2. PICK r : r \notin ShareRows /\ ShareRows' = ShareRows \cup {r}
      BY <1>1, <2>1, OneRowMore
    <2>3. QED
      BY <2>2, CardMore
  <1>3. CASE ~ShareInsert
    <2>1. ShareRows' \subseteq ShareRows
      BY <1>3, FewerSharesStep DEF FewerShares, ShareRows
    <2>2. QED
      BY <2>1, FS_Subset
  <1>4. QED
    BY <1>2, <1>3

LEMMA SharesFiniteInit == Init => IsFiniteSet(ShareRows)
  <1>1. Init => ShareRows = {}
    BY DEF Init, ShareRows
  <1>2. QED
    BY <1>1, FS_EmptySet

\* No other statement comes between a share row and its counter.
LEMMA AroundCounter ==
    ASSUME Typed, Next, ~CountingShares, Faults \cap {"crash", "sql"} = {}
    PROVE  req.pc \notin CountingPCs /\ req'.pc \notin CountingPCs
  <1>1. req \in Requests
    BY DEF Typed, TypeOK
  <1>2. CASE Upload \/ InstantUpload \/ Save \/ List \/ CountOwnDownload
    <2>1. req.pc \notin CountingPCs
      BY <1>2 DEF Upload, UploadStore, UploadInfo, UploadOwn, UploadCount,
                  InstantUpload, Md5Check, Md5Ref, Md5Own, Md5Count, Md5Restore,
                  Save, SaveCheck, SaveRef, SaveOwn, SaveCount, List, ListCount,
                  ListRows, CountOwnDownload, At, CountingPCs
    <2>2. req'.pc \notin CountingPCs
      BY <1>2, HandlersStay
      DEF UploadPCs, Md5PCs, SavePCs, AllSavePCs, CountingPCs
    <2>3. QED
      BY <2>1, <2>2
  <1>3. CASE Share
    BY <1>1, <1>3
    DEF Share, ShareCheck, ShareHealZset, ShareHealHash, ShareFlag, ShareZset,
        ShareHash, CountingShares, At, Goto, Reply, Requests, CountingPCs
  <1>4. CASE Delete
    BY <1>1, <1>4
    DEF Delete, DeleteCheck, DeleteZset, DeleteHash, DeleteUserCount, DeleteOwn,
        DeleteRef, DeleteInfo, DeleteStore, CountingShares, At, Goto, Reply,
        Requests, CountingPCs
  <1>5. CASE Cancel \/ SharePv
    BY <1>1, <1>5
    DEF Cancel, CancelFlag, CancelZset, CancelHash, SharePv, SharePvUpdate,
        SharePvZset, SharePvHash, CountingShares, At, Goto, Reply, DealshareReply,
        Requests, CountingPCs
  <1>6. CASE Ranking
    BY <1>1, <1>6
    DEF Ranking, RankCount, RankCompare, RankClearZset, RankClearHash, RankLoad,
        RankImportZset, RankImportHash, RankList, At, Goto, Reply, Requests,
        CountingPCs
  <1>7. CASE (\E op \in Ops, u \in User, f \in File : Request(op, u, f))
             \/ RequestRanking \/ RepeatRequest
    BY <1>7, RequestsStart DEF FirstPCs, CountingPCs, At
  <1>8. CASE Respond
    BY <1>8 DEF Respond, Idle, At, CountingPCs
  <1>9. CASE QueryFails \/ RedisFails \/ DfsFails \/ RedisLoss
    BY <1>1, <1>9 DEF QueryFails, RedisFails, DfsFails, RedisLoss, At, Goto, Reply,
                      DealshareReply, Requests, CountingPCs
  <1>10. CASE SqlFails \/ Crash
    BY <1>10 DEF SqlFails, Crash, Fault
  <1>11. QED
    BY <1>2, <1>3, <1>4, <1>5, <1>6, <1>7, <1>8, <1>9, <1>10 DEF Next, Handle

LEMMA CountsFewStep ==
    Faults \cap {"crash", "sql"} = {} /\ Typed /\ SoleSharer
      /\ IsFiniteSet(ShareRows) /\ CountsFew /\ [Next]_vars => CountsFew'
  <1> SUFFICES ASSUME Faults \cap {"crash", "sql"} = {}, Typed, SoleSharer,
                      IsFiniteSet(ShareRows), CountsFew, [Next]_vars
               PROVE  CountsFew'
    OBVIOUS
  <1>1. /\ DataTyped /\ req \in Requests /\ NULL \notin Int
        /\ Cardinality(ShareRows) \in Nat /\ ShareTotal \in Int
    BY TypeParts, FS_CardinalityType, ParametersAssumption
    DEF Typed, TypeOK, ShareTotal
  <1>2. CASE ShareInsert
    <2>1. /\ <<req.user, req.file>> \in User \X File /\ UNCHANGED shareCount
          /\ shares' = [shares EXCEPT ![<<req.user, req.file>>] = Append(@, 0)]
          /\ req.pc = "share_row" /\ req'.pc = "share_count"
      BY <1>1, <1>2, Addressed DEF ShareInsert, At, Goto, Requests, RankPCs
    <2>2. PICK r : r \notin ShareRows /\ ShareRows' = ShareRows \cup {r}
      BY <1>1, <2>1, OneRowMore
    <2>3. IsFiniteSet(ShareRows') /\ Cardinality(ShareRows') = Cardinality(ShareRows) + 1
      BY <2>2, CardMore
    <2>4. QED
      BY <1>1, <2>1, <2>3 DEF CountsFew, ShareGap, ShareTotal
  <1>3. CASE DeleteShareRows \/ CancelRows
    <2>1. /\ req.user \in User /\ req.file \in File
          /\ DropShareRows(req.user, req.file) /\ UNCHANGED shareCount
      BY <1>1, <1>3, Addressed DEF DeleteShareRows, CancelRows, At, Goto, Requests, RankPCs
    <2>2. /\ IsFiniteSet(ShareRows') /\ Cardinality(ShareRows') \in Nat
          /\ Cardinality(ShareRows) <= Cardinality(ShareRows') + 1
      <3>1. ShareRows' = ShareRows \ {<<<<req.user, req.file>>, 1>>}
        BY <1>1, <2>1, OneRowLess
      <3>2. QED
        BY <3>1, CardLess
    <2>3. CASE DeleteShareRows
      <3>1. req.pc = "del_share_rows" /\ req'.pc = "del_share_count"
        BY <1>1, <2>3 DEF DeleteShareRows, At, Goto, Requests
      <3>2. QED
        BY <1>1, <2>1, <2>2, <3>1 DEF CountsFew, ShareGap, ShareTotal
    <2>4. CASE CancelRows
      <3>1. req.pc = "cancel_rows" /\ req'.pc = "cancel_zset"
        BY <1>1, <2>4 DEF CancelRows, At, Goto, Requests
      <3>2. QED
        BY <1>1, <2>1, <2>2, <3>1 DEF CountsFew, ShareGap, ShareTotal
    <2>5. QED
      BY <1>3, <2>3, <2>4
  <1>4. CASE ShareCount
    <2>1. /\ UNCHANGED shares /\ req.pc = "share_count" /\ req'.pc = "share_zset"
          /\ shareCount' = IF shareCount = NULL THEN 1 ELSE shareCount + 1
      BY <1>1, <1>4 DEF ShareCount, At, Goto, Requests
    <2>2. ShareTotal' = ShareTotal + 1
      BY <1>1, <2>1, ParametersAssumption DEF ShareTotal, DataTyped
    <2>3. QED
      BY <1>1, <2>1, <2>2, ShareRowsSame DEF CountsFew, ShareGap
  <1>5. CASE DeleteShareCount
    <2>1. /\ UNCHANGED shares /\ req.pc = "del_share_count"
          /\ req'.pc \in {"reply", "del_zset", "del_user_count"}
          /\ IF shareCount = NULL THEN UNCHANGED shareCount
             ELSE shareCount' = shareCount - 1
      BY <1>1, <1>5 DEF DeleteShareCount, At, Goto, Reply, Requests
    <2>2. ShareTotal' = IF shareCount = NULL THEN 0 ELSE ShareTotal - 1
      BY <1>1, <2>1, ParametersAssumption DEF ShareTotal, DataTyped
    <2>3. shareCount = NULL => ShareTotal = 0
      BY DEF ShareTotal
    <2>4. QED
      BY <1>1, <2>1, <2>2, <2>3, ShareRowsSame DEF CountsFew, ShareGap
  <1>6. CASE CancelCount
    <2>1. /\ UNCHANGED shares /\ req.pc = "cancel_count"
          /\ req'.pc \in {"reply", "cancel_rows"}
          /\ IF shareCount = NULL THEN UNCHANGED shareCount /\ req'.pc = "reply"
             ELSE shareCount' = Lower(shareCount)
      BY <1>1, <1>6 DEF CancelCount, At, Goto, Reply, DealshareReply, Requests
    <2>2. CASE shareCount = NULL
      BY <1>1, <2>1, <2>2, ShareRowsSame DEF CountsFew, ShareGap, ShareTotal
    <2>3. CASE shareCount # NULL
      <3>1. shareCount \in Int /\ ShareTotal = shareCount
        BY <1>1, <2>3 DEF DataTyped, ShareTotal
      <3>2. shareCount' \in Int /\ ShareTotal' = Lower(shareCount)
        <4>1. Lower(shareCount) \in Int /\ shareCount' = Lower(shareCount)
          BY <2>1, <2>3, <3>1 DEF Lower
        <4>2. QED
          BY <1>1, <4>1 DEF ShareTotal
      <3>3. QED
        BY <1>1, <2>1, <3>1, <3>2, ShareRowsSame DEF CountsFew, ShareGap, Lower
    <2>4. QED
      BY <2>2, <2>3
  <1>7. CASE UNCHANGED vars
    BY <1>7, ShareRowsSame
    DEF CountsFew, ShareGap, ShareTotal, vars, mysql
  <1>8. CASE ~CountingShares /\ Next
    <2>1. req.pc \notin CountingPCs /\ req'.pc \notin CountingPCs
      BY <1>8, AroundCounter
    <2>2. ShareRows' = ShareRows
      BY <1>1, <1>8, SharesWriters, ShareRowsSame DEF CountingShares
    <2>3. ShareTotal' = ShareTotal
      <3>1. CASE UNCHANGED shareCount
        BY <3>1 DEF ShareTotal
      <3>2. CASE RankCount
        BY <1>1, <3>2, ParametersAssumption DEF RankCount, ShareTotal
      <3>3. QED
        BY <1>8, <3>1, <3>2, ShareCountWriters DEF CountingShares
    <2>4. QED
      BY <1>1, <2>1, <2>2, <2>3 DEF CountsFew, ShareGap, CountingPCs
  <1>9. QED
    BY <1>2, <1>3, <1>4, <1>5, <1>6, <1>7, <1>8 DEF CountingShares

LEMMA CountsFewInit == Init => CountsFew
  <1> SUFFICES ASSUME Init PROVE CountsFew
    OBVIOUS
  <1>1. ShareRows = {}
    BY DEF Init, ShareRows
  <1>2. QED
    BY <1>1, FS_EmptySet DEF Init, CountsFew, ShareTotal, ShareGap, Idle

\* While the process lives, no write fails and the SELECT on share_file_list
\* does not, the counter of shares claims no more than share_file_list holds.
THEOREM ShareCountBelow ==
    ASSUME Faults \cap {"crash", "sql", "query"} = {}
    PROVE  Spec => []ShareCountNeverAbove
  <1>1. IsFiniteSet(ShareRows) /\ CountsFew => ShareCountNeverAbove
    <2> SUFFICES ASSUME IsFiniteSet(ShareRows), CountsFew, At("idle"), shareCount # NULL
                 PROVE  shareCount <= Cardinality(ShareRows)
      BY DEF ShareCountNeverAbove
    <2>1. ShareTotal = shareCount /\ ShareGap = 0 /\ Cardinality(ShareRows) \in Nat
      BY FS_CardinalityType DEF ShareTotal, ShareGap, At
    <2>2. QED
      BY <2>1 DEF CountsFew
  <1>2. Faults \cap {"crash", "sql"} = {} /\ "query" \notin Faults
    OBVIOUS
  <1>3. Init => Typed /\ SoleSharer /\ IsFiniteSet(ShareRows) /\ CountsFew
    BY TypedInit, SoleSharerInit, SharesFiniteInit, CountsFewInit
  <1>4. Typed /\ SoleSharer /\ IsFiniteSet(ShareRows) /\ CountsFew /\ [Next]_vars
          => (Typed /\ SoleSharer /\ IsFiniteSet(ShareRows) /\ CountsFew)'
    BY <1>2, TypedStep, SoleSharerStep, SharesFiniteStep, CountsFewStep
  <1>5. QED
    BY <1>1, <1>3, <1>4, PTL DEF Spec

-----------------------------------------------------------------------------
(* shared_status tells who shares a file.                                     *)

\* Where shared_status of the file in hand may disagree with its share row.
TurningPCs == {"share_row", "cancel_count", "cancel_rows", "del_share_count",
               "del_zset", "del_hash", "del_user_count", "del_own"}
FlagPCs == TurningPCs \cup {"cancel_flag", "share_count"}

Flags(x, s) == \A i \in DOMAIN own[x] : own[x][i].shared = s
Agrees(x)   == \A i \in DOMAIN own[x] : own[x][i].shared = 1 <=> shares[x] # <<>>
InHand      == <<req.user, req.file>>

\* The counter of shares has its row before any share has its flag cleared: a
\* cancel that found no counter would answer with the flag already cleared.
FlagTrue ==
    /\ \A x \in User \X File :
          Agrees(x) \/ (req.pc \in TurningPCs /\ x = InHand)
    /\ req.pc = "share_row" => Flags(InHand, 1)
    /\ req.pc \in {"cancel_count", "cancel_rows"} => Flags(InHand, 0)
    /\ req.pc \in {"cancel_flag", "cancel_count"} => shareCount # NULL
    /\ req.pc = "del_share_count" /\ shareCount = NULL => Flags(InHand, 0)
    /\ shareCount = NULL =>
          \A x \in User \X File :
             shares[x] # <<>> => req.pc = "share_count" /\ x = InHand

\* A statement away from the flags.
LEMMA FlagsAway ==
    ASSUME FlagTrue, req.pc \notin FlagPCs, req'.pc \notin FlagPCs,
           shareCount' = NULL => shareCount = NULL,
           \A x \in User \X File : /\ Agrees(x) => Agrees(x)'
                                   /\ shares'[x] # <<>> => shares[x] # <<>>
    PROVE  FlagTrue'
  <1>1. \A x \in User \X File : Agrees(x)'
    BY DEF FlagTrue, FlagPCs
  <1>2. req'.pc \notin TurningPCs \cup {"cancel_flag", "share_count"}
    BY DEF FlagPCs
  <1>3. shareCount' = NULL => \A x \in User \X File : shares'[x] = <<>>
    BY DEF FlagTrue, FlagPCs
  <1>4. QED
    BY <1>1, <1>2, <1>3 DEF FlagTrue, TurningPCs

\* A statement about the file in hand.
LEMMA FlagsAt ==
    ASSUME FlagTrue, NEW h \in User \X File, h = InHand, InHand' = h,
           \A x \in User \X File : x # h => own'[x] = own[x] /\ shares'[x] = shares[x],
           shareCount' = NULL => shareCount = NULL,
           Agrees(h)' \/ req'.pc \in TurningPCs,
           req'.pc = "share_row" => Flags(h, 1)',
           req'.pc \in {"cancel_count", "cancel_rows"} => Flags(h, 0)',
           req'.pc \in {"cancel_flag", "cancel_count"} => shareCount' # NULL,
           req'.pc = "del_share_count" /\ shareCount' = NULL => Flags(h, 0)',
           shareCount' = NULL /\ shares'[h] # <<>> => req'.pc = "share_count"
    PROVE  FlagTrue'
  <1>1. \A x \in User \X File : x # h => Agrees(x)'
    BY DEF FlagTrue, Agrees
  <1>2. \A x \in User \X File : Agrees(x)' \/ (req'.pc \in TurningPCs /\ x = InHand')
    BY <1>1
  <1>3. shareCount' = NULL =>
          \A x \in User \X File :
             shares'[x] # <<>> => req'.pc = "share_count" /\ x = InHand'
    BY DEF FlagTrue
  <1>4. Flags(InHand, 0)' = Flags(h, 0)' /\ Flags(InHand, 1)' = Flags(h, 1)'
    BY DEF Flags
  <1>5. QED
    BY <1>2, <1>3, <1>4 DEF FlagTrue

LEMMA SetSharedFlags ==
    ASSUME DataTyped, NEW u \in User, NEW f \in File, NEW s \in {0, 1},
           SetShared(u, f, s)
    PROVE  /\ \A i \in DOMAIN own'[<<u, f>>] : own'[<<u, f>>][i].shared = s
           /\ \A x \in User \X File : x # <<u, f>> => own'[x] = own[x]
  <1>1. own[<<u, f>>] \in Seq(OwnRow)
    BY DEF DataTyped
  <1>2. own'[<<u, f>>] = [i \in DOMAIN own[<<u, f>>] |->
                            [own[<<u, f>>][i] EXCEPT !.shared = s]]
    BY DEF DataTyped, SetShared
  <1>3. \A i \in DOMAIN own[<<u, f>>] : own[<<u, f>>][i] \in OwnRow
    BY <1>1
  <1>4. QED
    BY <1>2, <1>3 DEF DataTyped, SetShared, OwnRow

LEMMA DroppedShares ==
    ASSUME DataTyped, NEW u \in User, NEW f \in File, DropShareRows(u, f)
    PROVE  /\ shares'[<<u, f>>] = <<>>
           /\ \A x \in User \X File : x # <<u, f>> => shares'[x] = shares[x]
  BY DEF DataTyped, DropShareRows

\* The statements of a share and of a cancel.
LEMMA SharingFlags ==
    ASSUME Typed, FlagTrue,
           ShareFlag \/ ShareInsert \/ ShareCount \/ CancelFlag \/ CancelCount \/ CancelRows
    PROVE  FlagTrue'
  <1>1. /\ DataTyped /\ req \in Requests /\ NULL \notin Int
        /\ req.user \in User /\ req.file \in File
    BY TypeParts, Addressed, ParametersAssumption
    DEF Typed, TypeOK, ShareFlag, ShareInsert, ShareCount, CancelFlag, CancelCount,
        CancelRows, At, RankPCs
  <1>2. PICK u \in User, f \in File : u = req.user /\ f = req.file
    BY <1>1
  <1> DEFINE h == <<u, f>>
  <1>3. h \in User \X File /\ h = InHand /\ (UNCHANGED <<req.user, req.file>> => InHand' = h)
    BY <1>2 DEF InHand
  <1>4. CASE ShareFlag
    <2>1. /\ req'.pc = "share_row" /\ UNCHANGED <<req.user, req.file, shares, shareCount>>
          /\ SetShared(u, f, 1) /\ req.pc = "share_flag"
      BY <1>1, <1>2, <1>4 DEF ShareFlag, Goto, Requests, At
    <2>2. /\ Flags(h, 1)'
          /\ \A x \in User \X File : x # h => own'[x] = own[x] /\ shares'[x] = shares[x]
      BY <1>1, <2>1, SetSharedFlags DEF Flags
    <2>3. shareCount = NULL => shares[h] = <<>>
      BY <1>3, <2>1 DEF FlagTrue
    <2>4. QED
      BY <1>3, <2>1, <2>2, <2>3, FlagsAt DEF TurningPCs
  <1>5. CASE ShareInsert
    <2>1. /\ req'.pc = "share_count" /\ UNCHANGED <<req.user, req.file, own, shareCount>>
          /\ shares' = [shares EXCEPT ![h] = Append(@, 0)] /\ req.pc = "share_row"
      BY <1>1, <1>2, <1>5 DEF ShareInsert, Goto, Requests, At
    <2>2. /\ shares'[h] # <<>>
          /\ \A x \in User \X File : x # h => own'[x] = own[x] /\ shares'[x] = shares[x]
      <3>1. \A t \in Seq(Nat) : Append(t, 0) # <<>>
        <4>1. \A t \in Seq(Nat) : Len(t) \in Nat /\ Len(Append(t, 0)) = Len(t) + 1
          OBVIOUS
        <4>2. Len(<<>>) = 0
          OBVIOUS
        <4>3. QED
          BY <4>1, <4>2
      <3>2. /\ shares'[h] = Append(shares[h], 0)
            /\ \A x \in User \X File : x # h => shares'[x] = shares[x]
        BY <1>1, <1>3, <2>1 DEF DataTyped
      <3>3. QED
        BY <1>1, <1>3, <2>1, <3>1, <3>2 DEF DataTyped
    <2>3. Agrees(h)'
      BY <1>3, <2>1, <2>2 DEF FlagTrue, Flags, Agrees
    <2>4. QED
      BY <1>3, <2>1, <2>2, <2>3, FlagsAt
  <1>6. CASE ShareCount
    <2>1. /\ req'.pc = "share_zset" /\ UNCHANGED <<req.user, req.file, own, shares>>
          /\ shareCount' # NULL /\ req.pc = "share_count"
      BY <1>1, <1>6 DEF ShareCount, Goto, Requests, At, DataTyped
    <2>2. Agrees(h)'
      BY <1>3, <2>1 DEF FlagTrue, TurningPCs, Agrees
    <2>3. QED
      BY <1>3, <2>1, <2>2, FlagsAt
  <1>7. CASE CancelFlag
    <2>1. /\ req'.pc = "cancel_count" /\ UNCHANGED <<req.user, req.file, shares, shareCount>>
          /\ SetShared(u, f, 0) /\ req.pc = "cancel_flag"
      BY <1>1, <1>2, <1>7 DEF CancelFlag, Goto, Requests, At
    <2>2. /\ Flags(h, 0)'
          /\ \A x \in User \X File : x # h => own'[x] = own[x] /\ shares'[x] = shares[x]
      BY <1>1, <2>1, SetSharedFlags DEF Flags
    <2>3. shareCount # NULL
      BY <2>1 DEF FlagTrue
    <2>4. QED
      BY <1>3, <2>1, <2>2, <2>3, FlagsAt DEF TurningPCs
  <1>8. CASE CancelCount
    <2>1. shareCount # NULL /\ req.pc = "cancel_count"
      BY <1>8 DEF CancelCount, At, FlagTrue
    <2>2. /\ req'.pc = "cancel_rows" /\ UNCHANGED <<req.user, req.file, own, shares>>
          /\ shareCount' = Lower(shareCount)
      BY <1>1, <1>8, <2>1 DEF CancelCount, Goto, Requests
    <2>3. shareCount' # NULL
      <3>1. shareCount \in Int
        BY <1>1, <2>1 DEF DataTyped
      <3>2. QED
        BY <1>1, <2>2, <3>1 DEF Lower
    <2>4. Flags(h, 0)'
      BY <1>3, <2>1, <2>2 DEF FlagTrue, Flags
    <2>5. QED
      BY <1>3, <2>2, <2>3, <2>4, FlagsAt DEF TurningPCs
  <1>9. CASE CancelRows
    <2>1. /\ req'.pc = "cancel_zset" /\ UNCHANGED <<req.user, req.file, own, shareCount>>
          /\ DropShareRows(u, f) /\ req.pc = "cancel_rows"
      BY <1>1, <1>2, <1>9 DEF CancelRows, Goto, Requests, At
    <2>2. /\ shares'[h] = <<>>
          /\ \A x \in User \X File : x # h => own'[x] = own[x] /\ shares'[x] = shares[x]
      BY <1>1, <2>1, DroppedShares
    <2>3. Agrees(h)'
      BY <1>3, <2>1, <2>2 DEF FlagTrue, Flags, Agrees
    <2>4. QED
      BY <1>3, <2>1, <2>2, <2>3, FlagsAt
  <1>10. QED
    BY <1>4, <1>5, <1>6, <1>7, <1>8, <1>9

\* The statements of a delete that fall between the share row and the list row.
DeletingFlags ==
    \/ DeleteShareRows \/ DeleteShareCount \/ DeleteZset \/ DeleteHash
    \/ DeleteUserCount \/ DeleteOwn
    \/ RedisFails /\ req.pc \in {"del_zset", "del_hash"}

\* An owner is counted: the delete finds the row of user_file_count.
LEMMA OwnerCounted ==
    ASSUME Typed, Counting, Even, req.pc = "del_user_count"
    PROVE  userCount[req.user] # NULL
  <1>1. /\ req.user \in User /\ req.file \in File /\ DataTyped /\ ListsFinite
        /\ Owns(req.user, req.file)
    BY Addressed, TypeParts DEF RankPCs, Counting, Placed, OwnedPCs, Typed
  <1>2. PICK u \in User : u = req.user
    BY <1>1
  <1>3. /\ Cardinality(ListOf(u)) \in Nat /\ Cardinality(ListOf(u)) > 0
    BY <1>1, <1>2, ListCounted
  <1>4. UserGap(u) = 0 /\ CountOf(u) \in Nat /\ Behind(u) = 0
    BY <1>1, GapTypes DEF Even, GapsTyped, Behind, CountPCs
  <1>5. CountOf(u) > 0
    BY <1>3, <1>4 DEF UserGap
  <1>6. QED
    BY <1>2, <1>5 DEF CountOf

LEMMA DeleteFlags ==
    ASSUME Typed, FlagTrue, Sharing, Counting, Even, DeletingFlags
    PROVE  FlagTrue'
  <1>1. /\ DataTyped /\ req \in Requests /\ NULL \notin Int
        /\ req.user \in User /\ req.file \in File
    BY TypeParts, Addressed, ParametersAssumption
    DEF Typed, TypeOK, DeletingFlags, DeleteShareRows, DeleteShareCount, DeleteZset,
        DeleteHash, DeleteUserCount, DeleteOwn, At, RankPCs
  <1>2. PICK u \in User, f \in File : u = req.user /\ f = req.file
    BY <1>1
  <1> DEFINE h == <<u, f>>
  <1>3. h \in User \X File /\ h = InHand /\ (UNCHANGED <<req.user, req.file>> => InHand' = h)
    BY <1>2 DEF InHand
  <1>4. req.pc \in Unshared => shares[h] = <<>>
    BY <1>2 DEF Sharing
  <1>5. CASE DeleteShareRows
    <2>1. /\ req'.pc = "del_share_count" /\ UNCHANGED <<req.user, req.file, own, shareCount>>
          /\ DropShareRows(u, f) /\ req.pc = "del_share_rows"
      BY <1>1, <1>2, <1>5 DEF DeleteShareRows, Goto, Requests, At
    <2>2. /\ shares'[h] = <<>>
          /\ \A x \in User \X File : x # h => own'[x] = own[x] /\ shares'[x] = shares[x]
      BY <1>1, <2>1, DroppedShares
    <2>3. shareCount = NULL => Flags(h, 0)'
      <3>1. /\ Agrees(h)
            /\ shareCount = NULL => shares[h] = <<>>
        BY <1>3, <2>1 DEF FlagTrue, TurningPCs
      <3>2. \A i \in DOMAIN own[h] : own[h][i].shared \in {0, 1}
        <4>1. own[h] \in Seq(OwnRow)
          BY <1>1, <1>3 DEF DataTyped
        <4>2. \A i \in DOMAIN own[h] : own[h][i] \in OwnRow
          BY <4>1
        <4>3. QED
          BY <4>2 DEF OwnRow
      <3>3. QED
        BY <2>1, <3>1, <3>2 DEF Agrees, Flags
    <2>4. QED
      BY <1>3, <2>1, <2>2, <2>3, FlagsAt DEF TurningPCs
  <1>6. CASE DeleteShareCount
    <2>1. /\ req.pc = "del_share_count" /\ UNCHANGED <<req.user, req.file, own, shares>>
          /\ shares[h] = <<>>
      BY <1>1, <1>4, <1>6
      DEF DeleteShareCount, Goto, Reply, Requests, At, Unshared
    <2>2. CASE shareCount = NULL
      <3>1. req'.pc = "reply" /\ UNCHANGED shareCount
        BY <1>1, <1>6, <2>2 DEF DeleteShareCount, Reply, Requests
      <3>2. Agrees(h)'
        BY <1>3, <2>1, <2>2 DEF FlagTrue, Flags, Agrees
      <3>3. QED
        BY <1>3, <2>1, <3>1, <3>2, FlagsAt
    <2>3. CASE shareCount # NULL
      <3>1. req'.pc \in {"del_zset", "del_user_count"} /\ shareCount' = shareCount - 1
        BY <1>1, <1>6, <2>3 DEF DeleteShareCount, Goto, Requests
      <3>2. shareCount' # NULL
        BY <1>1, <2>3, <3>1 DEF DataTyped
      <3>3. QED
        BY <1>3, <2>1, <3>1, <3>2, FlagsAt DEF TurningPCs
    <2>4. QED
      BY <2>2, <2>3
  <1>7. CASE \/ DeleteZset \/ DeleteHash \/ DeleteUserCount
             \/ RedisFails /\ req.pc \in {"del_zset", "del_hash"}
    <2>1. req.pc \in {"del_zset", "del_hash", "del_user_count"} /\ shares[h] = <<>>
      BY <1>4, <1>7 DEF DeleteZset, DeleteHash, DeleteUserCount, At, Unshared
    <2>2. req'.pc \in {"del_hash", "del_user_count", "del_own"}
          /\ UNCHANGED <<req.user, req.file>>
      <3>1. CASE DeleteZset \/ DeleteHash
        BY <1>1, <3>1 DEF DeleteZset, DeleteHash, Goto, Requests
      <3>2. CASE DeleteUserCount
        <4>1. userCount[req.user] # NULL
          BY <3>2, OwnerCounted DEF DeleteUserCount, At
        <4>2. QED
          BY <1>1, <3>2, <4>1 DEF DeleteUserCount, Goto, Requests
      <3>3. CASE RedisFails /\ req.pc \in {"del_zset", "del_hash"}
        BY <1>1, <3>3 DEF RedisFails, At, Goto, Requests
      <3>4. QED
        BY <1>7, <3>1, <3>2, <3>3
    <2>3. UNCHANGED <<own, shares, shareCount>>
      BY <1>7 DEF DeleteZset, DeleteHash, DeleteUserCount, RedisFails, mysql
    <2>4. QED
      BY <1>3, <2>1, <2>2, <2>3, FlagsAt DEF TurningPCs
  <1>8. CASE DeleteOwn
    <2>1. /\ req.pc = "del_own" /\ UNCHANGED <<req.user, req.file, shares, shareCount>>
          /\ req'.pc = "del_ref" /\ shares[h] = <<>>
          /\ own' = [own EXCEPT ![h] = <<>>]
      BY <1>1, <1>2, <1>4, <1>8 DEF DeleteOwn, Goto, Requests, At, Unshared
    <2>2. /\ own'[h] = <<>> /\ DOMAIN own'[h] = {}
          /\ \A x \in User \X File : x # h => own'[x] = own[x]
      BY <1>1, <1>3, <2>1 DEF DataTyped
    <2>3. Agrees(h)'
      BY <2>2 DEF Agrees
    <2>4. QED
      BY <1>3, <2>1, <2>2, <2>3, FlagsAt
  <1>9. QED
    BY <1>5, <1>6, <1>7, <1>8 DEF DeletingFlags

\* A client cancels a share it sees.
LEMMA CancelRequested ==
    ASSUME Typed, FlagTrue, NEW op \in Ops, NEW u \in User, NEW f \in File,
           Request(op, u, f), op = "cancel"
    PROVE  FlagTrue'
  <1>1. /\ At("idle") /\ req'.pc = "cancel_flag"
        /\ UNCHANGED <<own, shares, shareCount>>
        /\ \E i \in DOMAIN own[<<u, f>>] : own[<<u, f>>][i].shared = 1
    <2>1. At("idle") /\ req'.pc = FirstStep[op]
      BY RequestsStart
    <2>2. FirstStep["cancel"] = "cancel_flag"
      BY DEF FirstStep
    <2>3. Dispatch(op, u, f) /\ Offered(op, u, f)
      BY DEF Request
    <2>4. UNCHANGED <<own, shares, shareCount>>
      BY <2>3 DEF Dispatch, mysql
    <2>5. \E i \in DOMAIN own[<<u, f>>] : own[<<u, f>>][i].shared = 1
      BY <2>3 DEF Offered
    <2>6. QED
      BY <2>1, <2>2, <2>4, <2>5
  <1>2. \A x \in User \X File : Agrees(x)
    BY <1>1 DEF FlagTrue, At, TurningPCs
  <1>3. shares[<<u, f>>] # <<>>
    BY <1>1, <1>2 DEF Agrees
  <1>4. shareCount # NULL
    BY <1>1, <1>3 DEF FlagTrue, At
  <1>5. QED
    BY <1>1, <1>2, <1>4 DEF FlagTrue, Agrees

AtFlags == \/ ShareFlag \/ ShareInsert \/ ShareCount
           \/ CancelFlag \/ CancelCount \/ CancelRows \/ DeletingFlags
           \/ \E u \in User, f \in File : "cancel" \in Ops /\ Request("cancel", u, f)

\* No other statement comes near the flags.
LEMMA AroundFlags ==
    ASSUME Typed, Placed, Next, ~AtFlags, Faults \cap {"crash", "sql"} = {}
    PROVE  req.pc \notin FlagPCs /\ req'.pc \notin FlagPCs
  <1>1. req \in Requests
    BY DEF Typed, TypeOK
  <1>2. CASE Upload \/ InstantUpload \/ Save \/ List \/ CountOwnDownload
    <2>1. req.pc \notin FlagPCs
      BY <1>2 DEF Upload, UploadStore, UploadInfo, UploadOwn, UploadCount,
                  InstantUpload, Md5Check, Md5Ref, Md5Own, Md5Count, Md5Restore,
                  Save, SaveCheck, SaveRef, SaveOwn, SaveCount, List, ListCount,
                  ListRows, CountOwnDownload, At, FlagPCs, TurningPCs
    <2>2. req'.pc \notin FlagPCs
      BY <1>2, HandlersStay
      DEF UploadPCs, Md5PCs, SavePCs, AllSavePCs, FlagPCs, TurningPCs
    <2>3. QED
      BY <2>1, <2>2
  <1>3. CASE Share
    BY <1>1, <1>3
    DEF Share, ShareCheck, ShareHealZset, ShareHealHash, ShareZset, ShareHash,
        AtFlags, At, Goto, Reply, Requests, FlagPCs, TurningPCs
  <1>4. CASE Delete
    <2>1. CASE DeleteCheck
      <3>1. IsShared(req.user, req.file) /\ req.pc = "del_check"
        BY <2>1 DEF DeleteCheck, At, Placed, OwnedPCs, IsShared
      <3>2. req'.pc \in {"del_share_rows", "reply"}
        BY <1>1, <2>1, <3>1 DEF DeleteCheck, Goto, Reply, Requests
      <3>3. QED
        BY <3>1, <3>2 DEF FlagPCs, TurningPCs
    <2>2. CASE DeleteRef \/ DeleteInfo \/ DeleteStore
      BY <1>1, <2>2
      DEF DeleteRef, DeleteInfo, DeleteStore, At, Goto, Reply, Requests, FlagPCs,
          TurningPCs
    <2>3. QED
      BY <1>4, <2>1, <2>2 DEF Delete, AtFlags, DeletingFlags
  <1>5. CASE Cancel \/ SharePv
    BY <1>1, <1>5
    DEF Cancel, CancelZset, CancelHash, SharePv, SharePvUpdate, SharePvZset,
        SharePvHash, AtFlags, At, Goto, Reply, DealshareReply, Requests, FlagPCs,
        TurningPCs
  <1>6. CASE Ranking
    BY <1>1, <1>6
    DEF Ranking, RankCount, RankCompare, RankClearZset, RankClearHash, RankLoad,
        RankImportZset, RankImportHash, RankList, At, Goto, Reply, Requests,
        FlagPCs, TurningPCs
  <1>7. CASE \E op \in Ops, u \in User, f \in File : Request(op, u, f)
    <2>1. PICK op \in Ops, u \in User, f \in File : Request(op, u, f)
      BY <1>7
    <2>2. op # "cancel" /\ op \in AllOps
      BY <2>1, ParametersAssumption DEF AtFlags
    <2>3. FirstStep[op] \notin FlagPCs
      BY <2>2 DEF AllOps, FirstStep, FlagPCs, TurningPCs
    <2>4. QED
      BY <2>1, <2>3, RequestsStart DEF At, FlagPCs, TurningPCs
  <1>8. CASE RequestRanking \/ Respond
    BY <1>8, RequestsStart DEF RequestRanking, Respond, At, FlagPCs, TurningPCs
  <1>9. CASE RepeatRequest
    BY <1>9 DEF RepeatRequest, Placed
  <1>10. CASE QueryFails \/ DfsFails \/ RedisLoss
    BY <1>1, <1>10 DEF QueryFails, DfsFails, RedisLoss, At, Goto, Reply,
                       DealshareReply, Requests, FlagPCs, TurningPCs
  <1>11. CASE RedisFails
    <2>1. req.pc \notin {"del_zset", "del_hash"}
      BY <1>11 DEF AtFlags, DeletingFlags
    <2>2. QED
      BY <1>1, <1>11, <2>1 DEF RedisFails, At, Goto, Reply, DealshareReply,
                               Requests, FlagPCs, TurningPCs
  <1>12. CASE SqlFails \/ Crash
    BY <1>12 DEF SqlFails, Crash, Fault
  <1>13. QED
    BY <1>2, <1>3, <1>4, <1>5, <1>6, <1>7, <1>8, <1>9, <1>10, <1>11, <1>12
    DEF Next, Handle

\* Elsewhere rows of user_file_list come unflagged, for files nobody shares.
LEMMA AgreesKept ==
    ASSUME Typed, Typed', Sharing, Placed, [Next]_vars, ~AtFlags
    PROVE  \A x \in User \X File : /\ Agrees(x) => Agrees(x)'
                                   /\ shares'[x] # <<>> => shares[x] # <<>>
  <1>1. DataTyped /\ DataTyped' /\ req \in Requests
    BY TypeParts DEF Typed, TypeOK
  <1>2. \A x \in User \X File : shares'[x] # <<>> <=> shares[x] # <<>>
    <2>1. CASE UNCHANGED shares
      BY <2>1
    <2>2. CASE SharePvUpdate
      <3>1. \A x \in User \X File : DOMAIN shares'[x] = DOMAIN shares[x]
        BY <1>1, <2>2, PvKeepsRows
      <3>2. QED
        BY <1>1, <3>1, ShareSeqs DEF DataTyped
    <2>3. QED
      BY <2>1, <2>2, SharesWriters DEF AtFlags, DeletingFlags
  <1>3. \A x \in User \X File :
           \/ own'[x] = own[x]
           \/ shares[x] = <<>> /\ \A i \in DOMAIN own'[x] : own'[x][i].shared = 0
           \/ /\ DOMAIN own'[x] = DOMAIN own[x]
              /\ \A i \in DOMAIN own[x] : own'[x][i].shared = own[x][i].shared
    <2>1. CASE UNCHANGED own
      BY <2>1
    <2>2. CASE UploadOwn \/ SaveOwn
      <3>1. /\ req.user \in User /\ req.file \in File /\ AddOwnRow(req.user, req.file)
            /\ ~Owns(req.user, req.file)
        BY <2>2, Addressed DEF UploadOwn, SaveOwn, At, RankPCs, Placed, AddPCs
      <3>2. PICK u \in User, f \in File : u = req.user /\ f = req.file
        BY <3>1
      <3>3. own[<<u, f>>] = <<>> /\ shares[<<u, f>>] = <<>>
        BY <3>1, <3>2 DEF Sharing, SharedFileOwned, Owns
      <3>4. /\ own'[<<u, f>>] = Append(<<>>, [shared |-> 0, pv |-> 0])
            /\ \A x \in User \X File : x # <<u, f>> => own'[x] = own[x]
        BY <1>1, <3>1, <3>2, <3>3 DEF AddOwnRow, DataTyped
      <3>5. \A i \in DOMAIN own'[<<u, f>>] : own'[<<u, f>>][i].shared = 0
        BY <3>4
      <3>6. QED
        BY <3>3, <3>4, <3>5
    <2>3. CASE CountOwnDownload
      <3>1. own' = [own EXCEPT ![<<req.user, req.file>>] =
                         [i \in DOMAIN @ |-> [@[i] EXCEPT !.pv = 1]]]
        BY <2>3 DEF CountOwnDownload
      <3>2. ASSUME NEW x \in User \X File
            PROVE  /\ DOMAIN own'[x] = DOMAIN own[x]
                   /\ \A i \in DOMAIN own[x] : own'[x][i].shared = own[x][i].shared
        <4>1. own[x] \in Seq(OwnRow)
          BY <1>1 DEF DataTyped
        <4>2. \A i \in DOMAIN own[x] : own[x][i] \in OwnRow
          BY <4>1
        <4>3. own'[x] = own[x] \/ own'[x] = [i \in DOMAIN own[x] |-> [own[x][i] EXCEPT !.pv = 1]]
          BY <1>1, <3>1 DEF DataTyped
        <4>4. QED
          BY <4>2, <4>3 DEF OwnRow
      <3>3. QED
        BY <3>2
    <2>4. ~Md5Own
      BY DEF Md5Own, At, Placed, Md5PCs
    <2>5. QED
      BY <2>1, <2>2, <2>3, <2>4, OwnWriters DEF AtFlags, DeletingFlags
  <1>4. ASSUME NEW x \in User \X File, Agrees(x)
        PROVE  Agrees(x)'
    BY <1>2, <1>3, <1>4 DEF Agrees
  <1>5. QED
    BY <1>2, <1>4

LEMMA FlagTrueStep ==
    ASSUME Faults \cap {"crash", "sql"} = {}, Typed, Typed', Sharing, Counting, Even,
           FlagTrue, [Next]_vars
    PROVE  FlagTrue'
  <1>1. Placed /\ DataTyped /\ NULL \notin Int
    BY TypeParts, ParametersAssumption DEF Counting, Typed
  <1>2. CASE AtFlags
    BY <1>2, SharingFlags, DeleteFlags, CancelRequested DEF AtFlags
  <1>3. CASE UNCHANGED vars
    BY <1>3 DEF vars, mysql, FlagTrue, Agrees, Flags, InHand
  <1>4. CASE Next /\ ~AtFlags
    <2>1. req.pc \notin FlagPCs /\ req'.pc \notin FlagPCs
      BY <1>1, <1>4, AroundFlags
    <2>2. shareCount' = NULL => shareCount = NULL
      <3>1. UNCHANGED shareCount \/ RankCount
        BY <1>4, ShareCountWriters DEF AtFlags, DeletingFlags
      <3>2. QED
        BY <3>1 DEF RankCount
    <2>3. QED
      BY <1>1, <1>4, <2>1, <2>2, AgreesKept, FlagsAway
  <1>5. QED
    BY <1>2, <1>3, <1>4

LEMMA FlagTrueInit == Init => FlagTrue
  BY DEF Init, FlagTrue, Agrees, Idle, TurningPCs

\* Careful clients and a server that neither dies nor fails to write: between
\* requests shared_status tells who shares the file.
THEOREM FlagsAgree ==
    ASSUME CarefulClients, Faults \cap {"crash", "sql"} = {}
    PROVE  Spec => []SharedFlagAgrees
  <1>1. Init => Typed /\ Sharing /\ Counting /\ Even /\ FlagTrue
    BY TypedInit, SharingInit, CountsInit, FlagTrueInit
  <1>2. Typed /\ Sharing /\ Counting /\ Even /\ FlagTrue /\ [Next]_vars
          => (Typed /\ Sharing /\ Counting /\ Even /\ FlagTrue)'
    BY TypedStep, SharingStep, CountingStep, EvenStep, FlagTrueStep
  <1>3. FlagTrue => SharedFlagAgrees
    BY DEF FlagTrue, SharedFlagAgrees, Agrees, At, TurningPCs
  <1>4. QED
    BY <1>1, <1>2, <1>3, PTL DEF Spec

-----------------------------------------------------------------------------
(* What a ranking lists.                                                      *)

\* The files of some share rows.
FilesOf(rows) == {r[1][2] : r \in rows}

Importing  == {"rank_import_zset", "rank_import_hash"}
ListingPCs == Importing \cup {"rank_clear_hash", "rank_load", "rank_list"}
RankedWell == InSync \/ Ranked = SharedFiles
ListAnswered == req.pc = "reply" /\ req.op = "rank" /\ req.code = OK

\* An import adds what it still has to do to what is ranked already.
Listing ==
    /\ req.pc \in {"rank_clear_hash", "rank_load"} => Ranked = {}
    /\ req.pc \in Importing => Ranked \cup FilesOf(req.todo) = SharedFiles
    /\ req.pc = "rank_list" \/ ListAnswered => RankedWell

LEMMA RowsOfShares ==
    ASSUME DataTyped
    PROVE  /\ FilesOf(ShareRows) = SharedFiles
           /\ \A r \in ShareRows : r[1][2] \in SharedFiles
  <1>1. ASSUME NEW r \in ShareRows PROVE r[1][2] \in SharedFiles
    <2>1. PICK x \in User \X File : r \in {x} \X DOMAIN shares[x]
      BY DEF ShareRows
    <2>2. PICK u \in User, f \in File : x = <<u, f>>
      BY <2>1
    <2>3. r[1][2] = f /\ DOMAIN shares[<<u, f>>] # {}
      BY <2>1, <2>2
    <2>4. shares[<<u, f>>] # <<>>
      BY <2>3, ShareSeqs DEF DataTyped
    <2>5. QED
      BY <2>3, <2>4 DEF SharedFiles, HasShare
  <1>2. ASSUME NEW f \in SharedFiles PROVE \E r \in ShareRows : r[1][2] = f
    <2>1. PICK u \in User : shares[<<u, f>>] # <<>> /\ f \in File
      BY DEF SharedFiles, HasShare
    <2>2. PICK i \in DOMAIN shares[<<u, f>>] : TRUE
      BY <2>1, ShareSeqs DEF DataTyped
    <2>3. <<<<u, f>>, i>> \in ShareRows
      BY <2>1, <2>2 DEF ShareRows
    <2>4. QED
      BY <2>3
  <1>3. QED
    BY <1>1, <1>2 DEF FilesOf

\* With one row a file, there are as many rows as shared files.
LEMMA OneRowEach ==
    ASSUME DataTyped, ShareRowUnique, IsFiniteSet(ShareRows)
    PROVE  Cardinality(SharedFiles) = Cardinality(ShareRows)
  <1> DEFINE f == [r \in ShareRows |-> r[1][2]]
  <1>1. f \in [ShareRows -> SharedFiles]
    BY RowsOfShares
  <1>2. \A r, s \in ShareRows : f[r] = f[s] => r = s
    BY DEF ShareRowUnique
  <1>3. \A g \in SharedFiles : \E r \in ShareRows : f[r] = g
    BY RowsOfShares DEF FilesOf
  <1>4. f \in Bijection(ShareRows, SharedFiles)
    BY <1>1, <1>2, <1>3 DEF Bijection, Injection, IsInjective, Surjection
  <1>5. ExistsBijection(ShareRows, SharedFiles)
    BY <1>4 DEF ExistsBijection
  <1>6. QED
    BY <1>5, FS_Bijection

\* Only the statements of a ranking lead to an answered ranking.
LEMMA OutsideRanking ==
    ASSUME Typed, Next, ~Ranking, "redis" \notin Faults
    PROVE  req'.pc \notin ListingPCs /\ ~ListAnswered'
  <1>1. req \in Requests
    BY DEF Typed, TypeOK
  <1>2. ASSUME req.pc \notin RankPCs \cup {"idle", "reply"}, req'.op = req.op
        PROVE  ~ListAnswered'
    BY <1>2 DEF Typed, Control, ListAnswered
  <1>3. CASE Upload \/ InstantUpload \/ Save \/ List \/ CountOwnDownload
    <2>1. req.pc \notin RankPCs \cup {"idle", "reply"} /\ req'.op = req.op
      BY <1>1, <1>3
      DEF Upload, UploadStore, UploadInfo, UploadOwn, UploadCount,
          InstantUpload, Md5Check, Md5Ref, Md5Own, Md5Count, Md5Restore,
          Save, SaveCheck, SaveRef, SaveOwn, SaveCount, List, ListCount,
          ListRows, CountOwnDownload, At, Goto, Reply, DealshareReply, Requests,
          RankPCs
    <2>2. req'.pc \notin ListingPCs
      BY <1>3, HandlersStay
      DEF UploadPCs, Md5PCs, SavePCs, AllSavePCs, ListingPCs, Importing
    <2>3. QED
      BY <1>2, <2>1, <2>2
  <1>4. CASE Share \/ Delete \/ Cancel \/ SharePv
    <2>1. req.pc \notin RankPCs \cup {"idle", "reply"}
      BY <1>4
      DEF Share, ShareCheck, ShareHealZset, ShareHealHash, ShareFlag, ShareInsert,
          ShareCount, ShareZset, ShareHash, Delete, DeleteCheck, DeleteShareRows,
          DeleteShareCount, DeleteZset, DeleteHash, DeleteUserCount, DeleteOwn,
          DeleteRef, DeleteInfo, DeleteStore, Cancel, CancelFlag, CancelCount,
          CancelRows, CancelZset, CancelHash, SharePv, SharePvUpdate, SharePvZset,
          SharePvHash, At, RankPCs
    <2>2. req'.op = req.op
      <3>1. CASE Share
        BY <1>1, <3>1
        DEF Share, ShareCheck, ShareHealZset, ShareHealHash, ShareFlag,
            ShareInsert, ShareCount, ShareZset, ShareHash, Goto, Reply, Requests
      <3>2. CASE Delete
        BY <1>1, <3>2
        DEF Delete, DeleteCheck, DeleteShareRows, DeleteShareCount, DeleteZset,
            DeleteHash, DeleteUserCount, DeleteOwn, DeleteRef, DeleteInfo,
            DeleteStore, Goto, Reply, Requests
      <3>3. CASE Cancel \/ SharePv
        BY <1>1, <3>3
        DEF Cancel, CancelFlag, CancelCount, CancelRows, CancelZset, CancelHash,
            SharePv, SharePvUpdate, SharePvZset, SharePvHash, Goto, Reply,
            DealshareReply, Requests
      <3>4. QED
        BY <1>4, <3>1, <3>2, <3>3
    <2>3. req'.pc \notin ListingPCs
      BY <1>4, HandlersStay
      DEF SharePCs, DeletePCs, CancelPCs, SharePvPCs, ListingPCs, Importing
    <2>4. QED
      BY <1>2, <2>1, <2>2, <2>3
  <1>5. CASE (\E op \in Ops, u \in User, f \in File : Request(op, u, f))
             \/ RequestRanking \/ RepeatRequest \/ Respond \/ Crash
    BY <1>5, RequestsStart DEF FirstPCs, ListingPCs, Importing, ListAnswered
  <1>6. CASE SqlFails \/ QueryFails \/ DfsFails
    <2>1. /\ req.pc \notin {"idle", "reply"} /\ req'.op = req.op
          /\ req'.pc \notin ListingPCs
      BY <1>1, <1>6 DEF SqlFails, QueryFails, DfsFails, At, Goto, Reply,
                        DealshareReply, Requests, ListingPCs, Importing
    <2>2. req.pc \in RankPCs => req'.code = FAIL
      BY <1>1, <1>6 DEF SqlFails, QueryFails, DfsFails, At, Goto, Reply,
                        DealshareReply, Requests, RankPCs
    <2>3. FAIL # OK
      BY DEF FAIL, OK
    <2>4. QED
      BY <1>2, <2>1, <2>2, <2>3 DEF ListAnswered
  <1>7. CASE RedisFails
    BY <1>7 DEF RedisFails, Fault
  <1>8. CASE RedisLoss
    BY <1>8 DEF RedisLoss, At, ListingPCs, Importing, ListAnswered
  <1>9. QED
    BY <1>3, <1>4, <1>5, <1>6, <1>7, <1>8 DEF Next, Handle

\* The statements of a ranking change neither the shares nor, once it has one,
\* their counter.
LEMMA RankingSteps ==
    ASSUME Typed, Listing, Ranking
    PROVE  Listing'
  <1>1. /\ DataTyped /\ req \in Requests
        /\ SharedFiles' = SharedFiles
    BY TypeParts
    DEF Typed, TypeOK, Ranking, RankCount, RankCompare, RankClearZset,
        RankClearHash, RankLoad, RankImportZset, RankImportHash, RankList, mysql,
        SharedFiles, HasShare
  <1>2. CASE RankCount
    <2>1. req'.pc = "rank_compare"
      BY <1>1, <1>2 DEF RankCount, Goto, Requests
    <2>2. QED
      BY <2>1 DEF Listing, Importing, ListAnswered
  <1>3. CASE RankCompare
    <2>1. /\ UNCHANGED <<zset, shareCount>>
          /\ req'.pc \in {"rank_list", "rank_clear_zset"}
          /\ req'.pc = "rank_list" => InSync
      BY <1>1, <1>3 DEF RankCompare, Goto, Requests, mysql, redis
    <2>2. InSync' <=> InSync
      BY <2>1 DEF InSync, Ranked
    <2>3. QED
      BY <2>1, <2>2 DEF Listing, Importing, ListAnswered, RankedWell
  <1>4. CASE RankClearZset
    <2>1. req'.pc = "rank_clear_hash" /\ Ranked' = {}
      BY <1>1, <1>4 DEF RankClearZset, Goto, Requests, Ranked
    <2>2. QED
      BY <2>1 DEF Listing, Importing, ListAnswered
  <1>5. CASE RankClearHash
    <2>1. req'.pc = "rank_load" /\ req.pc = "rank_clear_hash" /\ Ranked' = Ranked
      BY <1>1, <1>5 DEF RankClearHash, Goto, Requests, Ranked, At
    <2>2. QED
      BY <2>1 DEF Listing, Importing, ListAnswered
  <1>6. CASE RankLoad
    <2>1. /\ req'.pc = "rank_import_zset" /\ req'.todo = ShareRows
          /\ req.pc = "rank_load" /\ Ranked' = Ranked
      BY <1>1, <1>6 DEF RankLoad, Requests, Ranked, At, redis
    <2>2. Ranked' \cup FilesOf(req'.todo) = SharedFiles
      BY <1>1, <2>1, RowsOfShares DEF Listing
    <2>3. QED
      BY <1>1, <2>1, <2>2 DEF Listing, Importing, ListAnswered, FilesOf
  <1>7. CASE RankImportZset
    <2>1. req.pc = "rank_import_zset" /\ Ranked \cup FilesOf(req.todo) = SharedFiles
      BY <1>7 DEF RankImportZset, At, Listing, Importing
    <2>2. CASE req.todo = {} /\ Goto("rank_list") /\ UNCHANGED zset
      <3>1. FilesOf(req.todo) = {} /\ Ranked' = Ranked /\ req'.pc = "rank_list"
        BY <1>1, <2>2 DEF FilesOf, Ranked, Goto, Requests
      <3>2. QED
        BY <1>1, <2>1, <3>1 DEF Listing, Importing, RankedWell
    <2>3. ASSUME NEW r \in req.todo, SetScore(r[1][2], Pv(r)),
                 req' = [req EXCEPT !.pc = "rank_import_hash",
                                    !.file = r[1][2], !.todo = @ \ {r}]
          PROVE  Listing'
      <3>1. r \in ShareRows
        BY <2>1 DEF Typed, Control
      <3>2. r[1][2] \in File /\ Pv(r) # NULL
        <4>1. r[1][2] \in File /\ Pv(r) \in Nat
          BY <1>1, <3>1 DEF DataTyped, ShareRows, Pv
        <4>2. QED
          BY <4>1, ParametersAssumption
      <3>3. Ranked' = Ranked \cup {r[1][2]}
        BY <1>1, <2>3, <3>2, ScoreSet
      <3>4. req'.pc = "rank_import_hash" /\ req'.todo = req.todo \ {r}
        BY <1>1, <2>3 DEF Requests
      <3>5. FilesOf(req.todo) = FilesOf(req.todo \ {r}) \cup {r[1][2]}
        BY DEF FilesOf
      <3>6. Ranked' \cup FilesOf(req'.todo) = SharedFiles'
        BY <1>1, <2>1, <3>3, <3>4, <3>5
      <3>7. QED
        BY <3>4, <3>6 DEF Listing, Importing, ListAnswered, FilesOf
    <2>4. QED
      BY <1>7, <2>2, <2>3 DEF RankImportZset
  <1>8. CASE RankImportHash
    <2>1. /\ req'.pc = "rank_import_zset" /\ req.pc = "rank_import_hash"
          /\ Ranked' = Ranked /\ req'.todo = req.todo
      BY <1>1, <1>8 DEF RankImportHash, Goto, Requests, Ranked, At
    <2>2. QED
      BY <1>1, <2>1 DEF Listing, Importing, ListAnswered, FilesOf
  <1>9. CASE RankList
    <2>1. /\ req'.pc = "reply" /\ req.pc = "rank_list"
          /\ Ranked' = Ranked /\ UNCHANGED shareCount
      BY <1>1, <1>9 DEF RankList, Reply, Requests, Ranked, At, redis, mysql
    <2>2. RankedWell'
      BY <1>1, <2>1 DEF Listing, RankedWell, InSync
    <2>3. QED
      BY <2>1, <2>2 DEF Listing, Importing
  <1>10. QED
    BY <1>2, <1>3, <1>4, <1>5, <1>6, <1>7, <1>8, <1>9 DEF Ranking

LEMMA ListingStep ==
    "redis" \notin Faults /\ Typed /\ Listing /\ [Next]_vars => Listing'
  <1> SUFFICES ASSUME "redis" \notin Faults, Typed, Listing, [Next]_vars
               PROVE  Listing'
    OBVIOUS
  <1>1. CASE UNCHANGED vars
    BY <1>1
    DEF vars, mysql, redis, Listing, ListAnswered, RankedWell, InSync, Ranked,
        SharedFiles, HasShare, FilesOf
  <1>2. CASE Ranking
    BY <1>2, RankingSteps
  <1>3. CASE Next /\ ~Ranking
    BY <1>3, OutsideRanking DEF Listing, ListingPCs, Importing
  <1>4. QED
    BY <1>1, <1>2, <1>3

LEMMA ListingInit == Init => Listing
  BY DEF Init, Idle, Listing, Importing, ListAnswered

\* Whatever the process, the statements and the storage do: while Redis answers
\* and the SELECT on share_file_list does, a ranking that finds the counter of
\* shares right lists as many files as are shared.
THEOREM RankingCounts ==
    ASSUME Faults \cap {"redis", "query"} = {}
    PROVE  Spec => []RankingListsShares
  <1>1. "redis" \notin Faults /\ "query" \notin Faults
    OBVIOUS
  <1>2. Typed /\ ShareRowUnique /\ IsFiniteSet(ShareRows) /\ Listing => RankingListsShares
    <2> SUFFICES ASSUME Typed, ShareRowUnique, IsFiniteSet(ShareRows), Listing,
                        ListAnswered, shareCount = Cardinality(ShareRows)
                 PROVE  Cardinality(Ranked) = Cardinality(SharedFiles)
      BY DEF RankingListsShares, ListAnswered, At
    <2>1. Cardinality(SharedFiles) = Cardinality(ShareRows)
      BY OneRowEach, TypeParts DEF Typed
    <2>2. InSync \/ Ranked = SharedFiles
      BY DEF Listing, RankedWell
    <2>3. QED
      BY <2>1, <2>2 DEF InSync
  <1>3. Init => Typed /\ IsFiniteSet(ShareRows) /\ Listing
    BY TypedInit, SharesFiniteInit, ListingInit
  <1>4. Typed /\ IsFiniteSet(ShareRows) /\ Listing /\ [Next]_vars
          => (Typed /\ IsFiniteSet(ShareRows) /\ Listing)'
    BY <1>1, TypedStep, SharesFiniteStep, ListingStep
  <1>5. QED
    BY <1>1, <1>2, <1>3, <1>4, SharedOnce, PTL DEF Spec
-----------------------------------------------------------------------------
(* What a request leaves as it is: the lists of the other users, if their     *)
(* files have other digests.                                                  *)

\* The operations that may change what a list shows, and where they are.
EditOps == {"upload", "md5", "share", "del", "cancel", "save"}
EditPCs == UploadPCs \cup Md5PCs \cup SharePCs \cup DeletePCs \cup CancelPCs
             \cup AllSavePCs

\* Only those operations get there, a share stays in its handler, and FastDFS
\* gives out no id twice.
Edits ==
    /\ req.pc \in EditPCs => req.op \in EditOps
    /\ req.op = "share" => req.pc \in SharePCs \cup {"reply"}
    /\ DOMAIN fileInfo \subseteq 1..uploads
    /\ req.pc = "up_info" => req.fid \in (1..uploads) \ DOMAIN fileInfo

\* Every user has files of D only, and asks for no other.
Confined(D) ==
    /\ \A u \in User, f \in File : Owns(u, f) => f \in D[u]
    /\ req.op \in EditOps => req.file \in D[req.user]

\* No request in hand is about the list of u, nor about a digest in it.
Aside(u, D) ==
    req.op \in EditOps => req.user # u /\ \A f \in D[u] : Md5Of[f] # M

\* A row of the request's user and file apart, the lists stay as they are, and
\* so does file_info, its digest apart.
SameRow(x) ==
    /\ DOMAIN own'[x] = DOMAIN own[x]
    /\ \A i \in DOMAIN own[x] : own'[x][i].shared = own[x][i].shared
OthersKept ==
    /\ \A x \in User \X File :
          req.pc \notin EditPCs \/ x # <<req.user, req.file>> => SameRow(x)
    /\ \A m \in Md5 : req.pc \notin EditPCs \/ m # M =>
          (RowsOf(m)' = {} <=> RowsOf(m) = {})

LEMMA KeptByNoEdit == ASSUME UNCHANGED <<own, fileInfo>> PROVE OthersKept
  BY DEF OthersKept, SameRow, RowsOf

LEMMA KeptByOwnEdit ==
    ASSUME Typed, req.pc \in EditPCs, UNCHANGED fileInfo, NEW s,
           own' = [own EXCEPT ![<<req.user, req.file>>] = s]
    PROVE  OthersKept
  BY DEF OthersKept, SameRow, RowsOf, Typed, TypeOK

LEMMA KeptByCount ==
    ASSUME Typed, UNCHANGED own, NEW n \in Nat, SetRefCount(M, n)
    PROVE  OthersKept /\ DOMAIN fileInfo' = DOMAIN fileInfo
  <1>1. DOMAIN fileInfo' = DOMAIN fileInfo /\ \A m : RowsOf(m)' = RowsOf(m)
    BY SetRefCountTyped, TypeParts DEF Typed, RowsOf
  <1>2. QED
    BY <1>1 DEF OthersKept, SameRow

LEMMA UploadElsewhere == Typed /\ Edits /\ Upload => OthersKept
  <1> SUFFICES ASSUME Typed, Edits, Upload PROVE OthersKept
    OBVIOUS
  <1>1. req.pc \in EditPCs
    BY UploadGoesOn DEF Within, EditPCs
  <1>2. CASE UploadStore \/ UploadCount
    BY <1>2, KeptByNoEdit DEF UploadStore, UploadCount, mysql
  <1>3. CASE UploadInfo
    <2>1. req.fid \notin DOMAIN fileInfo
      BY <1>3 DEF UploadInfo, At, Edits
    <2>2. /\ UNCHANGED own
          /\ \A m \in Md5 : m # M => RowsOf(m)' = RowsOf(m)
      BY <1>3, <2>1 DEF UploadInfo, RowsOf
    <2>3. QED
      BY <1>1, <2>2 DEF OthersKept, SameRow
  <1>4. CASE UploadOwn
    BY <1>1, <1>4, KeptByOwnEdit DEF UploadOwn, AddOwnRow
  <1>5. QED
    BY <1>2, <1>3, <1>4 DEF Upload

LEMMA InstantUploadElsewhere == Typed /\ InstantUpload => OthersKept
  <1> SUFFICES ASSUME Typed, InstantUpload PROVE OthersKept
    OBVIOUS
  <1>1. req.pc \in EditPCs /\ req.pc \notin RankPCs \cup {"idle", "reply"}
    BY InstantUploadGoesOn, HandlerPlaces DEF Within, EditPCs
  <1>2. CASE Md5Check \/ Md5Count
    BY <1>2, KeptByNoEdit DEF Md5Check, Md5Count, mysql
  <1>3. CASE Md5Ref
    <2>1. fileInfo[FirstOf(M)].count + 1 \in Nat
      BY <1>3, FirstCount, TypeParts DEF Md5Ref, At, Typed, Control
    <2>2. QED
      BY <1>3, <2>1, KeptByCount DEF Md5Ref
  <1>4. CASE Md5Own
    BY <1>1, <1>4, KeptByOwnEdit DEF Md5Own, AddOwnRow
  <1>5. CASE Md5Restore
    BY <1>1, <1>5, Addressed, KeptByCount DEF Md5Restore
  <1>6. QED
    BY <1>2, <1>3, <1>4, <1>5 DEF InstantUpload

LEMMA ShareElsewhere == Typed /\ (Share \/ Cancel) => OthersKept
  <1> SUFFICES ASSUME Typed, Share \/ Cancel PROVE OthersKept
    OBVIOUS
  <1>1. req.pc \in EditPCs
    BY ShareGoesOn, CancelGoesOn DEF Within, EditPCs
  <1>2. CASE ShareFlag \/ CancelFlag
    BY <1>1, <1>2, KeptByOwnEdit DEF ShareFlag, CancelFlag, SetShared
  <1>3. CASE ~(ShareFlag \/ CancelFlag)
    BY <1>3, KeptByNoEdit
    DEF Share, ShareCheck, ShareHealZset, ShareHealHash, ShareInsert, ShareCount,
        ShareZset, ShareHash, Cancel, CancelCount, CancelRows, CancelZset,
        CancelHash, mysql
  <1>4. QED
    BY <1>2, <1>3

LEMMA DeleteElsewhere == Typed /\ Delete => OthersKept
  <1> SUFFICES ASSUME Typed, Delete PROVE OthersKept
    OBVIOUS
  <1>1. req.pc \in EditPCs
    BY DeleteGoesOn DEF Within, EditPCs
  <1>2. CASE DeleteOwn
    BY <1>1, <1>2, KeptByOwnEdit DEF DeleteOwn
  <1>3. CASE DeleteRef
    <2>1. CASE UNCHANGED fileInfo
      BY <1>3, <2>1, KeptByNoEdit DEF DeleteRef
    <2>2. CASE RowsOf(M) # {} /\ SetRefCount(M, Lower(fileInfo[FirstOf(M)].count))
      <3>1. Lower(fileInfo[FirstOf(M)].count) \in Nat
        BY <2>2, FirstCount, LowerTyped, TypeParts DEF Typed
      <3>2. QED
        BY <1>3, <2>2, <3>1, KeptByCount DEF DeleteRef
    <2>3. QED
      BY <1>3, <2>1, <2>2 DEF DeleteRef
  <1>4. CASE DeleteInfo
    <2>1. CASE UNCHANGED fileInfo
      BY <1>4, <2>1, KeptByNoEdit DEF DeleteInfo
    <2>2. CASE fileInfo' = [i \in DOMAIN fileInfo \ RowsOf(M) |-> fileInfo[i]]
      <3>1. \A m \in Md5 : m # M => RowsOf(m)' = RowsOf(m)
        BY <2>2 DEF RowsOf
      <3>2. QED
        BY <1>1, <1>4, <3>1 DEF DeleteInfo, OthersKept, SameRow
    <2>3. QED
      BY <1>4, <2>1, <2>2 DEF DeleteInfo
  <1>5. CASE ~(DeleteOwn \/ DeleteRef \/ DeleteInfo)
    BY <1>5, KeptByNoEdit
    DEF Delete, DeleteCheck, DeleteShareRows, DeleteShareCount, DeleteZset,
        DeleteHash, DeleteUserCount, DeleteStore, mysql
  <1>6. QED
    BY <1>2, <1>3, <1>4, <1>5

LEMMA SaveElsewhere == Typed /\ Save => OthersKept
  <1> SUFFICES ASSUME Typed, Save PROVE OthersKept
    OBVIOUS
  <1>1. req.pc \in EditPCs
    BY SaveGoesOn DEF Within, EditPCs
  <1>2. CASE SaveCheck \/ SaveCount
    BY <1>2, KeptByNoEdit DEF SaveCheck, SaveCount, mysql
  <1>3. CASE SaveRef
    <2>1. fileInfo[FirstOf(M)].count + 1 \in Nat
      BY <1>3, FirstCount, TypeParts DEF SaveRef, At, Typed, Control
    <2>2. QED
      BY <1>3, <2>1, KeptByCount DEF SaveRef
  <1>4. CASE SaveOwn
    BY <1>1, <1>4, KeptByOwnEdit DEF SaveOwn, AddOwnRow
  <1>5. QED
    BY <1>2, <1>3, <1>4 DEF Save

LEMMA PvElsewhere == Typed /\ CountOwnDownload => OthersKept
  <1> SUFFICES ASSUME Typed, CountOwnDownload PROVE OthersKept
    OBVIOUS
  <1>1. DataTyped /\ UNCHANGED fileInfo
    BY TypeParts DEF Typed, CountOwnDownload
  <1>2. ASSUME NEW x \in User \X File PROVE SameRow(x)
    <2>1. own[x] \in Seq(OwnRow) /\ own'[x] \in {own[x], [i \in DOMAIN own[x] |-> [own[x][i] EXCEPT !.pv = 1]]}
      BY <1>1, <1>2 DEF CountOwnDownload, DataTyped
    <2>2. \A i \in DOMAIN own[x] : [own[x][i] EXCEPT !.pv = 1].shared = own[x][i].shared
      BY <2>1 DEF OwnRow
    <2>3. QED
      BY <2>1, <2>2 DEF SameRow
  <1>3. QED
    BY <1>1, <1>2 DEF OthersKept, RowsOf

\* What a handler executes, or fails to, concerns its request and nothing else.
LEMMA HandleElsewhere ==
    Typed /\ Edits /\ (Handle \/ SqlFails \/ QueryFails \/ RedisFails \/ DfsFails)
        => OthersKept
  <1>1. Typed /\ (SharePv \/ Ranking \/ List) => OthersKept
    BY KeptByNoEdit
    DEF SharePv, SharePvUpdate, SharePvZset, SharePvHash, Ranking, RankCount,
        RankCompare, RankClearZset, RankClearHash, RankLoad, RankImportZset,
        RankImportHash, RankList, List, ListCount, ListRows, mysql
  <1>2. SqlFails \/ QueryFails \/ RedisFails \/ DfsFails => OthersKept
    <2>1. SqlFails \/ QueryFails \/ RedisFails \/ DfsFails => UNCHANGED mysql
      BY DEF SqlFails, QueryFails, RedisFails, DfsFails
    <2>2. QED
      BY <2>1, KeptByNoEdit DEF mysql
  <1>3. QED
    BY <1>1, <1>2, UploadElsewhere, InstantUploadElsewhere, ShareElsewhere,
       DeleteElsewhere, SaveElsewhere, PvElsewhere DEF Handle

LEMMA EditsGoOn ==
    Typed /\ (Handle \/ SqlFails \/ QueryFails \/ RedisFails \/ DfsFails)
        => /\ GoesOn /\ (req'.pc \in EditPCs => req.pc \in EditPCs)
           /\ req.pc \in SharePCs \cup {"reply"} => req'.pc \in SharePCs \cup {"reply"}
  <1> DEFINE Goal == /\ GoesOn /\ (req'.pc \in EditPCs => req.pc \in EditPCs)
                     /\ req.pc \in SharePCs \cup {"reply"}
                           => req'.pc \in SharePCs \cup {"reply"}
  <1>1. ASSUME NEW S \in {UploadPCs, Md5PCs, SharePCs, DeletePCs, CancelPCs,
                          AllSavePCs, PvPCs, RankPCs, ListPCs}, Within(S)
        PROVE  Goal
    <2>1. /\ "reply" \notin EditPCs /\ (S \subseteq EditPCs \/ S \cap EditPCs = {})
          /\ S = SharePCs \/ S \cap (SharePCs \cup {"reply"}) = {}
      BY DEF EditPCs, UploadPCs, Md5PCs, SharePCs, DeletePCs, CancelPCs,
             AllSavePCs, PvPCs, RankPCs, ListPCs
    <2>2. QED
      BY <1>1, <2>1 DEF Within
  <1>2. QED
    BY <1>1, UploadGoesOn, InstantUploadGoesOn, ShareGoesOn, DeleteGoesOn,
       CancelGoesOn, SaveGoesOn, PvGoesOn, RankingGoesOn, ListGoesOn, FaultsGoOn
    DEF Handle

\* The rows that the lists o of u show for the files F.
RowsIn(o, u, F) ==
    UNION {{[file |-> f, shared |-> o[<<u, f>>][i].shared] :
               i \in DOMAIN o[<<u, f>>]} : f \in F}

Shows(o, u, F, r) ==
    \E f \in F : \E i \in DOMAIN o[<<u, f>>] :
       r = [file |-> f, shared |-> o[<<u, f>>][i].shared]

LEMMA UnionOfRows ==
    ASSUME NEW o, NEW u, NEW F, NEW r
    PROVE  r \in RowsIn(o, u, F) <=> Shows(o, u, F, r)
  <1> DEFINE Shown(f) == {[file |-> f, shared |-> o[<<u, f>>][i].shared] :
                             i \in DOMAIN o[<<u, f>>]}
  <1>1. \A f : r \in Shown(f) <=> \E i \in DOMAIN o[<<u, f>>] :
                     r = [file |-> f, shared |-> o[<<u, f>>][i].shared]
    OBVIOUS
  <1>2. RowsIn(o, u, F) = UNION {Shown(f) : f \in F}
    BY DEF RowsIn
  <1> HIDE DEF Shown
  <1>3. r \in UNION {Shown(f) : f \in F} <=> \E f \in F : r \in Shown(f)
    OBVIOUS
  <1>4. QED
    BY <1>1, <1>2, <1>3 DEF Shows

\* So the list of a user whom the request does not concern stays as it is.
LEMMA ListsKept ==
    ASSUME Typed, Typed', Edits, NEW D, Confined(D), OthersKept,
           NEW u \in User, Aside(u, D)
    PROVE  Listed(u)' = Listed(u)
  <1>1. ASSUME NEW f \in File PROVE SameRow(<<u, f>>)
    <2>1. req.pc \in EditPCs => req.user # u
      BY DEF Edits, Aside
    <2>2. QED
      BY <2>1 DEF OthersKept
  <1>2. ASSUME NEW f \in File, DOMAIN own[<<u, f>>] # {}
        PROVE  RowsOf(Md5Of[f])' = {} <=> RowsOf(Md5Of[f]) = {}
    <2>1. f \in D[u]
      <3>1. own[<<u, f>>] # <<>>
        BY <1>2
      <3>2. QED
        BY <3>1 DEF Confined, Owns
    <2>2. Md5Of[f] \in Md5
      BY ParametersAssumption
    <2>3. req.pc \in EditPCs => Md5Of[f] # M
      BY <2>1 DEF Edits, Aside
    <2>4. QED
      BY <2>2, <2>3 DEF OthersKept
  <1> DEFINE F == {g \in File : RowsOf(Md5Of[g]) # {}}
             G == {g \in File : RowsOf(Md5Of[g])' # {}}
  <1>3. Listed(u) = RowsIn(own, u, F) /\ Listed(u)' = RowsIn(own', u, G)
    BY DEF Listed, RowsIn
  <1>4. ASSUME NEW r PROVE r \in RowsIn(own, u, F) <=> r \in RowsIn(own', u, G)
    <2>1. \A f \in File : \A i \in DOMAIN own[<<u, f>>] : f \in F <=> f \in G
      BY <1>2
    <2>2. \A f \in File : /\ DOMAIN own'[<<u, f>>] = DOMAIN own[<<u, f>>]
                          /\ \A i \in DOMAIN own[<<u, f>>] :
                                own'[<<u, f>>][i].shared = own[<<u, f>>][i].shared
      BY <1>1 DEF SameRow
    <2>3. F \subseteq File /\ G \subseteq File
      OBVIOUS
    <2> HIDE DEF F, G
    <2>4. Shows(own, u, F, r) <=> Shows(own', u, G, r)
      BY <2>1, <2>2, <2>3, Zenon DEF Shows
    <2>5. QED
      BY <2>4, UnionOfRows
  <1> HIDE DEF F, G
  <1>5. \A r : r \in Listed(u)' <=> r \in Listed(u)
    BY <1>3, <1>4, Zenon
  <1>6. QED
    BY <1>3, <1>5, SMT

LEMMA ConfinedKept ==
    ASSUME Typed, Typed', Edits, NEW D, Confined(D), OthersKept, GoesOn
    PROVE  Confined(D)' /\ \A u \in User : Aside(u, D) => Aside(u, D)'
  <1>1. "rank" \notin EditOps
    BY DEF EditOps
  <1>2. req'.op \in EditOps => /\ req.op \in EditOps /\ req'.user = req.user
                               /\ req'.file = req.file
    BY <1>1 DEF GoesOn
  <1>3. \A u \in User : Aside(u, D) => Aside(u, D)'
    BY <1>2 DEF Aside, M
  <1>4. ASSUME NEW u \in User, NEW f \in File, Owns(u, f)' PROVE f \in D[u]
    <2>1. CASE req.pc \in EditPCs /\ <<u, f>> = <<req.user, req.file>>
      BY <2>1 DEF Confined, Edits
    <2>2. CASE SameRow(<<u, f>>)
      <3>1. own[<<u, f>>] \in Seq(OwnRow) /\ own'[<<u, f>>] \in Seq(OwnRow)
        BY DEF Typed, TypeOK
      <3>2. Owns(u, f)
        BY <1>4, <2>2, <3>1, EmptyDomain DEF SameRow, Owns
      <3>3. QED
        BY <3>2 DEF Confined
    <2>3. QED
      BY <2>1, <2>2 DEF OthersKept
  <1>5. QED
    BY <1>2, <1>3, <1>4 DEF Confined

LEMMA IdsGiven ==
    Typed /\ Edits /\ (Handle \/ SqlFails \/ QueryFails \/ RedisFails \/ DfsFails)
        => Edits'
  <1> SUFFICES ASSUME Typed, Edits,
                      Handle \/ SqlFails \/ QueryFails \/ RedisFails \/ DfsFails
               PROVE  Edits'
    OBVIOUS
  <1>1. /\ req'.pc \in EditPCs => req'.op \in EditOps
        /\ req'.op = "share" => req'.pc \in SharePCs \cup {"reply"}
    BY EditsGoOn DEF GoesOn, Edits
  <1>2. CASE UploadStore
    <2>1. /\ uploads \in Nat /\ uploads' = uploads + 1 /\ req'.fid = uploads + 1
          /\ UNCHANGED fileInfo
      BY <1>2 DEF UploadStore, mysql, Typed, TypeOK, Requests
    <2>2. QED
      BY <1>1, <2>1 DEF Edits
  <1>3. CASE UploadInfo
    <2>1. /\ UNCHANGED uploads /\ DOMAIN fileInfo' = DOMAIN fileInfo \cup {req.fid}
          /\ req.fid \in 1..uploads /\ req'.pc = "up_own"
      BY <1>3 DEF UploadInfo, dfs, At, Goto, Edits, Typed, TypeOK, Requests
    <2>2. QED
      BY <1>1, <2>1 DEF Edits
  <1>4. CASE ~(UploadStore \/ UploadInfo)
    <2>1. UNCHANGED uploads /\ DOMAIN fileInfo' \subseteq DOMAIN fileInfo
      <3>1. ASSUME NEW n \in Nat, NEW m, SetRefCount(m, n)
            PROVE  DOMAIN fileInfo' \subseteq DOMAIN fileInfo
        BY <3>1 DEF SetRefCount
      <3>2. CASE Upload \/ Share \/ CountOwnDownload \/ Cancel \/ SharePv \/ Ranking \/ List
        BY <1>4, <3>2
        DEF Upload, UploadOwn, UploadCount, Share, ShareCheck, ShareHealZset,
            ShareHealHash, ShareFlag, ShareInsert, ShareCount, ShareZset,
            ShareHash, CountOwnDownload, Cancel, CancelFlag, CancelCount,
            CancelRows, CancelZset, CancelHash, SharePv, SharePvUpdate,
            SharePvZset, SharePvHash, Ranking, RankCount, RankCompare,
            RankClearZset, RankClearHash, RankLoad, RankImportZset,
            RankImportHash, RankList, List, ListCount, ListRows, mysql, dfs
      <3>3. CASE InstantUpload \/ Save
        BY <3>3
        DEF InstantUpload, Md5Check, Md5Ref, Md5Own, Md5Count, Md5Restore, Save,
            SaveCheck, SaveRef, SaveOwn, SaveCount, SetRefCount, mysql, dfs
      <3>4. CASE Delete
        BY <3>4
        DEF Delete, DeleteCheck, DeleteShareRows, DeleteShareCount, DeleteZset,
            DeleteHash, DeleteUserCount, DeleteOwn, DeleteRef, DeleteInfo,
            DeleteStore, SetRefCount, mysql, dfs
      <3>5. CASE SqlFails \/ QueryFails \/ RedisFails \/ DfsFails
        <4>1. UNCHANGED mysql /\ UNCHANGED dfs
          BY <3>5 DEF SqlFails, QueryFails, RedisFails, DfsFails
        <4>2. QED
          BY <4>1 DEF mysql, dfs
      <3>6. QED
        BY <3>2, <3>3, <3>4, <3>5 DEF Handle
    <2>2. req'.pc # "up_info"
      <3>1. ASSUME NEW S \in {Md5PCs, SharePCs, DeletePCs, CancelPCs, AllSavePCs,
                              PvPCs, RankPCs, ListPCs}, Within(S)
            PROVE  req'.pc # "up_info"
        BY <3>1 DEF Within, Md5PCs, SharePCs, DeletePCs, CancelPCs, AllSavePCs,
                    PvPCs, RankPCs, ListPCs
      <3>2. CASE UploadOwn \/ UploadCount
        BY <3>2 DEF UploadOwn, UploadCount, Goto, Reply, Typed, TypeOK, Requests
      <3>3. CASE Within(UploadPCs) /\ (SqlFails \/ QueryFails \/ RedisFails \/ DfsFails)
        <4>1. \E c \in {OK, FAIL, SHARE_HAD} : Reply(c) \/ DealshareReply(c)
          BY <3>3 DEF Within, UploadPCs, SqlFails, QueryFails, RedisFails,
                      DfsFails, At
        <4>2. req'.pc = "reply"
          BY <4>1, ReplyMoves, DealshareReplyMoves DEF Typed, Moves
        <4>3. QED
          BY <4>2
      <3>4. QED
        BY <1>4, <3>1, <3>2, <3>3, InstantUploadGoesOn, ShareGoesOn, DeleteGoesOn,
           CancelGoesOn, SaveGoesOn, PvGoesOn, RankingGoesOn, ListGoesOn, FaultsGoOn
        DEF Handle, Upload
    <2>3. QED
      BY <1>1, <2>1, <2>2 DEF Edits
  <1>5. QED
    BY <1>2, <1>3, <1>4

\* What a step of the server does to the lists: of a handler ...
LEMMA ServedElsewhere ==
    ASSUME Typed, Edits, NEW D, Confined(D),
           Handle \/ SqlFails \/ QueryFails \/ RedisFails \/ DfsFails
    PROVE  /\ Typed' /\ Edits' /\ Confined(D)' /\ GoesOn
           /\ \A u \in User : Aside(u, D) => Listed(u)' = Listed(u) /\ Aside(u, D)'
  <1>1. Typed' /\ Edits' /\ OthersKept /\ GoesOn
    BY TypedStep, IdsGiven, HandleElsewhere, EditsGoOn DEF Next
  <1>2. Confined(D)' /\ \A u \in User : Aside(u, D) => Aside(u, D)'
    BY <1>1, ConfinedKept
  <1>3. \A u \in User : Aside(u, D) => Listed(u)' = Listed(u)
    BY <1>1, ListsKept
  <1>4. QED
    BY <1>1, <1>2, <1>3

\* ... of a request that ends, of one for the ranking, and of Redis ...
LEMMA EndsElsewhere ==
    ASSUME Typed, Edits, NEW D, Confined(D),
           Respond \/ Crash \/ RedisLoss \/ RequestRanking
    PROVE  /\ Typed' /\ Edits' /\ Confined(D)'
           /\ req'.op \notin EditOps \/ UNCHANGED req
           /\ \A u \in User : Listed(u)' = Listed(u)
           /\ \A u \in User : Aside(u, D) => Aside(u, D)'
  <1>1. UNCHANGED <<own, fileInfo, uploads>>
    BY DEF Respond, Crash, RedisLoss, RequestRanking, mysql, dfs
  <1>2. \/ req'.op \in {NULL, "rank"} /\ req'.pc \in {"idle", "rank_count"}
        \/ UNCHANGED req
    <2>1. Respond \/ Crash => req' = Idle
      BY DEF Respond, Crash
    <2>2. RequestRanking => req'.op = "rank" /\ req'.pc = "rank_count"
      BY DEF RequestRanking, Idle, FirstStep
    <2>3. QED
      BY <2>1, <2>2 DEF RedisLoss, Idle
  <1>3. /\ NULL \notin EditOps /\ "rank" \notin EditOps /\ "share" \in EditOps
        /\ {"idle", "rank_count", "up_info"} \cap EditPCs = {"up_info"}
    BY ParametersAssumption
    DEF EditOps, AllOps, EditPCs, UploadPCs, Md5PCs, SharePCs, DeletePCs,
        CancelPCs, AllSavePCs
  <1>4. Edits' /\ Confined(D)'
    BY <1>1, <1>2, <1>3 DEF Edits, Confined, Owns
  <1>5. \A u \in User : Listed(u)' = Listed(u)
    BY <1>1 DEF Listed, RowsOf
  <1>6. \A u \in User : Aside(u, D) => Aside(u, D)'
    BY <1>2, <1>3 DEF Aside, M
  <1>7. QED
    BY <1>2, <1>3, <1>4, <1>5, <1>6, TypedStep DEF Next

\* ... and of a request that is taken.
LEMMA TakenElsewhere ==
    ASSUME Typed, Edits, NEW D, Confined(D),
           NEW op \in AllOps \ {"rank"}, NEW u \in User, NEW f \in File,
           Dispatch(op, u, f), op \in EditOps => f \in D[u]
    PROVE  /\ Typed' /\ Edits' /\ Confined(D)' /\ ~At("idle")'
           /\ req'.op = op /\ req'.user = u /\ req'.file = f
           /\ \A v \in User : Listed(v)' = Listed(v)
           /\ \A v \in User :
                 (op \in EditOps => v # u /\ \A g \in D[v] : Md5Of[g] # Md5Of[f])
                    => Aside(v, D)'
  <1>1. UNCHANGED <<own, fileInfo, uploads, stored>>
    BY DEF Dispatch, mysql, dfs
  <1>2. /\ req'.op = op /\ req'.user = u /\ req'.file = f
        /\ req'.pc = FirstStep[op]
    BY DEF Dispatch, Idle
  <1>3. /\ FirstStep[op] \notin {"idle", "up_info"}
        /\ FirstStep[op] \in EditPCs => op \in EditOps
        /\ op = "share" => FirstStep[op] \in SharePCs
    BY DEF FirstStep, AllOps, EditOps, EditPCs, UploadPCs, Md5PCs, SharePCs,
           DeletePCs, CancelPCs, AllSavePCs
  <1>4. Typed'
    <2>1. LocalsTyped'
      BY Received DEF Dispatch
    <2>2. DataTyped'
      BY SameData, TypeParts DEF Dispatch, Typed
    <2>3. QED
      BY <2>1, <2>2, TypeParts DEF LocalsTyped, Typed
  <1>5. Edits' /\ Confined(D)' /\ ~At("idle")'
    BY <1>1, <1>2, <1>3 DEF Edits, Confined, Owns, At
  <1>6. \A v \in User : Listed(v)' = Listed(v)
    BY <1>1 DEF Listed, RowsOf
  <1>7. ASSUME NEW v \in User,
               op \in EditOps => v # u /\ \A g \in D[v] : Md5Of[g] # Md5Of[f]
        PROVE  Aside(v, D)'
    BY <1>2, <1>7 DEF Aside, M
  <1>8. QED
    BY <1>2, <1>4, <1>5, <1>6, <1>7

\* The list n has every row of the list o, shared if it was.
Backed(o, n) ==
    \A r \in o : \E q \in n : q.file = r.file /\ (r.shared = 1 => q.shared = 1)

\* A share takes nothing from a list, and cancels nothing in it.
LEMMA ShareRaises ==
    ASSUME Typed, Edits, req.op = "share", NEW u \in User,
           Handle \/ SqlFails \/ QueryFails \/ RedisFails \/ DfsFails
    PROVE  Backed(Listed(u), Listed(u)')
  <1>1. req.pc \in SharePCs \cup {"reply"}
    BY DEF Edits
  <1>2. ASSUME UNCHANGED <<own, fileInfo>> PROVE Backed(Listed(u), Listed(u)')
    <2>1. Listed(u)' = Listed(u)
      BY <1>2 DEF Listed, RowsOf
    <2>2. QED
      BY <2>1 DEF Backed
  <1>3. CASE Handle
    <2>1. Share
      <3>1. ASSUME NEW S \in {UploadPCs, Md5PCs, DeletePCs, CancelPCs, AllSavePCs,
                              PvPCs, RankPCs, ListPCs}, Within(S)
            PROVE  FALSE
        BY <1>1, <3>1
        DEF Within, UploadPCs, Md5PCs, SharePCs, DeletePCs, CancelPCs, AllSavePCs,
            PvPCs, RankPCs, ListPCs
      <3>2. QED
        BY <1>3, <3>1, UploadGoesOn, InstantUploadGoesOn, DeleteGoesOn,
           CancelGoesOn, SaveGoesOn, PvGoesOn, RankingGoesOn, ListGoesOn
        DEF Handle
    <2>2. UNCHANGED <<own, fileInfo>> \/ ShareFlag
      BY <2>1 DEF Share, ShareCheck, ShareHealZset, ShareHealHash, ShareInsert,
                  ShareCount, ShareZset, ShareHash, mysql
    <2>3. CASE UNCHANGED <<own, fileInfo>>
      BY <1>2, <2>3
    <2>4. CASE ShareFlag
      <3> DEFINE F == {g \in File : RowsOf(Md5Of[g]) # {}}
      <3>1. F' = F
        BY <2>4 DEF ShareFlag, RowsOf
      <3>2. Listed(u) = RowsIn(own, u, F) /\ Listed(u)' = RowsIn(own', u, F)
        BY <3>1 DEF Listed, RowsIn
      <3>3. ASSUME NEW r, Shows(own, u, F, r)
            PROVE  \E q : /\ Shows(own', u, F, q) /\ q.file = r.file
                          /\ r.shared = 1 => q.shared = 1
        <4>1. PICK f \in F : \E i \in DOMAIN own[<<u, f>>] :
                 r = [file |-> f, shared |-> own[<<u, f>>][i].shared]
          BY <3>3 DEF Shows
        <4>2. PICK i \in DOMAIN own[<<u, f>>] :
                 r = [file |-> f, shared |-> own[<<u, f>>][i].shared]
          BY <4>1
        <4>3. own[<<u, f>>] \in Seq(OwnRow) /\ own[<<u, f>>][i] \in OwnRow
          BY <4>2 DEF Typed, TypeOK
        <4>4. /\ i \in DOMAIN own'[<<u, f>>]
              /\ own'[<<u, f>>][i].shared \in {own[<<u, f>>][i].shared, 1}
          BY <2>4, <4>2, <4>3 DEF ShareFlag, SetShared, OwnRow, Typed, TypeOK
        <4>5. WITNESS [file |-> f, shared |-> own'[<<u, f>>][i].shared]
        <4>6. QED
          BY <4>2, <4>4 DEF Shows
      <3> HIDE DEF F
      <3>4. QED
        BY <3>2, <3>3, UnionOfRows DEF Backed
    <2>5. QED
      BY <2>2, <2>3, <2>4
  <1>4. CASE SqlFails \/ QueryFails \/ RedisFails \/ DfsFails
    <2>1. UNCHANGED mysql
      BY <1>4 DEF SqlFails, QueryFails, RedisFails, DfsFails
    <2>2. QED
      BY <1>2, <2>1 DEF mysql
  <1>5. QED
    BY <1>3, <1>4

\* A server nobody has used yet.
LEMMA UnusedServer ==
    Init => /\ Typed /\ Edits /\ \A D : Confined(D) /\ \A u \in User : Aside(u, D)
            /\ \A u \in User : Listed(u) = {}
  <1> SUFFICES ASSUME Init
               PROVE  /\ Edits /\ \A D : Confined(D) /\ \A u \in User : Aside(u, D)
                      /\ \A u \in User : Listed(u) = {}
    BY TypedInit
  <1>1. req.op = NULL /\ req.pc = "idle" /\ fileInfo = <<>> /\ uploads = 0
        /\ \A u \in User, f \in File : ~Owns(u, f)
    BY DEF Init, Idle, Owns
  <1>2. NULL \notin EditOps /\ "share" \in EditOps /\ "idle" \notin EditPCs
    BY ParametersAssumption
    DEF EditOps, AllOps, EditPCs, UploadPCs, Md5PCs, SharePCs, DeletePCs,
        CancelPCs, AllSavePCs
  <1>3. DOMAIN fileInfo = {}
    BY <1>1
  <1>4. \A m : RowsOf(m) = {}
    BY <1>3 DEF RowsOf
  <1>5. \A u \in User : Listed(u) = {}
    BY <1>4 DEF Listed
  <1>6. QED
    BY <1>1, <1>2, <1>3, <1>5 DEF Edits, Confined, Aside
=============================================================================
