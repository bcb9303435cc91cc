---------------------------- MODULE FileService ----------------------------
(***************************************************************************)
(* The file API of the image host: /api/upload, /api/md5, /api/myfiles,    *)
(* /api/dealfile, /api/dealsharefile and /api/sharefiles                   *)
(* (tc-src/api/Api*.cpp).                                                  *)
(*                                                                         *)
(* The server handles one request at a time on one thread, but a handler   *)
(* is a sequence of autocommitted SQL statements, Redis commands and       *)
(* FastDFS calls, and no handler opens a transaction.  So a step of this   *)
(* module is ONE statement or command (with the reads it depends on: no    *)
(* other request can run between a read and the write that follows it),    *)
(* and a crash or a failed statement may fall between any two steps.       *)
(***************************************************************************)
EXTENDS Integers, Sequences, FiniteSets

CONSTANTS
    User,         \* the registered users
    File,         \* file ids: a number is the lexical rank of md5 + file name
    Md5,          \* the digests
    Md5Of,        \* the digest of each file id
    NULL,         \* no row, or no such member
    Ops,          \* the operations clients issue in this instance
    Faults,       \* the kinds of faults that may strike
    MaxFaults,    \* bound: how many faults strike in a behaviour
    MaxUploads,   \* bound: how many files FastDFS ever stores
    MaxPv,        \* bound: a download count past which no download is issued
    MaxDrift,     \* bound: how far below 0 a delete may take the share counter
    FreshUploads, \* clients upload a digest only while file_info lacks it
    Repeats       \* a client may send its request again after the answer

AllOps == {"upload", "md5", "share", "del", "pv", "cancel", "save",
           "sharepv", "rank", "list", "count"}

\* "crash": the process dies and is started again.  "sql": a write statement
\* fails.  "drop": the DELETE on file_info fails.  "query": the SELECT of
\* CheckwhetherHaveRecord fails (every other failed SELECT dereferences a
\* null result set: a crash).  "redis": a command gets no connection.
\* "loss": Redis comes back empty.  "dfs": a call to FastDFS fails.
AllFaults == {"crash", "sql", "drop", "query", "redis", "loss", "dfs"}

ASSUME ParametersAssumption ==
    /\ File \subseteq Nat
    /\ Md5Of \in [File -> Md5]
    /\ NULL \notin Int \cup User \cup File \cup AllOps
    /\ Ops \subseteq AllOps
    /\ Faults \subseteq AllFaults
    /\ MaxFaults \in Nat /\ MaxUploads \in Nat /\ MaxPv \in Nat
    /\ MaxDrift \in Nat
    /\ FreshUploads \in BOOLEAN /\ Repeats \in BOOLEAN

VARIABLES
    fileInfo,   \* MySQL file_info: per FastDFS id (the insertion order) a row
    own,        \* MySQL user_file_list: the rows of each user and file
    shares,     \* MySQL share_file_list: the pv of each row of user and file
    userCount,  \* MySQL user_file_count: the row of each user
    shareCount, \* MySQL user_file_count: the row "xxx_share_xxx_file_..."
    zset,       \* Redis FILE_PUBLIC_ZSET: the score of each file id
    hash,       \* Redis FILE_NAME_HASH: the file ids that have a name
    stored,     \* FastDFS: the ids of the files it holds
    uploads,    \* how many ids FastDFS has given out
    req,        \* the request being handled
    last,       \* the request answered last, if clients repeat theirs
    faults      \* how many faults have struck

mysql == <<fileInfo, own, shares, userCount, shareCount>>
redis == <<zset, hash>>
dfs   == <<stored, uploads>>
aux   == <<last, faults>>
vars  == <<mysql, redis, dfs, req, aux>>

Row    == [md5 : Md5, count : Nat]
OwnRow == [shared : {0, 1}, pv : Nat]

\* The codes of Common.h.
OK == 0
FAIL == 1
SHARE_HAD == 3
FILE_EXIST == 5

Idle == [op |-> NULL, user |-> NULL, file |-> NULL, pc |-> "idle",
         code |-> OK, ranked |-> FALSE, fid |-> NULL, count |-> 0,
         todo |-> {}]

-----------------------------------------------------------------------------
(* What the statements read.                                               *)

M == Md5Of[req.file]

RowsOf(m) == {i \in DOMAIN fileInfo : fileInfo[i].md5 = m}

\* The row a SELECT on file_info returns first: the oldest one.
FirstOf(m) == CHOOSE i \in RowsOf(m) : \A j \in RowsOf(m) : i <= j

Owns(u, f) == own[<<u, f>>] # <<>>

\* What a query of the user's files finds: a row whose digest has no row in
\* file_info is not listed, one whose digest has two is listed twice.
Listed(u) ==
    UNION {{[file |-> f, shared |-> own[<<u, f>>][i].shared] :
                i \in DOMAIN own[<<u, f>>]} :
              f \in {g \in File : RowsOf(Md5Of[g]) # {}}}

\* The rows of share_file_list, and the pv of one.
ShareRows == UNION {{x} \X DOMAIN shares[x] : x \in User \X File}
Pv(r) == shares[r[1]][r[2]]

\* ZLEXCOUNT key [f [f, as Redis computes it on a small set: it takes the
\* set for ordered by name, although it is ordered by score first.
Before(f, g) == zset[f] < zset[g] \/ (zset[f] = zset[g] /\ f < g)
Ranked == {f \in File : zset[f] # NULL}
ZLexCount(f) ==
    IF \/ f \notin Ranked
       \/ \E g \in Ranked : Before(g, f) /\ g > f
       \/ \E g \in Ranked : g < f /\ \A h \in Ranked : ~Before(g, h)
    THEN 0
    ELSE Cardinality({g \in Ranked :
           /\ g <= f /\ ~Before(g, f)
           /\ \A h \in Ranked : Before(f, h) /\ Before(h, g) => h <= f})

-----------------------------------------------------------------------------
(* Control: where the handler goes on, and what it answers.                *)

At(pc)    == req.pc = pc
Goto(pc)  == req' = [req EXCEPT !.pc = pc]
Reply(c)  == req' = [req EXCEPT !.pc = "reply", !.code = c]

\* ApiDealsharefile turns what its handlers return into the code it answers.
DealshareReply(c) == Reply(IF c < 0 THEN FAIL ELSE OK)

Fault(kind) == /\ kind \in Faults
               /\ faults < MaxFaults
               /\ faults' = faults + 1

\* update file_info set count = n where md5 = m: every row with the digest.
SetRefCount(m, n) ==
    fileInfo' = [i \in DOMAIN fileInfo |->
                    IF fileInfo[i].md5 = m THEN [fileInfo[i] EXCEPT !.count = n]
                    ELSE fileInfo[i]]

\* insert the user's row with 1, or update it to count + 1.
IncUserCount(u) ==
    userCount' = [userCount EXCEPT ![u] = IF @ = NULL THEN 1 ELSE @ + 1]

AddOwnRow(u, f) ==
    own' = [own EXCEPT ![<<u, f>>] = Append(@, [shared |-> 0, pv |-> 0])]

SetSharedMutant(u, f, s) == UNCHANGED own
SetShared(u, f, s) ==
    own' = [own EXCEPT ![<<u, f>>] =
               [i \in DOMAIN @ |-> [@[i] EXCEPT !.shared = s]]]

DropShareRows(u, f) == shares' = [shares EXCEPT ![<<u, f>>] = <<>>]

SetScore(f, s) == zset' = [zset EXCEPT ![f] = s]

\* What the handlers ask of the rows.  An operator whose name ends in Mutant
\* is a plausible error in the definition below it; no action uses it.
LowerLateMutant(n) == IF n > 1 THEN n - 1 ELSE n
Lower(n)          == IF n >= 1 THEN n - 1 ELSE n

UnreferencedMutant(n) == n <= 1
Unreferenced(n)       == n = 0

HasShareMutant(f) == FALSE
HasShare(f)       == \E u \in User : shares[<<u, f>>] # <<>>

\* GetResultOneStatus answers 0 whatever shared_status holds.
IsSharedMutant(u, f) == \E i \in DOMAIN own[<<u, f>>] : own[<<u, f>>][i].shared = 1
IsShared(u, f)       == Owns(u, f)

InSyncMutant == Ranked = {} => shareCount = 0
InSync       == Cardinality(Ranked) = shareCount

-----------------------------------------------------------------------------
(* Upload: /api/upload.                                                    *)

\* rename the temporary file and hand it to fdfs_upload_file.
UploadStore ==
    /\ At("up_store")
    /\ uploads' = uploads + 1
    /\ stored' = stored \cup {uploads'}
    /\ req' = [req EXCEPT !.pc = "up_info", !.fid = uploads']
    /\ UNCHANGED <<mysql, redis, aux>>

UploadInfo ==
    /\ At("up_info") /\ Goto("up_own")
    /\ fileInfo' = [i \in DOMAIN fileInfo \cup {req.fid} |->
                       IF i = req.fid THEN [md5 |-> M, count |-> 1]
                       ELSE fileInfo[i]]
    /\ UNCHANGED <<own, shares, userCount, shareCount, redis, dfs, aux>>

UploadOwn ==
    /\ At("up_own") /\ Goto("up_count")
    /\ AddOwnRow(req.user, req.file)
    /\ UNCHANGED <<fileInfo, shares, userCount, shareCount, redis, dfs, aux>>

UploadCount ==
    /\ At("up_count") /\ Reply(OK)
    /\ IncUserCount(req.user)
    /\ UNCHANGED <<fileInfo, own, shares, shareCount, redis, dfs, aux>>

-----------------------------------------------------------------------------
(* Instant upload of a digest the host already stores: /api/md5.           *)

Md5Check ==
    /\ At("md5_check")
    /\ IF RowsOf(M) = {} THEN Reply(FAIL)
       ELSE IF Owns(req.user, req.file) THEN Reply(FILE_EXIST)
       ELSE Goto("md5_ref")
    /\ UNCHANGED <<mysql, redis, dfs, aux>>

Md5Ref ==
    /\ At("md5_ref")
    /\ LET n == fileInfo[FirstOf(M)].count
       IN  /\ SetRefCount(M, n + 1)
           /\ req' = [req EXCEPT !.pc = "md5_own", !.count = n]
    /\ UNCHANGED <<own, shares, userCount, shareCount, redis, dfs, aux>>

Md5Own ==
    /\ At("md5_own") /\ Goto("md5_count")
    /\ AddOwnRow(req.user, req.file)
    /\ UNCHANGED <<fileInfo, shares, userCount, shareCount, redis, dfs, aux>>

\* ExecutePassQuery answers true, which the handler reads as its failure.
Md5Count ==
    /\ At("md5_count") /\ Goto("md5_restore")
    /\ IncUserCount(req.user)
    /\ UNCHANGED <<fileInfo, own, shares, shareCount, redis, dfs, aux>>

Md5Restore ==
    /\ At("md5_restore") /\ Reply(FAIL)
    /\ SetRefCount(M, req.count)
    /\ UNCHANGED <<own, shares, userCount, shareCount, redis, dfs, aux>>

-----------------------------------------------------------------------------
(* Sharing a file: /api/dealfile?cmd=share.                                *)

ShareCheck ==
    /\ At("share_check")
    /\ \/ ZLexCount(req.file) = 1 /\ Reply(SHARE_HAD)
       \/ /\ ZLexCount(req.file) = 0
          /\ Goto(IF HasShare(req.file) THEN "share_heal_zset" ELSE "share_flag")
       \/ ZLexCount(req.file) \notin {0, 1} /\ Reply(FAIL)
    /\ UNCHANGED <<mysql, redis, dfs, aux>>

\* MySQL has the share and Redis does not: put it back, with score 0.
ShareHealZset ==
    /\ At("share_heal_zset") /\ Goto("share_heal_hash")
    /\ SetScore(req.file, 0)
    /\ UNCHANGED <<mysql, hash, dfs, aux>>

ShareHealHash ==
    /\ At("share_heal_hash") /\ Reply(SHARE_HAD)
    /\ hash' = hash \cup {req.file}
    /\ UNCHANGED <<mysql, zset, dfs, aux>>

ShareFlag ==
    /\ At("share_flag") /\ Goto("share_row")
    /\ SetShared(req.user, req.file, 1)
    /\ UNCHANGED <<fileInfo, shares, userCount, shareCount, redis, dfs, aux>>

ShareInsert ==
    /\ At("share_row") /\ Goto("share_count")
    /\ shares' = [shares EXCEPT ![<<req.user, req.file>>] = Append(@, 0)]
    /\ UNCHANGED <<fileInfo, own, userCount, shareCount, redis, dfs, aux>>

ShareCount ==
    /\ At("share_count") /\ Goto("share_zset")
    /\ shareCount' = IF shareCount = NULL THEN 1 ELSE shareCount + 1
    /\ UNCHANGED <<fileInfo, own, shares, userCount, redis, dfs, aux>>

ShareZsetMutant ==
    /\ At("share_zset") /\ Reply(OK)
    /\ SetScore(req.file, 0)
    /\ UNCHANGED <<mysql, hash, dfs, aux>>

ShareZset ==
    /\ At("share_zset") /\ Goto("share_hash")
    /\ SetScore(req.file, 0)
    /\ UNCHANGED <<mysql, hash, dfs, aux>>

ShareHash ==
    /\ At("share_hash") /\ Reply(OK)
    /\ hash' = hash \cup {req.file}
    /\ UNCHANGED <<mysql, zset, dfs, aux>>

-----------------------------------------------------------------------------
(* Deleting a file: /api/dealfile?cmd=del.                                 *)

\* A member of the zset is shared; so is, to this code, every file the user
\* has a row for.
DeleteCheck ==
    /\ At("del_check")
    /\ \/ /\ ZLexCount(req.file) = 1
          /\ req' = [req EXCEPT !.pc = "del_share_rows", !.ranked = TRUE]
       \/ /\ ZLexCount(req.file) = 0
          /\ Goto(IF IsShared(req.user, req.file) THEN "del_share_rows"
                  ELSE "del_user_count")
       \/ ZLexCount(req.file) \notin {0, 1} /\ Reply(FAIL)
    /\ UNCHANGED <<mysql, redis, dfs, aux>>

DeleteShareRows ==
    /\ At("del_share_rows") /\ Goto("del_share_count")
    /\ DropShareRows(req.user, req.file)
    /\ UNCHANGED <<fileInfo, own, userCount, shareCount, redis, dfs, aux>>

DeleteShareCount ==
    /\ At("del_share_count")
    /\ IF shareCount = NULL
       THEN Reply(FAIL) /\ UNCHANGED shareCount
       ELSE /\ shareCount' = shareCount - 1
            /\ Goto(IF req.ranked THEN "del_zset" ELSE "del_user_count")
    /\ UNCHANGED <<fileInfo, own, shares, userCount, redis, dfs, aux>>

DeleteZset ==
    /\ At("del_zset") /\ Goto("del_hash")
    /\ SetScore(req.file, NULL)
    /\ UNCHANGED <<mysql, hash, dfs, aux>>

DeleteHash ==
    /\ At("del_hash") /\ Goto("del_user_count")
    /\ hash' = hash \ {req.file}
    /\ UNCHANGED <<mysql, zset, dfs, aux>>

DeleteUserCount ==
    /\ At("del_user_count")
    /\ IF userCount[req.user] = NULL
       THEN Reply(FAIL) /\ UNCHANGED userCount
       ELSE /\ Goto("del_own")
            /\ userCount' = [userCount EXCEPT ![req.user] = Lower(@)]
    /\ UNCHANGED <<fileInfo, own, shares, shareCount, redis, dfs, aux>>

DeleteOwn ==
    /\ At("del_own") /\ Goto("del_ref")
    /\ own' = [own EXCEPT ![<<req.user, req.file>>] = <<>>]
    /\ UNCHANGED <<fileInfo, shares, userCount, shareCount, redis, dfs, aux>>

DeleteRef ==
    /\ At("del_ref")
    /\ IF RowsOf(M) = {}
       THEN Reply(FAIL) /\ UNCHANGED fileInfo
       ELSE LET n == fileInfo[FirstOf(M)].count
            IN  /\ IF n > 0 THEN SetRefCount(M, Lower(n))
                   ELSE UNCHANGED fileInfo
                /\ IF Unreferenced(Lower(n)) THEN Goto("del_info") ELSE Reply(OK)
    /\ UNCHANGED <<own, shares, userCount, shareCount, redis, dfs, aux>>

\* The id is read from the first row; every row of the digest is deleted, and
\* the result of the DELETE does not matter (its check is inverted).
DeleteInfo ==
    /\ At("del_info")
    /\ req' = [req EXCEPT !.pc = "del_store", !.fid = FirstOf(M)]
    /\ \/ /\ fileInfo' = [i \in DOMAIN fileInfo \ RowsOf(M) |-> fileInfo[i]]
          /\ UNCHANGED faults
       \/ Fault("drop") /\ UNCHANGED fileInfo
    /\ UNCHANGED <<own, shares, userCount, shareCount, redis, dfs, last>>

DeleteStore ==
    /\ At("del_store") /\ Reply(OK)
    /\ stored' = stored \ {req.fid}
    /\ UNCHANGED <<mysql, redis, uploads, aux>>

-----------------------------------------------------------------------------
(* Counting a download of one's own file: /api/dealfile?cmd=pv.  The SELECT *)
(* names pv, the helper reads a column "count" and gets 0: the new value is *)
(* always 1, and an UPDATE that changes no row is a failure.               *)
CountOwnDownload ==
    /\ At("pv_update")
    /\ LET rows == own[<<req.user, req.file>>]
       IN  /\ own' = [own EXCEPT ![<<req.user, req.file>>] =
                         [i \in DOMAIN @ |-> [@[i] EXCEPT !.pv = 1]]]
           /\ Reply(IF \E i \in DOMAIN rows : rows[i].pv # 1 THEN OK ELSE FAIL)
    /\ UNCHANGED <<fileInfo, shares, userCount, shareCount, redis, dfs, aux>>

-----------------------------------------------------------------------------
(* Cancelling a share: /api/dealsharefile?cmd=cancel.                      *)

CancelFlag ==
    /\ At("cancel_flag") /\ Goto("cancel_count")
    /\ SetShared(req.user, req.file, 0)
    /\ UNCHANGED <<fileInfo, shares, userCount, shareCount, redis, dfs, aux>>

CancelCount ==
    /\ At("cancel_count")
    /\ IF shareCount = NULL
       THEN DealshareReply(FAIL) /\ UNCHANGED shareCount
       ELSE /\ Goto("cancel_rows")
            /\ shareCount' = Lower(shareCount)
    /\ UNCHANGED <<fileInfo, own, shares, userCount, redis, dfs, aux>>

CancelRows ==
    /\ At("cancel_rows") /\ Goto("cancel_zset")
    /\ DropShareRows(req.user, req.file)
    /\ UNCHANGED <<fileInfo, own, userCount, shareCount, redis, dfs, aux>>

CancelZset ==
    /\ At("cancel_zset") /\ Goto("cancel_hash")
    /\ SetScore(req.file, NULL)
    /\ UNCHANGED <<mysql, hash, dfs, aux>>

\* hdel answers how many fields it removed, which the handler takes for an
\* error code: 1 becomes a failure, which ApiDealsharefile answers as OK.
CancelHash ==
    /\ At("cancel_hash")
    /\ DealshareReply(IF req.file \in hash THEN FAIL ELSE OK)
    /\ hash' = hash \ {req.file}
    /\ UNCHANGED <<mysql, zset, dfs, aux>>
-----------------------------------------------------------------------------
(* Saving a shared file to one's own list: /api/dealsharefile?cmd=save.    *)

SaveCheck ==
    /\ At("save_check")
    /\ IF Owns(req.user, req.file) THEN DealshareReply(FILE_EXIST)
       ELSE IF RowsOf(M) = {} THEN DealshareReply(FAIL)
       ELSE Goto("save_ref")
    /\ UNCHANGED <<mysql, redis, dfs, aux>>

SaveRefMutant == At("save_ref") /\ Goto("save_own")
                 /\ UNCHANGED <<mysql, redis, dfs, aux>>

SaveRef ==
    /\ At("save_ref") /\ Goto("save_own")
    /\ SetRefCount(M, fileInfo[FirstOf(M)].count + 1)
    /\ UNCHANGED <<own, shares, userCount, shareCount, redis, dfs, aux>>

SaveOwn ==
    /\ At("save_own") /\ Goto("save_count")
    /\ AddOwnRow(req.user, req.file)
    /\ UNCHANGED <<fileInfo, shares, userCount, shareCount, redis, dfs, aux>>

SaveCount ==
    /\ At("save_count") /\ DealshareReply(OK)
    /\ IncUserCount(req.user)
    /\ UNCHANGED <<fileInfo, own, shares, shareCount, redis, dfs, aux>>

-----------------------------------------------------------------------------
(* Counting a download of a shared file: /api/dealsharefile?cmd=pv.        *)

\* The SELECT has no ORDER BY: any row may come first.  The UPDATE changes
\* the rows of everyone who shares the file.
SharePvUpdate ==
    /\ At("sp_update")
    /\ \/ ~HasShare(req.file) /\ DealshareReply(FAIL) /\ UNCHANGED shares
       \/ \E u \in User : \E i \in DOMAIN shares[<<u, req.file>>] :
            LET n == shares[<<u, req.file>>][i] + 1
            IN  /\ shares' = [x \in User \X File |->
                         IF x[2] = req.file THEN [k \in DOMAIN shares[x] |-> n]
                         ELSE shares[x]]
                /\ req' = [req EXCEPT !.pc = "sp_zset", !.count = n]
    /\ UNCHANGED <<fileInfo, own, userCount, shareCount, redis, dfs, aux>>

SharePvZset ==
    /\ At("sp_zset")
    /\ \/ /\ ZLexCount(req.file) = 1
          /\ SetScore(req.file, zset[req.file] + 1) /\ DealshareReply(FAIL)
       \/ /\ ZLexCount(req.file) = 0
          /\ SetScore(req.file, req.count) /\ Goto("sp_hash")
       \/ /\ ZLexCount(req.file) \notin {0, 1}
          /\ DealshareReply(FAIL) /\ UNCHANGED zset
    /\ UNCHANGED <<mysql, hash, dfs, aux>>

SharePvHash ==
    /\ At("sp_hash") /\ DealshareReply(OK)
    /\ hash' = hash \cup {req.file}
    /\ UNCHANGED <<mysql, zset, dfs, aux>>

-----------------------------------------------------------------------------
(* The download ranking: /api/sharefiles?cmd=pvdesc.                       *)

RankCount ==
    /\ At("rank_count") /\ Goto("rank_compare")
    /\ shareCount' = IF shareCount = NULL THEN 0 ELSE shareCount
    /\ UNCHANGED <<fileInfo, own, shares, userCount, redis, dfs, aux>>

RankCompare ==
    /\ At("rank_compare")
    /\ Goto(IF InSync THEN "rank_list"
            ELSE "rank_clear_zset")
    /\ UNCHANGED <<mysql, redis, dfs, aux>>

RankClearZset ==
    /\ At("rank_clear_zset") /\ Goto("rank_clear_hash")
    /\ zset' = [f \in File |-> NULL]
    /\ UNCHANGED <<mysql, hash, dfs, aux>>

RankClearHash ==
    /\ At("rank_clear_hash") /\ Goto("rank_load")
    /\ hash' = {}
    /\ UNCHANGED <<mysql, zset, dfs, aux>>

\* The rows of share_file_list, to be imported by descending pv.
RankLoad ==
    /\ At("rank_load")
    /\ req' = [req EXCEPT !.pc = "rank_import_zset", !.todo = ShareRows]
    /\ UNCHANGED <<mysql, redis, dfs, aux>>

RankImportZset ==
    /\ At("rank_import_zset")
    /\ \/ req.todo = {} /\ Goto("rank_list") /\ UNCHANGED zset
       \/ \E r \in req.todo :
            /\ \A x \in req.todo : Pv(x) <= Pv(r)
            /\ SetScore(r[1][2], Pv(r))
            /\ req' = [req EXCEPT !.pc = "rank_import_hash",
                                  !.file = r[1][2], !.todo = @ \ {r}]
    /\ UNCHANGED <<mysql, hash, dfs, aux>>

RankImportHash ==
    /\ At("rank_import_hash") /\ Goto("rank_import_zset")
    /\ hash' = hash \cup {req.file}
    /\ UNCHANGED <<mysql, zset, dfs, aux>>

\* Every listed member needs its name.
RankList ==
    /\ At("rank_list")
    /\ Reply(IF Ranked \subseteq hash THEN OK ELSE FAIL)
    /\ UNCHANGED <<mysql, redis, dfs, aux>>

-----------------------------------------------------------------------------
(* The user's own files: /api/myfiles.                                     *)

\* getUserFilesCount gives a user who has no row one.
ListCount ==
    /\ At("list_count")
    /\ IF req.op = "count" THEN Reply(OK) ELSE Goto("list_rows")
    /\ userCount' = [userCount EXCEPT ![req.user] = IF @ = NULL THEN 0 ELSE @]
    /\ UNCHANGED <<fileInfo, own, shares, shareCount, redis, dfs, aux>>

\* The list joins user_file_list with file_info (Listed).
ListRows ==
    /\ At("list_rows") /\ Reply(OK)
    /\ UNCHANGED <<mysql, redis, dfs, aux>>

-----------------------------------------------------------------------------
(* Requests and replies.                                                   *)

FirstStep == [upload  |-> "up_store",    md5     |-> "md5_check",
              share   |-> "share_check", del     |-> "del_check",
              pv      |-> "pv_update",   cancel  |-> "cancel_flag",
              save    |-> "save_check",  sharepv |-> "sp_update",
              rank    |-> "rank_count",  list    |-> "list_count",
              count   |-> "list_count"]

\* What the pages of tc-front offer.
Offered(op, u, f) ==
    /\ op = "upload" /\ FreshUploads => RowsOf(Md5Of[f]) = {}
    /\ op \in {"save", "sharepv"} => HasShare(f)
    /\ op = "cancel" => \E i \in DOMAIN own[<<u, f>>] : own[<<u, f>>][i].shared = 1
    /\ op \in {"share", "del", "pv"} => Owns(u, f)

\* The bounds of the instance; none of them is in the code.
WithinBounds(op, f) ==
    /\ op = "upload" => uploads < MaxUploads
    /\ op = "sharepv" => \A r \in ShareRows : r[1][2] = f => Pv(r) < MaxPv
    /\ op = "del" /\ shareCount # NULL => shareCount > -MaxDrift

Dispatch(op, u, f) ==
    /\ At("idle") /\ op # "rank"
    /\ req' = [Idle EXCEPT !.op = op, !.user = u, !.file = f,
                           !.pc = FirstStep[op]]
    /\ last' = Idle
    /\ UNCHANGED <<mysql, redis, dfs, faults>>

Request(op, u, f) ==
    Dispatch(op, u, f) /\ Offered(op, u, f) /\ WithinBounds(op, f)

RequestRanking ==
    /\ At("idle") /\ "rank" \in Ops
    /\ req' = [Idle EXCEPT !.op = "rank", !.pc = FirstStep["rank"]]
    /\ last' = Idle
    /\ UNCHANGED <<mysql, redis, dfs, faults>>

Respond ==
    /\ At("reply") /\ req' = Idle
    /\ last' = IF ~Repeats THEN Idle
                ELSE [Idle EXCEPT !.op = req.op, !.user = req.user,
                                  !.file = req.file]
    /\ UNCHANGED <<mysql, redis, dfs, faults>>

\* The client lost the answer, or its user clicked twice.
RepeatRequest ==
    /\ At("idle") /\ last.op \notin {NULL, "rank"}
    /\ WithinBounds(last.op, last.file)
    /\ req' = [Idle EXCEPT !.op = last.op, !.user = last.user,
                           !.file = last.file, !.pc = FirstStep[last.op]]
    /\ last' = Idle
    /\ UNCHANGED <<mysql, redis, dfs, faults>>

-----------------------------------------------------------------------------
(* Faults: what each handler does when a call it makes fails.              *)

\* The write of the step fails: the handler gives up, and answers ...
SqlFails ==
    /\ Fault("sql")
    /\ \/ /\ \/ req.pc \in {"md5_ref", "md5_restore", "share_flag", "share_row",
                            "share_count", "del_share_rows", "del_own",
                            "pv_update"}
             \/ At("del_share_count") /\ shareCount # NULL
             \/ At("rank_count") /\ shareCount = NULL
             \/ At("list_count") /\ userCount[req.user] = NULL
             \/ At("del_user_count") /\ userCount[req.user] \notin {NULL, 0}
             \/ At("del_ref") /\ \E i \in RowsOf(M) : fileInfo[i].count > 0
          /\ Reply(FAIL)
       \/ \* ... OK, for the result of storeFileinfo is overwritten;
          \* and md5_count takes the failure for its success
          req.pc \in {"up_info", "up_own", "up_count", "md5_count"} /\ Reply(OK)
       \/ /\ \/ req.pc \in {"cancel_flag", "cancel_rows", "save_ref",
                            "save_own", "save_count"}
             \/ At("cancel_count") /\ shareCount # NULL /\ shareCount >= 1
             \/ At("sp_update") /\ HasShare(req.file)
          /\ DealshareReply(FAIL)
       \/ At("md5_own") /\ Goto("md5_restore")
    /\ UNCHANGED <<mysql, redis, dfs, last>>

\* A SELECT whose failure the handler survives.
QueryFails ==
    /\ Fault("query")
    /\ \/ At("md5_check") /\ RowsOf(M) # {} /\ Goto("md5_ref")
       \/ At("share_check") /\ ZLexCount(req.file) = 0 /\ Goto("share_flag")
       \/ At("sp_update") /\ DealshareReply(FAIL)
       \/ /\ req.pc \in {"rank_count", "rank_load", "list_count", "list_rows"}
          /\ Reply(FAIL)
    /\ UNCHANGED <<mysql, redis, dfs, last>>

\* A Redis command finds no connection: it does nothing, and the handler goes
\* on as if it had, except after ZLEXCOUNT and after the ZREM of a cancel.
RedisFails ==
    /\ Fault("redis")
    /\ \/ req.pc \in {"share_check", "del_check"} /\ Reply(FAIL)
       \/ req.pc \in {"sp_zset", "cancel_zset"} /\ DealshareReply(FAIL)
       \/ At("share_heal_zset") /\ Goto("share_heal_hash")
       \/ At("share_heal_hash") /\ Reply(SHARE_HAD)
       \/ At("share_zset") /\ Goto("share_hash")
       \/ At("share_hash") /\ Reply(OK)
       \/ At("del_zset") /\ Goto("del_hash")
       \/ At("del_hash") /\ Goto("del_user_count")
       \/ req.pc \in {"cancel_hash", "sp_hash"} /\ DealshareReply(OK)
       \/ At("rank_compare") /\ Goto(IF shareCount = 0 THEN "rank_list"
                                      ELSE "rank_clear_zset")
       \/ At("rank_clear_zset") /\ Goto("rank_clear_hash")
       \/ At("rank_clear_hash") /\ Goto("rank_load")
       \/ At("rank_import_zset") /\ \E r \in req.todo :
             req' = [req EXCEPT !.pc = "rank_import_hash",
                                !.file = r[1][2], !.todo = @ \ {r}]
       \/ At("rank_import_hash") /\ Goto("rank_import_zset")
       \/ At("rank_list") /\ Reply(FAIL)
    /\ UNCHANGED <<mysql, redis, dfs, last>>

\* The upload command, or the lookup of the URL after it, or the deletion.
DfsFails ==
    /\ Fault("dfs")
    /\ req.pc \in {"up_store", "up_info", "del_store"}
    /\ Reply(FAIL)
    /\ UNCHANGED <<mysql, redis, dfs, last>>

\* The process dies between two statements; MySQL, Redis and FastDFS keep
\* what they have, and a restarted server remembers nothing.
Crash ==
    /\ Fault("crash") /\ ~At("idle") /\ req' = Idle
    /\ UNCHANGED <<mysql, redis, dfs, last>>

\* Redis is emptied between two requests (a handler that loses its connection
\* in the middle of one fails or crashes).
RedisLoss ==
    /\ Fault("loss") /\ At("idle")
    /\ zset' = [f \in File |-> NULL] /\ hash' = {}
    /\ UNCHANGED <<mysql, dfs, req, last>>

-----------------------------------------------------------------------------
Init ==
    /\ fileInfo = <<>>
    /\ own = [x \in User \X File |-> <<>>]
    /\ shares = [x \in User \X File |-> <<>>]
    /\ userCount = [u \in User |-> NULL]
    /\ shareCount = NULL
    /\ zset = [f \in File |-> NULL]
    /\ hash = {}
    /\ stored = {}
    /\ uploads = 0
    /\ req = Idle
    /\ last = Idle
    /\ faults = 0

Upload   == UploadStore \/ UploadInfo \/ UploadOwn \/ UploadCount
InstantUpload == Md5Check \/ Md5Ref \/ Md5Own \/ Md5Count \/ Md5Restore
Share    == \/ ShareCheck \/ ShareHealZset \/ ShareHealHash \/ ShareFlag
            \/ ShareInsert \/ ShareCount \/ ShareZset \/ ShareHash
Delete   == \/ DeleteCheck \/ DeleteShareRows \/ DeleteShareCount
            \/ DeleteZset \/ DeleteHash \/ DeleteUserCount \/ DeleteOwn
            \/ DeleteRef \/ DeleteInfo \/ DeleteStore
Cancel   == CancelFlag \/ CancelCount \/ CancelRows \/ CancelZset \/ CancelHash
Save     == SaveCheck \/ SaveRef \/ SaveOwn \/ SaveCount
SharePv  == SharePvUpdate \/ SharePvZset \/ SharePvHash
Ranking  == \/ RankCount \/ RankCompare \/ RankClearZset \/ RankClearHash
            \/ RankLoad \/ RankImportZset \/ RankImportHash \/ RankList
List     == ListCount \/ ListRows

Handle ==
    \/ Upload \/ InstantUpload \/ Share \/ Delete \/ CountOwnDownload
    \/ Cancel \/ Save \/ SharePv \/ Ranking \/ List

Next ==
    \/ \E op \in Ops, u \in User, f \in File : Request(op, u, f)
    \/ RequestRanking \/ RepeatRequest \/ Respond \/ Handle
    \/ SqlFails \/ QueryFails \/ RedisFails \/ DfsFails \/ Crash \/ RedisLoss

Spec == Init /\ [][Next]_vars
-----------------------------------------------------------------------------
(* What the tables owe each other.                                         *)

\* The rows of user_file_list with a digest, and those of a user.
OwnRowsOf(S) == UNION {{x} \X DOMAIN own[x] : x \in S}
OwnersOf(m) == OwnRowsOf({x \in User \X File : Md5Of[x[2]] = m})
ListOf(u)   == OwnRowsOf({u} \X File)

PCs == {"idle", "reply",
        "up_store", "up_info", "up_own", "up_count",
        "md5_check", "md5_ref", "md5_own", "md5_count", "md5_restore",
        "share_check", "share_heal_zset", "share_heal_hash", "share_flag",
        "share_row", "share_count", "share_zset", "share_hash",
        "del_check", "del_share_rows", "del_share_count", "del_zset",
        "del_hash", "del_user_count", "del_own", "del_ref", "del_info",
        "del_store", "pv_update",
        "cancel_flag", "cancel_count", "cancel_rows", "cancel_zset",
        "cancel_hash", "save_check", "save_ref", "save_own", "save_count",
        "sp_update", "sp_zset", "sp_hash",
        "rank_count", "rank_compare", "rank_clear_zset", "rank_clear_hash",
        "rank_load", "rank_import_zset", "rank_import_hash", "rank_list",
        "list_count", "list_rows"}

Requests ==
    [op : AllOps \cup {NULL}, user : User \cup {NULL}, file : File \cup {NULL},
     pc : PCs, code : {OK, FAIL, SHARE_HAD, FILE_EXIST}, ranked : BOOLEAN,
     fid : Nat \cup {NULL}, count : Nat, todo : SUBSET ((User \X File) \X Nat)]

\* The type invariant: what each table, cache and local variable may hold.
TypeOK ==
    /\ DOMAIN fileInfo \subseteq Nat
    /\ fileInfo \in [DOMAIN fileInfo -> Row]
    /\ own \in [User \X File -> Seq(OwnRow)]
    /\ shares \in [User \X File -> Seq(Nat)]
    /\ userCount \in [User -> Nat \cup {NULL}]
    /\ shareCount \in Int \cup {NULL}
    /\ zset \in [File -> Nat \cup {NULL}]
    /\ hash \subseteq File
    /\ stored \subseteq Nat
    /\ uploads \in Nat
    /\ req \in Requests /\ last \in Requests
    /\ faults \in Nat

\* A file someone has in their list is still held by FastDFS, through a row
\* of file_info that names it: neither a crash between two statements nor a
\* failed one ever makes handleDeleteFile remove a file that has an owner.
OwnedFileStored ==
    \A u \in User, f \in File :
        Owns(u, f) => RowsOf(Md5Of[f]) \cap stored # {}

\* The reference count of a digest never falls below the number of list rows
\* that refer to it, whatever statement of a save or a delete is the last to
\* be executed (the count is raised before the row, lowered after it).
RefCountCoversOwners ==
    \A i \in DOMAIN fileInfo :
        fileInfo[i].count >= Cardinality(OwnersOf(fileInfo[i].md5))

\* A file is shared at most once, by one user: share_file_list has no unique
\* key, and handleShareFile asks Redis and then MySQL before it inserts.
ShareRowUnique ==
    \A r, s \in ShareRows : r[1][2] = s[1][2] => r = s

\* Who shares a file has it: handleDeleteFile takes the share rows of a user
\* before the user's own row, whatever Redis and shared_status say.
SharedFileOwned ==
    \A u \in User, f \in File : shares[<<u, f>>] # <<>> => Owns(u, f)

\* user_file_count never claims more files than user_file_list holds: the
\* count is raised after the row is inserted, lowered before it is deleted.
UserCountNeverAbove ==
    \A u \in User :
        userCount[u] # NULL => userCount[u] <= Cardinality(ListOf(u))

\* Between requests, with no fault, the reference counts and the user counts
\* are the numbers of rows they stand for.
CountsExact ==
    At("idle") =>
        /\ \A i \in DOMAIN fileInfo :
               fileInfo[i].count = Cardinality(OwnersOf(fileInfo[i].md5))
        /\ \A u \in User : Cardinality(ListOf(u)) =
               IF userCount[u] = NULL THEN 0 ELSE userCount[u]

\* Between requests, with no fault, shared_status tells who shares the file.
SharedFlagAgrees ==
    At("idle") =>
        \A u \in User, f \in File : \A i \in DOMAIN own[<<u, f>>] :
            own[<<u, f>>][i].shared = 1 <=> shares[<<u, f>>] # <<>>

\* Between requests, with no fault, every ranked file id has its name, so a
\* ranking request never fails on HGET.
RankingNamed == At("idle") => Ranked \subseteq hash

\* While the share counter is right, a ranking answered with code 0 lists as
\* many files as are shared, even when Redis has lost its data:
\* handleGetRankingFilelist compares the counter with ZCARD and imports
\* share_file_list when they differ.  So a shared file is missing only if a
\* file that nobody shares is listed: numbers are all it compares.
SharedFiles == {f \in File : HasShare(f)}
RankingListsShares ==
    At("reply") /\ req.op = "rank" /\ req.code = OK
       /\ shareCount = Cardinality(ShareRows) =>
        Cardinality(Ranked) = Cardinality(SharedFiles)

\* Between requests the share counter never counts more than there is: it is
\* lowered for every row that goes (handleDeleteFile lowers it for other
\* files too, so that it may be below the number of rows, and below 0).
ShareCountNeverAbove ==
    At("idle") /\ shareCount # NULL => shareCount <= Cardinality(ShareRows)
=============================================================================
