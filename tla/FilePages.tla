----------------------------- MODULE FilePages -----------------------------
(***************************************************************************)
(* The page "my files" of tc-front (pages/MyFiles and its FileUploadModal) *)
(* in front of the file API (FileService).                                 *)
(*                                                                         *)
(* A page sends requests and shows the table its last refresh brought.     *)
(* Requests and answers travel on their own connections: the server takes  *)
(* the requests, and the page gets the answers, in any order, and either   *)
(* may be lost.  A step of a page, a callback of a promise or a click, is  *)
(* placed between two requests of the server: it reads and writes nothing  *)
(* of the server, so this order stands for every other.                    *)
(***************************************************************************)
EXTENDS Integers, Sequences, FiniteSets

CONSTANTS
    User, File, Md5, Md5Of, NULL, Faults, MaxFaults, \* as in FileService
    Tab,        \* the open pages
    UserOf,     \* the user that is logged in on each page
    Disk,       \* the files each user may choose to upload
    TooBig,     \* the files of 10 MB and more
    MaxClicks,  \* bound: how often the users click
    MaxTrouble  \* bound: how many requests are lost or refused

PageOps == {"upload", "md5", "share", "del", "pv", "cancel", "list", "count",
            "rank"}

VARIABLES
    fileInfo, own, shares, userCount, shareCount, zset, hash, stored,
    uploads, req, last, faults,  \* those of FileService
    rows,       \* data: the rows each page shows
    chosen,     \* selectedRows: the rows its user has ticked
    error,      \* the page shows an error and was not refreshed since
    silent,     \* history: the page was told of a failure, or of files, and
                \* ignored it since its last refresh
    net,        \* the requests of the pages that are not settled
    serving,    \* the request the server is handling, NULL if nobody waits
    clicks, trouble

server == <<fileInfo, own, shares, userCount, shareCount, zset, hash, stored,
            uploads, req, last, faults>>
page   == <<rows, chosen, error, silent>>
vars   == <<server, page, net, serving, clicks, trouble>>

\* The bounds of FileService are those of its own clients: none holds here.
S == INSTANCE FileService WITH
    Ops <- PageOps, MaxUploads <- 0, MaxPv <- 0, MaxDrift <- 0,
    FreshUploads <- FALSE, Repeats <- FALSE

REFUSED == 4    \* HTTP_RESP_TOKEN_ERR

\* A row of the table, and a request: "sent", "taken" by the server or
\* answered with a code.  The page handles an answer by where it was asked for:
\* at a row (or the refresh button), in a batch, when the page was mounted, or
\* by "share selected".  "none" says that the total of a list is 0.
\* (The ranking is asked for without a page.)
Row     == [file : File, shared : {0, 1}]
Message ==
    [tab : Tab, op : PageOps \ {"rank"}, file : File,
     by : {"row", "batch", "mount", "selected"},
     state : {"sent", "taken", "answered"}, code : 0..5 \cup {NULL},
     rows : SUBSET Row, none : BOOLEAN]

\* The first lines are those of FileService.
ASSUME PagesAssumption ==
    /\ File \subseteq Nat /\ Md5Of \in [File -> Md5]
    /\ NULL \notin Int \cup User \cup File \cup S!AllOps \cup Message
    /\ Faults \subseteq S!AllFaults /\ MaxFaults \in Nat
    /\ UserOf \in [Tab -> User] /\ Disk \in [User -> SUBSET File]
    /\ File # {} /\ TooBig \subseteq File
    /\ MaxClicks \in Nat /\ MaxTrouble \in Nat

Msg(t, op, f, by) ==
    [tab |-> t, op |-> op, file |-> f, by |-> by, state |-> "sent",
     code |-> NULL, rows |-> {}, none |-> FALSE]

Of(t)    == {m \in net : m.tab = t}
Quiet(t) == Of(t) = {}
Files(R) == {r.file : r \in R}

-----------------------------------------------------------------------------
(* The users.                                                              *)

\* A user waits for the answers, heeds an error by refreshing, and ticks rows
\* of the table that is shown.
Ready(t) == Quiet(t) /\ ~error[t]

Asks(M) ==
    /\ S!At("idle") /\ clicks < MaxClicks
    /\ clicks' = clicks + 1 /\ net' = net \cup M
    /\ UNCHANGED <<server, serving, trouble>>

Click(t, M)      == Asks(M) /\ UNCHANGED <<rows, error, silent>>
Single(t, op, f) == Click(t, {Msg(t, op, f, "row")}) /\ UNCHANGED chosen

\* A list and a count are of no file: this one stands in the request.
AnyFile == CHOOSE f \in File : TRUE

\* The two effects of a page that is opened: for the total, and for the list.
MountRequests(t) == {Msg(t, op, AnyFile, "mount") : op \in {"count", "list"}}

\* The page is opened again: nothing of it is left.
Mount(t) ==
    /\ Quiet(t) /\ Asks(MountRequests(t))
    /\ rows' = [rows EXCEPT ![t] = {}] /\ chosen' = [chosen EXCEPT ![t] = {}]
    /\ error' = [error EXCEPT ![t] = FALSE]
    /\ silent' = [silent EXCEPT ![t] = FALSE]

\* The refresh button.
RefreshTable(t) == Quiet(t) /\ Single(t, "list", AnyFile)

\* The row offers to share the file, or to cancel.
OnShareFile(t) ==
    /\ Ready(t)
    /\ \E r \in rows[t] : r.shared = 0 /\ Single(t, "share", r.file)

OnCancelShareFile(t) ==
    /\ Ready(t)
    /\ \E r \in rows[t] : r.shared = 1 /\ Single(t, "cancel", r.file)

OnDeleteFile(t) ==
    /\ Ready(t)
    /\ \E r \in rows[t] : Single(t, "del", r.file)

\* The page has fetched the bytes: it counts the download and refreshes.
OnDownloadFile(t) ==
    /\ Ready(t)
    /\ \E r \in rows[t] :
          Click(t, {Msg(t, "pv", r.file, "row"), Msg(t, "list", r.file, "row")})
    /\ UNCHANGED chosen

\* selectedRows is set when a box is ticked, and by nothing else.
OnSelect(t, R) ==
    /\ Ready(t) /\ S!At("idle") /\ R # chosen[t]
    /\ chosen' = [chosen EXCEPT ![t] = R]
    /\ UNCHANGED <<server, rows, error, silent, net, serving, clicks, trouble>>

\* "Share selected" shares one file that is not shared yet.
ShareFiles(t) ==
    /\ Ready(t)
    /\ \E r \in rows[t] :
          /\ r.shared = 0 /\ chosen[t] = {r}
          /\ Click(t, {Msg(t, "share", r.file, "selected")})
    /\ UNCHANGED chosen

\* Promise.all over selectedRows.
DeleteFiles(t) ==
    /\ Ready(t) /\ chosen[t] # {} /\ chosen[t] \subseteq rows[t]
    /\ Click(t, {Msg(t, "del", f, "batch") : f \in Files(chosen[t])})
    /\ UNCHANGED chosen

\* FileUploadModal asks for the digest first (even of a file it will reject).
BeforeUpload(t) ==
    /\ Ready(t)
    /\ \E f \in Disk[UserOf[t]] : Single(t, "md5", f)

Clicks(t) ==
    \/ Mount(t) \/ RefreshTable(t) \/ OnShareFile(t) \/ OnCancelShareFile(t)
    \/ OnDeleteFile(t) \/ OnDownloadFile(t) \/ ShareFiles(t) \/ DeleteFiles(t)
    \/ BeforeUpload(t) \/ \E R \in SUBSET rows[t] : OnSelect(t, R)

-----------------------------------------------------------------------------
(* The server and the network.                                             *)

Becomes(m, state, code, R, none) ==
    net' = (net \ {m}) \cup {[m EXCEPT !.state = state, !.code = code,
                                       !.rows = R, !.none = none]}

\* The handlers ask nothing of the table the request was made from.
Take(m) ==
    /\ m.state = "sent" /\ S!Dispatch(m.op, UserOf[m.tab], m.file)
    /\ Becomes(m, "taken", NULL, {}, FALSE)
    /\ serving' = [m EXCEPT !.state = "taken"]
    /\ UNCHANGED <<page, clicks, trouble>>

\* Somebody opens the download ranking.  Only the time before the first click
\* is modelled: it makes the row of the share counter.
OpenRanking ==
    /\ shareCount = NULL /\ clicks = 0 /\ S!RequestRanking
    /\ UNCHANGED <<page, net, serving, clicks, trouble>>

Serve ==
    /\ S!Handle
    /\ UNCHANGED <<page, net, serving, clicks, trouble>>

CallFails ==
    /\ S!SqlFails \/ S!QueryFails \/ S!RedisFails \/ S!DfsFails \/ S!RedisLoss
    /\ UNCHANGED <<page, net, serving, clicks, trouble>>

\* Nobody hears the answer to a request whose connection was lost.  The total
\* in a list is the user's row of user_file_count, read before the files.
Answer ==
    /\ S!Respond
    /\ IF serving = NULL THEN UNCHANGED net
       ELSE Becomes(serving, "answered", req.code,
                    IF serving.op = "list" THEN S!Listed(req.user) ELSE {},
                    serving.op = "list" /\ userCount[req.user] = 0)
    /\ serving' = NULL
    /\ UNCHANGED <<page, clicks, trouble>>

\* VerifyToken fails: the handlers that ask it answer at once.
RefuseMutant(m) ==
    /\ trouble < MaxTrouble /\ trouble' = trouble + 1
    /\ S!At("idle") /\ m.state = "sent" /\ m.op \notin {"upload", "cancel"}
    /\ Becomes(m, "taken", NULL, {}, FALSE)
    /\ UNCHANGED <<server, page, serving, clicks>>

Refuse(m) ==
    /\ trouble < MaxTrouble /\ trouble' = trouble + 1
    /\ S!At("idle") /\ m.state = "sent" /\ m.op \notin {"upload", "cancel"}
    /\ Becomes(m, "answered",
               IF m.op \in {"list", "count"} THEN S!FAIL ELSE REFUSED, {}, FALSE)
    /\ UNCHANGED <<server, page, serving, clicks>>

-----------------------------------------------------------------------------
(* What the page does with an answer.                                      *)

Refresh(m) == {Msg(m.tab, "list", m.file, "row")}

\* Promise.all is settled when the last request of the batch is.
LastOfBatch(m) == \A n \in Of(m.tab) \ {m} : n.by # "batch"

FollowUpMutant(m) ==
    CASE m.op \in {"cancel", "upload"} -> Refresh(m)
      [] m.op = "md5" /\ m.code = S!FAIL -> {Msg(m.tab, "upload", m.file, "row")}
      [] OTHER -> {}

FollowUp(m) ==
    CASE m.op \in {"list", "pv", "count"} -> {}
      [] m.op = "cancel" -> Refresh(m)
      [] m.op = "del" -> IF m.by # "batch" \/ LastOfBatch(m) THEN Refresh(m) ELSE {}
      [] m.op \in {"share", "upload"} ->
            IF m.code = S!OK THEN Refresh(m) ELSE {}
      [] m.op = "md5" ->
            CASE m.code = S!OK -> Refresh(m)
              [] m.code = S!FAIL /\ m.file \notin TooBig ->
                    {Msg(m.tab, "upload", m.file, "row")}
              [] OTHER -> {}

\* What the page is told and does not heed: the failure of "share selected",
\* and that of the first list, or its files if their total is 0.
Ignored(m) ==
    \/ m.by = "selected" /\ m.code # S!OK
    \/ /\ m.by = "mount" /\ m.op = "list"
       /\ m.code # S!OK \/ (m.none /\ m.rows # {})

\* The first list replaces the table whatever its code (with a code 1 come no
\* files); a refresh, by its button or after another answer, minds the code.
TableAfterMutant(m) ==
    IF m.op # "list" THEN rows[m.tab]
    ELSE IF m.code # S!OK \/ m.none THEN {} ELSE m.rows

TableAfter(m) ==
    IF m.op # "list" THEN rows[m.tab]
    ELSE IF m.by = "mount"
    THEN IF m.code # S!OK \/ m.none THEN {} ELSE m.rows
    ELSE IF m.code = S!OK THEN m.rows ELSE rows[m.tab]

\* The answers that bring an error message if they tell of a failure, and
\* those of a refresh, after which the page shows its own error or none.
Minded(m)    == m.op \notin {"pv", "count", "list"} /\ m.by # "selected"
Refreshed(m) == m.op = "list" /\ m.by # "mount"

Settle(m) ==
    /\ m.state = "answered" /\ S!At("idle")
    /\ net' = (net \ {m}) \cup FollowUp(m)
    /\ rows' = [rows EXCEPT ![m.tab] = TableAfter(m)]
    /\ error' = [error EXCEPT ![m.tab] =
                    IF Refreshed(m) THEN m.code # S!OK
                    ELSE @ \/ (Minded(m) /\ m.code # S!OK)]
    /\ silent' = [silent EXCEPT ![m.tab] =
                     IF Refreshed(m) /\ m.code = S!OK THEN FALSE
                     ELSE @ \/ Ignored(m)]
    /\ UNCHANGED <<server, chosen, serving, clicks, trouble>>

\* httpPost shows an error and answers undefined, of which every callback
\* but that of Promise.all trips over reading the code.
Drop(m) ==
    /\ net' = (net \ {m}) \cup
              (IF m.by = "batch" /\ LastOfBatch(m) THEN Refresh(m) ELSE {})
    /\ error' = [error EXCEPT ![m.tab] = TRUE]
    /\ UNCHANGED <<rows, chosen, silent>>

LoseMutant(m) ==
    /\ trouble < MaxTrouble /\ trouble' = trouble + 1
    /\ S!At("idle") \/ serving = m
    /\ Drop(m)
    /\ UNCHANGED <<server, serving, clicks>>

Lose(m) ==
    /\ trouble < MaxTrouble /\ trouble' = trouble + 1
    /\ S!At("idle") \/ serving = m
    /\ Drop(m)
    /\ serving' = IF serving = m THEN NULL ELSE serving
    /\ UNCHANGED <<server, clicks>>

ServerDies ==
    /\ S!Crash
    /\ IF serving = NULL THEN UNCHANGED <<net, page>> ELSE Drop(serving)
    /\ serving' = NULL
    /\ UNCHANGED <<clicks, trouble>>

-----------------------------------------------------------------------------
Init ==
    /\ S!Init
    /\ rows = [t \in Tab |-> {}]
    /\ chosen = [t \in Tab |-> {}]
    /\ error = [t \in Tab |-> FALSE]
    /\ silent = [t \in Tab |-> FALSE]
    /\ net = UNION {MountRequests(t) : t \in Tab}
    /\ serving = NULL
    /\ clicks = 0 /\ trouble = 0

Next ==
    \/ \E t \in Tab : Clicks(t)
    \/ \E m \in net : Take(m) \/ Refuse(m) \/ Settle(m) \/ Lose(m)
    \/ OpenRanking \/ Serve \/ CallFails \/ Answer \/ ServerDies

Spec == Init /\ [][Next]_vars

\* The server goes on with its request, takes the next one, and the callbacks
\* of the page are run.
FairSpec ==
    /\ Spec
    /\ WF_vars(Serve \/ Answer)
    /\ WF_vars(\E m \in net : Take(m))
    /\ WF_vars(\E m \in net : Settle(m))

-----------------------------------------------------------------------------
(* Properties.                                                             *)

\* Every variable is of its type.
TypeOK ==
    /\ S!TypeOK
    /\ rows \in [Tab -> SUBSET Row] /\ chosen \in [Tab -> SUBSET Row]
    /\ error \in [Tab -> BOOLEAN] /\ silent \in [Tab -> BOOLEAN]
    /\ net \subseteq Message
    /\ {m \in net : m.state = "taken"} =
          IF serving = NULL THEN {} ELSE {serving}
    /\ clicks \in 0..MaxClicks /\ trouble \in 0..MaxTrouble

\* A page that has its answers and shows no error lists no file that is not
\* there, although requests and answers were lost, refused or out of order;
\* and it shows the user's files as they are, unless it ignored an answer since
\* its last refresh: MyFiles shows an empty table, and no error, after a first
\* list that fails or whose total is 0, and says nothing when "share selected"
\* fails, which may have set the flag before.
TableTrue ==
    \A t \in Tab : Ready(t) =>
        /\ Files(rows[t]) \subseteq Files(S!Listed(UserOf[t]))
        /\ ~silent[t] => rows[t] = S!Listed(UserOf[t])

\* The steps of FileService, without the bounds of its instances.
FileServiceStep ==
    \/ \E op \in PageOps, u \in User, f \in File :
          S!Dispatch(op, u, f) /\ S!Offered(op, u, f)
    \/ S!RequestRanking \/ S!Respond \/ S!Handle \/ S!SqlFails \/ S!QueryFails
    \/ S!RedisFails \/ S!DfsFails \/ S!Crash \/ S!RedisLoss

\* A user who waits for the answer and refreshes after an error never makes
\* the server do anything that FileService does not: no file is deleted twice
\* and none is shared by who does not have it, though no handler asks for it.
ImplementsFileService == S!Init /\ [][FileServiceStep]_server

\* A page gets through with what was clicked, whatever is lost on the way.
PageSettles == \A t \in Tab : []<>Quiet(t)

-----------------------------------------------------------------------------
(* What ApiDealfile.cpp says of a deletion.                                *)

\* A file is taken out of the storage when no user refers to it any more: with
\* every request answered, who has a file in their list can still get it.
OwnedFileKept == (\A t \in Tab : Quiet(t)) => S!OwnedFileStored
=============================================================================
