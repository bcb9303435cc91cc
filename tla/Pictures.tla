------------------------------ MODULE Pictures ------------------------------
(***************************************************************************)
(* Sharing pictures by a link: /api/sharepic (tc-src/api/                  *)
(* ApiSharepicture.cpp).  As in FileService, the server handles one        *)
(* request at a time, and a step is one autocommitted statement with the   *)
(* reads it depends on.                                                    *)
(*                                                                         *)
(* The link of a picture is RandomString(32).  Nothing seeds rand(), so    *)
(* the k-th string after the start of the process is the same string in    *)
(* every run of it: a string is its number k.                              *)
(***************************************************************************)
EXTENDS Integers, FiniteSets

CONSTANTS
    User,      \* the users
    Md5,       \* the digests of the pictures
    NULL,      \* no row
    Faults,    \* the kinds of faults that may strike
    MaxFaults, \* bound: how many faults strike in a behaviour
    MaxDrawn,  \* bound: how many random strings one process draws
    MaxRows,   \* bound: how many rows share_picture_list is ever given
    MaxViews   \* bound: how often a link is shown

\* "crash": the process dies and is started again (also what becomes of a
\* failed SELECT of the count, whose null result set is dereferenced).
\* "sql": a write fails.  "query": a SELECT fails.
ASSUME PicturesAssumption ==
    /\ NULL \notin Int
    /\ Faults \subseteq {"crash", "sql", "query"}
    /\ MaxFaults \in Nat /\ MaxDrawn \in Nat /\ MaxRows \in Nat
    /\ MaxViews \in Nat

VARIABLES
    pictures, \* MySQL share_picture_list: per id a row
    total,    \* MySQL user_file_count: the row "xxx_share_picture_list_count"
    held,     \* the digests that have a row in file_info
    ids,      \* AUTO_INCREMENT of share_picture_list
    drawn,    \* how many random strings this process has drawn
    req,      \* the request being handled
    given,    \* history: the links answered with code 0, until cancelled
    views,    \* history: how often a link was shown with code 0
    restarts, \* how often the process was started again
    faults    \* how many faults have struck

tables == <<pictures, total, ids>>
history == <<given, views>>
trouble == <<restarts, faults>>
vars == <<tables, held, drawn, req, history, trouble>>

Url == 1..MaxDrawn
Row == [user : User, md5 : Md5, url : Url, pv : Nat]
OK == 0
FAIL == 1
NoCode == 2 \* the failed list's answer: its "code" is set in another root

Idle == [op |-> "none", pc |-> "idle", user |-> NULL, md5 |-> NULL,
         url |-> 0, row |-> 0, code |-> OK, shown |-> {}]

-----------------------------------------------------------------------------
(* What the statements read.                                               *)

RowsOf(u)       == {i \in DOMAIN pictures : pictures[i].user = u}
LinkedBy(l)     == {i \in DOMAIN pictures : pictures[i].url = l}

\* The row a SELECT returns first: the oldest one.
First(S) == CHOOSE i \in S : \A j \in S : i <= j

\* The list joins share_picture_list with file_info.
Listed(u) == {i \in RowsOf(u) : pictures[i].md5 \in held}

At(pc)    == req.pc = pc
Goto(pc)  == req' = [req EXCEPT !.pc = pc]
Reply(c)  == req' = [req EXCEPT !.pc = "reply", !.code = c]

\* An operator whose name ends in Mutant is a plausible error in the
\* definition below it; no action uses it.
Lower(n)       == IF n > 0 THEN n - 1 ELSE n

RaiseMutant(n) == IF n = NULL THEN 0 ELSE n + 1
Raise(n)       == IF n = NULL THEN 1 ELSE n + 1

OthersLinkMutant(u, l) == {}
OthersLink(u, l)       == LinkedBy(l) \ RowsOf(u)

NotSharedMutant(u, l) == FALSE
NotShared(u, l)       == LinkedBy(l) \cap RowsOf(u) = {}

ViewedMutant(l) == {i \in DOMAIN pictures : \E j \in LinkedBy(l) :
                      pictures[i].md5 = pictures[j].md5}
Viewed(l)       == LinkedBy(l)

-----------------------------------------------------------------------------
(* cmd=share                                                               *)

ShareInsert ==
    /\ At("share_row")
    /\ drawn' = drawn + 1 /\ ids' = ids + 1
    /\ pictures' = [i \in DOMAIN pictures \cup {ids'} |->
                      IF i = ids'
                      THEN [user |-> req.user, md5 |-> req.md5,
                            url |-> drawn', pv |-> 0]
                      ELSE pictures[i]]
    /\ req' = [req EXCEPT !.pc = "share_total", !.row = ids', !.url = drawn']
    /\ UNCHANGED <<total, held, history, trouble>>

ShareTotal ==
    /\ At("share_total") /\ Reply(OK)
    /\ total' = [total EXCEPT ![req.user] = Raise(@)]
    /\ UNCHANGED <<pictures, ids, held, drawn, history, trouble>>

-----------------------------------------------------------------------------
(* cmd=cancel                                                              *)

CancelCheck ==
    /\ At("cancel_check")
    /\ IF NotShared(req.user, req.url) THEN Reply(OK) ELSE Goto("cancel_total")
    /\ UNCHANGED <<tables, held, drawn, history, trouble>>

CancelTotal ==
    /\ At("cancel_total")
    /\ IF total[req.user] = NULL
       THEN Reply(FAIL) /\ UNCHANGED total
       ELSE /\ Goto("cancel_row")
            /\ total' = [total EXCEPT ![req.user] = Lower(@)]
    /\ UNCHANGED <<pictures, ids, held, drawn, history, trouble>>

\* Every row the user has under the link goes.
CancelRow ==
    /\ At("cancel_row") /\ Reply(OK)
    /\ pictures' = [i \in (DOMAIN pictures \ LinkedBy(req.url))
                              \cup OthersLink(req.user, req.url) |-> pictures[i]]
    /\ UNCHANGED <<total, ids, held, drawn, history, trouble>>

-----------------------------------------------------------------------------
(* cmd=browse: the row of the link, the file of the row, and its view.     *)

BrowseFind ==
    /\ At("browse_find")
    /\ LET rows == LinkedBy(req.url)
       IN  IF rows = {} \/ pictures[First(rows)].md5 \notin held
           THEN Reply(FAIL)
           ELSE req' = [req EXCEPT !.pc = "browse_pv", !.row = First(rows)]
    /\ UNCHANGED <<tables, held, drawn, history, trouble>>

BrowsePv ==
    /\ At("browse_pv") /\ Reply(OK)
    /\ pictures' = [i \in DOMAIN pictures |->
                      IF i \in Viewed(req.url)
                      THEN [pictures[i] EXCEPT !.pv = pictures[req.row].pv + 1]
                      ELSE pictures[i]]
    /\ UNCHANGED <<total, ids, held, drawn, history, trouble>>

-----------------------------------------------------------------------------
(* cmd=normal: the list of one's pictures.                                 *)

\* A user without a row is given one; a count of 0 ends the request.
ListTotal ==
    /\ At("list_total")
    /\ total' = [total EXCEPT ![req.user] = IF @ = NULL THEN 0 ELSE @]
    /\ IF total'[req.user] = 0 THEN Reply(OK) ELSE Goto("list_rows")
    /\ UNCHANGED <<pictures, ids, held, drawn, history, trouble>>

ListRows ==
    /\ At("list_rows")
    /\ req' = [req EXCEPT !.pc = "reply", !.shown = Listed(req.user)]
    /\ UNCHANGED <<tables, held, drawn, history, trouble>>

-----------------------------------------------------------------------------
(* Requests, answers, and the rest of the server.                          *)

Begin(r) ==
    /\ At("idle") /\ req' = r
    /\ UNCHANGED <<tables, held, drawn, views, trouble>>

\* A share: a file of one's list, which file_info holds.
AskShare(u, m) ==
    /\ m \in held /\ drawn < MaxDrawn /\ ids < MaxRows
    /\ Begin([Idle EXCEPT !.op = "share", !.pc = "share_row", !.user = u,
                          !.md5 = m])
    /\ UNCHANGED given

\* A user may cancel a link twice, or one that is not theirs.  From here on
\* the link is not promised to the user any more.
AskCancel(u, l) ==
    /\ Begin([Idle EXCEPT !.op = "cancel", !.pc = "cancel_check", !.user = u,
                          !.url = l])
    /\ given' = {g \in given : g.user # u \/ g.url # l}

AskBrowse(l) ==
    /\ views[l] < MaxViews
    /\ Begin([Idle EXCEPT !.op = "browse", !.pc = "browse_find", !.url = l])
    /\ UNCHANGED given

AskList(u) ==
    /\ Begin([Idle EXCEPT !.op = "list", !.pc = "list_total", !.user = u])
    /\ UNCHANGED given

Respond ==
    /\ At("reply") /\ req' = Idle
    /\ given' = IF req.op = "share" /\ req.code = OK
                THEN given \cup {[row |-> req.row, user |-> req.user,
                                  md5 |-> req.md5, url |-> req.url]}
                ELSE given
    /\ views' = IF req.op = "browse" /\ req.code = OK
                THEN [views EXCEPT ![req.url] = @ + 1] ELSE views
    /\ UNCHANGED <<tables, held, drawn, trouble>>

\* Another request of the same process: a login draws its token.
LogIn ==
    /\ At("idle") /\ drawn < MaxDrawn /\ drawn' = drawn + 1
    /\ UNCHANGED <<tables, held, req, history, trouble>>

\* The last owner deletes the file of a picture, or someone uploads it:
\* handleDeleteFile does not look at share_picture_list.
FileChanges(m) ==
    /\ At("idle")
    /\ held' = IF m \in held THEN held \ {m} ELSE held \cup {m}
    /\ UNCHANGED <<tables, drawn, req, history, trouble>>

-----------------------------------------------------------------------------
(* Faults.                                                                 *)

Fault(kind) == /\ kind \in Faults
               /\ faults < MaxFaults
               /\ faults' = faults + 1

\* The two writes of a cancel, and they alone, are not missed.
SqlFails ==
    /\ Fault("sql")
    /\ \/ At("share_row") /\ Reply(FAIL) /\ drawn' = drawn + 1
       \/ /\ \/ req.pc \in {"share_total", "browse_pv"} /\ Reply(FAIL)
             \/ At("cancel_total") /\ total[req.user] \notin {NULL, 0}
                /\ Goto("cancel_row")
             \/ At("cancel_row") /\ Reply(OK)
             \/ At("list_total") /\ total[req.user] = NULL /\ Reply(NoCode)
          /\ UNCHANGED drawn
    /\ UNCHANGED <<tables, held, history, restarts>>

QueryFails ==
    /\ Fault("query")
    /\ \/ req.pc \in {"cancel_check", "browse_find"} /\ Reply(FAIL)
       \/ req.pc \in {"list_total", "list_rows"} /\ Reply(NoCode)
    /\ UNCHANGED <<tables, held, drawn, history, restarts>>

\* The process dies, also between two requests, and starts again.
Restart ==
    /\ Fault("crash") /\ restarts' = restarts + 1
    /\ req' = Idle /\ drawn' = 0
    /\ UNCHANGED <<tables, held, history>>

-----------------------------------------------------------------------------
Init ==
    /\ pictures = <<>> /\ ids = 0
    /\ total = [u \in User |-> NULL]
    /\ held = Md5
    /\ drawn = 0
    /\ req = Idle
    /\ given = {} /\ views = [l \in Url |-> 0]
    /\ restarts = 0 /\ faults = 0

Handle ==
    \/ ShareInsert \/ ShareTotal
    \/ CancelCheck \/ CancelTotal \/ CancelRow
    \/ BrowseFind \/ BrowsePv
    \/ ListTotal \/ ListRows

Next ==
    \/ \E u \in User, m \in Md5 : AskShare(u, m)
    \/ \E u \in User, l \in Url : AskCancel(u, l)
    \/ \E l \in Url : AskBrowse(l)
    \/ \E u \in User : AskList(u)
    \/ \E m \in Md5 : FileChanges(m)
    \/ Handle \/ Respond \/ LogIn
    \/ SqlFails \/ QueryFails \/ Restart

Spec == Init /\ [][Next]_vars

-----------------------------------------------------------------------------
(* What a link promises.                                                   *)

PCs == {"idle", "reply", "share_row", "share_total", "cancel_check",
        "cancel_total", "cancel_row", "browse_find", "browse_pv",
        "list_total", "list_rows"}

Requests ==
    [op : {"none", "share", "cancel", "browse", "list"}, pc : PCs,
     user : User \cup {NULL}, md5 : Md5 \cup {NULL}, url : 0..MaxDrawn,
     row : Nat, code : {OK, FAIL, NoCode}, shown : SUBSET Nat]

\* The type invariant: what the tables and the local variables may hold.
TypeOK ==
    /\ DOMAIN pictures \subseteq 1..ids
    /\ pictures \in [DOMAIN pictures -> Row]
    /\ total \in [User -> Nat \cup {NULL}]
    /\ held \subseteq Md5
    /\ ids \in Nat /\ drawn \in 0..MaxDrawn
    /\ req \in Requests
    /\ given \subseteq [row : 1..ids, user : User, md5 : Md5, url : Url]
    /\ views \in [Url -> Nat]

\* The row of a link that was answered with code 0 is kept, as it was inserted,
\* until its owner cancels the link: no failed statement, no restart and no
\* cancel of another user, of the same string either, takes it away.  (What
\* the link shows is another matter: LinkIsOnePicture.)
GivenLinkKept ==
    \A g \in given :
        /\ g.row \in DOMAIN pictures
        /\ pictures[g.row].user = g.user
        /\ pictures[g.row].md5 = g.md5
        /\ pictures[g.row].url = g.url

\* While the process lives, the count of a user's pictures differs from the
\* rows by no more than the statements that failed: handleSharePicture and
\* handleCancelSharePicture move the two by the same amount, cancels of links
\* that are gone included.
TotalOffByFaults ==
    At("idle") /\ restarts = 0 =>
        \A u \in User :
            LET n == IF total[u] = NULL THEN 0 ELSE total[u]
                d == n - Cardinality(RowsOf(u))
            IN  -faults <= d /\ d <= faults

\* With no fault, a list shows every link the user was given whose file is
\* there: the count that lets handleGetSharePicturesList answer without
\* looking is 0 only when there is nothing to show.
NothingHidden ==
    At("reply") /\ req.op = "list" /\ faults = 0 =>
        \A g \in given : g.user = req.user /\ g.md5 \in held =>
            g.row \in req.shown

\* While the process lives, the pv of a link is the number of times it was
\* shown: a view that failed is not counted, and no other link's view is.
ViewsCounted ==
    At("idle") /\ restarts = 0 =>
        \A g \in given : pictures[g.row].pv = views[g.url]

\* A link leads to one picture.  RandomString is said to return randomly
\* generated characters; handleSharePicture takes it for unique.
LinkIsOnePicture ==
    \A g, h \in given : g.url = h.url => g.md5 = h.md5
=============================================================================
