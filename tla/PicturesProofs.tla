--------------------------- MODULE PicturesProofs ---------------------------
(* What Pictures keeps for every set of users and pictures, every bound and  *)
(* any number of faults and restarts.                                        *)
EXTENDS Pictures, NaturalsInduction, WellFoundedInduction, FiniteSetTheorems, TLAPS

-----------------------------------------------------------------------------
(* The inductive invariant.                                                  *)

\* The row of a link that is being answered, or has been answered.
LeadsTo(g) ==
    /\ g.row \in DOMAIN pictures
    /\ pictures[g.row].user = g.user
    /\ pictures[g.row].md5 = g.md5
    /\ pictures[g.row].url = g.url

Shared == \/ req.pc = "share_total"
          \/ req.pc = "reply" /\ req.op = "share" /\ req.code = OK

\* What each handler holds in its locals at each of its steps.
Control ==
    /\ req.pc \in {"share_row", "share_total"} => req.op = "share"
    /\ req.pc = "share_row" =>
          req.user \in User /\ req.md5 \in Md5 /\ drawn < MaxDrawn
    /\ Shared => /\ req.user \in User /\ req.md5 \in Md5 /\ req.url \in Url
                 /\ LeadsTo(req)
    /\ req.pc \in {"cancel_check", "cancel_total", "cancel_row"} =>
          /\ req.op = "cancel" /\ req.user \in User
          /\ \A g \in given : g.user # req.user \/ g.url # req.url
    /\ req.pc \in {"browse_find", "browse_pv"} =>
          req.op = "browse" /\ req.url \in Url
    /\ req.pc = "browse_pv" => req.row \in LinkedBy(req.url)
    /\ req.pc \in {"list_total", "list_rows"} =>
          req.op = "list" /\ req.user \in User

\* The view that is being answered is in the table and not in the history.
Viewing(l) == /\ req.pc = "reply" /\ req.op = "browse" /\ req.code = OK
              /\ req.url = l

\* The strings of one process are all different.
Distinct ==
    restarts = 0 =>
        /\ \A i, j \in DOMAIN pictures :
              pictures[i].url = pictures[j].url => i = j
        /\ \A i \in DOMAIN pictures : pictures[i].url <= drawn

Viewed0 ==
    restarts = 0 =>
        /\ \A i \in DOMAIN pictures :
              pictures[i].pv = views[pictures[i].url]
                               + (IF Viewing(pictures[i].url) THEN 1 ELSE 0)
        /\ \A l \in Url : l > drawn => views[l] = 0 /\ ~Viewing(l)

Counters == restarts \in Nat

Inv == TypeOK /\ Counters /\ Control /\ GivenLinkKept /\ Distinct /\ Viewed0

-----------------------------------------------------------------------------
(* Helpers.                                                                  *)

LEMMA FirstIsRow ==
    ASSUME NEW S, S \subseteq Nat, S # {} PROVE First(S) \in S
  <1>1. \E i \in S : \A j \in S : ~(<<j, i>> \in OpToRel(<, Nat))
    BY NatLessThanWellFounded, WFMin
  <1>2. \A i, j \in Nat : <<j, i>> \in OpToRel(<, Nat) <=> j < i
    BY DEF OpToRel
  <1>3. PICK i \in S : \A j \in S : ~(<<j, i>> \in OpToRel(<, Nat))
    BY <1>1
  <1>4. \A j \in S : ~(j < i)
    BY <1>2, <1>3
  <1>5. i \in Nat /\ \A j \in S : j \in Nat
    OBVIOUS
  <1>6. \A j \in S : i <= j
    BY <1>4, <1>5
  <1>7. QED
    BY <1>3, <1>6 DEF First

LEMMA RowSet ==
    /\ \A u \in User, m \in Md5, l \in Url :
          [user |-> u, md5 |-> m, url |-> l, pv |-> 0] \in Row
    /\ \A r \in Row, n \in Nat :
          LET s == [r EXCEPT !.pv = n]
          IN  s \in Row /\ s.user = r.user /\ s.md5 = r.md5 /\ s.url = r.url
              /\ s.pv = n
    /\ \A r \in Row : /\ r.user \in User /\ r.md5 \in Md5 /\ r.url \in Url
                      /\ r.pv \in Nat
  BY DEF Row

LEMMA GotoMoves ==
    ASSUME TypeOK, NEW p \in PCs, Goto(p)
    PROVE  req' \in Requests /\ req'.pc = p /\ req' = [req EXCEPT !.pc = p]
  BY DEF TypeOK, Goto, Requests

LEMMA ReplyMoves ==
    ASSUME TypeOK, NEW c \in {OK, FAIL, NoCode}, Reply(c)
    PROVE  /\ req' \in Requests /\ req'.pc = "reply" /\ req'.code = c
           /\ req'.op = req.op /\ req'.user = req.user /\ req'.md5 = req.md5
           /\ req'.url = req.url /\ req'.row = req.row
  <1>1. "reply" \in PCs
    BY DEF PCs
  <1>2. QED
    BY <1>1 DEF TypeOK, Reply, Requests

-----------------------------------------------------------------------------
(* What a step leaves alone.                                                 *)

\* The handler goes on at p with the same request.
GoesOn(p) ==
    /\ req' \in Requests /\ req'.pc = p
    /\ req'.op = req.op /\ req'.user = req.user /\ req'.md5 = req.md5
    /\ req'.url = req.url

\* The tables and what is known of them stay.
Still == UNCHANGED <<pictures, ids, given, views, restarts>>

LEMMA KeptWhenStill ==
    ASSUME GivenLinkKept, UNCHANGED pictures, given' \subseteq given
    PROVE  GivenLinkKept'
  BY DEF GivenLinkKept

LEMMA DistinctWhenStill ==
    ASSUME Distinct, UNCHANGED <<pictures, restarts>>, TypeOK,
           drawn' \in Nat, drawn <= drawn'
    PROVE  Distinct'
  BY DEF Distinct, TypeOK, Row, Url

LEMMA ViewedWhenStill ==
    ASSUME Viewed0, UNCHANGED <<pictures, views, restarts>>, TypeOK,
           drawn' \in Nat, drawn <= drawn',
           \A l : Viewing(l)' <=> Viewing(l)
    PROVE  Viewed0'
  <1>1. \A i \in DOMAIN pictures : Viewing(pictures[i].url)' <=> Viewing(pictures[i].url)
    OBVIOUS
  <1>2. \A l \in Url : l > drawn' => l > drawn
    BY DEF TypeOK, Url
  <1>3. QED
    BY <1>1, <1>2 DEF Viewed0

\* A step that leaves the pictures and the history alone.
LEMMA StillStep ==
    ASSUME Inv, Still, req' \in Requests, held' \subseteq Md5,
           total' \in [User -> Nat \cup {NULL}],
           drawn' \in 0..MaxDrawn, drawn <= drawn',
           \A l : Viewing(l)' <=> Viewing(l), Control'
    PROVE  Inv'
  <1>1. TypeOK'
    BY DEF Inv, TypeOK, Still
  <1>2. drawn' \in Nat
    BY PicturesAssumption
  <1>3. GivenLinkKept' /\ Distinct' /\ Viewed0'
    BY <1>2, KeptWhenStill, DistinctWhenStill, ViewedWhenStill DEF Inv, Still
  <1>4. QED
    BY <1>1, <1>3 DEF Inv, Still, Counters

-----------------------------------------------------------------------------
(* Sharing.                                                                  *)

LEMMA ShareInsertKeeps == ASSUME Inv, ShareInsert PROVE Inv'
  <1> DEFINE new == [user |-> req.user, md5 |-> req.md5, url |-> drawn', pv |-> 0]
  <1>1. /\ req.user \in User /\ req.md5 \in Md5 /\ req.op = "share"
        /\ drawn \in Nat /\ MaxDrawn \in Nat /\ drawn < MaxDrawn
        /\ ids \in Nat /\ req \in Requests
    BY PicturesAssumption DEF Inv, Control, TypeOK, ShareInsert, At
  <1>2. drawn' = drawn + 1 /\ ids' = ids + 1 /\ drawn' \in Url
    BY <1>1 DEF ShareInsert, Url
  <1>3. ids' \notin DOMAIN pictures /\ DOMAIN pictures \subseteq 1..ids
    BY <1>1, <1>2 DEF Inv, TypeOK
  <1>4. /\ DOMAIN pictures' = DOMAIN pictures \cup {ids'}
        /\ pictures'[ids'] = new
        /\ \A i \in DOMAIN pictures : pictures'[i] = pictures[i]
    BY <1>3 DEF ShareInsert
  <1>5. new \in Row
    BY <1>1, <1>2, RowSet
  <1>6. /\ req' \in Requests /\ req'.pc = "share_total" /\ req'.op = "share"
        /\ req'.user = req.user /\ req'.md5 = req.md5
        /\ req'.url = drawn' /\ req'.row = ids'
    <2>1. "share_total" \in PCs
      BY DEF PCs
    <2>2. drawn' \in 0..MaxDrawn /\ ids' \in Nat
      BY <1>1, <1>2 DEF Url
    <2>3. req' = [req EXCEPT !.pc = "share_total", !.row = ids', !.url = drawn']
      BY DEF ShareInsert
    <2>4. QED
      BY <1>1, <2>1, <2>2, <2>3 DEF Requests
  <1>7. TypeOK'
    <2>1. DOMAIN pictures' \subseteq 1..ids'
      BY <1>1, <1>2, <1>3, <1>4
    <2>2. pictures' \in [DOMAIN pictures' -> Row]
      <3>1. \A i \in DOMAIN pictures' : pictures'[i] \in Row
        BY <1>4, <1>5 DEF Inv, TypeOK
      <3>2. pictures' = [i \in DOMAIN pictures' |-> pictures'[i]]
        BY <1>4 DEF ShareInsert
      <3>3. QED
        BY <3>1, <3>2
    <2>3. given' \subseteq [row : 1..ids', user : User, md5 : Md5, url : Url]
      <3>1. 1..ids \subseteq 1..ids'
        BY <1>1, <1>2
      <3>2. given' = given
        BY DEF ShareInsert, history
      <3>3. QED
        BY <3>1, <3>2 DEF Inv, TypeOK
    <2>4. ids' \in Nat /\ drawn' \in 0..MaxDrawn
      BY <1>1, <1>2
    <2>5. UNCHANGED <<total, held, views>>
      BY DEF ShareInsert, history
    <2>6. QED
      BY <1>6, <2>1, <2>2, <2>3, <2>4, <2>5 DEF Inv, TypeOK
  <1>8. Control'
    <2>1. LeadsTo(req)'
      BY <1>4, <1>6 DEF LeadsTo
    <2>2. QED
      BY <1>1, <1>2, <1>6, <2>1 DEF Control, Shared
  <1>9. GivenLinkKept'
    BY <1>4 DEF Inv, GivenLinkKept, ShareInsert, history
  <1>10. Distinct'
    <2>1. CASE restarts' # 0
      BY <2>1 DEF Distinct
    <2>2. CASE restarts' = 0
      <3>1. restarts = 0
        BY <2>2 DEF ShareInsert, trouble
      <3>2. \A i \in DOMAIN pictures : pictures[i].url \in Nat
        BY <1>1, RowSet DEF Inv, TypeOK, Url
      <3>3. \A i \in DOMAIN pictures : pictures[i].url < drawn'
        BY <1>1, <1>2, <3>1, <3>2 DEF Inv, Distinct
      <3>4. \A i \in DOMAIN pictures : pictures'[i].url < drawn'
        BY <1>4, <3>3
      <3>5. pictures'[ids'].url = drawn'
        BY <1>4
      <3>6. \A i \in DOMAIN pictures' : pictures'[i].url <= drawn'
        BY <1>1, <1>2, <1>4, <3>2, <3>4, <3>5
      <3>7. \A i \in DOMAIN pictures : pictures'[i].url # drawn'
        BY <1>1, <1>2, <1>4, <3>2, <3>4
      <3>8. ASSUME NEW i \in DOMAIN pictures', NEW j \in DOMAIN pictures',
                   pictures'[i].url = pictures'[j].url
            PROVE  i = j
        <4>1. CASE i \in DOMAIN pictures /\ j \in DOMAIN pictures
          BY <1>4, <3>1, <3>8, <4>1 DEF Inv, Distinct
        <4>2. CASE i = ids' \/ j = ids'
          BY <1>4, <3>5, <3>7, <3>8, <4>2
        <4>3. QED
          BY <1>4, <4>1, <4>2
      <3>9. QED
        BY <3>6, <3>8 DEF Distinct
    <2>3. QED
      BY <2>1, <2>2
  <1>11. Viewed0'
    <2>1. CASE restarts' # 0
      BY <2>1 DEF Viewed0
    <2>2. CASE restarts' = 0
      <3>1. restarts = 0 /\ views' = views
        BY <2>2 DEF ShareInsert, trouble, history
      <3>2. \A l : ~Viewing(l) /\ ~Viewing(l)'
        BY <1>6 DEF Viewing, ShareInsert, At
      <3>3. \A i \in DOMAIN pictures : pictures[i].pv = views[pictures[i].url] + 0
        BY <3>1, <3>2 DEF Inv, Viewed0
      <3>4. views[drawn'] = 0
        BY <1>1, <1>2, <3>1 DEF Inv, Viewed0
      <3>5. \A i \in DOMAIN pictures' : pictures'[i].pv = views[pictures'[i].url] + 0
        BY <1>4, <3>3, <3>4
      <3>6. \A l \in Url : l > drawn' => views[l] = 0
        BY <1>1, <1>2, <3>1 DEF Inv, Viewed0, Url
      <3>7. QED
        BY <3>1, <3>2, <3>5, <3>6 DEF Viewed0
    <2>3. QED
      BY <2>1, <2>2
  <1>12. QED
    BY <1>7, <1>8, <1>9, <1>10, <1>11 DEF Inv, Counters, ShareInsert, trouble

LEMMA ShareTotalKeeps == ASSUME Inv, ShareTotal PROVE Inv'
  <1>1. /\ req' \in Requests /\ req'.pc = "reply" /\ req'.code = OK
        /\ req'.op = req.op /\ req'.user = req.user /\ req'.md5 = req.md5
        /\ req'.url = req.url /\ req'.row = req.row
    BY ReplyMoves DEF Inv, ShareTotal
  <1>2. req.op = "share" /\ req.pc = "share_total"
    BY DEF Inv, Control, ShareTotal, At
  <1>3. Control'
    BY <1>1, <1>2 DEF Inv, Control, Shared, LeadsTo, ShareTotal
  <1>4. \A l : ~Viewing(l) /\ ~Viewing(l)'
    BY <1>1, <1>2 DEF Viewing
  <1>5. total' \in [User -> Nat \cup {NULL}]
    <2>1. \A n \in Nat \cup {NULL} : Raise(n) \in Nat \cup {NULL}
      BY DEF Raise
    <2>2. QED
      BY <2>1 DEF Inv, TypeOK, ShareTotal
  <1>6. QED
    BY <1>1, <1>3, <1>4, <1>5, StillStep, PicturesAssumption
    DEF Inv, TypeOK, Still, ShareTotal, history, trouble

-----------------------------------------------------------------------------
(* Cancelling.                                                               *)

\* A step of a handler that changes at most the count, and goes on or answers.
LEMMA HandlerStep ==
    ASSUME Inv, Still, UNCHANGED <<drawn, held>>,
           total' \in [User -> Nat \cup {NULL}], req.pc \notin {"idle", "reply"},
           req' \in Requests, req'.pc \in {"cancel_total", "cancel_row", "reply",
                                         "list_rows"},
           req'.op = req.op, req'.user = req.user, req'.url = req.url,
           req'.pc = "reply" => req.op # "share" \/ req'.code # OK,
           req'.pc = "reply" => req.op # "browse" \/ req'.code # OK,
           req'.pc \in {"cancel_total", "cancel_row"} =>
              req.pc \in {"cancel_check", "cancel_total"},
           req'.pc = "list_rows" => req.pc = "list_total"
    PROVE  Inv'
  <1>1. Control'
    BY DEF Inv, Control, Shared, Still
  <1>2. \A l : ~Viewing(l) /\ ~Viewing(l)'
    BY DEF Viewing
  <1>3. QED
    BY <1>1, <1>2, StillStep, PicturesAssumption DEF Inv, TypeOK

LEMMA GotoAsIs ==
    ASSUME TypeOK, NEW p \in PCs, Goto(p)
    PROVE  GoesOn(p)
  BY GotoMoves DEF GoesOn, TypeOK, Requests

LEMMA CancelCheckKeeps == ASSUME Inv, CancelCheck PROVE Inv'
  <1>1. req.pc = "cancel_check" /\ req.op = "cancel" /\ TypeOK
    BY DEF Inv, Control, CancelCheck, At
  <1>2. "cancel_total" \in PCs
    BY DEF PCs
  <1>3. Goto("cancel_total") \/ Reply(OK)
    BY DEF CancelCheck
  <1>4. GoesOn("cancel_total") \/ (GoesOn("reply") /\ req'.code = OK)
    BY <1>1, <1>2, <1>3, GotoAsIs, ReplyMoves DEF GoesOn
  <1>5. Still /\ UNCHANGED <<drawn, held, total>>
    BY DEF CancelCheck, Still, tables, history, trouble
  <1>6. QED
    BY <1>1, <1>4, <1>5, HandlerStep DEF GoesOn, TypeOK

LEMMA CancelTotalKeeps == ASSUME Inv, CancelTotal PROVE Inv'
  <1>1. req.pc = "cancel_total" /\ req.op = "cancel" /\ req.user \in User /\ TypeOK
    BY DEF Inv, Control, CancelTotal, At
  <1>2. "cancel_row" \in PCs
    BY DEF PCs
  <1>3. Goto("cancel_row") \/ Reply(FAIL)
    BY DEF CancelTotal
  <1>4. GoesOn("cancel_row") \/ GoesOn("reply")
    BY <1>1, <1>2, <1>3, GotoAsIs, ReplyMoves DEF GoesOn
  <1>5. Still /\ UNCHANGED <<drawn, held>>
    BY DEF CancelTotal, Still, history, trouble
  <1>6. total' \in [User -> Nat \cup {NULL}]
    <2>1. CASE total[req.user] = NULL
      BY <1>1, <2>1 DEF CancelTotal, TypeOK
    <2>2. CASE total[req.user] # NULL
      <3>1. total[req.user] \in Nat
        BY <1>1, <2>2 DEF TypeOK
      <3>2. Lower(total[req.user]) \in Nat
        BY <3>1 DEF Lower
      <3>3. total' = [total EXCEPT ![req.user] = Lower(total[req.user])]
        BY <2>2 DEF CancelTotal
      <3>4. QED
        BY <1>1, <3>2, <3>3 DEF TypeOK
    <2>3. QED
      BY <2>1, <2>2
  <1>7. QED
    BY <1>1, <1>4, <1>5, <1>6, HandlerStep DEF GoesOn

LEMMA CancelRowKeeps == ASSUME Inv, CancelRow PROVE Inv'
  <1> DEFINE rest == (DOMAIN pictures \ LinkedBy(req.url))
                        \cup OthersLink(req.user, req.url)
  <1>1. req.pc = "cancel_row" /\ req.op = "cancel" /\ TypeOK
    BY DEF Inv, Control, CancelRow, At
  <1>2. req' \in Requests /\ req'.pc = "reply" /\ req'.op = "cancel"
    BY <1>1, ReplyMoves DEF CancelRow
  <1>3. rest \subseteq DOMAIN pictures
    BY DEF OthersLink, LinkedBy
  <1>4. /\ DOMAIN pictures' = rest
        /\ \A i \in rest : pictures'[i] = pictures[i]
        /\ pictures' = [i \in rest |-> pictures[i]]
    BY DEF CancelRow
  <1>5. UNCHANGED <<total, ids, held, drawn, given, views, restarts>>
    BY DEF CancelRow, history, trouble
  <1>6. TypeOK'
    <2>1. pictures' \in [DOMAIN pictures' -> Row]
      BY <1>1, <1>3, <1>4 DEF TypeOK
    <2>2. DOMAIN pictures' \subseteq 1..ids'
      BY <1>1, <1>3, <1>4, <1>5 DEF TypeOK
    <2>3. QED
      BY <1>1, <1>2, <1>5, <2>1, <2>2 DEF TypeOK
  <1>7. Control'
    BY <1>2 DEF Control, Shared
  <1>8. GivenLinkKept'
    <2>1. ASSUME NEW g \in given PROVE g.row \in rest
      <3>1. g.user # req.user \/ g.url # req.url
        BY <1>1 DEF Inv, Control
      <3>2. /\ g.row \in DOMAIN pictures /\ pictures[g.row].user = g.user
            /\ pictures[g.row].url = g.url
        BY DEF Inv, GivenLinkKept
      <3>3. QED
        BY <3>1, <3>2 DEF OthersLink, LinkedBy, RowsOf
    <2>2. QED
      BY <1>4, <1>5, <2>1 DEF Inv, GivenLinkKept
  <1>9. Distinct'
    BY <1>3, <1>4, <1>5 DEF Inv, Distinct
  <1>10. \A l : ~Viewing(l) /\ ~Viewing(l)'
    BY <1>1, <1>2 DEF Viewing
  <1>11. Viewed0'
    <2>1. CASE restarts' # 0
      BY <2>1 DEF Viewed0
    <2>2. CASE restarts' = 0
      <3>1. \A i \in DOMAIN pictures : pictures[i].pv = views[pictures[i].url] + 0
        BY <1>5, <1>10, <2>2 DEF Inv, Viewed0
      <3>2. \A i \in DOMAIN pictures' : pictures'[i].pv = views'[pictures'[i].url] + 0
        BY <1>3, <1>4, <1>5, <3>1
      <3>3. \A l \in Url : l > drawn' => views'[l] = 0
        BY <1>5, <2>2 DEF Inv, Viewed0
      <3>4. QED
        BY <1>10, <3>2, <3>3 DEF Viewed0
    <2>3. QED
      BY <2>1, <2>2
  <1>12. QED
    BY <1>5, <1>6, <1>7, <1>8, <1>9, <1>11 DEF Inv, Counters

-----------------------------------------------------------------------------
(* Browsing.                                                                 *)

LEMMA BrowseFindKeeps == ASSUME Inv, BrowseFind PROVE Inv'
  <1>1. req.pc = "browse_find" /\ req.op = "browse" /\ TypeOK
    BY DEF Inv, Control, BrowseFind, At
  <1>2. Still /\ UNCHANGED <<drawn, held, total>>
    BY DEF BrowseFind, Still, tables, history, trouble
  <1>3. CASE Reply(FAIL)
    <2>1. GoesOn("reply") /\ req'.code = FAIL
      BY <1>1, <1>3, ReplyMoves DEF GoesOn
    <2>2. QED
      BY <1>1, <1>2, <2>1, HandlerStep DEF GoesOn, TypeOK, OK, FAIL
  <1>4. CASE /\ LinkedBy(req.url) # {}
             /\ req' = [req EXCEPT !.pc = "browse_pv",
                                   !.row = First(LinkedBy(req.url))]
    <2>1. LinkedBy(req.url) \subseteq DOMAIN pictures /\ DOMAIN pictures \subseteq Nat
      BY <1>1 DEF LinkedBy, TypeOK
    <2>2. First(LinkedBy(req.url)) \in LinkedBy(req.url)
      BY <1>4, <2>1, FirstIsRow
    <2>3. First(LinkedBy(req.url)) \in Nat /\ "browse_pv" \in PCs
      BY <2>1, <2>2 DEF PCs
    <2>4. /\ req' \in Requests /\ req'.pc = "browse_pv" /\ req'.op = "browse"
          /\ req'.url = req.url /\ req'.row = First(LinkedBy(req.url))
      BY <1>1, <1>4, <2>3 DEF TypeOK, Requests
    <2>5. Control'
      BY <1>1, <1>2, <2>2, <2>4 DEF Inv, Control, Shared, Still, LinkedBy
    <2>6. \A l : ~Viewing(l) /\ ~Viewing(l)'
      BY <1>1, <2>4 DEF Viewing
    <2>7. QED
      BY <1>1, <1>2, <2>4, <2>5, <2>6, StillStep, PicturesAssumption DEF TypeOK
  <1>5. QED
    BY <1>3, <1>4 DEF BrowseFind

LEMMA BrowsePvKeeps == ASSUME Inv, BrowsePv PROVE Inv'
  <1> DEFINE l == req.url
  <1> DEFINE n == pictures[req.row].pv + 1
  <1>1. /\ req.pc = "browse_pv" /\ req.op = "browse" /\ l \in Url
        /\ req.row \in LinkedBy(l) /\ TypeOK
    BY DEF Inv, Control, BrowsePv, At
  <1>2. req.row \in DOMAIN pictures /\ pictures[req.row].url = l
    BY <1>1 DEF LinkedBy
  <1>3. pictures[req.row].pv \in Nat /\ n \in Nat
    BY <1>1, <1>2, RowSet DEF TypeOK
  <1>4. /\ req' \in Requests /\ req'.pc = "reply" /\ req'.op = "browse"
        /\ req'.url = l /\ req'.code = OK
    BY <1>1, ReplyMoves DEF BrowsePv
  <1>5. /\ DOMAIN pictures' = DOMAIN pictures
        /\ \A i \in DOMAIN pictures :
              /\ pictures'[i] \in Row
              /\ pictures'[i].user = pictures[i].user
              /\ pictures'[i].md5 = pictures[i].md5
              /\ pictures'[i].url = pictures[i].url
              /\ pictures[i].url = l => pictures'[i].pv = n
              /\ pictures[i].url # l => pictures'[i].pv = pictures[i].pv
    <2>1. \A i \in DOMAIN pictures : pictures[i] \in Row
      BY <1>1 DEF TypeOK
    <2>2. DOMAIN pictures' = DOMAIN pictures
      BY DEF BrowsePv
    <2>3. ASSUME NEW i \in DOMAIN pictures, pictures[i].url = l
          PROVE  pictures'[i] = [pictures[i] EXCEPT !.pv = n]
      BY <2>3 DEF BrowsePv, Viewed, LinkedBy
    <2>4. ASSUME NEW i \in DOMAIN pictures, pictures[i].url # l
          PROVE  pictures'[i] = pictures[i]
      BY <2>4 DEF BrowsePv, Viewed, LinkedBy
    <2>5. ASSUME NEW i \in DOMAIN pictures, pictures[i].url = l
          PROVE  /\ pictures'[i] \in Row
                 /\ pictures'[i].user = pictures[i].user
                 /\ pictures'[i].md5 = pictures[i].md5
                 /\ pictures'[i].url = pictures[i].url
                 /\ pictures'[i].pv = n
      <3>1. pictures[i] \in Row /\ pictures'[i] = [pictures[i] EXCEPT !.pv = n]
        BY <2>1, <2>3, <2>5
      <3>2. QED
        BY <1>3, <3>1, RowSet
    <2>6. QED
      BY <2>1, <2>2, <2>4, <2>5
  <1>6. UNCHANGED <<total, ids, held, drawn, given, views, restarts>>
    BY DEF BrowsePv, history, trouble
  <1>7. TypeOK'
    <2>1. pictures' \in [DOMAIN pictures' -> Row]
      <3>1. pictures' = [i \in DOMAIN pictures' |-> pictures'[i]]
        BY <1>5 DEF BrowsePv
      <3>2. QED
        BY <1>5, <3>1
    <2>2. QED
      BY <1>1, <1>4, <1>5, <1>6, <2>1 DEF TypeOK
  <1>8. Control'
    BY <1>4 DEF Control, Shared
  <1>9. GivenLinkKept'
    BY <1>5, <1>6 DEF Inv, GivenLinkKept
  <1>10. Distinct'
    BY <1>5, <1>6 DEF Inv, Distinct
  <1>11. Viewed0'
    <2>1. CASE restarts' # 0
      BY <2>1 DEF Viewed0
    <2>2. CASE restarts' = 0
      <3>1. restarts = 0 /\ \A k : ~Viewing(k)
        BY <1>1, <1>6, <2>2 DEF Viewing
      <3>2. \A k : Viewing(k)' <=> k = l
        BY <1>4 DEF Viewing
      <3>3. \A i \in DOMAIN pictures : pictures[i].pv = views[pictures[i].url] + 0
        BY <3>1 DEF Inv, Viewed0
      <3>4. \A i \in DOMAIN pictures : pictures[i].url = l => i = req.row
        BY <1>2, <3>1 DEF Inv, Distinct
      <3>5. ASSUME NEW i \in DOMAIN pictures'
            PROVE  pictures'[i].pv = views'[pictures'[i].url]
                                     + (IF pictures'[i].url = l THEN 1 ELSE 0)
        <4>1. CASE pictures[i].url = l
          <5>1. pictures'[i].pv = n /\ pictures'[i].url = l
            BY <1>5, <3>5, <4>1
          <5>2. pictures[req.row].pv = views[l] + 0
            BY <1>2, <3>3
          <5>3. views[l] \in Nat
            BY <1>1 DEF TypeOK
          <5>4. QED
            BY <1>6, <5>1, <5>2, <5>3
        <4>2. CASE pictures[i].url # l
          BY <1>5, <1>6, <3>3, <3>5, <4>2
        <4>3. QED
          BY <4>1, <4>2
      <3>6. l <= drawn
        BY <1>2, <3>1 DEF Inv, Distinct
      <3>7. drawn \in Nat /\ l \in Nat
        BY <1>1, PicturesAssumption DEF TypeOK, Url
      <3>8. \A k \in Url : k > drawn' => views'[k] = 0 /\ ~Viewing(k)'
        BY <1>6, <3>1, <3>2, <3>6, <3>7 DEF Inv, Viewed0, Url
      <3>9. QED
        BY <1>4, <3>5, <3>8 DEF Viewed0, Viewing
    <2>3. QED
      BY <2>1, <2>2
  <1>12. QED
    BY <1>6, <1>7, <1>8, <1>9, <1>10, <1>11 DEF Inv, Counters

-----------------------------------------------------------------------------
(* Listing.                                                                  *)

LEMMA ListTotalKeeps == ASSUME Inv, ListTotal PROVE Inv'
  <1>1. req.pc = "list_total" /\ req.op = "list" /\ TypeOK
    BY DEF Inv, Control, ListTotal, At
  <1>2. Goto("list_rows") \/ Reply(OK)
    BY DEF ListTotal
  <1>3. "list_rows" \in PCs
    BY DEF PCs
  <1>4. GoesOn("list_rows") \/ GoesOn("reply")
    BY <1>1, <1>2, <1>3, GotoAsIs, ReplyMoves DEF GoesOn
  <1>5. Still /\ UNCHANGED <<drawn, held>>
    BY DEF ListTotal, Still, history, trouble
  <1>6. total' \in [User -> Nat \cup {NULL}]
    BY <1>1 DEF ListTotal, TypeOK
  <1>7. QED
    BY <1>1, <1>4, <1>5, <1>6, HandlerStep DEF GoesOn

LEMMA ListRowsKeeps == ASSUME Inv, ListRows PROVE Inv'
  <1>1. req.pc = "list_rows" /\ req.op = "list" /\ TypeOK
    BY DEF Inv, Control, ListRows, At
  <1>2. Listed(req.user) \in SUBSET Nat /\ "reply" \in PCs
    BY <1>1 DEF Listed, RowsOf, TypeOK, PCs
  <1>3. GoesOn("reply")
    BY <1>1, <1>2 DEF ListRows, GoesOn, TypeOK, Requests
  <1>4. Still /\ UNCHANGED <<drawn, held, total>>
    BY DEF ListRows, Still, tables, history, trouble
  <1>5. QED
    BY <1>1, <1>3, <1>4, HandlerStep DEF GoesOn, TypeOK

-----------------------------------------------------------------------------
(* Requests, answers and the rest of the server.                             *)

LEMMA IdleRequest == Idle \in Requests
  BY PicturesAssumption DEF Idle, Requests, PCs, OK

LEMMA UrlIsNumber == \A l \in Url : l \in 0..MaxDrawn
  BY PicturesAssumption DEF Url

\* A request comes in: only the request and what is promised may change.
LEMMA Begins ==
    ASSUME Inv, NEW r \in Requests, Begin(r), r.pc # "reply",
           given' \subseteq given, Control'
    PROVE  Inv'
  <1>1. req.pc = "idle" /\ req' = r
    BY DEF Begin, At
  <1>2. UNCHANGED <<pictures, ids, total, held, drawn, views, restarts>>
    BY DEF Begin, tables, trouble
  <1>3. \A l : Viewing(l)' <=> Viewing(l)
    BY <1>1 DEF Viewing
  <1>4. drawn' \in Nat /\ drawn <= drawn'
    BY <1>2, PicturesAssumption DEF Inv, TypeOK
  <1>5. TypeOK'
    BY <1>1, <1>2 DEF Inv, TypeOK
  <1>6. GivenLinkKept'
    BY <1>2, KeptWhenStill DEF Inv
  <1>7. Distinct' /\ Viewed0'
    BY <1>2, <1>3, <1>4, DistinctWhenStill, ViewedWhenStill DEF Inv
  <1>8. QED
    BY <1>2, <1>5, <1>6, <1>7 DEF Inv, Counters

LEMMA AskShareKeeps ==
    ASSUME Inv, NEW u \in User, NEW m \in Md5, AskShare(u, m) PROVE Inv'
  <1> DEFINE r == [Idle EXCEPT !.op = "share", !.pc = "share_row", !.user = u,
                               !.md5 = m]
  <1>1. r \in Requests /\ r.pc = "share_row" /\ r.op = "share"
    BY IdleRequest DEF Requests, PCs
  <1>2. r.user = u /\ r.md5 = m
    BY DEF Idle
  <1>3. Begin(r) /\ req' = r /\ drawn < MaxDrawn /\ UNCHANGED <<given, drawn>>
    BY DEF AskShare, Begin
  <1>4. Control'
    BY <1>1, <1>2, <1>3 DEF Control, Shared
  <1>5. QED
    BY <1>1, <1>3, <1>4, Begins

LEMMA AskCancelKeeps ==
    ASSUME Inv, NEW u \in User, NEW l \in Url, AskCancel(u, l) PROVE Inv'
  <1> DEFINE r == [Idle EXCEPT !.op = "cancel", !.pc = "cancel_check",
                               !.user = u, !.url = l]
  <1>1. r \in Requests /\ r.pc = "cancel_check" /\ r.op = "cancel"
    BY IdleRequest, UrlIsNumber DEF Requests, PCs
  <1>2. r.user = u /\ r.url = l
    BY DEF Idle
  <1>3. Begin(r) /\ req' = r
    BY DEF AskCancel, Begin
  <1>4. /\ given' \subseteq given
        /\ \A g \in given' : g.user # u \/ g.url # l
    BY DEF AskCancel
  <1>5. Control'
    BY <1>1, <1>2, <1>3, <1>4 DEF Control, Shared
  <1>6. QED
    BY <1>1, <1>3, <1>4, <1>5, Begins

LEMMA AskBrowseKeeps ==
    ASSUME Inv, NEW l \in Url, AskBrowse(l) PROVE Inv'
  <1> DEFINE r == [Idle EXCEPT !.op = "browse", !.pc = "browse_find", !.url = l]
  <1>1. r \in Requests /\ r.pc = "browse_find" /\ r.op = "browse"
    BY IdleRequest, UrlIsNumber DEF Requests, PCs
  <1>2. r.url = l
    BY DEF Idle
  <1>3. Begin(r) /\ req' = r /\ given' = given
    BY DEF AskBrowse, Begin
  <1>4. Control'
    BY <1>1, <1>2, <1>3 DEF Control, Shared
  <1>5. QED
    BY <1>1, <1>3, <1>4, Begins

LEMMA AskListKeeps ==
    ASSUME Inv, NEW u \in User, AskList(u) PROVE Inv'
  <1> DEFINE r == [Idle EXCEPT !.op = "list", !.pc = "list_total", !.user = u]
  <1>1. r \in Requests /\ r.pc = "list_total" /\ r.op = "list"
    BY IdleRequest DEF Requests, PCs
  <1>2. r.user = u
    BY DEF Idle
  <1>3. Begin(r) /\ req' = r /\ given' = given
    BY DEF AskList, Begin
  <1>4. Control'
    BY <1>1, <1>2, <1>3 DEF Control, Shared
  <1>5. QED
    BY <1>1, <1>3, <1>4, Begins

LEMMA RespondKeeps == ASSUME Inv, Respond PROVE Inv'
  <1> DEFINE new == [row |-> req.row, user |-> req.user, md5 |-> req.md5,
                     url |-> req.url]
  <1>1. req.pc = "reply" /\ req' = Idle /\ TypeOK
    BY DEF Inv, Respond, At
  <1>2. req' \in Requests /\ req'.pc = "idle"
    BY <1>1, IdleRequest DEF Idle
  <1>3. UNCHANGED <<pictures, total, ids, held, drawn, restarts>>
    BY DEF Respond, tables, trouble
  <1>4. CASE req.op = "share" /\ req.code = OK
    <2>1. /\ given' = given \cup {new} /\ views' = views
          /\ LeadsTo(req) /\ req.user \in User /\ req.md5 \in Md5
          /\ req.url \in Url
      BY <1>1, <1>4 DEF Inv, Respond, Control, Shared
    <2>2. LeadsTo(new) /\ new.row \in 1..ids
      BY <1>1, <2>1 DEF LeadsTo, TypeOK
    <2>3. GivenLinkKept'
      <3>1. ASSUME NEW g \in given' PROVE LeadsTo(g)
        BY <2>1, <2>2 DEF Inv, GivenLinkKept, LeadsTo
      <3>2. QED
        BY <1>3, <3>1 DEF GivenLinkKept, LeadsTo
    <2>4. TypeOK'
      BY <1>1, <1>2, <1>3, <2>1, <2>2 DEF TypeOK
    <2>5. \A k : ~Viewing(k) /\ ~Viewing(k)'
      BY <1>2, <1>4 DEF Viewing
    <2>6. drawn' \in Nat /\ drawn <= drawn'
      BY <1>1, <1>3, PicturesAssumption DEF TypeOK
    <2>7. Distinct' /\ Viewed0'
      BY <1>1, <1>3, <2>1, <2>5, <2>6, DistinctWhenStill, ViewedWhenStill DEF Inv
    <2>8. Control'
      BY <1>2 DEF Control, Shared
    <2>9. QED
      BY <1>3, <2>3, <2>4, <2>7, <2>8 DEF Inv, Counters
  <1>5. CASE ~(req.op = "share" /\ req.code = OK)
    <2>1. given' = given
      BY <1>5 DEF Respond
    <2>2. views' \in [Url -> Nat]
      <3>1. \A k \in Url : views[k] \in Nat /\ views[k] + 1 \in Nat
        BY <1>1 DEF TypeOK
      <3>2. CASE req.op = "browse" /\ req.code = OK
        <4>1. views' = [views EXCEPT ![req.url] = views[req.url] + 1]
          BY <3>2 DEF Respond
        <4>2. QED
          BY <1>1, <3>1, <4>1 DEF TypeOK
      <3>3. CASE ~(req.op = "browse" /\ req.code = OK)
        BY <1>1, <3>3 DEF Respond, TypeOK
      <3>4. QED
        BY <3>2, <3>3
    <2>3. TypeOK'
      BY <1>1, <1>2, <1>3, <2>1, <2>2 DEF TypeOK
    <2>4. Control'
      BY <1>2 DEF Control, Shared
    <2>5. GivenLinkKept' /\ Distinct'
      BY <1>3, <2>1 DEF Inv, GivenLinkKept, Distinct
    <2>6. \A k : ~Viewing(k)'
      BY <1>2 DEF Viewing
    <2>7. \A k \in Url : views'[k] = views[k] + (IF Viewing(k) THEN 1 ELSE 0)
      BY <1>1 DEF Respond, TypeOK, Viewing
    <2>8. Viewed0'
      <3>1. CASE restarts' # 0
        BY <3>1 DEF Viewed0
      <3>2. CASE restarts' = 0
        <4>1. \A i \in DOMAIN pictures : pictures[i].url \in Url
          BY <1>1, RowSet DEF TypeOK
        <4>2. \A i \in DOMAIN pictures : pictures[i].pv = views'[pictures[i].url]
          BY <1>3, <2>7, <3>2, <4>1 DEF Inv, Viewed0
        <4>3. \A k \in Url : views'[k] \in Nat
          BY <2>2
        <4>4. \A i \in DOMAIN pictures : pictures[i].pv = views'[pictures[i].url] + 0
          BY <4>1, <4>2, <4>3
        <4>5. \A k \in Url : k > drawn => views'[k] = 0
          BY <1>3, <2>7, <3>2 DEF Inv, Viewed0
        <4>6. QED
          BY <1>3, <2>6, <4>4, <4>5 DEF Viewed0
      <3>3. QED
        BY <3>1, <3>2
    <2>9. QED
      BY <1>3, <2>3, <2>4, <2>5, <2>8 DEF Inv, Counters
  <1>6. QED
    BY <1>4, <1>5

LEMMA LogInKeeps == ASSUME Inv, LogIn PROVE Inv'
  <1>1. req.pc = "idle" /\ req' = req /\ drawn < MaxDrawn /\ drawn' = drawn + 1
    BY DEF LogIn, At
  <1>2. Still /\ UNCHANGED <<total, held>>
    BY DEF LogIn, Still, tables, history, trouble
  <1>3. drawn' \in 0..MaxDrawn /\ drawn <= drawn'
    BY <1>1, PicturesAssumption DEF Inv, TypeOK
  <1>4. Control'
    BY <1>1 DEF Control, Shared
  <1>5. \A l : Viewing(l)' <=> Viewing(l)
    BY <1>1 DEF Viewing
  <1>6. QED
    BY <1>1, <1>2, <1>3, <1>4, <1>5, StillStep DEF Inv, TypeOK

LEMMA FileChangesKeeps ==
    ASSUME Inv, NEW m \in Md5, FileChanges(m) PROVE Inv'
  <1>1. req.pc = "idle" /\ req' = req /\ drawn' = drawn /\ held' \subseteq Md5
    BY DEF FileChanges, At, Inv, TypeOK
  <1>2. Still /\ UNCHANGED total
    BY DEF FileChanges, Still, tables, history, trouble
  <1>3. drawn' \in 0..MaxDrawn /\ drawn <= drawn'
    BY <1>1, PicturesAssumption DEF Inv, TypeOK
  <1>4. Control'
    BY <1>1 DEF Control, Shared
  <1>5. \A l : Viewing(l)' <=> Viewing(l)
    BY <1>1 DEF Viewing
  <1>6. QED
    BY <1>1, <1>2, <1>3, <1>4, <1>5, StillStep DEF Inv, TypeOK

-----------------------------------------------------------------------------
(* Faults.                                                                   *)

LEMMA SqlFailsKeeps == ASSUME Inv, SqlFails PROVE Inv'
  <1>1. Still /\ UNCHANGED <<held, total>>
    BY DEF SqlFails, Still, tables, history
  <1>2. TypeOK /\ FAIL # OK /\ NoCode # OK
    BY DEF Inv, OK, FAIL, NoCode
  <1>3. CASE At("share_row") /\ Reply(FAIL) /\ drawn' = drawn + 1
    <2>1. req.pc = "share_row" /\ req.op = "share" /\ drawn < MaxDrawn
      BY <1>3 DEF Inv, Control, At
    <2>2. GoesOn("reply") /\ req'.code = FAIL
      BY <1>2, <1>3, ReplyMoves DEF GoesOn
    <2>3. drawn' \in 0..MaxDrawn /\ drawn <= drawn'
      BY <1>2, <1>3, <2>1, PicturesAssumption DEF TypeOK
    <2>4. Control'
      BY <1>2, <2>1, <2>2 DEF Control, Shared, GoesOn
    <2>5. \A l : ~Viewing(l) /\ ~Viewing(l)'
      BY <2>1, <2>2 DEF Viewing, GoesOn
    <2>6. QED
      BY <1>1, <1>2, <2>2, <2>3, <2>4, <2>5, StillStep DEF GoesOn, TypeOK
  <1>4. CASE req.pc \in {"share_total", "browse_pv"} /\ Reply(FAIL) /\ drawn' = drawn
    <2>1. GoesOn("reply") /\ req'.code = FAIL
      BY <1>2, <1>4, ReplyMoves DEF GoesOn
    <2>2. QED
      BY <1>1, <1>2, <1>4, <2>1, HandlerStep DEF GoesOn, TypeOK
  <1>5. CASE At("cancel_total") /\ Goto("cancel_row") /\ drawn' = drawn
    <2>1. "cancel_row" \in PCs
      BY DEF PCs
    <2>2. GoesOn("cancel_row") /\ req.pc = "cancel_total"
      BY <1>2, <1>5, <2>1, GotoAsIs DEF At
    <2>3. QED
      BY <1>1, <1>2, <1>5, <2>2, HandlerStep DEF GoesOn, TypeOK
  <1>6. CASE At("cancel_row") /\ Reply(OK) /\ drawn' = drawn
    <2>1. req.pc = "cancel_row" /\ req.op = "cancel"
      BY <1>6 DEF Inv, Control, At
    <2>2. GoesOn("reply")
      BY <1>2, <1>6, ReplyMoves DEF GoesOn
    <2>3. QED
      BY <1>1, <1>2, <1>6, <2>1, <2>2, HandlerStep DEF GoesOn, TypeOK
  <1>7. CASE At("list_total") /\ Reply(NoCode) /\ drawn' = drawn
    <2>1. req.pc = "list_total" /\ req.op = "list"
      BY <1>7 DEF Inv, Control, At
    <2>2. GoesOn("reply")
      BY <1>2, <1>7, ReplyMoves DEF GoesOn
    <2>3. QED
      BY <1>1, <1>2, <1>7, <2>1, <2>2, HandlerStep DEF GoesOn, TypeOK
  <1>8. QED
    BY <1>3, <1>4, <1>5, <1>6, <1>7 DEF SqlFails

LEMMA QueryFailsKeeps == ASSUME Inv, QueryFails PROVE Inv'
  <1>1. Still /\ UNCHANGED <<held, total, drawn>>
    BY DEF QueryFails, Still, tables, history
  <1>2. TypeOK /\ FAIL # OK /\ NoCode # OK
    BY DEF Inv, OK, FAIL, NoCode
  <1>3. PICK c \in {FAIL, NoCode} : Reply(c)
    BY DEF QueryFails
  <1>4. GoesOn("reply") /\ req'.code # OK
    BY <1>2, <1>3, ReplyMoves DEF GoesOn
  <1>5. req.pc \notin {"idle", "reply"}
    BY DEF QueryFails
  <1>6. QED
    BY <1>1, <1>2, <1>4, <1>5, HandlerStep DEF GoesOn, TypeOK

LEMMA RestartKeeps == ASSUME Inv, Restart PROVE Inv'
  <1>1. req' = Idle /\ drawn' = 0 /\ restarts' = restarts + 1
    BY DEF Restart
  <1>2. UNCHANGED <<pictures, ids, total, held, given, views>>
    BY DEF Restart, tables, history
  <1>3. restarts' \in Nat /\ restarts' # 0
    BY <1>1 DEF Inv, Counters
  <1>4. TypeOK'
    BY <1>1, <1>2, IdleRequest, PicturesAssumption DEF Inv, TypeOK
  <1>5. Control'
    BY <1>1 DEF Control, Shared, Idle
  <1>6. GivenLinkKept'
    BY <1>2 DEF Inv, GivenLinkKept
  <1>7. QED
    BY <1>3, <1>4, <1>5, <1>6 DEF Inv, Counters, Distinct, Viewed0

-----------------------------------------------------------------------------
(* The theorems.                                                             *)

LEMMA InitHolds == Init => Inv
  <1> SUFFICES ASSUME Init PROVE Inv
    OBVIOUS
  <1>1. pictures = <<>> /\ DOMAIN pictures = {} /\ ids = 0 /\ req = Idle
    BY DEF Init
  <1>2. TypeOK
    <2>1. pictures \in [DOMAIN pictures -> Row]
      BY <1>1
    <2>2. DOMAIN pictures \subseteq 1..ids
      BY <1>1
    <2>3. total \in [User -> Nat \cup {NULL}] /\ views \in [Url -> Nat]
      BY DEF Init
    <2>4. drawn \in 0..MaxDrawn /\ ids \in Nat /\ held \subseteq Md5
      BY PicturesAssumption DEF Init
    <2>5. req \in Requests /\ given = {}
      BY IdleRequest DEF Init
    <2>6. QED
      BY <2>1, <2>2, <2>3, <2>4, <2>5 DEF TypeOK
  <1>3. Control
    BY <1>1 DEF Control, Shared, Idle
  <1>4. GivenLinkKept /\ Counters
    BY DEF Init, GivenLinkKept, Counters
  <1>5. Distinct
    BY <1>1 DEF Distinct
  <1>6. Viewed0
    BY <1>1 DEF Init, Viewed0, Viewing, Idle
  <1>7. QED
    BY <1>2, <1>3, <1>4, <1>5, <1>6 DEF Inv

LEMMA StutterKeeps == ASSUME Inv, UNCHANGED vars PROVE Inv'
  <1>1. UNCHANGED <<pictures, total, ids, held, drawn, req, given, views, restarts>>
    BY DEF vars, tables, history, trouble
  <1>2. \A l : Viewing(l)' <=> Viewing(l)
    BY <1>1 DEF Viewing
  <1>3. Control'
    BY <1>1 DEF Inv, Control, Shared, LeadsTo, LinkedBy
  <1>4. drawn <= drawn'
    BY <1>1, PicturesAssumption DEF Inv, TypeOK
  <1>5. QED
    BY <1>1, <1>2, <1>3, <1>4, StillStep DEF Inv, TypeOK, Still

LEMMA StepKeeps == Inv /\ [Next]_vars => Inv'
  <1> SUFFICES ASSUME Inv, [Next]_vars PROVE Inv'
    OBVIOUS
  <1>1. CASE \E u \in User, m \in Md5 : AskShare(u, m)
    BY <1>1, AskShareKeeps
  <1>2. CASE \E u \in User, l \in Url : AskCancel(u, l)
    BY <1>2, AskCancelKeeps
  <1>3. CASE \E l \in Url : AskBrowse(l)
    BY <1>3, AskBrowseKeeps
  <1>4. CASE \E u \in User : AskList(u)
    BY <1>4, AskListKeeps
  <1>5. CASE \E m \in Md5 : FileChanges(m)
    BY <1>5, FileChangesKeeps
  <1>6. CASE Handle
    BY <1>6, ShareInsertKeeps, ShareTotalKeeps, CancelCheckKeeps,
       CancelTotalKeeps, CancelRowKeeps, BrowseFindKeeps, BrowsePvKeeps,
       ListTotalKeeps, ListRowsKeeps DEF Handle
  <1>7. CASE Respond
    BY <1>7, RespondKeeps
  <1>8. CASE LogIn
    BY <1>8, LogInKeeps
  <1>9. CASE SqlFails \/ QueryFails \/ Restart
    BY <1>9, SqlFailsKeeps, QueryFailsKeeps, RestartKeeps
  <1>10. CASE UNCHANGED vars
    BY <1>10, StutterKeeps
  <1>11. QED
    BY <1>1, <1>2, <1>3, <1>4, <1>5, <1>6, <1>7, <1>8, <1>9, <1>10 DEF Next

LEMMA InvAlways == Spec => []Inv
  BY InitHolds, StepKeeps, PTL DEF Spec

\* What the tables and the handlers' locals hold has the types the code gives
\* it, whatever fails and however often the process is started again: no
\* handler of ApiSharepicture.cpp writes a row that another one cannot read.
THEOREM TypeCorrect == Spec => []TypeOK
  BY InvAlways, PTL DEF Inv

\* The row that handleSharePicture inserted for a link it answered with code 0
\* is kept until the owner cancels that link: failed statements, restarts that
\* draw the same strings again and cancels of other users, of the same string
\* either, neither take it away nor change whose it is.
THEOREM GivenLinksKept == Spec => []GivenLinkKept
  BY InvAlways, PTL DEF Inv

\* While the process lives, the pv that handleBrowsePicture keeps for a link
\* is the number of times the link was shown, for any number of links, views
\* and failed statements.
THEOREM ViewsAreCounted == Spec => []ViewsCounted
  <1>1. Inv => ViewsCounted
    <2> SUFFICES ASSUME Inv, At("idle"), restarts = 0, NEW g \in given
                 PROVE  pictures[g.row].pv = views[g.url]
      BY DEF ViewsCounted
    <2>1. ~Viewing(g.url)
      BY DEF Viewing, At
    <2>2. g.row \in DOMAIN pictures /\ pictures[g.row].url = g.url
      BY DEF Inv, GivenLinkKept
    <2>3. views[g.url] \in Nat
      BY DEF Inv, TypeOK
    <2>4. pictures[g.row].pv = views[g.url] + 0
      BY <2>1, <2>2 DEF Inv, Viewed0
    <2>5. QED
      BY <2>3, <2>4
  <1>2. QED
    BY <1>1, InvAlways, PTL

-----------------------------------------------------------------------------
(* The count of a user's pictures.                                           *)

Counted(u) == IF total[u] = NULL THEN 0 ELSE total[u]

\* The handler has written one of the two tables and not yet the other.
Owed(u) == IF req.user = u /\ req.pc \in {"share_total", "cancel_row"} THEN 1 ELSE 0

Drift(u) == Counted(u) - Cardinality(RowsOf(u)) + Owed(u)

Balance == restarts = 0 => \A u \in User : -faults <= Drift(u) /\ Drift(u) <= faults

\* What is being cancelled is there.
Cancelling ==
    req.pc \in {"cancel_total", "cancel_row"} =>
        LinkedBy(req.url) \cap RowsOf(req.user) # {}

\* A restart is a fault.
Faulty == faults \in Nat /\ restarts \in Nat /\ restarts <= faults

Counting == Balance /\ Cancelling /\ Faulty

LEMMA RowsFinite ==
    ASSUME TypeOK, NEW u
    PROVE  IsFiniteSet(RowsOf(u)) /\ Cardinality(RowsOf(u)) \in Nat
  <1>1. IsFiniteSet(1..ids)
    <2>1. 1 \in Int /\ ids \in Int
      BY DEF TypeOK
    <2>2. QED
      BY <2>1, FS_Interval
  <1>2. RowsOf(u) \in SUBSET (1..ids)
    BY DEF TypeOK, RowsOf
  <1>3. QED
    BY <1>1, <1>2, FS_Subset, FS_CardinalityType

LEMMA CountedIsNat == ASSUME TypeOK, NEW u \in User PROVE Counted(u) \in Nat
  BY DEF TypeOK, Counted

LEMMA DriftIsInt ==
    ASSUME TypeOK, NEW u \in User PROVE Drift(u) \in Int /\ Owed(u) \in {0, 1}
  BY CountedIsNat, RowsFinite DEF Drift, Owed

\* How far one step may move the count from the rows.
Moved(u) ==
    \/ Drift(u)' = Drift(u)
    \/ Drift(u)' \in {Drift(u) - 1, Drift(u) + 1} /\ faults' = faults + 1
    \/ Drift(u)' = Drift(u) + 1 /\ Drift(u) < 0

LEMMA BalanceWhenMoved ==
    ASSUME TypeOK, Counting, restarts' = restarts, faults' \in {faults, faults + 1},
           restarts = 0 => \A u \in User : Moved(u)
    PROVE  Balance' /\ Faulty'
  <1>1. Faulty'
    BY DEF Counting, Faulty
  <1>2. ASSUME restarts = 0, NEW u \in User
        PROVE  -faults' <= Drift(u)' /\ Drift(u)' <= faults'
    <2>1. /\ Drift(u) \in Int /\ faults \in Nat
          /\ -faults <= Drift(u) /\ Drift(u) <= faults /\ Moved(u)
      BY <1>2, DriftIsInt DEF Counting, Balance, Faulty
    <2>2. QED
      BY <2>1 DEF Moved
  <1>3. QED
    BY <1>1, <1>2 DEF Balance

\* A step that moves neither the count, as it is read, nor the rows.
LEMMA DriftStays ==
    ASSUME UNCHANGED pictures, NEW u \in User, Counted(u)' = Counted(u),
           Owed(u)' = Owed(u)
    PROVE  Moved(u)
  BY DEF Moved, Drift, RowsOf

\* Neither before nor after the step is a handler between its two tables.
AtRest == req.pc \notin {"share_total", "cancel_row"}

LEMMA QuietStep ==
    ASSUME TypeOK, Counting, UNCHANGED <<pictures, restarts>>,
           faults' \in {faults, faults + 1}, AtRest, AtRest',
           \A u \in User : Counted(u)' = Counted(u),
           req'.pc = "cancel_total" =>
              LinkedBy(req'.url) \cap RowsOf(req'.user) # {}
    PROVE  Counting'
  <1>1. \A u \in User : Owed(u)' = Owed(u)
    BY DEF AtRest, Owed
  <1>2. \A u \in User : Moved(u)
    BY <1>1, DriftStays
  <1>3. Cancelling'
    BY DEF AtRest, Cancelling, LinkedBy, RowsOf
  <1>4. QED
    BY <1>2, <1>3, BalanceWhenMoved DEF Counting

-----------------------------------------------------------------------------
(* The two writes of a share and of a cancel.                                *)

LEMMA ShareInsertCounts == ASSUME Inv, Counting, ShareInsert PROVE Counting'
  <1> DEFINE v == req.user
  <1>1. /\ req.pc = "share_row" /\ req'.pc = "share_total" /\ req'.user = v /\ v \in User
        /\ ids' = ids + 1 /\ total' = total /\ TypeOK
        /\ restarts' = restarts /\ faults' = faults
    BY DEF ShareInsert, At, Inv, Control, TypeOK, Requests, trouble
  <1>2. ids' \notin DOMAIN pictures
    BY <1>1 DEF TypeOK
  <1>3. /\ DOMAIN pictures' = DOMAIN pictures \cup {ids'} /\ pictures'[ids'].user = v
        /\ \A i \in DOMAIN pictures : pictures'[i] = pictures[i]
    BY <1>2 DEF ShareInsert
  <1>4. ASSUME NEW u \in User, u # v PROVE Moved(u)
    <2>1. RowsOf(u)' = RowsOf(u)
      BY <1>2, <1>3, <1>4 DEF RowsOf
    <2>2. QED
      BY <1>1, <1>4, <2>1 DEF Moved, Drift, Counted, Owed
  <1>5. ASSUME NEW u \in User, u = v PROVE Moved(u)
    <2>1. RowsOf(u)' = RowsOf(u) \cup {ids'} /\ ids' \notin RowsOf(u)
      BY <1>2, <1>3, <1>5 DEF RowsOf
    <2>2. IsFiniteSet(RowsOf(u)) /\ Cardinality(RowsOf(u)) \in Nat
      BY <1>1, RowsFinite
    <2>3. Cardinality(RowsOf(u)') = Cardinality(RowsOf(u)) + 1
      BY <2>1, <2>2, FS_AddElement
    <2>4. Owed(u) = 0 /\ Owed(u)' = 1 /\ Counted(u)' = Counted(u) /\ Counted(u) \in Nat
      BY <1>1, <1>5, CountedIsNat DEF Owed, Counted
    <2>5. QED
      BY <2>2, <2>3, <2>4 DEF Moved, Drift
  <1>6. Cancelling'
    BY <1>1 DEF Cancelling
  <1>7. QED
    BY <1>1, <1>4, <1>5, <1>6, BalanceWhenMoved DEF Counting

LEMMA ShareTotalCounts == ASSUME Inv, Counting, ShareTotal PROVE Counting'
  <1> DEFINE v == req.user
  <1>1. /\ req.pc = "share_total" /\ req'.pc = "reply" /\ req'.user = v
        /\ pictures' = pictures /\ restarts' = restarts /\ faults' = faults
        /\ total' = [total EXCEPT ![v] = Raise(total[v])] /\ TypeOK
    BY ReplyMoves DEF ShareTotal, At, Inv, trouble
  <1>2. ASSUME NEW u \in User, u # v PROVE Moved(u)
    BY <1>1, <1>2, DriftStays DEF Counted, Owed, TypeOK
  <1>3. ASSUME NEW u \in User, u = v PROVE Moved(u)
    <2>1. total[u] \in Nat \cup {NULL} /\ total'[u] = Raise(total[u])
      BY <1>1, <1>3 DEF TypeOK
    <2>2. Counted(u)' = Counted(u) + 1 /\ Counted(u) \in Nat
      BY <2>1, PicturesAssumption DEF Counted, Raise
    <2>3. Owed(u) = 1 /\ Owed(u)' = 0
      BY <1>1, <1>3 DEF Owed
    <2>4. RowsOf(u)' = RowsOf(u) /\ Cardinality(RowsOf(u)) \in Nat
      BY <1>1, RowsFinite DEF RowsOf
    <2>5. QED
      BY <2>2, <2>3, <2>4 DEF Moved, Drift
  <1>4. Cancelling'
    BY <1>1 DEF Cancelling
  <1>5. QED
    BY <1>1, <1>2, <1>3, <1>4, BalanceWhenMoved DEF Counting

LEMMA CancelCheckCounts == ASSUME Inv, Counting, CancelCheck PROVE Counting'
  <1>1. /\ req.pc = "cancel_check" /\ TypeOK
        /\ UNCHANGED <<pictures, total, restarts, faults>>
    BY DEF CancelCheck, At, Inv, tables, trouble
  <1>2. CASE Reply(OK)
    BY <1>1, <1>2, ReplyMoves, QuietStep DEF AtRest, Counted
  <1>3. CASE ~NotShared(req.user, req.url) /\ Goto("cancel_total")
    <2>1. "cancel_total" \in PCs
      BY DEF PCs
    <2>2. req'.pc = "cancel_total" /\ req'.user = req.user /\ req'.url = req.url
      BY <1>1, <1>3, <2>1, GotoAsIs DEF GoesOn
    <2>3. QED
      BY <1>1, <1>3, <2>2, QuietStep DEF AtRest, Counted, NotShared
  <1>4. QED
    BY <1>2, <1>3 DEF CancelCheck

\* A count that is 0 already is not lowered: it was too low, by a row at least.
LEMMA CancelTotalCounts == ASSUME Inv, Counting, CancelTotal PROVE Counting'
  <1> DEFINE v == req.user
  <1>1. /\ req.pc = "cancel_total" /\ v \in User /\ TypeOK
        /\ UNCHANGED <<pictures, restarts, faults>>
    BY DEF CancelTotal, At, Inv, Control, trouble
  <1>2. CASE total[v] = NULL
    <2>1. req'.pc = "reply" /\ total' = total
      BY <1>1, <1>2, ReplyMoves DEF CancelTotal
    <2>2. QED
      BY <1>1, <2>1, QuietStep DEF AtRest, Counted
  <1>3. CASE total[v] # NULL
    <2>1. /\ req'.pc = "cancel_row" /\ req'.user = v /\ req'.url = req.url
          /\ total' = [total EXCEPT ![v] = Lower(total[v])] /\ total[v] \in Nat
      <3>1. "cancel_row" \in PCs
        BY DEF PCs
      <3>2. QED
        BY <1>1, <1>3, <3>1, GotoAsIs DEF CancelTotal, GoesOn, TypeOK
    <2>2. ASSUME NEW u \in User, u # v PROVE Moved(u)
      BY <1>1, <2>1, <2>2, DriftStays DEF Counted, Owed, TypeOK
    <2>3. ASSUME NEW u \in User, u = v PROVE Moved(u)
      <3>1. /\ RowsOf(u)' = RowsOf(u) /\ Cardinality(RowsOf(u)) \in Nat
            /\ IsFiniteSet(RowsOf(u))
        BY <1>1, RowsFinite DEF RowsOf
      <3>2. Cardinality(RowsOf(u)) # 0
        <4>1. RowsOf(u) # {}
          BY <1>1, <2>3 DEF Counting, Cancelling
        <4>2. QED
          BY <3>1, <4>1, FS_EmptySet
      <3>3. Owed(u) = 0 /\ Owed(u)' = 1
        BY <1>1, <2>1, <2>3 DEF Owed
      <3>4. /\ Counted(u) = total[v] /\ Counted(u)' = Lower(total[v])
        <4>1. total'[v] = Lower(total[v]) /\ Lower(total[v]) # NULL
          BY <1>1, <2>1, PicturesAssumption DEF TypeOK, Lower
        <4>2. QED
          BY <1>3, <2>3, <4>1 DEF Counted
      <3>5. QED
        BY <2>1, <3>1, <3>2, <3>3, <3>4 DEF Moved, Drift, Lower
    <2>4. Cancelling'
      BY <1>1, <2>1 DEF Counting, Cancelling, LinkedBy, RowsOf
    <2>5. QED
      BY <1>1, <2>2, <2>3, <2>4, BalanceWhenMoved DEF Counting
  <1>4. QED
    BY <1>2, <1>3

\* The strings of one process are different, so one row goes.
LEMMA CancelRowCounts == ASSUME Inv, Counting, CancelRow PROVE Counting'
  <1> DEFINE v == req.user
  <1> DEFINE gone == LinkedBy(req.url) \cap RowsOf(v)
  <1>1. /\ req.pc = "cancel_row" /\ req'.pc = "reply" /\ req'.user = v /\ v \in User
        /\ UNCHANGED <<total, restarts, faults>> /\ TypeOK
    BY ReplyMoves DEF CancelRow, At, Inv, Control, trouble
  <1>2. /\ DOMAIN pictures' = DOMAIN pictures \ gone
        /\ \A i \in DOMAIN pictures' : pictures'[i] = pictures[i]
    BY DEF CancelRow, OthersLink, LinkedBy, RowsOf
  <1>3. \A u : RowsOf(u)' = RowsOf(u) \ gone
    BY <1>2 DEF RowsOf
  <1>4. ASSUME NEW u \in User, u # v PROVE Moved(u)
    <2>1. RowsOf(u)' = RowsOf(u)
      BY <1>3, <1>4 DEF RowsOf
    <2>2. QED
      BY <1>1, <1>4, <2>1 DEF Moved, Drift, Counted, Owed
  <1>5. ASSUME NEW u \in User, u = v, restarts = 0 PROVE Moved(u)
    <2>1. PICK i \in gone : TRUE
      BY <1>1 DEF Counting, Cancelling
    <2>2. gone = {i}
      BY <1>5, <2>1 DEF Inv, Distinct, LinkedBy, RowsOf
    <2>3. RowsOf(u)' = RowsOf(u) \ {i} /\ i \in RowsOf(u)
      BY <1>3, <1>5, <2>1, <2>2
    <2>4. IsFiniteSet(RowsOf(u)) /\ Cardinality(RowsOf(u)) \in Nat
      BY <1>1, RowsFinite
    <2>5. Cardinality(RowsOf(u)') = Cardinality(RowsOf(u)) - 1
      BY <2>3, <2>4, FS_RemoveElement
    <2>6. Owed(u) = 1 /\ Owed(u)' = 0 /\ Counted(u)' = Counted(u) /\ Counted(u) \in Nat
      BY <1>1, <1>5, CountedIsNat DEF Owed, Counted
    <2>7. QED
      BY <2>4, <2>5, <2>6 DEF Moved, Drift
  <1>6. Cancelling'
    BY <1>1 DEF Cancelling
  <1>7. QED
    BY <1>1, <1>4, <1>5, <1>6, BalanceWhenMoved DEF Counting

-----------------------------------------------------------------------------
(* The other steps and the count.                                            *)

LEMMA ListTotalCounts == ASSUME Inv, Counting, ListTotal PROVE Counting'
  <1>1. /\ req.pc = "list_total" /\ req.user \in User /\ TypeOK
        /\ UNCHANGED <<pictures, restarts, faults>>
    BY DEF ListTotal, At, Inv, Control, trouble
  <1>2. req'.pc \in {"list_rows", "reply"}
    <2>1. "list_rows" \in PCs
      BY DEF PCs
    <2>2. QED
      BY <1>1, <2>1, GotoMoves, ReplyMoves DEF ListTotal
  <1>3. \A u \in User : Counted(u)' = Counted(u)
    BY <1>1, PicturesAssumption DEF ListTotal, Counted, TypeOK
  <1>4. QED
    BY <1>1, <1>2, <1>3, QuietStep DEF AtRest

\* A statement fails between the two writes, or instead of one.
LEMMA SqlFailsCounts == ASSUME Inv, Counting, SqlFails PROVE Counting'
  <1> DEFINE v == req.user
  <1>1. /\ UNCHANGED <<pictures, total, restarts>> /\ faults' = faults + 1 /\ TypeOK
    BY DEF SqlFails, Fault, tables, Inv
  <1>2. \A u \in User : Counted(u)' = Counted(u) /\ RowsOf(u)' = RowsOf(u)
    BY <1>1 DEF Counted, RowsOf
  <1>3. CASE /\ req.pc \in {"share_row", "browse_pv", "list_total"}
             /\ Reply(FAIL) \/ Reply(NoCode)
    BY <1>1, <1>2, <1>3, ReplyMoves, QuietStep DEF AtRest
  <1>4. ASSUME req.pc \in {"share_total", "cancel_total", "cancel_row"},
               req'.user = v, req'.pc \in {"reply", "cancel_row"},
               req'.pc = "cancel_row" => req.pc = "cancel_total" /\ req'.url = req.url
        PROVE  Counting'
    <2>1. ASSUME NEW u \in User PROVE Moved(u)
      <3>1. Drift(u)' = Counted(u) - Cardinality(RowsOf(u)) + Owed(u)'
        BY <1>2 DEF Drift
      <3>2. Counted(u) \in Nat /\ Cardinality(RowsOf(u)) \in Nat
        BY <1>1, CountedIsNat, RowsFinite
      <3>3. Owed(u) \in {0, 1} /\ Owed(u)' \in {0, 1}
        BY DEF Owed
      <3>4. QED
        BY <1>1, <3>1, <3>2, <3>3 DEF Moved, Drift
    <2>2. Cancelling'
      BY <1>1, <1>4 DEF Counting, Cancelling, LinkedBy, RowsOf
    <2>3. QED
      BY <1>1, <2>1, <2>2, BalanceWhenMoved DEF Counting
  <1>5. CASE At("share_total") /\ Reply(FAIL)
    BY <1>1, <1>4, <1>5, ReplyMoves DEF At
  <1>6. CASE At("cancel_total") /\ Goto("cancel_row")
    <2>1. "cancel_row" \in PCs
      BY DEF PCs
    <2>2. QED
      BY <1>1, <1>4, <1>6, <2>1, GotoAsIs DEF At, GoesOn
  <1>7. CASE At("cancel_row") /\ Reply(OK)
    BY <1>1, <1>4, <1>7, ReplyMoves DEF At
  <1>8. QED
    BY <1>3, <1>5, <1>6, <1>7 DEF SqlFails, At

LEMMA RestartCounts == ASSUME Inv, Counting, Restart PROVE Counting'
  <1>1. /\ req' = Idle /\ restarts' = restarts + 1 /\ faults' = faults + 1
    BY DEF Restart, Fault
  <1>2. Faulty' /\ restarts' # 0
    BY <1>1 DEF Counting, Faulty
  <1>3. QED
    BY <1>1, <1>2 DEF Counting, Balance, Cancelling, Idle

LEMMA CountingInit == Init => Counting
  <1> SUFFICES ASSUME Init PROVE Counting
    OBVIOUS
  <1>1. Faulty /\ Cancelling
    BY DEF Init, Faulty, Cancelling, Idle
  <1>2. ASSUME NEW u \in User PROVE Drift(u) = 0
    <2>1. RowsOf(u) = {}
      BY DEF Init, RowsOf
    <2>2. Counted(u) = 0 /\ Owed(u) = 0
      BY DEF Init, Counted, Owed, Idle
    <2>3. QED
      BY <2>1, <2>2, FS_EmptySet DEF Drift
  <1>3. QED
    BY <1>1, <1>2 DEF Init, Counting, Balance

LEMMA CountingStep == Inv /\ Counting /\ [Next]_vars => Counting'
  <1> SUFFICES ASSUME Inv, Counting, [Next]_vars PROVE Counting'
    OBVIOUS
  <1> USE DEF Inv
  <1>1. CASE \/ \E u \in User, m \in Md5 : AskShare(u, m)
             \/ \E u \in User, l \in Url : AskCancel(u, l)
             \/ \E l \in Url : AskBrowse(l)
             \/ \E u \in User : AskList(u)
    <2>1. /\ UNCHANGED <<pictures, total, restarts, faults>> /\ req.pc = "idle"
          /\ req'.pc \in {"share_row", "cancel_check", "browse_find", "list_total"}
      BY <1>1 DEF AskShare, AskCancel, AskBrowse, AskList, Begin, At, tables, trouble, Idle
    <2>2. QED
      BY <2>1, QuietStep DEF AtRest, Counted
  <1>2. CASE (\E m \in Md5 : FileChanges(m)) \/ LogIn \/ Respond
    <2>1. /\ UNCHANGED <<pictures, total, restarts, faults>>
          /\ req.pc \in {"idle", "reply"} /\ req'.pc = "idle"
      BY <1>2 DEF FileChanges, LogIn, Respond, At, tables, trouble, Idle
    <2>2. QED
      BY <2>1, QuietStep DEF AtRest, Counted
  <1>3. CASE BrowseFind
    <2>1. /\ UNCHANGED <<pictures, total, restarts, faults>>
          /\ req.pc = "browse_find" /\ req'.pc \in {"reply", "browse_pv"}
      BY <1>3, ReplyMoves DEF BrowseFind, At, tables, trouble, TypeOK, Requests
    <2>2. QED
      BY <2>1, QuietStep DEF AtRest, Counted
  <1>4. CASE BrowsePv
    <2>1. /\ UNCHANGED <<total, restarts, faults>> /\ req.pc = "browse_pv"
          /\ req'.pc = "reply" /\ DOMAIN pictures' = DOMAIN pictures
      BY <1>4, ReplyMoves DEF BrowsePv, At, trouble
    <2>2. \A i \in DOMAIN pictures : pictures'[i].user = pictures[i].user
      BY <1>4 DEF BrowsePv, TypeOK, Row
    <2>3. \A u \in User : RowsOf(u)' = RowsOf(u) /\ Counted(u)' = Counted(u)
      BY <2>1, <2>2 DEF RowsOf, Counted
    <2>4. \A u \in User : Moved(u)
      BY <2>1, <2>3 DEF Moved, Drift, Owed
    <2>5. Cancelling'
      BY <2>1 DEF Cancelling
    <2>6. QED
      BY <2>1, <2>4, <2>5, BalanceWhenMoved DEF Counting
  <1>5. CASE ListRows
    <2>1. /\ UNCHANGED <<pictures, total, restarts, faults>>
          /\ req.pc = "list_rows" /\ req'.pc = "reply"
      BY <1>5 DEF ListRows, At, tables, trouble, TypeOK, Requests
    <2>2. QED
      BY <2>1, QuietStep DEF AtRest, Counted
  <1>6. CASE QueryFails
    <2>1. /\ UNCHANGED <<pictures, total, restarts>> /\ faults' = faults + 1
          /\ req.pc \in {"cancel_check", "browse_find", "list_total", "list_rows"}
          /\ req'.pc = "reply"
      BY <1>6, ReplyMoves DEF QueryFails, Fault, tables
    <2>2. QED
      BY <2>1, QuietStep DEF AtRest, Counted
  <1>7. CASE UNCHANGED vars
    <2>1. UNCHANGED <<pictures, total, req, restarts, faults>>
      BY <1>7 DEF vars, tables, trouble
    <2>2. QED
      BY <2>1 DEF Counting, Balance, Cancelling, Faulty, Drift, Counted, Owed,
                  RowsOf, LinkedBy
  <1>8. QED
    BY <1>1, <1>2, <1>3, <1>4, <1>5, <1>6, <1>7, ShareInsertCounts, ShareTotalCounts,
       CancelCheckCounts, CancelTotalCounts, CancelRowCounts, ListTotalCounts,
       SqlFailsCounts, RestartCounts DEF Next, Handle

\* While the process lives, the count of a user's pictures differs from the
\* rows by no more than the statements that failed, for any number of them.
THEOREM TotalsDriftByFaults == Spec => []TotalOffByFaults
  <1>1. Inv /\ Counting => TotalOffByFaults
    <2> SUFFICES ASSUME Inv, Counting, At("idle"), restarts = 0, NEW u \in User
                 PROVE  /\ -faults <= Counted(u) - Cardinality(RowsOf(u))
                        /\ Counted(u) - Cardinality(RowsOf(u)) <= faults
      BY DEF TotalOffByFaults, Counted
    <2>1. Owed(u) = 0 /\ Counted(u) \in Nat /\ Cardinality(RowsOf(u)) \in Nat
      BY CountedIsNat, RowsFinite DEF Inv, At, Owed
    <2>2. QED
      BY <2>1 DEF Counting, Balance, Drift
  <1>2. QED
    BY <1>1, InitHolds, StepKeeps, CountingInit, CountingStep, PTL DEF Spec

-----------------------------------------------------------------------------
(* The list.                                                                 *)

\* With no fault, a count that is 0, or is not there, stands for no rows.
LEMMA ZeroMeansNone ==
    ASSUME Inv, Counting, faults = 0, AtRest, NEW u \in User, Counted(u) = 0
    PROVE  RowsOf(u) = {}
  <1>1. IsFiniteSet(RowsOf(u)) /\ Cardinality(RowsOf(u)) \in Nat
    BY RowsFinite DEF Inv
  <1>2. restarts = 0
    BY DEF Counting, Faulty
  <1>3. -faults <= Drift(u) /\ Drift(u) <= faults /\ Owed(u) = 0
    BY <1>2 DEF Counting, Balance, AtRest, Owed
  <1>4. Cardinality(RowsOf(u)) = 0
    BY <1>1, <1>3 DEF Drift
  <1>5. QED
    BY <1>1, <1>4, FS_EmptySet

\* The rows of the links that a user was given are rows of the user.
LEMMA GivenRows ==
    ASSUME Inv, NEW g \in given PROVE g.row \in RowsOf(g.user) /\ pictures[g.row].md5 = g.md5
  BY DEF Inv, GivenLinkKept, RowsOf

LEMMA ListTotalHides == ASSUME Inv, Counting, ListTotal PROVE NothingHidden'
  <1>1. /\ req.pc = "list_total" /\ req.user \in User /\ TypeOK
        /\ UNCHANGED <<pictures, held, given, faults>>
    BY DEF ListTotal, At, Inv, Control, trouble, history
  <1>2. CASE Goto("list_rows")
    <2>1. "list_rows" \in PCs
      BY DEF PCs
    <2>2. QED
      BY <1>1, <1>2, <2>1, GotoMoves DEF NothingHidden, At
  <1>3. CASE total'[req.user] = 0 /\ Reply(OK)
    <2>1. req'.user = req.user
      BY <1>1, <1>3, ReplyMoves
    <2>2. Counted(req.user) = 0
      BY <1>1, <1>3 DEF ListTotal, Counted, TypeOK
    <2>3. faults = 0 => RowsOf(req.user) = {}
      BY <1>1, <2>2, ZeroMeansNone DEF AtRest
    <2>4. faults = 0 => \A g \in given : g.user # req.user
      BY <2>3, GivenRows
    <2>5. QED
      BY <1>1, <2>1, <2>4 DEF NothingHidden
  <1>4. QED
    BY <1>2, <1>3 DEF ListTotal

LEMMA ListRowsHides == ASSUME Inv, ListRows PROVE NothingHidden'
  <1>1. /\ UNCHANGED <<pictures, held, given>> /\ TypeOK
        /\ req'.user = req.user /\ req'.shown = Listed(req.user)
    BY DEF ListRows, Inv, TypeOK, Requests, tables, history
  <1>2. \A g \in given : g.user = req.user /\ g.md5 \in held => g.row \in Listed(req.user)
    BY GivenRows DEF Listed
  <1>3. QED
    BY <1>1, <1>2 DEF NothingHidden

LEMMA HiddenStep == Inv /\ Counting /\ NothingHidden /\ [Next]_vars => NothingHidden'
  <1> SUFFICES ASSUME Inv, Counting, NothingHidden, [Next]_vars PROVE NothingHidden'
    OBVIOUS
  <1> USE DEF Inv
  <1>1. CASE ShareInsert \/ ShareTotal
    <2>1. req.op = "share" /\ req'.op = req.op
      BY <1>1 DEF ShareInsert, ShareTotal, Reply, Control, At, TypeOK, Requests
    <2>2. QED
      BY <2>1 DEF NothingHidden
  <1>2. CASE CancelCheck \/ CancelTotal \/ CancelRow
    <2>1. req.op = "cancel" /\ req'.op = req.op
      BY <1>2 DEF CancelCheck, CancelTotal, CancelRow, Reply, Goto, Control, At,
                  TypeOK, Requests
    <2>2. QED
      BY <2>1 DEF NothingHidden
  <1>3. CASE BrowseFind \/ BrowsePv
    <2>1. req.op = "browse" /\ req'.op = req.op
      BY <1>3 DEF BrowseFind, BrowsePv, Reply, Control, At, TypeOK, Requests
    <2>2. QED
      BY <2>1 DEF NothingHidden
  <1>4. CASE SqlFails \/ QueryFails \/ Restart
    <2>1. faults' = faults + 1
      BY <1>4 DEF SqlFails, QueryFails, Restart, Fault
    <2>2. faults' # 0
      BY <2>1 DEF Counting, Faulty
    <2>3. QED
      BY <2>2 DEF NothingHidden
  <1>5. CASE Respond \/ LogIn \/ (\E m \in Md5 : FileChanges(m))
    <2>1. req'.pc = "idle"
      BY <1>5 DEF Respond, LogIn, FileChanges, At, Idle
    <2>2. QED
      BY <2>1 DEF NothingHidden, At
  <1>6. CASE \/ \E u \in User, m \in Md5 : AskShare(u, m)
             \/ \E u \in User, l \in Url : AskCancel(u, l)
             \/ \E l \in Url : AskBrowse(l)
             \/ \E u \in User : AskList(u)
    <2>1. req'.pc \in {"share_row", "cancel_check", "browse_find", "list_total"}
      BY <1>6 DEF AskShare, AskCancel, AskBrowse, AskList, Begin, Idle
    <2>2. QED
      BY <2>1 DEF NothingHidden, At
  <1>7. CASE UNCHANGED vars
    BY <1>7 DEF vars, tables, history, trouble, NothingHidden, At
  <1>8. QED
    BY <1>1, <1>2, <1>3, <1>4, <1>5, <1>6, <1>7, ListTotalHides, ListRowsHides
    DEF Next, Handle

\* With no fault, the list a user is answered with shows every link they were
\* given whose file is there, although handleGetSharePicturesList trusts a
\* count that other handlers keep.
THEOREM ListsHideNothing == Spec => []NothingHidden
  <1>1. Init => NothingHidden
    BY DEF Init, NothingHidden, At, Idle
  <1>2. QED
    BY <1>1, InitHolds, StepKeeps, CountingInit, CountingStep, HiddenStep, PTL DEF Spec
============================================================================
