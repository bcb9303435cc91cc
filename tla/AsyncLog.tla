------------------------------ MODULE AsyncLog ------------------------------
(***************************************************************************)
(* The asynchronous log (log/AsyncLogging.h, .cc): threads append lines to *)
(* buffers, and one thread, the back thread, writes the buffers to a file. *)
(*                                                                         *)
(* Everything append() does, and what the back thread does between taking  *)
(* the mutex and letting it go, is one step.  Without the mutex it drops   *)
(* buffers, writes one after another, and keeps two of them, while append()*)
(* goes on.  stop() uses no mutex: its store, its notification and its     *)
(* join are steps.                                                         *)
(***************************************************************************)
EXTENDS Naturals, FiniteSets, Sequences, Functions

CONSTANTS
    Room,      \* how many lines a buffer holds
    MaxQueued, \* more buffers than this at once are dropped, but for two
    MaxLines   \* bound: how many lines are appended

ASSUME LogAssumption ==
    Room \in Nat \ {0} /\ MaxQueued \in Nat \ {0, 1} /\ MaxLines \in Nat

VARIABLES
    lines,     \* how many lines were appended: a line is its number
    current,   \* currentBuffer_: the lines in it
    next,      \* nextBuffer_ is there (and empty)
    buffers,   \* buffers_: the full buffers
    running,   \* running_
    back,      \* where the back thread is
    spare,     \* which of newBuffer1 and newBuffer2 are there (and empty)
    toWrite,   \* buffersToWrite
    written,   \* how many of them the loop has written
    file,      \* the lines written to the file
    dropped,   \* the lines that were dropped
    owner      \* where the thread that owns the log is

vars == <<lines, current, next, buffers, running, back, spare, toWrite,
          written, file, dropped, owner>>
front == <<lines, current, next, buffers>>
local == <<spare, toWrite, written, file, dropped>>

Line  == 1..MaxLines
Start == {1, 2}

LinesIn(bs) == UNION {Range(bs[i]) : i \in DOMAIN bs}

-----------------------------------------------------------------------------
(* append().                                                               *)

\* cond_.notify() wakes the back thread if it sleeps, and is lost otherwise.
Notified == IF back = "asleep" THEN "woken" ELSE back

FitsMutant == Len(current) <= Room
Fits       == Len(current) < Room

\* The buffer that is full is queued, and nextBuffer_ or a new one takes its
\* place.
AppendLine ==
    /\ owner # "gone" /\ lines < MaxLines /\ lines' = lines + 1
    /\ IF Fits
       THEN /\ current' = Append(current, lines')
            /\ UNCHANGED <<next, buffers, back>>
       ELSE /\ buffers' = Append(buffers, current)
            /\ current' = <<lines'>> /\ next' = FALSE
            /\ back' = Notified
    /\ UNCHANGED <<running, owner, local>>

-----------------------------------------------------------------------------
(* The owner: start(), stop() and the destructor.                          *)

StartThread ==
    /\ owner = "new" /\ owner' = "starting"
    /\ running' = TRUE /\ back' = "born"
    /\ UNCHANGED <<front, local>>

\* latch_.wait()
Started ==
    /\ owner = "starting" /\ back # "born" /\ owner' = "up"
    /\ UNCHANGED <<front, local, running, back>>

Stop ==
    /\ owner = "up" /\ owner' = "stopping"
    /\ running' = FALSE
    /\ UNCHANGED <<front, local, back>>

StopNotifies ==
    /\ owner = "stopping" /\ owner' = "joining"
    /\ back' = Notified
    /\ UNCHANGED <<front, local, running>>

Joined ==
    /\ owner = "joining" /\ back = "ended" /\ owner' = "gone"
    /\ UNCHANGED <<front, local, running, back>>

-----------------------------------------------------------------------------
(* The back thread: threadFunc().                                          *)

\* latch_.countDown()
CountDown ==
    /\ back = "born" /\ back' = "check"
    /\ UNCHANGED <<front, local, running, owner>>

Check ==
    /\ back = "check"
    /\ back' = IF running THEN "lock" ELSE "ended"
    /\ UNCHANGED <<front, local, running, owner>>

\* With the mutex: what is queued, and the current buffer whether full or not,
\* are taken; newBuffer1 becomes the current one, newBuffer2 the next one.
SwapMutant ==
    /\ toWrite' = buffers /\ buffers' = toWrite
    /\ next' = TRUE
    /\ spare' = spare \ (IF next THEN {} ELSE {2})
    /\ back' = "trim"
    /\ UNCHANGED <<lines, current, written, file, dropped, running, owner>>

Swap ==
    /\ toWrite' = Append(buffers, current) /\ buffers' = toWrite
    /\ current' = <<>>
    /\ next' = TRUE
    /\ spare' = spare \ (IF next THEN {1} ELSE {1, 2})
    /\ back' = "trim"
    /\ UNCHANGED <<lines, written, file, dropped, running, owner>>

Lock ==
    /\ back = "lock"
    /\ IF buffers = <<>>
       THEN back' = "asleep" /\ UNCHANGED <<front, local, running, owner>>
       ELSE Swap

\* It was notified, or flushInterval_ has passed, or it wakes for no reason.
Wake == back = "woken" /\ Swap

ExpireMutant == FALSE
Expire == back = "asleep" /\ Swap

\* When there are too many buffers all but two go.
KeptMutant ==
    IF Len(toWrite) > MaxQueued THEN SubSeq(toWrite, 1, 1) ELSE toWrite

Kept == IF Len(toWrite) > MaxQueued THEN SubSeq(toWrite, 1, 2) ELSE toWrite

Trim ==
    /\ back = "trim" /\ back' = "write"
    /\ toWrite' = Kept
    /\ dropped' = dropped \cup (LinesIn(toWrite) \ LinesIn(Kept))
    /\ UNCHANGED <<front, spare, written, file, running, owner>>

WriteBuffer ==
    /\ back = "write" /\ written < Len(toWrite)
    /\ file' = file \o toWrite[written + 1]
    /\ written' = written + 1
    /\ UNCHANGED <<front, spare, toWrite, dropped, running, owner, back>>

\* The spare buffers that are missing are made of what was written.
RecycleMutant ==
    /\ back = "write" /\ written = Len(toWrite) /\ back' = "check"
    /\ spare' = Start
    /\ written' = 0
    /\ UNCHANGED <<front, toWrite, file, dropped, running, owner>>

Recycle ==
    /\ back = "write" /\ written = Len(toWrite) /\ back' = "check"
    /\ spare' = IF Cardinality(Start \ spare) <= Len(toWrite) THEN Start ELSE spare
    /\ toWrite' = <<>> /\ written' = 0
    /\ UNCHANGED <<front, file, dropped, running, owner>>

-----------------------------------------------------------------------------
Init ==
    /\ lines = 0 /\ current = <<>> /\ next = TRUE /\ buffers = <<>>
    /\ running = FALSE /\ owner = "new" /\ back = "none"
    /\ spare = Start /\ toWrite = <<>> /\ written = 0 /\ file = <<>>
    /\ dropped = {}

Owner == StartThread \/ Started \/ Stop \/ StopNotifies \/ Joined
Back  == CountDown \/ Check \/ Lock \/ Wake \/ Expire \/ Trim
         \/ WriteBuffer \/ Recycle

Next == AppendLine \/ Owner \/ Back

Spec == Init /\ [][Next]_vars

\* The back thread is scheduled and its timed wait ends.  The owner need not
\* stop the log, but goes on with what it has begun.
FairSpec ==
    /\ Spec
    /\ WF_vars(Back)
    /\ WF_vars(Started) /\ WF_vars(StopNotifies) /\ WF_vars(Joined)

-----------------------------------------------------------------------------
(* Properties.                                                             *)

BufferOf == {b \in Seq(Line) : Len(b) <= Room}

\* Every variable is of its type.
TypeOK ==
    /\ lines \in 0..MaxLines
    /\ current \in BufferOf /\ buffers \in Seq(BufferOf)
    /\ toWrite \in Seq(BufferOf) /\ written \in 0..Len(toWrite)
    /\ next \in BOOLEAN /\ running \in BOOLEAN
    /\ spare \subseteq Start
    /\ file \in Seq(Line) /\ dropped \subseteq Line
    /\ owner \in {"new", "starting", "up", "stopping", "joining", "gone"}
    /\ back \in {"none", "born", "check", "lock", "asleep", "woken", "trim",
                 "write", "ended"}

\* The assertions of threadFunc hold: running_ when it begins; both spare
\* buffers and an empty buffersToWrite at the top of the loop; one that is not
\* empty after the swap; and enough buffers left, after the dropping, to make
\* the missing spare ones of.  The pointer that append() writes through, and so
\* currentBuffer_, is never null.
AssertionsHold ==
    /\ back = "born" => running
    /\ back \in {"check", "lock", "asleep", "woken"} =>
          spare = Start /\ toWrite = <<>>
    /\ back = "trim" => toWrite # <<>>
    /\ back = "write" =>
          toWrite # <<>> /\ Cardinality(Start \ spare) <= Len(toWrite)

\* The lines of bs are all different, and in the order in which they came.
InOrder(bs) ==
    \A i, j \in DOMAIN bs : \A k \in DOMAIN bs[i], l \in DOMAIN bs[j] :
        i < j \/ (i = j /\ k < l) => bs[i][k] < bs[j][l]

\* Where the lines are, from the first one on: the file, the buffers that are
\* to be written, those that are queued, and the current one.
Pipeline == <<file>> \o SubSeq(toWrite, written + 1, Len(toWrite))
                    \o buffers \o <<current>>

\* What was appended is in the file, on its way there, or was dropped, once
\* and in the order in which it was appended, whatever the threads do.
LinesKeptInOrder ==
    /\ InOrder(Pipeline)
    /\ LinesIn(Pipeline) = (1..lines) \ dropped

\* A line gets to the file, or is dropped, unless the log is stopped: also
\* when nothing more is appended and no one notifies the back thread.
LineGetsOut ==
    \A n \in Line :
        n <= lines /\ running ~> n \in Range(file) \cup dropped \/ ~running

\* stop() returns, though its notification may come when the back thread has
\* looked at running_ and does not sleep yet.
StopReturns == owner = "stopping" ~> owner = "gone"
=============================================================================
