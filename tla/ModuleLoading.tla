--------------------------- MODULE ModuleLoading ---------------------------
(***************************************************************************)
(* What the page relies on when it loads its code in chunks: a module runs *)
(* once, and only when every chunk it needs is there; an import is         *)
(* answered once, and it succeeds only when its chunk is there.            *)
(***************************************************************************)
CONSTANTS
    Chunk,      \* the chunks the code is cut into
    Module,     \* the modules that are run
    Needs,      \* the chunks that each module needs
    Import,     \* the calls of import()
    Wanted      \* the module an import asks for

VARIABLES
    loaded,     \* the chunks that are there
    run,        \* the modules that have been run
    answer      \* per import: "none", "ok" or "failed"

vars == <<loaded, run, answer>>

Init ==
    /\ loaded \subseteq Chunk
    /\ run = {}
    /\ answer = [i \in Import |-> "none"]

\* Chunks come in, and modules that waited for them are run.
Load(C, M) ==
    /\ \A m \in M : Needs[m] \subseteq loaded \cup C
    /\ M \cap run = {}
    /\ loaded' = loaded \cup C
    /\ run' = run \cup M
    /\ UNCHANGED answer

\* The import runs its module, unless that has been run, and succeeds.
Succeed(i) ==
    /\ answer[i] = "none" /\ Needs[Wanted] \subseteq loaded
    /\ answer' = [answer EXCEPT ![i] = "ok"]
    /\ run' = run \cup {Wanted}
    /\ UNCHANGED loaded

Fail(i) ==
    /\ answer[i] = "none"
    /\ answer' = [answer EXCEPT ![i] = "failed"]
    /\ UNCHANGED <<loaded, run>>

Next ==
    \/ \E C \in SUBSET Chunk, M \in SUBSET Module : Load(C, M)
    \/ \E i \in Import : Succeed(i) \/ Fail(i)

Spec == Init /\ [][Next]_vars
=============================================================================
