---------------------------- MODULE ChunkLoader ----------------------------
(***************************************************************************)
(* How the pages load their code: the webpack runtime of tc-front          *)
(* (static/js/runtime-main.ac423fd0.js, also inlined in index.html).       *)
(*                                                                         *)
(* The browser runs one task at a time, so a step is a task: a script that *)
(* is executed, an event of a <script> element, a timer, a promise         *)
(* reaction.  The runtime is written for scripts that arrive in any order, *)
(* or not at all, and that is what is modelled: the order of index.html    *)
(* (the runtime, then the vendor chunk, then the main chunk) is one of     *)
(* them.  A script whose timer has expired may still arrive.               *)
(***************************************************************************)
EXTENDS Naturals, Sequences, FiniteSets

CONSTANTS
    Import,     \* the calls of import() that the entry module makes
    PerfEntry,  \* reportWebVitals is given a callback: it imports its chunk
    NULL,       \* a chunk that is neither there nor being loaded
    MaxAttempts \* bound: how often a chunk is asked for

ASSUME LoaderAssumption ==
    /\ NULL \notin Nat
    /\ PerfEntry \in BOOLEAN
    /\ MaxAttempts \in Nat

Chunk  == {"runtime", "vendor", "main", "vitals"}
Module == {"entry", "getVitals"}

\* The chunks that the <script> tags of the page load.
Static == {"vendor", "main"}

\* What each script pushes: the modules that are to be run, and the chunks
\* that each module needs (for a deferred module, the rest of its entry).
VendorExecutes == {}
VitalsExecutes == {}
MainExecutes   == {"entry"}
Executes == [vendor |-> VendorExecutes, main |-> MainExecutes,
             vitals |-> VitalsExecutes]
Needs == [entry |-> {"runtime", "vendor", "main"}, getVitals |-> {"vitals"}]

VARIABLES
    script,     \* the <script> tags: "coming", "executed" or "failed"
    jsonpArray, \* window.webpackJsonpfront: the chunks pushed so far
    started,    \* the runtime has run
    installed,  \* installedChunks: 0 is loaded, NULL is undefined, and a
                \* number above 0 the attempt that is loading the chunk
    modules,    \* the chunks whose modules are in the modules object
    deferred,   \* deferredModules
    run,        \* installedModules: the modules that have been run
    promise,    \* per attempt at the chunk: the promise made for it
    loading,    \* the attempts whose <script> may still be executed
    watched,    \* the attempts whose <script> has its handlers and its timer
    import      \* per import: the attempt it waits for, or its end

attempts == <<promise, loading, watched>>
vars == <<script, jsonpArray, started, installed, modules, deferred, run,
          attempts, import>>

Attempt == DOMAIN promise

Pending(i) == import[i].state = "waiting"

-----------------------------------------------------------------------------
(* The callback of a chunk.                                                *)

\* The deferred modules whose chunks are there, after inst.
DueMutant(D, inst) == D
Due(D, inst) == {m \in D : \A c \in Needs[m] \ {"main"} : inst[c] = 0}

\* webpackJsonpCallback for the chunks of C, one after the other, with the
\* checkDeferredModules that follows.
Receive(C) ==
    LET inst == [c \in Chunk |-> IF c \in C THEN 0 ELSE installed[c]]
        all  == deferred \cup UNION {Executes[c] : c \in C}
        due  == Due(all, inst)
    IN  /\ installed' = inst
        /\ modules' = modules \cup C
        /\ deferred' = all \ due
        /\ run' = run \cup due

\* The promises of the chunks of C are resolved.
ResolvedMutant(C) == promise
Resolved(C) ==
    [p \in Attempt |->
        IF \E c \in C : installed[c] = p THEN "resolved" ELSE promise[p]]

-----------------------------------------------------------------------------
(* The scripts of the page.                                                *)

Pushed == {jsonpArray[k] : k \in DOMAIN jsonpArray}

\* The runtime replays what was pushed before it.
StartRuntimeMutant ==
    /\ ~started /\ started' = TRUE
    /\ UNCHANGED <<script, jsonpArray, installed, modules, deferred, run,
                   attempts, import>>

StartRuntime ==
    /\ ~started /\ started' = TRUE
    /\ Receive(Pushed)
    /\ UNCHANGED <<script, jsonpArray, attempts, import>>

\* push is that of the array until the runtime has replaced it; the
\* replacement hands the chunk on to the array (parentJsonpFunction).
Execute(c) ==
    /\ script[c] = "coming"
    /\ script' = [script EXCEPT ![c] = "executed"]
    /\ jsonpArray' = Append(jsonpArray, c)
    /\ IF started THEN Receive({c})
       ELSE UNCHANGED <<installed, modules, deferred, run>>
    /\ UNCHANGED <<started, attempts, import>>

ScriptMissing(c) ==
    /\ script[c] = "coming"
    /\ script' = [script EXCEPT ![c] = "failed"]
    /\ UNCHANGED <<jsonpArray, started, installed, modules, deferred, run,
                   attempts, import>>

-----------------------------------------------------------------------------
(* Chunks loaded on demand: __webpack_require__.e.                         *)

NewAttempt ==
    /\ Len(promise) < MaxAttempts
    /\ promise' = Append(promise, "pending")
    /\ loading' = loading \cup {Len(promise')}
    /\ watched' = watched \cup {Len(promise')}
    /\ installed' = [installed EXCEPT !["vitals"] = Len(promise')]

\* The entry module has been run; it asks for the chunk.  A chunk that is
\* there needs no promise (0), one that is being loaded has its promise
\* already, and one whose last attempt failed is asked for anew.
RequireEnsure(i) ==
    /\ PerfEntry /\ "entry" \in run
    /\ import[i].state = "none"
    /\ IF installed["vitals"] = NULL THEN NewAttempt
       ELSE UNCHANGED <<attempts, installed>>
    /\ import' = [import EXCEPT ![i] =
                     [state |-> "waiting", on |-> installed'["vitals"]]]
    /\ UNCHANGED <<script, jsonpArray, started, modules, deferred, run>>

\* onScriptComplete, once for each script: it takes its handlers and its timer
\* away and, if the chunk is not there, fails the promise in installedChunks.
Complete(p) ==
    /\ watched' = watched \ {p}
    /\ promise' = [q \in Attempt |->
                      IF installed["vitals"] = q THEN "rejected" ELSE promise[q]]
    /\ installed' = [installed EXCEPT !["vitals"] = IF @ = 0 THEN 0 ELSE NULL]

\* The script is executed, and its load event finds the chunk installed.
ChunkArrives(p) ==
    /\ p \in loading /\ loading' = loading \ {p}
    /\ Receive({"vitals"})
    /\ jsonpArray' = Append(jsonpArray, "vitals")
    /\ promise' = Resolved({"vitals"})
    /\ watched' = watched \ {p}
    /\ UNCHANGED <<script, started, import>>

\* The script cannot be fetched, or what is fetched is not the chunk.
ChunkMissing(p) ==
    /\ p \in loading /\ loading' = loading \ {p}
    /\ IF p \in watched THEN Complete(p)
       ELSE UNCHANGED <<promise, watched, installed>>
    /\ UNCHANGED <<script, jsonpArray, started, modules, deferred, run, import>>

\* After 120 seconds; the script is not taken out of the document.
Timeout(p) ==
    /\ p \in watched /\ Complete(p)
    /\ UNCHANGED <<script, jsonpArray, started, loading, modules, deferred, run,
                   import>>

\* The promise is settled: the import requires its module, or fails.
Proceed(i) ==
    /\ Pending(i)
    /\ LET p == import[i].on
       IN  \/ /\ p = 0 \/ (p # 0 /\ promise[p] = "resolved")
              /\ run' = run \cup {"getVitals"}
              /\ import' = [import EXCEPT ![i].state = "ok"]
           \/ /\ p # 0 /\ promise[p] = "rejected"
              /\ import' = [import EXCEPT ![i].state = "failed"]
              /\ UNCHANGED run
    /\ UNCHANGED <<script, jsonpArray, started, installed, modules, deferred,
                   attempts>>

-----------------------------------------------------------------------------
Init ==
    /\ script = [c \in Static |-> "coming"]
    /\ jsonpArray = <<>>
    /\ started = FALSE
    /\ installed = [c \in Chunk |-> IF c = "runtime" THEN 0 ELSE NULL]
    /\ modules = {"runtime"}
    /\ deferred = {}
    /\ run = {}
    /\ promise = <<>>
    /\ loading = {}
    /\ watched = {}
    /\ import = [i \in Import |-> [state |-> "none", on |-> 0]]

Next ==
    \/ StartRuntime
    \/ \E c \in Static : Execute(c) \/ ScriptMissing(c)
    \/ \E i \in Import : RequireEnsure(i) \/ Proceed(i)
    \/ \E p \in Attempt :
          ChunkArrives(p) \/ ChunkMissing(p) \/ Timeout(p)

Spec == Init /\ [][Next]_vars

\* The runtime runs, timers expire and promise reactions are run.  Nothing is
\* assumed of the network.
FairSpec ==
    /\ Spec
    /\ WF_vars(StartRuntime)
    /\ \A i \in Import : WF_vars(Proceed(i))
    /\ \A p \in 1..MaxAttempts : WF_vars(p \in Attempt /\ Timeout(p))

-----------------------------------------------------------------------------
(* Properties.                                                             *)

\* Every variable is of its type.
TypeOK ==
    /\ script \in [Static -> {"coming", "executed", "failed"}]
    /\ jsonpArray \in Seq(Chunk)
    /\ started \in BOOLEAN
    /\ promise \in Seq({"pending", "resolved", "rejected"})
    /\ loading \subseteq Attempt /\ watched \subseteq Attempt
    /\ installed \in [Chunk -> {0, NULL} \cup Attempt]
    /\ modules \subseteq Chunk
    /\ deferred \subseteq Module
    /\ run \subseteq Module
    /\ import \in [Import -> [state : {"none", "waiting", "ok", "failed"},
                             on : {0} \cup Attempt]]

\* A module is run only when the code of every chunk it needs is there, in
\* whatever order the scripts come and however late (webpackJsonpCallback).
RunsOnlyWhenLoaded == \A m \in run : Needs[m] \subseteq modules

\* Once the runtime and the scripts of the page have run, in any order, the
\* entry module has been run: a chunk that was pushed before the runtime was
\* there is not forgotten.
EntryNotForgotten ==
    started /\ (\A c \in Static : script[c] = "executed") => "entry" \in run

\* A promise that is not settled belongs to the attempt that is loading the
\* chunk, whose script and timer can still settle it: a second request joins
\* it and does not take its place in installedChunks.
PendingIsWatched ==
    \A p \in Attempt :
        promise[p] = "pending" => installed["vitals"] = p /\ p \in watched

\* An attempt fails by its own script or timer, never by what is left over
\* from an earlier attempt at the same chunk.
FailureIsOwn ==
    \A p \in Attempt : promise[p] = "rejected" => p \notin watched

\* Every import is answered, whatever becomes of the scripts.
ImportAnswered ==
    \A i \in Import :
        Pending(i) ~> import[i].state \in {"ok", "failed"}

\* What the pages rely on: a module runs once, when its chunks are there.
Loading == INSTANCE ModuleLoading WITH
    loaded <- modules,
    run    <- run,
    answer <- [i \in Import |-> IF Pending(i) THEN "none" ELSE import[i].state],
    Wanted <- "getVitals"

\* The runtime does what the pages rely on.
ImplementsLoading == Loading!Spec
=============================================================================
