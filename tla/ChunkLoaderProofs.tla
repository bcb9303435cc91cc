-------------------------- MODULE ChunkLoaderProofs --------------------------
(* What ChunkLoader keeps for every set of imports and any number of         *)
(* attempts at a chunk, whatever becomes of the scripts.                     *)
EXTENDS ChunkLoader, TLAPS

-----------------------------------------------------------------------------
(* The inductive invariant.                                                  *)

\* What is pushed is what has been executed; the runtime takes it all in.
PushedIsTaken ==
    /\ Pushed \subseteq {"vendor", "main", "vitals"}
    /\ \A c \in Static : script[c] = "executed" <=> c \in Pushed
    /\ started => modules = {"runtime"} \cup Pushed
    /\ ~started => modules = {"runtime"} /\ "vitals" \notin Pushed

\* installedChunks tells which chunks are there.
InstalledIsLoaded == \A c \in Chunk : installed[c] = 0 <=> c \in modules

\* The entry module is put aside by its chunk until its vendor chunk is there.
EntryInHand ==
    /\ deferred \subseteq {"entry"}
    /\ "main" \in modules <=> "entry" \in deferred \cup run
    /\ deferred \cap run = {}
    /\ "entry" \in deferred => "vendor" \notin modules
    /\ promise # <<>> => "entry" \in run

\* Who loads the chunk, and who may still report on it.
AttemptsInHand ==
    /\ installed["vitals"] \in Attempt => promise[installed["vitals"]] = "pending"
    /\ \A p \in watched : installed["vitals"] \in {0, p}
    /\ \A p \in Attempt : promise[p] = "resolved" => "vitals" \in modules
    /\ \A i \in Import : Pending(i) /\ import[i].on = 0 => "vitals" \in modules

Inv == /\ TypeOK /\ PushedIsTaken /\ InstalledIsLoaded /\ EntryInHand
       /\ AttemptsInHand /\ PendingIsWatched /\ FailureIsOwn
       /\ RunsOnlyWhenLoaded

-----------------------------------------------------------------------------
(* What the steps do to the attempts.                                        *)

Promises == {"pending", "resolved", "rejected"}

LEMMA PromisesMapped ==
    ASSUME promise \in Seq(Promises), NEW b, b \in [Attempt -> Promises]
    PROVE  b \in Seq(Promises) /\ DOMAIN b = Attempt
  <1>1. Attempt = 1..Len(promise) /\ Len(promise) \in Nat
    BY DEF Attempt
  <1>2. \A n \in Nat : [1..n -> Promises] \subseteq Seq(Promises)
    OBVIOUS
  <1>3. QED
    BY <1>1, <1>2

\* A new attempt leaves the others as they are.
LEMMA NewAttemptTyped ==
    ASSUME TypeOK, NewAttempt
    PROVE  /\ promise' \in Seq(Promises)
           /\ Attempt' = Attempt \cup {Len(promise')}
           /\ Len(promise') \in Nat \ {0} /\ Len(promise') \notin Attempt
           /\ promise'[Len(promise')] = "pending"
           /\ \A p \in Attempt : promise'[p] = promise[p]
  BY DEF TypeOK, NewAttempt, Attempt, Promises

LEMMA CompleteTyped ==
    ASSUME TypeOK, NEW p \in Attempt, Complete(p)
    PROVE  /\ promise' \in Seq(Promises) /\ Attempt' = Attempt
           /\ \A q \in Attempt :
                 promise'[q] = IF installed["vitals"] = q THEN "rejected" ELSE promise[q]
           /\ installed' = [installed EXCEPT !["vitals"] = IF @ = 0 THEN 0 ELSE NULL]
           /\ watched' = watched \ {p}
  <1>1. promise \in Seq(Promises) /\ promise' \in [Attempt -> Promises]
    BY DEF TypeOK, Complete, Promises, Attempt
  <1>2. QED
    BY <1>1, PromisesMapped DEF Complete, Attempt

LEMMA ArrivesTyped ==
    ASSUME TypeOK, NEW p \in Attempt, ChunkArrives(p)
    PROVE  /\ promise' \in Seq(Promises) /\ Attempt' = Attempt
           /\ \A q \in Attempt :
                 promise'[q] = IF installed["vitals"] = q THEN "resolved" ELSE promise[q]
  <1>1. promise \in Seq(Promises) /\ promise' \in [Attempt -> Promises]
    BY DEF TypeOK, ChunkArrives, Resolved, Promises, Attempt
  <1>2. QED
    BY <1>1, PromisesMapped DEF ChunkArrives, Resolved, Attempt

\* What the callback of the chunks of C does; the main chunk comes once.
LEMMA ReceiveKeeps ==
    ASSUME Inv, NEW C \in SUBSET {"vendor", "main", "vitals"}, Receive(C),
           "main" \in C => "main" \notin modules
    PROVE  /\ installed' \in [Chunk -> {0, NULL} \cup Attempt]
           /\ installed' = [c \in Chunk |-> IF c \in C THEN 0 ELSE installed[c]]
           /\ modules' = modules \cup C /\ modules' \subseteq Chunk
           /\ InstalledIsLoaded'
           /\ deferred' \subseteq {"entry"} /\ run' \subseteq Module
           /\ run \subseteq run' /\ run' \ run \subseteq {"entry"}
           /\ "main" \in modules' <=> "entry" \in deferred' \cup run'
           /\ deferred' \cap run' = {}
           /\ "entry" \in deferred' => "vendor" \notin modules'
           /\ RunsOnlyWhenLoaded'
  <1> DEFINE inst == [c \in Chunk |-> IF c \in C THEN 0 ELSE installed[c]]
             all  == deferred \cup (IF "main" \in C THEN {"entry"} ELSE {})
  <1>1. /\ TypeOK /\ InstalledIsLoaded /\ RunsOnlyWhenLoaded
        /\ deferred \subseteq {"entry"} /\ deferred \cap run = {}
        /\ "main" \in modules <=> "entry" \in deferred \cup run
        /\ "runtime" \in modules
    BY DEF Inv, EntryInHand, PushedIsTaken
  <1>2. UNION {Executes[c] : c \in C} = IF "main" \in C THEN {"entry"} ELSE {}
    BY DEF Executes, VendorExecutes, MainExecutes, VitalsExecutes
  <1>3. /\ installed' = inst /\ modules' = modules \cup C
        /\ deferred' = all \ Due(all, inst) /\ run' = run \cup Due(all, inst)
    BY <1>2 DEF Receive
  <1>4. inst \in [Chunk -> {0, NULL} \cup Attempt] /\ InstalledIsLoaded'
    BY <1>1, <1>3 DEF TypeOK, InstalledIsLoaded, Chunk
  <1>5. /\ all \subseteq {"entry"}
        /\ "entry" \in all <=> "main" \in modules' /\ "entry" \notin run
    BY <1>1, <1>3
  <1>6. "entry" \in Due(all, inst)
            <=> "entry" \in all /\ inst["runtime"] = 0 /\ inst["vendor"] = 0
    BY DEF Due, Needs
  <1>7. Due(all, inst) \subseteq all
    BY DEF Due
  <1>8. inst["runtime"] = 0 /\ (inst["vendor"] = 0 <=> "vendor" \in modules')
    BY <1>1, <1>3, <1>4 DEF InstalledIsLoaded, Chunk
  <1>9. RunsOnlyWhenLoaded'
    <2>1. ASSUME NEW m \in run' PROVE Needs[m] \subseteq modules'
      <3>1. CASE m \in run
        BY <1>1, <1>3, <3>1 DEF RunsOnlyWhenLoaded
      <3>2. CASE m \in Due(all, inst)
        <4>1. m = "entry" /\ "vendor" \in modules'
          BY <1>5, <1>6, <1>7, <1>8, <3>2
        <4>2. {"runtime", "main"} \subseteq modules'
          BY <1>1, <1>3, <1>5, <1>7, <3>2, <4>1
        <4>3. QED
          BY <4>1, <4>2 DEF Needs
      <3>3. QED
        BY <1>3, <2>1, <3>1, <3>2
    <2>2. QED
      BY <2>1 DEF RunsOnlyWhenLoaded
  <1>10. /\ run' \subseteq Module /\ modules' \subseteq Chunk
         /\ deferred' \subseteq {"entry"} /\ run' \ run \subseteq {"entry"}
    BY <1>1, <1>3, <1>5, <1>7 DEF TypeOK, Module, Chunk
  <1>11. deferred' \cap run' = {}
    BY <1>1, <1>3, <1>5, <1>7
  <1>12. "main" \in modules' <=> "entry" \in deferred' \cup run'
    BY <1>1, <1>3, <1>5, <1>7
  <1>13. "entry" \in deferred' => "vendor" \notin modules'
    BY <1>3, <1>6, <1>8
  <1>14. QED
    BY <1>3, <1>4, <1>9, <1>10, <1>11, <1>12, <1>13

-----------------------------------------------------------------------------
(* Each step keeps the invariant.                                            *)

LEMMA StartRuntimeKeeps == Inv /\ StartRuntime => Inv'
  <1> SUFFICES ASSUME Inv, StartRuntime PROVE Inv'
    OBVIOUS
  <1>1. /\ TypeOK /\ PushedIsTaken /\ EntryInHand /\ AttemptsInHand
        /\ PendingIsWatched /\ FailureIsOwn /\ ~started /\ started'
        /\ modules = {"runtime"} /\ "entry" \notin run /\ promise = <<>>
        /\ Receive(Pushed)
        /\ UNCHANGED <<script, jsonpArray, promise, loading, watched, import>>
    BY DEF Inv, StartRuntime, PushedIsTaken, EntryInHand, attempts
  <1>2. Pushed \in SUBSET {"vendor", "main", "vitals"} /\ Pushed' = Pushed
    BY <1>1 DEF PushedIsTaken, Pushed
  <1>3. /\ installed' \in [Chunk -> {0, NULL} \cup Attempt]
        /\ installed'["vitals"] = installed["vitals"]
        /\ modules' = {"runtime"} \cup Pushed /\ modules' \subseteq Chunk
        /\ InstalledIsLoaded'
        /\ deferred' \subseteq {"entry"} /\ run' \subseteq Module
        /\ "main" \in modules' <=> "entry" \in deferred' \cup run'
        /\ deferred' \cap run' = {}
        /\ "entry" \in deferred' => "vendor" \notin modules'
        /\ RunsOnlyWhenLoaded'
    BY <1>1, <1>2, ReceiveKeeps DEF PushedIsTaken, Chunk
  <1>4. Attempt' = Attempt
    BY <1>1 DEF Attempt
  <1>5. TypeOK'
    BY <1>1, <1>3, <1>4 DEF TypeOK, Module
  <1>6. PushedIsTaken'
    BY <1>1, <1>2, <1>3 DEF PushedIsTaken
  <1>7. EntryInHand' /\ PendingIsWatched' /\ FailureIsOwn'
    BY <1>1, <1>3, <1>4 DEF EntryInHand, PendingIsWatched, FailureIsOwn
  <1>8. AttemptsInHand'
    BY <1>1, <1>3, <1>4 DEF AttemptsInHand, Pending
  <1>9. QED
    BY <1>3, <1>5, <1>6, <1>7, <1>8 DEF Inv

LEMMA PushTyped ==
    ASSUME TypeOK, NEW c \in Chunk, jsonpArray' = Append(jsonpArray, c)
    PROVE  jsonpArray' \in Seq(Chunk) /\ Pushed' = Pushed \cup {c}
  <1>1. jsonpArray \in Seq(Chunk)
    BY DEF TypeOK
  <1>2. /\ jsonpArray' \in Seq(Chunk)
        /\ DOMAIN jsonpArray' = DOMAIN jsonpArray \cup {Len(jsonpArray) + 1}
        /\ jsonpArray'[Len(jsonpArray) + 1] = c
        /\ \A k \in DOMAIN jsonpArray : jsonpArray'[k] = jsonpArray[k]
    BY <1>1
  <1>3. Pushed' = {jsonpArray'[k] : k \in DOMAIN jsonpArray'}
    BY DEF Pushed
  <1>4. QED
    BY <1>2, <1>3 DEF Pushed

LEMMA ExecuteKeeps == ASSUME Inv, NEW c \in Static, Execute(c) PROVE Inv'
  <1>1. /\ TypeOK /\ PushedIsTaken /\ InstalledIsLoaded /\ EntryInHand
        /\ AttemptsInHand /\ PendingIsWatched /\ FailureIsOwn
        /\ RunsOnlyWhenLoaded
    BY DEF Inv
  <1>2. /\ script[c] = "coming" /\ c \notin Pushed /\ c \in {"vendor", "main"}
        /\ script' = [script EXCEPT ![c] = "executed"]
        /\ jsonpArray' = Append(jsonpArray, c)
        /\ UNCHANGED <<started, promise, loading, watched, import>>
    BY <1>1 DEF Execute, PushedIsTaken, Static, attempts
  <1>3. jsonpArray' \in Seq(Chunk) /\ Pushed' = Pushed \cup {c} /\ Attempt' = Attempt
    BY <1>1, <1>2, PushTyped DEF Chunk, Attempt
  <1>4. /\ script' \in [Static -> {"coming", "executed", "failed"}]
        /\ \A d \in Static : script'[d] = "executed" <=> d \in Pushed'
        /\ Pushed' \subseteq {"vendor", "main", "vitals"}
    BY <1>1, <1>2, <1>3 DEF TypeOK, PushedIsTaken
  <1>5. CASE ~started
    <2>1. UNCHANGED <<installed, modules, deferred, run>>
      BY <1>5 DEF Execute
    <2>2. TypeOK' /\ PushedIsTaken'
      BY <1>1, <1>2, <1>3, <1>4, <1>5, <2>1 DEF TypeOK, PushedIsTaken
    <2>3. /\ InstalledIsLoaded' /\ EntryInHand' /\ PendingIsWatched'
          /\ FailureIsOwn' /\ RunsOnlyWhenLoaded'
      BY <1>1, <1>2, <1>3, <2>1
      DEF InstalledIsLoaded, EntryInHand, PendingIsWatched, FailureIsOwn,
          RunsOnlyWhenLoaded
    <2>4. AttemptsInHand'
      BY <1>1, <1>2, <1>3, <2>1 DEF AttemptsInHand, Pending
    <2>5. QED
      BY <2>2, <2>3, <2>4 DEF Inv
  <1>6. CASE started
    <2>1. Receive({c}) /\ c \notin modules
      BY <1>1, <1>2, <1>6 DEF Execute, PushedIsTaken
    <2>2. /\ installed' \in [Chunk -> {0, NULL} \cup Attempt]
          /\ installed'["vitals"] = installed["vitals"]
          /\ modules' = modules \cup {c} /\ modules' \subseteq Chunk
          /\ InstalledIsLoaded' /\ run \subseteq run'
          /\ deferred' \subseteq {"entry"} /\ run' \subseteq Module
          /\ "main" \in modules' <=> "entry" \in deferred' \cup run'
          /\ deferred' \cap run' = {}
          /\ "entry" \in deferred' => "vendor" \notin modules'
          /\ RunsOnlyWhenLoaded'
      BY <1>2, <2>1, ReceiveKeeps DEF Chunk
    <2>3. TypeOK'
      BY <1>1, <1>2, <1>3, <1>4, <2>2 DEF TypeOK, Module
    <2>4. PushedIsTaken'
      BY <1>1, <1>2, <1>3, <1>4, <1>6, <2>2 DEF PushedIsTaken
    <2>5. EntryInHand' /\ PendingIsWatched' /\ FailureIsOwn'
      BY <1>1, <1>2, <1>3, <2>2 DEF EntryInHand, PendingIsWatched, FailureIsOwn
    <2>6. AttemptsInHand'
      BY <1>1, <1>2, <1>3, <2>2 DEF AttemptsInHand, Pending
    <2>7. QED
      BY <2>2, <2>3, <2>4, <2>5, <2>6 DEF Inv
  <1>7. QED
    BY <1>1, <1>5, <1>6 DEF TypeOK

LEMMA ScriptMissingKeeps ==
    ASSUME Inv, NEW c \in Static, ScriptMissing(c) PROVE Inv'
  <1>1. /\ script[c] = "coming" /\ script' = [script EXCEPT ![c] = "failed"]
        /\ UNCHANGED <<jsonpArray, started, installed, modules, deferred, run,
                       promise, loading, watched, import>>
    BY DEF ScriptMissing, attempts
  <1>2. Attempt' = Attempt /\ Pushed' = Pushed
    BY <1>1 DEF Attempt, Pushed
  <1>3. TypeOK' /\ PushedIsTaken'
    BY <1>1, <1>2 DEF Inv, TypeOK, PushedIsTaken
  <1>4. /\ InstalledIsLoaded' /\ EntryInHand' /\ PendingIsWatched'
        /\ FailureIsOwn' /\ RunsOnlyWhenLoaded'
    BY <1>1, <1>2 DEF Inv, InstalledIsLoaded, EntryInHand, PendingIsWatched,
                      FailureIsOwn, RunsOnlyWhenLoaded
  <1>5. AttemptsInHand'
    BY <1>1, <1>2 DEF Inv, AttemptsInHand, Pending
  <1>6. QED
    BY <1>3, <1>4, <1>5 DEF Inv

\* An import waits for the attempt that is in installedChunks, or for none.
LEMMA RequireEnsureKeeps ==
    ASSUME Inv, NEW i \in Import, RequireEnsure(i) PROVE Inv'
  <1>1. /\ TypeOK /\ PushedIsTaken /\ InstalledIsLoaded /\ EntryInHand
        /\ AttemptsInHand /\ PendingIsWatched /\ FailureIsOwn
        /\ RunsOnlyWhenLoaded /\ "entry" \in run /\ NULL \notin Nat
        /\ UNCHANGED <<script, jsonpArray, started, modules, deferred, run>>
    BY LoaderAssumption DEF Inv, RequireEnsure
  <1>2. /\ "vitals" \in Chunk /\ "vitals" # "runtime"
        /\ Attempt \subseteq Nat \ {0} /\ installed["vitals"] \in {0, NULL} \cup Attempt
    BY <1>1 DEF Chunk, TypeOK, Attempt
  <1>3. /\ promise' \in Seq(Promises) /\ Attempt \subseteq Attempt'
        /\ Attempt' \subseteq Nat \ {0}
        /\ loading' \subseteq Attempt' /\ watched' \subseteq Attempt'
        /\ installed' \in [Chunk -> {0, NULL} \cup Attempt']
        /\ installed'["vitals"] \in {0} \cup Attempt'
        /\ InstalledIsLoaded' /\ PendingIsWatched' /\ FailureIsOwn'
        /\ installed'["vitals"] \in Attempt' => promise'[installed'["vitals"]] = "pending"
        /\ \A p \in watched' : installed'["vitals"] \in {0, p}
        /\ \A p \in Attempt' : promise'[p] = "resolved" => "vitals" \in modules'
    <2>1. CASE installed["vitals"] = NULL
      <3>1. /\ NewAttempt /\ Attempt' = Attempt \cup {Len(promise')}
            /\ Len(promise') \in Nat \ {0} /\ Len(promise') \notin Attempt
            /\ promise' \in Seq(Promises) /\ promise'[Len(promise')] = "pending"
            /\ \A p \in Attempt : promise'[p] = promise[p]
        BY <1>1, <2>1, NewAttemptTyped DEF RequireEnsure
      <3>2. /\ watched' = watched \cup {Len(promise')}
            /\ loading' = loading \cup {Len(promise')}
            /\ installed' = [installed EXCEPT !["vitals"] = Len(promise')]
        BY <3>1 DEF NewAttempt
      <3>3. watched = {} /\ \A p \in Attempt : promise[p] # "pending"
        BY <1>1, <1>2, <2>1 DEF AttemptsInHand, PendingIsWatched, TypeOK
      <3>4. installed'["vitals"] = Len(promise') /\ watched' = {Len(promise')}
        BY <1>1, <1>2, <3>2, <3>3 DEF TypeOK
      <3>5. InstalledIsLoaded'
        BY <1>1, <1>2, <2>1, <3>1, <3>2 DEF InstalledIsLoaded, TypeOK
      <3>6. PendingIsWatched' /\ FailureIsOwn'
        BY <1>1, <3>1, <3>3, <3>4 DEF PendingIsWatched, FailureIsOwn
      <3>7. installed' \in [Chunk -> {0, NULL} \cup Attempt']
        BY <1>1, <3>1, <3>2 DEF TypeOK
      <3>8. QED
        BY <1>1, <1>2, <3>1, <3>2, <3>3, <3>4, <3>5, <3>6, <3>7
        DEF TypeOK, AttemptsInHand
    <2>2. CASE installed["vitals"] # NULL
      <3>1. UNCHANGED <<promise, loading, watched, installed>> /\ Attempt' = Attempt
        BY <2>2 DEF RequireEnsure, attempts, Attempt
      <3>2. InstalledIsLoaded' /\ PendingIsWatched' /\ FailureIsOwn'
        BY <1>1, <3>1 DEF InstalledIsLoaded, PendingIsWatched, FailureIsOwn
      <3>3. QED
        BY <1>1, <1>2, <2>2, <3>1, <3>2 DEF TypeOK, AttemptsInHand, Promises
    <2>3. QED
      BY <2>1, <2>2
  <1>4. import' = [import EXCEPT ![i] = [state |-> "waiting",
                                         on |-> installed'["vitals"]]]
    BY DEF RequireEnsure
  <1>5. import' \in [Import -> [state : {"none", "waiting", "ok", "failed"},
                                on : {0} \cup Attempt']]
    BY <1>1, <1>3, <1>4 DEF TypeOK
  <1>6. TypeOK'
    BY <1>1, <1>3, <1>5 DEF TypeOK, Promises
  <1>7. PushedIsTaken' /\ EntryInHand' /\ RunsOnlyWhenLoaded'
    BY <1>1 DEF PushedIsTaken, Pushed, EntryInHand, RunsOnlyWhenLoaded
  <1>8. ASSUME NEW j \in Import, Pending(j)', import'[j].on = 0
        PROVE  "vitals" \in modules'
    <2>1. CASE j = i
      BY <1>1, <1>2, <1>3, <1>4, <1>8, <2>1 DEF TypeOK, InstalledIsLoaded
    <2>2. CASE j # i
      BY <1>1, <1>4, <1>8, <2>2 DEF TypeOK, AttemptsInHand, Pending
    <2>3. QED
      BY <2>1, <2>2
  <1>9. AttemptsInHand'
    BY <1>3, <1>8 DEF AttemptsInHand
  <1>10. QED
    BY <1>3, <1>6, <1>7, <1>9 DEF Inv

\* The attempt that fails is that of the script, or none fails.
LEMMA CompleteKeeps ==
    ASSUME Inv, NEW p \in watched, Complete(p), loading' \subseteq loading,
           UNCHANGED <<script, jsonpArray, started, modules, deferred, run, import>>
    PROVE  Inv'
  <1>1. /\ TypeOK /\ PushedIsTaken /\ InstalledIsLoaded /\ EntryInHand
        /\ AttemptsInHand /\ PendingIsWatched /\ FailureIsOwn
        /\ RunsOnlyWhenLoaded /\ NULL \notin Nat /\ p \in Attempt
        /\ Attempt \subseteq Nat \ {0}
    BY LoaderAssumption DEF Inv, TypeOK, Attempt
  <1>2. /\ promise' \in Seq(Promises) /\ Attempt' = Attempt
        /\ \A q \in Attempt :
              promise'[q] = IF installed["vitals"] = q THEN "rejected" ELSE promise[q]
        /\ installed' = [installed EXCEPT !["vitals"] = IF @ = 0 THEN 0 ELSE NULL]
        /\ watched' = watched \ {p} /\ installed["vitals"] \in {0, p}
    BY <1>1, CompleteTyped DEF AttemptsInHand
  <1>3. installed'["vitals"] = IF installed["vitals"] = 0 THEN 0 ELSE NULL
    BY <1>1, <1>2 DEF TypeOK, Chunk
  <1>4. TypeOK'
    BY <1>1, <1>2 DEF TypeOK, Promises
  <1>5. InstalledIsLoaded'
    BY <1>1, <1>2, <1>3 DEF InstalledIsLoaded, TypeOK, Chunk
  <1>6. PushedIsTaken' /\ RunsOnlyWhenLoaded'
    BY <1>1 DEF PushedIsTaken, Pushed, RunsOnlyWhenLoaded
  <1>7. EntryInHand'
    BY <1>1, <1>2 DEF EntryInHand, Attempt, TypeOK, Promises
  <1>8. FailureIsOwn' /\ PendingIsWatched'
    BY <1>1, <1>2, <1>3 DEF FailureIsOwn, PendingIsWatched
  <1>9. AttemptsInHand'
    <2>1. installed'["vitals"] \notin Attempt
      BY <1>1, <1>3
    <2>2. \A q \in watched' : installed'["vitals"] \in {0, q}
      BY <1>1, <1>2, <1>3 DEF AttemptsInHand
    <2>3. \A q \in Attempt : promise'[q] = "resolved" => "vitals" \in modules
      BY <1>1, <1>2 DEF AttemptsInHand
    <2>4. \A j \in Import : Pending(j) /\ import[j].on = 0 => "vitals" \in modules
      BY <1>1 DEF AttemptsInHand
    <2>5. QED
      BY <1>2, <2>1, <2>2, <2>3, <2>4 DEF AttemptsInHand, Pending
  <1>10. QED
    BY <1>4, <1>5, <1>6, <1>7, <1>8, <1>9 DEF Inv

LEMMA TimeoutKeeps == ASSUME Inv, NEW p \in Attempt, Timeout(p) PROVE Inv'
  BY CompleteKeeps DEF Timeout

LEMMA ChunkMissingKeeps == ASSUME Inv, NEW p \in Attempt, ChunkMissing(p) PROVE Inv'
  <1>1. CASE p \in watched
    BY <1>1, CompleteKeeps DEF ChunkMissing
  <1>2. CASE p \notin watched
    <2>1. /\ loading' \subseteq loading
          /\ UNCHANGED <<script, jsonpArray, started, installed, modules, deferred,
                         run, promise, watched, import>>
      BY <1>2 DEF ChunkMissing
    <2>2. Attempt' = Attempt /\ Pushed' = Pushed
      BY <2>1 DEF Attempt, Pushed
    <2>3. TypeOK' /\ PushedIsTaken'
      BY <2>1, <2>2 DEF Inv, TypeOK, PushedIsTaken
    <2>4. /\ InstalledIsLoaded' /\ EntryInHand' /\ PendingIsWatched'
          /\ FailureIsOwn' /\ RunsOnlyWhenLoaded'
      BY <2>1, <2>2 DEF Inv, InstalledIsLoaded, EntryInHand, PendingIsWatched,
                        FailureIsOwn, RunsOnlyWhenLoaded
    <2>5. AttemptsInHand'
      BY <2>1, <2>2 DEF Inv, AttemptsInHand, Pending
    <2>6. QED
      BY <2>3, <2>4, <2>5 DEF Inv
  <1>3. QED
    BY <1>1, <1>2

LEMMA ChunkArrivesKeeps == ASSUME Inv, NEW p \in Attempt, ChunkArrives(p) PROVE Inv'
  <1>1. /\ TypeOK /\ PushedIsTaken /\ InstalledIsLoaded /\ EntryInHand
        /\ AttemptsInHand /\ PendingIsWatched /\ FailureIsOwn
        /\ RunsOnlyWhenLoaded /\ NULL \notin Nat
        /\ Attempt \subseteq Nat \ {0}
    BY LoaderAssumption DEF Inv, TypeOK, Attempt
  <1>2. "main" \in modules /\ started
    <2>1. promise # <<>>
      BY DEF Attempt
    <2>2. QED
      BY <1>1, <2>1 DEF EntryInHand, PushedIsTaken
  <1>3. /\ promise' \in Seq(Promises) /\ Attempt' = Attempt
        /\ \A q \in Attempt :
              promise'[q] = IF installed["vitals"] = q THEN "resolved" ELSE promise[q]
        /\ loading' \subseteq loading /\ watched' \subseteq watched
        /\ UNCHANGED <<script, started, import>>
    BY <1>1, ArrivesTyped DEF ChunkArrives
  <1>4. jsonpArray' \in Seq(Chunk) /\ Pushed' = Pushed \cup {"vitals"}
    BY <1>1, PushTyped DEF ChunkArrives, Chunk
  <1>5. /\ installed' \in [Chunk -> {0, NULL} \cup Attempt]
        /\ installed'["vitals"] = 0
        /\ modules' = modules \cup {"vitals"} /\ modules' \subseteq Chunk
        /\ InstalledIsLoaded' /\ run \subseteq run'
        /\ deferred' \subseteq {"entry"} /\ run' \subseteq Module
        /\ "main" \in modules' <=> "entry" \in deferred' \cup run'
        /\ deferred' \cap run' = {}
        /\ "entry" \in deferred' => "vendor" \notin modules'
        /\ RunsOnlyWhenLoaded'
    BY ReceiveKeeps DEF ChunkArrives, Chunk
  <1>6. TypeOK'
    BY <1>1, <1>3, <1>4, <1>5 DEF TypeOK, Promises, Module
  <1>7. PushedIsTaken'
    BY <1>1, <1>2, <1>3, <1>4, <1>5 DEF PushedIsTaken, Static
  <1>8. EntryInHand'
    <2>1. "entry" \in run
      <3>1. promise # <<>>
        BY DEF Attempt
      <3>2. QED
        BY <1>1, <3>1 DEF EntryInHand
    <2>2. QED
      BY <1>5, <2>1 DEF EntryInHand
  <1>9. FailureIsOwn' /\ PendingIsWatched'
    BY <1>1, <1>3, <1>5 DEF FailureIsOwn, PendingIsWatched
  <1>10. AttemptsInHand'
    BY <1>1, <1>3, <1>5 DEF AttemptsInHand, Pending
  <1>11. QED
    BY <1>5, <1>6, <1>7, <1>8, <1>9, <1>10 DEF Inv

LEMMA ProceedKeeps == ASSUME Inv, NEW i \in Import, Proceed(i) PROVE Inv'
  <1>1. /\ TypeOK /\ AttemptsInHand /\ EntryInHand /\ RunsOnlyWhenLoaded
        /\ UNCHANGED <<script, jsonpArray, started, installed, modules, deferred,
                       promise, loading, watched>>
    BY DEF Inv, Proceed, attempts
  <1>2. Attempt' = Attempt /\ Pushed' = Pushed
    BY <1>1 DEF Attempt, Pushed
  <1>3. \/ run' = run \cup {"getVitals"} /\ "vitals" \in modules
        \/ run' = run
    <2>1. import[i].on \in {0} \cup Attempt
      BY <1>1 DEF TypeOK
    <2>2. QED
      BY <1>1, <2>1 DEF Proceed, AttemptsInHand
  <1>4. /\ import' \in [Import -> [state : {"none", "waiting", "ok", "failed"},
                                   on : {0} \cup Attempt]]
        /\ \A j \in Import : Pending(j)' => Pending(j) /\ import'[j].on = import[j].on
    <2>1. PICK e \in {"ok", "failed"} : import' = [import EXCEPT ![i].state = e]
      BY DEF Proceed
    <2>2. /\ import' \in [Import -> [state : {"none", "waiting", "ok", "failed"},
                                     on : {0} \cup Attempt]]
          /\ import'[i].state = e
          /\ \A j \in Import : j # i => import'[j] = import[j]
      BY <1>1, <2>1 DEF TypeOK
    <2>3. QED
      BY <2>2 DEF Pending
  <1>5. TypeOK'
    BY <1>1, <1>2, <1>3, <1>4 DEF TypeOK, Module
  <1>6. RunsOnlyWhenLoaded'
    BY <1>1, <1>3 DEF RunsOnlyWhenLoaded, Needs
  <1>7. EntryInHand'
    BY <1>1, <1>3 DEF EntryInHand
  <1>8. AttemptsInHand'
    BY <1>1, <1>2, <1>4 DEF AttemptsInHand
  <1>9. PushedIsTaken' /\ InstalledIsLoaded' /\ PendingIsWatched' /\ FailureIsOwn'
    BY <1>1, <1>2 DEF Inv, PushedIsTaken, InstalledIsLoaded, PendingIsWatched,
                      FailureIsOwn
  <1>10. QED
    BY <1>5, <1>6, <1>7, <1>8, <1>9 DEF Inv

LEMMA InitKeeps == Init => Inv
  <1> SUFFICES ASSUME Init PROVE Inv
    OBVIOUS
  <1>1. Attempt = {} /\ Pushed = {} /\ NULL # 0
    BY LoaderAssumption DEF Init, Attempt, Pushed
  <1>2. TypeOK
    <2>1. jsonpArray \in Seq(Chunk) /\ promise \in Seq({"pending", "resolved", "rejected"})
      BY DEF Init
    <2>2. script \in [Static -> {"coming", "executed", "failed"}]
      BY DEF Init
    <2>3. /\ installed \in [Chunk -> {0, NULL} \cup Attempt] /\ modules \subseteq Chunk
          /\ loading \subseteq Attempt /\ watched \subseteq Attempt
      BY DEF Init, Chunk
    <2>4. import \in [Import -> [state : {"none", "waiting", "ok", "failed"},
                                 on : {0} \cup Attempt]]
      BY DEF Init
    <2>5. QED
      BY <2>1, <2>2, <2>3, <2>4 DEF Init, TypeOK
  <1>3. PushedIsTaken /\ InstalledIsLoaded /\ EntryInHand
    BY <1>1 DEF Init, PushedIsTaken, InstalledIsLoaded, EntryInHand, Chunk
  <1>4. AttemptsInHand /\ PendingIsWatched /\ FailureIsOwn /\ RunsOnlyWhenLoaded
    BY <1>1 DEF Init, AttemptsInHand, PendingIsWatched, FailureIsOwn,
                RunsOnlyWhenLoaded, Pending
  <1>5. QED
    BY <1>2, <1>3, <1>4 DEF Inv

LEMMA InvStep == Inv /\ [Next]_vars => Inv'
  <1>1. ASSUME Inv, UNCHANGED vars PROVE Inv'
    <2>1. UNCHANGED <<script, jsonpArray, started, installed, modules, deferred,
                      run, promise, loading, watched, import>>
      BY <1>1 DEF vars, attempts
    <2>2. Attempt' = Attempt /\ Pushed' = Pushed
      BY <2>1 DEF Attempt, Pushed
    <2>3. TypeOK' /\ PushedIsTaken'
      BY <1>1, <2>1, <2>2 DEF Inv, TypeOK, PushedIsTaken
    <2>4. /\ InstalledIsLoaded' /\ EntryInHand' /\ PendingIsWatched'
          /\ FailureIsOwn' /\ RunsOnlyWhenLoaded'
      BY <1>1, <2>1, <2>2 DEF Inv, InstalledIsLoaded, EntryInHand,
         PendingIsWatched, FailureIsOwn, RunsOnlyWhenLoaded
    <2>5. AttemptsInHand'
      BY <1>1, <2>1, <2>2 DEF Inv, AttemptsInHand, Pending
    <2>6. QED
      BY <2>3, <2>4, <2>5 DEF Inv
  <1>2. QED
    BY <1>1, StartRuntimeKeeps, ExecuteKeeps, ScriptMissingKeeps,
       RequireEnsureKeeps, ProceedKeeps, ChunkArrivesKeeps, ChunkMissingKeeps,
       TimeoutKeeps
    DEF Next

LEMMA Invariant == Spec => []Inv
  BY InitKeeps, InvStep, PTL DEF Spec

-----------------------------------------------------------------------------
(* The properties.                                                           *)

\* Every variable of the loader keeps its type, for any number of attempts.
THEOREM TypeCorrect == Spec => []TypeOK
  BY Invariant, PTL DEF Inv

\* No module is run before the chunks it needs are there, in whatever order
\* the scripts come, also after the chunk was given up.
THEOREM RunsAreLoaded == Spec => []RunsOnlyWhenLoaded
  BY Invariant, PTL DEF Inv

\* The entry module is run once the scripts of the page and the runtime have
\* been, in any order.
THEOREM EntryRuns == Spec => []EntryNotForgotten
  <1>1. Inv => EntryNotForgotten
    BY DEF Inv, EntryNotForgotten, PushedIsTaken, EntryInHand, Static
  <1>2. QED
    BY <1>1, Invariant, PTL

\* A promise that is not settled can still be settled, by the script and the
\* timer of the attempt in installedChunks.
THEOREM PendingStaysWatched == Spec => []PendingIsWatched
  BY Invariant, PTL DEF Inv

\* Handlers left over from an attempt that was given up fail no later one.
THEOREM FailuresAreOwn == Spec => []FailureIsOwn
  BY Invariant, PTL DEF Inv

-----------------------------------------------------------------------------
(* The loader implements ModuleLoading.                                      *)

\* The map of the refinement, in both states of a step.
Answer == [i \in Import |-> IF Pending(i) THEN "none" ELSE import[i].state]

LEMMA CallbackLoads ==
    ASSUME Inv, Inv', modules \subseteq modules', run \subseteq run',
           UNCHANGED import
    PROVE  Loading!Next
  <1>1. Loading!Load(modules', run' \ run)
    <2>1. \A m \in run' \ run : Needs[m] \subseteq modules'
      BY DEF Inv, RunsOnlyWhenLoaded
    <2>2. modules' = modules \cup modules' /\ run' = run \cup (run' \ run)
      OBVIOUS
    <2>3. Answer' = Answer
      BY DEF Answer, Pending
    <2>4. QED
      BY <2>1, <2>2, <2>3 DEF Loading!Load, Answer
  <1>2. modules' \in SUBSET Chunk /\ run' \ run \in SUBSET Module
    BY DEF Inv, TypeOK
  <1>3. QED
    BY <1>1, <1>2 DEF Loading!Next

LEMMA ProceedAnswers ==
    ASSUME Inv, NEW i \in Import, Proceed(i)
    PROVE  Loading!Next
  <1>1. /\ TypeOK /\ AttemptsInHand /\ Pending(i) /\ UNCHANGED modules
        /\ import[i].on \in {0} \cup Attempt
    BY DEF Inv, Proceed, TypeOK
  <1>2. ASSUME NEW e \in {"ok", "failed"}, import' = [import EXCEPT ![i].state = e]
        PROVE  Answer' = [Answer EXCEPT ![i] = e] /\ Answer[i] = "none"
    <2>1. /\ import'[i].state = e
          /\ \A j \in Import : j # i => import'[j] = import[j]
      BY <1>1, <1>2 DEF TypeOK
    <2>2. Answer' = [j \in Import |-> IF import'[j].state = "waiting" THEN "none"
                                      ELSE import'[j].state]
      BY DEF Answer, Pending
    <2>3. QED
      BY <1>1, <2>1, <2>2 DEF Answer, Pending
  <1>3. CASE /\ run' = run \cup {"getVitals"}
             /\ import' = [import EXCEPT ![i].state = "ok"]
             /\ import[i].on = 0 \/ promise[import[i].on] = "resolved"
    <2>1. Needs["getVitals"] \subseteq modules
      BY <1>1, <1>3 DEF AttemptsInHand, Needs
    <2>2. Loading!Succeed(i)
      BY <1>1, <1>2, <1>3, <2>1 DEF Loading!Succeed, Answer
    <2>3. QED
      BY <2>2 DEF Loading!Next
  <1>4. CASE run' = run /\ import' = [import EXCEPT ![i].state = "failed"]
    <2>1. Loading!Fail(i)
      BY <1>1, <1>2, <1>4 DEF Loading!Fail, Answer
    <2>2. QED
      BY <2>1 DEF Loading!Next
  <1>5. QED
    BY <1>3, <1>4 DEF Proceed

LEMMA StepLoads == Inv /\ Inv' /\ [Next]_vars => [Loading!Next]_(Loading!vars)
  <1> SUFFICES ASSUME Inv, Inv', [Next]_vars
               PROVE  [Loading!Next]_(Loading!vars)
    OBVIOUS
  <1>1. ASSUME UNCHANGED <<modules, run>>, Answer' = Answer
        PROVE  UNCHANGED Loading!vars
    BY <1>1 DEF Loading!vars, Answer
  <1>2. ASSUME UNCHANGED import PROVE Answer' = Answer
    BY <1>2 DEF Answer, Pending
  <1>3. CASE UNCHANGED vars
    BY <1>1, <1>2, <1>3 DEF vars
  <1>4. CASE StartRuntime
    <2>1. modules \subseteq modules' /\ run \subseteq run' /\ UNCHANGED import
      BY <1>4 DEF StartRuntime, Receive
    <2>2. QED
      BY <2>1, CallbackLoads
  <1>5. ASSUME NEW c \in Static, Execute(c) PROVE [Loading!Next]_(Loading!vars)
    <2>1. modules \subseteq modules' /\ run \subseteq run' /\ UNCHANGED import
      BY <1>5 DEF Execute, Receive
    <2>2. QED
      BY <2>1, CallbackLoads
  <1>6. ASSUME NEW c \in Static, ScriptMissing(c) PROVE UNCHANGED Loading!vars
    BY <1>1, <1>2, <1>6 DEF ScriptMissing
  <1>7. ASSUME NEW i \in Import, RequireEnsure(i) PROVE UNCHANGED Loading!vars
    <2>1. /\ import[i].state = "none" /\ import'[i].state = "waiting"
          /\ \A j \in Import : j # i => import'[j] = import[j]
      BY <1>7 DEF Inv, TypeOK, RequireEnsure
    <2>2. Answer' = [j \in Import |-> IF import'[j].state = "waiting" THEN "none"
                                      ELSE import'[j].state]
      BY DEF Answer, Pending
    <2>3. Answer' = Answer
      BY <2>1, <2>2 DEF Answer, Pending
    <2>4. QED
      BY <1>1, <1>7, <2>3 DEF RequireEnsure
  <1>8. ASSUME NEW i \in Import, Proceed(i) PROVE [Loading!Next]_(Loading!vars)
    BY <1>8, ProceedAnswers
  <1>9. ASSUME NEW p \in Attempt, ChunkArrives(p) PROVE [Loading!Next]_(Loading!vars)
    <2>1. modules \subseteq modules' /\ run \subseteq run' /\ UNCHANGED import
      BY <1>9 DEF ChunkArrives, Receive
    <2>2. QED
      BY <2>1, CallbackLoads
  <1>10. ASSUME NEW p \in Attempt, ChunkMissing(p) \/ Timeout(p)
         PROVE  UNCHANGED Loading!vars
    BY <1>1, <1>2, <1>10 DEF ChunkMissing, Timeout
  <1>11. QED
    BY <1>3, <1>4, <1>5, <1>6, <1>7, <1>8, <1>9, <1>10 DEF Next

\* The runtime does what the pages rely on: a module runs once, and an import
\* succeeds only when its chunk is there.
THEOREM LoaderImplementsLoading == Spec => ImplementsLoading
  <1>1. Init => Loading!Init
    BY DEF Init, Loading!Init, Pending, Chunk
  <1>2. QED
    BY <1>1, StepLoads, Invariant, PTL DEF Spec, ImplementsLoading, Loading!Spec
=============================================================================
