# A verification project for the Tuchuang image host

Tuchuang is an image host. Users register, upload files, share them, save what
others share, and see a ranking of downloads. One C++ server (`src/main.cpp`)
answers HTTP requests that nginx passes on. It keeps its tables in MySQL, its
ranking and tokens in Redis, and the files in FastDFS. This directory holds
TLA+ models of the parts where order, failure and concurrency matter, the TLC
configurations that check them on small instances, and proofs that TLAPS
checks for every value of the constants.

## 1. Inventory

| Component | Source | State | Operations | Model |
|---|---|---|---|---|
| File API | `tc-src/api/Api{Upload,Md5,Dealfile,Dealsharefile,Sharefiles}.cpp` | the MySQL tables `file_info`, `user_file_list`, `share_file_list`, `user_file_count`; the Redis sorted set `FILE_PUBLIC_ZSET` and hash `FILE_NAME_HASH`; the files in FastDFS | upload, instant upload, share, delete, cancel, save, two download counters, ranking | `FileService` |
| Connection pools | `mysql/DBPool.cpp`, `redis/CachePool.cpp` | free list, count, abort flag, mutex and condition variable | get (wait, timeout, connect), release, destroy | `ConnPool`, `ExclusivePool` |
| Thread pool | `tc-src/base/ThreadPool.{h,cpp}` | task queue, terminate flag, threads, counter of running tasks, mutex and condition variable | init, start, exec, waitForAllDone, stop, the worker loop | `ThreadPool` |
| Response codes, SQL helpers | `tc-src/base/Common.{h,cpp}` | none | `GetResultOneCount`, `GetResultOneStatus`, `CheckwhetherHaveRecord`, `RandomString` | inside `FileService` and `Pictures` |
| Picture sharing | `tc-src/api/ApiSharepicture.cpp` | `share_picture_list`, a count per user in `user_file_count`, the state of `rand()` | share, browse, cancel, list | `Pictures` |
| Own files | `tc-src/api/ApiMyfiles.cpp` | reads the tables above; makes the row of the user's count | count, list | `FileService` |
| Registration, login | `tc-src/api/Api{Register,Login}.cpp` | `user_info`, one Redis token per user | register, login, verify token | not modelled |
| HTTP connections | `HttpConn.cpp`, `tc-src/base/HttpParserWrapper.cpp`, `UtilPdu.cpp` | per connection: state, buffers, busy flag, timer | read, write, close, timeout | `Reactor` |
| Event loop, sockets | `tc-src/base/{EventDispatch,BaseSocket,netlib}.cpp` | the epoll set, timer list, socket map and reference counts | add, remove, dispatch | `Reactor` |
| Asynchronous log | `log/{AsyncLogging,LogFile,CountDownLatch}.cc` | two front buffers, queue of full ones, running flag | append, back thread, stop, roll | `AsyncLog` (not the rolling) |
| Log formatting, utilities | rest of `log/` | none that matters | formatting | not modelled |
| Start-up, configuration | `main.cpp`, `ConfigFileReader.cpp`, `util.cpp` | set once | initialisation | not modelled |
| Vendored code | hiredis, jsoncpp, http_parser, nginx modules | | | external |
| Page of the own files | `tc-front/static/js/main...js` | the rows shown, the rows ticked, the requests under way | mount, refresh, share, share the selected row, cancel, delete, batch delete, download, upload | `FilePages` |
| Chunk loader | `tc-front/static/js/runtime-main...js` | installed chunks, their promises, deferred modules | push, `__webpack_require__.e`, script and timer callbacks | `ChunkLoader`, `ModuleLoading` |
| Other pages | `tc-front` | one form each | one request each | not modelled |

How they interact. nginx stores the body of an upload in a temporary file and
passes the request to the server. The event loop reads a request, `HttpConn`
parses it and calls the handler of its URL **on the thread of the loop**. The
handler borrows one connection from each pool (`AutoRelDBCon`,
`AutoRelCacheCon` give them back on every path), runs its statements and
commands one after the other, and the answer is written to the socket. The
thread pool is in the source and is not used by the server. `AsyncLogging` has
a back thread of its own; `main.cpp` starts it but never passes it to
`Logger::setOutput`, so that the components' lines go to the standard output. The front
end is a single page that sends each click as one or more requests, each on a
connection of its own, and goes on in the callbacks of their promises.

What is hard about it:

* **No transaction.** A handler is a row of autocommitted statements on four
  tables, mixed with Redis commands and FastDFS calls. Each may fail, and the
  process may die between any two. There is no recovery at start-up: what a
  broken handler leaves behind, later requests build upon.
* **One fact in several places.** "Shared" is a column, a row, a number, a
  member of a sorted set and a field of a hash. "Owned" is a row, a count per
  user and a count per digest. Redis may lose its data at any time.
* **Decisions on a cache.** Whether a file is shared is asked of Redis before
  MySQL, through a command (`ZLEXCOUNT`) whose answer is undefined on a set
  with different scores.
* **Repeated requests.** Clients send a request again whose answer they lost.
* **A client that must be careful.** No handler asks whether the row that a delete or
  a share is about exists; that falls to the page, whose requests are answered in any
  order, refused, or lost before or after they were carried out; and of some answers the
  page does not read the code.
* **Callbacks that delete their caller.** A connection deletes itself when its
  answer is sent, while `OnWrite`, the socket and the loop are still on the stack;
  descriptors are reused, events are edge-triggered and come in batches.
* **Scripts in any order.** The four scripts of the front end may come in any order,
  late or never.
* **Two threads and four buffers.** The log's front and back swap buffers, drop them
  when too many wait, and stop without the mutex.
* **Strings that are taken for unique.** The link of a picture is a random string of
  a generator that starts over with the process.
* **Waiting under one mutex.** The pools and the thread pool have one condition
  variable each. Threads barge in between a notification and the one it was for,
  waits time out or end for no reason, pools are destroyed while threads wait,
  and the thread pool's variable serves two kinds of waiters.

What makes each component correct:

* File API: a file that someone has is stored; the counts that decide on its
  removal are never too low; only owners share; a file is shared once; with no
  fault every derived number is exact; the ranking recovers from a loss of Redis.
* Pools: a connection has one user; none leaks; the limit holds; no notification
  is lost; a destroyed pool gives nothing out and lets everybody go.
* Event loop and connections: a connection, its socket and its descriptor live
  and end together; an event reaches the connection it was reported for; no edge
  that somebody waits for is lost; every connection ends.
* Thread pool: a task is run once, in order; no wakeup is lost; stop returns and
  leaves nothing running.
* Pictures: the row of a link that was given is kept until the link is cancelled (that
  the link then shows this row is not so after a restart: section 4); counts
  are off by no more than what failed; nothing is hidden from its owner.
* Page: without an error it lists no file that is not there, and shows the files as they
  are unless it ignored an answer since its last refresh; it never asks for what would
  damage the server's data; it settles.
* Loader: a module runs once and after the chunks it needs; the entry runs; every
  import is answered.
* Log: a line is written once, in order, or dropped as a whole buffer; it gets out;
  the assertions of the back thread hold; stop returns.

`PROJECT.json` lists the hazards line by line with the properties aimed at them.

## 2. Modules

    FileService ---- MCFileService              (TLC: fs_crash, fs_exact, fs_shared)
       |   \------- FileServiceProofs          (TLAPS)
       \-- FilePages ---- MCFilePages           (TLC: pg_files, pv_instant_upload)
                  \---- FilePagesProofs        (TLAPS, with FileServiceProofs)
    Pictures ---- MCPictures                    (TLC: pc_pictures, pc_links)
           \---- PicturesProofs                (TLAPS)
    ExclusivePool
       \-- ConnPool ---- MCConnPool             (TLC: cp_pool)
                  \---- ConnPoolProofs         (TLAPS)
    ThreadPool ---- MCThreadPool                (TLC: tp_pool)
             \---- ThreadPoolProofs            (TLAPS)
    Reactor                                     (TLC: rx_conns)
          \---- ReactorProofs                  (TLAPS)
    AsyncLog                                    (TLC: al_log)
          \---- AsyncLogProofs                 (TLAPS)
    ModuleLoading
       \-- ChunkLoader                          (TLC: ck_chunks)
                  \---- ChunkLoaderProofs      (TLAPS)

`FilePages` contains the whole of `FileService` (`INSTANCE`), and refines it: a
page is a client that stays within what `FileService` allows its clients.
An operator whose name ends in `Mutant` is a plausible error in the definition it is
named for; no action uses it. TLC finds each checked property violated when the
definition is replaced by its mutant.

### FileService

The server handles one request at a time, so `req` is the one request in
progress: the operation, the user, the file, the place in the handler (`pc`) and
the handler's locals. A **step is one statement or command**, together with the
reads it depends on; no other request can come between a read and the write after
it, but a fault can come between any two steps. The names of the actions follow
the handlers: `DeleteShareRows`, `DeleteShareCount`, ... are the statements of
`handleDeleteFile` in their order.

* `fileInfo` maps the id that FastDFS gave to a row of `file_info` (the ids stand
  for the insertion order: a SELECT by digest returns the oldest row first).
  `own` and `shares` map a user and a file to the rows of `user_file_list` and
  `share_file_list`, sequences because neither table has a unique key.
* A file id stands for digest + file name, and is a number because `ZLEXCOUNT`
  depends on the lexical order of the members. `ZLexCount` is what Redis computes
  on a small sorted set: it takes the set to be in lexical order although it is
  in score order. So it may answer 0 for a member.
* Faults, each of them counted by `faults`: `Crash` (the process dies, the tables
  stay), `SqlFails`, `QueryFails`, `RedisFails`, `DfsFails` (a call fails and
  the handler does what its error path does, which often is to go on), and
  `RedisLoss` (Redis comes back empty between two requests). A failed SELECT
  other than the one of `CheckwhetherHaveRecord` dereferences a null result set
  (`Common.cpp:218`), and so does the reply of a Zset command on a connection
  that Redis has dropped (`CachePool.cpp:721`): both are `Crash`.
* `Offered` is what the pages of `tc-front` let a user ask for. `RepeatRequest`
  sends the request again that was answered last, whether still offered or not.
* `List` and `ListCount` are the requests of `ApiMyfiles.cpp`: the list is the join of
  the user's rows with `file_info` that the page shows, and the count makes the row
  of a user who has none.
* Left out: JSON and form parsing, tokens (a request is from who it says it is;
  `FilePages` adds the refused ones), the listings of shared files, paging, file
  names, types, URLs, times. They change no state.

### ConnPool and ExclusivePool

`CDBPool` and `CachePool` are written alike. Every method holds the mutex from
beginning to end, connecting included, so a **step is a critical section**. A
thread in `wait` has let the mutex go: it is asleep, is woken by a notification,
a timeout or nothing at all, and then waits for the mutex like everybody else.
`LocksTwice` says which destructors there are: `CDBPool`'s notifies and deletes in
one critical section, `CachePool`'s lets the mutex go between the two. `CloseFree` takes
lines 974 and 975 of `CachePool.cpp`, which follow the second section without the mutex,
to be part of it: by then the destructor goes on to the members themselves, and a thread
that still uses them has outlived the pool. The memory of
the pool is taken to outlive the threads inside it, which the code does not
enforce. `ExclusivePool` is what a user relies on: a connection that exists is
free or has one user. `Abstract == INSTANCE ExclusivePool` maps `conn` to itself.

### ThreadPool

Workers run `run()`, clients call `exec`, `waitForAllDone` and, the owner only,
`init`, `start` and `stop`. A **step is a critical section, or one access to
`atomic_`** between two of them: between `get()` and the increment of the counter
a worker has a task that nobody can see. `NotifyOne` may choose a worker or a
client: they wait on the same condition variable. Calling `stop` from two threads
at once (both would join the same threads) is left out.

### Reactor

The server is one thread, and peers and the kernel act at any moment. A **step of
the server is one callback of one event**; within a callback a peer can do nothing
that it could not have done before or after it. `loop`, `batch` and `cur` are where
`StartDispatch` is: waiting, with a batch of events of which one record is in hand,
inside `_AcceptNewSocket`, or at the timers. A record's events are seen in the
order read, write, hang-up, on a socket that may have been closed by the first.

* The kernel: `backlog`, `open` (the connection of each descriptor), `sock` (bytes to
  read, FIN, reset, a full send buffer), `edge` (epoll's ready list). Changing a
  socket puts its descriptor on the ready list, `EpollWait` takes it off.
* The server: `socketMap` is `g_socket_map`, `refs` the reference counts of the
  `CBaseSocket`s, `connMap` is `g_http_conn_map`, `conn` the members of each
  `CHttpConn`. A connection's number is its `m_conn_handle`; they are never reused.
* `CloseAll` is `CHttpConn::Close` with all it calls. The timer closes what is idle in
  one step, since nothing else can happen between two of its calls.
* A request is a number of bytes; `Send` is what each handler ends with. What a
  handler does in between is `FileService`.
* `OnWrite` assigns `m_busy` to a connection that `OnWriteComlete` has just deleted.
  Nothing can reuse that memory before, so the assignment is taken to be lost.
* `EPOLLRDHUP` is never asked for and so never reported; the branch is left out.
  The branches for a descriptor without a socket (`netlib_send` and the like) cannot
  be reached from a connection in the map (`MapsAgree`).

### FilePages

`rows` is the `data` of `MyFiles`, `chosen` its `selectedRows`; `error` says that an
error was shown and no refresh succeeded since. `net` holds the requests of a page
that are not settled, each `sent`, `taken` by the server, or `answered`; `serving` is
the one in the server's hands. Requests are taken, and answers settled, in any order.
`silent` is history: the page was told something since its last refresh that it ignored
(`Ignored`).

* A click is an action (`OnShareFile`, `DeleteFiles`, ...), the callbacks of the
  promises are `Settle`, with `FollowUp` for the requests they send. `Drop` is
  what happens when `httpPost` catches an error: it answers `undefined`, and of the
  callbacks only that of `Promise.all` goes on without reading the code.
* The field `by` of a request says whose callback its answer meets, since they do not
  read it alike (`TableAfter`, `Minded`, `Ignored`). `Mount` sends the requests of the two
  effects of `MyFiles`, for the total and for the list: the answer to that list always
  replaces the table, with nothing when its total is 0 (`none`; the total is the user's row
  of `user_file_count`, read before the files) or its code is 1, and never shows an error.
  A refresh, by its button or in a callback, keeps the table and shows an error on code 1.
  The button that shares the selected row (`ShareFiles`) refreshes after code 0 and does
  nothing after another.
* `Lose` is a connection that fails before, during or after the request is carried
  out; `Refuse` is a token that is no longer valid; `CallFails` and `ServerDies` are
  the faults of `FileService`.
* The user is part of the model: one who waits for the answers, heeds an error by
  refreshing, and ticks rows of the table that is shown (`Ready`). Without that the
  refinement fails: see section 4.
* A step of a page reads and writes nothing of the server, so it is placed between
  two requests; this keeps the state space small and leaves every order of requests.
* Left out: a request that reaches the server after the page has given it up; the pages
  of a table of more than ten files, whose callback reads no code either, and the orders
  by downloads; the button that shares a picture.

### ChunkLoader and ModuleLoading

`installed`, `modules`, `deferred` and `jsonpArray` are the runtime's
`installedChunks`, `modules`, `deferredModules` and `webpackJsonpfront`; `promise`
and `watched` are, for each attempt to load a chunk, its promise and whether its
script's handlers and timer are still there. The scripts of the page execute in any
order, before or after the runtime. `ModuleLoading` is what the page's code relies
on; `ChunkLoader` implements it. `PerfEntry` says whether the caller of
`reportWebVitals` gave a callback. The shipped `index.js` gives none, so that
the chunk of the vitals is never asked for by this page; the runtime is in the
repository for any chunk, and is checked with `PerfEntry` TRUE.

### AsyncLog

`append` is one step, and what the back thread does under the mutex is one; without it
the dropping, the writing of each buffer and the making of new spare ones are steps.
`stop()` uses no mutex, so its store, its notification and its join are steps. A line
is its number. Buffers hold `Room` lines and the queue is cut when it has more than
`MaxQueued` (25 in the code) buffers. The file is the sequence of lines written.

### Pictures

As in `FileService`, a step is a statement with its reads, and one request is in
progress. `drawn` counts the random strings of this process: nothing calls `srand`,
so the k-th string is the same in every process, and a string is its number. Logins
draw strings as well (`LogIn`), files come and go (`FileChanges`), and a restart
sets `drawn` to 0. `given` and `views` are history: what a client was answered.

### Bounds

`MaxFaults`, `MaxUploads`, `MaxPv` and `MaxDrift` appear in `Fault` and
`WithinBounds` only, and no such bound is in the code. `MaxUploads` 2 with two
files lets two users hold each other's file, and a file be uploaded again after
it was removed. `MaxPv` lets a file gain another score than another, which is
when `ZLEXCOUNT` errs. `MaxDrift` lets deletes take the share counter below 0
(by 1 in `fs_exact`; elsewhere a delete needs a counter that is unset or above 0,
and the properties do not depend on its value).
`MaxFaults` 2 allows a fault during the handling of what another left behind.
For the pools two connections and five threads let three sleep, be woken and barge
in at once; a third connection object is there to be made wrongly. `MaxConns` bounds
the peers of `Reactor`: with one descriptor each connection but the first reuses it,
in a batch with an event of another, and `accept` can fail for want of one. Requests
of two units and a limit of three let a request be partial, followed by another byte,
or too long. Two workers and three clients are the least for a notification to reach
the wrong kind of waiter while both kinds are left.

`FilePages` bounds clicks (4) and requests lost or refused (1), and one statement may
fail: an upload takes one click, ticking none, a batch deletion one, and the refresh
after an error one, so that a batch of two can go wrong half-way and the page be refreshed
after it. Opening the page again is a click too, and the page is being mounted in the
initial state: a first list that is refused, or whose total is 0 after a statement failed,
and a share of the selected row that fails half-way are reached with a click to spare.
Of the three files one is too big to be uploaded. `ChunkLoader` has three imports and three
attempts: a late first script meets a second attempt while a third import waits.
`AsyncLog` appends twelve lines with two to a buffer and at most three queued: the
queue overflows, and both spare buffers are used up. `Pictures` has two strings, two
rows and two faults, one of which may be a restart that repeats a string; symmetric
in users and pictures. The violation run `pc_links` has three rows.

## 3. Runs

| Run | Checks | Shows |
|---|---|---|
| `fs_crash` | `ShareRowUnique`, `OwnedFileStored`, `RefCountCoversOwners`, `UserCountNeverAbove` | Upload, save, share, cancel, delete and ranking with up to two faults of five kinds. Whatever statement is the last to be executed, no file that has an owner is removed and the counts err on the safe side: they are raised before the row or lowered after it. |
| `fs_exact` | `CountsExact`, `SharedFlagAgrees`, `RankingNamed`, `RankingListsShares`, `ShareCountNeverAbove` | Every operation but the instant upload, the list that makes a missing count row included: without failing statements the counters, the flag and the names agree with the rows, and a ranking after a loss of Redis lists as many files as are shared. |
| `fs_shared` | `SharedFileOwned` | With instant uploads, every kind of fault and repeated requests, who shares a file has it. |
| `cp_pool` | `PoolConserved`, `NoLostWakeup`, `ImplementsExclusivePool`, `FreeConnectionTaken`, `ClosedPoolEmpties` | Every interleaving of five threads and either destructor: safety, the refinement, and progress. |
| `tp_pool` | `TaskOnce`, `WaiterWillBeTold`, `QueuedTaskTaken`, `StopReturns` | Every interleaving of two workers and three clients, restarts included; progress of the queue and of stop. |
| `rx_conns` | `MapsAgree`, `EventReachesItsSocket`, `EdgesPending`, `AnswerPending`, `ConnectionEnds` | Three peers on a descriptor that is reused, every way to end a connection while a batch is dispatched: nothing leaks, is closed twice or gets another's event; what is to be done keeps its edge; every connection ends, by the timeout if by nothing else. |
| `pg_files` | `TypeOK`, `TableTrue`, `ImplementsFileService`, `PageSettles` | A page and the file API composed, with lost, refused and half-done requests: a page without an error lists no file that is not there, and shows what the server has unless it ignored an answer, no file is deleted twice and none is shared by who does not have it, and the page gets through. |
| `ck_chunks` | `EntryNotForgotten`, `ImportAnswered`, `ImplementsLoading` | Scripts in any order, late or never, attempts that fail and are repeated. |
| `al_log` | `TypeOK`, `AssertionsHold`, `LinesKeptInOrder`, `LineGetsOut`, `StopReturns` | Every interleaving of `append`, the back thread and stop: no buffer is lost, doubled or reordered, and the assertions of `threadFunc` hold. |
| `pc_pictures` | `GivenLinkKept`, `TotalOffByFaults`, `NothingHidden`, `ViewsCounted` | Pictures are shared, cancelled, browsed and listed while statements fail, files vanish and the process restarts: the row of a link that was given is kept until its owner cancels it, counts drift by no more than what failed, a list hides no picture, and views are counted. |
| `pv_instant_upload` | `OwnedFileKept`, violated | Two pages and no fault, and a ranking that was opened before (a delete always goes through the share branch, because `GetResultOneStatus` tells only that the row is there, and that branch fails without the share counter's row, which the ranking, the count of shared files or a first share makes): a file that a user got by an instant upload is removed when the first owner deletes theirs. |
| `pc_links` | `LinkIsOnePicture`, violated | After a restart a link that leads to a picture is given to another one. |

The type invariants of the other modules, and `ExclusiveUse`, `NothingAfterAbort`,
`ActiveCounts`, `QueuedTaskSeen`, `StopIsQuiet`, `QueueIsFifo`, `RefsExact`,
`RunsOnlyWhenLoaded`, `PendingIsWatched` and `FailureIsOwn`, are proved for every
instance (section 5) and in no run.

What holds only with a condition, and why the runs are cut as they are:
`OwnedFileStored` and `RefCountCoversOwners` fail as soon as instant uploads are
among the operations, since the count is then too low (`pv_instant_upload`), and when
a delete is repeated, since the handler never asks whether its DELETE found a row.
`ShareRowUnique` fails when the SELECT of `handleShareFile` fails, which the code
takes for "no row". `RankingNamed` fails after a crash between the commands that
write the sorted set and the hash. `ViewsCounted` and `TotalOffByFaults` are about
the life of one process: after a restart two rows may answer to one link.

Fairness. `FairSpec` of `ConnPool` has weak fairness of what a thread that is in
the pool, or holds a connection, does next: the scheduler runs it, `AutoRelDBCon`
returns the connection. Nothing is assumed of calls or of the destructor, and no
more is promised than that *some* waiter gets a free connection: the code does not
keep one waiter from being overtaken for ever. `FairSpec` of `ThreadPool` has
weak fairness of each worker, of each client that has been woken, and of the end
of stop: threads are scheduled and tasks return. `FairSpec` of `Reactor` has weak
fairness of the loop, which never stops, and of the passing of time; peers may do
nothing for ever. `FairSpec` of `FilePages` says that the server goes on with its
request and takes the next, and that the browser runs callbacks; nothing is assumed
of clicks or of the network. `FairSpec` of `ChunkLoader` has the browser start the
runtime, fire timers and run reactions, and assumes nothing of the scripts' arrival.
`FairSpec` of `AsyncLog` has weak fairness of the back thread, whose timed wait ends,
and of what its owner has begun; the owner need not stop the log. `FileService` and
`Pictures` state no liveness: a handler is a sequence of statements without a wait.

Deadlock is checked except where a system may rightly come to rest: in `FilePages`
and `AsyncLog` when the bound on clicks or lines is used up, in `ChunkLoader` when
everything is loaded.

## 4. Findings and observations

Two disagreements have a run (section 3) and an entry in `PROJECT.json`:
`ApiMd5.cpp:166` reads the success of `ExecutePassQuery` as failure and writes the
reference count back, and `Common.cpp:187` draws from a generator nobody seeds.

Seen while modelling, in the models, without a run of their own. In the server:

* An instant upload that succeeds answers code 1 (the same test), though
  `ApiMd5.cpp:191` announces code 0.
* `handlePvFile` of `ApiDealfile.cpp:463` reads the column "count" of a SELECT on
  `pv`: the download count of one's own file becomes 1 and stays 1
  (`CountOwnDownload`); the schema says it grows by one each time.
* `ApiDealsharefile.cpp:382` maps positive results to code 0: saving a file one has
  answers success, not the code 5 that line 328 announces (`DealshareReply`).
  In the same way `CancelHash` takes the answer 1 of HDEL for an error.
* `SharePvZset` answers failure after a successful ZINCRBY when the file is ranked.
* `handleDeleteFile` does not check that its DELETE on `user_file_list` found a
  row: a repeated delete lowers the reference count again, and can remove a file
  that another user has.
* `ApiDealfile.cpp:277` enters the branch of shared files for every owned file, so
  that deleting a file that is not shared lowers the share counter.
* `CachePool.cpp:721` asks `ZLEXCOUNT`, which can miss a member: the file is then
  deleted and stays in the ranking. Since the ranking compares only numbers, it can then
  list the deleted file and miss a shared one, with the right counter (three files; so
  `RankingListsShares` states the numbers).
* When `fdfs_upload_file` or `fdfs_file_info` cannot be executed, the forked child does
  not exit (`ApiUpload.cpp:67`): it goes on as a second server. The models take such a
  call to fail (`DfsFails`).
* `CachePool.cpp:974` clears the free list after the mutex was let go.
* `ApiUpload.cpp` answers success whatever `storeFileinfo` returned.
* `ThreadPool.cpp:138` waits on a predicate that ignores `bTerminate_`: a wait without
  limit that is caught by stop with tasks queued never ends.
* `waitForAllDone` may return true while a worker still has a task: its predicate
  looks at the queue only.
* A thread pool that was stopped can be started again and runs nothing:
  `bTerminate_` is never reset.
* The duplicate check of `RelDBConn` never finds anything (`ExclusiveUse`).
* A handler runs again when bytes come after its request while the answer is
  partly sent: `m_in_buf` is never drained, though `HttpConn.cpp:191` says that a
  connection carries one request. The second answer is appended to the first.
* When `accept` fails for want of a descriptor the listening socket's edge is gone;
  who waits in the backlog is accepted only after another peer connects (`starved`).
* A FIN that arrives together with part of a request is not seen by `FIONREAD`; the
  connection stays until its timeout.
* `ExecuteDrop` is read with its meaning inverted where `file_info` is deleted, so
  the result does not matter (`DeleteInfo`).
* The limit of 2048 bytes is looked at when the buffer has been filled already
  (`HttpConn.cpp:198`), and an answer of more than 4096 bytes is cut with the
  Content-Length of the whole (`:351`).
* Cancelling a shared picture answers code 0 also when its UPDATE or DELETE failed,
  where the comment at `ApiSharepicture.cpp:364` announces code 1; it fails for ever for a user
  whose count row is missing. The answer of a failed list has no code: it is set in a
  second `root`. Pictures whose file was deleted can be neither listed nor cancelled,
  and still count.
* Registering answers code 0 when the statement cannot be prepared, and logging in
  answers code 0 when `SETEX` failed, with a token that is stored nowhere.
* Tokens are drawn from the same generator as the links, so that they, too, repeat
  after a restart.
* Lines appended after the back thread's last swap are not written when the log is
  stopped. `main.cpp`'s `InitLog` makes the log a local object, which is destroyed when
  `InitLog` returns.

In the front end:

* A page that is opened shows an empty table, and no error, when its first list is refused
  or fails, or when the total is 0 although files came along (the count is a row of its
  own, raised by another statement than the files). The button that shares the selected
  row says nothing when it fails, and does not refresh, though the flag may have been set
  before the statement that failed. The table is out of date until the next refresh, but it
  lists nothing that is not there (`TableTrue`).
* No handler of the server checks that a file to be shared is the user's, or that a
  file to be deleted is there, so the page has to. It does as long as its user waits
  for the answers and refreshes after an error (`ImplementsFileService`). It does not
  otherwise: answers to two refreshes may come in the wrong order and the older table
  stays, `selectedRows` keeps rows that a batch has deleted, and nothing keeps a button
  from being pressed twice.
* A file that is too large is sent for an instant upload all the same.
* The list of the shared files, when refreshed, reads `data.num`, which no answer has;
  the page number and the list may disagree after a deletion.
* Two first uploads of one digest at the same time give two rows of `file_info`.
* The login page goes on whenever there is a cookie named token, valid or not.
* The page of the shared pictures reads no code from its lists: one that fails shows an
  empty table, and a refresh announces success all the same.

## 5. Proofs

TLAPS checks the eight `...Proofs` modules for every set of users, files, pages, threads,
connections, descriptors, imports, every subset of operations and faults and any
bound, from the assumptions named in the modules (`ParametersAssumption`,
`PagesAssumption`, `PoolAssumption`, `ReactorAssumption`, `LogAssumption`, `PicturesAssumption`, ...):
constants have their types, NULL is none of the other values, there are finitely many
threads, and the log queues at least two buffers before it drops any.

**FileService.** `TypeCorrect` proves `TypeOK`. It is not inductive alone: that a
count or an id is a number depends on where the handler is. The invariant is
`Typed == TypeOK /\ Control`, where `Control` says which request is behind each
`pc` and which rows the earlier steps have made sure of.

`SharersOwn` proves `SharedFileOwned`. The strengthening `Sharing` adds what the
handlers know: during a share the user has the file; a share that may be repeated
is by a user who has the file; from the statement after `DeleteShareRows` until
`DeleteOwn` is done the user has no share row for it. Then `DeleteOwn`, the only
step that takes a row of `own`, takes nothing a share row needs, and `ShareInsert`,
the only one that adds a share row, adds one that is backed. The proof has one
lemma per handler, and one for each kind of fault.

What the other theorems say of the tables is true of some clients and some faults only,
and each theorem names them as its hypotheses. `CarefulClients` ask for no instant upload
(which leaves the count wrong, section 4), upload a digest only while `file_info` lacks
it, and send no request twice. Nothing else is assumed of the constants.

| Theorem | Property | Clients | Faults that do not strike |
|---|---|---|---|
| `OwnersKeepFile` | `OwnedFileStored` | careful | none: any may strike |
| `RefCountsCover` | `RefCountCoversOwners` | careful | none |
| `UserCountsBelow` | `UserCountNeverAbove` | careful | none |
| `CountsAreExact` | `CountsExact` | careful | crash, sql |
| `FlagsAgree` | `SharedFlagAgrees` | careful | crash, sql |
| `SharedOnce` | `ShareRowUnique` | any | query |
| `RankedNamed` | `RankingNamed` | any | crash, redis |
| `ShareCountBelow` | `ShareCountNeverAbove` | any | crash, sql, query |
| `RankingCounts` | `RankingListsShares` | any | redis, query |

`Counting` says how far each count is from the cardinality of the rows it stands for:
not below it, once what the handler at work is about to add, or has just taken, is set
apart (`RefGap`, `UserGap`). A statement that fails, or a crash, can only widen a gap.
`Even` says that the gaps are 0, for the exact counts. Both need `Placed`: an owner's
digest has a row of `file_info` whose file is stored, a user has at most one row for a
file, and what `Offered` or a check has seen still holds at the write that relies on it.
`SoleSharer` adds to `ShareRowUnique` that a handler on its way to insert a share row
has seen that there is none; `Named` and `CountsFew` say what the handlers still have to
name and to count; `FlagTrue` which flag is being turned. `Listing` follows a ranking
through its import: the members of the zset and the rows still to be imported are
together the files that are shared.

**FilePages.** The proofs cite those of `FileService`: `FilePagesProofs` contains an
instance of `FileServiceProofs`, and its first lemmas say that the two instances of
`FileService` are the same. What they need of the server is its last section: a request
changes no row of another user or file, and no row of `file_info` of another digest
(`OthersKept`), so that a list which no request in hand is about stays as it is
(`Aside`, `ListsKept`).

`TypeCorrect` proves `TypeOK`, with which request the server handles (`Busy`) and what
may be under way for a page at once (`Paired`: one request, the deletions of a batch, or
a list beside the count of a download or of a page that was opened). `TablesStayTrue` proves
`TableTrue` by `Shown`: the answer to a list holds the rows as they are, from when it is
taken until the page shows it, since nothing that could change them is under way with it
(`Answered`); and once no error is shown and only a count is left, the rows of a page are
true or it ignored an answer (`Up`). In the second case they still are backed by the list:
each is a file that is there, shared if it says so (`Backed`). The one request whose
failure is ignored, the share of the selected row, takes nothing from the list (`Gentle`,
`ShareRaises`). `PagesAskWhatIsOffered` proves the refinement, `ImplementsFileService`: what a page
asks for still is what its row showed when the server takes the request (`Due`), in the
middle of a batch too, whose deletions are of different files.

The last two have the hypothesis `Apart`: no two pages are of one user, or of users who
have a file of the same digest. One page meets it, as do any number of users with
files of their own. Without it the table is not true: nothing tells a page what another
one of its user did, and, since an instant upload leaves the reference count too low
(section 4), another user's deletion takes the file out of the list, with no fault at
all, as TLC shows.

**Pictures.** `GivenLinksKept` says that the row of a link is kept, not that the link shows
it: that is `LinkIsOnePicture`, which a restart violates. It and `ViewsAreCounted` need `Control`, which says
that the handler of a share holds the row it has inserted, and that a cancel in
progress is for a link its user no longer counts as given; `Distinct`, that the rows
inserted by one process have different strings; and that the view being answered is
in the table and not yet in the history.

`TotalsDriftByFaults` needs `Counting`: in the middle of a share or a cancel the handler
owes the count, or the rows, one (`Owed`, `Drift`); that a cancel of a link that is gone
moves neither is `Cancelling`; and a restart, which may fall between the two, is a fault.
`ListsHideNothing` adds that without a fault a count of 0 means no row.

**ConnPool.** `Exclusive`, `Conserved`, `NoWakeupLost` and `NothingHandedOut` prove
the four safety properties, `Refinement` that each step is a step of
`ExclusivePool` or a stutter. `NoLostWakeup` needs that the threads asleep and
awake are told apart by `pc`, and cardinalities: a release adds a connection and
turns a sleeper into a woken thread, or there was no sleeper.

**ThreadPool.** The invariant is the conjunction of the safety properties with
`Places`, which says what each place of a worker and of the owner goes with: they need
each other. That a waiter will be told needs the counter to be exact, which needs every
task to be in one place; that a queued task is seen needs every worker that is
asleep to have been so before the task came, or a notification to have gone to a
client because no worker slept. `StoppedIsQuiet` and `FirstInFirstOut` follow from it.

**Reactor.** `MapsAlwaysAgree`, `ReferencesAreExact` and `EventsReachTheirSockets`
rest on `Links` (a connection, its socket and its descriptor name each other),
`Given` (handles are given out in order and never again), `Walk` (what the place of
the loop says of the batch and of the event in hand) and `Pending`: each record of the
batch is for a descriptor of its own, which still is that of the connection it was
reported for, and not of the event in hand. `Pending` is inductive because a connection is
closed only by its own event, or by the timer after the batch, and new ones are made
with descriptors that have no record left.

`AnswersAddUp` needs that a socket without an open connection was never written to
(`Answered`). `NoEdgeIsLost` needs `Waking`: the descriptor of every open connection is
on the ready list, or the events that were reported for it and are still to be looked at,
in the batch or in hand, see to all that its socket needs (`Noticed`); and somebody in the
backlog has an edge, an event in the batch, or the loop that accepts. A callback takes an
event away only when it has read or written until there was no more, so that what comes
later makes a new edge.

**AsyncLog.** `NoAssertionFails` needs `NextUsed`: `nextBuffer_` is missing only when
`append` has used it since the last swap, and then it has queued a buffer. So when two
spare buffers were handed to the front there are two to make new ones of, after the
dropping as well. `LinesStayInOrder` says where the lines are, in one sequence: the
file, the buffers the loop has still to write, the queue and the current buffer. The
invariant is that sequence in order and with the lines 1 to n in it but the dropped
ones; a step of the back thread moves the boundaries between its parts, and lemmas
on concatenations (`SortedConcat`, `InOrderConcat`, `LinesConcat`) say that this
changes neither the order nor the lines.

**ChunkLoader.** The invariant says where each chunk's code is between its `push` and
its installation, which attempt holds the promise in `installedChunks`, and that the
entry has been run or is deferred exactly when its chunk has been taken. From it `RunsAreLoaded`, `EntryRuns`,
`PendingStaysWatched`, `FailuresAreOwn` and the refinement of `ModuleLoading`.

Model-checked only: the liveness properties (fairness and ENABLED are beyond the
prover). Every safety property that a passing run checks is stated by a theorem.

## 6. Not modelled

* Registration and login: each handler is one SELECT and one INSERT, or one SELECT
  and one `SETEX`, run to its end on the one thread, over a table with unique keys.
  No order of steps decides anything that a property could say.
* The rolling of the log file by size and by day, on the one back thread.
* The pages other than that of the own files: forms over one request each. Of the
  vendor chunk (React, antd, axios) only what it pushes.
* In the event loop outgoing connections, the loop list, `StopDispatch` and the select
  and kqueue variants, none of which the server uses.
* JSON, HTTP and form parsing, log formatting, time zones, configuration and start-up
  (no protocol state), and third-party code.
