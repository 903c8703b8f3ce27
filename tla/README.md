# Formal models of the PGW emulator

TLA+ models of the packet gateway emulator in `src/`: what its components do, what they
promise, what TLC checks on small instances and what TLAPS proves for all of them.

## 1. The system

One process (`app/server/main.cpp` -> `Server`) accepts session requests over UDP, management
commands over TCP and HTTP requests, keeps a table of subscriber sessions and writes a CDR
record for every change, to SQLite or, when that cannot be opened, to a text file. A second program
(`client`) sends one UDP request and waits for the answer.

| Component | State | Operations | Threads |
|---|---|---|---|
| `Server` | the components, in the order of their declaration; RUNNING/DRAINING/STOPPING/STOPPED, shutdown request, shutdown timer, time of the last cleanup | build, start, one iteration of the event loop (drain request, epoll batch, cleanup), destroy | main |
| `SessionManager` | sessions by IMSI, blacklist, drain flag, statistics | create, terminate, shut one down, expire, blacklist, drain, `gracefulShutdown` | main; `hasSession` also from the HTTP thread |
| `UdpServer` | socket, running flag | `processEvent` reads until the socket is empty | main |
| `TcpServer` | clients by descriptor, read buffers | accept, handle data, remove, stop | main |
| `TcpHandler`, `TcpSerializer` | none | a command to a response; bytes to messages | main |
| `HttpServer` | running flag, thread | start, stop, `/check_subscriber`, `/stop`, `/health` | main and its own |
| `DatabaseCdrWriter` | queue under a mutex, stop flag, shared connection and INSERT statement | `writeAction`, `flush`, `flushLoop`, `getRecentRecords`, destructor | main and flusher |
| `FileCdrWriter` | two streams on one file, index of line positions | `writeAction`, `getRecentRecords`, destructor | main |
| `Config`, `validation` | values of the JSON file | read, defaults, validate | at start |
| `Client` | one request, one answer | send, wait 500 ms, read | own process |
| `logger` | its logger, spdlog's default logger | `init`, `addFileSink`, `shutdown`, LOG_ macros | all |
| sockets | descriptors | wrappers of system calls | all |

Interactions: the loop calls `UdpServer`, `TcpServer` and `SessionManager`; the servers call
`SessionManager`; it calls the CDR writer; `TcpHandler` also reads the CDR writer (GET_CDR). The
HTTP thread and `TcpHandler` reach the loop through the atomic `m_shutdownRequest`. Two pairs of
threads share data: main and flusher (queue, SQLite connection, prepared statement), and main and
HTTP (session table).

What is hard, and what would make each component correct:

* **CDR writer** - two threads, one connection, failing statements, a stop signal outside the
  mutex, crashes. Correct: no record lost without a fault, none stored twice, order kept, the
  destructor ends.
* **SessionManager** - four ways to end a session, two to refuse one. Correct: counters add up,
  CDR records pair up, draining and blacklist hold.
* **Event loop** - requests, timer and cleanup in any order within a batch, timer expirations that
  pile up. Correct: it stops only when drained, it does stop, sessions do not outlive their
  timeout by more than the cleanup interval.
* **TCP server** - a byte stream in pieces, descriptor numbers that go from client to client and from
  thread to thread, clients dropped in the middle of their commands. Correct: every command is answered once, in
  order; table, epoll set and kernel agree; no client that epoll watches
  stays connected and unserved.
* **HTTP server and process** - a thread with handlers that outlives the loop, start-up steps that fail one by one, a
  logger that goes before those who log. Correct: nothing outlives what it refers to, the exit code says what happened,
  the way down ends.
* **UDP service and file backend** - lost and repeated datagrams, restarts on a file with a cut line, a full disk. Correct:
  a client told "created" has a record, which stands unless that life's file was not opened, ran full or was left by a crash; the file pairs
  CREATED and DELETED; GET_CDR shows the right lines.
* **Configuration** - conversions before validation. Correct: what the code uses was validated, and is what was written if its type can hold that.

The line of every hazard is in `PROJECT.json`.

## 2. Modules

| Module | Models | Depends on |
|---|---|---|
| `CdrLedger` | the promise of a CDR backend | - |
| `DatabaseCdrWriter` | the SQLite backend, both threads | instance of `CdrLedger` |
| `DatabaseCdrWriter_proofs` | theorems about it | extends it |
| `SessionManager` | session table, statistics, CDR actions | - |
| `SessionManager_proofs` | theorems about it | extends it |
| `Server` | event loop with UDP, TCP, HTTP stop, timer, cleanup | extends `SessionManager` |
| `Server_proofs` | theorems about it | extends `Server` and `SessionManager_proofs` |
| `TcpServer` | TCP connections, descriptors, framing of commands | - |
| `TcpServer_proofs` | theorems about it | extends it |
| `TcpAnswers` | command handlers, answers, short sends, the client that reads them | - |
| `TcpAnswers_proofs` | theorems about it | extends it |
| `FileCdrWriter` | the file backend | instances of `CdrLedger` |
| `FileCdrWriter_proofs` | theorems about it | extends it |
| `Access` | clients, network, UDP service, session manager and file backend, over several lives of the process | extends `FileCdrWriter`; instance of `SessionManager` |
| `Access_proofs` | theorems about it | extends `Access` and `FileCdrWriter_proofs` |
| `Config` | reading and validation of both configurations, as operators | - |
| `Lifecycle` | start-up, HTTP thread and handlers, way down | extends `Config` |
| `MCLifecycle` | the configuration files that TLC considers | extends `Lifecycle` |
| `Lifecycle_proofs` | theorems about it | extends it |

Definitions whose comment starts with "Mutant" are faulty variants of the definition they stand
before; no behaviour uses them. They show that each property can fail.

### DatabaseCdrWriter

A record is the number of the `writeAction` call that made it. `pc[t]` is the place of thread `t`;
`flush(t)` is one action per step of the C++ function: `SwapOut`, `Begin`, `GiveBack`, `Bind`, `Step`,
`Rollback`, `Requeue`, `Commit`, and `Return(t)` is its caller. A section under `m_mutex` is one
action, except in `flushLoop`, which evaluates the predicate (`WaitPredicate`) and falls asleep
(`Block`) in two, since the destructor signals without the mutex. The database is `rows`
(committed), `pending` (open transaction) and `bound` (what the shared statement has bound).

Assumptions: a `sqlite3_*` call is atomic (serialized mode, the library's default); the two
`bind_text` calls are one step; so is the loop that reads the SELECT. `BEGIN IMMEDIATE` fails inside
a transaction. An INSERT outside a transaction commits by itself; one with nothing bound fails on NOT NULL.
`Faults` names what else may fail and whether SQLite rolls back by itself.

### SessionManager

`m_sessions[i]` is the creation time or `Absent`; `cdr[i]` is what was written for subscriber `i`. A
method is an action, since all of them run on the main thread. The backend's `writeAction` is
taken not to throw (both backends only can when memory runs out), and so `CreateResult::ERROR` is left out.
`cleanTimeoutSessions` deletes the set `Expired` in one action. `gracefulShutdown()`, which only tests call, holds the
thread until no session is left, and is one action too; its delays are left out, and so is the limit it computes, which is never positive (`SessionManager.cpp:173`).

### Server

`pc` is the place in the loop and `events` the rest of the epoll batch, in any order. A datagram is an IMSI
or `Empty` (no bytes, which ends the reading like an empty socket). A TCP event handles one or more of the
commands that have arrived, as one receive may hold several. `ShutdownTimer` ends as many sessions as
expirations were read and goes to STOPPING when there was one expiration too many. `TimerRuns` is what
`timerfd_settime` makes of the interval that the code computes (it takes 1 to 999 ms).

Assumptions: seconds are the grain of time, and the loop ends at least one iteration in each
(`iterated`; it waits 100 ms at most), so a second in which a batch alone takes longer is not
modelled. `pc = "done"` is the end of `runEventLoop`, also by its `break` on an epoll error or, while it drains, by an exception: `acceptNewClient`
rejects outside of its try block (`AcceptThrows`). Stopping the servers is taken to return; what happens there, and after the exception, is in
`Lifecycle`. Creating the timer and registering it and the two server sockets are taken to succeed.

### TcpServer

A connection goes from new over queued to accepted and closed; `owner` is the kernel's table of descriptor
numbers, `interest` the epoll set, `m_clients` and `readBuffer` the server's table. A message is two units of the stream, header and
data; a receive takes any number of the units that have arrived, so fragments and pipelined commands are covered. One pass
of `handleClientData` is `Receive`, then `Answer` or `AnswerFails` for each message that `deserializer` finds, then
`NoMoreMessages`. A number that the code closes twice is closed by `RejectNewClient` or `StopClient` and again by `CloseAgain`;
between the two the other threads may be given it (`OtherOpens`). What such a thread does with a number taken from it
is not followed. `accept()` makes a socket object that opens a second descriptor; when it cannot, the first is left open
(`AcceptLeaks`), or, while the server rejects, the exception ends the loop and the process (`AcceptThrows`, `pc = "dead"`; the kernel closes everything).
An `epoll_ctl` that cannot add a client is logged only: the client is in the table and not in `interest`, and is never read (`acceptNewClient`).

Left out: a listening socket that cannot be registered, an empty receive on an open connection (epoll has reported data, and nobody else reads), the contents of commands and answers
(`TcpAnswers` has these, `Server` the commands' effects), `processEvent`, which only tests call, and `MAX_FDS`, which splits a batch.

### TcpAnswers

One connection, from the handler to the client's reader. A unit of the stream is the first three bytes of a header, its length field,
or a piece of JSON data. `handleGet`, `handleStartSession`, `handleStopSession`, `handleShutdown`, `UnknownCommand`, `InvalidParams`,
`ParamsThrow` and `ParamsUndefined` are the ways through `TcpHandler::handle`; the first six leave an answer (`Reply`), which `Send` gives to the kernel as far as there is
`Room`. What there is no room for is dropped, and `cut` names the first answer this happens to; with no room at all `send` throws and the
client is removed, although its command has been carried out (`SendThrows`). `Receive` and `Read` are the client: it gets any number of units at a time and takes messages off the front with the same `deserializer`.

Assumptions: commands arrive whole and in order (`TcpServer` has that half); the subscriber's session is created by this client's commands
only; SIGPIPE is ignored, as the constructor of httplib's `Server` sees to; after a cut, bytes that are not where a header or a length should be are taken for another
version or a length out of reach. A missing imsi is looked up in a const JSON object, which is undefined: the process ends where assertions are compiled in
(`ParamsUndefined`) and otherwise may go on as if there were no string (`InvalidParams`); the Makefile and the Dockerfile build without them.

What the model shows of the code, and the properties state as their exceptions: a short send makes the client misread every later answer (`TcpSocket.cpp:166`,
against the "reliable transmission" of `TcpSocket.h:13`); the answer to an unknown command has an uninitialized version, and a client that checks it waits behind it for
ever (`TcpHandler.cpp:50`, against `README.md:93` and 108 of the repository); an imsi that is not a string ends the connection and does not give INVALID_PARAMS
(`TcpHandler.cpp:137` and 180, against `README.md:109`).

### FileCdrWriter

`file` is a sequence of pieces (a line or the cut beginning of one) with the life of the process that wrote each; `buffer` is what
`m_writeFile` holds back, and a stream position is the index of a piece. `PutLine` is one `<<` with the three things that can happen to the
buffer, `HandOver` a write to the operating system, which a full disk cuts anywhere. `getRecentRecords` changes what its flush
changes; its answer is `RecentRecords`. The class is created and destroyed by `Construct` and `Destroy`, or dies by `Crash`.

Assumptions: a disk that is full stays full for the writer's life (nothing clears the stream's error); an overflow of libstdc++'s buffer writes all of
it; `tellp` does not flush; nobody else writes to the file. A crash loses the buffer, but the beginning of its first line may
already be in the file.

### Access

`Send`, `Receive` and `GiveUp` are a client's life; `requests[c]` counts the copies of its datagram on their way, `answers[c]` is what may still
reach it (a closed socket drops it). `UdpRequest` is one turn of the loop in `processEvent`: validate, `createSession`, `writeAction`, answer.
`EndSession`, `GetCdr`, `StartDraining` and `Exit` are the other callers of session manager and file backend; `Dies` and `Boot`
take away and rebuild what is in memory, with the file and the network left. The session
manager's clock stands still here (`Server` has the time-outs), so that its instance gets `MaxTime <- 0`. A life whose file cannot be opened
(`m_writeFile = "closed"`) creates sessions and answers like any other, and its records go nowhere.

### Config

A configuration file is a record of the values that matter. Numbers are converted before they are validated, as in the code: ports modulo `PortModulus`, the session
timeout to a two's complement number of `IntModulus` values; a JSON float loses its fraction; a boolean is 0 or 1 as a port, and refused as
a time-out or a rate (`Converts`), which is how `json::value` treats them. `ServerConfig` is the server's constructor with its fall back to defaults, `ClientConfig`
the client's. Addresses and file names are opaque, and a value with no conversion at all (a string for a number) counts as a file that cannot be read. A rate is only
refused when it is 0; what other rates do to the timer is in `Server`.

### Lifecycle

`pc` goes through `Server::run`: a place for each step that may throw, `loop` for the event loop, `throw` for the catch block,
and `unwind` for the destructor of `Impl`, which takes the members in the opposite order of `Members` (`Youngest`). `listener` is the HTTP thread and
`request[r]` a handler that runs. A LOG_ macro with no default logger kills the process (`Dies`): in spdlog 1.14 `drop` also resets
the default logger when it is the one dropped, which `logger::shutdown` does before the destructors run.
`HttplibStop` ends only a `listen()` that is running, as in httplib 0.15.

The loop ends in three ways: drained (`LoopStops`), by `break` (`LoopBreaks`), or, while draining, by the exception of a rejecting `accept()`, which goes to the
catch block (`LoopThrows`).

Left out: failed allocations, and what `hasSession` reads while the loop changes the table.

What the model shows of the code, and the properties state with it: a start-up that fails after the CDR backend is built (a TCP port
in use, say) ends in a crash and not in the exit code 1; so does a server whose drain is cut off by an exception; `run()` returns 0 also when epoll failed; a taken HTTP port goes unnoticed; and if
the listening thread has not reached `listen()` when `stop()` has waited its 100 ms, the join never returns (`listener = "late"`).

## 3. Runs

| Run | Shows | Bounds |
|---|---|---|
| `cdr_ledger` | lossless FIFO pipeline, implements `CdrLedger` with its liveness | batch 2, 4 records, no fault, no GET_CDR |
| `cdr_shared` | `OneWriter`, `NoDuplicates`, `ReportedStaysStored`, `DestructorTerminates` | as above, GET_CDR, failing BEGIN |
| `cdr_faults` | `RowsInWriteOrder`, `DestructorTerminates` | batch 2, 4 records, all faults, 1 crash, no GET_CDR |
| `cdr_lost` | **violated**: `NothingLost` | no fault, GET_CDR |
| `sessions` | statistics, billing, draining, blacklist | 2 valid and 1 malformed IMSI, 4 counted requests, 4 s |
| `server` | `StoppedMeansDrained`, `SessionLifetimeBounded`, `ShutdownCompletes` | 4 IMSIs (one blacklisted, one malformed), 2 arrivals, 5 s, 2 expirations |
| `tcp` | `AnsweredOnceInOrder`, `TableMatchesDescriptors`, `CommandsServed` | 2 connections, 3 descriptors, 1 of them with another thread at a time, 2 messages |
| `tcp_close` | **violated**: `OthersUntouched` | as above, no messages |
| `answers` | `DecodedAsAnswered`, `SessionAsTold`, `CommandsAnswered` | 5 commands, 3 of them sent, 5 kinds of parameters, a send buffer of 5 units, data of 1 |
| `access` | `CreatedMeansBilled` (a record for each client told "created", standing where the file was kept), `RecentRecordsRight`, `BilledPerLife`, `CleanExitComplete`; `EachLifeIsALedger`: implements `CdrLedger` (safety) | 1 valid and 1 malformed IMSI, 2 clients, one with a repeated datagram, 2 lives, 4 records, GET_CDR up to 2 |
| `lifecycle` | `ConfigMeetsAssumptions`, `NothingDangles`, `CrashOnlyAfterException`, `ExitZeroMeansServed`, `NeverStuck` | 54 files (each number at and beside its limits and past its width, as a fraction and as a boolean), 2 HTTP requests at a time |
| `server_rate` | **violated**: `ShutdownCompletes` at rate 1 | 2 IMSIs, 1 arrival |

Why the bounds are enough: a batch of 2 makes the buffer reach, miss and exceed the batch size with 4 records,
with one batch in each thread's hands. One crash separates two lives of the process. Time runs to 5 with a timeout of 1, and the
cleanup needs 4, so that a cleanup happens and a session can reach the bound. Two arrivals make two
sessions, or a start and a stop of one; two expirations make the timer delete fewer sessions than there are,
as many, and more. In `tcp`, two connections are served side by side or one after the other on the same number, and two messages can be
pipelined or one on each connection; accepting takes two free numbers, so that three descriptors let both be open, or one be leaked. `MaxArrivals <= MaxTotal`: the bound on counted requests never blocks the loop.
In `answers`, messages have 2 or 3 units, so that in a buffer of 5 two short ones fit, a second or third is cut at each of its units, or finds no room; three commands are a start, a stop or a wrong
one, and what follows it.
In `access`, 4 records over two lives make a session created, ended and created again in one life, or a life cut off and another appended to it; with answers of 2 records GET_CDR gives
fewer than asked for, fewer than there are, and all; two clients compete for one subscriber, and the second copy of a datagram can arrive before, between and after all of it, also in the next life.
In `lifecycle`, each file sets one value, as the values are read and validated one by one; `IntModulus` is 2^20, for 2^32 is past TLC's integers and no step depends on
the width; two requests let one handler run while another ends. The theorems about it hold for all files and widths.

Three runs are expected to fail, and show a disagreement between code and documentation:

* `cdr_lost`: `flush()` returns its records to the buffer by a swap (`DatabaseCdrWriter.cpp:104`). If BEGIN was
  refused because the other thread is in its transaction, records written in between are
  destroyed, against the comment two lines above it. No storage fault is needed.
* `tcp_close`: a rejected client's descriptor, and in `stop()` every client's, is closed by number and by its socket object
  (`TcpServer.cpp:138` and 90-92), although `TcpSocket::close` is said to close the socket "if it is open". In between, the HTTP thread or
  SQLite in the flusher may have been given the number, and loses it.
* `server_rate`: with `graceful_shutdown_rate` 1, which the configuration accepts, `timerfd_settime` refuses
  10^9 ns (`Server.cpp:286`) and the shutdown never ends; above 1000 the interval is 0 and disarms the timer.

Four more disagreements are steps of the models, and the passing properties name them as their exceptions:

* A client is rejected while draining, `accept()` gets no second descriptor and throws outside of the try block (`TcpServer.cpp:133`), the catch of `run()`
  drops the logger, and the destructors log: the server crashes after it has served, against the "graceful shutdown" of `README.md:102` of the
  repository (`LoopThrows`; `CrashOnlyAfterException` in `lifecycle`).
* `test_config.cpp:143` has a port of 70000 refused. The code stores 4464, which is valid (`Config.cpp:38`); the test passes because the comment
  in its JSON text breaks the parse. `ConfigMeetsAssumptions` says "as written" only of numbers that fit.
* A START_SESSION is carried out, its answer cannot be sent (`TcpServer.cpp:220`), and the client is removed with a session it was
  not told of; `README.md:217` has every command answered (`SendThrows`). `SessionAsTold` says what is left: such a session is one whose START_SESSION's answer the client has not read.
* With a CDR file that could not be opened, `writeAction` drops the record (`FileCdrWriter.cpp:46`) and the client is told "created";
  `README.md:162` has the record written before the answer. `CreatedMeansBilled` says what is left: the record stands where the file was kept (`Kept`).

What holds only in part: rows out of write order do appear after a failed INSERT, which requeues
behind newer records, and in the interplay of two flushes; `RowsInWriteOrder` therefore excludes behaviours with a failed INSERT, and its run has no GET_CDR.
With `insertRollback` a late ROLLBACK can end the other thread's transaction, so `OneWriter` and
`NoDuplicates` exclude that fault.

### Fairness

`DatabaseCdrWriter`: weak fairness of `flushLoop` (its thread is scheduled, and a timed wait ends) and of
what the main thread has begun (flush, join, close); none on `writeAction`, `getRecentRecords`, `Destroy` or `Crash`.
`Server`: weak fairness of the loop and of the armed timer, strong fairness of `EpollWait` (signals do
not interrupt every wait). None on clients, HTTP or the clock. `TcpServer`: weak fairness of the loop; none on clients, other
threads, `stopAccepting` or `stop`. `TcpAnswers`: weak fairness of handlers and sends, and of a client that keeps reading (`CommandsAnswered` is about such a
client); none on new commands, the end of sessions, or `stop`. `Lifecycle`: weak fairness of the main thread outside of the loop, of the listening thread and of each handler that runs
(threads are scheduled, and what they wait for is not withheld); none on new requests, or on the end of the loop, so that `NeverStuck` counts waiting
in the loop as progress. `Access` states safety only and no fairness.

## 4. Proofs

Checked by `tlapm`, for all values of the constants (batch size, bounds, sets of subscribers, clients and faults). Every type invariant, safety invariant
and safety property of a passing run is stated by a theorem.

**DatabaseCdrWriter_proofs** (assuming `ConstantsAssumption`)

* `TypeCorrect`: `Spec => []TypeOK`. `TypeOK` is not inductive: `Bind` takes the head of a queue, so the proof
  carries `LocalQueue` (where the local queue is non-empty, by `pc`).
* `WritersTakeTurns` and `NoRecordStoredTwice`: `"insertRollback" \notin Faults` gives `Spec => []OneWriter` and `Spec => []NoDuplicates`. Both come
  from one inductive invariant: `SharedInv` adds `Joined` (the destructor flushes only after the flusher has left), `BoundIsFront` (the bound
  record is the front of the binder's queue), `Apart` (the places spelled out pairwise) and `Numbered` (records are not newer than `written`).
* `ReportedRecordsStay`: `Faults \subseteq {"begin"}` gives `Spec => []ReportedStaysStored`. GET_CDR reads over the connection that writes, so that it
  shows rows not yet committed; `Undisturbed` says that they are in the table or in a transaction that some thread is still to commit.
* `RowsStayInOrder`: without GET_CDR, with all faults and any number of crashes, `Spec => RowsInWriteOrder`. The property is about behaviours in which no
  INSERT fails, so each step of the proof assumes `~FailedInsert'`. `OrderInv` adds to `SharedInv` that only one thread is in `flush()` (`OneFlush`;
  GET_CDR would break it) and that table, transaction, local queue and buffer follow each other (`InWriteOrder`). Failing BEGIN and COMMIT and crashes may lose records: they leave
  gaps and no disorder.
* `CleanWriterIsLossless`: with no faults, crashes or GET_CDR, `Spec => []Lossless`. `CleanInv` adds `Quiet` (only one thread
  flushes at a time) and `InOrder` (the pipeline is 1..written). None of the three conditions can be dropped: with any of them, records get lost (`cdr_lost`).
* `CleanWriterRefinesLedger`: `Spec => Ledger!Safety` under the same conditions; the mapping is
  `accepted <- written`, `ledger <- rows`.

**SessionManager_proofs** (assuming `Imsi` finite, `SessionAssumption`)

* `SessionTypeCorrect` and `AccountsBalance`: `SessionSpec => []SessionTypeOK` and `SessionSpec => []StatisticsAddUp`. The inductive invariant `Accounts` is
  both together: the counters keep their types only because they balance. Each way to end sessions changes the cardinality of `Active` by the number it
  counts (lemmas on `deleteSessions`, from FiniteSetTheorems).
* `BillingIsExact` and `StatisticsAreExact`: `SessionSpec => []BillingMatchesSessions` and `SessionSpec => []StatisticsMatchCdr`. The invariant `Books` is these two and `Accounts`. A call
  appends a record to the lists of one or of many subscribers: `CdrRecords` is a set of positions and `OpenAfter` a difference of cardinalities, and not folds, so that what a record
  adds to them is a fact about finite sets (`BooksOfTheEnd` for any set of sessions that ends at once).
* `NoSessionIsGranted`: `SessionSpec => NoSessionGranted`, an action property, by the actions, over `Accounts`.

**Server_proofs** (also `ServerAssumption`)

* `LoopTypeCorrect`: `Spec => [](SessionTypeOK /\ LoopTypeOK)`. `TcpEvent` takes the head of `tcpQueue`, so the proof carries
  `TcpPending`: epoll names a descriptor once in a batch, and while a TCP event is left there is a command for it.
* `StopsOnlyWhenDrained`: `Spec => []StoppedMeansDrained`. `Draining` is the strengthening: out of RUNNING the drain flag and the
  request stay set, and from STOPPING on `Active` is empty. The events left in the batch keep it, because every call of the session
  manager only shrinks `Active` while draining (`Shrinks`). The counters follow from `Accounts`, which the loop's
  steps keep by the lemmas of SessionManager_proofs.
* `LifetimesBounded`: `Spec => []SessionLifetimeBounded`. A session's age says nothing of when the next cleanup is; `CleanedInTime` does: the last one let no expired
  session pass, it is at most `CleanupInterval + 1` seconds ago, and a second less when the loop has been through an iteration in this second.
* `LoopBillsExactly` and `LoopGrantsNone`: the session manager's `BillingMatchesSessions`, `StatisticsMatchCdr` and `NoSessionGranted` under the calls that the loop makes, timer and
  batches included.

**TcpServer_proofs** (assuming `TcpAssumption`)

* `Typing` and `Agreement`: `Spec => []TcpTypeOK` and `Spec => []TableMatchesDescriptors`, by one inductive invariant, for the types depend on who holds a number. `TableInv` is
  `Ownership` (a connection that holds a number was accepted and holds no other, and a number about to be closed again is no connection's), `Waiting` (the backlog holds queued
  connections, each once), `Announced` (a batch names a descriptor once, and the server's socket only while somebody waits) and `Table` (the table is the numbers of
  accepted clients, the epoll set some of them). Without `Ownership` two clients could be served under one number after the first has lost it.
* `AnswersFollowStream`: `Spec => []AnsweredOnceInOrder`. `StreamInv` says that buffer and network together are the units of the messages not answered yet (`Follows`), and that what was
  answered is a beginning of what was sent (`Answered`). Which connection a buffer belongs to is what `TableInv` says.

**TcpAnswers_proofs** (assuming `AnswersAssumption`: the sizes of buffer and data are positive)

* `AnswersTypeCorrect`: `Spec => []AnswersTypeOK`.
* `ClientReadsTheAnswers`: `Spec => []DecodedAsAnswered`. `StreamInv` says that there are offsets at which the answers end in the stream, and that each unit of an answer that was sent
  whole is in its place (`InPlace`), nothing else being there before a cut (`NothingElse`) and nothing missing while the connection is open (`NothingMissing`). Handlers extend the
  offsets, `Send` appends, `Receive` moves the border between pipe and buffer (`Resplit`), and `Read` finds the length of the next answer where
  the invariant says it is (`NextAnswer`), so that what it takes off is that answer.
* `DoubtOnlyAboutUnread`: `Spec => []SessionAsTold`. `LastTold` speaks of the answers as the handlers gave them, sent or not: while there is a session, the last answer that told anything of
  it told of one, and was given to a START_SESSION. Either the client has read it, in its place by `StreamInv` (as far as `Sound`), or it is the unread one of the property.

**FileCdrWriter_proofs** (assuming `FileAssumption`: two bounds are natural numbers), of `FileSpec`, the class with its methods called in any order

* `FileTypeCorrect`: `FileSpec => []FileTypeOK`.
* `GetCdrShowsTheLastRecords`: `FileSpec => []RecentRecordsRight`. The property speaks of moments with an empty buffer, so `FileInv` says where the
  records will be: in a good stream, at their positions in `Stream`, file and buffer in one (`GoodIndex`); in a bad one, there, cut, or beyond the end (`BadIndex`). `HandOverResult`
  says what a write leaves, and `IndexStays` that whatever way `Stream` gets to the file keeps the index right.
* `LivesAreLedgers`: `FileSpec => EachLifeIsALedger`, a refinement: for each life, the records called for and the lines of that life in the file implement the safety part of `CdrLedger`. The mapping reads the
  file alone, so that the invariant must say what the buffer will add to it: in `Stream` a life's lines are 1, 2, 3, ... (`Ordered`), no line is of a record that was not
  written (`Within`), and "CDR ended" stands behind all of a life that is over (`Complete`).

**Access_proofs** (assuming `AccessAssumption`: subscribers and clients are finite sets, and the sets of valid and of blacklisted subscribers are among them)

* `AccessTypeCorrect`: `Spec => []AccessTypeOK`. `AccessInv` has the types of the session manager and of the clients, and that the backend exists exactly while the process is up (`Runs`).
* `AccessKeepsLedgers`: `Spec => []RecentRecordsRight /\ EachLifeIsALedger`. `AccessImplementsFile` (`Spec => FileSpec`) shows that each step of the server is a call of the file backend's class or
  leaves it alone, so that the theorems of FileCdrWriter_proofs carry over.
* `FileBillsSessions` and `ExitTellsAll`: `Spec => []BilledPerLife` and `Spec => []CleanExitComplete`. `BillInv` relates what was written in each life, wherever it is by now, to the session table: the records of a
  subscriber alternate (`Paired`), and while the process is up, and behind "CDR ended", they show open exactly the sessions in the table (`TableBilled`). `LedgerInv` then says
  that the file has a beginning of those records, and all of them after "CDR ended".
* `NobodyToldOfNothing`: `Spec => []CreatedMeansBilled`. The property counts clients that have read "created"; the answer may arrive late, or twice for a repeated datagram, so `OwedInv` counts
  those that still may (`Owed`) and says that there is a CREATED record for each (`Granted`). `KeptStands` adds where these are: in a life that was kept, the invariants of the
  file backend (`GoodIndex`, and `Complete` behind "CDR ended") have every record in file or buffer.

**Lifecycle_proofs** (assuming `ConfigAssumption`: the defaults fit in their types and `int` has an even number of values; `LifecycleAssumption`)

* `LifecycleTypeCorrect`, `NothingOutlivesItsReferents`, `CrashesNeedAnException`, `SuccessMeansServed`: one inductive invariant, `LifeInv`, for all
  of them. `Structure` says what is built at each place of the start-up (`BuiltAt`) and that the members alive are closed under reference, which
  destruction keeps because no member refers to a younger one (`YoungestIsFree`); `HttpInv` ties thread, handlers and `m_running` together; `LoggerInv` says that
  the null logger comes only with the exit code 1; `ThrownInv` that a server that got to its loop and has thrown was asked to shut down;
  `ConfigInv` that a refused file leads to nothing.
* `ConfigIsAsWritten`: `Spec => []ConfigMeetsAssumptions`, from `ConfigInv` and the arithmetic of the two conversions (`PortsThatFit`, `TimeoutsThatFit`). Of a
  number that does not fit, and of what the timer makes of a rate, it says nothing: see section 3.

Only model-checked: what holds under fairness, as liveness and ENABLED are out of the prover's reach: `DestructorTerminates`, `ShutdownCompletes`, `CommandsServed`, `CommandsAnswered`, `NeverStuck`, and
the liveness half of `ImplementsLedger`.

## 5. Plan

Done: every module of section 2, and the proofs above. Left: refinements between the modules that model the same calls at different grains (`Server` and `SessionManager`, whose loop makes several
of its calls in one step; the queue between `TcpServer` and `TcpAnswers`), and the session manager's `Books` as a theorem of `Access`.

## 6. Not modelled

* `hasSession` on the HTTP thread while the main thread changes the table: a data race whose outcome is whatever a half rehashed table gives. It changes
  no state, so that only the answer to the HTTP client depends on it.
* The contents of the reports that GET_STATS, GET_SESSIONS and GET_CDR return, and of HTTP's answers, where the error handler replaces the body of a 400 that `README.md:85` of the repository shows.
* Results that need a failed allocation (`CreateResult::ERROR`, a `writeAction` that throws).
* `SocketUtils`, `SocketFactory` and the rest of the socket wrappers (system calls; their outcomes are choices in the modules that call them), the output of `logger` and its
  `set_level`, JSON parsing, the text of a CDR line, the build, the tests and third-party code.
