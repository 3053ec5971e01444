# A TLA+ model of the TcpServer repository

The repository is a small C++ network library in the style of *muduo* (one event
loop per thread, an acceptor on the main loop, connections spread over a pool of
loops) with an asynchronous logger of its own. This directory models the parts
with state and concurrency, model-checks them with TLC on small instances and
proves the safety results with TLAPS for every instance. `PROJECT.json` lists
the components, the runs, the mutants that show each property can fail, the map
from definitions to source lines, the findings, the hazards and the theorems.

## 1. Inventory

| Component | State | Operations | Talks to |
|---|---|---|---|
| `EventLoop` | `quit_`, `callingPendingFuntors_`, `pengdingFuntors_` under `mutex_`, `wakeupFd_`, `activecChannels_` | `loop`, `quit`, `runInLoop`, `queueInLoop`, `wakeup`, `handleRead`, `doPendingFunctions` | its `Poller`; any thread through `queueInLoop` and `quit` |
| `Channel`, `EpollPoller` | `events_`, `revents_`, `index_`, `tie_`; `channels_`, the epoll set | enable/disable, `update`, `remove`, `handleEvent`; `poll`, `updateChannel`, `removeChannel` | the owner's callbacks; the kernel |
| `TcpConnection` | `state_` (atomic), socket, channel, input and output `Buffer`, callbacks | `send`, `shutdown`, `sendFile`, `connectEstablished`, `connectDestroyed`, `handleRead/Write/Close/Error` | its loop; user callbacks; `TcpServer` through `closeCallback_` |
| `TcpServer`, `Acceptor`, `Socket` | `connections_`, `nextConnId_`, `started_`, listening channel | `start`, `newConnection`, `removeConnection`, `removeConnectionInLoop`, destructor | pool loops by functors, back to the main loop by functors |
| `EventLoopThread`, `EventLoopThreadPool`, `Thread` | `loop_` under a mutex and condition variable, `loops_`, `next_` | `startLoop`, `threadFunc`, `start`, `getNextLoop`, destructors | creates the loops |
| `Buffer` | `buffer_`, `readerIndex_`, `writerIndex_` | `append`, `makeSpace`, `retrieve*`, `readFd`, `writeFd` | used by one thread |
| `AsyncWorker` and `mylog::Buffer` | two buffers, `stop_`, `mtx_`, two condition variables | `Push`, `Stop`, `ThreadEntry` | every thread that logs; the flush callback |
| `AsyncLogger`, `LoggerManager`, `LogFlush` | map of loggers, sinks, current log file | `serialize`, `RealFlush`, `AddLogger`, `GetLogger`, `StopAll`, `Flush` | `AsyncWorker`, `ThreadPool` |
| `ThreadPool` | task queue, `stop` | `enqueue`, workers, destructor | the backup client |
| backup client and server | sockets, retry counter | `start_backup`, `start_service`, `service`, `backup_log` | each other over TCP |
| `InetAddress`, `Timestamp`, `Message`, `Level`, `Util` | values | formatting, files, JSON | - |

What is hard to get right here: work handed between threads with an eventfd as
the only alarm; a connection that is taken apart in three hops (its loop, the
main loop, its loop again) while user code in a callback or in another thread
sends, shuts down or drops its pointer; a state tested in one thread and used in
another; partial writes and a half close that must wait for them; peers that
finish or reset at any moment; files that queue themselves again and again; two
condition variables and a flag that is set without their mutex; a thread that
makes the object its owner waits for and destroys it while the owner looks at it;
processes that end between two sinks, two buffers or two files. What makes each
part correct:

* `EventLoop`: no functor sleeps behind `epoll_wait`; each is started once, in
  order; `quit` ends the loop.
* `Channel`/`EpollPoller`: `index_` tells the truth about the epoll set; no
  destroyed channel stays registered.
* `TcpConnection`/`TcpServer`: the byte stream is intact; write events are on
  exactly while output waits; a half close lets output go first; a connection is
  reported down once; a file goes out in order, in its range and not inside a
  message; the connection of a peer that is gone is removed.
* `EventLoopThread`, pool: `startLoop` and the destructor return; `loop_` never
  dangles; nobody uses an `EventLoopThread` that is gone.
* `Buffer`: a queue of bytes that never leaves its vector.
* `AsyncWorker`: no message lost, duplicated or reordered between the buffers;
  nobody waits for ever; what was pushed before `Stop` is flushed.
* `AsyncLogger` and its sinks: every sink has the messages in order; what was
  flushed survives as far as `flush_log` promises; rolled files are complete and
  are not overwritten.
* `ThreadPool`, backup: a task that was accepted runs, even while the pool is
  being destroyed; a call that logs an error ends whatever the server does; what
  reaches the server is recorded once.

## 2. Modules

| Module | Models |
|---|---|
| `TaskQueue` | abstract: what a loop promises a caller of `queueInLoop` (a FIFO, each functor once) |
| `EventLoop` | one loop, its thread as a program counter, other threads that post and quit |
| `EventLoopProofs` | theorems about `EventLoop` |
| `LoopThread` | `EventLoop` composed with the thread that runs it and the `EventLoopThread` that owns it, from `startLoop` to the destructor |
| `LoopThreadProofs` | theorems about `LoopThread` |
| `Channel` | one channel with the poller's and the kernel's view of it, as operators |
| `TcpServer` | acceptor, connections, channels, main loop, pool loops, peers and user threads composed |
| `TcpServerProofs` | types of `TcpServer`, what its operations do to a connection, the poller |
| `ConnectionProofs` | on top of it: the life of a connection, its output, its byte stream and the files sent on it |
| `ByteQueue` | abstract: bytes out in the order they went in |
| `Buffer` | the vector, its indexes, growth, compaction, scattered read |
| `BufferProofs` | theorems about `Buffer` |
| `AsyncWorker` | producers, consumer, `Stop`, both modes, spurious wakeups |
| `AsyncWorkerProofs` | theorems about `AsyncWorker` |
| `LogFlush` | `RealFlush`, the three sinks, files, stdio buffers, disk, and the processes that write one after the other |
| `LogFlushProofs` | theorems about `LogFlush` |
| `ThreadPool` | the pool's queue, workers and destructor, as actions to compose |
| `ErrorLog` | logging calls, `ThreadPool`, backup client and backup server composed |
| `ErrorLogProofs` | theorems about `ErrorLog` and its pool |
| `MC...` | the same modules with the values TLC needs |

### How state and actions correspond to the code

**EventLoop.** `pc` is the place of the loop's thread between construction and
the return of `loop()`; `pending`, `functors`, `quit`, `calling` are the members
and the local vector of `doPendingFunctions`. A call of another thread is two
steps, because `mutex_` is released before `wakeup()`: `QueueInLoop(t)` or
`Quit(t)`, then `Wakeup(t)`. User code runs at `"init"` (the thread-init
callback), `"handler"` and `"functor"`, where the loop's own thread may post and
quit. `runInLoop` of the loop's thread only calls its argument. The eventfd is 0
or 1: its count is never used. `epoll_wait` is level triggered.

**LoopThread.** `opc` is the owner (`EventLoopThreadPool::start`, then `startLoop`,
use of the loop, `~EventLoopThread`), `life` the thread around the steps of
`EventLoop`, `loopSet` whether `loop_` is not null. `Thread::start` is
`CreateThread`, `SemPost`, `SemWait`; the wait on `cond_` is `LoopIsThere`;
`threadFunc` is `InThreadFunc`, `LeaveLoop`, `EndThread`. The destructor reads
`loop_` without the mutex (`DtorReadsLoop`), then `quit()` in two steps, then
`join`; with `loop_` null it does not join and `~Thread` detaches. `otherQuit`
remembers that somebody else called `quit()`.

**Channel.** `UpdateChannel`, `RemoveChannel` and the `Enable`/`Disable`
operators take a channel record to the next one; an `epoll_ctl` that fails is
only logged, so it changes nothing. `Due` and `IsNext` are the four tests of
`handleEventWithGuard` and their order.

**TcpServer.** `conn[c]` is the `TcpConnection`, `sock[c]` the kernel's socket
(external), `pending`, `batch`, `pos`, `phase`, `active` the loops. That functors are
neither lost nor reordered is what `EventLoop` establishes; here a loop polls when
there is something to do. A handler is one step up to the user callback it makes
(`frame`) and one after it, so that user code and every other thread come in between.
`Alive(c)` says whether some `TcpConnectionPtr` still exists; the functors bound to a
bare `this` do not count. `fault` records what ends the process: SIGPIPE, an empty
`std::function`, a dangling `this`. `accept4` may succeed, fail with the connection
(`AcceptFails`; its length argument is uninitialised) or fail and leave the connection
in the backlog (`AcceptRetried`), where the acceptor finds it again. A connection may
also break with an error other than a reset (`ETIMEDOUT`): `sendInLoop` then keeps the
data and turns write events on, as after `EWOULDBLOCK`. Bytes are message numbers; the
bytes of a file are recorded with the call, the position in the file and how many
message bytes went before. `SendFileInLoop` is one round: it writes if no output
waits, and queues itself (`FileFunctor`) while something remains. `off >= FileLen` is
the end of the file, where `sendfile` returns 0.

**Buffer.** `buffer` is a function from the vector's indexes to bytes, `append`
has one disjunct per branch of `makeSpace`, `ReadFd` one per branch of `readFd`.

**AsyncWorker.** The mutex is held over a step except where `Stop`, which does
not take it, can come in between: `Test` and `Sleep` of the consumer are two
steps. `notify_one` picks any waiting producer. `Util.hpp:200` reads the key
`threadhold` while `config.conf` has `threshold`: the value is 0 and growth is
always linear, which is what `ToBeEnough` says.

**LogFlush.** A sink is its place in `flushs_`, and a logger has any number of them of
any kinds, as `LoggerBuilder` allows (`test.cpp:66-85` gives it 20 `FileFlush`).
`flushs[s]` is the kind of a sink with the name of its file or the beginning of its
names. Every sink has a `FILE` of its own, except that all `StdoutFlush` use one
(`Fp`), and two sinks may have one file open. `RealFlush(k)` takes a batch of `k`
messages from `AsyncWorker`; `at` is its place in `flushs_` and `step` what the sink
does next, so a process may end between any two calls of stdio. `stdio[f]` is what a
`FILE` has buffered; `fwrite` passes on any prefix of it. `files` survives the process:
`data` is what the kernel has, `synced` how much is on disk. `exit` writes the buffers
out, one `FILE` after the other (`Exit`, `Unload`, `Exited`), a signal loses them, and
a loss of power also cuts every file anywhere behind `synced`. The name of a rolled
file has a stamp, the digits of the date without padding, and `cnt_`. The history
`found` is how much of each file a process found, `opened` which files a rolling sink
opened and how many messages had been flushed then; no guard looks at them. What the
code only prints (errors of `fwrite`, `fflush`, `fsync`) is left out; `fopen` may fail,
at the start of any process or when a file is rolled, and the `fwrite` on the null
`FILE` that follows ends the process. Sinks that share a file each write every message
to it, so what is said of the contents of files is said of a sink that is `Alone`,
whatever the others do; `NothingErased` is about all of them.

**ThreadPool, ErrorLog.** `stop` and `tasks` change only under `queue_mutex`, so a
worker's test and sleep are one step; the notifications of `enqueue` and of the
destructor come after the unlock and are steps of their own. A logging call is
one step up to that unlock (`LogError`) or, below ERROR, altogether (`LogPlain`):
`Push` itself is the business of `AsyncWorker`. `client[w]` is the frame of
`start_backup` in a worker, `open` counts the descriptors it holds or has left
behind, `link[m]` is the connection a message travels on, `file` the server's
`logfile.log`, which outlives the server. A thread that uses `tp` after the pool
was freed ends in `"undefined"`. An accepted connection is `"served"`, or
`"unserved"` when `pthread_create`, whose result nobody looks at, has failed; its
thread records what it reads, or nothing when `read` fails (`"unread"`). `leaked` is
the history of the calls that gave up on a socket. The terminator that `service`
writes behind a full buffer is undefined: the server goes on or dies.

## 3. Runs

Passing:

| Run | Instance | Shows |
|---|---|---|
| `loop` | the owner and another thread, 4 functors | `NoSleepOnWork`, `ExactlyOnceInOrder`, `ImplementsTaskQueue`, `OwnerOutlivesThread`; `PromptExecution`, `StartReturns` and `DestructorReturns` without fairness of the poll timeout |
| `server_safety` | 1 connection on a pool loop, 1 user thread, 2 messages of 2 bytes, send buffer of 1, FIN and reset | registration, life time, the report of the end, stream, write events, half close |
| `server_single` | no pool, 2 connections on the accepting loop, messages and files of 2 bytes, 2 of them sent | the same life cycle when `runInLoop` calls directly; files in order and between messages; output drains and files are sent to their end beside each other |
| `server_live` | as `server_safety`, 1 message or file | removal and half close happen |
| `buffer` | prefix 2, 3 cells, stack buffer 4, 12 bytes | range of the indexes, no byte lost, refinement of `ByteQueue` |
| `async` | 3 producers, both modes, 4 messages of 1 or 3 in a buffer of 3 | order, sleeping consumer, buffer ends, blocked producers, flushing, what `Stop` finds is kept |
| `sinks` | 2 processes, two sinks of different or of one kind on files of their own, two sinks on one file, two rolling sinks of one name, or stdout; 4 messages each in batches of up to 2, rolled files of 2, all flush modes, two seconds with one stamp | order per sink, what survives which end, sizes, rolled files left alone, nothing overwritten |
| `error_log` | 2 threads, 2 workers, 2 calls, 1 retry, 1 descriptor, messages of 3 in a buffer of 2, the server dies once, the pool is deleted | no wakeup or task lost, one record, descriptors; calls and deletion end, what is sent is recorded unless the server loses it |

The type invariants (`TypeOK`) hold on the same instances; they are kept for the
proofs and are not listed again in the runs.

Violated, one finding each: `loop_lost_quit` (a `quit()` before `loop()` is erased
and `~EventLoopThread` waits for ever), `server_dangling` (a queued `send` or
`shutdown` runs on a destroyed connection), `server_file_range` (the rest of a file
is asked for with the whole count), `async_stop_hangs` (`Stop` between the
consumer's test and its sleep).

Modelling also showed, and the model contains:

* `handleClose` does not set `kDisconnected` before the connection callback
  (`TcpConnection.cpp:236`), which therefore sees a connected connection, may
  send on it and so register it again;
* the high water mark test looks at the mark and not at the callback
  (`TcpConnection.cpp:122`), so an unset callback is called;
* SIGPIPE is not ignored, so the `EPIPE` branch (`TcpConnection.cpp:111`) is not
  reached after a reset;
* `updateChannel` adds a `DELETED` channel even when it watches nothing
  (`EpollPoller.cpp:74`), against the comment at line 76;
* a functor queued by the thread-init callback waits for the first poll to end;
* a producer that waits for space while `Stop` is called puts its message in
  after the consumer has ended (`AsyncWorker.hpp:32`), against the comment of
  line 63;
* `start_backup` leaves its socket open when it cannot connect
  (`CliBackupLog.cpp:34`): `DescriptorsLeft` says that a descriptor is lost there and
  nowhere else, and with the descriptors gone no backup works even if the server is back;
* the backup server reads a message once (`ServerBackuplog.hpp:114`), so a record
  may be a part of it; it ignores the result of `pthread_create` (line 106) and drops
  a connection whose `read` fails (lines 115-119), so a message may be lost while the
  server is up: `SentIsRecorded` excepts exactly these two and the death of the server;
* in safe mode a message that exactly fits makes the log buffer grow
  (`AsyncBuffer.hpp:17`), against the comment `AsyncWorker.hpp:27`;
* a `shutdown()` by another thread between `handleClose` and `connectDestroyed`
  takes the report away from the latter (`TcpConnection.cpp:164`), and no callback
  sees the connection down: `DownIsReported` excepts exactly this (`lateShut`);
* `shutdown()` sets `kDisconnected` at once (`TcpConnection.cpp:139`), so that a
  `sendInLoop` the same thread queued before is dropped at line 82;
* `sendFileInLoop` queues itself without end at the end of a file that is shorter
  than asked for, and as long as other output waits; each round lets the loop poll,
  so nothing else starves: `server_single` has messages and files of two connections
  beside each other on one loop (`OutputDrains`, `FileDrains`); messages sent meanwhile
  go between two rounds of the file;
* `quit()` calls `wakeup()` after it has set `quit_` (`EventLoop.cpp:98-102`); the
  loop may have seen the flag, returned and been destroyed by then, and the
  destructor of `EventLoopThread` is such a caller;
* if a loop is told to quit before `startLoop` has looked at `loop_`, it is null
  again and `startLoop` waits for ever (`EventLoopThread.cpp:32`); if it is told
  later by somebody else, the destructor may find null, not join, and leave a
  thread behind that still uses its members: `StartReturns` and
  `OwnerOutlivesThread` except `otherQuit`;
* functors queued after the last `doPendingFunctions` of a loop that quits are never
  run, the `connectDestroyed` of `~TcpServer` among them (`TcpServer.cpp:42`);
* stamps of rolled files are ambiguous and `cnt_` starts again with the process
  (`LogFlush.hpp:133-139`), so a process may append to a file of an earlier one,
  which then outgrows `max_size_`: `RollSizes` counts per process, and mode `ab` is
  what keeps `NothingErased` true. It speaks of the sinks: both `main`s remove the log
  directory before they build a logger (`testserver.cpp:62-64`, `test.cpp:38-40`), and
  with it what an earlier process wrote;
* two sinks of one logger may have the same file or `basename_`: nothing is lost, but
  the file has every message twice and rolled files outgrow `max_size_`;
* a sink whose file cannot be opened goes on to `fwrite` with a null `FILE`
  (`LogFlush.hpp:36`, `118`).

**Bounds.** Four functors allow a batch, posts during the batch, and a second batch
with posts of the loop itself in between; the theorems lift the bound. One connection
is enough for what happens to a connection, since connections share only the loops and
`connections_`; two are used where they share a loop. A send buffer of one byte with
messages of two makes every write partial, and two messages let one overtake another.
Three producers make `notify_one` choose; lengths 1 and 3 in a buffer of 3 give an
exact fit, a message that waits and one that would have fitted. Two calls and two
workers make `notify_one` and the queue matter, one descriptor makes the second socket
fail, a buffer shorter than the message gives partial records. Four messages in
batches of two fill a file, roll it and fill the next; two processes meet each other's
names; January 11 and November 1 have one stamp; two sinks are enough for one to have
a batch that the other has not, and to share a file. A file of two bytes over a send
buffer of one needs two rounds; the run that violates `FileWithinCount` has a third
byte behind the range. `MaxPosts`, `MaxSends`, `MaxData`, `MaxBytes`, `MaxPushes`,
`MaxCalls`, `MaxStops`, `MaxMessages` and `MaxLives` only limit how often the
environment acts. Every run turns off the deadlock check: the environment may fall
silent, a loop that has quit or a terminated process takes no step.

**Fairness.** Threads that can run do (`WF` of each loop, of the owner of a loop that
starts or destroys it, and of the consumer); a call that has begun is finished; the
workers of the pool and the threads of a backup server that runs go on, once there is
something to read; user and flush callbacks return; the kernel goes on sending (`WF`
of `PeerRead`), which takes a peer that reads what it is sent, or a kernel that gives
the connection up. A woken producer competes for `mtx_` with others that may take it
again and again, so it has strong fairness: a mutex that is free again and again is
obtained in the end. Nothing else is assumed of peers, nor anything of the return of a
backup server that died, of spurious wakeups, or of the poll timeout (except in
`loop_lost_quit`, where even the timeout does not help). The liveness of `server_live`
and `server_single` ends in a removed connection or in a `fault`, and that of `async`
is claimed until `Stop`, because `async_stop_hangs` shows what can happen then.

## 4. Proofs

All of it is for every value of the constants. The assumptions named with a module
are the `ASSUME`s on the constants the proofs cite; TLC evaluates them in the runs.
TLC also finds each inductive invariant (`IInv`, `LTInv`, `Inv`, `Life`, `FileOK`, `SinkInv`)
true on the instances of the runs. Steps that take a prover longer than a moment name
it and the time it may take.

### The loop

`EventLoopProofs`, from `MaxPostsAssumption`:

* `TypeCorrect`: `Spec => []TypeOK`.
* `ExactlyOnce`: `Spec => []ExactlyOnceInOrder`.
* `NoLostWakeup`: `Spec => []NoSleepOnWork`.
* `LoopIsTaskQueue`: `Spec => ImplementsTaskQueue`, step by step: a post, the swap
  and the start of a functor map to a post, a stutter and a start of the FIFO.

`NoSleepOnWork` is not inductive: it speaks of the loop before and in
`epoll_wait`, and the danger is created earlier. `IInv` adds `Announced` (a
functor is announced by the eventfd or by a thread about to write it, unless the
loop is past `epoll_wait` and before the swap), `CallingWhilePending`
(`callingPendingFuntors_` is true exactly inside `doPendingFunctions`, which is
what makes a functor's own post write the eventfd), `SwappedWhileRunning` and
`InitOwnsQueue`. `HandleWakeup`, which resets the eventfd, happens only where
`Announced` demands nothing; the swap that follows empties the queue. The order
lemmas treat the three lists as one.

`LoopThreadProofs`, from `OwnerAssumption` (and what `EventLoopProofs` needs):

* `LoopThreadImplements`: `LTSpec => ImplementsEventLoop`, step by step
  (`StepIsLoopStep`), and with it `NoLostWakeupInPool` and `PoolLoopIsTaskQueue`: the
  theorems on `EventLoop` hold of the loops the pool runs.
* `LoopPointerNeverDangles`: `LTSpec => []LoopPointerValid`.
* `OwnerGoesLast`: `LTSpec => []OwnerOutlivesThread`.

`ImplementsEventLoop` and `LoopPointerValid` are proved for every instance and no
run repeats them. `LTInv` strengthens the last two by `NotToldToQuit` (until the destructor, or
somebody else, calls `quit()` the flag is false and `loop()` has not returned) and
`LoopSetForOwner` (so the owner that got the loop finds `loop_` set). The loop's
own steps enter through `LoopStepPc`: none goes back before the publication, none
stops unless told to.

### Buffer

`BufferProofs`, from `BufferAssumption`:

* `IndexesStayInRange`: `Spec => []IndexesInRange`.
* `NoByteLost`: `Spec => []ReadableIsUnread`.
* `BufferIsByteQueue`: `Spec => ImplementsByteQueue`.

`Inv` describes the readable cells; `CopyAppends`, `ResizedHolds` and
`MovedHolds` say what a copy, a growth and a compaction do to such a buffer,
`AppendHolds` joins the three branches of `append`.

### Server and connections

`TcpServerProofs`, from `ServerAssumption`, `NameAssumption` and `LoopAssumption`:

* `TypeCorrect`: `Spec => []TypeOK`.
* `PollerAgrees`: `Spec => []ChannelsConsistent`.

`Typed` is `TypeOK` with the types of the parts (and that a functor that sends has a
message). An operation enters the later proofs only through its effect on one
connection: `Sends`, `Drains`, `Closes`, `Destroys`, `Becomes`, `ShutsDown`, each with
a lemma that the code's steps have it. `UpdateEffect`, `RemoveEffect` and
`ChannelEffect` say what an operation of `Channel` does to `index_`, the poller's map
and the epoll set; `StepOperates` that every step treats a channel by at most such
operations, from which `PollerAgrees` follows.

`ConnectionProofs`, from the same:

* `DeadConnectionsGone`: `Spec => []DeadIsUnregistered`.
* `DownReportedOnce`: `Spec => []DownIsReported`.
* `WritingWhileBuffered`: `Spec => []WritingIffBuffered`.
* `OutputBeforeFin`: `Spec => FinAfterOutput`.
* `StreamIsIntact`: `Spec => []StreamIntact`.
* `FilesGoOutInOrder`: `Spec => []FileIntact`.

The first two need to know where a connection is in the three hops that take it
apart. `Life` says it: `TodoOK` of the functors that still run on a loop (the rest of
the batch and the queue as one list, so that the swap is no change): each fits the
state its connection is in then, and a `connectEstablished` comes first and once;
`LoopOK` of the handlers and callbacks under way; `UserOK` of other threads, which
hold only connections that were established; `ConnOK` of the state, the channel, the
count of reports and `connections_`, with `Falling` for a connection between
`handleClose` and `connectDestroyed`. `LifeStep` reduces a step to what it does to one
connection and to the lists.

For the output every step is one of five to a connection (`StepKinds`): `Idle`,
`Begins`, `Ends`, `Writes`, `Flushes`; the next three theorems have a case for each.
`Flat` is the byte stream of a list of messages; `FlatAppend` and `CutInTwo` are what
makes partial writes of messages of any length add up.

`FileIntact` speaks of the bytes that are out, and a file is sent in rounds, of which
the next one is somewhere in the list of a loop. `FileOK` says what those rounds may be:
no call of `sendFile` has two of them, neither in one list nor in two loops
(`RoundsApart`); a round starts at the offset up to which its file is out
(`RoundsFollow`); a call that is not made yet, or that a thread has begun without having
queued its first round, has sent nothing and has no round (`CallsFresh`), and no two
threads are in the same call. The swap of the lists changes nothing, since they are
treated as in `TodoOK`. Most steps give no loop a new round and send nothing of a file
(`FilesRest`, `RestKeeps`); the others replace the round of one call by its next one
(`ListsGo`) and add a part of the file (`FileGoes`, `PartFollows`), which `RoundKeeps`
joins. That a part does not cut into a message is where the byte stream comes in: a
round sends only while no output waits, and then, by `StreamIntact`, what is out are
whole messages (`NothingWaits`).

### Logger

`AsyncWorkerProofs`, from `WorkerAssumption`:

* `OnceAndInOrder`: `Spec => []FlushedInOrder`.
* `NoLostNotification`: `Spec => []NoSleepOnData`.
* `NothingLostByStop`: `Spec => []StopKeepsPushed`.
* `BuffersNotOverrun`: `GrowthSuffices => (Spec => []WithinBuffer)`.

`IInv` adds `LockHeld` (where the consumer keeps `mtx_` from one step to the next),
`EmptyOutsideFlush` (the swap meets an empty consumer buffer), `LeavesStopped` and
`StopCounts`. The hypothesis of the last theorem is needed: growth is linear because
of the misspelt key, one step of it covers a message only if the message is not
longer, and the unsafe mode does not test. In the safe mode it holds for any length.

`LogFlushProofs`, from `LogAssumption`, for any sequence of sinks:

* `TypeCorrect`: `Spec => []TypeOK`.
* `FilesOnlyGrow`: `Spec => NothingErased`.
* `RolledFilesUntouched`: `Spec => RolledFilesStay`.
* `SinksGetAllInOrder`: `Spec => []SinkInOrder`.
* `FlushedOutlives`: `Spec => []FlushedIsKept`.
* `RolledFilesFull`: `Spec => []RollSizes`.

`FileInv` is the types with `StreamsOK` (which file a `FILE` may be open on) and
`NamesOK` (the files a process rolled are numbered by `cnt_`, which is why they differ
although stamps do not). Except for `FilesOnlyGrow`, the properties are about a sink
that is `Alone`, and the proofs have to show that no other sink writes to its files:
the names of its files have it in them, and a `FILE` is open on a file of its own sink.
The last three properties speak of a moment at which the
process has ended, and that may be between any two calls of stdio, so `SinkInv` says
for every place of `RealFlush` (`Up`) what each sink has by then (`Received`), how much of it is
still in stdio (`Unflushed`) and how much is on disk (`SinkOK`), that the files rolled
before are in order, full and, with `fsync`, on disk (`RolledOrder`, `RolledSizes`,
`RolledSynced`), that `cur_size_` counts the present one (`RollingOK`), and that what
is found is a prefix of what is there (`FoundOK`). Each way to end then gives the three
properties, which nothing changes until the next process (`Down`).

### Error log, pool and backup

`ErrorLogProofs`, from `LogAssumption` of `ErrorLog` and `PoolAssumption` (threads and
workers are finite sets, and there is a worker):

* `TypeCorrect`: `Spec => []TypeOK`.
* `NoWakeupLost`: `Spec => []WakeupPerTask`.
* `EveryFutureIsMade`: `Spec => []NoTaskDropped`.
* `BackedUpOnce`: `Spec => []OneRecord`.
* `DescriptorsAccounted`: `Spec => []DescriptorsLeft`.

`IInv` has `PoolInv` (the destructor, `stop` and the workers that have left), `TaskInv`
(a task is in one place), `FutureInv` (the task somebody waits for is queued, with a
worker or done), `ClientInv` (a `start_backup` has a socket where the code has one),
`FreshInv` and `LinkInv` (a message that was not sent has no connection; one that is
recorded has no second). `WakeupPerTask` and `DescriptorsLeft` count threads, so that
their steps go through the cardinality theorems of the library.

### Only model-checked

All liveness: fairness and `ENABLED` are outside the prover's reach. The four
violations are counterexamples of TLC. Every other property of the passing runs, the
invariants, the action properties and the refinements, is a theorem.

## 5. Not modelled

`~TcpServer` handing `connectDestroyed` to the loops, which runs only after the
main loop has returned, and nothing in the repository makes it return; `LoggerManager`, a map behind
a mutex (the race of `AddLogger`, `Manager.hpp:26`, lets a second logger of one name
replace the first); descriptor numbers and their reuse; whose memory a queued
message points to (`TcpConnection.cpp:69`); write errors of the log files, which
the code only prints; a `config.conf` that cannot be read, which leaves
`flush_log` unset. Formatting, addresses, time stamps and the example programs have
no behaviour to check.

## 6. Plan

1. Done: `EventLoop`, `TcpServer` with `Channel`, `Buffer`, `AsyncWorker`, `ErrorLog`
   with `ThreadPool`, their runs and the first theorems.
2. Done: `sendFile` in `TcpServer`; `LoopThread` for `EventLoopThread`, the pool and
   the destructors, with its theorems; `LogFlush` for several sinks and rolling
   files; runs merged where they ask one question.
3. Done: all safety properties of the runs proved for every instance, `FileIntact` the
   last of them, with the refinements of `TaskQueue` and `ByteQueue`.
4. Left: nothing of what the runs check. What would say more about the code needs more
   of it in the model: whose memory a queued message points to, the destructor of a
   `TcpServer` whose main loop has returned, and `LoggerManager` (section 5).
