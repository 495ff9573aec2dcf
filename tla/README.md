# TLA+ models of lim_webserver

This directory holds a TLA+ development of lim_webserver ("spike"): the coroutine scheduler, its
lock-free queue, the event loop, the hooked system calls that let coroutines wait for sockets,
timers, the asynchronous log appender, the TCP server with its sockets and descriptors, the HTTP
parsers and sessions on top of it, and the byte array. TLC checks every model on small instances;
TLAPS proves the most important invariants for all instances. `PROJECT.json` lists the
components, the runs, the mapping from definitions to source lines, the mutants that show the
properties have teeth, the hazards and the theorems.

Run a check with `tlc -config <cfg> <module>`, a proof with `tlapm <module>Proofs.tla`.

## 1. The system

| part | state | operations | interacts with |
|---|---|---|---|
| `Scheduler` (coroutine/Scheduler) | `m_mutex`, `m_started`, `m_processors`, `m_lastActiveIdx`, `m_thread` | `start`, `startInNewThread`, `stop`, `createTask`, `addTask` | owns the processors; round-robin dispatch of new tasks |
| `Processor` (coroutine/Processor) | `m_newQueue`, `m_runableQueue`, `m_garbageList`, `m_curTask`, `m_idled`, `m_notified`, `m_addNewRemain` | `run`, `getNextTask`, `addTask`, `wakeupTask`, `tickle`, `idle` | one thread each; any thread adds or wakes tasks |
| `Task` (coroutine/Task) | `m_state` (READY, EXEC, HOLD, TERM, EXCEPT), context | `yield`, `hold`, `wake`, `run` | runs on its processor, woken by timers and channels |
| `LFQueue` (base/LFQueue.h) | linked nodes, `head_`, `tail_` | `enqueue`, `dequeue`, `concatenate` | the processor's two queues |
| `EventLoop` (net/EventLoop) | `m_wakeFd`, poller | overrides `tickle` and `idle` | a processor that sleeps in epoll |
| `EpollPoller`, `IoChannel`, `FdInfo`, `FdManager` | channel map, epoll set; per descriptor state, events, task, flags, timeouts | `updateChannel`, `removeChannel`, `poll`, `trigger`, `addEvent`, `cancelEvent`, `clearEvent`, `create`, `get`, `del` | loop thread and timer thread |
| Hooked calls (coroutine/Hook) | locals of `do_io` and `connect` | `recv`, `send`, ..., `connect`, `accept`, `close`, `sleep`, `fcntl`, `ioctl`, ... | channels, timers, the current processor |
| `TimerManager` (coroutine/Timer) | ordered timer set, `m_previousTime`, `m_started`, a thread | `addTimer`, `cancelTimer`, `refreshTimer`, `resetTimer`, `listExpiredCallback`, `run`, `stop` | runs callbacks without its lock |
| `AsyncAppender` (splog/LogAppender) | double buffer, `buffer_vec`, `m_started`, mutex and condition | `append`, `submitBuffer`, `start`, `stop`, `run` | producers and one back-end thread |
| `TcpServer`, `Socket` (net/Server, net/Socket) | `m_socket_vec`, `m_started`; descriptor and its `FdInfo` | `bind`, `start`, `startAccept`, `stop`; `accept`, `init`, `close` | accept tasks and handlers are tasks of an event loop |
| `HttpServer`, `HttpSession`, `HttpParser` (net/http) | connection, request under construction; buffer, `nparsed`, marks, callbacks | `handleClient`, `recvRequest`, `sendResponse`; `execute`, `isFinished`, `hasError` | hooked `recv`; the generated scanners |
| `http11_parser`, `httpclient_parser` | `cs`, `mark`, `field_start`, `field_len`, `query_start`, ... | `init`, `execute`, `finish`, `is_finished`, `has_error` | one buffer per call, callbacks to `HttpParser` |
| `ByteArray`, `SocketStream` (net) | node list, read and write pointer, capacity | typed, raw and positional reads and writes, buffers for `readv`/`writev`, files, `clear` | kernel reads and writes its nodes |
| Loggers, sinks, rolling files, formatting, configuration | registries, files | lookup, append, roll over, update from YAML | - |
| Addresses, threads and locks, contexts, utilities | - | wrappers | - |

What is hard here: threads park and are woken with and without a lock; the queue is lock-free;
a wake-up may overtake the suspension it is for; epoll is edge-triggered and the registration
comes after the attempt; timeout callbacks run on another thread and may be late; descriptors
are reused; stopping races with starting, appending and waiting; messages arrive in pieces that
end anywhere, in parsers that keep pointers into the piece before; reads and writes begin and
end at node boundaries.

What makes each part correct: no wake-up is lost and no task is lost, duplicated or resumed
after its end (Processor); values come out once, in producer order, and do not disappear
(LFQueue); one main run with a complete pool, tasks run, stop returns (Scheduler); queued tasks
are taken over although the parking protocol has no lock (EventLoop); a waiting task is woken
when, and only when, it should be, and the poller's map matches its channels (IoWait); timers
fire once and in time (TimerManager); log lines are written once, in order, and the buffers
never run out (AsyncAppender); connections are served and descriptors neither leak nor mix
(Server); callbacks come in order, with the bytes of their token, however the message is cut
(HttpParser); requests come back as they were sent (HttpSession); bytes come out as they
went in (ByteArray).

## 2. Modules

Each module has one action per operation or atomic step; comments name the statement it stands
for. Definitions called "Mutant of ..." are variants with a plausible bug; `PROJECT.json` says
which property each of them must break. They are never part of a specification. `TypeOK` says
what each variable holds.

* **Processor** - `Processor::run` and its callers. `pc` is the position of the processor's
  thread: the outer loop (`loop`, `fetch`, `idle`, `wait`, `collect`), the inner loop (`inner`,
  `settle`) and the running task (`exec`, `registered`). Threads enqueue and tickle in two steps
  (`tickling` holds the ones in between), because `addTask` enqueues before it takes the mutex;
  `tickle` and the test-and-park part of `idle` are atomic because both hold `m_mutex`. The two
  queues are atomic FIFO queues here (LFQueue looks inside). Spurious wake-ups of the condition
  variable are possible. A task yields, sleeps (it arms a wake-up, then holds; the wake-up may
  come before the hold), finishes or throws. `m_garbageList` is collected above `GarbageLimit`.
  `m_started` is set by `start()`, before or after the processor's first look at it. There is no
  `stop()`: it clears `m_started` under the mutex that `start()` holds while the main processor
  runs, and does not get there (module Scheduler).
* **TaskPool** - the abstract specification of Processor: which tasks are created, ready, running
  and to be woken, and nothing of queues, locks or parking. Processor defines the mapping (`Pool`):
  ready are the queued tasks and the one in hand (`InHand`), which `getNextTask` has taken and
  `swapIn` has not resumed, or which has yielded and is not queued yet.
* **LFQueue** - the queue at the level of its atomic operations: `enqueue` is exchange of
  `tail_`, then link or store of `head_`; `dequeue` is load, read `next_`, CAS, re-check, reset
  of `tail_`, delete; `concatenate` has six steps. Nodes carry their value; `heap` says whether a
  node was deleted, `dangling` records writes to deleted nodes, `overtaken` the race windows.
  Sequential consistency is assumed (the code uses the default memory order for its atomics).
  `EnqueueUse`, `DequeueUse` and `ConcatUse` say which threads use which queue; MCLFQueue gives
  the processor's use.
* **Scheduler** - concurrent `start()` calls, the creation of slave threads, `m_mutex` held
  during the main processor's `run()`, dispatch, `stop()` from clients or tasks. Processors are
  reduced to queue, current task and exit test; `Init` allows any value of the uninitialised
  `m_started` in `Garbage` and any `m_lastActiveIdx`.
* **EventLoop** - the unlocked `tickle`/`idle` pair with every test and assignment a step of its
  own, the wake descriptor, and `epoll_wait` with its timeout of ten seconds. Around them
  `getNextTask` and the two loops of `run()`, over the numbers of new and runable tasks: a task
  yields or leaves, and new tasks are taken over only when the runable queue is empty and, in the
  inner loop, `m_addNewRemain` allows it.
* **IoWait** - hooked calls, channels, poller and timeout callbacks of one loop. A task goes
  through `run`, `try` (native call), `add` (`addEvent`), `update` (`updateChannel`, `CoHold`),
  `held`, `woken`. `interest`, `pend` and `rdy` are the kernel's side: registration, ready list
  (edge-triggered: an entry appears on arrival or on ADD/MOD of a ready descriptor) and
  readiness. The timer thread first takes callbacks (`TimerTake`), then runs them in three steps
  (`cancelEvent`, `updateChannel`, `expired = true`) while the loop goes on. `raced` records that
  a callback step ran while its task was not, or no longer, held in the wait it belongs to.
  A failed ASSERT ends the program.
* **AsyncAppender** - producers, back-end thread and `stop()`; buffers are sequences of lines
  with a length, so that "fits", "swap", "drop above the limit" and "recycle" are those of the
  code. The loop condition `m_started | !m_buffer.empty()` is two unlocked reads in either order
  (`ReadFirst`, `ReadSecond`), with steps of `stop()` and the producers between them.
  `Pending` is the log still to be written, in its order. MCAsyncAppender gives line lengths.
* **TimerManager** - the owner of each timer (`addTimer`, `cancel`, `refresh`, `reset`, with a
  step for each critical section and each test outside of one), the timer thread (`loop`,
  `wait`, `list`, `call`) and the system clock, which advances and may be set back. The test of
  `m_started` and the lock of `run()` are one step: between them only `thread` changes. The set
  is ordered by `Before`, the comparator of the code. `erase(end())` in `cancelTimer` is
  undefined; it is recorded in `erasedEnd` and the behaviour ends there.
* **Server** - `TcpServer::bind`, `start`, `startAccept`, `stop`, the `Socket` operations they
  use and the descriptor table behind them: each number has a use, the user's and the kernel's
  blocking mode and the receive timeout. Accepter and worker are one event loop with one thread,
  so a step lasts until a hooked call holds the task. `call` keeps the locals of an accept in
  `do_io`: the number it was called with and the Socket it has made. Clients connect and handlers
  set modes (`fcntl`, `ioctl`) and return. `bind()` may come at any time, also after `start()`,
  which leaves its socket without an accept task; a second `start()` without a `stop()` in between
  is not modelled. A null pointer or a failed ASSERT sets `crashed`.
* **RequestMachine**, **ResponseMachine** - the two generated scanners as sets of rules: state,
  byte class, actions, next state. A Ragel machine of hundreds of numbered states is a few
  regular families; the states here carry a part, a name and a counter instead of a number. The
  rules were obtained from the generated switches and compared with them transition by
  transition, for each of the 256 bytes in every state, actions included.
* **HttpTokens** - the reference: which bytes of a message are which token, told by delimiters
  alone.
* **HttpParser** - `HttpRequestParser` and `HttpResponseParser` with `execute` on buffer after
  buffer. A mark is abstracted to the set of tokens that begin where it points, which keeps the
  model finite for messages of any length; `out` holds the callbacks of the last byte, with
  what the reference says of them. `uri_relaxed`, which nothing initialises, is arbitrary.
* **HttpEvents** - the abstract specification of both parsers: stages of a message and the
  callbacks that may come in each. MCHttp shows that HttpParser implements it, with the
  stage as a function of the scanner's state.
* **HttpSession** - `handleClient`, `recvRequest` and `sendResponse` around the request parser of
  HttpParser; the peer's bytes arrive in reads of any size. `got` holds the requests returned and
  where their bytes came from; `gone` says that the peer has left. MCHttp gives the
  messages, and starts either a session or one of the parsers alone.
* **ByteCodec** - fixed-width integers with byte order, zigzag and varint encodings, and strings
  with a length field, at a scaled width with the arithmetic wrapping as in the code.
* **ByteArray** - the node list, both pointers, capacity, and all operations, among them
  `resv` and `send` of `SocketStream`, which may move fewer bytes than were lent. A byte is
  stamped with its position in the stream.
* **ByteQueue** - the abstract specification of ByteArray, a FIFO queue that may die;
  MCByteArray shows the refinement.
* **ProcessorProofs, LFQueueProofs, SchedulerProofs, EventLoopProofs, IoWaitProofs,
  TimerManagerProofs, ServerProofs, AsyncAppenderProofs** - the theorems about the module of that name, their
  inductive invariants and proofs.

How they compose: HttpSession extends HttpParser, which uses the two machines: it
runs the real scanner. The others share interfaces rather than variables: Processor takes from
LFQueue that its queues are FIFO, which LFQueue shows to hold only outside the named races;
EventLoop replaces Processor's locked parking; IoWait takes from Processor that queued tasks are
run one at a time; Server takes from IoWait that readiness resumes a held task, and repeats what
`close()` and the channel map do to descriptors that are used again; HttpSession takes from
IoWait that a hooked `recv` returns what has arrived.

## 3. Runs

| run | instance | checks | result |
|---|---|---|---|
| processor | 3 tasks, 2 threads, garbage limit 1 | NoLostWakeup, OneClaimPerTask, RunsTaskPool, QueuedTaskRuns | pass, 85,608 states |
| lfqueue | 3 threads, 2 queues, 4 nodes | ProducerOrder, LossOnlyWhenOvertaken | pass, 217,836 states |
| scheduler | 2 starters, 1 client, 2 slaves, 2 tasks, any `m_started` | OneMainRun, PoolComplete, TaskRuns | pass, 5,492 states |
| scheduler_stop | 1 starter; a client and a main-processor task may stop | StopReturns | violated: `stop()` waits for the mutex `start()` holds |
| event_loop | 3 threads, 4 tasks queued or running | MissedWakeupRecorded, PendingTaken | pass, 25,183 states |
| async_appender | 2 producers, 2 lines each of length 1 or 2, buffers of 3, limit 2 | TypeOK, BuffersReady, LogPreserved, LineReachesAppender, StopReturns | pass, 94,078 states |
| io_wait | a task reading and writing with a timeout, a task connecting, 2 descriptors | PollerAssertions, WokenOnce, ReadinessWakes | pass, 377,079 states |
| io_timeout | one task reading with a timeout, 1 descriptor | TimeoutReturns | violated: a timed-out task is not resumed |
| timer_manager | 1 one-shot timer that is operated on, 1 recurring one, periods 1 and 2, clock of 3 values | OneShotConserved, NoOversleep, DueTaken | pass, 677,682 states |
| server | 2 clients, 3 listening sockets, 6 descriptors | DescriptorsExact, ModeKept, StealsOnce, CrashOnlyAfterStopOrFull, ClientsServed, StopLosesWaiters | pass, 156,459 states |
| http | either parser alone, messages and buffers of any length; a session with 2 requests (one with a body), a buffer of 34 bytes, reads cut anywhere | CallbacksExact, EndReported, ImplementsEvents, RequestsInOrder, DroppedOnlyPipelined, EventuallyClosed | pass, 172,091 states |
| byte_array | nodes of 3 bytes, stream of 8, requests up to 5, bytes of 2 bits, words of 2 bytes | RoomOtherwise, LookupsRight, ValuesRoundTrip, ImplementsQueue | pass, 289,587 states |

Five more configurations hold counterexamples to comments of the repository; they are run by
hand, and TLC reports the property violated in each:

| configuration | module | property | what a comment says, and what the code does |
|---|---|---|---|
| AsyncDrain.cfg | MCAsyncAppender | StopDrains | LogAppender.cpp:289, "当停止时，如果前端缓存仍然有数据则将数据写入后再结束线程" (on stop, data in the front is written before the thread ends): the back end finds no buffer and `m_started` false around the two halves of `stop()`, and ends with the submitted lines unwritten |
| ByteArrayFull.cfg | MCByteArray | GrowsWhenFull | ByteArray.cpp:569, "若老容量已经为空，则直接将写指针所指向的内存指向下一块" (with the old capacity used up, the write pointer goes to the next block): the null write pointer is followed at line 560, before that |
| ByteArrayFree.cfg | MCByteArray | GrowsWhenFree | ByteArray.h:332, "扩容ByteArray,使其可以容纳size个数据" (makes room for size bytes): after a short receive whole nodes are unused; the new ones take their place in the list, the old ones stay in `m_capacity`, and the write leaves the list |
| ByteArrayRead.cfg | MCByteArray | ReadsAnywhere | ByteArray.h:284-287, "position 读取开始位置" (the position the read starts at): the read starts in the node of the read pointer (ByteArray.cpp:460) |
| ByteArrayFile.cfg | MCByteArray | FileIsContent | ByteArray.h:293, "把ByteArray的数据写入到文件中" (writes the data to the file): the offset in the node is taken off a length that was not cut to the node (ByteArray.cpp:505) |

**Bounds.** Three tasks let one run while two sit in different queues, and one be garbage while
another is fetched; two threads let one be between enqueue and tickle while another creates
or wakes. Four nodes allow a queue with a middle element and both kinds of concatenation.
Two starters are enough to race. Three threads against one loop exercise every combination of
missed and seen flags, and four tasks let one run while others are runable and new. In AsyncAppender a buffer of three and lines of one and two make a line
fit exactly, not fit, and leave a remainder, and the limit of two buffers is exceeded. In IoWait
two descriptors and two tasks give both simultaneous waits and reuse (a task starts on the
descriptor another one closed); which calls a task makes and whose peer hangs up is fixed by
`Uses` and `HangUps` to keep the instance small. In TimerManager two timers compete for the
front of the set, three clock values let a timer be set, due and overdue and the clock go back by
more than `Hour`; `Operated` restricts cancel, refresh and reset to one of them, which may
repeat them without bound. In Server three listening sockets allow two at once and one that is
bound after a stop and gets an old number; two clients can use up six descriptors. The HTTP
parsers need no bound: their state space is finite. HttpSession's buffer holds its longer
request but not the two together; 34 bytes also let a read end in each of its tokens. In
ByteArray nodes of three bytes and requests of up to five begin and end at every offset and span
up to three nodes; the scaled integers take every value of their width, the extremes and those
that need each number of varint groups among them. The waits, calls and wake-ups themselves are
not bounded: only tasks, nodes, lines, descriptors, clients and bytes are.

**Fairness.** Weak fairness for each thread that is inside an operation: the operating system
schedules runnable threads, timed waits return. Running tasks eventually leave the processor
(cooperative scheduling is the premise of the design); armed wake-ups of `sleep` come. Nobody is
obliged to create tasks, stop, log, connect or send. IoWait assumes no fairness for timeouts, so
that ReadinessWakes cannot rely on them; TimerManager assumes none for the clock, so DueTaken
speaks of timers whose time has come. Server: the loop comes round to each accept task and
reports each ready listening socket; handlers need not end. HttpSession: once the peer has gone
(closed or reset the connection) the session goes on, because every hooked `recv` then returns;
before that nothing is assumed, since the receive timeout that the server sets resumes nobody
(the finding of io_timeout). Some liveness properties carry their proviso in the formula:
QueuedTaskRuns and PendingTaken (tasks do not yield for ever), ReadinessWakes and TimeoutReturns
(the loop comes back from its tasks again and again), ClientsServed (the socket has an accept task). Mutexes are not assumed to
be granted fairly.

Deadlock is not checked where the system may really stop: all tasks finished and nobody acts,
a bound used up, the processor stopped, a crashed process. The runs of AsyncAppender and of
the HTTP modules do check it.

## 4. What the runs show

* *Processor.* With the mutex the parking protocol is right: `NoLostWakeup` says a parked,
  unsignalled processor has nothing to do or somebody is about to tickle. `OneClaimPerTask` says
  tasks are neither lost nor duplicated even when a timer fires before the task has suspended.
  `RunsTaskPool` says the same of the steps: a task is resumed once for its creation and for each
  yield and wake-up, one task at a time, and cannot yield or end once it has asked for a wake-up.
  `getNextTask` consults `m_newQueue` only when the runable queue is empty; a task that yields
  for ever starves new tasks, hence the proviso of QueuedTaskRuns.
* *LFQueue.* Values are delivered at most once and in producer order under all interleavings,
  but a value can disappear: a dequeue that takes the last linked node, or finds the queue empty,
  resets `tail_` under an enqueue that is still linking. `LossOnlyWhenOvertaken` shows these
  windows are the only ones; in the same windows `enqueue` may write `next_` of a deleted node,
  which may be the unexplained exit that src/README.md line 238 reports.
* *Scheduler.* The mutex admits one `start()`, with a complete pool, but `stop()` needs the same
  mutex and never returns while `start()` runs. A slave that evaluates `stopping()` before
  `m_started` is set ends for good, yet `addTask` still gives it tasks: TaskRuns names this as
  the one way a task is stranded while no task calls `stop()`. If the uninitialised `m_started` happens to be true, `start()`
  returns at once.
* *EventLoop.* Without the mutex a wake-up can be missed and the loop sleeps with work queued; the
  wake-up is then on record in `m_notified` (MissedWakeupRecorded) and the tasks are taken over
  after the poll timeout at the latest (PendingTaken), if tasks do not yield for ever: a task that
  does keeps the runable queue from being empty, and `m_newQueue` is not looked at.
* *IoWait.* In time, everything fits: the assertions of the poller hold, each wait is woken at
  most once, readiness is never missed. A timeout, however, clears the registration and wakes
  nobody: the call does not return ETIMEDOUT as the comments in Hook.cpp (lines 157, 303, 325) say,
  it does not return at all (io_timeout: TimeoutReturns is violated). A callback that was taken but runs after its wait cancels the next
  wait's event, or enters a closed channel into the map; the properties are therefore stated
  up to `raced`.
* *TimerManager.* A one-shot timer is never lost, fires once, and does not fire once `cancel()`
  has returned true. Two things are wrong in the code and named in the properties: `cancelTimer`
  tests `m_callback` before it locks, so a timer the thread takes in between leads to
  `erase(end())` (`erasedEnd`); and `refreshTimer` inserts without a tickle, so a wait computed
  between its two critical sections, or before the clock is set back, sleeps past the timer
  (`mayOversleep`). Outside of these the unlocked look at the front of the set is harmless: if
  it finds another timer in front, the owner of that one notifies.
* *AsyncAppender.* The assertions of `run()` hold, `reset()` always finds the buffers it takes,
  and lines are written once and in order except for those the limit drops. On `stop()`
  the back end may find `buffer_vec` empty before the last buffer is submitted and `m_started`
  false after it was cleared; the thread then ends with lines in the front, against the comment
  on its loop (LogAppender.cpp:289; StopDrains is violated). Without a stop every
  buffered line is written (LineReachesAppender), and `stop()` returns (StopReturns).
* *Server.* Clients of a socket with an accept task are served as long as descriptors last
  (ClientsServed); those of a socket bound after `start()`, which has none, wait for ever. But `Socket::accept` creates a
  descriptor for the new Socket that `init()` then overwrites: each accepted client costs one for
  good (DescriptorsExact says that exactly this many are lost). When none is left, `accept`
  returns null and `startAccept` uses it. `stop()` closes the listening sockets without waking
  their accept tasks: a waiting one is lost with the descriptor it has made (StopLosesWaiters);
  one that was about to accept goes on with its old descriptor number, which a later `bind()`
  may have got: it takes at most one client of the new server (StealsOnce), or registers its
  channel under that number, and the poller's ASSERT fails. These are the only ways to die
  (CrashOnlyAfterStopOrFull). `ioctl(FIONBIO, 0)` makes the kernel's socket blocking, and with it
  the thread of the loop (ModeKept); `fcntl` keeps the two modes apart.
* *HttpParser.* `execute` clears the marks and `recvRequest` moves the unparsed rest to the front
  of the buffer, but the scanners consume all they are given: a token that is cut by the end of a
  read is reported with the wrong bytes, or, for a field cut after its name, not at all.
  CallbacksExact says that this is the only way to go wrong: a token that lies in one buffer
  is always reported exactly. The order of the callbacks is right on every path
  (ImplementsEvents). `httpclient_parser_is_finished` knows one of four final states: a response
  that ends in an empty special field never counts as finished (EndReported).
* *HttpSession.* A request whose head came in one read, whose body came with it or in one read
  more, and after which nothing was sent ahead, comes back as it was sent (RequestsInOrder,
  DroppedOnlyPipelined). Otherwise: a cut Content-Length loses the body, a body is read with one
  `recv` and may be short, and what a pipelining peer has sent is thrown away with the buffer.
  A connection whose peer has left is closed (EventuallyClosed); one is kept only if the request had a Connection: keep-alive field, since `m_close`
  starts as true. The test `offset == buff_size` for a full buffer is never met.
* *ByteArray.* Within its limits the array is a FIFO queue of bytes, through any sequence of
  writes, reads, loans to the kernel and clears (ImplementsQueue). Four configurations show
  what the comments promise and the code does not do. `addCapacity` follows a null pointer when the last
  byte of the last node is taken, where the comment in it says the write pointer goes to the next
  block (GrowsWhenFull), and when a request exceeds what is free while whole nodes are unused it
  does not make the room its documentation says (GrowsWhenFree); in all other states there is
  room (RoomOtherwise). The positional `read` returns other bytes for a position outside the node
  of the read pointer (ReadsAnywhere), and `toFile` from inside a node with less than a node's
  worth unread does not write the data of the array (FileIsContent); elsewhere these operations,
  `toString` and the positional `getReadBuffers` are right (LookupsRight).
  All numbers come back as written but for `writeFint32`, which does not swap, and strings longer
  than their length field, which are cut (ValuesRoundTrip).

Seen while modelling and outside the runs: a second `TcpServer::start()` gives each listening
socket a second accept task on the same channel; a receive timeout of 0 means "none" to the kernel
and "at once" to the hook; a failed `bind()` of several addresses also drops the sockets bound
before; `sleep()` multiplies in unsigned arithmetic and `getNextExpire()` is narrowed to `int`; a
recurring timer cancelled after its callback was listed runs once more; a task that sleeps while
its channel is registered may be woken by the channel; `close()` outside a loop's thread uses a
null processor; the retry loop of `LogSink` after a short write repeats the same bytes.

## 5. Proofs

The theorems hold for any sets of tasks, threads, clients or producers and any sizes. Each proof
module begins with the inductive invariant; then one lemma per action, and under it one step per
conjunct the action can disturb; the theorems are at the end. The theorems are about
`Init /\ [][Next]_vars` (`SafetySpec` where the module's `Spec` adds fairness).

* `ProcessorProofs`: **TypeCorrect**, **WakeupNotLost** (NoLostWakeup), **TaskConservation**
  (OneClaimPerTask), **ProcessorIsTaskPool** (the refinement RunsTaskPool). NoLostWakeup is not inductive: the notification may be pending in
  `m_notified` before the processor parks. `ParkInv` follows it from `fetch` over `idle` to
  `wait`: at each of these points, without a notification, there is nothing to do or a thread is
  still to tickle. OneClaimPerTask needs `CurInv` (where the current task is and in which state)
  and `ClaimInv`, which says for every position of the loop which tasks have a claim; lemmas on
  appending, concatenating and taking the head of distinct sequences carry the queue steps. For
  the refinement, `PoolStep` maps each action to one of TaskPool or to a stutter: `SwapIn` is the
  resumption, `CreateTask`, `WakeupTask`, `Yield`, `Register`, `Hold` and `Finish` are the steps of
  the pool with these or like names, and `Fetch`, `Collect` and `Settle` move tasks between the
  queues and the processor's hand, which the pool does not see.
* `LFQueueProofs`: **QueueTypes**, **ProducersInOrder** (ProducerOrder) and **OnlyRacesLose**
  (LossOnlyWhenOvertaken), under the hypothesis
  `ProcessorUse`: everyone enqueues to `new`, and one thread does all the rest, which is what
  Processor.cpp does and MCLFQueue instantiates. (With two consumers the property is false: they
  may return in another order than they took.) ProducerOrder says nothing of the nodes still
  queued, whose next_ pointers may be written late, by an enqueue that is long overtaken.
  `OrderInv` therefore says that *positions exist*: functions `ln` and `lr` of the nodes and a
  border `cut` through the allocated ones, such that every next_, written or about to be, leads
  forward (`Forward`), what was delivered is behind what is to be (`DeliveredFirst`), and what
  is still in `new` is beyond `cut` (`NewSide`) while `runable` leads to nodes below it
  (`RunableSide`). Three steps choose new positions: an enqueue for its node, concatenate when it
  takes the head_ (what it takes goes behind everything in `runable`), and when it takes
  the tail_ (`cut` moves up). `OwnerInv` makes that sound: the first node of `new` has exactly one
  owner (an enqueue about to store head_, head_, or a concatenate), so that no second list is
  begun before the first is taken as a whole. Lost nodes are simply off the path.
  For LossOnlyWhenOvertaken, `KeptInv` holds until a race window is hit: every node in a queue is
  the first of one or follows another (`OriginInv`), a next_ is written once and to a node in a
  queue (`LinkInv`), a tail_ leads to a node that nothing follows yet (`TailInv`), and head_ and
  tail_ agree on emptiness wherever the processor's thread is (`EmptyInv`, `RemoveInv`). With all
  calls returned, `HeldReached` concludes: of the nodes not reachable from a head_ take one with
  the least position; it follows another, which has a smaller one and so is reachable.
  `Chain` is defined by closed sets rather than by recursion for this.
* `SchedulerProofs`: **SchedulerTypes**, **OneStart** (OneMainRun), **PoolIsComplete**
  (PoolComplete), **StopCannotClose** (`RunsForever`). Nothing about a single start() is
  inductive, since `m_started` is garbage at first and is set only after the slaves were created.
  `StartInv` says that either nobody has touched the pool (`Untouched`) or exactly one start()
  holds `m_mutex` from then on (`HeldBy`), with as many processors made as it has counted off
  (`PoolShape`). RunsForever is the cause of the finding of section 4 for every instance:
  `m_started` can be reset only with the mutex, and the mutex is free only once it is reset.
* `EventLoopProofs`: **MissedWakeup** (MissedWakeupRecorded). The invariant covers each queued
  task by a witness: a thread still in `tickle`, the wake descriptor, `m_notified`, or the loop
  being before its next look at the queue.
* `IoWaitProofs`: **IoTypes**, **AssertionsHold** (PollerAssertions), **OneWakeUp** (WokenOnce),
  **TimedOutStranded** (`NoWakeUpLeft`: a held task whose wait timed out has neither a
  registration nor a timer left, the cause of io_timeout for every instance). `BaseInv` holds always: live tasks have descriptors of
  their own (`FdInv`), only registered descriptors are on the ready list (`PendInv`), the running
  task is the one between resumption and hold (`CurInv`), and timers and current callbacks exist
  only during their wait (`TimerInv`). `UnracedInv` holds until a callback runs outside its
  wait: poller map, channel state and kernel registration agree, so that `updateChannel` is
  allowed (`MapInv`); a held task is registered for the event it waits for, or is queued, reported
  or being timed out (`HeldInv`, with `WaitInv` for the steps before the hold); and a queued or
  reported task is new or held and there once (`QueueInv`). WokenOnce alone is not inductive: an
  event reported for a descriptor that was reused would queue the wrong task, which MapInv and
  FdInv exclude.
* `TimerManagerProofs`: **TimerTypes**, **TimersConserved** (OneShotConserved), **ThreadAwakes**
  (NoOversleep). `PlaceInv` gives a one-shot timer its place, `SetInv` keeps timers in their
  owner's hands out of the set, and `CallsInv` keeps the list free of duplicates. The lemma
  `OrderLists` says that `listExpiredCallback` lists every expired timer exactly once; it rests
  on `OrderExists`, by the least element of a set of naturals. `AwakeInv` strengthens NoOversleep
  with the timers a refresh is about to insert (`Coming`): nobody needs to be notified, somebody
  is about to, or the first of all timers is one whose `addTimer` has yet to look for it at the
  front of the set, where it will find it.
* `ServerProofs`: **ServerTypes**, **DescriptorsAreExact** (DescriptorsExact), **ModesAreKept**
  (ModeKept), **OneTheft** (StealsOnce), **WaitersAreLost** (StopLosesWaiters) and **CrashCauses**
  (CrashOnlyAfterStopOrFull), the last two action properties. `ListenInv`, `NewInv`, `ConnInv` and
  `FreeInv` say for each use of a descriptor who owns it, in both directions; only together
  they survive the reuse of numbers. `LeakInv` counts: the leaked descriptors and the accepted
  clients grow by one together. `BacklogInv` keeps a client in one backlog, `ChannelInv` the
  number a waiting task uses, `StealInv` says that a thief has no socket of its own any more.
* `AsyncAppenderProofs`: **AppenderTypes**, **AppenderBuffersReady** and **AppenderKeepsLog**
  (LogPreserved). The bound "two buffers can be recovered" follows from `StandbyInv` (a missing
  standby buffer is in `buffer_vec`) and `RoundInv` (what the back end holds at each step of a
  round). LogPreserved is turned into `Faithful(w, v, acc, dr)`, a statement about what was
  written, the buffers to be written, and the lines accepted and dropped; what each operation does
  to these four is a lemma without state: an empty buffer at the end changes nothing (`GrowLog`:
  submitBuffer and the swap), a new line at the end is the last accepted (`AcceptLine`), writing
  moves the first buffer's lines (`WriteLog`), and erasing all but two buffers drops their lines
  and no others, no line being in two places (`DropLog`). `LogInv` adds what these need: the
  standby buffer is empty (`FrontInv`), only a writing back end has buffers to write (`TodoInv`),
  the line a producer brings into the lock was not accepted before (`FreshInv`), and only accepted
  lines were dropped (`DropInv`).

Assumptions are those of the modules' ASSUMEs, which TLC evaluates in the runs: sizes are natural
numbers, lines fit into an empty buffer, and the value that stands for "none" is none of the
things it is used beside (threads in Scheduler; tasks, kernel registrations and callbacks in
IoWait). `Clients` of Server is finite: DescriptorsExact counts them.

Only model-checked:

* all liveness (QueuedTaskRuns, TaskRuns, PendingTaken, LineReachesAppender,
  StopReturns, ReadinessWakes, DueTaken, ClientsServed, EventuallyClosed): fairness and ENABLED
  are outside TLAPS;
* the refinements of HttpEvents and ByteQueue: the one follows the table of the scanners' states,
  and what a ByteArray holds is a concatenation over a list, which needs induction over data;
* CallbacksExact, EndReported, RequestsInOrder and DroppedOnlyPipelined: the invariant would be a
  table of what the reference knows in each of the machines' states, which TLC computes and a
  reader would not check;
* RoomOtherwise, LookupsRight and ValuesRoundTrip: what recursive definitions over lists and digits
  compute.

## 6. Not modelled

* Memory-model effects weaker than sequential consistency; races inside `std::map` and `std::set`
  (their occasions are).
* Context switching: a wrapper of `makecontext`/`swapcontext`, present as the transfer of control.
* HTTP messages (`Http.cpp`): maps of strings and their formatting; what HttpSession asks
  them (length, close) is in HttpSession.
* Addresses: conversions between text and `sockaddr` by libc.
* Loggers, sinks, rolling files, formatting: sequential string and file handling; the
  asynchronous appender carries the concurrency.
* Configer: templates over a YAML library, with the conversion in that library.
* Thread and lock wrappers, whose semantics is built into the actions; the hazard-pointer
  reclaimer, which nothing uses; utilities.
* Of modelled parts: the wall-clock widths of sleeps and timers, descriptor flags other than
  O_NONBLOCK, datagrams and socket options, `toHexString`, several loops at once.

## 7. Plan

1. Done: Processor, LFQueue, Scheduler, EventLoop, IoWait, AsyncAppender, TimerManager, Server,
   the HTTP parsers and session, ByteArray, the refinements of HttpEvents, ByteQueue and TaskPool,
   and the proofs above.
2. Proofs next: RequestsInOrder with the parser's answers left open.
3. Later: LogSink and rolling files, the registries and their listeners; two event loops with a
   channel that moves between them.
