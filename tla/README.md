# droplet: TLA+ models, checks and proofs

droplet is a C++20 fiber runtime: stackful fibers, an N:M scheduler, an epoll
event loop with timers, system calls hooked to wait by fiber instead of by
thread, and on top of them sockets, a TCP server, HTTP client and server, a
configuration store and a logger. This directory models these parts, checks
them with TLC and proves the safety properties of most with TLAPS. Paths below
are relative to `src/droplet/`.

## 1. Inventory

| component | state | operations | interacts with | hard behaviour | what makes it correct |
|---|---|---|---|---|---|
| Fiber (`src/fiber`) | `state_`, `ctx_`, `back_ctx_`, the thread's current fiber | `resume`, `yield_to_hold`, `yield_to_ready`, `reset`, end | resumed by Scheduler, held by IOManager, timers, hooks | the state changes before the context is saved | one thread on a stack; resumed only suspended |
| Scheduler (`src/scheduler/scheduler*.cc`) | `tasks_`, `stopping_`, thread ids, per thread idle and callback fiber | `start`, `stop`, destructor, `schedule` (one, batch), `getNextTask`, `run`, `idle` | runs fibers; `tickle`, `idle`, `stopping` overridden by IOManager | lost wakeups, pins, stop racing sleep, reuse of the wrapper fiber | every task runs, once; stop drains and returns |
| IOManager (`src/scheduler/iomanager*.cc`) | `FdContext`s, `pending_event_count_`, eventfd, `force_stop_` | `addEvent`, `delEvent`, `cancelEvent`, `cancelAll`, `processEvent`, `idle`, `tickle`, `stopping`, destructor | Scheduler (base), TimerManager (base), epoll | events reported while they are cancelled, tokens drained by the wrong worker, a stop condition read in three pieces | a handler is delivered once; the count is exact; nothing queued is forgotten; stop returns |
| TimerManager (`src/scheduler/timer.cc`) | ordered set of timers, per timer deadline, interval, flags | `addTimer`, `addConditionTimer`, `cancel`, `refresh`, `reset`, `getNextTimer`, `listExpiredCallbacks`, `clearTimers` | notifies IOManager when the earliest timer changes | clock read before the lock, cancel racing the scan | once or cancelled, never early, no oversleep |
| Hook (`src/hook`) | per call timer and cancellation cell | `DoIo`, `connect_with_timeout`, sleeps, `close`, `fcntl`, `ioctl`, `setsockopt` | IOManager events and timers, FdManager | timeout racing the registration and the next wait, close racing a wait | one wait, one wakeup; no call after close; a timed wait ends |
| FdManager (`src/socket/fd_manager.cc`) | contexts by fd number, flags, timeouts | `get`, `del`, timeouts | Hook | reuse of numbers, contexts that outlive their entry | the kernel's flag and the user's never get mixed up |
| TcpServer (`src/tcpserver`) | `listeners_`, `stopped_` | `bind`, `start`, `stop`, accept loop | two IOManagers, Hook | bind, start and stop racing each other, failing accept | no listener is lost, clients are served, loops end |
| HTTP connection pool (`src/http/http_connection.cc`) | idle deque, atomic `total_`; per connection flags | `getConnection`, `releaseConnection` (deleter), destructor | connections outlive the pool by a weak pointer | the count changes outside the lock, abandoned requests, failing connects | exclusive leases, exact count, limit kept, no dirty reuse |
| HTTP client, parser, session, server, servlets (`src/http`) | input buffers, `reusable_`, the routes | `sendRequest`, `recvResponse`, `recvRequest`, `sendResponse`, `handleClient`, `parse`, changes of routes | streams over a connection | bytes cut anywhere, each side decides where a message ends | the n-th call gets the n-th answer and comes back |
| ByteArray, streams (`src/stream`) | chain of blocks, position, size | writes and reads of numbers, strings, raw bytes; buffers for `readv`/`writev` | sockets, files | block ends, size limits, operations that fail half-way | it is a flat buffer; what is written is read back |
| Configuration (`src/config`) | table of variables, value snapshots, listeners, file times | `Lookup`, `setValue`, `fromNode`, `fromString`, listeners, `LoadFromConfDir` | Logger, assertions | two first lookups, listeners called outside the lock, a file rewritten while it is loaded | one variable per name, every change reported, no write missed |
| Logger (`src/logger`) | levels, appenders, their buffers | `shouldLog`, `submit`, `append`, `flush`, changes of appenders and levels | root logger | appenders change during a record, the process dies | FATAL records and what came before them survive |
| Locks, URI, addresses, utilities | - | - | - | - | not modelled, section 6 |

What is hard to test in this code is listed, with the line and the properties
about it, under "hazards" in `PROJECT.json`.

## 2. Modules

Each component module has its state as VARIABLES, one action per operation or
critical section, and its properties at the end. `MC*` modules add symmetry
sets and the values of constants, `*_proofs` modules the theorems. Definitions
marked "Mutant" are plausible bugs used to test that a property can fail; no
specification uses them. `TypeOK` documents the shape of the state; section 4
lists where it is proved.

**Scheduler.** Threads are the workers and, with `use_caller`, the caller. `pc[t]`
follows `run()`: `fetch` (`getNextTask`), `wrap` (a function gets `cb_fiber`),
`resume`, `exec` (on the fiber's stack), `switch` (state written, context not
saved), `settle` (what `run()` does with the fiber afterwards), `idle`, `block`,
`asleep`, `check`. A fiber has `st` (`state_`) and `saved` (whether `ctx_` is its
last suspension point). A critical section of `mutex_` is one step; push and
notify are two; the predicate of `cv_.wait()` and the sleep are two, with the
mutex held in between, because `stopping_` changes without it. The holder stands
for IOManager events and timers and may schedule the fiber at any moment after
it was armed: `IOManager::addEvent` publishes the fiber before `yield_to_hold()`.
The history variable `overtaken` becomes true when a thread takes a fiber from the
list that another thread is still leaving (`BeingLeft`): its state already says
that it is suspended.

**IOManager.** Jobs stand for callbacks and fiber continuations. A call that
changes several pieces of state one after the other (`delEvent`: FdContext, then
the count, then the eventfd) leaves its remaining steps in `todo[a]`; other
threads run in between; `ScheduleCalls` is the list that a loop of `schedule()`
calls leaves. `stopping()` is three steps. `tokens` is the eventfd in
semaphore mode; `EpollReady` is what is registered and ready; an error or
hang-up counts for both events.
`EventDelivery` is the promise: a job is armed or posted, fires or is
withdrawn, and runs once. `Delivers` maps it to the slots, the timers, the task
list, the calls in progress and the running threads.

**TimerManager.** Deadlines are numbers modulo `Word`. `addTimer` and
`listExpiredCallbacks` read the clock in a step of their own before the critical
section; the notification after it is another step. `active` is "manager_ is set
and not canceled_".

**Hook** composes the hooked functions with FdManager, the events of IOManager and
the timers, at the grain of one system call, one critical section or one atomic
per step. `pc[f]` follows `DoIo()`: `get`, `check`, `call`, `arm` (the timer),
`add` (`addEvent`), `yield`, `held`, `woken`; `connect_with_timeout()` shares
these steps without the loop. A timer callback is two steps (`TimerCallback`: the
exchange on `timer_info`; `TimerCancels`: `cancelEvent`, by number). At most
`NWorkers` tasks are between two suspensions. `close()` is four steps. A number
names one file after the other, and calls keep contexts the table has dropped.
The switch itself is Scheduler's subject: a fiber that is scheduled before it has
left its stack waits for that here.

**TcpServer.** A section under `mutex_` is one step; the `exchange` of `stop()`
before it is another. The close of a listener is the four steps of the hook
(`CloseMark`, `CloseCancel`, `CloseDelete`, `CloseFile`), and `cancelAll` wakes
waiting accept fibers only on `accept_worker`; `accept()` is the check of the
context (`AcceptBegins`), the system call (`Accept`), the registration with the
yield (`AddEvent`) and the check after the wakeup (`Woken`). Two history variables
name the loops nobody wakes: those on a listener that a thread outside
`accept_worker` closed (`bare`), and those that began to wait after the close had
cancelled the events (`missed`). The number of a listener is not used again here;
what happens then is Hook's subject. A listener that a call drops is closed by
`~Socket()` (`Discard`).

**ConnectionPool.** `getConnection` is four steps: read the clock, critical section,
delete and count off the bad ones, connect. `releaseConnection` is one step for a
bad connection and two for a good one. `awaiting` remembers which connections owe
a response.

**HttpParser, Http.** The parsers keep nothing between calls that did not finish, so
they are functions of the buffer. The buffer holds whole lines and units of body;
`part` is how many bytes of the next line have arrived after them, which only the
limits look at. `Beginnings` gives the lengths that make a difference: one byte
(for the empty line its CR), and more than any limit for a chunk size, whose
extension may be of any length. The loops act on a line that is too long already
(`ClientReadsPart`, `ServerReadsPart`). `id` marks the message the sender meant it for and is never looked at by the
code, only by `InStep`. `Http` has a client and a server loop over two byte
streams that are cut anywhere; either side may be foreign and send any of the
given pieces. Writes may fail after a part. `sides` are the sockets still open. The
specification is `HttpSpec` (`HttpInit`, `HttpNext`): its proofs share a module
with those of TcpServer, whose clients these connections are.

**ByteArray, ByteBuffer.** `ByteBuffer` is the promise, one sequence and a
position, and says what may stay of an operation that failed: of a string that
does not fit its length, of any other write nothing; `ByteArray` is the chain, with `Spans` as the loop all transfers share:
the pieces of the blocks that a transfer goes through. Shifts are multiplications
by `Shift[k]`, the loops of the decoders are `Compose`, and the loop of the
variable-length encoder is its number of rounds, `GroupCount`. The bits of a byte
are a constant: with 3 bits the widths and the limits of the
variable-length numbers keep their relations (`Groups`, `LastGroup` are 5 and
0x0f, 10 and 0x01 for 8 bits) and TLC can reach them.

**Config, Logger.** `Config` extends `Logger`: configuration errors are logged, and a
failed assertion logs a FATAL record and may abort. A thread is inside a log call
(`line`) or at a point of its configuration call (`at`).

## 3. Runs

A run is `tlc -config <name>.cfg <module>`.

| run | shows |
|---|---|
| `scheduler` | `ExclusiveUnlessOvertaken`, `ResetOnlyOwned`, `RunsAtMostOnce`, `NoLostWakeup`, `Drained`: a worker and the caller, two functions with pins, batches, yields and waits, a stop from outside or from a task |
| `scheduler_liveness` | `EveryJobRuns`, `StopReturns` under fairness: two workers, a fiber and a function |
| `iomanager_events` | `PendingExact`, `DeliveredOnce`, `NothingLeftByWorkers`, `WorkIsSeen`: two workers, one fd, both events, timers, an fd closed from outside |
| `iomanager_one_worker` | `EverythingServed` under fairness: one worker, calls from jobs, calls that come late |
| `timer_manager` | `OneShotOnce`, `CancelledIsSilent`, `NeverEarly`, `ScanAdvances`, `NoOversleep` |
| `pool` | `ExclusiveLease`, `Accounting`, `Capacity`, `CleanReuse` |
| `hook` | `NoIoAfterClose`, `WaitsOnce`, `TimeoutIsReal`, `NonblockKept`, and `TimedWaitEnds` under fairness: two fibers on two workers, a number that is reused |
| `tcp_server` | `NoOrphan`, `AtMostOneMore`, and `ClientServed`, `LoopEnds` under fairness: a caller outside and one inside `accept_worker`, closes and accepts step by step |
| `http` | `InStep`, `CutsDoNotMatter`, and `CallReturns` under fairness: droplet against droplet and against a foreign client or server, bytes cut between and within lines |
| `bytearray` | `ReadsBack`, and `Implements`: the chain refines `ByteBuffer` |
| `config` | `OneVarPerName`, `ReportsAddUp`, `FileApplied`, `FatalSurvives` |
| `scheduler_early_wake` | a counterexample to `ExclusiveResume`, see below |

**Finding.** `scheduler_early_wake` checks `ExclusiveResume`: no fiber is on two
threads, and none is resumed before its context is saved, which is the
precondition of `resume()` (`fiber.h:76`) and what the comment in it asks for
(`fiber.cc:132`). Two workers and one function violate it. The function arms a
holder, which schedules the fiber at once, as the event loop does with a fiber
that `addEvent()` has published (`iomanager_events.cc:54`, `iomanager.cc:118`).
While the fiber is still `EXEC` the list keeps it; when `yield_to()` has set
`HOLD` and has not jumped yet (`fiber.cc:148`), the second worker takes it and
resumes it from the `ctx_` of its last resume, on the stack the first worker is
still using.

### What the properties except

These are behaviours of the code that a property excepts or that a passing run
leaves out by its constants; each can be seen by changing one line.

* `ExclusiveUnlessOvertaken`, `ResetOnlyOwned`, `RunsAtMostOnce` and `Drained` speak
  of runs up to the first fiber that is taken while another thread is leaving it.
  After that all four fail. With one thread nobody can overtake.
* `StopReturns` of Scheduler fails for `StopKinds = {"dtor"}` (`~Scheduler()`
  changes the flag and notifies without `mutex_`), for `{"caller"}` with
  `UseCaller` (a stop in a task on the caller takes no lock either) and for
  `LatePins = TRUE` with two workers (a task pinned to a thread that has left).
* `stop()` of an IOManager need not return, and no property says it does: with two
  workers and an event pending at the stop, the last worker to find the manager
  empty wakes nobody; with `ClientCalls = {"timer", "cancelTimer"}`, cancelling the
  last timer during a stop wakes nobody. `EverythingServed` fails for `Pinned = TRUE` with two
  workers: the token of a pinned task is drained by the other one.
* `TimedCallReturns` of Hook, for every wait of a call with a timeout, fails with
  two workers in two ways: the timeout fires between `addConditionTimer()` and
  `addEvent()`, so that `cancelEvent()` finds nothing; or the callback of an
  earlier wait of the same call claims the shared `timer_info` late, and the
  timer of the present wait does nothing. `TimedWaitEnds` is the part that holds.
  A wait on a descriptor that is closed between `cancelAll()` and `close_f()` of
  another fiber's `close()` does not end either.
* `NonblockKept` excepts two calls, and both may block their thread. A context that
  is made after `FdManager::del()` and before `close_f()` (`hook.cc:517`) belongs to
  the file that is about to be closed; it stays in the table and serves the next
  file of the number, whose flag nobody sets (`Stale`). And while `ioctl(FIONBIO)`
  or `fcntl(F_SETFL)` of one fiber is between the kernel and the context, a call
  of another fiber on the same number sees the flag the user asked for
  (`Changing`). Calls that the hooks pass straight to the kernel are outside the
  property: on a number whose context is none of a socket (made while the number
  was closed), and where the user asked for `O_NONBLOCK`.
* `LoopEnds` excepts loops on a listener that was closed outside `accept_worker`
  (`bare`): one `stop()` is enough, if its `exchange` finds `stopped_` set, another
  thread then binds and starts, and the `stop()` goes on with `was_running` false
  (`tcp_server.cc:157`). It takes the listeners, closes them on its own thread and
  wakes nobody, although the comment at `tcp_server.cc:156` says that no accept
  fiber waits there. It also excepts a loop whose `accept()` registers between
  `cancelAll()` and `close_f()` of the closing task (`missed`), which with several
  threads in `accept_worker` is never resumed.
* `CutsDoNotMatter` excepts two verdicts (`TooLongForNow`), both `HEADER_TOO_LARGE`
  for bytes that are accepted when they arrive at once. A chunk-size line is
  bounded only while it is incomplete (`http_parser.cc:580`). Trailers are bounded
  with the CR of the empty line while its LF is missing (`http_parser.cc:599`) and
  without it afterwards, so that trailers of exactly the limit depend on the cut.
* `CallReturns` fails for a servlet that answers with 1xx (the client waits for
  another response), `InStep` for `UsedMethods` with `CONNECT` and a 2xx answer
  (its body is left in the buffer).
* `FileApplied` also holds with two loaders, but it speaks of reading the file: one
  loader may still apply members of an older content after the other has applied
  and recorded the newer.

### Bounds

The run `scheduler` goes no further than `UntilOvertaken` (a CONSTRAINT), since four
of its properties say nothing beyond; that `NoLostWakeup` holds beyond it too is a
theorem, `NoWakeupIsLost`. Two workers are enough for one to be in the middle of a step while the other
acts, two jobs for one to be waiting while another is served; one fd has two
slots that share a lock and a registration. A fiber yields once and waits once
(`MaxYields`, `MaxHolds`), so it is met in every state again after it was
resumed. Timers: two of them with intervals 0 and 2 over four clock values,
`IntMax` 2 so that the cap on the timeout is reached. Pool: three threads and
three connections for a limit of two, so that one thread finds the pool full, and
an expired, a leased and a new connection exist together. Hook: two calls of each
of two fibers let one open, the other receive with a timeout and close, and the
first open the same number again (`MaxFiles` 2); three contexts are one for the
table and one for each call. TcpServer: two threads, two listeners and two
loops let a server be bound, started, stopped and started again, with one address
in a `bind()`. Http: two
requests, so that what the first leaves behind meets the second; a header limit
of 4 and a body limit of 1 are both reached and passed by the foreign pieces,
which include trailers of exactly the limit;
two changes of the routes. ByteArray: blocks of 2 bytes, at most 9 bytes, three
operations on numbers at the ends of their ranges: every item crosses a block
and some do not fit. Config: three calls of two threads, one write to the file,
three records. `MaxTime`, `MaxRearms`, `MaxUses`, `MaxOps`, `MaxCalls`,
`MaxTuning` and `MaxWrites` only bound the exploration. Deadlock is checked in the
Scheduler runs and in `iomanager_one_worker`; the others set `CHECK_DEADLOCK
FALSE` because clocks, uses and calls run out.

### Fairness

Scheduler: every thread keeps running (weak fairness of task bodies and
notifications; strong fairness of the loop, the stop and the holder, whose steps
need `mutex_`: a thread that keeps asking gets it). A holder delivers. Spurious
wakeups, clients and stops are never obliged. IOManager: threads run, jobs end,
time passes, awaited fds become ready; nobody is obliged to call. Hook: calls take
their steps, timers expire, the event loop delivers; scheduled fibers and
callbacks get a worker (strong, because the workers are shared and the queue is
served in order); nobody is obliged to send, call or close. TcpServer: calls and
loops go on; `Accept` is strongly fair, since a lack of descriptors does not last
for ever. Http: both loops go on; no timeout has to pass, so `CallReturns` does not
rest on one.

## 4. Proofs

The eight `*_proofs` modules hold for every set of threads, fibers, timers,
descriptors and values and for every bound; `tlapm <module>.tla` checks one.
All safety properties of all passing runs are theorems: invariants, action
properties and the refinement of `ByteBuffer` alike; the refinement of
`EventDelivery` is proved without a run of its own.

| module | theorems (property proved) |
|---|---|
| `Scheduler_proofs` | `TypeCorrect`, `NoWakeupIsLost` (`NoLostWakeup`), `ResumeIsExclusive` (`ExclusiveUnlessOvertaken`), `ResetIsOwned` (`ResetOnlyOwned`), `JobsRunAtMostOnce` (`RunsAtMostOnce`), `StopDrains` (`Drained`) |
| `IOManager_proofs` | `TypeCorrect`, `HandlersAreDeliveredOnce` (`DeliveredOnce`), `PendingIsExact` (`PendingExact`), `WorkersFinishTheirWork` (`NothingLeftByWorkers`), `WorkIsAlwaysSeen` (`WorkIsSeen`), `IOManagerDelivers` (implements `EventDelivery`) |
| `TimerManager_proofs` | `TypeCorrect`, `FiringCorrect` (`OneShotOnce`), `CancelledStaysSilent` (`CancelledIsSilent`), `NeverOversleeps` (`NoOversleep`), `CallbacksAreNeverEarly` (`NeverEarly`), `ScansAdvance` (`ScanAdvances`) |
| `Hook_proofs` | `TypeCorrect`, `TimeoutsAreReal` (`TimeoutIsReal`), `ClosedCallsEnd` (`NoIoAfterClose`), `FibersWaitOnce` (`WaitsOnce`), `SocketsStayNonblocking` (`NonblockKept`) |
| `HttpServer_proofs` | of TcpServer: `TypeCorrect`, `LoopsStayReached` (`NoOrphan`), `SocketsClosedOnce`, `StopBoundsAccepts` (`AtMostOneMore`); of Http: `HttpTypeCorrect`, `ParsersDoNotSeeCuts` (`CutsDoNotMatter`), and with `NoTunnels`: `PeersStayInStep` (`InStep`) |
| `ConnectionPool_proofs` | `TypeCorrect`, `LeasesAreExclusive` (`ExclusiveLease`), `ReuseIsClean` (`CleanReuse`), `PoolIsBounded` (`Capacity`), `CounterIsExact` (`Accounting`) |
| `Config_proofs` | `ReferencesHold`, `UsersShareOneVariable` (`OneVarPerName`), `WritesAreSeen` (`FileApplied`), `ReportsLeadToTheValue` (`ReportsAddUp`), and of the threads' logging `FatalRecordsSurvive` (`FatalSurvives`) |
| `ByteArray_proofs` | `TypeCorrect`, `FlatBuffer` (`Implements`), `WrittenIsReadBack` (`ReadsBack`) |

### Assumptions

Each proof rests on the named ASSUMEs of the module it is about, which TLC also
evaluates in its runs. They say that sets of threads, descriptors and objects are
finite where a cardinality is taken, that markers such as `None` are not members
of these sets, and that bounds are numbers. Five say more. The words of the timers
and of the pool's counter are larger than any sum the bounds allow: nothing wraps
within 2^64 milliseconds. A file of the configuration holds names of the system
with values that can be parsed or not. The scheduler has at least one thread
(`scheduler.cc` asserts it). The Hook has a free context whenever a descriptor is
opened (`CtxsAssumption`): `make_shared` does not fail. The numbers handed to a
ByteArray are values of their C++ types and a `size_t` fits in a `u64`
(`ValuesAssumption`).

The theorems of the scheduler assume nothing about holders or the number of
threads. Four of them are about properties of the form `overtaken \/ ...`: as long
as no thread has taken a fiber that another is still leaving, no number of
threads, tasks, yields, early wakeups or stops breaks exclusive resumption, reset,
single execution or draining. A holder that schedules a fiber early is harmless
by itself; the take is the only gap. `NoLostWakeup` has no exception.

`PeersStayInStep` assumes `NoTunnels`, a client that does not use CONNECT:
`ResponseHasNoBody()` takes a 2xx answer to it for a tunnel, without a body, while
`HttpServer` sends the servlet's body (section 3). Every other method, limit,
servlet and change of the routes is covered. That a servlet's answer is a status
and a length and a foreign piece a sequence of lines (`HttpAssumption`) only gives
them their types.

### The inductive invariants

* **Scheduler.** `CoreInv` is `TypeOK` with what each point of `run()` has in hand
  (`ShapeInv`), that a fiber in use has a job (`BornInv`), that `mutex_` is kept
  between two steps only by a thread that found the list empty (`QueueInv`,
  which gives `NoLostWakeup`: whoever pushes cannot fall between the predicate and
  the sleep) and when threads may leave (`LifeInv`). `WhereInv` adds who has a
  fiber: one task in the list, one thread, or one holder (`PlaceInv`), in the state
  its place requires (`AtInv`), fresh before it is scheduled (`FreshInv`), and a
  kept wrapper with nobody (`OwnInv`). A fiber may be in the list while a thread is
  still leaving it (`Early`); whoever takes it then sets `overtaken`.
  `ExclusiveUnlessOvertaken` alone is not inductive:
  a second reference in the list breaks it two steps later. `JobInv` says the
  same of functions, whose identity passes from the task to a wrapper, and gives
  `RunsAtMostOnce`; `KeptInv` and `LeaveInv`, that an unfinished job is somewhere
  and that the list is empty when the last thread leaves, give `Drained`.
* **IOManager.** `IInv` says for each state of a job where it is, and that it is
  there once: `QueuedInv`, `RunningInv`, `WaitingInv`, `TimedInv`, `TriggeredInv`.
  The last one is about lists of steps that calls have not taken yet, and needs
  `ListInv`, the shape of such a list. `DeliveredOnce` counts these places.
  `PendingExact` is inductive relative to `IInv`: moving an event out of its slot
  takes one from the first set and puts one decrement in the second; the proof is
  the arithmetic of finite sets along the steps of a list. The refinement of
  `EventDelivery` also rests on `IInv`: the places of a job are those its history
  says (`PlacesAre`), so each change of the history is one abstract step. `WorkIsSeen` and
  `NothingLeftByWorkers` follow from where a worker is in `idle()` and from what
  its own list still holds.
* **Timers.** `OneShotOnce` is not inductive: that a fired or cancelled one-shot
  timer does not fire again rests on its being out of `timers_`, and that cancel
  fails for a fired one on `active = timers`; `FiringOK` says both.
  `NeverOversleeps` needs that a sleeping loop wakes no later than the earliest
  deadline it saw, and that whoever lowers the earliest deadline owes a wakeup.
  `DueOK` carries the two action properties: a deadline lies at least the interval
  after the arming call, whose clock was read before the lock, and a clock that
  was read is never ahead of time.
* **Hook.** `CoreInv` adds to `TypeOK` which call a fiber can be in at each point
  and that a timer that fired has expired. `DoomInv`: a fiber that waited when its
  context was marked is on its way to the check, with the marked context in its
  call. `WaitInv` gives each point of a call its only place. `NonblockKept` needs
  which contexts there are for the file a number has now: those in the table and
  in calls differ, belong to their number and are marked closed only while a
  `close()` is on its way (`CtxInv`, `EntryInv`), and every open file for which a
  context was ever made (`HasContext`) has the flag or an `ioctl()` or `fcntl()`
  between the kernel and the context (`FlagInv`).
* **TcpServer.** `NoOrphan` is strengthened by `OneOwner`: `listeners_`, the
  calls in progress and the closing tasks are disjoint, so that taking a socket
  from one leaves the others whole, and by `PrivateOK`: the sockets of a `bind()`
  in progress have no loop yet, so that it may close them. `LateOK` says that a loop that took a client
  after the stop comes to the test of `stopped_` next.
* **Http.** `CutsDoNotMatter` is a fact about the parsers, for any two buffers of
  which one begins the other (`Prefix`). `SameHeaderEnd` and `SameHeader` give the
  same header, `TooLargeStays` the limit, `RequestSettled` and `ResponseSettled` the
  verdict. Trailers may be cut at any line (`TrailersSettled`), and the loop over
  chunks too (`SpotSettled`): `LoopSettled` is an induction on what is left of the
  buffer. `Cutting` adds the beginning of a line, and `Same` the two verdicts it may
  change. `InStep` is not inductive; `Sync` says which text the two ends have
  between them: during a call the bytes to the server and in its buffer are a
  beginning of the request (`Asking`), the server has read all of it (`Serving`), or
  what is on the way back is a beginning of the response to it (`Replying`), with
  the rest empty; a connection that is idle and reusable has all wires and buffers
  empty (`RestOK`). `WholeRequest` and `WholeResponse` say that a parser
  finishes on a beginning of a text only when it has all of it, and then uses all.
* **Pool.** `IInv` adds to `TypeOK` and `ExclusiveLease` what a thread holds where
  (`HoldsOK`: a slot only between the critical section and `connect`, bad
  connections only until they are deleted) and `ReuseOK`, that reusable
  connections owe nothing. `Accounting` is inductive relative to `IInv`: each
  step changes `total_` by as much as it changes the connections and slots.
  `Capacity` follows because the slot is granted on `total_` minus the
  connections about to be deleted, which bounds what is live at that moment.
* **Config, Logger.** `RefsOK` says that the table never changes an entry and that
  whoever holds a variable holds the table's. `LoadOK` ties a load in progress to
  the time it read before the content. `AddUp` adds to the reports made those that
  threads between the change and the listeners will make; it is inductive where
  `ReportsAddUp` is not, and its sum over threads is a cardinality. `LogInv` says
  that an appender's disk is a prefix of what it took that reaches past every
  FATAL record, with the rest in the buffer while the process runs.
* **ByteArray.** The refinement needs only `TypeOK` (with `capacity` the blocks'
  bytes): `LoadFlat` and `StoreFlat` say that copying along `Spans` is copying in
  the flat sequence, wherever the block ends fall, and `Room` that
  `addCapacity()` makes room without an overflow. `ReadsBack` is not inductive:
  it speaks of reading at the place of the last item, which a later operation may
  move away from. `LastKept` says that the flat bytes between `last.at` and
  `last.end` are the item's encoding in the present byte order. That decoding
  undoes encoding is arithmetic: `Digit` (the i-th digit to a base), `ComposeIs`
  (digits put together give the number modulo the place after the last), and from
  them `FixedBack`, `SignedBack`, `ZigzagBack`, `VarintBack`.

The recursive functions of ByteArray (`Shift`, `Compose`) and of the HTTP parser
(`chunk`) are handled without the library's induction theorems, whose operator
parameter the provers cannot instantiate: `Induct` is an induction over a *set* of
numbers, from the least number outside it, and `Recursion` shows by it that a
function defined by recursion exists and obeys its equation; `TailRecursion` does
so for a loop that calls itself on a later place.

### Only model-checked

* Liveness, which is beyond the prover: `EveryJobRuns`, `StopReturns`,
  `EverythingServed`, `TimedWaitEnds`, `ClientServed`, `LoopEnds`, `CallReturns`.

## 5. Plan

The safety properties are proved; what could be added is breadth. The age of a
pooled connection is an unsigned difference of two clock readings taken in the
wrong order (`http_connection.cc:637`): `IsExpired` shows the wrap, by which a
connection created in between is thrown away, but no property is about it, since
only reuse is lost. URI and address parsing could become modules of operators.

## 6. Not modelled

* Locks (`include/droplet/mutex.h`): no component uses them; a benchmark in the
  tests times them.
* URI, addresses and the utilities: conversions and calls into the system
  without state of their own. Cookies, query parameters, setters and name tables
  of the HTTP messages, and the formatting of log records: the same. The date
  cache of `formatter.cc:114` is per thread and shared by all patterns, which its
  own comment warns of.
* Stack allocation, nested `resume()` outside a scheduler, the assembly of
  fcontext; a failing `epoll_wait()`.
* Lengths above `INT_MAX` in `SocketStream` (`socket_stream.cc:31` casts them), and
  intervals near 2^64 in `addTimer`: no caller uses them.
* A listener removed while a change is being reported may still be called
  (`config_var.h:168` copies the list); a document that calls the listener ids a
  count per instance (`docs/config.md:98`) is out of step with the static counter
  of `config_var.cc:20`, which only makes them unique across variables.
