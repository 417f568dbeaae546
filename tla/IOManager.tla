------------------------------ MODULE IOManager ------------------------------
(***************************************************************************)
(* droplet::IOManager: a Scheduler whose idle fiber waits in epoll_wait()  *)
(* for fd events, timers and the tokens of an eventfd.  Jobs stand for the *)
(* callbacks and fiber continuations that wait for an event, wait for a    *)
(* timer, are queued, run, and end; how a fiber switches is the subject of *)
(* module Scheduler, how timers are ordered that of module TimerManager.   *)
(*                                                                         *)
(* addEvent, delEvent, cancelEvent, processEvent and schedule change       *)
(* several pieces of state one after the other, with other threads in      *)
(* between.  What an actor still has to do in such a call is its list      *)
(* todo[a]; the lists are built from the calls below and worked off by     *)
(* Do(a).                                                                  *)
(***************************************************************************)
EXTENDS Integers, Sequences, FiniteSets, SequencesExt

CONSTANTS
    Workers,     \* the scheduling threads
    Client,      \* a thread outside the IOManager that uses its interface
    Fds,         \* file descriptors
    Jobs,        \* callbacks and fiber continuations
    AnyThread,   \* thread_id = -1
    None,
    ClientCalls, \* which of "schedule", "timer", "event" the client adds jobs
                 \* with, and "cancelTimer" if it cancels timers
    LateCalls,   \* whether it still adds jobs once a stop has begun
    Pinned,      \* whether tasks are scheduled for one thread
    MayForce,    \* whether ~IOManager() may be the one that stops
    MayClose,    \* whether an fd is closed behind the IOManager's back
    MaxOps       \* bound: number of interface calls one job makes

Events == {"READ", "WRITE"}
Slots  == Fds \X Events
HUP    == "HUP"                   \* EPOLLERR, EPOLLHUP, EPOLLRDHUP
Actors == Workers \cup {Client}

ASSUME ConstantsAssumption ==
    /\ IsFiniteSet(Workers) /\ Workers # {}
    /\ IsFiniteSet(Fds) /\ IsFiniteSet(Jobs)
    /\ Client \notin Workers /\ AnyThread \notin Workers
    /\ None \notin Jobs \cup Fds /\ None \notin Workers
    /\ ClientCalls \subseteq {"schedule", "timer", "event", "cancelTimer"}
    /\ LateCalls \in BOOLEAN
    /\ Pinned \in BOOLEAN /\ MayForce \in BOOLEAN /\ MayClose \in BOOLEAN
    /\ MaxOps \in Nat

VARIABLES
    tasks,      \* tasks_: sequence of [job, pin]
    tokens,     \* count of the eventfd (EFD_SEMAPHORE)
    handler,    \* FdContext: the job registered for an fd and an event, or None
    pending,    \* pending_event_count_
    timers,     \* jobs with an active timer
    due,        \* those whose time has come
    readyFds,   \* kernel: the <<fd, event>> pairs that are ready, <<fd, HUP>> for
                \* an fd with an error or hang-up
    open,       \* kernel: fds that are open
    stopping,   \* Scheduler::stopping_
    force,      \* force_stop_
    stopPc,     \* progress of stop()
    pc,         \* where a worker is
    ready,      \* idle()'s local ready
    got,        \* what epoll_wait() returned and is not yet processed
    wait,       \* the timers that bound the timeout of epoll_wait()
    cur,        \* the job a worker runs
    todo,       \* what an actor still has to do in the call it is in
    ops,        \* number of calls a job has made
    state,      \* history: what became of a job
    ext         \* history: jobs that the client queued

ioVars    == <<handler, pending, readyFds, open>>
timerVars == <<timers, due>>
stopVars  == <<stopping, force, stopPc>>
loopVars  == <<pc, ready, got, wait, cur>>
histVars  == <<ops, state, ext>>
vars == <<tasks, tokens, ioVars, timerVars, stopVars, loopVars, todo, histVars>>

TICKLE == "tickle"
TickleTag == <<None, TICKLE>>     \* kTickleTag: what epoll reports for the eventfd
JobStates == {"new", "waiting", "timed", "triggered", "queued", "running",
              "ended", "deleted"}

Step == [op : {"sub"}, n : 1..2] \cup [op : {TICKLE}]
           \cup [op : {"push"}, job : Jobs, pin : Workers \cup {AnyThread}]

TypeOK ==
    /\ tasks \in Seq([job : Jobs, pin : Workers \cup {AnyThread}])
    /\ tokens \in Nat
    /\ handler \in [Slots -> Jobs \cup {None}]
    /\ pending \in Nat
    /\ due \subseteq timers /\ timers \subseteq Jobs
    /\ readyFds \subseteq Fds \X (Events \cup {HUP}) /\ open \subseteq Fds
    /\ stopping \in BOOLEAN /\ force \in BOOLEAN
    /\ stopPc \in {"no", "tickle", "join", "done"}
    /\ pc \in [Workers -> {"fetch", "running", "timeout", "epoll", "events",
                           "stopEvents", "stopTimers", "stopTasks", "exited"}]
    /\ ready \in [Workers -> BOOLEAN]
    /\ got \in [Workers -> SUBSET (Slots \cup {TickleTag})]
    /\ wait \in [Workers -> SUBSET Jobs]
    /\ cur \in [Workers -> Jobs \cup {None}]
    /\ todo \in [Actors -> Seq(Step)]
    /\ ops \in [Jobs -> 0..MaxOps]
    /\ state \in [Jobs -> JobStates]
    /\ ext \subseteq Jobs

Init ==
    /\ tasks = <<>> /\ tokens = 0
    /\ handler = [s \in Slots |-> None] /\ pending = 0
    /\ timers = {} /\ due = {}
    /\ readyFds = {} /\ open = Fds
    /\ stopping = FALSE /\ force = FALSE /\ stopPc = "no"
    /\ pc = [w \in Workers |-> "fetch"]
    /\ ready = [w \in Workers |-> FALSE]
    /\ got = [w \in Workers |-> {}]
    /\ wait = [w \in Workers |-> {}]
    /\ cur = [w \in Workers |-> None]
    /\ todo = [a \in Actors |-> <<>>]
    /\ ops = [j \in Jobs |-> 0]
    /\ state = [j \in Jobs |-> "new"]
    /\ ext = {}

-----------------------------------------------------------------------------
(* The calls, as lists of steps. *)

Tickle == <<[op |-> TICKLE]>>

\* schedule(): push under mutex_, then tickle().
ScheduleCall(j, p) == <<[op |-> "push", job |-> j, pin |-> p]>> \o Tickle

\* schedule() of one callback after the other.
ScheduleCalls(order) ==
    [i \in 1..(2 * Len(order)) |-> ScheduleCall(order[(i + 1) \div 2], AnyThread)[2 - (i % 2)]]

\* trigger() of a handler, for the events in E of fd.
TriggerCall(fd, E) ==
    (IF "READ" \in E THEN ScheduleCall(handler[<<fd, "READ">>], AnyThread) ELSE <<>>)
    \o (IF "WRITE" \in E THEN ScheduleCall(handler[<<fd, "WRITE">>], AnyThread) ELSE <<>>)

Subtract(E) == <<[op |-> "sub", n |-> Cardinality(E)]>>

Registered(fd) == {e \in Events : handler[<<fd, e>>] # None}

\* Mutant: the handlers stay where they are.
MoveOutForgotten(fd, E) == UNCHANGED handler

\* The handlers of E are moved out of the FdContext.
MoveOut(fd, E) ==
    handler' = [s \in Slots |-> IF s[1] = fd /\ s[2] \in E THEN None ELSE handler[s]]

JobsAt(fd, E) == {handler[<<fd, e>>] : e \in E}

Mark(J, what) == state' = [j \in Jobs |-> IF j \in J THEN what ELSE state[j]]

\* tickle(): one token, or one per thread once stopping_ is set.
TickleValue == IF stopping THEN Cardinality(Workers) ELSE 1

\* Work off the first step of the call actor a is in.
Do(a) ==
    /\ todo[a] # <<>>
    /\ LET s == Head(todo[a]) IN
       \/ /\ s.op = "sub"
          /\ pending' = pending - s.n
          /\ UNCHANGED <<tasks, tokens, state, ext>>
       \/ /\ s.op = "push"
          /\ tasks' = Append(tasks, [job |-> s.job, pin |-> s.pin])
          /\ Mark({s.job}, "queued")
          /\ ext' = IF a = Client THEN ext \cup {s.job} ELSE ext
          /\ UNCHANGED <<tokens, pending>>
       \/ /\ s.op = TICKLE
          /\ tokens' = tokens + TickleValue
          /\ UNCHANGED <<tasks, pending, state, ext>>
    /\ todo' = [todo EXCEPT ![a] = Tail(@)]
    /\ UNCHANGED <<handler, readyFds, open, timerVars, stopVars, loopVars, ops>>

-----------------------------------------------------------------------------
(* The interface, called by an actor that is in no other call. *)

\* addEvent(): EEXIST if the slot is taken, failure of epoll_ctl if the fd is
\* closed (no state changes in either case).
AddEvent(a) ==
    /\ \E s \in Slots, j \in Jobs :
          /\ state[j] = "new" /\ handler[s] = None /\ s[1] \in open
          /\ handler' = [handler EXCEPT ![s] = j]
          /\ Mark({j}, "waiting")
    /\ pending' = pending + 1
    /\ todo' = [todo EXCEPT ![a] = Tickle]
    /\ UNCHANGED <<ext, tasks, tokens, readyFds, open, timerVars, stopVars, loopVars>>

\* delEvent(): the handlers are dropped, and counted down outside the lock.
DelEvent(a) ==
    /\ \E fd \in open : \E E \in (SUBSET Registered(fd)) \ {{}} :
          /\ Mark(JobsAt(fd, E), "deleted")
          /\ MoveOut(fd, E)
          /\ todo' = [todo EXCEPT ![a] = Subtract(E) \o Tickle]
    /\ UNCHANGED <<ext, tasks, tokens, pending, readyFds, open, timerVars, stopVars,
                   loopVars>>

\* cancelEvent() and cancelAll(): the handlers are queued.
CancelEvent(a) ==
    /\ \E fd \in open : \E E \in (SUBSET Registered(fd)) \ {{}} :
          /\ Mark(JobsAt(fd, E), "triggered")
          /\ MoveOut(fd, E)
          /\ todo' = [todo EXCEPT ![a] = Subtract(E) \o TriggerCall(fd, E) \o Tickle]
    /\ UNCHANGED <<ext, tasks, tokens, pending, readyFds, open, timerVars, stopVars,
                   loopVars>>

\* schedule() of a new job.
Schedule(a) ==
    /\ \E j \in Jobs, p \in {AnyThread} \cup (IF Pinned THEN Workers ELSE {}) :
          /\ state[j] = "new"
          /\ todo' = [todo EXCEPT ![a] = ScheduleCall(j, p)]
          /\ Mark({j}, "triggered")
    /\ UNCHANGED <<ext, tasks, tokens, ioVars, timerVars, stopVars, loopVars>>

\* addTimer(): tickle() if the new timer is the earliest one, which here any
\* new timer may be unless one is due.
AddTimer(a) ==
    /\ \E j \in Jobs :
          /\ state[j] = "new"
          /\ timers' = timers \cup {j}
          /\ Mark({j}, "timed")
    /\ \/ todo' = [todo EXCEPT ![a] = Tickle]
       \/ timers # {} /\ UNCHANGED todo
    /\ UNCHANGED <<ext, tasks, tokens, ioVars, due, stopVars, loopVars>>

\* Timer::cancel() does not tickle.
CancelTimer(a) ==
    /\ \E j \in timers :
          /\ timers' = timers \ {j} /\ due' = due \ {j}
          /\ Mark({j}, "deleted")
    /\ UNCHANGED <<ext, tasks, tokens, ioVars, todo, stopVars, loopVars>>

ClientCall ==
    /\ todo[Client] = <<>> /\ stopPc # "done" /\ ~force
    /\ \/ DelEvent(Client)
       \/ CancelEvent(Client)
       \/ "cancelTimer" \in ClientCalls /\ CancelTimer(Client)
       \/ /\ LateCalls \/ ~stopping
          /\ \/ "schedule" \in ClientCalls /\ Schedule(Client)
             \/ "timer" \in ClientCalls /\ AddTimer(Client)
             \/ "event" \in ClientCalls /\ AddEvent(Client)
    /\ UNCHANGED ops

BodyCall(w) ==
    /\ pc[w] = "running" /\ todo[w] = <<>>
    /\ ops[cur[w]] < MaxOps
    /\ ops' = [ops EXCEPT ![cur[w]] = @ + 1]
    /\ \/ AddEvent(w) \/ DelEvent(w) \/ CancelEvent(w)
       \/ Schedule(w) \/ AddTimer(w) \/ CancelTimer(w)

-----------------------------------------------------------------------------
(* run() *)

\* getNextTask(): the first task this thread may run.
Fetch(w) ==
    LET mine == {i \in DOMAIN tasks : tasks[i].pin \in {AnyThread, w}} IN
    /\ pc[w] = "fetch"
    /\ \/ /\ mine = {}
          /\ pc' = [pc EXCEPT ![w] = "timeout"]
          /\ UNCHANGED <<tasks, cur, state>>
       \/ \E i \in mine :
          /\ \A k \in mine : i <= k
          /\ cur' = [cur EXCEPT ![w] = tasks[i].job]
          /\ tasks' = RemoveAt(tasks, i)
          /\ Mark({tasks[i].job}, "running")
          /\ pc' = [pc EXCEPT ![w] = "running"]
    /\ UNCHANGED <<tokens, ioVars, timerVars, stopVars, ready, got, wait, todo, ops, ext>>

\* The job ends, or suspends for good: what it waits for is another job.
EndJob(w) ==
    /\ pc[w] = "running" /\ todo[w] = <<>>
    /\ Mark({cur[w]}, "ended")
    /\ cur' = [cur EXCEPT ![w] = None]
    /\ pc' = [pc EXCEPT ![w] = "fetch"]
    /\ UNCHANGED <<tasks, tokens, ioVars, timerVars, stopVars, ready, got, wait, todo,
                   ops, ext>>

-----------------------------------------------------------------------------
(* idle() *)

\* getNextTimer() fixes the timeout of the epoll_wait() that follows.
ComputeTimeout(w) ==
    /\ pc[w] = "timeout"
    /\ wait' = [wait EXCEPT ![w] = timers]
    /\ ready' = [ready EXCEPT ![w] = FALSE]
    /\ pc' = [pc EXCEPT ![w] = "epoll"]
    /\ UNCHANGED <<tasks, tokens, ioVars, timerVars, stopVars, got, cur, todo, histVars>>

\* Level-triggered: whatever is ready now.  processEvent() takes an error or a
\* hang-up for both events.
EpollReady ==
    {s \in Slots : /\ s[1] \in open
                   /\ \/ handler[s] # None /\ s \in readyFds
                      \/ Registered(s[1]) # {} /\ <<s[1], HUP>> \in readyFds}
    \cup (IF tokens > 0 THEN {TickleTag} ELSE {})

\* The timeout of the wait has passed: a timer it was computed from is due, or
\* was cancelled, reset or served since.
TimedOut(w) == \E j \in wait[w] : j \in due \/ j \notin timers

EpollWait(w) ==
    /\ pc[w] = "epoll"
    /\ EpollReady # {} \/ TimedOut(w)
    /\ got' = [got EXCEPT ![w] = EpollReady]
    /\ wait' = [wait EXCEPT ![w] = {}]
    /\ pc' = [pc EXCEPT ![w] = "events"]
    /\ UNCHANGED <<tasks, tokens, ioVars, timerVars, stopVars, ready, cur, todo, histVars>>

\* Mutant: the flag is set only by fd events.
TickleNotReady(w) == UNCHANGED ready

\* A drained token sends the worker back to run().
TickleReady(w) == ready' = [ready EXCEPT ![w] = TRUE]

\* drainTickle(): takes one token, or none if another worker was faster.
DrainTickle(w) ==
    /\ pc[w] = "events" /\ todo[w] = <<>> /\ TickleTag \in got[w]
    /\ tokens' = IF tokens > 0 THEN tokens - 1 ELSE 0
    /\ TickleReady(w)
    /\ got' = [got EXCEPT ![w] = @ \ {TickleTag}]
    /\ UNCHANGED <<tasks, ioVars, timerVars, stopVars, pc, wait, cur, todo, histVars>>

\* The reported events that are still registered when the lock is taken.
StillRegistered(fd, E) == E \cap Registered(fd)

\* Mutant: the count is not taken back for a ready event.
ConsumeForgotten(E) == <<>>

Consume(E) == Subtract(E)

\* processEvent(): the ready events are consumed, the result of epoll_ctl is
\* ignored.
ProcessEvent(w) ==
    /\ pc[w] = "events" /\ todo[w] = <<>>
    /\ \E fd \in Fds :
          LET rep == {e \in Events : <<fd, e>> \in got[w]}
              E == StillRegistered(fd, rep)
          IN
          /\ rep # {}
          /\ got' = [got EXCEPT ![w] = @ \ ({fd} \X Events)]
          /\ IF E = {}
             THEN UNCHANGED <<handler, state, ready, todo>>
             ELSE /\ Mark(JobsAt(fd, E), "triggered")
                  /\ MoveOut(fd, E)
                  /\ todo' = [todo EXCEPT ![w] = Consume(E) \o TriggerCall(fd, E)]
                  /\ ready' = [ready EXCEPT ![w] = TRUE]
    /\ UNCHANGED <<tasks, tokens, pending, readyFds, open, timerVars, stopVars, pc,
                   wait, cur, ops, ext>>

\* listExpiredCallbacks(), after the last event: the due timers leave the set,
\* each callback is then scheduled.  (Their order is the subject of module TimerManager.)
ListExpired(w) ==
    /\ pc[w] = "events" /\ todo[w] = <<>> /\ got[w] = {}
    /\ timers' = timers \ due
    /\ due' = {}
    /\ Mark(due, "triggered")
    /\ todo' = [todo EXCEPT ![w] = ScheduleCalls(SetToSeq(due))]
    /\ ready' = [ready EXCEPT ![w] = @ \/ due # {}]
    /\ pc' = [pc EXCEPT ![w] = "stopEvents"]
    /\ UNCHANGED <<tasks, tokens, ioVars, stopVars, got, wait, cur, ops, ext>>

\* stopping() reads the stop flags and the pending count, the timers and the
\* task list at three moments.  The first that says no sends the worker back to
\* run() if something was ready, otherwise to epoll_wait().
Proceed(w, yes, next) ==
    pc' = [pc EXCEPT ![w] = CASE yes -> next
                              [] ~yes /\ ready[w] -> "fetch"
                              [] OTHER -> "timeout"]

StoppingEvents(w) ==
    /\ pc[w] = "stopEvents" /\ todo[w] = <<>>
    /\ IF stopping /\ force
       THEN pc' = [pc EXCEPT ![w] = "exited"]
       ELSE Proceed(w, stopping /\ pending = 0, "stopTimers")
    /\ UNCHANGED <<tasks, tokens, ioVars, timerVars, stopVars, ready, got, wait, cur, todo,
                   histVars>>

StoppingTimers(w) ==
    /\ pc[w] = "stopTimers"
    /\ Proceed(w, timers = {}, "stopTasks")
    /\ UNCHANGED <<tasks, tokens, ioVars, timerVars, stopVars, ready, got, wait, cur, todo,
                   histVars>>

\* Mutant: the task list is not looked at.
QueueIgnored == TRUE

QueueEmpty == tasks = <<>>

StoppingTasks(w) ==
    /\ pc[w] = "stopTasks"
    /\ Proceed(w, QueueEmpty, "exited")
    /\ UNCHANGED <<tasks, tokens, ioVars, timerVars, stopVars, ready, got, wait, cur, todo,
                   histVars>>

-----------------------------------------------------------------------------
(* Stopping, and the outside world. *)

\* stop(), or ~IOManager() which sets force_stop_ first.  Nobody uses the
\* object while it is destroyed.
StopBegin ==
    /\ ~stopping
    /\ stopping' = TRUE
    /\ force' \in {FALSE, MayForce /\ todo[Client] = <<>>}
    /\ stopPc' = "tickle"
    /\ UNCHANGED <<tasks, tokens, ioVars, timerVars, loopVars, todo, histVars>>

StopTickle ==
    /\ stopPc = "tickle"
    /\ tokens' = tokens + TickleValue
    /\ stopPc' = "join"
    /\ UNCHANGED <<tasks, ioVars, timerVars, stopping, force, loopVars, todo, histVars>>

\* Every worker is joined; ~IOManager() then clears what is registered.
StopJoin ==
    /\ stopPc = "join"
    /\ \A w \in Workers : pc[w] = "exited"
    /\ stopPc' = "done"
    /\ IF force
       THEN /\ Mark({j \in Jobs : state[j] \in {"waiting", "timed"}}, "deleted")
            /\ handler' = [s \in Slots |-> None] /\ pending' = 0
            /\ timers' = {} /\ due' = {}
       ELSE UNCHANGED <<state, handler, pending, timerVars>>
    /\ UNCHANGED <<tasks, tokens, readyFds, open, stopping, force, loopVars, todo, ops, ext>>

\* An fd somebody waits for becomes ready or fails, and stays so.
FdReady ==
    /\ \E fd \in open : \E e \in Registered(fd) \cup {HUP} :
          /\ Registered(fd) # {} /\ {<<fd, e>>, <<fd, HUP>>} \cap readyFds = {}
          /\ readyFds' = readyFds \cup {<<fd, e>>}
    /\ UNCHANGED <<tasks, tokens, handler, pending, open, timerVars, stopVars, loopVars,
                   todo, histVars>>

TimePasses ==
    /\ \E j \in timers \ due : due' = due \cup {j}
    /\ UNCHANGED <<tasks, tokens, ioVars, timers, stopVars, loopVars, todo, histVars>>

\* close() of an fd that is waited for: the kernel forgets it, the IOManager
\* does not.
CloseFd ==
    /\ MayClose /\ todo[Client] = <<>> /\ stopPc # "done"
    /\ \E fd \in open :
          /\ Registered(fd) # {}
          /\ open' = open \ {fd}
          /\ readyFds' = {r \in readyFds : r[1] # fd}
    /\ UNCHANGED <<tasks, tokens, handler, pending, timerVars, stopVars, loopVars, todo,
                   histVars>>

Terminated == stopPc = "done" /\ UNCHANGED vars

Idle(w) == \/ ComputeTimeout(w) \/ EpollWait(w) \/ DrainTickle(w) \/ ProcessEvent(w)
           \/ ListExpired(w) \/ StoppingEvents(w) \/ StoppingTimers(w)
           \/ StoppingTasks(w)

Stop == StopTickle \/ StopJoin

Next ==
    \/ ClientCall \/ StopBegin \/ Stop \/ FdReady \/ TimePasses \/ CloseFd \/ Terminated
    \/ \E a \in Actors : Do(a)
    \/ \E w \in Workers : Fetch(w) \/ BodyCall(w) \/ EndJob(w) \/ Idle(w)

Spec == Init /\ [][Next]_vars

\* Threads run, jobs end, time passes and awaited fds become ready.  Nothing
\* obliges a client to call or a job to make calls.
Fairness ==
    /\ WF_vars(Stop) /\ WF_vars(FdReady) /\ WF_vars(TimePasses)
    /\ \A a \in Actors : WF_vars(Do(a))
    /\ \A w \in Workers : WF_vars(Fetch(w)) /\ WF_vars(EndJob(w)) /\ WF_vars(Idle(w))

FairSpec == Spec /\ Fairness

-----------------------------------------------------------------------------
(* Properties. *)

\* Events an actor has moved out and not yet counted down.
InFlight(a) ==
    UNION {{<<a, i>>} \X (1..todo[a][i].n) : i \in {i \in DOMAIN todo[a] : todo[a][i].op = "sub"}}

\* pending_event_count_ is the number of registered events plus those that are
\* already moved out of their FdContext but not yet counted down, so it never
\* runs below zero and never leaks, however the calls interleave.
PendingExact ==
    pending = Cardinality({s \in Slots : handler[s] # None})
                + Cardinality(UNION {InFlight(a) : a \in Actors})

\* The places a handler can be in: queued, running, registered, timed, or about
\* to be pushed by an actor.
Pushes(a, j) ==
    {i \in DOMAIN todo[a] : todo[a][i].op = "push" /\ todo[a][i].job = j}

Places(j) ==
    Cardinality({i \in DOMAIN tasks : tasks[i].job = j})
    + Cardinality({w \in Workers : cur[w] = j})
    + Cardinality({s \in Slots : handler[s] = j})
    + Cardinality({j} \cap timers)
    + Cardinality(UNION {{a} \X Pushes(a, j) : a \in Actors})

\* Every handler is in exactly one place from its registration until it has
\* run or was deleted: an event that fires while it is cancelled, deleted or
\* reported to a second worker is delivered once or not at all.
DeliveredOnce ==
    \A j \in Jobs : Places(j) = IF state[j] \in {"new", "ended", "deleted"} THEN 0 ELSE 1

\* Where the handlers of module EventDelivery are: the slots, timers, lists and
\* threads that really have them.  Only for what is over there is but a history.
Armed  == {j \in Jobs : j \in timers \/ \E s \in Slots : handler[s] = j}
Owed   == {j \in Jobs : \/ \E i \in DOMAIN tasks : tasks[i].job = j
                       \/ \E a \in Actors : Pushes(a, j) # {}}
Active == {j \in Jobs : \E w \in Workers : cur[w] = j}
Over   == {j \in Jobs : state[j] \in {"ended", "deleted"}}

Delivery == INSTANCE EventDelivery
                WITH armed <- Armed, owed <- Owed, active <- Active, gone <- Over

\* IOManager implements EventDelivery: each step of an interface call, of run()
\* or of idle(), on any thread, is one of its steps or changes nothing it sees.
Delivers == Delivery!Spec

\* The worker will come to getNextTask() before it waits again.
WillFetch(w) ==
    \/ pc[w] \in {"fetch", "running"}
    \/ /\ pc[w] \notin {"timeout", "epoll", "exited"}
       /\ ready[w] \/ TickleTag \in got[w]

\* A queued task that any thread may run is never forgotten: there is a token
\* in the eventfd, or an actor is about to write one, or a worker is on its way
\* to getNextTask().
WorkIsSeen ==
    (~force /\ \E i \in DOMAIN tasks : tasks[i].pin = AnyThread) =>
        \/ tokens > 0
        \/ \E a \in Actors : \E i \in DOMAIN todo[a] : todo[a][i].op = TICKLE
        \/ \E w \in Workers : WillFetch(w)

AllExited == \A w \in Workers : pc[w] = "exited"

\* Workers leave run() only when the work they were given is done: whatever a
\* worker queued itself is run before the last one has left.
NothingLeftByWorkers ==
    (AllExited /\ ~force) => \A i \in DOMAIN tasks : tasks[i].job \in ext

\* Every handler, timer and task is served, or withdrawn, unless a stop begins.
EverythingServed ==
    \A j \in Jobs :
        (state[j] \in {"waiting", "timed", "triggered", "queued"} /\ ~stopping)
            ~> (state[j] \in {"ended", "deleted"} \/ stopping)
=============================================================================
