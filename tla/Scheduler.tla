------------------------------ MODULE Scheduler ------------------------------
(***************************************************************************)
(* droplet::Scheduler: N threads run the fibers and functions of one       *)
(* locked task list.  A thread alternates between getNextTask(), resume()  *)
(* of what it got, and its idle fiber, which sleeps on a condition         *)
(* variable.  The grain is what another thread can observe: every critical *)
(* section of mutex_ is one step, except the predicate of cv_.wait(),      *)
(* which is evaluated with mutex_ held before the thread is a waiter (the  *)
(* stop flag is an atomic that changes without mutex_); a push and the     *)
(* notification that follows it are two steps; and Fiber::resume() and     *)
(* yield_to() are split where state_ and ctx_ are written.                 *)
(***************************************************************************)
EXTENDS Integers, Sequences, FiniteSets, SequencesExt

CONSTANTS
    Workers,      \* threads created by start() (worker_count_ of them)
    Caller,       \* the thread that constructs the scheduler
    Client,       \* a thread outside the scheduler that schedules and stops
    UseCaller,    \* use_caller_
    UserFibers,   \* fibers created by the user and passed to schedule(Fiber::Ptr)
    Funcs,        \* functions passed to schedule(std::function)
    Wrappers,     \* fiber objects that run() creates for functions
    AnyThread,    \* thread_id = -1
    None,         \* nullptr
    StopKinds,    \* who may stop the scheduler, see StopBegin
    MaxYields,    \* bound: how often one fiber calls yield_to_ready
    MaxHolds,     \* bound: how often one fiber waits for its holder
    LatePins      \* whether tasks pinned to a thread are scheduled after a stop began

Threads == Workers \cup (IF UseCaller THEN {Caller} ELSE {})
Fibers  == UserFibers \cup Wrappers
Jobs    == UserFibers \cup Funcs
Pins    == Threads \cup {AnyThread}

ASSUME ConstantsAssumption ==
    /\ UseCaller \in BOOLEAN /\ LatePins \in BOOLEAN
    /\ MaxYields \in Nat /\ MaxHolds \in Nat
    /\ StopKinds \subseteq {"stop", "dtor", "caller"}

\* The constructor asserts thread_count > 0.
ASSUME ThreadsAssumption == Threads # {}

ASSUME DistinctAssumption ==
    /\ Client \notin Threads /\ AnyThread \notin Threads /\ None \notin Threads
    /\ Client # None /\ AnyThread # None /\ Caller \notin Workers
    /\ None \notin Jobs \cup Fibers
    /\ UserFibers \cap (Wrappers \cup Funcs) = {}

VARIABLES
    tasks,      \* tasks_: sequence of [fib, fn, pin]
    mutex,      \* owner of mutex_ between two steps, or None
    stopping,   \* stopping_
    started,    \* started_
    thread_ids, \* thread_ids_, as a set
    pc,         \* where each thread is in run() / idle()
    cur,        \* the ScheduleTask a thread has taken
    cbFiber,    \* run()'s local cb_fiber
    pend,       \* a notification an actor still owes after its push
    st,         \* Fiber::state_; "NONE" for a wrapper not yet created
    saved,      \* ctx_ is the fiber's last suspension point
    job,        \* what the fiber runs
    held,       \* fibers in the hands of an external holder that wakes them
    yields,     \* number of yield_to_ready calls of a fiber
    holds,      \* number of waits of a fiber
    stopPc,     \* progress of the stop() or ~Scheduler() in execution
    stopper,    \* which kind of stop it is
    pinOf,      \* history: the thread_id a job was scheduled with
    late,       \* history: jobs scheduled from outside after stopping_ was set
    done,       \* history: how often a job ran to its end
    overtaken   \* history: a thread took a fiber that another had not yet left

queueVars == <<tasks, mutex, pend>>
lifeVars  == <<stopping, started, thread_ids, stopPc, stopper>>
loopVars  == <<pc, cur, cbFiber>>
fiberVars == <<st, saved, job, held, yields, holds>>
histVars  == <<pinOf, late, done, overtaken>>
vars == <<queueVars, lifeVars, loopVars, fiberVars, histVars>>

FiberStates == {"NONE", "INIT", "HOLD", "EXEC", "TERM", "READY", "EXCEPT"}
Task   == [fib : Fibers \cup {None}, fn : Funcs \cup {None}, pin : Pins]
NoTask == [fib |-> None, fn |-> None, pin |-> AnyThread]

TypeOK ==
    /\ tasks \in Seq(Task)
    /\ mutex \in Threads \cup {None}
    /\ stopping \in BOOLEAN /\ started \in BOOLEAN
    /\ thread_ids \subseteq Threads
    /\ pc \in [Threads -> {"new", "register", "fetch", "wrap", "resume", "exec",
                           "armed", "instop", "switch", "settle", "idle",
                           "block", "asleep", "check", "exited"}]
    /\ cur \in [Threads -> Task]
    /\ cbFiber \in [Threads -> Wrappers \cup {None}]
    /\ pend \in [Threads \cup {Client} -> {"no", "one", "all"}]
    /\ st \in [Fibers -> FiberStates]
    /\ saved \in [Fibers -> BOOLEAN]
    /\ job \in [Fibers -> Jobs \cup {None}]
    /\ held \subseteq Fibers
    /\ yields \in [Fibers -> 0..MaxYields]
    /\ holds \in [Fibers -> 0..MaxHolds]
    /\ stopPc \in {"no", "lock", "notify", "join", "done"}
    /\ stopper \in {"nobody", "stop", "dtor", "caller"}
    /\ pinOf \in [Jobs -> Pins \cup {None}]
    /\ late \subseteq Jobs
    /\ done \in [Jobs -> Nat]
    /\ overtaken \in BOOLEAN

Init ==
    /\ tasks = <<>>
    /\ mutex = None
    /\ stopping = FALSE /\ started = FALSE
    /\ thread_ids = Threads \ Workers
    /\ pc = [t \in Threads |-> "new"]
    /\ cur = [t \in Threads |-> NoTask]
    /\ cbFiber = [t \in Threads |-> None]
    /\ pend = [a \in Threads \cup {Client} |-> "no"]
    /\ st = [f \in Fibers |-> IF f \in UserFibers THEN "INIT" ELSE "NONE"]
    /\ saved = [f \in Fibers |-> TRUE]
    /\ job = [f \in Fibers |-> IF f \in UserFibers THEN f ELSE None]
    /\ held = {}
    /\ yields = [f \in Fibers |-> 0]
    /\ holds = [f \in Fibers |-> 0]
    /\ stopPc = "no" /\ stopper = "nobody"
    /\ pinOf = [j \in Jobs |-> None]
    /\ late = {}
    /\ done = [j \in Jobs |-> 0]
    /\ overtaken = FALSE

-----------------------------------------------------------------------------
(* Scheduling a task. *)

TaskOf(j, p) == IF j \in UserFibers THEN [fib |-> j, fn |-> None, pin |-> p]
                                    ELSE [fib |-> None, fn |-> j, pin |-> p]

\* Mutant: a pinned task wakes one waiter only, which may be the wrong one.
NotifyOneAlways(p) == "one"

\* The notification schedule() owes once mutex_ is released.
NotifyKind(p) == IF p = AnyThread THEN "one" ELSE "all"

\* schedule(): tasks_.push_back under mutex_.  The caller then notifies.
Push(a, task) ==
    /\ mutex = None
    /\ tasks' = Append(tasks, task)
    /\ pend' = [pend EXCEPT ![a] = NotifyKind(task.pin)]
    /\ UNCHANGED mutex

Asleep == {t \in Threads : pc[t] = "asleep"}

\* cv_.notify_one() / notify_all(): a notified waiter goes back to re-evaluate
\* the predicate of cv_.wait().
Wakeups(kind) ==
    IF kind = "one" /\ Asleep # {} THEN {{t} : t \in Asleep} ELSE {Asleep}

Notify(a) ==
    /\ pend[a] # "no"
    /\ \E W \in Wakeups(pend[a]) :
          pc' = [t \in Threads |-> IF t \in W THEN "idle" ELSE pc[t]]
    /\ pend' = [pend EXCEPT ![a] = "no"]
    /\ UNCHANGED <<tasks, mutex, lifeVars, cur, cbFiber, fiberVars, histVars>>

\* The thread_id arguments in use: any registered thread, or -1.
PinChoices == {AnyThread} \cup (IF stopping /\ ~LatePins THEN {} ELSE thread_ids)

\* History of a job given to schedule() for the first time.
Record(j, p, isLate) ==
    /\ pinOf' = [pinOf EXCEPT ![j] = p]
    /\ late' = IF isLate THEN late \cup {j} ELSE late
    /\ UNCHANGED <<done, overtaken>>

\* schedule(x, thread_id) from a thread outside the scheduler, at any time but
\* not while the scheduler is destroyed.
ClientSchedule ==
    /\ pend[Client] = "no" /\ stopper # "dtor"
    /\ \E j \in Jobs, p \in PinChoices :
          /\ pinOf[j] = None
          /\ Push(Client, TaskOf(j, p))
          /\ Record(j, p, stopping)
    /\ UNCHANGED <<lifeVars, loopVars, fiberVars>>

\* schedule(begin, end): both elements under one lock, then one notify_one().
ClientBatch ==
    /\ pend[Client] = "no" /\ stopper # "dtor" /\ mutex = None
    /\ \E j, k \in Jobs :
          /\ j # k /\ pinOf[j] = None /\ pinOf[k] = None
          /\ tasks' = tasks \o <<TaskOf(j, AnyThread), TaskOf(k, AnyThread)>>
          /\ pinOf' = [pinOf EXCEPT ![j] = AnyThread, ![k] = AnyThread]
          /\ late' = IF stopping THEN late \cup {j, k} ELSE late
    /\ pend' = [pend EXCEPT ![Client] = "one"]
    /\ UNCHANGED <<mutex, done, overtaken, lifeVars, loopVars, fiberVars>>

-----------------------------------------------------------------------------
(* Life cycle. *)

\* start(): every worker is created; with use_caller_ the calling thread goes
\* straight into run().
Start ==
    /\ ~started
    /\ stopPc = "no"
    /\ started' = TRUE
    /\ stopping' = FALSE
    /\ pc' = [t \in Threads |-> IF t \in Workers THEN "register" ELSE "fetch"]
    /\ UNCHANGED <<queueVars, thread_ids, stopPc, stopper, cur, cbFiber, fiberVars,
                   histVars>>

\* A worker's first step: register its id, count the latch down, enter run().
Register(t) ==
    /\ pc[t] = "register"
    /\ mutex = None
    /\ thread_ids' = thread_ids \cup {t}
    /\ pc' = [pc EXCEPT ![t] = "fetch"]
    /\ UNCHANGED <<queueVars, stopping, started, stopPc, stopper, cur, cbFiber,
                   fiberVars, histVars>>

\* start() returns when the latch is open; with use_caller_ it has not
\* returned while the caller is in run().
StartReturned == started /\ (UseCaller \/ Workers \subseteq thread_ids)

\* Mutant: stop() does not look its own id up.
FirstStopStepUnlocked(k) == "notify"

\* stop() takes mutex_ to look its own id up; ~Scheduler() does not.
FirstStopStep(k) == IF k = "stop" THEN "lock" ELSE "notify"

\* stop() or ~Scheduler() sets stopping_; only the first call goes on.
\* "stop": stop() on a thread outside the scheduler; "dtor": ~Scheduler().
StopBegin ==
    /\ StartReturned /\ ~stopping /\ pend[Client] = "no"
    /\ \E k \in StopKinds \cap {"stop", "dtor"} :
          /\ stopper' = k
          /\ stopPc' = FirstStopStep(k)
    /\ stopping' = TRUE
    /\ UNCHANGED <<queueVars, started, thread_ids, loopVars, fiberVars, histVars>>

\* "caller": a task on the caller thread calls stop(); the id lookup, and with
\* it the lock, is skipped.
BodyStop(t) ==
    /\ t = Caller /\ "caller" \in StopKinds
    /\ pc[t] = "exec" /\ pend[t] = "no" /\ ~stopping
    /\ stopping' = TRUE
    /\ stopper' = "caller" /\ stopPc' = "notify"
    /\ pc' = [pc EXCEPT ![t] = "instop"]
    /\ UNCHANGED <<queueVars, started, thread_ids, cur, cbFiber, fiberVars, histVars>>

\* stop(): is this thread in thread_ids_?  Only the lock matters here.
StopLock ==
    /\ stopPc = "lock" /\ mutex = None
    /\ stopPc' = "notify"
    /\ UNCHANGED <<queueVars, stopping, started, thread_ids, stopper, loopVars,
                   fiberVars, histVars>>

\* cv_.notify_all(); tickle() does nothing in the base class.
StopNotify ==
    /\ stopPc = "notify"
    /\ stopPc' = "join"
    /\ pc' = [t \in Threads |-> IF t \in Asleep THEN "idle" ELSE pc[t]]
    /\ UNCHANGED <<queueVars, stopping, started, thread_ids, stopper, cur, cbFiber,
                   fiberVars, histVars>>

\* join() of every worker has returned.
StopJoin ==
    /\ stopPc = "join"
    /\ \A t \in Workers : pc[t] = "exited"
    /\ stopPc' = "done"
    /\ pc' = IF stopper = "caller" THEN [pc EXCEPT ![Caller] = "exec"] ELSE pc
    /\ UNCHANGED <<queueVars, stopping, started, thread_ids, stopper, cur, cbFiber,
                   fiberVars, histVars>>

-----------------------------------------------------------------------------
(* run(): the loop every scheduling thread executes. *)

\* getNextTask() skips tasks pinned elsewhere and fibers that are EXEC.
Eligible(t, task) ==
    /\ task.pin \in {AnyThread, t}
    /\ task.fib # None => st[task.fib] # "EXEC"

Candidates(t) == {i \in DOMAIN tasks : Eligible(t, tasks[i])}

\* A thread is on its way from f's stack back into run(): state_ says that f is
\* suspended, but ctx_ or what run() does next still belongs to that thread.
BeingLeft(f) == \E u \in Threads : cur[u].fib = f /\ pc[u] \in {"switch", "settle"}

\* Mutant: the entry stays in the list.
EraseForgotten(i) == tasks

\* tasks_.erase(it)
Erase(i) == RemoveAt(tasks, i)

\* getNextTask(): the first eligible entry is erased and handed out.  Nothing
\* asks whether the fiber has been left.
GetNextTask(t) ==
    /\ pc[t] = "fetch" /\ pend[t] = "no"
    /\ mutex = None
    /\ \E i \in Candidates(t) :
          /\ \A k \in Candidates(t) : i <= k
          /\ cur' = [cur EXCEPT ![t] = tasks[i]]
          /\ tasks' = Erase(i)
          /\ pc' = [pc EXCEPT ![t] = IF tasks[i].fib # None THEN "resume" ELSE "wrap"]
          /\ overtaken' = (overtaken \/ (tasks[i].fib # None /\ BeingLeft(tasks[i].fib)))
    /\ UNCHANGED <<mutex, pend, lifeVars, cbFiber, fiberVars, pinOf, late, done>>

\* getNextTask() found nothing: resume the idle fiber.
NoTaskFound(t) ==
    /\ pc[t] = "fetch" /\ pend[t] = "no"
    /\ mutex = None
    /\ Candidates(t) = {}
    /\ pc' = [pc EXCEPT ![t] = "idle"]
    /\ UNCHANGED <<queueVars, lifeVars, cur, cbFiber, fiberVars, histVars>>

\* A function runs on cb_fiber: reset() if that one is TERM, a new fiber
\* otherwise.
WrapOn(t, f) ==
    /\ cbFiber' = [cbFiber EXCEPT ![t] = f]
    /\ cur' = [cur EXCEPT ![t].fib = f]
    /\ st' = [st EXCEPT ![f] = "INIT"]
    /\ saved' = [saved EXCEPT ![f] = TRUE]
    /\ job' = [job EXCEPT ![f] = cur[t].fn]
    /\ yields' = [yields EXCEPT ![f] = 0]
    /\ holds' = [holds EXCEPT ![f] = 0]

Wrap(t) ==
    /\ pc[t] = "wrap"
    /\ IF cbFiber[t] # None /\ st[cbFiber[t]] = "TERM"
       THEN WrapOn(t, cbFiber[t])
       ELSE \E f \in Wrappers : st[f] = "NONE" /\ WrapOn(t, f)
    /\ pc' = [pc EXCEPT ![t] = "resume"]
    /\ UNCHANGED <<queueVars, lifeVars, held, histVars>>

\* Fiber::resume() up to the jump: state_ = EXEC, and ctx_ is used up.
Resume(t) ==
    LET f == cur[t].fib IN
    /\ pc[t] = "resume"
    /\ st' = [st EXCEPT ![f] = "EXEC"]
    /\ saved' = [saved EXCEPT ![f] = FALSE]
    /\ pc' = [pc EXCEPT ![t] = "exec"]
    /\ UNCHANGED <<queueVars, lifeVars, cur, cbFiber, job, held, yields, holds,
                   histVars>>

\* The jump comes back in the resumer: ctx_ = the new suspension point.
Switch(t) ==
    LET f == cur[t].fib IN
    /\ pc[t] = "switch"
    /\ saved' = [saved EXCEPT ![f] = TRUE]
    /\ pc' = [pc EXCEPT ![t] = "settle"]
    /\ UNCHANGED <<queueVars, lifeVars, cur, cbFiber, st, job, held, yields, holds,
                   histVars>>

\* Mutant: a fiber that waits for its holder is queued as well.
QueuedAgainOrHeld(s) == s \in {"READY", "HOLD"}

\* The states in which run() queues the fiber again.
QueuedAgain(s) == s = "READY"

\* Mutant: a wrapper that was queued again is kept for the next function.
WrapperGivenAwayOnHold(s) == s = "HOLD"

\* The states in which run() gives the wrapper of a function away.
WrapperGivenAway(s) == s \in {"READY", "HOLD"}

\* run() after resume(): a READY fiber is queued again, a fiber task with its
\* own thread_id, a function's wrapper with thread_id = -1.  A wrapper that is
\* READY or HOLD no longer belongs to this thread.
Settle(t) ==
    LET f == cur[t].fib
        isFn == cur[t].fn # None
        again == [fib |-> f, fn |-> None, pin |-> IF isFn THEN AnyThread ELSE cur[t].pin]
    IN
    /\ pc[t] = "settle"
    /\ IF QueuedAgain(st[f]) THEN Push(t, again) ELSE UNCHANGED queueVars
    /\ cbFiber' = IF isFn /\ WrapperGivenAway(st[f])
                  THEN [cbFiber EXCEPT ![t] = None] ELSE cbFiber
    /\ cur' = [cur EXCEPT ![t] = NoTask]
    /\ pc' = [pc EXCEPT ![t] = "fetch"]
    /\ UNCHANGED <<lifeVars, fiberVars, histVars>>

-----------------------------------------------------------------------------
(* idle(): the base class sleeps on the condition variable. *)

\* Mutant: the sleeper looks at the stop flag only.
WaitPredicateStopOnly == stopping

WaitPredicate == stopping \/ tasks # <<>>

\* cv_.wait() evaluates its predicate with mutex_ held.  If it is false the
\* thread is about to block and still owns mutex_.
IdleEnter(t) ==
    /\ pc[t] = "idle"
    /\ mutex = None
    /\ IF WaitPredicate
       THEN pc' = [pc EXCEPT ![t] = "check"] /\ UNCHANGED mutex
       ELSE pc' = [pc EXCEPT ![t] = "block"] /\ mutex' = t
    /\ UNCHANGED <<tasks, pend, lifeVars, cur, cbFiber, fiberVars, histVars>>

\* cv_.wait() becomes a waiter and releases mutex_ in one step.
Block(t) ==
    /\ pc[t] = "block"
    /\ mutex' = None
    /\ pc' = [pc EXCEPT ![t] = "asleep"]
    /\ UNCHANGED <<tasks, pend, lifeVars, cur, cbFiber, fiberVars, histVars>>

\* std::condition_variable may wake a waiter for no reason.
SpuriousWakeup(t) ==
    /\ pc[t] = "asleep"
    /\ pc' = [pc EXCEPT ![t] = "idle"]
    /\ UNCHANGED <<queueVars, lifeVars, cur, cbFiber, fiberVars, histVars>>

\* Mutant: the list is not looked at.
IdleLeavesOnStop == stopping

\* idle() returns, and with it run().
IdleLeaves == stopping /\ tasks = <<>>

\* After the wait, without mutex_: leave run() if stopping and the list is
\* empty, otherwise yield_to_hold() back into the loop.
IdleCheck(t) ==
    /\ pc[t] = "check"
    /\ pc' = [pc EXCEPT ![t] = IF IdleLeaves THEN "exited" ELSE "fetch"]
    /\ UNCHANGED <<queueVars, lifeVars, cur, cbFiber, fiberVars, histVars>>

-----------------------------------------------------------------------------
(* What a running task may do. *)

Running(t) == pc[t] = "exec" /\ pend[t] = "no"

\* The body calls schedule() on the scheduler it runs on.
BodySchedule(t) ==
    /\ Running(t)
    /\ \E j \in Funcs, p \in PinChoices :
          /\ pinOf[j] = None
          /\ Push(t, TaskOf(j, p))
          /\ Record(j, p, FALSE)
    /\ UNCHANGED <<lifeVars, loopVars, fiberVars>>

\* Fiber::yield_to(): state_ is written before the jump saves the context.
BodyYieldReady(t) ==
    LET f == cur[t].fib IN
    /\ Running(t)
    /\ yields[f] < MaxYields
    /\ yields' = [yields EXCEPT ![f] = @ + 1]
    /\ st' = [st EXCEPT ![f] = "READY"]
    /\ pc' = [pc EXCEPT ![t] = "switch"]
    /\ UNCHANGED <<queueVars, lifeVars, cur, cbFiber, saved, job, held, holds, histVars>>

\* The body hands its own fiber to a holder (an fd event, a timer), which may
\* schedule it from now on ...
BodyArm(t) ==
    LET f == cur[t].fib IN
    /\ Running(t)
    /\ holds[f] < MaxHolds
    /\ holds' = [holds EXCEPT ![f] = @ + 1]
    /\ held' = held \cup {f}
    /\ pc' = [pc EXCEPT ![t] = "armed"]
    /\ UNCHANGED <<queueVars, lifeVars, cur, cbFiber, st, saved, job, yields, histVars>>

\* ... and yields to it.
BodyYieldHold(t) ==
    LET f == cur[t].fib IN
    /\ pc[t] = "armed"
    /\ st' = [st EXCEPT ![f] = "HOLD"]
    /\ pc' = [pc EXCEPT ![t] = "switch"]
    /\ UNCHANGED <<queueVars, lifeVars, cur, cbFiber, saved, job, held, yields, holds,
                   histVars>>

\* Fiber::run(): the callback returned (TERM) or threw (EXCEPT).
BodyEnd(t) ==
    LET f == cur[t].fib IN
    /\ Running(t)
    /\ \E s \in {"TERM", "EXCEPT"} : st' = [st EXCEPT ![f] = s]
    /\ done' = [done EXCEPT ![job[f]] = @ + 1]
    /\ pc' = [pc EXCEPT ![t] = "switch"]
    /\ UNCHANGED <<queueVars, lifeVars, cur, cbFiber, saved, job, held, yields, holds,
                   pinOf, late, overtaken>>

\* The holder of f schedules it for any thread, as soon as it has it: whether f
\* has left its stack is not looked at.
HolderWake ==
    /\ pend[Client] = "no" /\ stopper # "dtor"
    /\ \E f \in held :
          /\ Push(Client, [fib |-> f, fn |-> None, pin |-> AnyThread])
          /\ held' = held \ {f}
          /\ late' = IF stopping THEN late \cup {job[f]} ELSE late
    /\ UNCHANGED <<lifeVars, loopVars, st, saved, job, yields, holds, pinOf, done,
                   overtaken>>

-----------------------------------------------------------------------------

Body(t) == \/ BodySchedule(t) \/ BodyYieldReady(t) \/ BodyArm(t)
           \/ BodyYieldHold(t) \/ BodyEnd(t) \/ BodyStop(t)

Loop(t) == \/ Register(t) \/ GetNextTask(t) \/ NoTaskFound(t) \/ Wrap(t)
           \/ Resume(t) \/ Switch(t) \/ Settle(t) \/ IdleEnter(t) \/ Block(t)
           \/ IdleCheck(t)

Stop == StopLock \/ StopNotify \/ StopJoin

\* Everything has stopped; the only step left is to stay.
Terminated ==
    /\ stopPc = "done" /\ \A t \in Threads : pc[t] = "exited"
    /\ UNCHANGED vars

Next ==
    \/ Terminated
    \/ Start \/ StopBegin \/ Stop
    \/ ClientSchedule \/ ClientBatch \/ HolderWake
    \/ \E a \in Threads \cup {Client} : Notify(a)
    \/ \E t \in Threads : Loop(t) \/ Body(t) \/ SpuriousWakeup(t)

Spec == Init /\ [][Next]_vars

\* The kernel runs every runnable thread, and a thread that keeps asking for
\* mutex_ gets it although others take it too (strong fairness); a task's body
\* comes to its end; a holder delivers.  Nothing obliges a client to schedule
\* or to stop.
Fairness ==
    /\ SF_vars(Stop)
    /\ SF_vars(HolderWake)
    /\ \A a \in Threads \cup {Client} : WF_vars(Notify(a))
    /\ \A t \in Threads : SF_vars(Loop(t)) /\ WF_vars(Body(t))

FairSpec == Spec /\ Fairness

-----------------------------------------------------------------------------
(* Properties. *)

OnStack(t) == pc[t] \in {"exec", "armed", "instop", "switch"}

\* Fiber::resume() jumps to the place where the fiber was last suspended: it is
\* entered only on a fiber that is INIT, HOLD or READY and whose ctx_ has been
\* stored since, and no two threads are on one fiber's stack.  A holder that
\* schedules a fiber between its hand-over and its yield breaks it.
ExclusiveResume ==
    /\ \A t \in Threads : pc[t] = "resume" =>
          st[cur[t].fib] \in {"INIT", "HOLD", "READY"} /\ saved[cur[t].fib]
    /\ \A t, u \in Threads :
          t # u /\ OnStack(t) /\ OnStack(u) => cur[t].fib # cur[u].fib

\* And that is the only way: unless a thread has taken a fiber on whose stack,
\* or between whose suspension and its settling, another one still is, no fiber
\* is ever queued or held so that two threads get it.
ExclusiveUnlessOvertaken == overtaken \/ ExclusiveResume

\* A wrapper that run() is about to reset() is referenced by nobody else: not
\* queued, not held, not on another thread.  The same exception: a thread that
\* has been overtaken finds its wrapper EXEC or TERM, not HOLD, and keeps it.
ResetOnlyOwned ==
    overtaken \/ \A t \in Threads :
        LET f == cbFiber[t] IN
        pc[t] = "wrap" /\ f # None /\ st[f] = "TERM" =>
            /\ f \notin held
            /\ \A i \in DOMAIN tasks : tasks[i].fib # f
            /\ \A u \in Threads : u # t => cur[u].fib # f /\ cbFiber[u] # f

\* A job handed to schedule() once never runs to its end twice, unless a thread
\* was overtaken (the job then runs from a suspension point it has passed).
RunsAtMostOnce == overtaken \/ \A j \in Jobs : done[j] <= 1

\* stop() drains: once every thread has left run(), what was scheduled before
\* the stop, or by a task during it, has run or waits for a holder.  The same
\* exception.
Drained ==
    (started /\ \A t \in Threads : pc[t] = "exited") =>
        overtaken \/ \A j \in Jobs : pinOf[j] # None /\ j \notin late =>
            done[j] = 1 \/ \E f \in held : job[f] = j

MayRun(task) == {t \in Threads : /\ task.pin \in {AnyThread, t}
                                 /\ pc[t] \notin {"new", "register", "exited"}}

\* A queued task always has a thread that will come for it: unless one of the
\* threads it may run on is awake, a notification that reaches them is due.
NoLostWakeup ==
    \A i \in DOMAIN tasks :
        MayRun(tasks[i]) # {} /\ MayRun(tasks[i]) \subseteq Asleep =>
            \E a \in Threads \cup {Client} :
                pend[a] = "all" \/ (pend[a] = "one" /\ tasks[i].pin = AnyThread)

\* Every scheduled job runs to its end unless the scheduler was stopped first.
EveryJobRuns ==
    \A j \in Jobs :
        (started /\ pinOf[j] # None) ~> (done[j] > 0 \/ j \in late)

\* stop() and ~Scheduler() return.
StopReturns == stopping ~> (stopPc = "done")
=============================================================================
