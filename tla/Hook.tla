-------------------------------- MODULE Hook --------------------------------
(***************************************************************************)
(* The system call hooks and FdManager: a blocking call of a fiber becomes *)
(* a non-blocking one, an event of the IOManager, a timer for the timeout  *)
(* and yield_to_hold().  Fibers run on NWorkers threads, so at most that   *)
(* many tasks (fibers, timer callbacks) are between two suspensions.       *)
(*                                                                         *)
(* A descriptor number names one open file after the other; contexts       *)
(* (FdCtx) are shared objects that a call keeps after FdManager dropped    *)
(* them.  The fiber switch is the subject of module Scheduler, the event   *)
(* loop that of module IOManager: here an event is delivered in one step.  *)
(***************************************************************************)
EXTENDS Integers, FiniteSets

CONSTANTS
    Fibers,
    Fds,         \* descriptor numbers
    Ctxs,        \* FdCtx objects
    None,
    NWorkers,    \* scheduling threads of the IOManager
    Calls,       \* the hooked functions the fibers use
    MaxFiles,    \* bound: files opened in a behaviour
    MaxCalls     \* bound: calls one fiber makes

Events == {"READ", "WRITE"}
Slots  == Fds \X Events

ASSUME ConstantsAssumption ==
    /\ IsFiniteSet(Fibers) /\ IsFiniteSet(Ctxs) /\ IsFiniteSet(Fds)
    /\ None \notin Fibers \cup Ctxs \cup Fds
    /\ NWorkers \in Nat \ {0} /\ MaxFiles \in Nat \ {0} /\ MaxCalls \in Nat
    /\ Calls \subseteq {"recv", "connect", "sleep", "socket", "close", "setfl",
                        "fionbio", "rcvtimeo"}

\* There is always an object left: std::make_shared() does not fail.
ASSUME CtxsAssumption == Cardinality(Ctxs) >= Cardinality(Fds) + Cardinality(Fibers)

VARIABLES
    \* the kernel
    file,       \* the open file behind a number, 0 if closed
    files,      \* number of files opened so far
    knb,        \* O_NONBLOCK of the open file
    ready,      \* the <<fd, event>> pairs that are ready
    polled,     \* fds that are in the epoll set
    dialled,    \* fds on which connect has been called
    \* FdManager
    table,      \* data_
    ctx,        \* the FdCtx objects; file is a history variable
    \* IOManager
    slot,       \* FdContext: the fiber registered for an fd and an event
    queue,      \* fibers that are scheduled
    \* the calls
    on,         \* fibers that are running on a worker
    pc, call,   \* where a fiber is in its call
    info,       \* TimerInfo::cancelled: the timeout has won
    armed,      \* fibers whose timeout timer is in TimerManager
    fired,      \* fibers whose timer has expired, its callback is queued
    cb,         \* callbacks between the exchange and cancelEvent()
    ncalls,
    last,       \* what the last call of a fiber returned
    \* history
    expired,    \* fibers whose timeout has passed during the current call
    doomed      \* fibers that were suspended when their context was marked closed

kernelVars == <<file, files, knb, ready, polled, dialled>>
fdVars     == <<table, ctx>>
timerVars  == <<info, armed, fired, cb, expired>>
vars == <<kernelVars, fdVars, slot, queue, on, pc, call, timerVars, ncalls, last, doomed>>

NoCtx  == [closed |-> FALSE, socket |-> FALSE, unb |-> FALSE, snb |-> FALSE,
           timed |-> FALSE, file |-> 0]
NoCall == [op |-> None, fd |-> None, ctx |-> None, timed |-> FALSE, arg |-> FALSE]

TypeOK ==
    /\ file \in [Fds -> 0..MaxFiles] /\ files \in 0..MaxFiles
    /\ knb \in [Fds -> BOOLEAN] /\ ready \subseteq Slots /\ polled \subseteq Fds
    /\ dialled \subseteq Fds
    /\ table \in [Fds -> Ctxs \cup {None}]
    /\ ctx \in [Ctxs -> [closed : BOOLEAN, socket : BOOLEAN, unb : BOOLEAN, snb : BOOLEAN,
                         timed : BOOLEAN, file : 0..MaxFiles]]
    /\ slot \in [Slots -> Fibers \cup {None}]
    /\ queue \subseteq Fibers /\ on \subseteq Fibers
    /\ pc \in [Fibers -> {"idle", "get", "check", "call", "arm", "add", "yield", "held",
                          "woken", "error", "asleep", "mark", "cancelAll", "del",
                          "closef", "ioctl", "context", "fcntl"}]
    /\ call \in [Fibers -> [op : Calls \cup {None}, fd : Fds \cup {None},
                            ctx : Ctxs \cup {None}, timed : BOOLEAN, arg : BOOLEAN]]
    /\ info \in [Fibers -> BOOLEAN]
    /\ armed \subseteq Fibers /\ fired \subseteq Fibers /\ cb \subseteq Slots
    /\ ncalls \in [Fibers -> 0..MaxCalls]
    /\ last \in [Fibers -> {"none", "ok", "EAGAIN", "EBADF", "EEXIST", "EALREADY",
                          "ETIMEDOUT"}]
    /\ expired \subseteq Fibers /\ doomed \subseteq Fibers

Init ==
    /\ file = [fd \in Fds |-> 0] /\ files = 0
    /\ knb = [fd \in Fds |-> FALSE] /\ ready = {} /\ polled = {} /\ dialled = {}
    /\ table = [fd \in Fds |-> None] /\ ctx = [c \in Ctxs |-> NoCtx]
    /\ slot = [s \in Slots |-> None] /\ queue = Fibers
    /\ on = {} /\ pc = [f \in Fibers |-> "idle"] /\ call = [f \in Fibers |-> NoCall]
    /\ info = [f \in Fibers |-> FALSE] /\ armed = {} /\ fired = {} /\ cb = {}
    /\ ncalls = [f \in Fibers |-> 0] /\ last = [f \in Fibers |-> "none"]
    /\ expired = {} /\ doomed = {}

-----------------------------------------------------------------------------
(* Tasks on the workers. *)

\* A thread is free to take the next task.
WorkerFree == Cardinality(on) + Cardinality(cb) < NWorkers

\* resume() of a scheduled fiber that has left its stack.
Resume(f) ==
    /\ f \in queue /\ pc[f] \in {"idle", "held", "asleep"} /\ WorkerFree
    /\ queue' = queue \ {f} /\ on' = on \cup {f}
    /\ pc' = [pc EXCEPT ![f] = IF @ = "idle" THEN "idle" ELSE "woken"]
    /\ UNCHANGED <<kernelVars, fdVars, slot, call, timerVars, ncalls, last, doomed>>

\* The fiber runs and is at this point of its call.
At(f, where) == f \in on /\ pc[f] = where

Goto(f, where) == pc' = [pc EXCEPT ![f] = where]

\* Mutant: the timer is not tied to timer_info and outlives the call.
ReturnTimerLives(f, result) ==
    /\ last' = [last EXCEPT ![f] = result]
    /\ Goto(f, "idle")
    /\ call' = [call EXCEPT ![f] = NoCall]
    /\ info' = [info EXCEPT ![f] = FALSE]
    /\ expired' = expired \ {f} /\ doomed' = doomed \ {f}
    /\ UNCHANGED <<armed, fired, cb>>

\* The call returns: timer_info is gone, and with it what a callback that is
\* still queued could do.
Return(f, result) ==
    /\ last' = [last EXCEPT ![f] = result]
    /\ Goto(f, "idle")
    /\ call' = [call EXCEPT ![f] = NoCall]
    /\ info' = [info EXCEPT ![f] = FALSE]
    /\ armed' = armed \ {f} /\ fired' = fired \ {f}
    /\ expired' = expired \ {f} /\ doomed' = doomed \ {f}
    /\ UNCHANGED cb

\* The body of a fiber ends its turn: it yields READY and is queued again.
Yield(f) ==
    /\ At(f, "idle") /\ ncalls[f] < MaxCalls
    /\ on' = on \ {f} /\ queue' = queue \cup {f}
    /\ UNCHANGED <<kernelVars, fdVars, slot, pc, call, timerVars, ncalls, last, doomed>>

\* The first step of each function: where the call begins.
Entry(op) == CASE op \in {"recv", "connect"} -> "get" [] op = "close" -> "mark"
               [] op = "fionbio" -> "ioctl" [] op = "sleep" -> "yield"
               [] OTHER -> "context"

\* What no application does with one number: use it before socket() has
\* returned it, or close it while its settings change or it is being closed:
\* as without hooks, the call could then reach any file.  I/O is not among
\* them: close() is meant to end it.
Excluded(op, other) ==
    \/ other = "socket"
    \/ LET S == {"close", "setfl", "fionbio", "rcvtimeo"}
       IN {op, other} \subseteq S /\ "close" \in {op, other}

\* A fiber calls a hooked function; arg is the flag or the timeout it sets.
Begin(f) ==
    /\ At(f, "idle") /\ ncalls[f] < MaxCalls
    /\ \E op \in Calls, fd \in Fds, v \in BOOLEAN :
          /\ op \in {"recv", "close", "sleep"} => ~v
          /\ op = "socket" <=> file[fd] = 0
          /\ \A g \in Fibers : call[g].fd = fd => ~Excluded(op, call[g].op)
          /\ op = "socket" => files < MaxFiles
          /\ call' = [call EXCEPT ![f] = [NoCall EXCEPT !.op = op, !.fd = fd, !.arg = v]]
          /\ Goto(f, Entry(op))
          /\ IF op = "socket"      \* socket_f(): the lowest free number
             THEN /\ file' = [file EXCEPT ![fd] = files + 1] /\ files' = files + 1
                  /\ knb' = [knb EXCEPT ![fd] = v]
             ELSE UNCHANGED <<file, files, knb>>
    /\ ncalls' = [ncalls EXCEPT ![f] = @ + 1]
    /\ UNCHANGED <<ready, polled, dialled, fdVars, slot, queue, on, timerVars, last, doomed>>

-----------------------------------------------------------------------------
(* FdManager *)

Used == {table[fd] : fd \in Fds} \cup {call[f].ctx : f \in Fibers}

\* An object no one refers to; which one does not matter.
NewCtx == CHOOSE c \in Ctxs : c \notin Used

\* FdCtx::init(): the kernel's file is made non-blocking.
FdCtxInit(fd) == knb' = [knb EXCEPT ![fd] = @ \/ file[fd] # 0]

\* FdManager::get(fd, true): the context of the number, created if there is
\* none; unb is what the caller then stores as the user's O_NONBLOCK, if it
\* does.  fstat() of a closed number fails and leaves an empty context.
GetContext(fd, c, unb) ==
    IF table[fd] # None
    THEN /\ c = table[fd]
         /\ ctx' = [ctx EXCEPT ![c].unb = IF unb = None THEN @ ELSE unb]
         /\ UNCHANGED <<table, knb>>
    ELSE /\ c = NewCtx
         /\ table' = [table EXCEPT ![fd] = c]
         /\ FdCtxInit(fd)
         /\ ctx' = [ctx EXCEPT ![c] = [NoCtx EXCEPT !.socket = file[fd] # 0,
                                       !.snb = file[fd] # 0, !.unb = (unb = TRUE), !.file = file[fd]]]

\* socket(), after socket_f(): the context, and the user's O_NONBLOCK.
SocketContext(f) ==
    /\ At(f, "context") /\ call[f].op = "socket"
    /\ \E c \in Ctxs : GetContext(call[f].fd, c, call[f].arg)
    /\ Return(f, "ok")
    /\ UNCHANGED <<file, files, ready, polled, dialled, slot, queue, on, ncalls>>

\* FdCtx::setTimeout()
TimeoutSet(c, v) == [ctx EXCEPT ![c].timed = v]

\* setsockopt(SO_RCVTIMEO): a zero timeout means none.
SetTimeout(f) ==
    LET fd == call[f].fd
        c == table[fd]
    IN
    /\ At(f, "context") /\ call[f].op = "rcvtimeo"
    /\ ctx' = IF c # None /\ file[fd] # 0 THEN TimeoutSet(c, call[f].arg) ELSE ctx
    /\ Return(f, IF file[fd] = 0 THEN "EBADF" ELSE "ok")
    /\ UNCHANGED <<kernelVars, table, slot, queue, on, ncalls>>

\* fcntl(F_SETFL): the context remembers what the user asked for ...
FcntlContext(f) ==
    LET c == table[call[f].fd]
        mine == c # None /\ ctx[c].socket /\ ~ctx[c].closed
    IN
    /\ At(f, "context") /\ call[f].op = "setfl"
    /\ ctx' = IF mine THEN [ctx EXCEPT ![c].unb = call[f].arg] ELSE ctx
    /\ call' = [call EXCEPT ![f].ctx = IF mine THEN c ELSE None]
    /\ Goto(f, "fcntl")
    /\ UNCHANGED <<kernelVars, table, slot, queue, on, timerVars, ncalls, last, doomed>>

\* ... and the kernel's flag stays set.
FcntlKernel(f) ==
    LET fd == call[f].fd
        c == call[f].ctx
    IN
    /\ At(f, "fcntl")
    /\ knb' = IF file[fd] = 0 THEN knb
              ELSE [knb EXCEPT ![fd] = call[f].arg \/ (c # None /\ ctx[c].snb)]
    /\ Return(f, IF file[fd] = 0 THEN "EBADF" ELSE "ok")
    /\ UNCHANGED <<file, files, ready, polled, dialled, fdVars, slot, queue, on, ncalls>>

\* ioctl(FIONBIO): the kernel's flag changes first ...
IoctlKernel(f) ==
    LET fd == call[f].fd IN
    /\ At(f, "ioctl")
    /\ knb' = IF file[fd] = 0 THEN knb ELSE [knb EXCEPT ![fd] = call[f].arg]
    /\ Goto(f, "context")
    /\ UNCHANGED <<file, files, ready, polled, dialled, fdVars, slot, queue, on, call, timerVars,
                   ncalls, last, doomed>>

\* Mutant: the kernel's flag is left as the user set it.
RestoredNever(fd) == FALSE

\* The hooks need the kernel's flag although the user has cleared it.
Restored(fd) == table[fd] # None /\ file[fd] # 0 /\ ctx[table[fd]].socket /\ ctx[table[fd]].snb

\* ... then the context, and the kernel's flag is restored.
IoctlContext(f) ==
    LET fd == call[f].fd
        c == table[fd]
    IN
    /\ At(f, "context") /\ call[f].op = "fionbio"
    /\ ctx' = IF c # None THEN [ctx EXCEPT ![c].unb = call[f].arg] ELSE ctx
    /\ knb' = [knb EXCEPT ![fd] = @ \/ Restored(fd)]
    /\ Return(f, IF file[fd] = 0 THEN "EBADF" ELSE "ok")
    /\ UNCHANGED <<file, files, ready, polled, dialled, table, slot, queue, on, ncalls>>

-----------------------------------------------------------------------------
(* DoIo() and connect_with_timeout() *)

EventOf(f) == IF call[f].op = "connect" THEN "WRITE" ELSE "READ"

\* The head of both: closed contexts fail, sockets the user made non-blocking
\* and files that are no sockets go straight to the system call.
GetCtx(f) ==
    LET fd == call[f].fd IN
    /\ At(f, "get")
    /\ \E c \in Ctxs :
          /\ GetContext(fd, c, None)
          /\ LET x == ctx'[c] IN
             IF x.closed THEN Return(f, "EBADF")
             ELSE IF ~x.socket \/ x.unb
             THEN Return(f, IF file[fd] = 0 THEN "EBADF"
                            ELSE IF <<fd, EventOf(f)>> \in ready THEN "ok" ELSE "EAGAIN")
             ELSE /\ call' = [call EXCEPT ![f].ctx = c,
                                          ![f].timed = IF call[f].op = "connect" THEN call[f].arg
                                                       ELSE x.timed]
                  /\ Goto(f, IF call[f].op = "connect" THEN "call" ELSE "check")
                  /\ UNCHANGED <<timerVars, last, doomed>>
    /\ UNCHANGED <<file, files, ready, polled, dialled, slot, queue, on, ncalls>>

\* Mutant: a fiber that was woken does not look at the context again.
ClosedUnchecked(f) == FALSE

\* context->isClose()
Closed(f) == ctx[call[f].ctx].closed

\* The loop of DoIo() looks at the context before each system call.
CheckClosed(f) ==
    /\ At(f, "check")
    /\ IF Closed(f)
       THEN Return(f, "EBADF")
       ELSE Goto(f, "call") /\ UNCHANGED <<call, timerVars, last, doomed>>
    /\ UNCHANGED <<kernelVars, fdVars, slot, queue, on, ncalls>>

\* The original function: it succeeds, fails, or would block (EAGAIN; for
\* connect_f, EINPROGRESS the first time).  What it read may leave more to be
\* read.
SystemCall(f) ==
    LET fd == call[f].fd
        s == <<fd, EventOf(f)>>
    IN
    /\ At(f, "call")
    /\ IF file[fd] = 0 THEN Return(f, "EBADF") /\ UNCHANGED ready
       ELSE IF s \in ready
       THEN /\ Return(f, "ok")
            /\ ready' \in IF call[f].op = "connect" THEN {ready} ELSE {ready, ready \ {s}}
       ELSE IF call[f].op = "connect" /\ fd \in dialled
       THEN Return(f, "EALREADY") /\ UNCHANGED ready
       ELSE Goto(f, "arm") /\ UNCHANGED <<call, timerVars, last, doomed, ready>>
    /\ dialled' = IF call[f].op = "connect" /\ file[fd] # 0 THEN dialled \cup {fd} ELSE dialled
    /\ UNCHANGED <<file, files, knb, polled, fdVars, slot, queue, on, ncalls>>

\* addConditionTimer() if the call has a timeout.
ArmTimer(f) ==
    /\ At(f, "arm")
    /\ armed' = IF call[f].timed THEN armed \cup {f} ELSE armed
    /\ Goto(f, "add")
    /\ UNCHANGED <<kernelVars, fdVars, slot, queue, on, call, info, fired, cb, expired,
                   ncalls, last, doomed>>

Registered(fd) == {e \in Events : slot[<<fd, e>>] # None}

\* updateEpoll(): ADD needs an fd that is open and not in the set, MOD and DEL
\* one that is in it.
EpollCtlOK(fd) == file[fd] # 0 /\ (Registered(fd) = {} <=> fd \notin polled)

\* addEvent() for the current fiber, and its failures.
AddEvent(f) ==
    LET s == <<call[f].fd, EventOf(f)>> IN
    /\ At(f, "add")
    /\ IF slot[s] # None \/ ~EpollCtlOK(s[1])
       THEN /\ Return(f, IF slot[s] # None THEN "EEXIST" ELSE "EBADF")
            /\ UNCHANGED <<slot, polled>>
       ELSE /\ slot' = [slot EXCEPT ![s] = f]
            /\ polled' = polled \cup {s[1]}
            /\ Goto(f, "yield")
            /\ UNCHANGED <<call, timerVars, last, doomed>>
    /\ UNCHANGED <<file, files, knb, ready, dialled, fdVars, queue, on, ncalls>>

\* yield_to_hold()
Hold(f) ==
    /\ At(f, "yield")
    /\ on' = on \ {f}
    /\ Goto(f, IF call[f].op = "sleep" THEN "asleep" ELSE "held")
    /\ UNCHANGED <<kernelVars, fdVars, slot, queue, call, timerVars, ncalls, last, doomed>>

\* After the wait: the timer is cancelled, then a timeout that won ends the
\* call; connect() looks at the context and at SO_ERROR, DoIo() tries again.
Woken(f) ==
    /\ At(f, "woken")
    /\ IF info[f] THEN Return(f, "ETIMEDOUT")
       ELSE IF call[f].op = "sleep" THEN Return(f, "ok")
       ELSE IF call[f].op = "connect"
       THEN Return(f, IF Closed(f) \/ file[call[f].fd] = 0 THEN "EBADF" ELSE "ok")
       ELSE /\ armed' = armed \ {f} /\ Goto(f, "check")
            /\ UNCHANGED <<call, info, fired, cb, expired, last, doomed>>
    /\ UNCHANGED <<kernelVars, fdVars, slot, queue, on, ncalls>>

-----------------------------------------------------------------------------
(* What wakes a fiber. *)

\* Mutant: the handlers are scheduled and stay registered.
TakeOutKeeps(fd, E) ==
    /\ queue' = queue \cup {slot[<<fd, e>>] : e \in E \cap Registered(fd)}
    /\ UNCHANGED <<slot, polled>>

\* The handlers of the events in E leave the FdContext and are scheduled.
TakeOut(fd, E) ==
    /\ slot' = [s \in Slots |-> IF s[1] = fd /\ s[2] \in E THEN None ELSE slot[s]]
    /\ queue' = queue \cup {slot[<<fd, e>>] : e \in E \cap Registered(fd)}
    /\ polled' = IF Registered(fd) \subseteq E THEN polled \ {fd} ELSE polled

\* Mutant: delEvent(), which schedules nobody.
CancelEventDeletes(fd, E) ==
    IF E \cap Registered(fd) # {} /\ file[fd] # 0 /\ fd \in polled
    THEN /\ slot' = [s \in Slots |-> IF s[1] = fd /\ s[2] \in E THEN None ELSE slot[s]]
         /\ polled' = IF Registered(fd) \subseteq E THEN polled \ {fd} ELSE polled
         /\ UNCHANGED queue
    ELSE UNCHANGED <<slot, queue, polled>>

\* cancelEvent(): nothing happens if there is no such event or epoll refuses.
CancelEvent(fd, E) ==
    IF E \cap Registered(fd) # {} /\ file[fd] # 0 /\ fd \in polled
    THEN TakeOut(fd, E) ELSE UNCHANGED <<slot, queue, polled>>

\* epoll_wait() and processEvent().
Deliver(fd) ==
    LET E == {e \in Registered(fd) : <<fd, e>> \in ready} IN
    /\ fd \in polled /\ E # {}
    /\ TakeOut(fd, E)
    /\ UNCHANGED <<file, files, knb, ready, dialled, fdVars, on, pc, call, timerVars, ncalls, last, doomed>>

\* A timeout passes: listExpiredCallbacks() queues the callback.
Expire(f) ==
    /\ f \in armed
    /\ armed' = armed \ {f} /\ fired' = fired \cup {f} /\ expired' = expired \cup {f}
    /\ UNCHANGED <<kernelVars, fdVars, slot, queue, on, pc, call, info, cb, ncalls, last, doomed>>

\* The callback wins the exchange, unless an earlier one has ...
TimerCallback(f) ==
    /\ f \in fired /\ WorkerFree
    /\ fired' = fired \ {f}
    /\ IF ~info[f]
       THEN /\ info' = [info EXCEPT ![f] = TRUE]
            /\ cb' = cb \cup {<<call[f].fd, EventOf(f)>>}
       ELSE UNCHANGED <<info, cb>>
    /\ UNCHANGED <<kernelVars, fdVars, slot, queue, on, pc, call, armed, expired, ncalls,
                   last, doomed>>

\* ... and then cancels the event, whoever waits for it by now.
TimerCancels(s) ==
    /\ s \in cb
    /\ cb' = cb \ {s}
    /\ CancelEvent(s[1], {s[2]})
    /\ UNCHANGED <<file, files, knb, ready, dialled, fdVars, on, pc, call, info, armed, fired,
                   expired, ncalls, last, doomed>>

\* The timer of sleep(), usleep(), nanosleep() schedules the fiber.
SleepOver(f) ==
    /\ pc[f] = "asleep" /\ f \notin queue
    /\ queue' = queue \cup {f}
    /\ UNCHANGED <<kernelVars, fdVars, slot, on, pc, call, timerVars, ncalls, last, doomed>>

FdReady(s) ==
    /\ file[s[1]] # 0 /\ s \notin ready
    /\ ready' = ready \cup {s}
    /\ UNCHANGED <<file, files, knb, polled, dialled, fdVars, slot, queue, on, pc, call, timerVars,
                   ncalls, last, doomed>>

-----------------------------------------------------------------------------
(* close() *)

\* context->markClosed(), if the number has a context.
MarkClosed(f) ==
    LET c == table[call[f].fd] IN
    /\ At(f, "mark")
    /\ IF c = None
       THEN Goto(f, "closef") /\ UNCHANGED <<ctx, doomed>>
       ELSE /\ ctx' = [ctx EXCEPT ![c].closed = TRUE]
            /\ doomed' = doomed \cup {g \in Fibers : pc[g] = "held" /\ call[g].ctx = c}
            /\ Goto(f, "cancelAll")
    /\ UNCHANGED <<kernelVars, table, slot, queue, on, call, timerVars, ncalls, last>>

\* IOManager::cancelAll()
CloseCancels(f) ==
    /\ At(f, "cancelAll")
    /\ CancelEvent(call[f].fd, Events)
    /\ Goto(f, "del")
    /\ UNCHANGED <<file, files, knb, ready, dialled, fdVars, on, call, timerVars, ncalls, last, doomed>>

\* FdManager::del()
DelContext(f) ==
    LET c == table[call[f].fd] IN
    /\ At(f, "del")
    /\ ctx' = IF c = None THEN ctx ELSE [ctx EXCEPT ![c].closed = TRUE]
    /\ table' = [table EXCEPT ![call[f].fd] = None]
    /\ Goto(f, "closef")
    /\ UNCHANGED <<kernelVars, slot, queue, on, call, timerVars, ncalls, last, doomed>>

\* close_f(): the kernel also takes the file out of the epoll set.
CloseFile(f) ==
    LET fd == call[f].fd IN
    /\ At(f, "closef")
    /\ file' = [file EXCEPT ![fd] = 0]
    /\ knb' = [knb EXCEPT ![fd] = FALSE]
    /\ ready' = ready \ ({fd} \X Events)
    /\ polled' = polled \ {fd} /\ dialled' = dialled \ {fd}
    /\ Return(f, IF file[fd] = 0 THEN "EBADF" ELSE "ok")
    /\ UNCHANGED <<files, fdVars, slot, queue, on, ncalls>>

-----------------------------------------------------------------------------

DoIo(f) == \/ GetCtx(f) \/ CheckClosed(f) \/ SystemCall(f) \/ ArmTimer(f)
           \/ AddEvent(f) \/ Hold(f) \/ Woken(f)

Close(f) == MarkClosed(f) \/ CloseCancels(f) \/ DelContext(f) \/ CloseFile(f)

Settings(f) == \/ SocketContext(f) \/ SetTimeout(f) \/ FcntlContext(f) \/ FcntlKernel(f)
               \/ IoctlKernel(f) \/ IoctlContext(f)

Step(f) == DoIo(f) \/ Close(f) \/ Settings(f)

\* A fiber that has made all its calls.
Finish(f) ==
    /\ At(f, "idle") /\ ncalls[f] = MaxCalls
    /\ on' = on \ {f}
    /\ UNCHANGED <<kernelVars, fdVars, slot, queue, pc, call, timerVars, ncalls, last, doomed>>

Next ==
    \/ \E f \in Fibers : \/ Resume(f) \/ Begin(f) \/ Yield(f) \/ Finish(f) \/ Step(f)
                         \/ Expire(f) \/ TimerCallback(f) \/ SleepOver(f)
    \/ \E s \in Slots : TimerCancels(s) \/ FdReady(s)
    \/ \E fd \in Fds : Deliver(fd)

Spec == Init /\ [][Next]_vars

\* Workers run what is scheduled, calls take their steps, time passes, the
\* event loop delivers.  Nobody is obliged to send, to call or to close.
Fairness ==
    /\ \A f \in Fibers : /\ WF_vars(Step(f)) /\ WF_vars(Finish(f)) /\ WF_vars(Yield(f))
                         /\ SF_vars(Resume(f)) /\ SF_vars(TimerCallback(f))
                         /\ WF_vars(Expire(f)) /\ WF_vars(SleepOver(f))
    /\ \A s \in Slots : WF_vars(TimerCancels(s))
    /\ \A fd \in Fds : WF_vars(Deliver(fd))

FairSpec == Spec /\ Fairness

-----------------------------------------------------------------------------
(* Properties. *)

\* close() marks the context first so that a fiber it wakes issues no further
\* call: a fiber that was suspended when its context was marked never comes to
\* the system call again, although by then the number may name another file.
NoIoAfterClose == \A f \in doomed : pc[f] # "call"

\* A fiber waits in one place: at most one of the event slots, the queue and a
\* worker has it, so that a timeout, an event and close() together resume it
\* once.
WaitsOnce ==
    \A f \in Fibers :
        Cardinality({s \in Slots : slot[s] = f})
          + Cardinality({f} \cap queue)
          + Cardinality({f} \cap on)
          <= IF At(f, "yield") THEN 2 ELSE 1

\* ETIMEDOUT is returned only by a call whose timeout has really passed.
TimeoutIsReal == \A f \in Fibers : info[f] => f \in expired

\* The context of the call was made for another file than its number names now.
Stale(f) == file[call[f].fd] # ctx[call[f].ctx].file

\* The descriptor was closed under the call.
Gone(f) == Closed(f) \/ Stale(f)

\* A call that waits with its timer running comes back, unless the descriptor
\* is closed meanwhile or a late callback of an earlier wait of the same call,
\* which shares its timer_info, has claimed the timeout already.
TimedWaitEnds ==
    \A f \in Fibers :
        (pc[f] = "held" /\ f \in armed /\ ~info[f] /\ ~Gone(f))
            ~> (pc[f] # "held" \/ Gone(f))

\* A call that waits comes back if it has a timeout, unless the descriptor is
\* closed meanwhile.
TimedCallReturns ==
    \A f \in Fibers :
        (pc[f] = "held" /\ call[f].timed /\ ~Gone(f)) ~> (pc[f] # "held" \/ Gone(f))

\* A call of fcntl() or ioctl() that sets the flags of the number.
Changing(fd) == \E f \in Fibers : call[f].op \in {"fionbio", "setfl"} /\ call[f].fd = fd

\* Where the hooks wait for readiness, the system call itself does not block the
\* thread, whatever the user sets with fcntl() and ioctl(): the file is
\* non-blocking.  Two cases are left, and in both the code does block: one of
\* the two is just changing the flag, or the context is stale, made for a file
\* that was closed before the number was used again.
NonblockKept ==
    \A f \in Fibers :
        (pc[f] = "call" /\ file[call[f].fd] # 0 /\ ~knb[call[f].fd])
            => Stale(f) \/ Changing(call[f].fd)
=============================================================================
