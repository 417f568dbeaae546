----------------------------- MODULE TcpServer -----------------------------
(***************************************************************************)
(* TcpServer over Socket: bind(), start() and stop() called by several     *)
(* threads, and the accept loops they start and end.  A section under      *)
(* mutex_ is one step.  Sockets are listeners.  Their accept() and close() *)
(* go through the hooks of module Hook, whose steps are kept here as far   *)
(* as an accept loop and a close of its listener meet in them; a number is *)
(* not used again.                                                         *)
(***************************************************************************)
EXTENDS Naturals, FiniteSets

CONSTANTS
    Threads,      \* callers of bind(), start() and stop()
    Inside,       \* those of them that are tasks of accept_worker
    Listeners,    \* Socket objects, each made for one address
    Loops,        \* bound: accept loops started in a behaviour
    MaxOps,       \* bound: calls of one thread
    MaxAddresses, \* bound: addresses in one bind()
    MaxClients    \* bound: clients that connect

ASSUME ConstantsAssumption ==
    /\ IsFiniteSet(Threads) /\ Inside \subseteq Threads
    /\ IsFiniteSet(Listeners) /\ IsFiniteSet(Loops)
    /\ MaxOps \in Nat /\ MaxAddresses \in Nat /\ MaxClients \in Nat

VARIABLES
    stopped,     \* stopped_
    listeners,   \* listeners_
    fresh,       \* Socket objects that are not made yet
    open,        \* sockets whose socket_ is not -1
    fdctx,       \* the FdCtx of a socket's number, and how far close() is with it
    pc, mine,    \* where a call is, and its local vector
    running,     \* was_running of a stop() in progress
    ops,
    tasks,       \* closeListeners() tasks queued on accept_worker
    loop,        \* the accept loops: listener and position
    backlog,     \* connections that wait to be accepted
    clients,     \* number of clients so far
    late,        \* history: clients a loop took since stopped_ was set
    bare,        \* history: sockets closed by a thread outside accept_worker
    missed       \* history: loops that wait since after cancelAll() of a close()

callVars == <<pc, mine, running, ops>>
history  == <<bare, missed>>
vars == <<stopped, listeners, fresh, open, fdctx, callVars, tasks, loop, backlog, clients, late,
          history>>

\* new: the call holds a context that was made after FdManager::del().
NoLoop == [on |-> {}, at |-> "free", new |-> FALSE]

TypeOK ==
    /\ stopped \in BOOLEAN /\ listeners \subseteq Listeners
    /\ fresh \subseteq Listeners /\ open \subseteq Listeners
    /\ pc \in [Threads -> {"idle", "commit", "launch", "swap", "close"}]
    /\ mine \in [Threads -> SUBSET Listeners] /\ running \in [Threads -> BOOLEAN]
    /\ ops \in [Threads -> 0..MaxOps] /\ tasks \subseteq SUBSET Listeners
    /\ loop \in [Loops -> [on : SUBSET Listeners,
                           at : {"free", "check", "accept", "call", "add", "waiting", "woken",
                                 "done"},
                           new : BOOLEAN]]
    /\ backlog \in [Listeners -> 0..MaxClients] /\ clients \in 0..MaxClients
    /\ fdctx \in [Listeners -> {"none", "live", "marked", "cancelled", "deleted"}]
    /\ late \in [Loops -> 0..MaxClients] /\ bare \subseteq Listeners /\ missed \subseteq Loops

Init ==
    /\ stopped = TRUE /\ listeners = {} /\ fresh = Listeners /\ open = {}
    /\ pc = [t \in Threads |-> "idle"] /\ mine = [t \in Threads |-> {}]
    /\ running = [t \in Threads |-> FALSE] /\ ops = [t \in Threads |-> 0]
    /\ tasks = {} /\ loop = [k \in Loops |-> NoLoop]
    /\ backlog = [l \in Listeners |-> 0] /\ clients = 0
    /\ fdctx = [l \in Listeners |-> "none"]
    /\ late = [k \in Loops |-> 0] /\ bare = {} /\ missed = {}

-----------------------------------------------------------------------------
(* Sockets *)

\* Sockets nobody else knows are closed.
Discard(S) ==
    /\ open' = open \ S
    /\ backlog' = [l \in Listeners |-> IF l \in S THEN 0 ELSE backlog[l]]

\* close(): the context is marked closed, if the number has one ...
CloseMark(l, onWorker) ==
    /\ \/ fdctx[l] = "none" /\ fdctx' = [fdctx EXCEPT ![l] = "deleted"]
       \/ fdctx[l] = "live" /\ fdctx' = [fdctx EXCEPT ![l] = "marked"]
    /\ bare' = IF onWorker THEN bare ELSE bare \cup {l}
    /\ UNCHANGED loop

\* Mutant: cancelAll() is forgotten.
CloseCancelForgotten(l, onWorker) ==
    /\ fdctx[l] = "marked"
    /\ fdctx' = [fdctx EXCEPT ![l] = "cancelled"]
    /\ UNCHANGED <<loop, bare>>

\* ... the fibers that wait for it are scheduled, on accept_worker: another
\* thread has no IOManager and wakes nobody ...
CloseCancel(l, onWorker) ==
    /\ fdctx[l] = "marked"
    /\ fdctx' = [fdctx EXCEPT ![l] = "cancelled"]
    /\ loop' = [k \in Loops |-> IF onWorker /\ loop[k].at = "waiting" /\ l \in loop[k].on
                                THEN [loop[k] EXCEPT !.at = "woken"] ELSE loop[k]]
    /\ UNCHANGED bare

\* ... and FdManager forgets the context.
CloseDelete(l) ==
    /\ fdctx[l] = "cancelled"
    /\ fdctx' = [fdctx EXCEPT ![l] = "deleted"]
    /\ UNCHANGED <<loop, bare>>

CloseHook(l, onWorker) ==
    CloseMark(l, onWorker) \/ CloseCancel(l, onWorker) \/ CloseDelete(l)

\* close_f(), and socket_ = -1.
CloseFile(l) == fdctx[l] = "deleted" /\ Discard({l})

\* closeListeners() closes the sockets in S one after the other.
Turn(S, l) == l \in S /\ \A m \in S \ {l} : fdctx[m] \in {"none", "live"}

-----------------------------------------------------------------------------
(* bind() *)

Enter(t, where) ==
    /\ pc[t] = "idle" /\ ops[t] < MaxOps
    /\ pc' = [pc EXCEPT ![t] = where] /\ ops' = [ops EXCEPT ![t] = @ + 1]

Leave(t) == pc' = [pc EXCEPT ![t] = "idle"] /\ mine' = [mine EXCEPT ![t] = {}]

\* Socket::bind() and listen() succeed for all of S.  Where the calls are
\* hooked, the numbers have a context from the start.
OpenListeners(t, S) ==
    /\ fresh' = fresh \ S /\ open' = open \cup S /\ mine' = [mine EXCEPT ![t] = S]
    /\ fdctx' = [l \in Listeners |-> IF l \in S /\ t \in Inside THEN "live" ELSE fdctx[l]]

\* A running server does not bind (EBUSY).  Otherwise CreateTCP(), bind() and
\* listen() for each address: the sockets are this call's own until it commits
\* them, and a failure, which closes them again, leaves nothing behind.
BindOpen(t) ==
    /\ stopped
    /\ Enter(t, "commit")
    /\ \E S \in (SUBSET fresh) \ {{}} : Cardinality(S) <= MaxAddresses /\ OpenListeners(t, S)
    /\ UNCHANGED <<stopped, listeners, running, tasks, loop, backlog, clients, late, history>>

\* Mutant: the new sockets replace those of the server.
BindCommitReplaces(t) ==
    /\ pc[t] = "commit"
    /\ \/ stopped /\ listeners' = mine[t] /\ UNCHANGED <<open, backlog>>
       \/ ~stopped /\ Discard(mine[t]) /\ UNCHANGED listeners
    /\ Leave(t)
    /\ UNCHANGED <<stopped, fresh, fdctx, running, ops, tasks, loop, clients, late, history>>

\* Under mutex_: the server may have been started meanwhile.
BindCommit(t) ==
    /\ pc[t] = "commit"
    /\ \/ stopped /\ listeners' = listeners \cup mine[t] /\ UNCHANGED <<open, backlog>>
       \/ ~stopped /\ Discard(mine[t]) /\ UNCHANGED listeners
    /\ Leave(t)
    /\ UNCHANGED <<stopped, fresh, fdctx, running, ops, tasks, loop, clients, late, history>>

-----------------------------------------------------------------------------
(* start() *)

\* Under mutex_.  A running server is left alone, one without listeners fails
\* (EINVAL).
Start(t) ==
    /\ stopped /\ listeners # {}
    /\ Enter(t, "launch")
    /\ stopped' = FALSE
    /\ mine' = [mine EXCEPT ![t] = listeners]
    /\ late' = [k \in Loops |-> 0]
    /\ UNCHANGED <<listeners, fresh, open, fdctx, running, tasks, loop, backlog, clients, history>>

\* One startAccept() task for each listener.
Launch(t) ==
    LET l == CHOOSE x \in mine[t] : TRUE
        k == CHOOSE x \in Loops : loop[x] = NoLoop
    IN
    /\ pc[t] = "launch"
    /\ \E x \in Loops : loop[x] = NoLoop
    /\ loop' = [loop EXCEPT ![k] = [on |-> {l}, at |-> "check", new |-> FALSE]]
    /\ mine' = [mine EXCEPT ![t] = @ \ {l}]
    /\ pc' = [pc EXCEPT ![t] = IF mine[t] = {l} THEN "idle" ELSE "launch"]
    /\ UNCHANGED <<stopped, listeners, fresh, open, fdctx, running, ops, tasks, backlog, clients,
                   late, history>>

-----------------------------------------------------------------------------
(* stop() *)

\* stopped_.exchange(true), before the lock is taken.
StopExchange(t) ==
    /\ Enter(t, "swap")
    /\ running' = [running EXCEPT ![t] = ~stopped]
    /\ stopped' = TRUE
    /\ UNCHANGED <<listeners, fresh, open, fdctx, mine, tasks, loop, backlog, clients, late,
                   history>>

\* listeners.swap(listeners_) under mutex_.
StopSwap(t) ==
    /\ pc[t] = "swap"
    /\ mine' = [mine EXCEPT ![t] = listeners] /\ listeners' = {}
    /\ pc' = [pc EXCEPT ![t] = IF listeners = {} THEN "idle" ELSE "close"]
    /\ running' = [running EXCEPT ![t] = @ /\ listeners # {}]
    /\ UNCHANGED <<stopped, fresh, open, fdctx, ops, tasks, loop, backlog, clients, late,
                   history>>

\* A server that ran: its sockets are closed by a task of accept_worker,
\* unless this thread belongs to it.
StopSchedules(t) ==
    /\ pc[t] = "close" /\ running[t] /\ t \notin Inside
    /\ tasks' = tasks \cup {mine[t]}
    /\ Leave(t) /\ running' = [running EXCEPT ![t] = FALSE]
    /\ UNCHANGED <<stopped, listeners, fresh, open, fdctx, ops, loop, backlog, clients,
                   late, history>>

\* The next socket's turn comes, or the call is over.
GoOn(t, l) ==
    LET last == mine[t] = {l} IN
    /\ mine' = [mine EXCEPT ![t] = @ \ {l}]
    /\ pc' = [pc EXCEPT ![t] = IF last THEN "idle" ELSE "close"]
    /\ running' = [running EXCEPT ![t] = IF last THEN FALSE ELSE @]

\* Otherwise the caller closes them.
StopCloses(t) ==
    /\ pc[t] = "close" /\ (~running[t] \/ t \in Inside)
    /\ \E l \in Listeners :
          /\ Turn(mine[t], l)
          /\ \/ CloseHook(l, t \in Inside) /\ UNCHANGED <<open, backlog, mine, pc, running>>
             \/ CloseFile(l) /\ GoOn(t, l) /\ UNCHANGED <<fdctx, loop, bare>>
    /\ UNCHANGED <<stopped, listeners, fresh, ops, tasks, clients, late, missed>>

\* closeListeners() as a task.
TaskCloses(S) ==
    /\ S \in tasks
    /\ \E l \in Listeners :
          /\ Turn(S, l)
          /\ \/ CloseHook(l, TRUE) /\ UNCHANGED <<open, backlog, tasks>>
             \/ /\ CloseFile(l)
                /\ tasks' = (tasks \ {S}) \cup ({S \ {l}} \ {{}})
                /\ UNCHANGED <<fdctx, loop, bare>>
    /\ UNCHANGED <<stopped, listeners, fresh, callVars, clients, late, missed>>

-----------------------------------------------------------------------------
(* startAccept() *)

loopOnly == <<stopped, listeners, fresh, open, callVars, tasks, clients, bare>>

At(k, where) == loop[k].at = where
Goto(k, where) == loop' = [loop EXCEPT ![k].at = where]
Valid(k) == loop[k].on \subseteq open

\* Mutant: only the listener is looked at.
MayAcceptAlways(k) == Valid(k)

\* while (!isStop() && listener->isValid())
MayAccept(k) == ~stopped /\ Valid(k)

LoopCheck(k) ==
    /\ At(k, "check")
    /\ Goto(k, IF MayAccept(k) THEN "accept" ELSE "done")
    /\ UNCHANGED <<loopOnly, fdctx, backlog, late, missed>>

\* accept() begins: the socket's context, made if FdManager has none, must not
\* be closed.  Between del() and close_f() it is a new one.  EBADF ends a loop.
AcceptBegins(k) ==
    /\ At(k, "accept")
    /\ \E l \in loop[k].on :
          IF ~Valid(k) \/ fdctx[l] \in {"marked", "cancelled"}
          THEN Goto(k, "done") /\ UNCHANGED fdctx
          ELSE /\ loop' = [loop EXCEPT ![k] = [on |-> @.on, at |-> "call",
                                                        new |-> fdctx[l] = "deleted"]]
               /\ fdctx' = [fdctx EXCEPT ![l] = IF @ = "none" THEN "live" ELSE @]
    /\ UNCHANGED <<loopOnly, backlog, late, missed>>

\* accept_f(): a client is handed to io_worker, or the fiber will wait for one,
\* or the socket is closed.
Accept(k) ==
    /\ At(k, "call")
    /\ \/ /\ ~Valid(k) /\ Goto(k, "done") /\ UNCHANGED <<backlog, late>>
       \/ \E l \in loop[k].on :
             /\ Valid(k) /\ backlog[l] > 0
             /\ backlog' = [backlog EXCEPT ![l] = @ - 1]
             /\ late' = [late EXCEPT ![k] = IF stopped THEN @ + 1 ELSE @]
             /\ Goto(k, "check")
       \/ /\ Valid(k) /\ \A l \in loop[k].on : backlog[l] = 0
          /\ Goto(k, "add") /\ UNCHANGED <<backlog, late>>
    /\ UNCHANGED <<loopOnly, fdctx, missed>>

\* Mutant: every error ends the loop.
FailedGivesUp(k) == "done"

\* Another error than EBADF: a running server tries again after a pause.
Failed(k) == IF stopped THEN "done" ELSE "check"

\* Out of descriptors: accept_f() fails although a client waits.
AcceptFails(k) ==
    /\ At(k, "call") /\ Valid(k) /\ \E l \in loop[k].on : backlog[l] > 0
    /\ Goto(k, Failed(k))
    /\ UNCHANGED <<loopOnly, fdctx, backlog, late, missed>>

\* addEvent() and yield_to_hold().  Epoll refuses a closed socket, and two
\* fibers cannot wait for one event.  After cancelAll() nobody wakes the fiber
\* any more, except a client that comes before close_f().
AddEvent(k) ==
    /\ At(k, "add")
    /\ Goto(k, IF ~Valid(k) THEN "done"
               ELSE IF \E j \in Loops : At(j, "waiting") /\ loop[j].on = loop[k].on
               THEN Failed(k)
               ELSE "waiting")
    /\ missed' = IF \E l \in loop[k].on : fdctx[l] \in {"cancelled", "deleted"}
                 THEN missed \cup {k} ELSE missed
    /\ UNCHANGED <<loopOnly, fdctx, backlog, late>>

\* The event loop wakes the fiber.
Wake(k) ==
    /\ At(k, "waiting") /\ Valid(k) /\ \E l \in loop[k].on : backlog[l] > 0
    /\ Goto(k, "woken")
    /\ missed' = missed \ {k}
    /\ UNCHANGED <<loopOnly, fdctx, backlog, late>>

\* It tries again, unless the context it holds was marked closed.
Woken(k) ==
    /\ At(k, "woken")
    /\ Goto(k, IF ~loop[k].new /\ \E l \in loop[k].on : fdctx[l] # "live"
               THEN "done" ELSE "call")
    /\ UNCHANGED <<loopOnly, fdctx, backlog, late, missed>>

\* A client connects to a listening socket.
Connect(l) ==
    /\ l \in open /\ clients < MaxClients
    /\ backlog' = [backlog EXCEPT ![l] = @ + 1] /\ clients' = clients + 1
    /\ UNCHANGED <<stopped, listeners, fresh, open, fdctx, callVars, tasks, loop, late, history>>

-----------------------------------------------------------------------------

Stop(t) == StopSwap(t) \/ StopSchedules(t) \/ StopCloses(t)
StartAccept(k) == \/ LoopCheck(k) \/ AcceptBegins(k) \/ Accept(k) \/ AddEvent(k)
                  \/ Wake(k) \/ Woken(k)
CloseTask == \E S \in tasks : TaskCloses(S)

Next ==
    \/ \E t \in Threads : \/ BindOpen(t) \/ Start(t) \/ StopExchange(t)
                          \/ BindCommit(t) \/ Launch(t) \/ Stop(t)
    \/ \E k \in Loops : StartAccept(k) \/ AcceptFails(k)
    \/ \E l \in Listeners : Connect(l)
    \/ CloseTask

Spec == Init /\ [][Next]_vars

\* Calls and tasks that have begun go on.  Accept() is strong: descriptors
\* are not lacking each time.
Fairness ==
    /\ \A t \in Threads : WF_vars(BindCommit(t)) /\ WF_vars(Launch(t)) /\ WF_vars(Stop(t))
    /\ \A k \in Loops : WF_vars(StartAccept(k)) /\ SF_vars(Accept(k))
    /\ WF_vars(CloseTask)

FairSpec == Spec /\ Fairness

-----------------------------------------------------------------------------
(* Properties. *)

\* The listeners of an accept loop that has begun or is about to.
Accepting == (UNION {loop[k].on : k \in {j \in Loops : ~At(j, "done")}})
                 \cup (UNION {mine[t] : t \in {u \in Threads : pc[u] = "launch"}})

\* The listeners that a stop() in progress or to come closes.
Reached == listeners \cup (UNION tasks)
               \cup (UNION {mine[t] : t \in {u \in Threads : pc[u] = "close"}})

\* No accept loop gets out of reach of stop(), whatever the calls of the
\* threads do to each other.  The loop shares its socket, so that one which no
\* stop() closes stays open, and the loop waits for it for ever.
NoOrphan == open \cap Accepting \subseteq Reached

\* A loop that waits in accept() when the server is stopped may still take the
\* client that arrives before its listener is closed, but no second one.
AtMostOneMore == \A k \in Loops : late[k] <= 1

\* A client of a running server is accepted unless the server stops.
ClientServed ==
    \A l \in Listeners :
        (backlog[l] > 0 /\ l \in listeners /\ ~stopped)
            ~> (backlog[l] = 0 \/ stopped)

\* When a server stays stopped its loops end, except where the listener was
\* closed outside accept_worker or the loop began to wait after the close() had
\* cancelled the events.
LoopEnds ==
    stopped ~> \/ ~stopped
               \/ \A k \in Loops : \/ At(k, "free") \/ At(k, "done")
                                   \/ loop[k].on \subseteq bare \/ k \in missed
=============================================================================
