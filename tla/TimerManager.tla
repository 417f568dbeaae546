----------------------------- MODULE TimerManager -----------------------------
(***************************************************************************)
(* droplet::TimerManager and Timer: timers ordered by deadline, added,     *)
(* cancelled, refreshed and reset by any thread, collected by the threads  *)
(* of an event loop that sleep until the earliest deadline.                *)
(*                                                                         *)
(* Every operation is one critical section of timer_mutex_, but addTimer() *)
(* and listExpiredCallbacks() read the clock before they take the lock,    *)
(* and onTimerInsertedAtFront() is called after it is released.            *)
(***************************************************************************)
EXTENDS Integers, FiniteSets

CONSTANTS
    Timers,     \* Timer objects; each is created at most once
    Clients,    \* threads that call addTimer(), cancel(), refresh(), reset()
    Loops,      \* threads of the event loop
    MaxTime,    \* bound of the clock
    MaxRearms,  \* bound: number of refresh() and reset() calls
    Intervals,  \* the values of ms in use
    IntMax,     \* INT_MAX, the longest timeout epoll_wait() takes
    Word        \* 2^64: next_ is computed modulo Word

ASSUME ConstantsAssumption ==
    /\ MaxTime \in Nat /\ MaxRearms \in Nat /\ Intervals \subseteq Nat /\ IntMax \in Nat \ {0}
    /\ Word \in Nat \ {0}
    /\ Clients \cap Loops = {}
    /\ MaxTime + 1 < Word /\ \A m \in Intervals : 2 * (MaxTime + m) + 1 < Word

VARIABLES
    now,        \* steady_clock, in milliseconds
    timers,     \* timers_
    created,    \* timers that addTimer() has returned
    next,       \* next_
    ms,         \* ms_
    seq,        \* sequence_
    recurring,  \* recurring_
    active,     \* manager_ = this and not canceled_
    nextSeq,    \* next_sequence_
    call,       \* the call a client is in: [op, now]
    pc,         \* where a loop thread is
    clock,      \* the clock a loop thread has read for its scan
    until,      \* when the sleep of a loop thread times out
    tokens,     \* wakeups written and not yet drained
    rearms,     \* number of refresh() and reset() calls so far
    start,      \* history: when the call that armed the timer began
    fired,      \* history: how often a timer's callback was collected
    cancelled   \* history: timers for which cancel() returned true

timerVars == <<timers, created, next, ms, seq, recurring, active, nextSeq>>
loopVars  == <<pc, clock, until>>
histVars  == <<rearms, start, fired, cancelled>>
vars == <<now, timerVars, call, loopVars, tokens, histVars>>

Forever == MaxTime + 1
NoCall  == [op |-> "none", now |-> 0]

TypeOK ==
    /\ now \in 0..MaxTime
    /\ timers \subseteq created /\ created \subseteq Timers
    /\ next \in [Timers -> 0..Word - 1]
    /\ ms \in [Timers -> Nat]
    /\ seq \in [Timers -> Nat] /\ nextSeq \in Nat
    /\ recurring \in [Timers -> BOOLEAN]
    /\ active \subseteq created
    /\ call \in [Clients -> [op : {"none", "add", "notify"}, now : 0..MaxTime]]
    /\ pc \in [Loops -> {"busy", "sleep", "clock", "scan"}]
    /\ clock \in [Loops -> 0..MaxTime]
    /\ until \in [Loops -> Nat]
    /\ tokens \in Nat
    /\ rearms \in 0..MaxRearms
    /\ start \in [Timers -> 0..MaxTime]
    /\ fired \in [Timers -> Nat]
    /\ cancelled \subseteq Timers

Init ==
    /\ now = 0
    /\ timers = {} /\ created = {} /\ active = {} /\ nextSeq = 0
    /\ next = [t \in Timers |-> 0]
    /\ ms = [t \in Timers |-> 0]
    /\ seq = [t \in Timers |-> 0]
    /\ recurring = [t \in Timers |-> FALSE]
    /\ call = [c \in Clients |-> NoCall]
    /\ pc = [l \in Loops |-> "busy"]
    /\ clock = [l \in Loops |-> 0]
    /\ until = [l \in Loops |-> 0]
    /\ tokens = 0 /\ rearms = 0
    /\ start = [t \in Timers |-> 0]
    /\ fired = [t \in Timers |-> 0]
    /\ cancelled = {}

-----------------------------------------------------------------------------

\* TimerComparator
Before(n1, s1, n2, s2) == n1 < n2 \/ (n1 = n2 /\ s1 < s2)

\* Mutant: "at front" is judged against the latest timer.
AtFrontOfAny(n, s, T) ==
    T = {} \/ \A t \in T : Before(next[t], seq[t], n, s)

\* timers_.empty() or the new key is before that of *timers_.begin(), which is
\* the least one.
AtFront(n, s, T) == \A t \in T : Before(n, s, next[t], seq[t])

Owe(c, front) ==
    call' = [call EXCEPT ![c] = IF front THEN [op |-> "notify", now |-> 0] ELSE NoCall]

Free(c) == call[c].op = "none"

\* addTimer(): the clock is read before the lock is taken.
AddTimerBegin(c) ==
    /\ Free(c) /\ created # Timers
    /\ call' = [call EXCEPT ![c] = [op |-> "add", now |-> now]]
    /\ UNCHANGED <<now, timerVars, loopVars, tokens, histVars>>

AddTimer(c) ==
    /\ call[c].op = "add"
    /\ \E t \in Timers \ created, m \in Intervals, r \in BOOLEAN :
          LET n == (call[c].now + m) % Word IN
          /\ timers' = timers \cup {t}
          /\ created' = created \cup {t}
          /\ active' = active \cup {t}
          /\ next' = [next EXCEPT ![t] = n]
          /\ ms' = [ms EXCEPT ![t] = m]
          /\ seq' = [seq EXCEPT ![t] = nextSeq]
          /\ recurring' = [recurring EXCEPT ![t] = r]
          /\ start' = [start EXCEPT ![t] = call[c].now]
          /\ Owe(c, AtFront(n, nextSeq, timers))
    /\ nextSeq' = nextSeq + 1
    /\ UNCHANGED <<now, loopVars, tokens, rearms, fired, cancelled>>

\* onTimerInsertedAtFront(): IOManager writes a token.
Notify(c) ==
    /\ call[c].op = "notify"
    /\ tokens' = tokens + 1
    /\ call' = [call EXCEPT ![c] = NoCall]
    /\ UNCHANGED <<now, timerVars, loopVars, histVars>>

\* cancelTimer(), refreshTimer() and resetTimer() return false otherwise.
Usable(t) == t \in active /\ t \in timers

\* Mutant: the cancelled timer stays in the set.
EraseTimerForgotten(t) == UNCHANGED timers

\* timers_.erase(it)
EraseTimer(t) == timers' = timers \ {t}

Cancel(c) ==
    /\ Free(c)
    /\ \E t \in Timers :
          /\ Usable(t)
          /\ EraseTimer(t)
          /\ active' = active \ {t}
          /\ cancelled' = cancelled \cup {t}
    /\ UNCHANGED <<now, created, next, ms, seq, recurring, nextSeq, call, loopVars,
                   tokens, rearms, start, fired>>

\* The timer is erased, given a new deadline and inserted again.
Rearm(c, t, n) ==
    /\ rearms < MaxRearms
    /\ rearms' = rearms + 1
    /\ next' = [next EXCEPT ![t] = n]
    /\ Owe(c, AtFront(n, seq[t], timers \ {t}))

Refresh(c) ==
    /\ Free(c)
    /\ \E t \in Timers :
          /\ Usable(t)
          /\ Rearm(c, t, (now + ms[t]) % Word)
          /\ start' = [start EXCEPT ![t] = now]
    /\ UNCHANGED <<now, timers, created, ms, seq, recurring, active, nextSeq, loopVars,
                   tokens, fired, cancelled>>

\* reset(m, from_now): from now, or from the start of the running interval.
Reset(c) ==
    /\ Free(c)
    /\ \E t \in Timers, m \in Intervals, from_now \in BOOLEAN :
          LET begin == IF from_now THEN now ELSE (next[t] - ms[t]) % Word IN
          /\ Usable(t)
          /\ ms' = [ms EXCEPT ![t] = m]
          /\ Rearm(c, t, (begin + m) % Word)
          /\ start' = IF from_now THEN [start EXCEPT ![t] = now] ELSE start
    /\ UNCHANGED <<now, timers, created, seq, recurring, active, nextSeq, loopVars,
                   tokens, fired, cancelled>>

-----------------------------------------------------------------------------
(* The event loop: getNextTimer(), sleep, listExpiredCallbacks(). *)

\* *timers_.begin()
Earliest(t) == \A u \in timers : next[t] <= next[u]

\* getNextTimer() with deadline n, and the cap of idle(): when the sleep ends.
Timeout(n) ==
    IF n <= now THEN now ELSE IF n - now > IntMax THEN now + IntMax ELSE n

GoToSleep(l) ==
    /\ pc[l] = "busy"
    /\ \/ /\ timers = {}
          /\ until' = [until EXCEPT ![l] = Forever]
       \/ \E t \in timers :
          /\ Earliest(t)
          /\ until' = [until EXCEPT ![l] = Timeout(next[t])]
    /\ pc' = [pc EXCEPT ![l] = "sleep"]
    /\ UNCHANGED <<now, timerVars, call, clock, tokens, histVars>>

\* The non-blocking read() of one token, which fails if there is none.
OneTokenLess == IF tokens > 0 THEN tokens - 1 ELSE 0

\* epoll_wait() returns: a token is drained, or the timeout has passed.
WakeUp(l) ==
    /\ pc[l] = "sleep"
    /\ tokens > 0 \/ until[l] <= now
    /\ tokens' = OneTokenLess
    /\ pc' = [pc EXCEPT ![l] = "clock"]
    /\ UNCHANGED <<now, timerVars, call, clock, until, histVars>>

\* listExpiredCallbacks() reads the clock before it takes the lock.
ReadClock(l) ==
    /\ pc[l] = "clock"
    /\ clock' = [clock EXCEPT ![l] = now]
    /\ pc' = [pc EXCEPT ![l] = "scan"]
    /\ UNCHANGED <<now, timerVars, call, until, tokens, histVars>>

\* Mutant: a recurring 0 ms timer is due again at once.
NextPeriodRaw(at, m) == (at + m) % Word

\* A recurring timer moves on by at least one millisecond, or the scan would
\* meet it again.
NextPeriod(at, m) == (at + (IF m > 1 THEN m ELSE 1)) % Word

\* Mutant: a timer that is due at the next tick is taken too.
ExpiredEarly(at) == {t \in timers : next[t] <= at + 1}

Expired(at) == {t \in timers : next[t] <= at}

\* Mutant: a one-shot timer stays usable after it fired.
RetiredNever(E) == {}

\* Fired one-shot timers leave the manager.
Retired(E) == {t \in E : ~recurring[t]}

ListExpired(l) ==
    LET due == Expired(clock[l])
        E   == due \cap active        \* a canceled_ timer is dropped
    IN
    /\ pc[l] = "scan"
    /\ timers' = timers \ (Retired(E) \cup (due \ active))
    /\ active' = active \ Retired(E)
    /\ next' = [t \in Timers |-> IF t \in E /\ recurring[t]
                                 THEN NextPeriod(clock[l], ms[t]) ELSE next[t]]
    /\ fired' = [t \in Timers |-> IF t \in E THEN fired[t] + 1 ELSE fired[t]]
    /\ start' = [t \in Timers |-> IF t \in E THEN clock[l] ELSE start[t]]
    /\ pc' = [pc EXCEPT ![l] = "busy"]
    /\ UNCHANGED <<now, created, ms, seq, recurring, nextSeq, call, clock, until, tokens,
                   rearms, cancelled>>

Tick ==
    /\ now < MaxTime
    /\ now' = now + 1
    /\ UNCHANGED <<timerVars, call, loopVars, tokens, histVars>>

Next ==
    \/ Tick
    \/ \E c \in Clients : \/ AddTimerBegin(c) \/ AddTimer(c) \/ Notify(c)
                          \/ Cancel(c) \/ Refresh(c) \/ Reset(c)
    \/ \E l \in Loops : GoToSleep(l) \/ WakeUp(l) \/ ReadClock(l) \/ ListExpired(l)

Spec == Init /\ [][Next]_vars

-----------------------------------------------------------------------------
(* Properties. *)

\* A one-shot timer either fires, once, or is cancelled: cancel() returns true
\* for exactly the timers whose callback is never collected (Timer::cancel()
\* against listExpiredCallbacks() on another thread).
OneShotOnce ==
    \A t \in created : ~recurring[t] =>
        fired[t] + (IF t \in cancelled THEN 1 ELSE 0) <= 1

\* What makes OneShotOnce inductive: a timer is in timers_ exactly as long as
\* its manager_ is set and it is not canceled_, and a one-shot timer that is
\* there has neither fired nor been cancelled.
FiringOK ==
    /\ active = timers
    /\ \A t \in timers : t \notin cancelled /\ (~recurring[t] => fired[t] = 0)
    /\ \A t \in Timers \ created : fired[t] = 0
    /\ cancelled \subseteq created

\* A cancelled timer is never collected again, recurring or not, whatever
\* refresh() and reset() calls race with the cancellation.
CancelledIsSilent ==
    [][\A t \in cancelled : fired'[t] = fired[t] /\ t \notin timers']_vars

\* No callback is collected before its interval has passed since the call that
\* armed it, or since the scan that last collected it, although the clock is
\* read before the lock is taken.
NeverEarly ==
    [][\A t \in Timers : fired'[t] > fired[t] => start[t] + ms[t] <= now]_vars

\* A scan leaves nothing behind that is due at the time it read: a recurring
\* timer always moves on, even with an interval of 0 ms.
ScanAdvances ==
    [][\A l \in Loops : ListExpired(l) => \A t \in timers' : next'[t] > clock[l]]_vars

InTime(l) == until[l] <= now \/ \A t \in timers : until[l] <= next[t]

\* The event loop does not oversleep: while every loop thread sleeps, one of
\* them wakes in time for every timer, or a wakeup is on its way.
NoOversleep ==
    \/ timers = {}
    \/ tokens > 0
    \/ \E c \in Clients : call[c].op = "notify"
    \/ \E l \in Loops : pc[l] # "sleep" \/ InTime(l)
=============================================================================
