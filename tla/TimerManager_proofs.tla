------------------------- MODULE TimerManager_proofs -------------------------
(***************************************************************************)
(* Proofs about TimerManager for every number of timers, clients and loop  *)
(* threads, every clock bound and every set of intervals.                  *)
(***************************************************************************)
EXTENDS TimerManager, TLAPS

\* Arithmetic modulo Word stays within a word.
LEMMA WordRange == \A x \in Int : x % Word \in 0..Word - 1
  BY ConstantsAssumption, SMT

\* Every step keeps the types: next_ stays within its word, the bounds hold.
THEOREM TypeCorrect == Spec => []TypeOK
<1>1. Init => TypeOK
  BY ConstantsAssumption DEF Init, TypeOK, NoCall
<1>2. TypeOK /\ [Next]_vars => TypeOK'
  <2> SUFFICES ASSUME TypeOK, [Next]_vars PROVE TypeOK'
    OBVIOUS
  <2> USE ConstantsAssumption DEF TypeOK
  <2>1. CASE Tick
    BY <2>1 DEF Tick, timerVars, loopVars, histVars
  <2>2. ASSUME NEW c \in Clients, AddTimerBegin(c) PROVE TypeOK'
    BY <2>2 DEF AddTimerBegin, timerVars, loopVars, histVars
  <2>3. ASSUME NEW c \in Clients, AddTimer(c) PROVE TypeOK'
    <3>1. PICK t \in Timers \ created, m \in Intervals, r \in BOOLEAN :
              /\ timers' = timers \cup {t}
              /\ created' = created \cup {t}
              /\ active' = active \cup {t}
              /\ next' = [next EXCEPT ![t] = (call[c].now + m) % Word]
              /\ ms' = [ms EXCEPT ![t] = m]
              /\ seq' = [seq EXCEPT ![t] = nextSeq]
              /\ recurring' = [recurring EXCEPT ![t] = r]
              /\ start' = [start EXCEPT ![t] = call[c].now]
              /\ Owe(c, AtFront((call[c].now + m) % Word, nextSeq, timers))
      BY <2>3 DEF AddTimer
    <3>2. call[c].now + m \in Int
      OBVIOUS
    <3>a. (call[c].now + m) % Word \in 0..Word - 1
      BY <3>2, WordRange
    <3>3. /\ next' \in [Timers -> 0..Word - 1]
          /\ ms' \in [Timers -> Nat]
          /\ seq' \in [Timers -> Nat]
          /\ recurring' \in [Timers -> BOOLEAN]
          /\ start' \in [Timers -> 0..MaxTime]
      BY <3>1, <3>a
    <3>4. call' \in [Clients -> [op : {"none", "add", "notify"}, now : 0..MaxTime]]
      BY <3>1 DEF Owe, NoCall
    <3> QED
      BY <2>3, <3>1, <3>3, <3>4 DEF AddTimer, loopVars
  <2>4. ASSUME NEW c \in Clients, Notify(c) PROVE TypeOK'
    BY <2>4 DEF Notify, NoCall, timerVars, loopVars, histVars
  <2>5. ASSUME NEW c \in Clients, Cancel(c) PROVE TypeOK'
    BY <2>5 DEF Cancel, EraseTimer, Usable, loopVars
  <2>6. ASSUME NEW c \in Clients, NEW t \in Timers, NEW n \in 0..Word - 1, Rearm(c, t, n)
        PROVE  /\ next' \in [Timers -> 0..Word - 1]
               /\ rearms' \in 0..MaxRearms
               /\ call' \in [Clients -> [op : {"none", "add", "notify"}, now : 0..MaxTime]]
    BY <2>6 DEF Rearm, Owe, NoCall
  <2>7. ASSUME NEW c \in Clients, Refresh(c) PROVE TypeOK'
    <3>1. PICK t \in Timers : /\ Rearm(c, t, (now + ms[t]) % Word)
                              /\ start' = [start EXCEPT ![t] = now]
      BY <2>7 DEF Refresh
    <3>a. now + ms[t] \in Int
      OBVIOUS
    <3>2. (now + ms[t]) % Word \in 0..Word - 1
      BY <3>a, WordRange
    <3> QED
      BY <2>6, <2>7, <3>1, <3>2 DEF Refresh, loopVars
  <2>8. ASSUME NEW c \in Clients, Reset(c) PROVE TypeOK'
    <3>1. PICK t \in Timers, m \in Intervals, f \in BOOLEAN :
              /\ ms' = [ms EXCEPT ![t] = m]
              /\ Rearm(c, t, ((IF f THEN now ELSE (next[t] - ms[t]) % Word) + m) % Word)
              /\ start' = IF f THEN [start EXCEPT ![t] = now] ELSE start
      BY <2>8 DEF Reset
    <3>a. next[t] - ms[t] \in Int
      OBVIOUS
    <3>b. (next[t] - ms[t]) % Word \in Int
      BY <3>a, WordRange
    <3>2. (IF f THEN now ELSE (next[t] - ms[t]) % Word) + m \in Int
      BY <3>b
    <3>3. ((IF f THEN now ELSE (next[t] - ms[t]) % Word) + m) % Word \in 0..Word - 1
      BY <3>2, WordRange
    <3>4. ms' \in [Timers -> Nat] /\ start' \in [Timers -> 0..MaxTime]
      BY <3>1
    <3> QED
      BY <2>6, <2>8, <3>1, <3>3, <3>4 DEF Reset, loopVars
  <2>9. ASSUME NEW l \in Loops, GoToSleep(l) PROVE TypeOK'
    <3>1. \A n \in Nat : Timeout(n) \in Nat
      BY DEF Timeout
    <3>2. until' \in [Loops -> Nat]
      BY <2>9, <3>1 DEF GoToSleep, Forever
    <3> QED
      BY <2>9, <3>2 DEF GoToSleep, timerVars, histVars
  <2>10. ASSUME NEW l \in Loops, WakeUp(l) PROVE TypeOK'
    BY <2>10 DEF WakeUp, OneTokenLess, timerVars, histVars
  <2>11. ASSUME NEW l \in Loops, ReadClock(l) PROVE TypeOK'
    BY <2>11 DEF ReadClock, timerVars, histVars
  <2>12. ASSUME NEW l \in Loops, ListExpired(l) PROVE TypeOK'
    <3>a. \A m \in Nat : clock[l] + (IF m > 1 THEN m ELSE 1) \in Int
      OBVIOUS
    <3>1. \A m \in Nat : NextPeriod(clock[l], m) \in 0..Word - 1
      BY <3>a, WordRange DEF NextPeriod
    <3>2. /\ next' \in [Timers -> 0..Word - 1]
          /\ fired' \in [Timers -> Nat]
          /\ start' \in [Timers -> 0..MaxTime]
      BY <2>12, <3>1 DEF ListExpired
    <3> QED
      BY <2>12, <3>2 DEF ListExpired
  <2>13. CASE UNCHANGED vars
    BY <2>13 DEF vars, timerVars, loopVars, histVars
  <2> QED
    BY <2>1, <2>2, <2>3, <2>4, <2>5, <2>7, <2>8, <2>9, <2>10, <2>11, <2>12, <2>13 DEF Next
<1> QED
  BY <1>1, <1>2, PTL DEF Spec

\* cancel() returning true and the callback being collected exclude each other,
\* and a one-shot timer is collected once.
LEMMA FiringStep ==
  ASSUME TypeOK, FiringOK, OneShotOnce, [Next]_vars
  PROVE  FiringOK' /\ OneShotOnce'
<1> USE DEF TypeOK, FiringOK, OneShotOnce
<1>1. CASE Tick
  BY <1>1 DEF Tick, timerVars, loopVars, histVars
<1>2. ASSUME NEW c \in Clients, AddTimerBegin(c) PROVE FiringOK' /\ OneShotOnce'
  BY <1>2 DEF AddTimerBegin, timerVars, loopVars, histVars
<1>3. ASSUME NEW c \in Clients, AddTimer(c) PROVE FiringOK' /\ OneShotOnce'
  <2>1. PICK t \in Timers \ created, r \in BOOLEAN :
            /\ timers' = timers \cup {t}
            /\ created' = created \cup {t}
            /\ active' = active \cup {t}
            /\ recurring' = [recurring EXCEPT ![t] = r]
    BY <1>3 DEF AddTimer
  <2>2. UNCHANGED <<fired, cancelled>>
    BY <1>3 DEF AddTimer
  <2> QED
    BY <2>1, <2>2
<1>4. ASSUME NEW c \in Clients, Notify(c) PROVE FiringOK' /\ OneShotOnce'
  BY <1>4 DEF Notify, timerVars, loopVars, histVars
<1>5. ASSUME NEW c \in Clients, Cancel(c) PROVE FiringOK' /\ OneShotOnce'
  <2>1. PICK t \in Timers : /\ t \in timers
                            /\ timers' = timers \ {t}
                            /\ active' = active \ {t}
                            /\ cancelled' = cancelled \cup {t}
    BY <1>5 DEF Cancel, EraseTimer, Usable
  <2>2. UNCHANGED <<created, recurring, fired>>
    BY <1>5 DEF Cancel
  <2> QED
    BY <2>1, <2>2
<1>6. ASSUME NEW c \in Clients, Refresh(c) \/ Reset(c) PROVE FiringOK' /\ OneShotOnce'
  BY <1>6 DEF Refresh, Reset
<1>7. ASSUME NEW l \in Loops, GoToSleep(l) \/ WakeUp(l) \/ ReadClock(l)
      PROVE  FiringOK' /\ OneShotOnce'
  BY <1>7 DEF GoToSleep, WakeUp, OneTokenLess, ReadClock, timerVars, histVars
<1>8. ASSUME NEW l \in Loops, ListExpired(l) PROVE FiringOK' /\ OneShotOnce'
  <2> DEFINE E == Expired(clock[l])
  <2>1. /\ E \subseteq timers
        /\ timers' = timers \ Retired(E)
        /\ active' = active \ Retired(E)
        /\ fired' = [t \in Timers |-> IF t \in E THEN fired[t] + 1 ELSE fired[t]]
        /\ UNCHANGED <<created, recurring, cancelled>>
    BY <1>8 DEF ListExpired, Expired
  <2> HIDE DEF E
  <2>2. FiringOK'
    BY <2>1 DEF Retired
  <2>3. OneShotOnce'
    BY <2>1
  <2> QED
    BY <2>2, <2>3
<1>9. CASE UNCHANGED vars
  BY <1>9 DEF vars, timerVars, loopVars, histVars
<1> QED
  BY <1>1, <1>2, <1>3, <1>4, <1>5, <1>6, <1>7, <1>8, <1>9 DEF Next

\* Timer::cancel() against listExpiredCallbacks(): a one-shot timer fires once,
\* or cancel() has returned true for it.
THEOREM FiringCorrect == Spec => [](FiringOK /\ OneShotOnce)
<1>1. Init => FiringOK /\ OneShotOnce
  BY DEF Init, FiringOK, OneShotOnce
<1>2. TypeOK /\ FiringOK /\ OneShotOnce /\ [Next]_vars => (FiringOK /\ OneShotOnce)'
  BY FiringStep
<1> QED
  BY <1>1, <1>2, TypeCorrect, PTL DEF Spec

\* A cancelled timer stays silent: it is in timers_ no more, and only a timer
\* in timers_ is collected.
THEOREM CancelledStaysSilent == Spec => CancelledIsSilent
<1>1. TypeOK /\ FiringOK /\ FiringOK' /\ [Next]_vars =>
          [\A t \in cancelled : fired'[t] = fired[t] /\ t \notin timers']_vars
  <2> SUFFICES ASSUME TypeOK, FiringOK, FiringOK', Next, NEW t \in cancelled
               PROVE  fired'[t] = fired[t] /\ t \notin timers'
    OBVIOUS
  <2>1. t \in cancelled'
    BY DEF Next, Tick, AddTimerBegin, AddTimer, Notify, Cancel, EraseTimer, Refresh, Reset,
           GoToSleep, WakeUp, OneTokenLess, ReadClock, ListExpired, histVars
  <2>2. t \notin timers'
    BY <2>1 DEF FiringOK
  <2>3. t \in Timers /\ t \notin timers
    BY DEF FiringOK, TypeOK
  <2>4. ASSUME NEW l \in Loops, ListExpired(l) PROVE fired'[t] = fired[t]
    BY <2>3, <2>4 DEF ListExpired, Expired, TypeOK
  <2>5. CASE ~ \E l \in Loops : ListExpired(l)
    BY <2>2, <2>5
       DEF Next, Tick, AddTimerBegin, AddTimer, Notify, Cancel, EraseTimer, Refresh, Reset,
           GoToSleep, WakeUp, OneTokenLess, ReadClock, histVars
  <2> QED
    BY <2>2, <2>4, <2>5
<1> QED
  BY <1>1, TypeCorrect, FiringCorrect, PTL DEF Spec, CancelledIsSilent

\* While all loop threads sleep, a new earliest deadline always comes with a
\* wakeup; otherwise some sleeper's timeout is early enough for every timer.
LEMMA OversleepStep ==
  ASSUME TypeOK, NoOversleep, [Next]_vars
  PROVE  NoOversleep'
<1> USE ConstantsAssumption DEF TypeOK, NoOversleep, InTime
<1>1. CASE Tick
  BY <1>1 DEF Tick, timerVars, loopVars, histVars
<1>2. ASSUME NEW c \in Clients, AddTimerBegin(c) PROVE NoOversleep'
  BY <1>2 DEF AddTimerBegin, Free, timerVars, loopVars, histVars
<1>3. ASSUME NEW c \in Clients, NEW t \in Timers, NEW n \in 0..Word - 1,
             NEW s \in Nat, NEW T, T \subseteq timers, timers' = T \cup {t},
             Owe(c, AtFront(n, s, T)), next' = [next EXCEPT ![t] = n],
             t \notin T, T = timers \/ T = timers \ {t}, call[c].op # "notify",
             UNCHANGED <<now, loopVars, tokens>>
      PROVE  NoOversleep'
  <2>1. CASE AtFront(n, s, T)
    BY <1>3, <2>1 DEF Owe
  <2>2. CASE ~AtFront(n, s, T)
    <3>1. PICK u \in T : ~Before(n, s, next[u], seq[u])
      BY <2>2 DEF AtFront
    <3>2. next[u] <= n /\ u \in timers /\ n \in Nat /\ next[u] \in Nat
      BY <3>1, <1>3 DEF Before
    <3>3. \A l \in Loops : InTime(l) => InTime(l)'
      BY <1>3, <3>2 DEF loopVars
    <3>4. \A d \in Clients : call[d].op = "notify" => call'[d].op = "notify"
      BY <1>3, <2>2 DEF Owe, NoCall
    <3> QED
      BY <1>3, <3>2, <3>3, <3>4 DEF loopVars
  <2> QED
    BY <2>1, <2>2
<1>4. ASSUME NEW c \in Clients, AddTimer(c) PROVE NoOversleep'
  <2>1. PICK t \in Timers \ created, m \in Intervals :
            /\ timers' = timers \cup {t}
            /\ next' = [next EXCEPT ![t] = (call[c].now + m) % Word]
            /\ Owe(c, AtFront((call[c].now + m) % Word, nextSeq, timers))
    BY <1>4 DEF AddTimer
  <2>2. call[c].now + m \in Int
    OBVIOUS
  <2>3. (call[c].now + m) % Word \in 0..Word - 1
    BY <2>2, WordRange
  <2>4. call[c].op # "notify" /\ UNCHANGED <<now, loopVars, tokens>>
    BY <1>4 DEF AddTimer
  <2> QED
    BY <1>3, <2>1, <2>3, <2>4
<1>5. ASSUME NEW c \in Clients, Notify(c) PROVE NoOversleep'
  BY <1>5 DEF Notify, timerVars, loopVars, histVars
<1>6. ASSUME NEW c \in Clients, Cancel(c) PROVE NoOversleep'
  BY <1>6 DEF Cancel, EraseTimer, loopVars
<1>7. ASSUME NEW c \in Clients, Refresh(c) PROVE NoOversleep'
  <2>1. PICK t \in Timers : /\ Usable(t)
                            /\ Rearm(c, t, (now + ms[t]) % Word)
    BY <1>7 DEF Refresh
  <2>2. now + ms[t] \in Int
    OBVIOUS
  <2>3. (now + ms[t]) % Word \in 0..Word - 1
    BY <2>2, WordRange
  <2>4. /\ call[c].op # "notify" /\ UNCHANGED <<now, loopVars, tokens>>
        /\ timers' = (timers \ {t}) \cup {t}
        /\ seq[t] \in Nat
    BY <1>7, <2>1 DEF Refresh, Free, Usable
  <2>5. /\ next' = [next EXCEPT ![t] = (now + ms[t]) % Word]
        /\ Owe(c, AtFront((now + ms[t]) % Word, seq[t], timers \ {t}))
    BY <2>1 DEF Rearm
  <2>6. PICK T : T = timers \ {t}
    OBVIOUS
  <2>7. PICK n : n = (now + ms[t]) % Word
    OBVIOUS
  <2>8. /\ T \subseteq timers /\ timers' = T \cup {t} /\ t \notin T
        /\ Owe(c, AtFront(n, seq[t], T)) /\ next' = [next EXCEPT ![t] = n]
        /\ n \in 0..Word - 1
    BY <2>3, <2>4, <2>5, <2>6, <2>7
  <2> HIDE DEF TypeOK, NoOversleep, InTime
  <2> QED
    BY <1>3, <2>4, <2>6, <2>8
<1>8. ASSUME NEW c \in Clients, Reset(c) PROVE NoOversleep'
  <2>1. PICK t \in Timers, m \in Intervals, f \in BOOLEAN :
            /\ Usable(t)
            /\ Rearm(c, t, ((IF f THEN now ELSE (next[t] - ms[t]) % Word) + m) % Word)
    BY <1>8 DEF Reset
  <2>2. next[t] - ms[t] \in Int
    OBVIOUS
  <2>3. (next[t] - ms[t]) % Word \in Int
    BY <2>2, WordRange
  <2>4. (IF f THEN now ELSE (next[t] - ms[t]) % Word) + m \in Int
    BY <2>3
  <2>5. ((IF f THEN now ELSE (next[t] - ms[t]) % Word) + m) % Word \in 0..Word - 1
    BY <2>4, WordRange
  <2>6. /\ call[c].op # "notify" /\ UNCHANGED <<now, loopVars, tokens>>
        /\ timers' = (timers \ {t}) \cup {t}
        /\ seq[t] \in Nat
    BY <1>8, <2>1 DEF Reset, Free, Usable
  <2> DEFINE n == ((IF f THEN now ELSE (next[t] - ms[t]) % Word) + m) % Word
  <2>7. /\ next' = [next EXCEPT ![t] = n]
        /\ Owe(c, AtFront(n, seq[t], timers \ {t}))
    BY <2>1 DEF Rearm
  <2>8. n \in 0..Word - 1
    BY <2>5
  <2> HIDE DEF n
  <2>9. PICK T : T = timers \ {t}
    OBVIOUS
  <2>10. /\ T \subseteq timers /\ timers' = T \cup {t} /\ t \notin T
         /\ Owe(c, AtFront(n, seq[t], T))
    BY <2>6, <2>7, <2>9
  <2> HIDE DEF TypeOK, NoOversleep, InTime
  <2> QED
    BY <1>3, <2>6, <2>7, <2>8, <2>9, <2>10
<1>9. ASSUME NEW l \in Loops, GoToSleep(l) PROVE NoOversleep'
  <2>1. CASE timers = {}
    BY <1>9, <2>1 DEF GoToSleep, timerVars
  <2>2. CASE timers # {}
    <3>1. PICK t \in timers : Earliest(t) /\ until' = [until EXCEPT ![l] = Timeout(next[t])]
      BY <1>9, <2>2 DEF GoToSleep
    <3>2. Timeout(next[t]) <= now \/ Timeout(next[t]) <= next[t]
      BY DEF Timeout
    <3>3. \A u \in timers : Timeout(next[t]) <= now \/ Timeout(next[t]) <= next[u]
      BY <3>1, <3>2 DEF Earliest, Timeout
    <3>4. InTime(l)'
      BY <1>9, <3>1, <3>3 DEF GoToSleep, timerVars
    <3> QED
      BY <1>9, <3>4 DEF GoToSleep
  <2> QED
    BY <2>1, <2>2
<1>10. ASSUME NEW l \in Loops, WakeUp(l) \/ ReadClock(l) \/ ListExpired(l)
       PROVE  NoOversleep'
  <2>1. pc'[l] # "sleep"
    BY <1>10 DEF WakeUp, OneTokenLess, ReadClock, ListExpired
  <2> QED
    BY <2>1
<1>11. CASE UNCHANGED vars
  BY <1>11 DEF vars, timerVars, loopVars, histVars
<1> QED
  BY <1>1, <1>2, <1>4, <1>5, <1>6, <1>7, <1>8, <1>9, <1>10, <1>11 DEF Next

\* The event loop never sleeps past the deadline of a timer without a wakeup
\* being on its way.
THEOREM NeverOversleeps == Spec => []NoOversleep
<1>1. Init => NoOversleep
  BY DEF Init, NoOversleep
<1>2. TypeOK /\ NoOversleep /\ [Next]_vars => NoOversleep'
  BY OversleepStep
<1> QED
  BY <1>1, <1>2, TypeCorrect, PTL DEF Spec

-----------------------------------------------------------------------------
(* Deadlines. *)

\* A deadline lies the interval after the call that armed the timer, or later,
\* and never beyond the word; a clock that was read is not ahead of time.
DueOK ==
    /\ \A t \in timers : /\ ms[t] \in Intervals
                         /\ start[t] + ms[t] <= next[t]
                         /\ next[t] <= MaxTime + 1 + ms[t]
    /\ \A l \in Loops : clock[l] <= now

\* No deadline wraps around.
LEMMA WordSmall ==
  /\ \A x \in 0..Word - 1 : x % Word = x
  /\ \A x \in Nat, m \in Intervals : x <= MaxTime + 1 => (x + m) % Word = x + m
<1>1. \A x \in 0..Word - 1 : x % Word = x
  BY ConstantsAssumption, SMT
<1>2. \A x \in Nat, m \in Intervals : x <= MaxTime + 1 => x + m \in 0..Word - 1
  BY ConstantsAssumption
<1> QED
  BY <1>1, <1>2

\* The period of a recurring timer.
LEMMA PeriodSmall ==
  ASSUME NEW at \in 0..MaxTime, NEW m \in Intervals
  PROVE  NextPeriod(at, m) = IF m > 1 THEN at + m ELSE at + 1
<1>1. CASE m > 1
  <2>1. at \in Nat /\ at <= MaxTime + 1
    BY ConstantsAssumption
  <2>2. (at + m) % Word = at + m
    BY <2>1, WordSmall
  <2> QED
    BY <1>1, <2>2 DEF NextPeriod
<1>2. CASE ~(m > 1)
  <2>1. at + 1 \in 0..Word - 1
    BY ConstantsAssumption
  <2> QED
    BY <1>2, <2>1, WordSmall DEF NextPeriod
<1> QED
  BY <1>1, <1>2

LEMMA DueStep == TypeOK /\ DueOK /\ [Next]_vars => DueOK'
<1> SUFFICES ASSUME TypeOK, DueOK, [Next]_vars PROVE DueOK'
  OBVIOUS
<1> USE DEF TypeOK, DueOK
<1>1. CASE Tick
  BY <1>1 DEF Tick, timerVars, loopVars, histVars
<1>2. ASSUME NEW c \in Clients, AddTimerBegin(c) \/ Notify(c) PROVE DueOK'
  BY <1>2 DEF AddTimerBegin, Notify, timerVars, loopVars, histVars
\* One timer gets a new interval and a new deadline.
<1>3. ASSUME NEW t \in Timers, NEW m \in Intervals, NEW b \in Nat, NEW s \in Nat,
             s <= b, b <= MaxTime + 1,
             timers' = timers \cup {t}, ms' = [ms EXCEPT ![t] = m],
             next' = [next EXCEPT ![t] = (b + m) % Word],
             start' = [start EXCEPT ![t] = s], UNCHANGED <<now, clock>>
      PROVE  DueOK'
  <2>1. (b + m) % Word = b + m /\ m \in Nat
    BY <1>3, WordSmall, ConstantsAssumption
  <2>2. next'[t] = b + m /\ ms'[t] = m /\ start'[t] = s
    BY <1>3, <2>1
  <2>3. \A u \in timers \ {t} : next'[u] = next[u] /\ ms'[u] = ms[u] /\ start'[u] = start[u]
    BY <1>3
  <2>4. s + m <= b + m /\ b + m <= MaxTime + 1 + m
    BY <1>3, <2>1, ConstantsAssumption
  <2> QED
    BY <1>3, <2>2, <2>3, <2>4
<1>4. ASSUME NEW c \in Clients, AddTimer(c) PROVE DueOK'
  <2>1. PICK t \in Timers \ created, m \in Intervals :
            /\ timers' = timers \cup {t}
            /\ next' = [next EXCEPT ![t] = (call[c].now + m) % Word]
            /\ ms' = [ms EXCEPT ![t] = m]
            /\ start' = [start EXCEPT ![t] = call[c].now]
    BY <1>4 DEF AddTimer
  <2>2. call[c].now \in Nat /\ call[c].now <= call[c].now /\ call[c].now <= MaxTime + 1
    BY ConstantsAssumption
  <2>3. UNCHANGED <<now, clock>>
    BY <1>4 DEF AddTimer, loopVars
  <2> QED
    BY <1>3, <2>1, <2>2, <2>3
<1>5. ASSUME NEW c \in Clients, Cancel(c) PROVE DueOK'
  BY <1>5 DEF Cancel, EraseTimer, loopVars
<1>6. ASSUME NEW c \in Clients, Refresh(c) PROVE DueOK'
  <2>1. PICK t \in Timers : /\ t \in timers
                            /\ next' = [next EXCEPT ![t] = (now + ms[t]) % Word]
                            /\ start' = [start EXCEPT ![t] = now]
    BY <1>6 DEF Refresh, Usable, Rearm
  <2>2. UNCHANGED <<timers, ms, now, clock>>
    BY <1>6 DEF Refresh, loopVars
  <2>3. timers' = timers \cup {t} /\ ms' = [ms EXCEPT ![t] = ms[t]] /\ ms[t] \in Intervals
    BY <2>1, <2>2
  <2>4. now \in Nat /\ now <= now /\ now <= MaxTime + 1
    BY ConstantsAssumption
  <2> QED
    BY <1>3, <2>1, <2>2, <2>3, <2>4
<1>7. ASSUME NEW c \in Clients, Reset(c) PROVE DueOK'
  <2>1. PICK t \in Timers, m \in Intervals, f \in BOOLEAN :
            /\ t \in timers /\ ms' = [ms EXCEPT ![t] = m]
            /\ next' = [next EXCEPT ![t] = ((IF f THEN now ELSE (next[t] - ms[t]) % Word) + m) % Word]
            /\ start' = IF f THEN [start EXCEPT ![t] = now] ELSE start
    BY <1>7 DEF Reset, Usable, Rearm
  <2>2. UNCHANGED <<timers, now, clock>>
    BY <1>7 DEF Reset, loopVars
  <2>3. timers' = timers \cup {t}
    BY <2>1, <2>2
  <2>4. CASE f
    <3>1. now \in Nat /\ now <= now /\ now <= MaxTime + 1
      BY ConstantsAssumption
    <3>2. /\ next' = [next EXCEPT ![t] = (now + m) % Word]
          /\ start' = [start EXCEPT ![t] = now]
      BY <2>1, <2>4
    <3> QED
      BY <1>3, <2>1, <2>2, <2>3, <3>1, <3>2
  <2>5. CASE ~f
    <3> DEFINE b == next[t] - ms[t]
    <3>1. /\ b \in Nat /\ start[t] <= b /\ b <= MaxTime + 1 /\ start[t] \in Nat /\ b \in 0..Word - 1
      BY <2>1, ConstantsAssumption
    <3>2. b % Word = b
      BY <3>1, WordSmall
    <3>3. next' = [next EXCEPT ![t] = (((next[t] - ms[t]) % Word) + m) % Word] /\ start' = start
      BY <2>1, <2>5
    <3>4. /\ next' = [next EXCEPT ![t] = (b + m) % Word]
          /\ start' = [start EXCEPT ![t] = start[t]]
      BY <3>2, <3>3
    <3> HIDE DEF b
    <3> QED
      BY <1>3, <2>1, <2>2, <2>3, <3>1, <3>4
  <2> QED
    BY <2>4, <2>5
<1>8. ASSUME NEW l \in Loops, GoToSleep(l) \/ WakeUp(l) \/ ReadClock(l) PROVE DueOK'
  BY <1>8 DEF GoToSleep, WakeUp, OneTokenLess, ReadClock, timerVars, histVars
<1>9. ASSUME NEW l \in Loops, ListExpired(l) PROVE DueOK'
  <2> DEFINE E == Expired(clock[l]) \cap active
  <2>1. /\ timers' \subseteq timers
        /\ next' = [t \in Timers |-> IF t \in E /\ recurring[t]
                                     THEN NextPeriod(clock[l], ms[t]) ELSE next[t]]
        /\ start' = [t \in Timers |-> IF t \in E THEN clock[l] ELSE start[t]]
        /\ UNCHANGED <<now, ms, clock>>
        /\ timers' \cap Retired(E) = {}
    BY <1>9 DEF ListExpired
  <2> HIDE DEF E
  <2>2. ASSUME NEW t \in timers'
        PROVE  ms'[t] \in Intervals /\ start'[t] + ms'[t] <= next'[t] /\ next'[t] <= MaxTime + 1 + ms'[t]
    <3>1. t \in timers /\ t \in Timers /\ ms'[t] = ms[t] /\ ms[t] \in Intervals /\ ms[t] \in Nat
      BY <2>1, ConstantsAssumption
    <3>2. CASE t \notin E
      BY <2>1, <3>1, <3>2
    <3>3. CASE t \in E
      <4>1. recurring[t]
        BY <2>1, <3>3 DEF Retired
      <4>2. next'[t] = NextPeriod(clock[l], ms[t]) /\ start'[t] = clock[l]
        BY <2>1, <3>1, <3>3, <4>1
      <4>3. clock[l] \in 0..MaxTime
        OBVIOUS
      <4>4. next'[t] = IF ms[t] > 1 THEN clock[l] + ms[t] ELSE clock[l] + 1
        BY <3>1, <4>2, <4>3, PeriodSmall
      <4> QED
        BY <3>1, <4>2, <4>3, <4>4, ConstantsAssumption
    <3> QED
      BY <3>2, <3>3
  <2> QED
    BY <2>1, <2>2
<1>10. CASE UNCHANGED vars
  BY <1>10 DEF vars, timerVars, loopVars, histVars
<1> QED
  BY <1>1, <1>2, <1>4, <1>5, <1>6, <1>7, <1>8, <1>9, <1>10 DEF Next

LEMMA DueAlways == Spec => []DueOK
<1>1. Init => DueOK
  BY DEF Init, DueOK
<1> QED
  BY <1>1, DueStep, TypeCorrect, PTL DEF Spec

\* No callback is collected before its interval has passed, counted from the
\* clock that addTimer(), refresh(), reset() or the last scan has read.
THEOREM CallbacksAreNeverEarly == Spec => NeverEarly
<1>1. TypeOK /\ DueOK /\ [Next]_vars =>
          [\A t \in Timers : fired'[t] > fired[t] => start[t] + ms[t] <= now]_vars
  <2> SUFFICES ASSUME TypeOK, DueOK, Next, NEW t \in Timers, fired'[t] > fired[t]
               PROVE  start[t] + ms[t] <= now
    OBVIOUS
  <2>1. fired[t] \in Nat
    BY DEF TypeOK
  <2>2. fired' # fired
    BY <2>1
  <2>3. PICK l \in Loops : ListExpired(l)
    BY <2>2 DEF Next, Tick, AddTimerBegin, AddTimer, Notify, Cancel, Refresh, Reset,
                GoToSleep, WakeUp, ReadClock, histVars
  <2>4. t \in timers /\ next[t] <= clock[l]
    BY <2>1, <2>3 DEF ListExpired, Expired
  <2> QED
    BY <2>4 DEF DueOK, TypeOK
<1> QED
  BY <1>1, TypeCorrect, DueAlways, PTL DEF Spec, NeverEarly

\* A scan of listExpiredCallbacks() leaves no timer behind that is due at the
\* time it read, so its loop ends: a recurring timer moves on by at least 1 ms.
THEOREM ScansAdvance == Spec => ScanAdvances
<1>1. TypeOK /\ DueOK /\ [Next]_vars =>
          [\A l \in Loops : ListExpired(l) => \A t \in timers' : next'[t] > clock[l]]_vars
  <2> SUFFICES ASSUME TypeOK, DueOK, NEW l \in Loops, ListExpired(l), NEW t \in timers'
               PROVE  next'[t] > clock[l]
    OBVIOUS
  <2> DEFINE due == Expired(clock[l])
             E == due \cap active
  <2>1. /\ t \in timers /\ t \in Timers /\ t \notin Retired(E) /\ t \notin due \ active
        /\ next'[t] = IF t \in E /\ recurring[t] THEN NextPeriod(clock[l], ms[t]) ELSE next[t]
    BY DEF ListExpired, TypeOK
  <2>2. CASE t \in due
    <3>1. t \in E /\ recurring[t]
      BY <2>1, <2>2 DEF Retired
    <3>2. clock[l] \in 0..MaxTime /\ ms[t] \in Intervals /\ ms[t] \in Nat
      BY <2>1, ConstantsAssumption DEF TypeOK, DueOK
    <3>3. next'[t] = IF ms[t] > 1 THEN clock[l] + ms[t] ELSE clock[l] + 1
      BY <2>1, <3>1, <3>2, PeriodSmall
    <3> QED
      BY <3>2, <3>3
  <2>3. CASE t \notin due
    <3>1. next'[t] = next[t] /\ ~(next[t] <= clock[l])
      BY <2>1, <2>3 DEF Expired
    <3>2. next[t] \in Int /\ clock[l] \in Int
      BY <2>1 DEF TypeOK
    <3> QED
      BY <3>1, <3>2
  <2> QED
    BY <2>2, <2>3
<1> QED
  BY <1>1, TypeCorrect, DueAlways, PTL DEF Spec, ScanAdvances
==============================================================================
