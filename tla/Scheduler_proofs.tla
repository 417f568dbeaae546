--------------------------- MODULE Scheduler_proofs ---------------------------
(***************************************************************************)
(* Proofs about Scheduler, for every number of threads, fibers and         *)
(* functions and every bound.                                              *)
(***************************************************************************)
EXTENDS Scheduler, SequenceTheorems, TLAPS

-----------------------------------------------------------------------------
(* The invariants. *)

\* mutex_ is held between two steps only by a thread that has found the list
\* empty and is about to wait, and a thread whose task is about to leave the
\* processor owes no notification.
QueueInv ==
    /\ \A t \in Threads : pc[t] = "block" => mutex = t /\ tasks = <<>>
    /\ \A t \in Threads : pc[t] \in {"armed", "switch", "settle"} => pend[t] = "no"

\* Threads leave run() when a stop has begun, and a task that calls stop() stays
\* in it until the threads are joined.
LifeInv ==
    /\ ~started => ~stopping /\ \A t \in Threads : pc[t] = "new"
    /\ \A t \in Threads : pc[t] = "exited" => stopping
    /\ stopPc = "lock" => stopper # "caller"
    /\ stopper = "caller" /\ stopPc \in {"notify", "join"} =>
          Caller \in Threads /\ pc[Caller] = "instop"

\* The points of run() at which the thread has a fiber.
Busy == {"resume", "exec", "armed", "instop", "switch", "settle"}

\* A task is a fiber or a function; a function gets its fiber in Wrap.
ShapeInv ==
    /\ \A i \in DOMAIN tasks : tasks[i].fib = None <=> tasks[i].fn # None
    /\ \A t \in Threads :
          /\ pc[t] \in Busy => cur[t].fib # None
          /\ pc[t] \notin Busy => cur[t].fib = None
          /\ pc[t] = "wrap" => cur[t].fn # None
          /\ pc[t] \notin Busy \cup {"wrap"} => cur[t].fn = None

\* A fiber that somebody has runs a job.
BornInv ==
    /\ \A f \in UserFibers : job[f] = f
    /\ \A f \in held : job[f] \in Jobs
    /\ \A t \in Threads : cur[t].fib # None => job[cur[t].fib] \in Jobs
    /\ \A i \in DOMAIN tasks : tasks[i].fib # None => job[tasks[i].fib] \in Jobs

Queued(f) == \E i \in DOMAIN tasks : tasks[i].fib = f

\* The thread that has f is about to leave it to its holder, who has already
\* scheduled it.
Early(f) == \E t \in Threads : cur[t].fib = f /\ pc[t] \in {"armed", "switch", "settle"}

\* What a fiber's state says of the thread that has it.
AtInv ==
    \A t \in Threads :
        LET f == cur[t].fib IN
        /\ pc[t] = "resume" => st[f] \in {"INIT", "HOLD", "READY"} /\ saved[f] /\ f \notin held
        /\ pc[t] \in {"exec", "instop"} => st[f] = "EXEC" /\ f \notin held
        /\ pc[t] = "armed" => st[f] = "EXEC" /\ (f \in held \/ Queued(f))
        /\ pc[t] \in {"switch", "settle"} =>
              /\ st[f] \in {"READY", "HOLD", "TERM", "EXCEPT"}
              /\ st[f] = "HOLD" <=> f \in held \/ Queued(f)
        /\ pc[t] = "settle" => saved[f]

\* A fiber is queued once, or on one thread, or with its holder; it is queued
\* and still on its thread only while that one is leaving it.
Resumable(f) ==
    st[f] \in {"INIT", "HOLD", "READY"} /\ saved[f] /\ \A t \in Threads : cur[t].fib # f

PlaceInv ==
    /\ \A i \in DOMAIN tasks : tasks[i].fib # None =>
          LET f == tasks[i].fib IN f \notin held /\ (Resumable(f) \/ Early(f))
    /\ \A i, k \in DOMAIN tasks :
          i # k /\ tasks[i].fib # None => tasks[i].fib # tasks[k].fib
    /\ \A t, u \in Threads : t # u /\ cur[t].fib # None => cur[t].fib # cur[u].fib
    /\ \A f \in held : (\A t \in Threads : cur[t].fib # f) => st[f] = "HOLD" /\ saved[f]

\* Nobody has a fiber that does not exist yet or was never scheduled.
Nowhere(f) ==
    /\ f \notin held /\ \A i \in DOMAIN tasks : tasks[i].fib # f
    /\ \A t \in Threads : cur[t].fib # f

FreshInv ==
    /\ \A f \in Wrappers : st[f] = "NONE" => Nowhere(f) /\ \A t \in Threads : cbFiber[t] # f
    /\ \A f \in UserFibers : pinOf[f] = None => Nowhere(f) /\ st[f] = "INIT" /\ saved[f]
    /\ \A f \in UserFibers : st[f] # "NONE"

\* A wrapper that run() keeps for the next function is with nobody else.
OwnInv ==
    \A t \in Threads :
        /\ cbFiber[t] # None =>
              LET f == cbFiber[t] IN
              /\ st[f] \in {"TERM", "EXCEPT"} \/ cur[t].fib = f
              /\ f \in held => cur[t].fib = f
              /\ Queued(f) => cur[t].fib = f
              /\ \A u \in Threads : u # t => cur[u].fib # f /\ cbFiber[u] # f
              /\ cur[t].fib = f => cur[t].fn # None
        /\ cur[t].fib # None /\ cur[t].fn # None => cbFiber[t] = cur[t].fib

-----------------------------------------------------------------------------
(* Jobs. *)

Live(f) == st[f] \in {"INIT", "READY", "HOLD", "EXEC"}

\* What runs on a fiber, and how often a job has run.
RunJobs ==
    /\ \A f \in UserFibers : job[f] = f /\ (Live(f) => done[f] = 0)
    /\ \A f \in Wrappers : st[f] # "NONE" => job[f] \in Funcs
    /\ \A j \in Jobs : done[j] \in {0, 1} /\ (pinOf[j] = None => done[j] = 0)
    /\ \A f \in Fibers : st[f] \in {"TERM", "EXCEPT"} => done[job[f]] = 1

\* A function that has not run is in the list ...
QueuedFns ==
    \A i \in DOMAIN tasks : tasks[i].fn # None =>
        /\ pinOf[tasks[i].fn] # None /\ done[tasks[i].fn] = 0
        /\ \A k \in DOMAIN tasks : k # i => tasks[k].fn # tasks[i].fn
        /\ \A t \in Threads : pc[t] = "wrap" => cur[t].fn # tasks[i].fn
        /\ \A f \in Wrappers : Live(f) => job[f] # tasks[i].fn

\* ... or taken by a thread ...
TakenFns ==
    \A t \in Threads : pc[t] = "wrap" =>
        /\ pinOf[cur[t].fn] # None /\ done[cur[t].fn] = 0
        /\ \A u \in Threads : u # t /\ pc[u] = "wrap" => cur[u].fn # cur[t].fn
        /\ \A f \in Wrappers : Live(f) => job[f] # cur[t].fn

\* ... or on a live wrapper, and only one of them.
LiveFns ==
    \A f \in Wrappers : Live(f) =>
        /\ pinOf[job[f]] # None /\ done[job[f]] = 0
        /\ \A g \in Wrappers : g # f /\ Live(g) => job[g] # job[f]

JobInv == RunJobs /\ QueuedFns /\ TakenFns /\ LiveFns

\* And it is somewhere.
JobOf(task) == IF task.fib # None THEN job[task.fib] ELSE task.fn

Kept(j) ==
    \/ \E i \in DOMAIN tasks : JobOf(tasks[i]) = j
    \/ \E t \in Threads : pc[t] \in Busy \cup {"wrap"} /\ JobOf(cur[t]) = j
    \/ \E f \in held : job[f] = j

KeptInv == \A j \in Jobs : pinOf[j] # None /\ done[j] = 0 => Kept(j)

\* What is queued once the last thread has left run() was scheduled too late.
LeaveInv ==
    (\A t \in Threads : pc[t] = "exited") => \A i \in DOMAIN tasks : JobOf(tasks[i]) \in late

-----------------------------------------------------------------------------
(* Types. *)

LEMMA TaskOfType ==
  ASSUME NEW j \in Jobs, NEW p \in Pins
  PROVE  TaskOf(j, p) \in Task
  BY DEF TaskOf, Task, Jobs, Fibers

LEMMA NoTaskType == NoTask \in Task
  BY DEF NoTask, Task, Pins

LEMMA ThreadsAndPins ==
  /\ Client \notin Threads /\ AnyThread \in Pins /\ None \notin Threads
  BY DistinctAssumption DEF Pins

\* The list with one more task.
LEMMA AppendQ ==
  ASSUME NEW s \in Seq(Task), NEW x \in Task
  PROVE  /\ Append(s, x) \in Seq(Task) /\ Len(s) \in Nat
         /\ DOMAIN s = 1..Len(s) /\ DOMAIN Append(s, x) = 1..(Len(s) + 1)
         /\ \A i \in 1..Len(s) : Append(s, x)[i] = s[i]
         /\ Append(s, x)[Len(s) + 1] = x
<1>1. Append(s, x) \in Seq(Task) /\ Len(Append(s, x)) = Len(s) + 1
      /\ \A i \in 1..Len(s) : Append(s, x)[i] = s[i]
      /\ Append(s, x)[Len(s) + 1] = x
  BY AppendProperties
<1> QED
  BY <1>1, LenProperties

\* The list without one of its tasks: each task that is left was there before.
LEMMA EraseQ ==
  ASSUME NEW s \in Seq(Task), NEW i \in DOMAIN s
  PROVE  /\ RemoveAt(s, i) \in Seq(Task) /\ Len(s) \in Nat /\ DOMAIN s = 1..Len(s)
         /\ DOMAIN RemoveAt(s, i) = 1..(Len(s) - 1)
         /\ \A k \in 1..(Len(s) - 1) : RemoveAt(s, i)[k] = s[IF k < i THEN k ELSE k + 1]
<1>1. Len(s) \in Nat /\ DOMAIN s = 1..Len(s) /\ \A k \in 1..Len(s) : s[k] \in Task
  BY LenProperties, ElementOfSeq
<1> DEFINE a == SubSeq(s, 1, i - 1)
           b == SubSeq(s, i + 1, Len(s))
<1>2. /\ a \in Seq(Task) /\ Len(a) = i - 1 /\ \A k \in 1..(i - 1) : a[k] = s[k]
  BY <1>1, SubSeqProperties
<1>3. /\ b \in Seq(Task) /\ Len(b) = Len(s) - i
      /\ \A k \in 1..(Len(s) - i) : b[k] = s[i + k]
  BY <1>1, SubSeqProperties
<1> HIDE DEF a, b
<1>4. /\ a \o b \in Seq(Task) /\ Len(a \o b) = Len(s) - 1
      /\ \A k \in 1..(Len(s) - 1) : (a \o b)[k] = IF k <= i - 1 THEN a[k] ELSE b[k - (i - 1)]
  <2>1. /\ a \o b \in Seq(Task) /\ Len(a \o b) = Len(a) + Len(b)
        /\ \A k \in 1..(Len(a) + Len(b)) :
              (a \o b)[k] = IF k <= Len(a) THEN a[k] ELSE b[k - Len(a)]
    BY <1>2, <1>3, ConcatProperties
  <2>2. i \in 1..Len(s) /\ Len(a) + Len(b) = Len(s) - 1
    BY <1>1, <1>2, <1>3
  <2> QED
    BY <1>2, <2>1, <2>2
<1>5. ASSUME NEW k \in 1..(Len(s) - 1)
      PROVE  (a \o b)[k] = s[IF k < i THEN k ELSE k + 1]
  <2>1. CASE k < i
    BY <1>1, <1>2, <1>4, <2>1
  <2>2. CASE ~(k < i)
    <3>1. k - (i - 1) \in 1..(Len(s) - i) /\ i + (k - (i - 1)) = k + 1
      BY <1>1, <2>2
    <3>2. b[k - (i - 1)] = s[k + 1]
      BY <1>3, <3>1
    <3> QED
      BY <1>1, <1>4, <2>2, <3>2
  <2> QED
    BY <2>1, <2>2
<1>6. RemoveAt(s, i) = a \o b
  BY DEF RemoveAt, a, b
<1> QED
  BY <1>1, <1>4, <1>5, <1>6, LenProperties

LEMMA PushType ==
  ASSUME TypeOK, NEW a \in Threads \cup {Client}, NEW x \in Task, Push(a, x)
  PROVE  /\ tasks' \in Seq(Task) /\ mutex' \in Threads \cup {None}
         /\ pend' \in [Threads \cup {Client} -> {"no", "one", "all"}]
<1>1. tasks \in Seq(Task) /\ mutex \in Threads \cup {None}
      /\ pend \in [Threads \cup {Client} -> {"no", "one", "all"}]
  BY DEF TypeOK
<1>2. tasks' \in Seq(Task)
  BY <1>1, AppendQ DEF Push
<1> QED
  BY <1>1, <1>2 DEF Push, NotifyKind

LEMMA PinsOK ==
  ASSUME TypeOK
  PROVE  PinChoices \subseteq Pins
  BY DEF TypeOK, PinChoices, Pins

\* The list with two more tasks.
LEMMA AppendTwo ==
  ASSUME NEW s \in Seq(Task), NEW x \in Task, NEW y \in Task
  PROVE  /\ s \o <<x, y>> \in Seq(Task) /\ Len(s) \in Nat
         /\ DOMAIN s = 1..Len(s) /\ DOMAIN (s \o <<x, y>>) = 1..(Len(s) + 2)
         /\ \A i \in 1..Len(s) : (s \o <<x, y>>)[i] = s[i]
         /\ (s \o <<x, y>>)[Len(s) + 1] = x /\ (s \o <<x, y>>)[Len(s) + 2] = y
<1>1. <<x, y>> \in Seq(Task) /\ Len(<<x, y>>) = 2 /\ <<x, y>>[1] = x /\ <<x, y>>[2] = y
  OBVIOUS
<1>2. Len(s) \in Nat /\ DOMAIN s = 1..Len(s)
  BY LenProperties
<1>3. /\ s \o <<x, y>> \in Seq(Task) /\ Len(s \o <<x, y>>) = Len(s) + 2
      /\ \A i \in 1..(Len(s) + 2) :
            (s \o <<x, y>>)[i] = IF i <= Len(s) THEN s[i] ELSE <<x, y>>[i - Len(s)]
  BY <1>1, <1>2, ConcatProperties
<1>4. DOMAIN (s \o <<x, y>>) = 1..(Len(s) + 2)
  BY <1>3, LenProperties
<1>5. (s \o <<x, y>>)[Len(s) + 1] = <<x, y>>[1] /\ (s \o <<x, y>>)[Len(s) + 2] = <<x, y>>[2]
  <2>1. Len(s) + 1 \in 1..(Len(s) + 2) /\ ~(Len(s) + 1 <= Len(s)) /\ (Len(s) + 1) - Len(s) = 1
    BY <1>2
  <2>2. Len(s) + 2 \in 1..(Len(s) + 2) /\ ~(Len(s) + 2 <= Len(s)) /\ (Len(s) + 2) - Len(s) = 2
    BY <1>2
  <2>3. (s \o <<x, y>>)[Len(s) + 1] = <<x, y>>[(Len(s) + 1) - Len(s)]
    BY <1>3, <2>1
  <2>4. (s \o <<x, y>>)[Len(s) + 2] = <<x, y>>[(Len(s) + 2) - Len(s)]
    BY <1>3, <2>2
  <2> QED
    BY <2>1, <2>2, <2>3, <2>4
<1> QED
  BY <1>1, <1>2, <1>3, <1>4, <1>5

LEMMA TypeStep ==
  ASSUME TypeOK, ShapeInv, BornInv, [Next]_vars
  PROVE  TypeOK'
<1> USE ThreadsAndPins, ConstantsAssumption
<1>1. CASE UNCHANGED vars
  BY <1>1 DEF TypeOK, vars, queueVars, lifeVars, loopVars, fiberVars, histVars
<1>2. CASE Start
  BY <1>2 DEF TypeOK, Start, queueVars, lifeVars, loopVars, fiberVars, histVars
<1>3. CASE StopBegin
  BY <1>3 DEF TypeOK, StopBegin, FirstStopStep, queueVars, lifeVars, loopVars, fiberVars, histVars
<1>4. CASE StopLock
  BY <1>4 DEF TypeOK, StopLock, queueVars, lifeVars, loopVars, fiberVars, histVars
<1>5. CASE StopNotify
  BY <1>5 DEF TypeOK, StopNotify, Asleep, queueVars, lifeVars, loopVars, fiberVars, histVars
<1>6. CASE StopJoin
  BY <1>6 DEF TypeOK, StopJoin, queueVars, lifeVars, loopVars, fiberVars, histVars
<1>7. ASSUME NEW t \in Threads, Register(t) PROVE TypeOK'
  BY <1>7 DEF TypeOK, Register, queueVars, lifeVars, loopVars, fiberVars, histVars
<1>8. ASSUME NEW t \in Threads, NoTaskFound(t) PROVE TypeOK'
  BY <1>8 DEF TypeOK, NoTaskFound, queueVars, lifeVars, loopVars, fiberVars, histVars
<1>9. ASSUME NEW t \in Threads, Resume(t) PROVE TypeOK'
  BY <1>9 DEF TypeOK, Resume, FiberStates, queueVars, lifeVars, loopVars, fiberVars, histVars
<1>10. ASSUME NEW t \in Threads, Switch(t) PROVE TypeOK'
  BY <1>10 DEF TypeOK, Switch, queueVars, lifeVars, loopVars, fiberVars, histVars
<1>11. ASSUME NEW t \in Threads, IdleEnter(t) PROVE TypeOK'
  BY <1>11 DEF TypeOK, IdleEnter, queueVars, lifeVars, loopVars, fiberVars, histVars
<1>12. ASSUME NEW t \in Threads, Block(t) PROVE TypeOK'
  BY <1>12 DEF TypeOK, Block, queueVars, lifeVars, loopVars, fiberVars, histVars
<1>13. ASSUME NEW t \in Threads, IdleCheck(t) PROVE TypeOK'
  BY <1>13 DEF TypeOK, IdleCheck, queueVars, lifeVars, loopVars, fiberVars, histVars
<1>14. ASSUME NEW t \in Threads, BodyYieldReady(t) PROVE TypeOK'
  <2>1. yields' \in [Fibers -> 0..MaxYields]
    <3> DEFINE n == yields[cur[t].fib] + 1
    <3>1. cur[t].fib \in Fibers
      BY <1>14 DEF BodyYieldReady, Running, ShapeInv, Busy, TypeOK, Task
    <3>2. n \in 0..MaxYields
      BY <1>14, <3>1 DEF BodyYieldReady, TypeOK
    <3>3. yields' = [yields EXCEPT ![cur[t].fib] = n]
      BY <1>14 DEF BodyYieldReady
    <3> QED
      BY <3>2, <3>3 DEF TypeOK
  <2> QED
    BY <1>14, <2>1
       DEF TypeOK, BodyYieldReady, FiberStates, queueVars, lifeVars, loopVars, fiberVars, histVars
<1>15. ASSUME NEW t \in Threads, BodyArm(t) PROVE TypeOK'
  <2>1. cur[t].fib \in Fibers
    BY <1>15 DEF BodyArm, Running, ShapeInv, Busy, TypeOK, Task
  <2>2. holds' \in [Fibers -> 0..MaxHolds]
    <3> DEFINE n == holds[cur[t].fib] + 1
    <3>2. n \in 0..MaxHolds
      BY <1>15, <2>1 DEF BodyArm, TypeOK
    <3>3. holds' = [holds EXCEPT ![cur[t].fib] = n]
      BY <1>15 DEF BodyArm
    <3> QED
      BY <3>2, <3>3 DEF TypeOK
  <2>3. held' \subseteq Fibers
    BY <1>15, <2>1 DEF BodyArm, TypeOK
  <2> QED
    BY <1>15, <2>2, <2>3 DEF TypeOK, BodyArm, queueVars, lifeVars, loopVars, fiberVars, histVars
<1>16. ASSUME NEW t \in Threads, BodyYieldHold(t) PROVE TypeOK'
  BY <1>16
     DEF TypeOK, BodyYieldHold, FiberStates, queueVars, lifeVars, loopVars, fiberVars, histVars
<1>17. ASSUME NEW t \in Threads, BodyEnd(t) PROVE TypeOK'
  <2>1. PICK s \in {"TERM", "EXCEPT"} : st' = [st EXCEPT ![cur[t].fib] = s]
    BY <1>17 DEF BodyEnd
  <2>2. st' \in [Fibers -> FiberStates]
    BY <2>1 DEF TypeOK, FiberStates
  <2>3. done' \in [Jobs -> Nat]
    <3>1. job[cur[t].fib] \in Jobs
      BY <1>17 DEF BodyEnd, Running, ShapeInv, Busy, BornInv
    <3>2. done' = [done EXCEPT ![job[cur[t].fib]] = @ + 1]
      BY <1>17 DEF BodyEnd
    <3> QED
      BY <3>1, <3>2 DEF TypeOK
  <2> QED
    BY <1>17, <2>2, <2>3 DEF TypeOK, BodyEnd, queueVars, lifeVars, loopVars, fiberVars, histVars
<1>18. ASSUME NEW t \in Threads, BodyStop(t) PROVE TypeOK'
  BY <1>18 DEF TypeOK, BodyStop, queueVars, lifeVars, loopVars, fiberVars, histVars
<1>19. ASSUME NEW t \in Threads, SpuriousWakeup(t) PROVE TypeOK'
  BY <1>19 DEF TypeOK, SpuriousWakeup, queueVars, lifeVars, loopVars, fiberVars, histVars
<1>20. ASSUME NEW t \in Threads, Wrap(t) PROVE TypeOK'
  <2>1. PICK f \in Wrappers : WrapOn(t, f)
    BY <1>20 DEF Wrap, TypeOK
  <2>2. cur[t] \in Task
    BY DEF TypeOK
  <2>3. cur[t].fn \in Jobs \cup {None} /\ [cur[t] EXCEPT !.fib = f] \in Task /\ f \in Fibers
    BY <2>2 DEF Task, Jobs, Fibers
  <2>4. cur' = [cur EXCEPT ![t] = [cur[t] EXCEPT !.fib = f]]
    BY <2>1 DEF WrapOn
  <2> QED
    BY <1>20, <2>1, <2>3, <2>4
       DEF TypeOK, Wrap, WrapOn, FiberStates, queueVars, lifeVars, loopVars, fiberVars, histVars
<1>21. ASSUME NEW t \in Threads, GetNextTask(t) PROVE TypeOK'
  BY <1>21, EraseQ, ElementOfSeq
     DEF TypeOK, GetNextTask, Candidates, Erase, queueVars, lifeVars, loopVars, fiberVars, histVars
<1>22. ASSUME NEW t \in Threads, Settle(t) PROVE TypeOK'
  <2> DEFINE k == [fib |-> cur[t].fib, fn |-> None,
                   pin |-> IF cur[t].fn # None THEN AnyThread ELSE cur[t].pin]
  <2>1. cur[t] \in Task
    BY DEF TypeOK
  <2>2. k \in Task
    BY <2>1 DEF Task
  <2>3. Push(t, k) \/ UNCHANGED queueVars
    BY <1>22 DEF Settle
  <2>4. /\ tasks' \in Seq(Task) /\ mutex' \in Threads \cup {None}
        /\ pend' \in [Threads \cup {Client} -> {"no", "one", "all"}]
    BY <2>2, <2>3, PushType DEF TypeOK, queueVars
  <2> HIDE DEF k
  <2> QED
    BY <1>22, <2>4, NoTaskType
       DEF TypeOK, Settle, queueVars, lifeVars, loopVars, fiberVars, histVars
<1>23. ASSUME NEW t \in Threads, BodySchedule(t) PROVE TypeOK'
  <2>1. PICK j \in Funcs, p \in PinChoices : Push(t, TaskOf(j, p)) /\ Record(j, p, FALSE)
    BY <1>23 DEF BodySchedule
  <2>2. j \in Jobs /\ p \in Pins /\ TaskOf(j, p) \in Task
    BY PinsOK, TaskOfType DEF Jobs
  <2>3. pinOf' \in [Jobs -> Pins \cup {None}] /\ late' \subseteq Jobs /\ UNCHANGED <<done, overtaken>>
    BY <2>1, <2>2 DEF TypeOK, Record
  <2> QED
    BY <1>23, <2>1, <2>2, <2>3, PushType
       DEF TypeOK, BodySchedule, queueVars, lifeVars, loopVars, fiberVars, histVars
<1>24. CASE ClientSchedule
  <2>1. PICK j \in Jobs, p \in PinChoices : Push(Client, TaskOf(j, p)) /\ Record(j, p, stopping)
    BY <1>24 DEF ClientSchedule
  <2>2. p \in Pins /\ TaskOf(j, p) \in Task
    BY PinsOK, TaskOfType
  <2>3. pinOf' \in [Jobs -> Pins \cup {None}] /\ late' \subseteq Jobs /\ UNCHANGED <<done, overtaken>>
    BY <2>1, <2>2 DEF TypeOK, Record
  <2> QED
    BY <1>24, <2>1, <2>2, <2>3, PushType
       DEF TypeOK, ClientSchedule, queueVars, lifeVars, loopVars, fiberVars, histVars
<1>25. CASE ClientBatch
  <2>1. PICK j \in Jobs, k \in Jobs :
          /\ tasks' = tasks \o <<TaskOf(j, AnyThread), TaskOf(k, AnyThread)>>
          /\ pinOf' = [pinOf EXCEPT ![j] = AnyThread, ![k] = AnyThread]
          /\ late' = IF stopping THEN late \cup {j, k} ELSE late
    BY <1>25 DEF ClientBatch
  <2>2. TaskOf(j, AnyThread) \in Task /\ TaskOf(k, AnyThread) \in Task
    BY TaskOfType
  <2>3. tasks' \in Seq(Task)
    BY <2>1, <2>2, AppendTwo DEF TypeOK
  <2>4. pinOf' \in [Jobs -> Pins \cup {None}] /\ late' \subseteq Jobs
    BY <2>1 DEF TypeOK
  <2> QED
    BY <1>25, <2>3, <2>4 DEF TypeOK, ClientBatch, queueVars, lifeVars, loopVars, fiberVars, histVars
<1>26. CASE HolderWake
  <2>1. PICK f \in held : /\ Push(Client, [fib |-> f, fn |-> None, pin |-> AnyThread])
                          /\ held' = held \ {f}
                          /\ late' = IF stopping THEN late \cup {job[f]} ELSE late
    BY <1>26 DEF HolderWake
  <2>2. [fib |-> f, fn |-> None, pin |-> AnyThread] \in Task
    BY DEF TypeOK, Task
  <2>3. job[f] \in Jobs
    BY DEF BornInv
  <2> QED
    BY <1>26, <2>1, <2>2, <2>3, PushType
       DEF TypeOK, HolderWake, queueVars, lifeVars, loopVars, fiberVars, histVars
<1>27. ASSUME NEW a \in Threads \cup {Client}, Notify(a) PROVE TypeOK'
  BY <1>27 DEF TypeOK, Notify, Wakeups, Asleep, queueVars, lifeVars, loopVars, fiberVars, histVars
<1> QED
  BY <1>1, <1>2, <1>3, <1>4, <1>5, <1>6, <1>7, <1>8, <1>9, <1>10, <1>11, <1>12, <1>13, <1>14,
     <1>15, <1>16, <1>17, <1>18, <1>19, <1>20, <1>21, <1>22, <1>23, <1>24, <1>25, <1>26, <1>27
     DEF Next, Terminated, Stop, Loop, Body

-----------------------------------------------------------------------------
(* Steps that only move a thread between points at which it has the same. *)

Kind(p) == IF p \in {"exec", "instop"} THEN "exec" ELSE IF p \in Busy \cup {"wrap"} THEN p ELSE "loose"

PcOnly ==
    /\ UNCHANGED <<tasks, cur, cbFiber, st, saved, held, job, pinOf, done>>
    /\ \A t \in Threads : Kind(pc'[t]) = Kind(pc[t])

PcSteps ==
    \/ Start \/ StopBegin \/ Stop \/ UNCHANGED vars
    \/ \E a \in Threads \cup {Client} : Notify(a)
    \/ \E t \in Threads : \/ Register(t) \/ NoTaskFound(t) \/ IdleEnter(t) \/ Block(t)
                          \/ IdleCheck(t) \/ SpuriousWakeup(t) \/ BodyStop(t)

LEMMA PcStepsOnly ==
  ASSUME TypeOK, LifeInv, PcSteps
  PROVE  PcOnly
<1> USE DEF Kind, Busy
<1>0. pc \in [Threads -> {"new", "register", "fetch", "wrap", "resume", "exec",
                          "armed", "instop", "switch", "settle", "idle",
                          "block", "asleep", "check", "exited"}]
  BY DEF TypeOK
<1>1. UNCHANGED <<tasks, cur, cbFiber, st, saved, held, job, pinOf, done>>
  BY DEF PcSteps, Start, StopBegin, Stop, StopLock, StopNotify, StopJoin, vars, Notify, Register,
     NoTaskFound, IdleEnter, Block, IdleCheck, SpuriousWakeup, BodyStop, queueVars, lifeVars,
     loopVars, fiberVars, histVars
<1>2. ASSUME NEW u \in Threads PROVE Kind(pc'[u]) = Kind(pc[u])
  <2>1. CASE Start
    BY <2>1 DEF Start, LifeInv
  <2>2. CASE StopBegin \/ StopLock \/ UNCHANGED vars
    BY <2>2 DEF StopBegin, StopLock, vars, loopVars
  <2>3. CASE StopNotify
    BY <2>3 DEF StopNotify, Asleep
  <2>4. CASE StopJoin
    BY <1>0, <2>4 DEF StopJoin, LifeInv
  <2>5. ASSUME NEW a \in Threads \cup {Client}, Notify(a) PROVE Kind(pc'[u]) = Kind(pc[u])
    <3>1. PICK W \in Wakeups(pend[a]) : pc' = [t \in Threads |-> IF t \in W THEN "idle" ELSE pc[t]]
      BY <2>5 DEF Notify
    <3>2. W \subseteq Asleep
      BY DEF Wakeups
    <3> QED
      BY <3>1, <3>2 DEF Asleep
  <2>6. ASSUME NEW t \in Threads,
               \/ Register(t) \/ NoTaskFound(t) \/ IdleEnter(t) \/ Block(t)
               \/ IdleCheck(t) \/ SpuriousWakeup(t) \/ BodyStop(t)
        PROVE  Kind(pc'[u]) = Kind(pc[u])
    BY <1>0, <2>6 DEF Register, NoTaskFound, IdleEnter, Block, IdleCheck, SpuriousWakeup, BodyStop
  <2> QED
    BY <2>1, <2>2, <2>3, <2>4, <2>5, <2>6 DEF PcSteps, Stop
<1> QED
  BY <1>1, <1>2 DEF PcOnly

LEMMA KindPc ==
  ASSUME NEW p, NEW q, Kind(p) = Kind(q)
  PROVE  /\ p \in Busy <=> q \in Busy
         /\ p \in {"exec", "instop"} <=> q \in {"exec", "instop"}
         /\ p = "wrap" <=> q = "wrap"
         /\ p = "resume" <=> q = "resume"
         /\ p = "armed" <=> q = "armed"
         /\ p = "settle" <=> q = "settle"
         /\ p \in {"switch", "settle"} <=> q \in {"switch", "settle"}
  BY DEF Kind, Busy

\* What is said of tasks and fibers stays true.
LEMMA PcOnlyKeeps ==
  ASSUME PcOnly
  PROVE  /\ ShapeInv => ShapeInv'
         /\ BornInv => BornInv'
         /\ AtInv => AtInv'
         /\ PlaceInv => PlaceInv'
         /\ FreshInv => FreshInv'
         /\ OwnInv => OwnInv'
         /\ JobInv => JobInv'
         /\ KeptInv => KeptInv'
<1>1. \A t \in Threads :
         /\ pc'[t] \in Busy <=> pc[t] \in Busy
         /\ pc'[t] \in {"exec", "instop"} <=> pc[t] \in {"exec", "instop"}
         /\ pc'[t] = "wrap" <=> pc[t] = "wrap"
         /\ pc'[t] = "resume" <=> pc[t] = "resume"
         /\ pc'[t] = "armed" <=> pc[t] = "armed"
         /\ pc'[t] = "settle" <=> pc[t] = "settle"
         /\ pc'[t] \in {"switch", "settle"} <=> pc[t] \in {"switch", "settle"}
  BY KindPc DEF PcOnly
<1>2. UNCHANGED <<tasks, cur, cbFiber, st, saved, held, job, pinOf, done>>
  BY DEF PcOnly
<1>3. ShapeInv => ShapeInv'
  BY <1>1, <1>2 DEF ShapeInv
<1>4. BornInv => BornInv'
  BY <1>2 DEF BornInv
<1>5. AtInv => AtInv'
  BY <1>1, <1>2 DEF AtInv, Queued
<1>6. PlaceInv => PlaceInv'
  <2>1. \A t \in Threads : pc'[t] \in {"armed", "switch", "settle"} <=> pc[t] \in {"armed", "switch", "settle"}
    BY <1>1
  <2> QED
    BY <1>2, <2>1 DEF PlaceInv, Resumable, Early
<1>7. FreshInv => FreshInv'
  BY <1>2 DEF FreshInv, Nowhere
<1>8. OwnInv => OwnInv'
  BY <1>2 DEF OwnInv, Queued
<1>9. JobInv => JobInv'
  BY <1>1, <1>2 DEF JobInv, RunJobs, QueuedFns, TakenFns, LiveFns, Live
<1>10. KeptInv => KeptInv'
  BY <1>1, <1>2 DEF KeptInv, Kept, JobOf
<1> QED
  BY <1>3, <1>4, <1>5, <1>6, <1>7, <1>8, <1>9, <1>10

-----------------------------------------------------------------------------
(* Starting, stopping and mutex_. *)

\* The steps that touch tasks or fibers.
WorkSteps ==
    \/ ClientSchedule \/ ClientBatch \/ HolderWake
    \/ \E t \in Threads : \/ GetNextTask(t) \/ Wrap(t) \/ Resume(t) \/ Switch(t) \/ Settle(t)
                          \/ BodySchedule(t) \/ BodyYieldReady(t) \/ BodyArm(t)
                          \/ BodyYieldHold(t) \/ BodyEnd(t)

LEMMA TwoSorts ==
  ASSUME [Next]_vars
  PROVE  PcSteps \/ WorkSteps
  BY DEF Next, PcSteps, WorkSteps, Terminated, Loop, Body

\* A step that works on a task moves one thread at most, between these points.
LEMMA WorkMoves ==
  ASSUME TypeOK, WorkSteps
  PROVE  /\ UNCHANGED <<mutex, stopping, started, stopPc, stopper, thread_ids>>
         /\ \/ UNCHANGED pc
            \/ \E t \in Threads, p \in (Busy \ {"instop"}) \cup {"fetch", "wrap"} :
                  /\ pc' = [pc EXCEPT ![t] = p]
                  /\ pc[t] \in (Busy \ {"instop"}) \cup {"fetch", "wrap"}
<1> USE DEF Busy
<1>1. UNCHANGED <<mutex, stopping, started, stopPc, stopper, thread_ids>>
  BY DEF WorkSteps, ClientSchedule, ClientBatch, HolderWake, GetNextTask, Wrap, Resume, Switch,
     Settle, BodySchedule, BodyYieldReady, BodyArm, BodyYieldHold, BodyEnd, Push, queueVars, lifeVars
<1>2. CASE ClientSchedule \/ ClientBatch \/ HolderWake \/ \E t \in Threads : BodySchedule(t)
  BY <1>1, <1>2 DEF ClientSchedule, ClientBatch, HolderWake, BodySchedule, loopVars
<1>3. ASSUME NEW t \in Threads,
             \/ GetNextTask(t) \/ Wrap(t) \/ Resume(t) \/ Switch(t) \/ Settle(t)
             \/ BodyYieldReady(t) \/ BodyArm(t) \/ BodyYieldHold(t) \/ BodyEnd(t)
      PROVE  \E p \in (Busy \ {"instop"}) \cup {"fetch", "wrap"} :
                  /\ pc' = [pc EXCEPT ![t] = p]
                  /\ pc[t] \in (Busy \ {"instop"}) \cup {"fetch", "wrap"}
  <2>1. pc[t] \in (Busy \ {"instop"}) \cup {"fetch", "wrap"}
    BY <1>3 DEF GetNextTask, Wrap, Resume, Switch, Settle, BodyYieldReady, BodyArm, BodyYieldHold,
       BodyEnd, Running
  <2>2. \E p \in {"resume", "wrap", "exec", "settle", "fetch", "switch", "armed"} :
            pc' = [pc EXCEPT ![t] = p]
    <3>1. CASE GetNextTask(t)
      <4>1. PICK i : pc' = [pc EXCEPT ![t] = IF tasks[i].fib # None THEN "resume" ELSE "wrap"]
        BY <3>1 DEF GetNextTask
      <4> QED
        BY <4>1
    <3> QED
      BY <1>3, <3>1
         DEF Wrap, Resume, Switch, Settle, BodyYieldReady, BodyArm, BodyYieldHold, BodyEnd
  <2> QED
    BY <2>1, <2>2
<1> QED
  BY <1>1, <1>2, <1>3 DEF WorkSteps

LEMMA LifeStep ==
  ASSUME TypeOK, LifeInv, [Next]_vars
  PROVE  LifeInv'
<1>0. pc \in [Threads -> {"new", "register", "fetch", "wrap", "resume", "exec",
                          "armed", "instop", "switch", "settle", "idle",
                          "block", "asleep", "check", "exited"}]
  BY DEF TypeOK
<1>1. CASE WorkSteps
  BY <1>0, <1>1, WorkMoves DEF LifeInv, Busy
<1>2. CASE Start
  BY <1>0, <1>2 DEF LifeInv, Start
<1>3. CASE StopBegin
  BY <1>0, <1>3 DEF LifeInv, StopBegin, StartReturned, FirstStopStep, loopVars
<1>4. CASE StopLock
  BY <1>0, <1>4 DEF LifeInv, StopLock, loopVars
<1>5. CASE StopNotify
  BY <1>0, <1>5 DEF LifeInv, StopNotify, Asleep
<1>6. CASE StopJoin
  BY <1>0, <1>6 DEF LifeInv, StopJoin
<1>7. CASE UNCHANGED vars
  BY <1>0, <1>7 DEF LifeInv, vars, lifeVars, loopVars
<1>8. ASSUME NEW a \in Threads \cup {Client}, Notify(a) PROVE LifeInv'
  <2>1. PICK W \in Wakeups(pend[a]) : pc' = [t \in Threads |-> IF t \in W THEN "idle" ELSE pc[t]]
    BY <1>8 DEF Notify
  <2>2. W \subseteq Asleep
    BY DEF Wakeups
  <2> QED
    BY <1>0, <1>8, <2>1, <2>2 DEF LifeInv, Notify, Asleep, lifeVars
<1>9. ASSUME NEW t \in Threads, Register(t) \/ NoTaskFound(t) \/ IdleEnter(t) \/ Block(t)
                                \/ SpuriousWakeup(t)
      PROVE  LifeInv'
  BY <1>0, <1>9 DEF LifeInv, Register, NoTaskFound, IdleEnter, Block, SpuriousWakeup, lifeVars
<1>10. ASSUME NEW t \in Threads, IdleCheck(t) PROVE LifeInv'
  BY <1>0, <1>10 DEF LifeInv, IdleCheck, IdleLeaves, lifeVars
<1>11. ASSUME NEW t \in Threads, BodyStop(t) PROVE LifeInv'
  BY <1>0, <1>11 DEF LifeInv, BodyStop
<1> QED
  BY <1>1, <1>2, <1>3, <1>4, <1>5, <1>6, <1>7, <1>8, <1>9, <1>10, <1>11, TwoSorts DEF PcSteps, Stop

\* mutex_ is free wherever the list changes.
LEMMA ListNeedsMutex ==
  ASSUME [Next]_vars
  PROVE  tasks' = tasks \/ mutex = None
  BY TwoSorts DEF PcSteps, WorkSteps, Start, StopBegin, Stop, StopLock, StopNotify, StopJoin, vars,
     Notify, Register, NoTaskFound, IdleEnter, Block, IdleCheck, SpuriousWakeup, BodyStop,
     ClientSchedule, ClientBatch, HolderWake, GetNextTask, Wrap, Resume, Switch, Settle, BodySchedule,
     BodyYieldReady, BodyArm, BodyYieldHold, BodyEnd, Push, queueVars

LEMMA QueueStep ==
  ASSUME TypeOK, QueueInv, [Next]_vars
  PROVE  QueueInv'
<1>0. /\ pc \in [Threads -> {"new", "register", "fetch", "wrap", "resume", "exec",
                          "armed", "instop", "switch", "settle", "idle",
                          "block", "asleep", "check", "exited"}]
      /\ pend \in [Threads \cup {Client} -> {"no", "one", "all"}]
      /\ Client \notin Threads /\ None \notin Threads
  BY ThreadsAndPins DEF TypeOK
<1>1. ASSUME NEW u \in Threads, pc'[u] = "block" PROVE mutex' = u /\ tasks' = <<>>
  <2>1. CASE WorkSteps
    <3>1. pc[u] = "block" /\ mutex' = mutex
      BY <1>0, <1>1, <2>1, WorkMoves DEF Busy
    <3> QED
      BY <1>0, <3>1, ListNeedsMutex DEF QueueInv
  <2>2. CASE Start \/ StopBegin \/ Stop \/ UNCHANGED vars
    <3>1. pc[u] = "block"
      BY <1>0, <1>1, <2>2 DEF Start, StopBegin, Stop, StopLock, StopNotify, StopJoin, vars, loopVars
    <3>2. UNCHANGED queueVars
      BY <2>2 DEF Start, StopBegin, Stop, StopLock, StopNotify, StopJoin, vars
    <3> QED
      BY <3>1, <3>2 DEF QueueInv, queueVars
  <2>3. ASSUME NEW a \in Threads \cup {Client}, Notify(a) PROVE mutex' = u /\ tasks' = <<>>
    BY <1>0, <1>1, <2>3 DEF Notify, QueueInv
  <2>4. ASSUME NEW t \in Threads, \/ Register(t) \/ NoTaskFound(t) \/ IdleCheck(t)
                                  \/ SpuriousWakeup(t) \/ BodyStop(t)
        PROVE  mutex' = u /\ tasks' = <<>>
    BY <1>0, <1>1, <2>4
       DEF Register, NoTaskFound, IdleCheck, SpuriousWakeup, BodyStop, queueVars, QueueInv
  <2>5. ASSUME NEW t \in Threads, IdleEnter(t) \/ Block(t) PROVE mutex' = u /\ tasks' = <<>>
    BY <1>0, <1>1, <2>5 DEF IdleEnter, Block, WaitPredicate, QueueInv
  <2> QED
    BY <2>1, <2>2, <2>3, <2>4, <2>5, TwoSorts DEF PcSteps
<1>2. ASSUME NEW u \in Threads, pc'[u] \in {"armed", "switch", "settle"} PROVE pend'[u] = "no"
  <2>1. CASE ClientSchedule \/ ClientBatch \/ HolderWake
    <3>1. UNCHANGED pc /\ \E k : pend' = [pend EXCEPT ![Client] = k]
      BY <2>1 DEF ClientSchedule, ClientBatch, HolderWake, Push, loopVars
    <3> QED
      BY <1>0, <1>2, <3>1 DEF QueueInv
  <2>2. ASSUME NEW t \in Threads, BodySchedule(t) PROVE pend'[u] = "no"
    <3>1. UNCHANGED pc /\ pc[t] = "exec" /\ \E k : pend' = [pend EXCEPT ![t] = k]
      BY <2>2 DEF BodySchedule, Push, loopVars, Running
    <3> QED
      BY <1>0, <1>2, <3>1 DEF QueueInv
  <2>3. ASSUME NEW t \in Threads, Settle(t) PROVE pend'[u] = "no"
    <3>1. pc' = [pc EXCEPT ![t] = "fetch"] /\ (UNCHANGED pend \/ \E k : pend' = [pend EXCEPT ![t] = k])
      BY <2>3 DEF Settle, Push, queueVars
    <3> QED
      BY <1>0, <1>2, <3>1 DEF QueueInv
  <2>4. ASSUME NEW t \in Threads, \/ GetNextTask(t) \/ Wrap(t) \/ Resume(t) \/ Switch(t)
                                  \/ BodyYieldReady(t) \/ BodyArm(t) \/ BodyYieldHold(t) \/ BodyEnd(t)
        PROVE  pend'[u] = "no"
    <3>1. UNCHANGED pend
      BY <2>4
         DEF GetNextTask, Wrap, Resume, Switch, BodyYieldReady, BodyArm, BodyYieldHold, BodyEnd,
             queueVars
    <3>2. u # t => pc'[u] = pc[u]
      BY <1>0, <2>4
         DEF GetNextTask, Wrap, Resume, Switch, BodyYieldReady, BodyArm, BodyYieldHold, BodyEnd
    <3>3. u = t => pend[t] = "no"
      BY <1>0, <1>2, <2>4
         DEF GetNextTask, Wrap, Resume, Switch, BodyYieldReady, BodyArm, BodyYieldHold, BodyEnd,
             Running, QueueInv
    <3> QED
      BY <1>2, <3>1, <3>2, <3>3 DEF QueueInv
  <2>5. CASE PcSteps
    <3>1. pc[u] \in {"armed", "switch", "settle"}
      BY <1>0, <1>2, <2>5
         DEF PcSteps, Start, StopBegin, Stop, StopLock, StopNotify, StopJoin, vars, loopVars,
             Notify,
         Register, NoTaskFound, IdleCheck, SpuriousWakeup, BodyStop, IdleEnter, Block
    <3>2. UNCHANGED pend \/ \E a \in Threads \cup {Client} : pend' = [pend EXCEPT ![a] = "no"]
      BY <2>5 DEF PcSteps, Start, StopBegin, Stop, StopLock, StopNotify, StopJoin, vars, Notify,
         Register, NoTaskFound, IdleCheck, SpuriousWakeup, BodyStop, IdleEnter, Block, queueVars
    <3> QED
      BY <1>0, <3>1, <3>2 DEF QueueInv
  <2> QED
    BY <2>1, <2>2, <2>3, <2>4, <2>5, TwoSorts DEF WorkSteps
<1> QED
  BY <1>1, <1>2 DEF QueueInv

-----------------------------------------------------------------------------
(* The shape of tasks. *)

\* What a push leaves in the list.
LEMMA PushItems ==
  ASSUME TypeOK, NEW a, NEW x \in Task, Push(a, x)
  PROVE  \A i \in DOMAIN tasks' : tasks'[i] = x \/ \E k \in DOMAIN tasks : tasks'[i] = tasks[k]
<1>1. tasks \in Seq(Task) /\ tasks' = Append(tasks, x)
  BY DEF TypeOK, Push
<1>2. /\ Len(tasks) \in Nat /\ DOMAIN tasks = 1..Len(tasks) /\ DOMAIN tasks' = 1..(Len(tasks) + 1)
      /\ \A i \in 1..Len(tasks) : tasks'[i] = tasks[i]
      /\ tasks'[Len(tasks) + 1] = x
  BY <1>1, AppendQ
<1>3. ASSUME NEW i \in 1..(Len(tasks) + 1) PROVE i = Len(tasks) + 1 \/ i \in 1..Len(tasks)
  BY <1>2
<1> QED
  BY <1>2, <1>3

Sound(task) ==
    /\ task.fib = None <=> task.fn # None
    /\ task.fib # None => job[task.fib] \in Jobs

LEMMA TaskOfSound ==
  ASSUME BornInv, NEW j \in Jobs, NEW p
  PROVE  Sound(TaskOf(j, p))
  BY DistinctAssumption DEF Sound, TaskOf, BornInv, Jobs, Fibers

\* Every entry a step leaves in the list is sound.
LEMMA WorkItems ==
  ASSUME TypeOK, ShapeInv, BornInv, WorkSteps
  PROVE  \A i \in DOMAIN tasks' : Sound(tasks'[i])
<1>0. \A i \in DOMAIN tasks : Sound(tasks[i])
  BY DEF Sound, ShapeInv, BornInv
<1>00. \A t \in Threads : cur[t] \in Task /\ (pc[t] \in Busy => cur[t].fib \in Fibers)
  BY DEF TypeOK, ShapeInv, Task
<1>1. ASSUME NEW a, NEW x \in Task, Push(a, x), Sound(x)
      PROVE  \A i \in DOMAIN tasks' : Sound(tasks'[i])
  <2>1. \A i \in DOMAIN tasks' : tasks'[i] = x \/ \E k \in DOMAIN tasks : tasks'[i] = tasks[k]
    BY <1>1, PushItems
  <2> QED
    BY <1>0, <1>1, <2>1, Zenon
<1>2. CASE ClientSchedule
  <2>1. PICK j \in Jobs, p \in PinChoices : Push(Client, TaskOf(j, p))
    BY <1>2 DEF ClientSchedule
  <2>2. TaskOf(j, p) \in Task /\ Sound(TaskOf(j, p))
    BY PinsOK, TaskOfType, TaskOfSound
  <2> QED
    BY <1>1, <2>1, <2>2, Zenon
<1>3. ASSUME NEW t \in Threads, BodySchedule(t) PROVE \A i \in DOMAIN tasks' : Sound(tasks'[i])
  <2>1. PICK j \in Funcs, p \in PinChoices : Push(t, TaskOf(j, p))
    BY <1>3 DEF BodySchedule
  <2>2. TaskOf(j, p) \in Task /\ Sound(TaskOf(j, p))
    BY PinsOK, TaskOfType, TaskOfSound DEF Jobs
  <2> QED
    BY <1>1, <2>1, <2>2, Zenon
<1>4. CASE HolderWake
  <2>1. PICK f \in held : Push(Client, [fib |-> f, fn |-> None, pin |-> AnyThread])
    BY <1>4 DEF HolderWake
  <2> DEFINE x == [fib |-> f, fn |-> None, pin |-> AnyThread]
  <2>2. f \in Fibers /\ job[f] \in Jobs /\ f # None
    BY DistinctAssumption DEF TypeOK, BornInv
  <2>3. x \in Task /\ Sound(x)
    BY <2>2, ThreadsAndPins DEF Task, Sound
  <2> HIDE DEF x
  <2>4. Push(Client, x)
    BY <2>1 DEF x
  <2> QED
    BY <1>1, <2>3, <2>4, Zenon
<1>5. ASSUME NEW t \in Threads, Settle(t) PROVE \A i \in DOMAIN tasks' : Sound(tasks'[i])
  <2> DEFINE x == [fib |-> cur[t].fib, fn |-> None,
                   pin |-> IF cur[t].fn # None THEN AnyThread ELSE cur[t].pin]
  <2>1. cur[t] \in Task /\ cur[t].fib \in Fibers
    BY <1>5, <1>00 DEF Settle, Busy
  <2>2. x \in Task
    BY <2>1, ThreadsAndPins DEF Task
  <2>3. cur[t].fib # None /\ job[cur[t].fib] \in Jobs
    BY <1>5, <2>1, DistinctAssumption DEF BornInv
  <2>4. Sound(x)
    BY <2>3 DEF Sound
  <2>5. Push(t, x) \/ UNCHANGED queueVars
    BY <1>5 DEF Settle
  <2> HIDE DEF x
  <2>6. CASE Push(t, x)
    BY <1>1, <2>2, <2>4, <2>6, Zenon
  <2>7. CASE UNCHANGED queueVars
    BY <1>0, <2>7 DEF queueVars
  <2> QED
    BY <2>5, <2>6, <2>7
<1>6. CASE ClientBatch
  <2>1. PICK j \in Jobs, k \in Jobs :
          tasks' = tasks \o <<TaskOf(j, AnyThread), TaskOf(k, AnyThread)>>
    BY <1>6 DEF ClientBatch
  <2> DEFINE x == TaskOf(j, AnyThread)
             y == TaskOf(k, AnyThread)
  <2>2. x \in Task /\ y \in Task /\ Sound(x) /\ Sound(y)
    BY ThreadsAndPins, TaskOfType, TaskOfSound
  <2> HIDE DEF x, y
  <2>3. tasks' = tasks \o <<x, y>> /\ tasks \in Seq(Task)
    BY <2>1 DEF x, y, TypeOK
  <2>4. /\ Len(tasks) \in Nat /\ DOMAIN tasks = 1..Len(tasks) /\ DOMAIN tasks' = 1..(Len(tasks) + 2)
        /\ \A i \in 1..Len(tasks) : tasks'[i] = tasks[i]
        /\ tasks'[Len(tasks) + 1] = x /\ tasks'[Len(tasks) + 2] = y
    BY <2>2, <2>3, AppendTwo
  <2>5. ASSUME NEW i \in 1..(Len(tasks) + 2)
        PROVE i \in 1..Len(tasks) \/ i = Len(tasks) + 1 \/ i = Len(tasks) + 2
    BY <2>4
  <2> QED
    BY <1>0, <2>2, <2>4, <2>5, Zenon
<1>7. ASSUME NEW t \in Threads, GetNextTask(t) PROVE \A i \in DOMAIN tasks' : Sound(tasks'[i])
  <2>1. PICK n \in DOMAIN tasks : tasks' = RemoveAt(tasks, n)
    BY <1>7 DEF GetNextTask, Candidates, Erase
  <2>2. /\ Len(tasks) \in Nat /\ DOMAIN tasks = 1..Len(tasks) /\ DOMAIN tasks' = 1..(Len(tasks) - 1)
        /\ \A k \in 1..(Len(tasks) - 1) : tasks'[k] = tasks[IF k < n THEN k ELSE k + 1]
    BY <2>1, EraseQ DEF TypeOK
  <2>3. ASSUME NEW k \in 1..(Len(tasks) - 1) PROVE (IF k < n THEN k ELSE k + 1) \in DOMAIN tasks
    BY <2>2
  <2> QED
    BY <1>0, <2>2, <2>3, Zenon
<1>8. ASSUME NEW t \in Threads, \/ Wrap(t) \/ Resume(t) \/ Switch(t) \/ BodyYieldReady(t)
                                \/ BodyArm(t) \/ BodyYieldHold(t) \/ BodyEnd(t)
      PROVE  \A i \in DOMAIN tasks' : Sound(tasks'[i])
  <2>1. UNCHANGED tasks
    BY <1>8 DEF Wrap, Resume, Switch, BodyYieldReady, BodyArm, BodyYieldHold, BodyEnd, queueVars
  <2> QED
    BY <1>0, <2>1
<1> QED
  BY <1>2, <1>3, <1>4, <1>5, <1>6, <1>7, <1>8 DEF WorkSteps

\* What run() does when it puts a function on a fiber.
LEMMA WrapFacts ==
  ASSUME TypeOK, NEW t \in Threads, Wrap(t)
  PROVE  \E f \in Wrappers :
            /\ \/ cbFiber[t] = f /\ st[f] = "TERM"
               \/ st[f] = "NONE"
            /\ f \in Fibers /\ f # None /\ f \notin UserFibers
            /\ cur' \in [Threads -> Task]
            /\ cur'[t].fib = f /\ cur'[t].fn = cur[t].fn
            /\ \A u \in Threads : u # t => cur'[u] = cur[u]
            /\ cbFiber' = [cbFiber EXCEPT ![t] = f]
            /\ st' = [st EXCEPT ![f] = "INIT"]
            /\ saved' = [saved EXCEPT ![f] = TRUE]
            /\ job' = [job EXCEPT ![f] = cur[t].fn]
<1>1. PICK f \in Wrappers : ((cbFiber[t] = f /\ st[f] = "TERM") \/ st[f] = "NONE") /\ WrapOn(t, f)
  BY DEF Wrap, TypeOK
<1>2. f \in Fibers /\ f # None /\ f \notin UserFibers
  BY DistinctAssumption DEF Fibers
<1>3. cur[t] \in Task /\ cur \in [Threads -> Task]
  BY DEF TypeOK
<1> DEFINE r == [cur[t] EXCEPT !.fib = f]
<1>4. r \in Task /\ r.fib = f /\ r.fn = cur[t].fn
  BY <1>2, <1>3 DEF Task
<1>5. cur' = [cur EXCEPT ![t] = r]
  BY <1>1 DEF WrapOn
<1> HIDE DEF r
<1>6. cur' \in [Threads -> Task] /\ cur'[t].fib = f /\ cur'[t].fn = cur[t].fn
      /\ \A u \in Threads : u # t => cur'[u] = cur[u]
  BY <1>3, <1>4, <1>5
<1>7. /\ cbFiber' = [cbFiber EXCEPT ![t] = f]
      /\ st' = [st EXCEPT ![f] = "INIT"]
      /\ saved' = [saved EXCEPT ![f] = TRUE]
      /\ job' = [job EXCEPT ![f] = cur[t].fn]
  BY <1>1 DEF WrapOn
<1> QED
  BY <1>1, <1>2, <1>6, <1>7

LEMMA ShapeStep ==
  ASSUME TypeOK, ShapeInv, BornInv, LifeInv, [Next]_vars
  PROVE  ShapeInv'
<1>1. CASE PcSteps
  BY <1>1, PcStepsOnly, PcOnlyKeeps
<1>2. CASE WorkSteps
  <2>0. /\ pc \in [Threads -> {"new", "register", "fetch", "wrap", "resume", "exec",
                          "armed", "instop", "switch", "settle", "idle",
                          "block", "asleep", "check", "exited"}]
        /\ cur \in [Threads -> Task]
    BY DEF TypeOK
  <2>1. \A i \in DOMAIN tasks' : tasks'[i].fib = None <=> tasks'[i].fn # None
    BY <1>2, WorkItems DEF Sound
  <2>2. ASSUME NEW u \in Threads
        PROVE  /\ pc'[u] \in Busy => cur'[u].fib # None
               /\ pc'[u] \notin Busy => cur'[u].fib = None
               /\ pc'[u] = "wrap" => cur'[u].fn # None
               /\ pc'[u] \notin Busy \cup {"wrap"} => cur'[u].fn = None
    <3> USE DEF Busy
    <3>1. CASE ClientSchedule \/ ClientBatch \/ HolderWake \/ \E t \in Threads : BodySchedule(t)
      <4>1. UNCHANGED <<pc, cur>>
        BY <3>1 DEF ClientSchedule, ClientBatch, HolderWake, BodySchedule, loopVars
      <4> QED
        BY <4>1 DEF ShapeInv
    <3>2. ASSUME NEW t \in Threads, \/ Resume(t) \/ Switch(t) \/ BodyYieldReady(t)
                                    \/ BodyArm(t) \/ BodyYieldHold(t) \/ BodyEnd(t)
          PROVE  /\ pc'[u] \in Busy => cur'[u].fib # None
                 /\ pc'[u] \notin Busy => cur'[u].fib = None
                 /\ pc'[u] = "wrap" => cur'[u].fn # None
                 /\ pc'[u] \notin Busy \cup {"wrap"} => cur'[u].fn = None
      <4>1. UNCHANGED cur /\ pc[t] \in Busy /\ \E p \in Busy : pc' = [pc EXCEPT ![t] = p]
        BY <3>2 DEF Resume, Switch, BodyYieldReady, BodyArm, BodyYieldHold, BodyEnd, Running
      <4> QED
        BY <2>0, <4>1 DEF ShapeInv
    <3>3. ASSUME NEW t \in Threads, Settle(t)
          PROVE  /\ pc'[u] \in Busy => cur'[u].fib # None
                 /\ pc'[u] \notin Busy => cur'[u].fib = None
                 /\ pc'[u] = "wrap" => cur'[u].fn # None
                 /\ pc'[u] \notin Busy \cup {"wrap"} => cur'[u].fn = None
      <4>1. cur' = [cur EXCEPT ![t] = NoTask] /\ pc' = [pc EXCEPT ![t] = "fetch"]
        BY <3>3 DEF Settle
      <4>2. NoTask.fib = None /\ NoTask.fn = None
        BY DEF NoTask
      <4> QED
        BY <2>0, <4>1, <4>2 DEF ShapeInv
    <3>4. ASSUME NEW t \in Threads, Wrap(t)
          PROVE  /\ pc'[u] \in Busy => cur'[u].fib # None
                 /\ pc'[u] \notin Busy => cur'[u].fib = None
                 /\ pc'[u] = "wrap" => cur'[u].fn # None
                 /\ pc'[u] \notin Busy \cup {"wrap"} => cur'[u].fn = None
      <4>1. pc' = [pc EXCEPT ![t] = "resume"]
        BY <3>4 DEF Wrap
      <4> QED
        BY <2>0, <3>4, <4>1, WrapFacts DEF ShapeInv
    <3>5. ASSUME NEW t \in Threads, GetNextTask(t)
          PROVE  /\ pc'[u] \in Busy => cur'[u].fib # None
                 /\ pc'[u] \notin Busy => cur'[u].fib = None
                 /\ pc'[u] = "wrap" => cur'[u].fn # None
                 /\ pc'[u] \notin Busy \cup {"wrap"} => cur'[u].fn = None
      <4>1. PICK i \in DOMAIN tasks :
                /\ cur' = [cur EXCEPT ![t] = tasks[i]]
                /\ pc' = [pc EXCEPT ![t] = IF tasks[i].fib # None THEN "resume" ELSE "wrap"]
        BY <3>5 DEF GetNextTask, Candidates
      <4> QED
        BY <2>0, <4>1 DEF ShapeInv
    <3> QED
      BY <1>2, <3>1, <3>2, <3>3, <3>4, <3>5 DEF WorkSteps
  <2> QED
    BY <2>1, <2>2 DEF ShapeInv
<1> QED
  BY <1>1, <1>2, TwoSorts

LEMMA BornStep ==
  ASSUME TypeOK, ShapeInv, BornInv, LifeInv, [Next]_vars
  PROVE  BornInv'
<1>1. CASE PcSteps
  BY <1>1, PcStepsOnly, PcOnlyKeeps
<1>2. CASE WorkSteps
  <2>0. /\ cur \in [Threads -> Task] /\ job \in [Fibers -> Jobs \cup {None}]
    BY DEF TypeOK
  <2>1. \A i \in DOMAIN tasks' : tasks'[i].fib # None => job[tasks'[i].fib] \in Jobs
    BY <1>2, WorkItems DEF Sound
  <2>2. CASE ClientSchedule \/ ClientBatch \/ HolderWake \/ \E t \in Threads : BodySchedule(t)
    <3>1. UNCHANGED <<job, cur>> /\ held' \subseteq held
      BY <2>2 DEF ClientSchedule, ClientBatch, HolderWake, BodySchedule, loopVars, fiberVars
    <3> QED
      BY <2>1, <3>1 DEF BornInv
  <2>3. ASSUME NEW t \in Threads, \/ Resume(t) \/ Switch(t) \/ BodyYieldReady(t)
                                    \/ BodyArm(t) \/ BodyYieldHold(t) \/ BodyEnd(t)
        PROVE  BornInv'
    <3>1. UNCHANGED <<job, cur>> /\ held' \subseteq held \cup {cur[t].fib} /\ cur[t].fib # None
      BY <2>3
         DEF Resume, Switch, BodyYieldReady, BodyArm, BodyYieldHold, BodyEnd, Running, ShapeInv,
             Busy
    <3> QED
      BY <2>1, <3>1 DEF BornInv
  <2>4. ASSUME NEW t \in Threads, Settle(t) PROVE BornInv'
    <3>1. UNCHANGED <<job, held>> /\ cur' = [cur EXCEPT ![t] = NoTask]
      BY <2>4 DEF Settle, fiberVars
    <3>2. NoTask.fib = None
      BY DEF NoTask
    <3> QED
      BY <2>0, <2>1, <3>1, <3>2 DEF BornInv
  <2>5. ASSUME NEW t \in Threads, GetNextTask(t) PROVE BornInv'
    <3>1. PICK i \in DOMAIN tasks : cur' = [cur EXCEPT ![t] = tasks[i]]
      BY <2>5 DEF GetNextTask, Candidates
    <3>2. UNCHANGED <<job, held>>
      BY <2>5 DEF GetNextTask, fiberVars
    <3> QED
      BY <2>0, <2>1, <3>1, <3>2 DEF BornInv
  <2>6. ASSUME NEW t \in Threads, Wrap(t) PROVE BornInv'
    <3>1. UNCHANGED <<tasks, held>> /\ cur[t].fn \in Jobs
      <4>1. UNCHANGED <<tasks, held>>
        BY <2>6 DEF Wrap, queueVars
      <4>2. cur[t] \in Task /\ cur[t].fn # None
        BY <2>6 DEF Wrap, ShapeInv, TypeOK
      <4> QED
        BY <4>1, <4>2 DEF Task, Jobs
    <3>2. PICK f \in Wrappers :
            /\ f \in Fibers /\ f # None /\ f \notin UserFibers
            /\ cur'[t].fib = f
            /\ \A u \in Threads : u # t => cur'[u] = cur[u]
            /\ job' = [job EXCEPT ![f] = cur[t].fn]
      BY <2>6, WrapFacts
    <3>3. job'[f] \in Jobs /\ \A g \in Fibers : g # f => job'[g] = job[g]
      BY <2>0, <3>1, <3>2
    <3>4. \A g \in Fibers : job[g] \in Jobs => job'[g] \in Jobs
      BY <3>3, Zenon
    <3>5. held \subseteq Fibers /\ UserFibers \subseteq Fibers
          /\ (\A u \in Threads : cur[u].fib # None => cur[u].fib \in Fibers)
          /\ (\A i \in DOMAIN tasks : tasks[i].fib # None => tasks[i].fib \in Fibers)
      <4>1. \A i \in DOMAIN tasks : tasks[i] \in Task
        BY ElementOfSeq, LenProperties DEF TypeOK
      <4> QED
        BY <4>1 DEF TypeOK, Task, Fibers
    <3> QED
      BY <3>1, <3>2, <3>3, <3>4, <3>5 DEF BornInv
  <2> QED
    BY <1>2, <2>2, <2>3, <2>4, <2>5, <2>6 DEF WorkSteps
<1> QED
  BY <1>1, <1>2, TwoSorts

CoreInv == TypeOK /\ ShapeInv /\ BornInv /\ LifeInv /\ QueueInv

LEMMA CoreInit ==
  ASSUME Init
  PROVE  CoreInv
<1>1. TypeOK
  <2>0. tasks \in Seq(Task)
    BY DEF Init
  <2>1. /\ mutex \in Threads \cup {None}
        /\ stopping \in BOOLEAN /\ started \in BOOLEAN /\ thread_ids \subseteq Threads
        /\ pc \in [Threads -> {"new", "register", "fetch", "wrap", "resume", "exec",
                               "armed", "instop", "switch", "settle", "idle",
                               "block", "asleep", "check", "exited"}]
        /\ pend \in [Threads \cup {Client} -> {"no", "one", "all"}]
        /\ stopPc \in {"no", "lock", "notify", "join", "done"}
        /\ stopper \in {"nobody", "stop", "dtor", "caller"}
        /\ overtaken \in BOOLEAN
    BY DEF Init
  <2>2. /\ cur \in [Threads -> Task] /\ cbFiber \in [Threads -> Wrappers \cup {None}]
        /\ held \subseteq Fibers /\ late \subseteq Jobs
    BY NoTaskType DEF Init
  <2>3. /\ st \in [Fibers -> FiberStates] /\ saved \in [Fibers -> BOOLEAN]
        /\ job \in [Fibers -> Jobs \cup {None}]
        /\ pinOf \in [Jobs -> Pins \cup {None}]
    BY DEF Init, FiberStates, Jobs
  <2>4. /\ yields \in [Fibers -> 0..MaxYields] /\ holds \in [Fibers -> 0..MaxHolds]
        /\ done \in [Jobs -> Nat]
    BY ConstantsAssumption DEF Init
  <2> QED
    BY <2>0, <2>1, <2>2, <2>3, <2>4 DEF TypeOK
<1>2. DOMAIN tasks = {}
  BY DEF Init
<1>3. ShapeInv /\ BornInv /\ LifeInv /\ QueueInv
  BY <1>2 DEF Init, ShapeInv, BornInv, LifeInv, QueueInv, NoTask, Busy, Fibers
<1> QED
  BY <1>1, <1>3 DEF CoreInv

LEMMA CoreStep ==
  ASSUME CoreInv, [Next]_vars
  PROVE  CoreInv'
  BY TypeStep, ShapeStep, BornStep, LifeStep, QueueStep DEF CoreInv

\* Every variable keeps its type: run() never resumes, arms or ends a fiber it
\* does not have, and what it has always runs a job.
THEOREM TypeCorrect == Spec => [](TypeOK /\ ShapeInv /\ BornInv /\ LifeInv /\ QueueInv)
<1>1. Init => CoreInv
  BY CoreInit
<1>2. CoreInv /\ [Next]_vars => CoreInv'
  BY CoreStep
<1>3. CoreInv => TypeOK /\ ShapeInv /\ BornInv /\ LifeInv /\ QueueInv
  BY DEF CoreInv
<1> QED
  BY <1>1, <1>2, <1>3, PTL DEF Spec

-----------------------------------------------------------------------------
(* No lost wakeup.  q stands for pc and n for pend. *)

Runs(p, q) == {t \in Threads : p \in {AnyThread, t} /\ q[t] \notin {"new", "register", "exited"}}

Due(p, n) == \E a \in Threads \cup {Client} : n[a] = "all" \/ (n[a] = "one" /\ p = AnyThread)

\* A task with thread_id p has a thread that is awake, or a notification due.
Served(p, q, n) == Runs(p, q) # {} /\ (\A t \in Runs(p, q) : q[t] = "asleep") => Due(p, n)

LEMMA NoLostWakeupServed ==
  NoLostWakeup <=> \A i \in DOMAIN tasks : Served(tasks[i].pin, pc, pend)
  BY DEF NoLostWakeup, MayRun, Asleep, Served, Runs, Due

LEMMA NoLostWakeupServedNext ==
  NoLostWakeup' <=> \A i \in DOMAIN tasks' : Served(tasks'[i].pin, pc', pend')
  BY DEF NoLostWakeup, MayRun, Asleep, Served, Runs, Due

\* No thread falls asleep, and none that is awake leaves.
Eases(q, r) ==
    \A t \in Threads :
        /\ r[t] = "asleep" => q[t] = "asleep"
        /\ q[t] \notin {"new", "register", "exited", "asleep"} => r[t] \notin {"new", "register", "exited"}

LEMMA EasesServes ==
  ASSUME NEW p, NEW q, NEW r, NEW n, Eases(q, r), Served(p, q, n)
  PROVE  Served(p, r, n)
<1> SUFFICES ASSUME Runs(p, r) # {}, \A t \in Runs(p, r) : r[t] = "asleep"
             PROVE  Due(p, n)
  BY DEF Served
<1>1. Runs(p, q) # {}
  BY DEF Runs, Eases
<1>2. ASSUME NEW t \in Runs(p, q), q[t] # "asleep" PROVE FALSE
  BY <1>2 DEF Runs, Eases
<1> QED
  BY <1>1, <1>2 DEF Served

\* Whoever owed nothing can only add a notification.
LEMMA OwesMore ==
  ASSUME NEW n \in [Threads \cup {Client} -> {"no", "one", "all"}], NEW a \in Threads \cup {Client},
         n[a] = "no", NEW k, NEW p, NEW q, Served(p, q, n)
  PROVE  Served(p, q, [n EXCEPT ![a] = k])
<1>1. Due(p, n) => Due(p, [n EXCEPT ![a] = k])
  BY DEF Due
<1> QED
  BY <1>1 DEF Served

\* A push followed by a move that lets no thread sleep.
LEMMA PushServes ==
  ASSUME TypeOK, NoLostWakeup, NEW a \in Threads \cup {Client}, NEW x \in Task, Push(a, x),
         pend[a] = "no", Eases(pc, pc')
  PROVE  NoLostWakeup'
<1>1. /\ pend \in [Threads \cup {Client} -> {"no", "one", "all"}]
      /\ pend' = [pend EXCEPT ![a] = NotifyKind(x.pin)]
  BY DEF TypeOK, Push
<1>2. Served(x.pin, pc', pend')
  <2>1. Due(x.pin, pend')
    BY <1>1 DEF Due, NotifyKind
  <2> QED
    BY <2>1 DEF Served
<1>3. ASSUME NEW k \in DOMAIN tasks PROVE Served(tasks[k].pin, pc', pend')
  <2>1. Served(tasks[k].pin, pc, pend)
    BY NoLostWakeupServed
  <2>2. Served(tasks[k].pin, pc', pend)
    BY <2>1, EasesServes
  <2> QED
    BY <1>1, <2>2, OwesMore
<1>4. \A i \in DOMAIN tasks' : tasks'[i] = x \/ \E k \in DOMAIN tasks : tasks'[i] = tasks[k]
  BY PushItems
<1>5. \A i \in DOMAIN tasks' : Served(tasks'[i].pin, pc', pend')
  BY <1>2, <1>3, <1>4
<1> QED
  BY <1>5, NoLostWakeupServedNext

LEMMA QuietServes ==
  ASSUME NoLostWakeup, UNCHANGED pend, Eases(pc, pc'),
         \A i \in DOMAIN tasks' : \E k \in DOMAIN tasks : tasks'[i] = tasks[k]
  PROVE  NoLostWakeup'
<1>1. ASSUME NEW k \in DOMAIN tasks PROVE Served(tasks[k].pin, pc', pend')
  BY NoLostWakeupServed, EasesServes
<1>2. \A i \in DOMAIN tasks' : Served(tasks'[i].pin, pc', pend')
  BY <1>1
<1> QED
  BY <1>2, NoLostWakeupServedNext

LEMMA WakeupStep ==
  ASSUME CoreInv, NoLostWakeup, [Next]_vars
  PROVE  NoLostWakeup'
<1>0. /\ pc \in [Threads -> {"new", "register", "fetch", "wrap", "resume", "exec",
                          "armed", "instop", "switch", "settle", "idle",
                          "block", "asleep", "check", "exited"}]
      /\ pend \in [Threads \cup {Client} -> {"no", "one", "all"}]
      /\ TypeOK
  BY DEF TypeOK, CoreInv
<1>1. CASE WorkSteps
  <2>0. Eases(pc, pc')
    BY <1>0, <1>1, WorkMoves DEF Eases, Busy
  <2>1. CASE ClientSchedule
    <3>1. PICK j \in Jobs, p \in PinChoices : Push(Client, TaskOf(j, p))
      BY <2>1 DEF ClientSchedule
    <3>2. TaskOf(j, p) \in Task /\ pend[Client] = "no"
      BY <1>0, <2>1, PinsOK, TaskOfType DEF ClientSchedule
    <3> QED
      BY <1>0, <2>0, <3>1, <3>2, PushServes
  <2>2. ASSUME NEW t \in Threads, BodySchedule(t) PROVE NoLostWakeup'
    <3>1. PICK j \in Funcs, p \in PinChoices : Push(t, TaskOf(j, p))
      BY <2>2 DEF BodySchedule
    <3>2. TaskOf(j, p) \in Task /\ pend[t] = "no"
      BY <1>0, <2>2, PinsOK, TaskOfType DEF BodySchedule, Running, Jobs
    <3> QED
      BY <1>0, <2>0, <3>1, <3>2, PushServes
  <2>3. CASE HolderWake
    <3>1. PICK f \in held : Push(Client, [fib |-> f, fn |-> None, pin |-> AnyThread])
      BY <2>3 DEF HolderWake
    <3>2. [fib |-> f, fn |-> None, pin |-> AnyThread] \in Task /\ pend[Client] = "no"
      BY <1>0, <2>3, ThreadsAndPins DEF HolderWake, TypeOK, Task
    <3> QED
      BY <1>0, <2>0, <3>1, <3>2, PushServes
  <2>4. ASSUME NEW t \in Threads, Settle(t) PROVE NoLostWakeup'
    <3> DEFINE x == [fib |-> cur[t].fib, fn |-> None,
                     pin |-> IF cur[t].fn # None THEN AnyThread ELSE cur[t].pin]
    <3>1. cur[t] \in Task
      BY <1>0 DEF TypeOK
    <3>2. x \in Task
      BY <3>1, ThreadsAndPins DEF Task
    <3>3. pend[t] = "no"
      BY <2>4 DEF CoreInv, QueueInv, Settle
    <3>4. Push(t, x) \/ UNCHANGED queueVars
      BY <2>4 DEF Settle
    <3> HIDE DEF x
    <3>5. CASE Push(t, x)
      BY <1>0, <2>0, <3>2, <3>3, <3>5, PushServes
    <3>6. CASE UNCHANGED queueVars
      BY <2>0, <3>6, QuietServes DEF queueVars
    <3> QED
      BY <3>4, <3>5, <3>6
  <2>5. CASE ClientBatch
    <3>1. PICK j \in Jobs, k \in Jobs :
            tasks' = tasks \o <<TaskOf(j, AnyThread), TaskOf(k, AnyThread)>>
      BY <2>5 DEF ClientBatch
    <3> DEFINE x == TaskOf(j, AnyThread)
               y == TaskOf(k, AnyThread)
    <3>2. x \in Task /\ y \in Task /\ x.pin = AnyThread /\ y.pin = AnyThread
      BY ThreadsAndPins, TaskOfType DEF TaskOf
    <3> HIDE DEF x, y
    <3>3. tasks' = tasks \o <<x, y>> /\ tasks \in Seq(Task)
      BY <1>0, <3>1 DEF x, y, TypeOK
    <3>4. /\ Len(tasks) \in Nat /\ DOMAIN tasks = 1..Len(tasks) /\ DOMAIN tasks' = 1..(Len(tasks) + 2)
          /\ \A i \in 1..Len(tasks) : tasks'[i] = tasks[i]
          /\ tasks'[Len(tasks) + 1] = x /\ tasks'[Len(tasks) + 2] = y
      BY <3>2, <3>3, AppendTwo
    <3>5. ASSUME NEW i \in 1..(Len(tasks) + 2)
          PROVE i \in 1..Len(tasks) \/ i = Len(tasks) + 1 \/ i = Len(tasks) + 2
      BY <3>4
    <3>6. pend[Client] = "no" /\ pend' = [pend EXCEPT ![Client] = "one"]
      BY <2>5 DEF ClientBatch
    <3>7. Served(AnyThread, pc', pend')
      BY <1>0, <3>6 DEF Served, Due
    <3>8. ASSUME NEW i \in DOMAIN tasks PROVE Served(tasks[i].pin, pc', pend')
      <4>1. Served(tasks[i].pin, pc', pend)
        BY <2>0, NoLostWakeupServed, EasesServes
      <4> QED
        BY <1>0, <3>6, <4>1, OwesMore
    <3>9. ASSUME NEW i \in DOMAIN tasks' PROVE Served(tasks'[i].pin, pc', pend')
      BY <3>2, <3>4, <3>5, <3>7, <3>8, Zenon
    <3> QED
      BY <3>9, NoLostWakeupServedNext
  <2>6. ASSUME NEW t \in Threads, GetNextTask(t) PROVE NoLostWakeup'
    <3>1. PICK n \in DOMAIN tasks : tasks' = RemoveAt(tasks, n)
      BY <2>6 DEF GetNextTask, Candidates, Erase
    <3>2. /\ Len(tasks) \in Nat /\ DOMAIN tasks = 1..Len(tasks) /\ DOMAIN tasks' = 1..(Len(tasks) - 1)
          /\ \A k \in 1..(Len(tasks) - 1) : tasks'[k] = tasks[IF k < n THEN k ELSE k + 1]
      BY <1>0, <3>1, EraseQ DEF TypeOK
    <3>3. ASSUME NEW k \in 1..(Len(tasks) - 1) PROVE (IF k < n THEN k ELSE k + 1) \in DOMAIN tasks
      BY <3>2
    <3>4. \A i \in DOMAIN tasks' : \E k \in DOMAIN tasks : tasks'[i] = tasks[k]
      BY <3>2, <3>3, Zenon
    <3>5. UNCHANGED pend
      BY <2>6 DEF GetNextTask
    <3> QED
      BY <2>0, <3>4, <3>5, QuietServes
  <2>7. ASSUME NEW t \in Threads, \/ Wrap(t) \/ Resume(t) \/ Switch(t) \/ BodyYieldReady(t)
                                  \/ BodyArm(t) \/ BodyYieldHold(t) \/ BodyEnd(t)
        PROVE  NoLostWakeup'
    <3>1. UNCHANGED <<tasks, pend>>
      BY <2>7 DEF Wrap, Resume, Switch, BodyYieldReady, BodyArm, BodyYieldHold, BodyEnd, queueVars
    <3> QED
      BY <2>0, <3>1, QuietServes
  <2> QED
    BY <1>1, <2>1, <2>2, <2>3, <2>4, <2>5, <2>6, <2>7 DEF WorkSteps
<1>2. ASSUME NEW a \in Threads \cup {Client}, Notify(a) PROVE NoLostWakeup'
  <2>1. PICK W \in Wakeups(pend[a]) : pc' = [t \in Threads |-> IF t \in W THEN "idle" ELSE pc[t]]
    BY <1>2 DEF Notify
  <2>2. UNCHANGED tasks /\ pend' = [pend EXCEPT ![a] = "no"] /\ pend[a] # "no"
    BY <1>2 DEF Notify
  <2>3. CASE W = Asleep
    <3>1. \A t \in Threads : pc'[t] # "asleep"
      BY <2>1, <2>3 DEF Asleep
    <3>2. \A i \in DOMAIN tasks' : Served(tasks'[i].pin, pc', pend')
      BY <3>1 DEF Served, Runs
    <3> QED
      BY <3>2, NoLostWakeupServedNext
  <2>4. CASE W # Asleep
    <3>1. pend[a] = "one" /\ \E w \in Asleep : W = {w}
      BY <2>1, <2>4 DEF Wakeups
    <3>2. PICK w \in Asleep : W = {w}
      BY <3>1
    <3>3. w \in Threads /\ pc[w] = "asleep" /\ pc'[w] = "idle"
      BY <2>1, <3>2 DEF Asleep
    <3>4. Eases(pc, pc')
      BY <2>1, <3>2, <3>3 DEF Eases
    <3>5. ASSUME NEW i \in DOMAIN tasks PROVE Served(tasks[i].pin, pc', pend')
      <4>1. CASE tasks[i].pin = AnyThread
        BY <3>3, <4>1 DEF Served, Runs
      <4>2. CASE tasks[i].pin # AnyThread
        <5>1. Served(tasks[i].pin, pc', pend)
          BY <3>4, NoLostWakeupServed, EasesServes
        <5>2. Due(tasks[i].pin, pend) => Due(tasks[i].pin, pend')
          BY <1>0, <2>2, <3>1, <4>2 DEF Due
        <5> QED
          BY <5>1, <5>2 DEF Served
      <4> QED
        BY <4>1, <4>2
    <3>6. \A i \in DOMAIN tasks' : Served(tasks'[i].pin, pc', pend')
      BY <2>2, <3>5
    <3> QED
      BY <3>6, NoLostWakeupServedNext
  <2> QED
    BY <2>3, <2>4
<1>3. ASSUME NEW t \in Threads, Block(t) \/ (IdleCheck(t) /\ IdleLeaves) PROVE NoLostWakeup'
  <2>1. tasks' = <<>>
    BY <1>3 DEF Block, IdleCheck, IdleLeaves, CoreInv, QueueInv, queueVars
  <2> QED
    BY <2>1 DEF NoLostWakeup
<1>4. ASSUME UNCHANGED <<tasks, pend>>, Eases(pc, pc') PROVE NoLostWakeup'
  BY <1>4, QuietServes
<1>5. ASSUME NEW t \in Threads, \/ Register(t) \/ NoTaskFound(t) \/ IdleEnter(t)
                                \/ (IdleCheck(t) /\ ~IdleLeaves) \/ SpuriousWakeup(t) \/ BodyStop(t)
      PROVE  NoLostWakeup'
  <2>1. UNCHANGED <<tasks, pend>>
    BY <1>5 DEF Register, NoTaskFound, IdleEnter, IdleCheck, SpuriousWakeup, BodyStop, queueVars
  <2>2. Eases(pc, pc')
    BY <1>0, <1>5 DEF Register, NoTaskFound, IdleEnter, IdleCheck, SpuriousWakeup, BodyStop, Eases
  <2> QED
    BY <1>4, <2>1, <2>2
<1>6. CASE Start \/ StopBegin \/ Stop \/ UNCHANGED vars
  <2>1. UNCHANGED <<tasks, pend>>
    BY <1>6 DEF Start, StopBegin, Stop, StopLock, StopNotify, StopJoin, vars, queueVars
  <2>2. CASE Start
    BY <1>0, <1>4, <2>1, <2>2 DEF Start, Eases, CoreInv, LifeInv
  <2>3. CASE StopBegin \/ StopLock \/ UNCHANGED vars
    BY <1>0, <1>4, <2>1, <2>3 DEF StopBegin, StopLock, Eases, vars, loopVars
  <2>4. CASE StopNotify
    BY <1>0, <1>4, <2>1, <2>4 DEF StopNotify, Eases, Asleep
  <2>5. CASE StopJoin
    BY <1>0, <1>4, <2>1, <2>5 DEF StopJoin, Eases
  <2> QED
    BY <1>6, <2>2, <2>3, <2>4, <2>5 DEF Stop
<1> QED
  BY <1>1, <1>2, <1>3, <1>5, <1>6, TwoSorts DEF PcSteps

\* schedule() and idle() never leave a task in the list that every thread it may
\* run on sleeps through: a push holds mutex_, so it is seen by the predicate of
\* cv_.wait() or the notification finds the waiter; a pinned task notifies all.
THEOREM NoWakeupIsLost == Spec => []NoLostWakeup
<1>1. Init => CoreInv /\ NoLostWakeup
  <2>1. Init => DOMAIN tasks = {}
    BY DEF Init
  <2> QED
    BY <2>1, CoreInit DEF NoLostWakeup
<1>2. (CoreInv /\ NoLostWakeup) /\ [Next]_vars => (CoreInv /\ NoLostWakeup)'
  BY CoreStep, WakeupStep
<1> QED
  BY <1>1, <1>2, PTL DEF Spec

-----------------------------------------------------------------------------
(* Who has a fiber. *)

\* Where fibers are, apart from the shape of tasks.
WhereInv == AtInv /\ PlaceInv /\ FreshInv /\ OwnInv

\* A step of thread t that works on the fiber it has.
OnFiber(t, f) ==
    /\ cur[t].fib = f /\ f # None
    /\ UNCHANGED <<tasks, cur, cbFiber, pinOf>>
    /\ \A g \in Fibers : g # f => st'[g] = st[g] /\ saved'[g] = saved[g]
    /\ \A g \in Fibers : g # f => (g \in held' <=> g \in held)
    /\ \A u \in Threads : u # t => pc'[u] = pc[u]
    /\ st'[f] # "NONE"
    /\ Queued(f) => pc'[t] \in {"armed", "switch", "settle"} /\ f \notin held'

AtOf(t) ==
    LET f == cur[t].fib IN
    /\ pc[t] = "resume" => st[f] \in {"INIT", "HOLD", "READY"} /\ saved[f] /\ f \notin held
    /\ pc[t] \in {"exec", "instop"} => st[f] = "EXEC" /\ f \notin held
    /\ pc[t] = "armed" => st[f] = "EXEC" /\ (f \in held \/ Queued(f))
    /\ pc[t] \in {"switch", "settle"} =>
          /\ st[f] \in {"READY", "HOLD", "TERM", "EXCEPT"}
          /\ st[f] = "HOLD" <=> f \in held \/ Queued(f)
    /\ pc[t] = "settle" => saved[f]

LEMMA AtEach == AtInv <=> \A t \in Threads : AtOf(t)
  BY DEF AtInv, AtOf

\* A fiber has the place its state says, so a step on it disturbs nobody else.
LEMMA OnFiberKeeps ==
  ASSUME TypeOK, TypeOK', ShapeInv, WhereInv, NEW t \in Threads, NEW f \in Fibers, OnFiber(t, f), AtOf(t)'
  PROVE  WhereInv'
<1>0. /\ \A u \in Threads : cur[u].fib \in Fibers \cup {None}
      /\ \A i \in DOMAIN tasks : tasks[i].fib \in Fibers \cup {None}
      /\ held \subseteq Fibers /\ held' \subseteq Fibers
      /\ \A u \in Threads : cbFiber[u] \in Wrappers \cup {None}
      /\ Wrappers \subseteq Fibers /\ UserFibers \subseteq Fibers /\ None \notin Fibers
  <2>1. \A i \in DOMAIN tasks : tasks[i] \in Task
    BY ElementOfSeq, LenProperties DEF TypeOK
  <2>2. \A u \in Threads : cur[u] \in Task
    BY DEF TypeOK
  <2>3. /\ held \subseteq Fibers /\ held' \subseteq Fibers
        /\ \A u \in Threads : cbFiber[u] \in Wrappers \cup {None}
    BY DEF TypeOK
  <2> QED
    BY <2>1, <2>2, <2>3, DistinctAssumption DEF Task, Fibers
<1>1. AtInv'
  <2>1. ASSUME NEW u \in Threads, u # t PROVE AtOf(u)'
    <3>1. AtOf(u) /\ cur[u].fib # f
      BY <2>1, AtEach DEF WhereInv, PlaceInv, OnFiber
    <3>2. pc'[u] = pc[u] /\ cur' = cur
      BY <2>1 DEF OnFiber
    <3>3. CASE pc[u] \in Busy
      <4>1. cur[u].fib \in Fibers
        BY <1>0, <3>3 DEF ShapeInv
      <4> QED
        BY <3>1, <3>2, <4>1 DEF AtOf, OnFiber, Queued
    <3>4. CASE pc[u] \notin Busy
      BY <3>2, <3>4 DEF AtOf, Busy
    <3> QED
      BY <3>3, <3>4
  <2>2. \A u \in Threads : AtOf(u)'
    BY <2>1
  <2> QED
    BY <2>2 DEF AtInv, AtOf
<1>2. PlaceInv'
  <2>1. ASSUME NEW g, g # None, NEW i \in DOMAIN tasks, tasks[i].fib = g
        PROVE  g \notin held' /\ (Resumable(g) \/ Early(g))'
    <3>1. g \in Fibers /\ g \notin held /\ (Resumable(g) \/ Early(g))
      BY <1>0, <2>1 DEF WhereInv, PlaceInv
    <3>2. CASE g = f
      <4>1. Queued(f)
        BY <2>1, <3>2 DEF Queued
      <4>2. cur'[t].fib = g /\ pc'[t] \in {"armed", "switch", "settle"} /\ f \notin held'
        BY <3>2, <4>1 DEF OnFiber
      <4> QED
        BY <3>2, <4>2 DEF Early
    <3>3. CASE g # f
      <4>1. Resumable(g) => Resumable(g)'
        BY <3>1, <3>3 DEF Resumable, OnFiber
      <4>2. ASSUME NEW u \in Threads, cur[u].fib = g PROVE u # t /\ pc'[u] = pc[u] /\ cur'[u].fib = g
        BY <3>3, <4>2 DEF OnFiber
      <4>3. Early(g) => Early(g)'
        BY <4>2 DEF Early
      <4>4. g \notin held'
        BY <3>1, <3>3 DEF OnFiber
      <4> QED
        BY <3>1, <4>1, <4>3, <4>4
    <3> QED
      BY <3>2, <3>3
  <2>2. /\ \A i, k \in DOMAIN tasks : i # k /\ tasks[i].fib # None => tasks[i].fib # tasks[k].fib
        /\ \A u, v \in Threads : u # v /\ cur[u].fib # None => cur[u].fib # cur[v].fib
    BY DEF WhereInv, PlaceInv
  <2>3. \A g \in held' : (\A u \in Threads : cur[u].fib # g) => st'[g] = "HOLD" /\ saved'[g]
    BY <1>0 DEF WhereInv, PlaceInv, OnFiber
  <2>4. tasks' = tasks /\ cur' = cur
    BY DEF OnFiber
  <2> QED
    BY <2>1, <2>2, <2>3, <2>4 DEF PlaceInv, Resumable, Early
<1>3. FreshInv'
  <2>1. ASSUME NEW g \in Fibers, Nowhere(g) PROVE g # f /\ Nowhere(g)'
    BY <2>1 DEF Nowhere, OnFiber
  <2>2. ASSUME NEW g \in Wrappers, st'[g] = "NONE"
        PROVE  (Nowhere(g) /\ \A u \in Threads : cbFiber[u] # g)'
    <3>1. g # f /\ g \in Fibers /\ st[g] = "NONE"
      BY <1>0, <2>2 DEF OnFiber
    <3> QED
      BY <2>1, <3>1 DEF WhereInv, FreshInv, OnFiber
  <2>3. ASSUME NEW g \in UserFibers, pinOf'[g] = None
        PROVE  (Nowhere(g) /\ st[g] = "INIT" /\ saved[g])'
    BY <1>0, <2>1, <2>3 DEF WhereInv, FreshInv, OnFiber
  <2>4. ASSUME NEW g \in UserFibers PROVE st'[g] # "NONE"
    BY <1>0 DEF WhereInv, FreshInv, OnFiber
  <2> QED
    BY <2>2, <2>3, <2>4 DEF FreshInv
<1>4. OwnInv'
  <2> SUFFICES ASSUME NEW u \in Threads
               PROVE  /\ cbFiber[u] # None =>
                          /\ st'[cbFiber[u]] \in {"TERM", "EXCEPT"} \/ cur[u].fib = cbFiber[u]
                          /\ cbFiber[u] \in held' => cur[u].fib = cbFiber[u]
                          /\ Queued(cbFiber[u]) => cur[u].fib = cbFiber[u]
                          /\ \A v \in Threads : v # u => cur[v].fib # cbFiber[u] /\ cbFiber[v] # cbFiber[u]
                          /\ cur[u].fib = cbFiber[u] => cur[u].fn # None
                      /\ cur[u].fib # None /\ cur[u].fn # None => cbFiber[u] = cur[u].fib
    BY DEF OwnInv, OnFiber, Queued
  <2>1. CASE cbFiber[u] = f
    <3>1. u = t
      BY <2>1 DEF WhereInv, OwnInv, OnFiber
    <3> QED
      BY <2>1, <3>1 DEF WhereInv, OwnInv, OnFiber
  <2>2. CASE cbFiber[u] # f
    BY <1>0, <2>2 DEF WhereInv, OwnInv, OnFiber
  <2> QED
    BY <2>1, <2>2
<1> QED
  BY <1>1, <1>2, <1>3, <1>4 DEF WhereInv

LEMMA OnFiberSteps ==
  ASSUME TypeOK, TypeOK', ShapeInv, WhereInv, NEW t \in Threads,
         \/ Resume(t) \/ Switch(t) \/ BodyYieldReady(t) \/ BodyArm(t) \/ BodyYieldHold(t) \/ BodyEnd(t)
  PROVE  WhereInv'
<1> DEFINE f == cur[t].fib
<1>0. f \in Fibers /\ f # None
  BY DistinctAssumption
     DEF Resume, Switch, BodyYieldReady, BodyArm, BodyYieldHold, BodyEnd, Running, ShapeInv, Busy,
         TypeOK, Task
<1>1. /\ pc \in [Threads -> {"new", "register", "fetch", "wrap", "resume", "exec",
                          "armed", "instop", "switch", "settle", "idle",
                          "block", "asleep", "check", "exited"}]
      /\ st \in [Fibers -> FiberStates] /\ saved \in [Fibers -> BOOLEAN]
      /\ AtOf(t)
  BY AtEach DEF TypeOK, WhereInv
\* A queued fiber is on a thread only on its way to its holder.
<1>2. Queued(f) => f \notin held /\ pc[t] \in {"armed", "switch", "settle"}
  <2>1. ASSUME NEW i \in DOMAIN tasks, tasks[i].fib = f
        PROVE  f \notin held /\ pc[t] \in {"armed", "switch", "settle"}
    <3>1. f \notin held /\ (Resumable(f) \/ Early(f))
      BY <1>0, <2>1 DEF WhereInv, PlaceInv
    <3>2. \A u \in Threads : cur[u].fib = f => u = t
      BY <1>0 DEF WhereInv, PlaceInv
    <3> QED
      BY <3>1, <3>2 DEF Resumable, Early
  <2> QED
    BY <2>1 DEF Queued
<1>3. OnFiber(t, f) /\ AtOf(t)'
  <2>1. CASE Resume(t)
    BY <1>0, <1>1, <1>2, <2>1 DEF Resume, OnFiber, AtOf, Queued, histVars, queueVars
  <2>2. CASE Switch(t)
    BY <1>0, <1>1, <1>2, <2>2 DEF Switch, OnFiber, AtOf, Queued, histVars, queueVars
  <2>3. CASE BodyYieldReady(t)
    BY <1>0, <1>1, <1>2, <2>3 DEF BodyYieldReady, Running, OnFiber, AtOf, Queued, histVars, queueVars
  <2>4. CASE BodyArm(t)
    BY <1>0, <1>1, <1>2, <2>4 DEF BodyArm, Running, OnFiber, AtOf, Queued, histVars, queueVars
  <2>5. CASE BodyYieldHold(t)
    BY <1>0, <1>1, <1>2, <2>5 DEF BodyYieldHold, OnFiber, AtOf, Queued, histVars, queueVars
  <2>6. CASE BodyEnd(t)
    <3>1. PICK s \in {"TERM", "EXCEPT"} : st' = [st EXCEPT ![f] = s]
      BY <2>6 DEF BodyEnd
    <3> QED
      BY <1>0, <1>1, <1>2, <2>6, <3>1 DEF BodyEnd, Running, OnFiber, AtOf, Queued, histVars, queueVars
  <2> QED
    BY <2>1, <2>2, <2>3, <2>4, <2>5, <2>6
<1> HIDE DEF f
<1> QED
  BY <1>0, <1>3, OnFiberKeeps

\* A step that only adds tasks, each a function or a fiber given to schedule()
\* for the first time.
IsTask(x, j) == \/ x.fib = j /\ x.fn = None /\ j \in UserFibers
                \/ x.fib = None /\ x.fn = j /\ j \in Funcs

Adds ==
    /\ UNCHANGED <<pc, cur, cbFiber, st, saved, held, job, done>>
    /\ DOMAIN tasks \subseteq DOMAIN tasks'
    /\ \A i \in DOMAIN tasks : tasks'[i] = tasks[i]
    /\ \A i \in DOMAIN tasks' \ DOMAIN tasks : \E j \in Jobs :
          /\ IsTask(tasks'[i], j) /\ pinOf[j] = None /\ pinOf'[j] # None
          /\ \A k \in DOMAIN tasks' \ DOMAIN tasks : k # i => tasks'[k].fib # j /\ tasks'[k].fn # j
    /\ \A j \in Jobs : pinOf'[j] = None => pinOf[j] = None
    /\ \A j \in Jobs : pinOf[j] = None /\ pinOf'[j] # None =>
          \E i \in DOMAIN tasks' \ DOMAIN tasks : IsTask(tasks'[i], j)

LEMMA TaskOfIs ==
  ASSUME NEW j \in Jobs, NEW p
  PROVE  IsTask(TaskOf(j, p), j)
  BY DEF TaskOf, IsTask, Jobs

LEMMA AddsKeeps ==
  ASSUME ShapeInv, WhereInv, Adds
  PROVE  WhereInv'
<1>0. /\ UserFibers \cap Wrappers = {} /\ None \notin UserFibers
  BY DistinctAssumption DEF Fibers
<1>2. \A f \in UserFibers : pinOf[f] = None => Nowhere(f) /\ st[f] = "INIT" /\ saved[f]
  BY DEF WhereInv, FreshInv
<1>3. ASSUME NEW i \in DOMAIN tasks', i \notin DOMAIN tasks, tasks'[i].fib # None
      PROVE  /\ tasks'[i].fib \in UserFibers /\ pinOf'[tasks'[i].fib] # None
             /\ Nowhere(tasks'[i].fib) /\ st[tasks'[i].fib] = "INIT" /\ saved[tasks'[i].fib]
  BY <1>2, <1>3 DEF Adds, IsTask
<1>1. AtInv'
  <2>1. ASSUME NEW t \in Threads, pc[t] \in Busy
        PROVE  (\E i \in DOMAIN tasks' : tasks'[i].fib = cur[t].fib) <=> Queued(cur[t].fib)
    <3>1. cur[t].fib # None
      BY <2>1 DEF ShapeInv
    <3>2. \A i \in DOMAIN tasks' : tasks'[i].fib = cur[t].fib => i \in DOMAIN tasks
      BY <1>3, <3>1 DEF Nowhere
    <3> QED
      BY <3>2 DEF Adds, Queued
  <2> QED
    BY <2>1 DEF WhereInv, AtInv, Adds, Queued, Busy
<1>4. PlaceInv'
  <2>1. ASSUME NEW i \in DOMAIN tasks', tasks'[i].fib # None
        PROVE  tasks'[i].fib \notin held /\ (Resumable(tasks'[i].fib) \/ Early(tasks'[i].fib))
    <3>1. CASE i \in DOMAIN tasks
      BY <2>1, <3>1 DEF WhereInv, PlaceInv, Adds
    <3>2. CASE i \notin DOMAIN tasks
      BY <1>3, <2>1, <3>2 DEF Nowhere, Resumable
    <3> QED
      BY <3>1, <3>2
  <2>2. ASSUME NEW i \in DOMAIN tasks', NEW k \in DOMAIN tasks', i # k, tasks'[i].fib # None
        PROVE  tasks'[i].fib # tasks'[k].fib
    <3>1. CASE i \in DOMAIN tasks /\ k \in DOMAIN tasks
      BY <2>2, <3>1 DEF WhereInv, PlaceInv, Adds
    <3>2. CASE i \notin DOMAIN tasks /\ k \notin DOMAIN tasks
      BY <2>2, <3>2 DEF Adds, IsTask
    <3>3. CASE i \notin DOMAIN tasks /\ k \in DOMAIN tasks
      BY <1>3, <2>2, <3>3 DEF Nowhere, Adds
    <3>4. CASE i \in DOMAIN tasks /\ k \notin DOMAIN tasks
      BY <1>3, <2>2, <3>4 DEF Nowhere, Adds
    <3> QED
      BY <3>1, <3>2, <3>3, <3>4
  <2> QED
    BY <2>1, <2>2 DEF WhereInv, PlaceInv, Resumable, Early, Adds
<1>5. FreshInv'
  <2>1. ASSUME NEW f, Nowhere(f), \A i \in DOMAIN tasks' \ DOMAIN tasks : tasks'[i].fib # f
        PROVE  Nowhere(f)'
    BY <2>1 DEF Nowhere, Adds
  <2>2. ASSUME NEW f \in Wrappers, st[f] = "NONE" PROVE Nowhere(f)' /\ \A t \in Threads : cbFiber[t] # f
    <3>1. Nowhere(f) /\ \A t \in Threads : cbFiber[t] # f
      BY <2>2 DEF WhereInv, FreshInv
    <3>2. f # None
      BY DistinctAssumption DEF Fibers
    <3>3. \A i \in DOMAIN tasks' \ DOMAIN tasks : tasks'[i].fib # f
      BY <1>0, <1>3, <3>2
    <3> QED
      BY <2>1, <3>1, <3>3
  <2>3. ASSUME NEW f \in UserFibers, pinOf'[f] = None
        PROVE  Nowhere(f)' /\ st[f] = "INIT" /\ saved[f]
    <3>1. Nowhere(f) /\ st[f] = "INIT" /\ saved[f]
      BY <1>2, <2>3 DEF Adds, Jobs
    <3>2. \A i \in DOMAIN tasks' \ DOMAIN tasks : tasks'[i].fib # f
      BY <1>0, <1>3, <2>3
    <3> QED
      BY <2>1, <3>1, <3>2
  <2> QED
    BY <2>2, <2>3 DEF WhereInv, FreshInv, Adds
<1>6. OwnInv'
  <2>1. ASSUME NEW t \in Threads, cbFiber[t] # None, NEW i \in DOMAIN tasks',
               tasks'[i].fib = cbFiber[t]
        PROVE  cur[t].fib = cbFiber[t]
    <3>1. CASE i \in DOMAIN tasks
      BY <2>1, <3>1 DEF WhereInv, OwnInv, Queued, Adds
    <3>2. CASE i \notin DOMAIN tasks
      <4>1. tasks'[i].fib # None => st[tasks'[i].fib] = "INIT" /\ \A u \in Threads : cur[u].fib # tasks'[i].fib
        BY <1>3, <3>2 DEF Nowhere
      <4> QED
        BY <2>1, <4>1 DEF WhereInv, OwnInv
    <3> QED
      BY <3>1, <3>2
  <2> QED
    BY <2>1 DEF WhereInv, OwnInv, Queued, Adds
<1> QED
  BY <1>1, <1>4, <1>5, <1>6 DEF WhereInv

\* schedule() of one job that was not scheduled before.
LEMMA PushNew ==
  ASSUME TypeOK, NEW a, NEW j \in Jobs, NEW p \in Pins, Push(a, TaskOf(j, p)),
         pinOf[j] = None, pinOf' = [pinOf EXCEPT ![j] = p],
         UNCHANGED <<pc, cur, cbFiber, st, saved, held, job, done>>
  PROVE  Adds
<1> DEFINE x == TaskOf(j, p)
<1>1. x \in Task /\ IsTask(x, j)
  BY TaskOfType, TaskOfIs
<1>2. p # None /\ pinOf \in [Jobs -> Pins \cup {None}]
  BY DistinctAssumption DEF Pins, TypeOK
<1> HIDE DEF x
<1>3. tasks \in Seq(Task) /\ tasks' = Append(tasks, x)
  BY DEF TypeOK, Push, x
<1>4. /\ Len(tasks) \in Nat /\ DOMAIN tasks = 1..Len(tasks) /\ DOMAIN tasks' = 1..(Len(tasks) + 1)
      /\ \A i \in 1..Len(tasks) : tasks'[i] = tasks[i]
      /\ tasks'[Len(tasks) + 1] = x
  BY <1>1, <1>3, AppendQ
<1>5. /\ DOMAIN tasks \subseteq DOMAIN tasks'
      /\ \A i \in DOMAIN tasks' \ DOMAIN tasks : i = Len(tasks) + 1
      /\ Len(tasks) + 1 \in DOMAIN tasks' \ DOMAIN tasks
  BY <1>4
<1>6. \A k \in Jobs : k # j => pinOf'[k] = pinOf[k]
  BY <1>2
<1>7. pinOf'[j] # None
  BY <1>2
<1>8. \A i \in DOMAIN tasks : tasks'[i] = tasks[i]
  BY <1>4
<1>9. \A i \in DOMAIN tasks' \ DOMAIN tasks : \E k \in Jobs :
          /\ IsTask(tasks'[i], k) /\ pinOf[k] = None /\ pinOf'[k] # None
          /\ \A m \in DOMAIN tasks' \ DOMAIN tasks : m # i => tasks'[m].fib # k /\ tasks'[m].fn # k
  BY <1>1, <1>4, <1>5, <1>7, Zenon
<1>10. \A k \in Jobs : pinOf[k] = None /\ pinOf'[k] # None =>
          \E i \in DOMAIN tasks' \ DOMAIN tasks : IsTask(tasks'[i], k)
  BY <1>1, <1>4, <1>5, <1>6, Zenon
<1>11. \A k \in Jobs : pinOf'[k] = None => pinOf[k] = None
  BY <1>6, <1>7, Zenon
<1> QED
  BY <1>5, <1>8, <1>9, <1>10, <1>11 DEF Adds

LEMMA BatchNew ==
  ASSUME TypeOK, ClientBatch
  PROVE  Adds
<1>1. PICK j \in Jobs, k \in Jobs :
          /\ j # k /\ pinOf[j] = None /\ pinOf[k] = None
          /\ tasks' = tasks \o <<TaskOf(j, AnyThread), TaskOf(k, AnyThread)>>
          /\ pinOf' = [pinOf EXCEPT ![j] = AnyThread, ![k] = AnyThread]
  BY DEF ClientBatch
<1> DEFINE x == TaskOf(j, AnyThread)
           y == TaskOf(k, AnyThread)
<1>2. x \in Task /\ y \in Task /\ IsTask(x, j) /\ IsTask(y, k)
  BY ThreadsAndPins, TaskOfType, TaskOfIs
<1>3. /\ AnyThread # None /\ pinOf \in [Jobs -> Pins \cup {None}]
      /\ None \notin Jobs
  BY DistinctAssumption DEF TypeOK
<1> HIDE DEF x, y
<1>4. tasks' = tasks \o <<x, y>> /\ tasks \in Seq(Task)
  BY <1>1 DEF x, y, TypeOK
<1>5. /\ Len(tasks) \in Nat /\ DOMAIN tasks = 1..Len(tasks) /\ DOMAIN tasks' = 1..(Len(tasks) + 2)
      /\ \A i \in 1..Len(tasks) : tasks'[i] = tasks[i]
      /\ tasks'[Len(tasks) + 1] = x /\ tasks'[Len(tasks) + 2] = y
  BY <1>2, <1>4, AppendTwo
<1>6. /\ DOMAIN tasks \subseteq DOMAIN tasks'
      /\ \A i \in DOMAIN tasks' \ DOMAIN tasks : i = Len(tasks) + 1 \/ i = Len(tasks) + 2
      /\ Len(tasks) + 1 \in DOMAIN tasks' \ DOMAIN tasks
      /\ Len(tasks) + 2 \in DOMAIN tasks' \ DOMAIN tasks
  BY <1>5
<1>7. /\ pinOf'[j] # None /\ pinOf'[k] # None
      /\ \A m \in Jobs : m # j /\ m # k => pinOf'[m] = pinOf[m]
  BY <1>1, <1>3
<1>8. UNCHANGED <<pc, cur, cbFiber, st, saved, held, job, done>>
  BY DEF ClientBatch, loopVars, fiberVars
<1>9. x.fib # k /\ x.fn # k /\ y.fib # j /\ y.fn # j
  BY <1>1, <1>2, <1>3 DEF IsTask
<1>10. ASSUME NEW i \in DOMAIN tasks' \ DOMAIN tasks
       PROVE  \E n \in Jobs :
                 /\ IsTask(tasks'[i], n) /\ pinOf[n] = None /\ pinOf'[n] # None
                 /\ \A m \in DOMAIN tasks' \ DOMAIN tasks : m # i => tasks'[m].fib # n /\ tasks'[m].fn # n
  <2>1. CASE i = Len(tasks) + 1
    <3>1. \A m \in DOMAIN tasks' \ DOMAIN tasks : m # i => tasks'[m] = y
      BY <1>5, <1>6, <2>1
    <3>2. tasks'[i] = x
      BY <1>5, <2>1
    <3> QED
      BY <1>1, <1>2, <1>7, <1>9, <3>1, <3>2, Zenon
  <2>2. CASE i = Len(tasks) + 2
    <3>1. \A m \in DOMAIN tasks' \ DOMAIN tasks : m # i => tasks'[m] = x
      BY <1>5, <1>6, <2>2
    <3>2. tasks'[i] = y
      BY <1>5, <2>2
    <3> QED
      BY <1>1, <1>2, <1>7, <1>9, <3>1, <3>2, Zenon
  <2> QED
    BY <1>6, <2>1, <2>2
<1>11. \A m \in Jobs : pinOf[m] = None /\ pinOf'[m] # None =>
          \E i \in DOMAIN tasks' \ DOMAIN tasks : IsTask(tasks'[i], m)
  BY <1>2, <1>5, <1>6, <1>7, Zenon
<1>12. \A m \in Jobs : pinOf'[m] = None => pinOf[m] = None
  BY <1>7, Zenon
<1>13. \A i \in DOMAIN tasks : tasks'[i] = tasks[i]
  BY <1>5
<1> QED
  BY <1>6, <1>8, <1>10, <1>11, <1>12, <1>13 DEF Adds

\* The steps that give a new job to schedule().
LEMMA NewJobs ==
  ASSUME TypeOK, ClientSchedule \/ ClientBatch \/ \E t \in Threads : BodySchedule(t)
  PROVE  Adds
<1>1. CASE ClientSchedule
  <2>1. PICK j \in Jobs, p \in PinChoices : pinOf[j] = None /\ Push(Client, TaskOf(j, p)) /\ Record(j, p, stopping)
    BY <1>1 DEF ClientSchedule
  <2>2. UNCHANGED <<pc, cur, cbFiber, st, saved, held, job, done>>
    BY <1>1, <2>1 DEF ClientSchedule, loopVars, fiberVars, Record
  <2>3. p \in Pins /\ pinOf' = [pinOf EXCEPT ![j] = p]
    BY <2>1, PinsOK DEF Record
  <2> QED
    BY <2>1, <2>2, <2>3, PushNew
<1>2. ASSUME NEW t \in Threads, BodySchedule(t) PROVE Adds
  <2>1. PICK j \in Funcs, p \in PinChoices : pinOf[j] = None /\ Push(t, TaskOf(j, p)) /\ Record(j, p, FALSE)
    BY <1>2 DEF BodySchedule
  <2>2. UNCHANGED <<pc, cur, cbFiber, st, saved, held, job, done>>
    BY <1>2, <2>1 DEF BodySchedule, loopVars, fiberVars, Record
  <2>3. j \in Jobs /\ p \in Pins /\ pinOf' = [pinOf EXCEPT ![j] = p]
    BY <2>1, PinsOK DEF Record, Jobs
  <2> QED
    BY <2>1, <2>2, <2>3, PushNew
<1> QED
  BY <1>1, <1>2, BatchNew

LEMMA WakeKeeps ==
  ASSUME TypeOK, ShapeInv, WhereInv, HolderWake
  PROVE  WhereInv'
<1>1. PICK f \in held : /\ Push(Client, [fib |-> f, fn |-> None, pin |-> AnyThread])
                        /\ held' = held \ {f}
  BY DEF HolderWake
<1> DEFINE x == [fib |-> f, fn |-> None, pin |-> AnyThread]
<1>2. x \in Task /\ x.fib = f
  BY ThreadsAndPins DEF TypeOK, Task
<1> HIDE DEF x
<1>3. tasks \in Seq(Task) /\ tasks' = Append(tasks, x)
  BY <1>1 DEF TypeOK, Push, x
<1>4. /\ Len(tasks) \in Nat /\ DOMAIN tasks = 1..Len(tasks) /\ DOMAIN tasks' = 1..(Len(tasks) + 1)
      /\ \A i \in 1..Len(tasks) : tasks'[i] = tasks[i]
      /\ tasks'[Len(tasks) + 1] = x
  BY <1>2, <1>3, AppendQ
<1>5. /\ DOMAIN tasks \subseteq DOMAIN tasks' /\ Len(tasks) + 1 \notin DOMAIN tasks
      /\ \A i \in DOMAIN tasks : tasks'[i] = tasks[i]
      /\ \A i \in DOMAIN tasks' : i \in DOMAIN tasks \/ (i = Len(tasks) + 1 /\ tasks'[i].fib = f)
  BY <1>2, <1>4
<1>6. UNCHANGED <<pc, cur, cbFiber, st, saved, pinOf>>
  BY DEF HolderWake, loopVars
<1>8. \A i \in DOMAIN tasks : tasks[i].fib = f => f = None
  BY DEF WhereInv, PlaceInv
<1>9. f # None /\ f \in Fibers
  BY DistinctAssumption DEF TypeOK
<1>7. Resumable(f) \/ Early(f)
  <2>1. CASE \A t \in Threads : cur[t].fib # f
    BY <2>1 DEF WhereInv, PlaceInv, Resumable
  <2>2. ASSUME NEW t \in Threads, cur[t].fib = f PROVE Early(f)
    <3>1. pc[t] \in {"armed", "switch", "settle"}
      BY <1>9, <2>2 DEF WhereInv, AtInv, ShapeInv, Busy
    <3> QED
      BY <2>2, <3>1 DEF Early
  <2> QED
    BY <2>1, <2>2
<1>10. \A t \in Threads : cbFiber[t] = f => cur[t].fib = f
  BY <1>9 DEF WhereInv, OwnInv
<1>15. \A g : (\E i \in DOMAIN tasks' : tasks'[i].fib = g) <=> Queued(g) \/ g = f
  <2>1. Len(tasks) + 1 \in DOMAIN tasks' /\ tasks'[Len(tasks) + 1].fib = f
    BY <1>2, <1>4
  <2> QED
    BY <1>5, <2>1 DEF Queued
<1>11. AtInv'
  <2>1. ASSUME NEW t \in Threads PROVE AtOf(t)'
    <3>1. AtOf(t)
      BY AtEach DEF WhereInv
    <3>2. (\E i \in DOMAIN tasks' : tasks'[i].fib = cur[t].fib) <=> Queued(cur[t].fib) \/ cur[t].fib = f
      BY <1>15
    <3> QED
      BY <1>1, <1>6, <3>1, <3>2 DEF AtOf, Queued
  <2> QED
    BY <2>1 DEF AtInv, AtOf
<1>12. PlaceInv'
  <2>1. ASSUME NEW i \in DOMAIN tasks', tasks'[i].fib # None
        PROVE  tasks'[i].fib \notin held' /\ (Resumable(tasks'[i].fib) \/ Early(tasks'[i].fib))
    <3>1. CASE i \in DOMAIN tasks
      BY <1>1, <1>5, <2>1, <3>1 DEF WhereInv, PlaceInv
    <3>2. CASE i \notin DOMAIN tasks
      BY <1>1, <1>5, <1>7, <3>2
    <3> QED
      BY <3>1, <3>2
  <2>2. ASSUME NEW i \in DOMAIN tasks', NEW k \in DOMAIN tasks', i # k, tasks'[i].fib # None
        PROVE  tasks'[i].fib # tasks'[k].fib
    <3>1. CASE i \in DOMAIN tasks /\ k \in DOMAIN tasks
      BY <1>5, <2>2, <3>1 DEF WhereInv, PlaceInv
    <3>2. CASE i \notin DOMAIN tasks \/ k \notin DOMAIN tasks
      BY <1>5, <1>8, <1>9, <2>2, <3>2
    <3> QED
      BY <3>1, <3>2
  <2> QED
    BY <1>1, <1>6, <2>1, <2>2 DEF WhereInv, PlaceInv, Resumable, Early
<1>13. FreshInv'
  <2>1. ASSUME NEW g, g # f, Nowhere(g) PROVE Nowhere(g)'
    BY <1>1, <1>5, <1>6, <2>1 DEF Nowhere
  <2>2. ~Nowhere(f)
    BY DEF Nowhere
  <2> QED
    BY <1>6, <2>1, <2>2 DEF WhereInv, FreshInv
<1>14. OwnInv'
  <2>1. ASSUME NEW t \in Threads, cbFiber[t] # None, \E i \in DOMAIN tasks' : tasks'[i].fib = cbFiber[t]
        PROVE  cur[t].fib = cbFiber[t]
    BY <1>10, <1>15, <2>1 DEF WhereInv, OwnInv
  <2> QED
    BY <1>1, <1>6, <2>1 DEF WhereInv, OwnInv, Queued
<1> QED
  BY <1>11, <1>12, <1>13, <1>14 DEF WhereInv

LEMMA SettleKeeps ==
  ASSUME TypeOK, ShapeInv, WhereInv, NEW t \in Threads, Settle(t)
  PROVE  WhereInv'
<1> DEFINE f == cur[t].fib
           x == [fib |-> f, fn |-> None, pin |-> IF cur[t].fn # None THEN AnyThread ELSE cur[t].pin]
<1>1. cur[t] \in Task /\ pc[t] = "settle" /\ f # None
  BY DEF TypeOK, Settle, ShapeInv, Busy
<1>2. x \in Task /\ x.fib = f /\ f \in Fibers
  BY <1>1, ThreadsAndPins DEF Task
<1>3. /\ st[f] \in {"READY", "HOLD", "TERM", "EXCEPT"} /\ saved[f]
      /\ st[f] = "HOLD" <=> f \in held \/ Queued(f)
  BY <1>1 DEF WhereInv, AtInv
<1>4. \/ st[f] = "READY" /\ tasks' = Append(tasks, x)
      \/ st[f] # "READY" /\ tasks' = tasks
  BY DEF Settle, QueuedAgain, Push, queueVars
<1>5. /\ UNCHANGED <<st, saved, held, pinOf>>
      /\ cur' = [cur EXCEPT ![t] = NoTask] /\ pc' = [pc EXCEPT ![t] = "fetch"]
      /\ cbFiber' = IF cur[t].fn # None /\ st[f] \in {"READY", "HOLD"} THEN [cbFiber EXCEPT ![t] = None] ELSE cbFiber
  BY DEF Settle, WrapperGivenAway, fiberVars, histVars
<1> HIDE DEF x, f
<1>6. /\ pc'[t] = "fetch" /\ cur'[t].fib = None /\ cur'[t].fn = None
      /\ \A u \in Threads : u # t => pc'[u] = pc[u] /\ cur'[u] = cur[u] /\ cbFiber'[u] = cbFiber[u]
      /\ cbFiber'[t] = IF cur[t].fn # None /\ st[f] \in {"READY", "HOLD"} THEN None ELSE cbFiber[t]
  <2>1. NoTask.fib = None /\ NoTask.fn = None
    BY DEF NoTask
  <2> QED
    BY <1>5, <2>1 DEF TypeOK
<1>7. /\ DOMAIN tasks \subseteq DOMAIN tasks'
      /\ \A i \in DOMAIN tasks : tasks'[i] = tasks[i]
      /\ \A i \in DOMAIN tasks' \ DOMAIN tasks : tasks'[i].fib = f /\ st[f] = "READY"
      /\ \A i, k \in DOMAIN tasks' \ DOMAIN tasks : i = k
  <2>1. CASE tasks' = tasks
    BY <2>1
  <2>2. CASE st[f] = "READY" /\ tasks' = Append(tasks, x)
    <3>1. /\ Len(tasks) \in Nat /\ DOMAIN tasks = 1..Len(tasks) /\ DOMAIN tasks' = 1..(Len(tasks) + 1)
          /\ \A i \in 1..Len(tasks) : tasks'[i] = tasks[i]
          /\ tasks'[Len(tasks) + 1] = x
      BY <1>2, <2>2, AppendQ DEF TypeOK
    <3>2. \A i \in DOMAIN tasks' \ DOMAIN tasks : i = Len(tasks) + 1
      BY <3>1
    <3>3. DOMAIN tasks \subseteq DOMAIN tasks'
      BY <3>1
    <3> QED
      BY <1>2, <2>2, <3>1, <3>2, <3>3
  <2> QED
    BY <1>4, <2>1, <2>2
<1>8. /\ \A u \in Threads : u # t => cur[u].fib # f
      /\ \A u \in Threads : u # t => cbFiber[u] # f
      /\ cbFiber[t] = f <=> cur[t].fn # None
  BY <1>1 DEF WhereInv, PlaceInv, OwnInv, f
\* Its holder may have queued it, but then run() does not queue it again.
<1>13. /\ st[f] # "HOLD" => \A i \in DOMAIN tasks : tasks[i].fib # f
       /\ \A i \in DOMAIN tasks : tasks[i].fib = f => f \notin held
  BY <1>1, <1>3 DEF WhereInv, PlaceInv, Queued
<1>14. \A g : g # f => ((\E i \in DOMAIN tasks' : tasks'[i].fib = g) <=> Queued(g))
  BY <1>7 DEF Queued
<1>9. AtInv'
  <2>1. ASSUME NEW u \in Threads PROVE AtOf(u)'
    <3>1. AtOf(u)
      BY AtEach DEF WhereInv
    <3>2. u # t => ((\E i \in DOMAIN tasks' : tasks'[i].fib = cur[u].fib) <=> Queued(cur[u].fib))
      BY <1>8, <1>14
    <3> QED
      BY <1>5, <1>6, <3>1, <3>2 DEF AtOf, Queued
  <2> QED
    BY <2>1 DEF AtInv, AtOf
<1>10. PlaceInv'
  <2>1. ASSUME NEW g, g # None, NEW i \in DOMAIN tasks', tasks'[i].fib = g
        PROVE  g \notin held /\ (Resumable(g) \/ Early(g))'
    <3>1. CASE g = f
      <4>1. st[f] \in {"HOLD", "READY"} /\ f \notin held
        BY <1>3, <1>7, <1>13, <2>1, <3>1
      <4> QED
        BY <1>1, <1>3, <1>5, <1>6, <1>8, <3>1, <4>1 DEF Resumable
    <3>2. CASE g # f
      <4>1. i \in DOMAIN tasks /\ tasks'[i] = tasks[i]
        BY <1>7, <2>1, <3>2
      <4>2. g \notin held /\ (Resumable(g) \/ Early(g))
        BY <2>1, <4>1 DEF WhereInv, PlaceInv
      <4>3. ASSUME NEW u \in Threads, cur[u].fib = g
            PROVE  u # t /\ pc'[u] = pc[u] /\ cur'[u].fib = g
        BY <1>6, <3>2, <4>3 DEF f
      <4>4. Early(g) => Early(g)'
        BY <4>3 DEF Early
      <4>5. Resumable(g) => Resumable(g)'
        BY <1>5, <1>6, <2>1 DEF Resumable
      <4> QED
        BY <4>2, <4>4, <4>5
    <3> QED
      BY <3>1, <3>2
  <2>2. ASSUME NEW i \in DOMAIN tasks', NEW k \in DOMAIN tasks', i # k, tasks'[i].fib # None
        PROVE  tasks'[i].fib # tasks'[k].fib
    <3>1. CASE i \in DOMAIN tasks /\ k \in DOMAIN tasks
      BY <1>7, <2>2, <3>1 DEF WhereInv, PlaceInv
    <3>2. CASE i \notin DOMAIN tasks \/ k \notin DOMAIN tasks
      BY <1>7, <1>13, <2>2, <3>2
    <3> QED
      BY <3>1, <3>2
  <2>3. \A u, v \in Threads : u # v /\ cur'[u].fib # None => cur'[u].fib # cur'[v].fib
    BY <1>6 DEF WhereInv, PlaceInv
  <2>4. \A g \in held : (\A u \in Threads : cur'[u].fib # g) => st[g] = "HOLD" /\ saved[g]
    <3>1. ASSUME NEW g \in held, \A u \in Threads : cur'[u].fib # g PROVE st[g] = "HOLD" /\ saved[g]
      <4>1. CASE g = f
        BY <1>3, <3>1, <4>1
      <4>2. CASE g # f
        BY <1>6, <3>1, <4>2 DEF WhereInv, PlaceInv, f
      <4> QED
        BY <4>1, <4>2
    <3> QED
      BY <3>1
  <2>5. held' = held /\ st' = st /\ saved' = saved
    BY <1>5
  <2> QED
    BY <2>1, <2>2, <2>3, <2>4, <2>5 DEF PlaceInv, Resumable, Early
<1>11. FreshInv'
  <2>1. ASSUME NEW g, g # None, Nowhere(g) PROVE Nowhere(g)'
    <3>1. g # f
      BY <2>1 DEF Nowhere, f
    <3> QED
      BY <1>5, <1>6, <1>7, <2>1, <3>1 DEF Nowhere
  <2>2. None \notin Wrappers /\ None \notin UserFibers
    BY DistinctAssumption DEF Fibers
  <2>3. ASSUME NEW u \in Threads, NEW g, cbFiber[u] # g, g # None PROVE cbFiber'[u] # g
    BY <1>6, <2>3
  <2>4. ASSUME NEW g \in Wrappers, st'[g] = "NONE" PROVE Nowhere(g)' /\ \A u \in Threads : cbFiber'[u] # g
    BY <1>5, <2>1, <2>2, <2>3, <2>4 DEF WhereInv, FreshInv
  <2> QED
    BY <1>5, <2>1, <2>2, <2>4 DEF WhereInv, FreshInv
<1>12. OwnInv'
  <2>1. ASSUME NEW u \in Threads, cbFiber'[u] # None
        PROVE  /\ st[cbFiber'[u]] \in {"TERM", "EXCEPT"} \/ cur'[u].fib = cbFiber'[u]
               /\ cbFiber'[u] \in held => cur'[u].fib = cbFiber'[u]
               /\ (\E i \in DOMAIN tasks' : tasks'[i].fib = cbFiber'[u]) => cur'[u].fib = cbFiber'[u]
               /\ \A v \in Threads : v # u => cur'[v].fib # cbFiber'[u] /\ cbFiber'[v] # cbFiber'[u]
               /\ cur'[u].fib = cbFiber'[u] => cur'[u].fn # None
    <3>1. cbFiber'[u] = cbFiber[u]
      BY <1>6, <2>1
    <3>2. cbFiber[u] = f => u = t /\ st[f] \in {"TERM", "EXCEPT"}
      BY <1>3, <1>6, <1>8, <2>1, <3>1
    <3>3. (\E i \in DOMAIN tasks' : tasks'[i].fib = cbFiber[u]) => cur'[u].fib = cbFiber[u]
      <4>1. CASE cbFiber[u] = f
        BY <1>7, <1>13, <3>2, <4>1
      <4>2. CASE cbFiber[u] # f
        <5>1. (\E i \in DOMAIN tasks' : tasks'[i].fib = cbFiber[u]) => cur[u].fib = cbFiber[u]
          BY <1>14, <2>1, <3>1, <4>2 DEF WhereInv, OwnInv
        <5> QED
          BY <1>6, <4>2, <5>1 DEF f
      <4> QED
        BY <4>1, <4>2
    <3>4. \A v \in Threads : v # u => cur'[v].fib # cbFiber[u] /\ cbFiber'[v] # cbFiber[u]
      BY <1>6, <2>1, <3>1 DEF WhereInv, OwnInv
    <3>5. CASE u = t
      <4>1. st[cbFiber[t]] \in {"TERM", "EXCEPT"} /\ cbFiber[t] \notin held
        <5>1. CASE cbFiber[t] = f
          BY <1>3, <3>2, <3>5, <5>1
        <5>2. CASE cbFiber[t] # f
          BY <2>1, <3>1, <3>5, <5>2 DEF WhereInv, OwnInv, f
        <5> QED
          BY <5>1, <5>2
      <4> QED
        BY <1>6, <2>1, <3>1, <3>3, <3>4, <3>5, <4>1
    <3>6. CASE u # t
      BY <1>6, <2>1, <3>1, <3>3, <3>4, <3>6 DEF WhereInv, OwnInv
    <3> QED
      BY <3>5, <3>6
  <2>2. ASSUME NEW u \in Threads, cur'[u].fib # None, cur'[u].fn # None PROVE cbFiber'[u] = cur'[u].fib
    BY <1>6, <2>2 DEF WhereInv, OwnInv
  <2> QED
    BY <1>5, <2>1, <2>2 DEF OwnInv, Queued
<1> QED
  BY <1>9, <1>10, <1>11, <1>12 DEF WhereInv

LEMMA WrapKeeps ==
  ASSUME TypeOK, ShapeInv, WhereInv, NEW t \in Threads, Wrap(t)
  PROVE  WhereInv'
<1>1. PICK f \in Wrappers :
            /\ \/ cbFiber[t] = f /\ st[f] = "TERM"
               \/ st[f] = "NONE"
            /\ f \in Fibers /\ f # None /\ f \notin UserFibers
            /\ cur'[t].fib = f /\ cur'[t].fn = cur[t].fn
            /\ \A u \in Threads : u # t => cur'[u] = cur[u]
            /\ cbFiber' = [cbFiber EXCEPT ![t] = f]
            /\ st' = [st EXCEPT ![f] = "INIT"]
            /\ saved' = [saved EXCEPT ![f] = TRUE]
  BY WrapFacts
<1>2. /\ UNCHANGED <<tasks, held, pinOf>> /\ pc' = [pc EXCEPT ![t] = "resume"]
      /\ cur[t].fib = None /\ cur[t].fn # None
  BY DEF Wrap, queueVars, histVars, ShapeInv, Busy
<1>3. /\ pc'[t] = "resume" /\ cbFiber'[t] = f /\ st'[f] = "INIT" /\ saved'[f]
      /\ \A u \in Threads : u # t => pc'[u] = pc[u] /\ cbFiber'[u] = cbFiber[u]
      /\ \A g \in Fibers : g # f => st'[g] = st[g] /\ saved'[g] = saved[g]
  BY <1>1, <1>2 DEF TypeOK
<1>4. Nowhere(f) /\ \A u \in Threads : u # t => cbFiber[u] # f
  <2>1. CASE st[f] = "NONE"
    BY <2>1 DEF WhereInv, FreshInv
  <2>2. CASE cbFiber[t] = f /\ st[f] = "TERM"
    BY <1>1, <1>2, <2>2 DEF WhereInv, OwnInv, Queued, Nowhere
  <2> QED
    BY <1>1, <2>1, <2>2
<1>5. /\ \A u \in Threads : cur[u].fib \in Fibers \cup {None}
      /\ \A i \in DOMAIN tasks : tasks[i].fib \in Fibers \cup {None}
      /\ held \subseteq Fibers
      /\ \A u \in Threads : cbFiber[u] \in Fibers \cup {None}
      /\ Wrappers \subseteq Fibers /\ UserFibers \subseteq Fibers /\ None \notin Fibers
  <2>1. \A i \in DOMAIN tasks : tasks[i] \in Task
    BY ElementOfSeq, LenProperties DEF TypeOK
  <2>2. \A u \in Threads : cur[u] \in Task
    BY DEF TypeOK
  <2>3. held \subseteq Fibers /\ \A u \in Threads : cbFiber[u] \in Wrappers \cup {None}
    BY DEF TypeOK
  <2> QED
    BY <2>1, <2>2, <2>3, DistinctAssumption DEF Task, Fibers
<1>6. AtInv'
  <2>1. ASSUME NEW u \in Threads PROVE AtOf(u)'
    <3>1. CASE u = t
      BY <1>1, <1>2, <1>3, <1>4, <3>1 DEF AtOf, Nowhere
    <3>2. CASE u # t
      <4>1. AtOf(u) /\ cur[u].fib # f
        BY <1>4, AtEach DEF WhereInv, Nowhere
      <4>2. pc[u] \in Busy => cur[u].fib \in Fibers
        BY <1>5 DEF ShapeInv
      <4> QED
        BY <1>1, <1>2, <1>3, <3>2, <4>1, <4>2 DEF AtOf, Busy, Queued
    <3> QED
      BY <3>1, <3>2
  <2> QED
    BY <2>1 DEF AtInv, AtOf
<1>7. PlaceInv'
  <2>1. ASSUME NEW g, g # None, NEW i \in DOMAIN tasks, tasks[i].fib = g
        PROVE  g \notin held /\ (Resumable(g) \/ Early(g))'
    <3>1. g # f /\ g \in Fibers
      BY <1>4, <1>5, <2>1 DEF Nowhere
    <3>2. g \notin held /\ (Resumable(g) \/ Early(g))
      BY <2>1 DEF WhereInv, PlaceInv
    <3>3. ASSUME NEW u \in Threads, cur[u].fib = g
          PROVE  u # t /\ pc'[u] = pc[u] /\ cur'[u].fib = g
      BY <1>1, <1>2, <1>3, <2>1, <3>3
    <3>4. Early(g) => Early(g)'
      BY <3>3 DEF Early
    <3>5. Resumable(g) => Resumable(g)'
      BY <1>1, <1>3, <2>1, <3>1 DEF Resumable
    <3> QED
      BY <3>2, <3>4, <3>5
  <2>2. \A i, k \in DOMAIN tasks : i # k /\ tasks[i].fib # None => tasks[i].fib # tasks[k].fib
    BY DEF WhereInv, PlaceInv
  <2>3. \A u, v \in Threads : u # v /\ cur'[u].fib # None => cur'[u].fib # cur'[v].fib
    BY <1>1, <1>4 DEF WhereInv, PlaceInv, Nowhere
  <2>4. \A g \in held : (\A u \in Threads : cur'[u].fib # g) => st'[g] = "HOLD" /\ saved'[g]
    BY <1>1, <1>2, <1>3, <1>4, <1>5 DEF WhereInv, PlaceInv, Nowhere
  <2> QED
    BY <1>2, <2>1, <2>2, <2>3, <2>4 DEF PlaceInv, Resumable, Early
<1>8. FreshInv'
  <2>1. ASSUME NEW g \in Fibers, g # f, Nowhere(g) PROVE Nowhere(g)'
    BY <1>1, <1>2, <1>5, <2>1 DEF Nowhere
  <2>2. ASSUME NEW g \in Wrappers, st'[g] = "NONE" PROVE Nowhere(g)' /\ \A u \in Threads : cbFiber'[u] # g
    <3>1. g # f /\ g \in Fibers /\ st[g] = "NONE"
      BY <1>3, <1>5, <2>2
    <3> QED
      BY <1>3, <2>1, <3>1 DEF WhereInv, FreshInv
  <2>3. ASSUME NEW g \in UserFibers
        PROVE  /\ g # f /\ g \in Fibers /\ st'[g] = st[g] /\ saved'[g] = saved[g]
    BY <1>1, <1>3, <1>5
  <2> QED
    BY <1>2, <2>1, <2>2, <2>3 DEF WhereInv, FreshInv
<1>9. OwnInv'
  <2>1. ASSUME NEW u \in Threads, cbFiber'[u] # None
        PROVE  /\ st'[cbFiber'[u]] \in {"TERM", "EXCEPT"} \/ cur'[u].fib = cbFiber'[u]
               /\ cbFiber'[u] \in held => cur'[u].fib = cbFiber'[u]
               /\ (\E i \in DOMAIN tasks : tasks[i].fib = cbFiber'[u]) => cur'[u].fib = cbFiber'[u]
               /\ \A v \in Threads : v # u => cur'[v].fib # cbFiber'[u] /\ cbFiber'[v] # cbFiber'[u]
               /\ cur'[u].fib = cbFiber'[u] => cur'[u].fn # None
    <3>1. CASE u = t
      BY <1>1, <1>2, <1>3, <1>4, <2>1, <3>1 DEF Nowhere
    <3>2. CASE u # t
      <4>1. cbFiber'[u] = cbFiber[u] /\ cbFiber[u] # f /\ cbFiber[u] \in Fibers
        BY <1>3, <1>4, <1>5, <2>1, <3>2
      <4> QED
        BY <1>1, <1>3, <2>1, <3>2, <4>1 DEF WhereInv, OwnInv, Queued
    <3> QED
      BY <3>1, <3>2
  <2>2. ASSUME NEW u \in Threads, cur'[u].fib # None, cur'[u].fn # None PROVE cbFiber'[u] = cur'[u].fib
    BY <1>1, <1>3, <2>2 DEF WhereInv, OwnInv
  <2> QED
    BY <1>2, <2>1, <2>2 DEF OwnInv, Queued
<1> QED
  BY <1>6, <1>7, <1>8, <1>9 DEF WhereInv

LEMMA GetKeeps ==
  ASSUME TypeOK, ShapeInv, WhereInv, NEW t \in Threads, GetNextTask(t), ~overtaken'
  PROVE  WhereInv'
<1>1. PICK n \in DOMAIN tasks :
          /\ cur' = [cur EXCEPT ![t] = tasks[n]]
          /\ tasks' = RemoveAt(tasks, n)
          /\ pc' = [pc EXCEPT ![t] = IF tasks[n].fib # None THEN "resume" ELSE "wrap"]
          /\ tasks[n].fib # None => st[tasks[n].fib] # "EXEC" /\ ~BeingLeft(tasks[n].fib)
  BY DEF GetNextTask, Candidates, Eligible, Erase
<1>2. /\ UNCHANGED <<cbFiber, st, saved, held, pinOf>>
      /\ cur[t].fib = None /\ cur[t].fn = None
  BY DEF GetNextTask, fiberVars, ShapeInv, Busy
<1>3. /\ cur'[t] = tasks[n]
      /\ pc'[t] = IF tasks[n].fib # None THEN "resume" ELSE "wrap"
      /\ \A u \in Threads : u # t => pc'[u] = pc[u] /\ cur'[u] = cur[u]
  BY <1>1 DEF TypeOK
\* The entries that are left are entries from before, other than the n-th.
<1> DEFINE old(k) == IF k < n THEN k ELSE k + 1
<1>4. /\ Len(tasks) \in Nat /\ DOMAIN tasks = 1..Len(tasks) /\ DOMAIN tasks' = 1..(Len(tasks) - 1)
      /\ \A k \in 1..(Len(tasks) - 1) : tasks'[k] = tasks[old(k)]
  BY <1>1, EraseQ DEF TypeOK
<1>5. /\ \A k \in DOMAIN tasks' : tasks'[k] = tasks[old(k)] /\ old(k) \in DOMAIN tasks /\ old(k) # n
      /\ \A k, m \in DOMAIN tasks' : k # m => old(k) # old(m)
  BY <1>4
<1> HIDE DEF old
\* A fiber that is taken has been left: one that is being left would make
\* overtaken true.
<1>6. /\ tasks[n].fib # None =>
            /\ st[tasks[n].fib] \in {"INIT", "HOLD", "READY"} /\ saved[tasks[n].fib]
            /\ tasks[n].fib \notin held
            /\ \A u \in Threads : cur[u].fib # tasks[n].fib
      /\ \A i, k \in DOMAIN tasks : i # k /\ tasks[i].fib # None => tasks[i].fib # tasks[k].fib
  <2>1. ASSUME tasks[n].fib # None
        PROVE  tasks[n].fib \notin held /\ Resumable(tasks[n].fib)
    <3>1. tasks[n].fib \notin held /\ (Resumable(tasks[n].fib) \/ Early(tasks[n].fib))
      BY <2>1 DEF WhereInv, PlaceInv
    <3>2. ~Early(tasks[n].fib)
      BY <1>1, <2>1 DEF Early, BeingLeft, WhereInv, AtInv
    <3> QED
      BY <3>1, <3>2
  <2>2. \A i, k \in DOMAIN tasks : i # k /\ tasks[i].fib # None => tasks[i].fib # tasks[k].fib
    BY DEF WhereInv, PlaceInv
  <2> QED
    BY <2>1, <2>2 DEF Resumable
<1>7. \A k \in DOMAIN tasks' : tasks'[k].fib # None => tasks'[k].fib # tasks[n].fib
  BY <1>5, <1>6
\* The other entries are all still there.
<1>12. /\ \A k \in DOMAIN tasks' : \E i \in DOMAIN tasks : tasks'[k] = tasks[i]
       /\ \A i \in DOMAIN tasks \ {n} : \E k \in DOMAIN tasks' : tasks'[k] = tasks[i]
  <2>1. ASSUME NEW i \in DOMAIN tasks \ {n} PROVE \E k \in DOMAIN tasks' : tasks'[k] = tasks[i]
    <3> DEFINE k == IF i < n THEN i ELSE i - 1
    <3>1. k \in DOMAIN tasks' /\ old(k) = i
      BY <1>4 DEF old
    <3> QED
      BY <1>5, <3>1
  <2> QED
    BY <1>5, <2>1
<1>8. AtInv'
  <2>1. ASSUME NEW u \in Threads PROVE AtOf(u)'
    <3>1. CASE u = t
      BY <1>2, <1>3, <1>6, <3>1 DEF AtOf
    <3>2. CASE u # t
      <4>1. AtOf(u)
        BY AtEach DEF WhereInv
      <4>2. pc[u] \in Busy => cur[u].fib # None
        BY DEF ShapeInv
      <4>3. cur[u].fib # None =>
               (Queued(cur[u].fib) <=> \E i \in DOMAIN tasks' : tasks'[i].fib = cur[u].fib)
        BY <1>6, <1>12 DEF Queued
      <4> QED
        BY <1>2, <1>3, <3>2, <4>1, <4>2, <4>3 DEF AtOf, Queued, Busy
    <3> QED
      BY <3>1, <3>2
  <2> QED
    BY <2>1 DEF AtInv, AtOf
<1>9. PlaceInv'
  <2>1. ASSUME NEW g, g # None, NEW i \in DOMAIN tasks', tasks'[i].fib = g
        PROVE  g \notin held /\ (Resumable(g) \/ Early(g))'
    <3>1. g # tasks[n].fib /\ g \notin held /\ (Resumable(g) \/ Early(g))
      BY <1>5, <1>7, <2>1 DEF WhereInv, PlaceInv
    <3>2. Resumable(g) => Resumable(g)'
      BY <1>2, <1>3, <3>1 DEF Resumable
    <3>3. ASSUME NEW u \in Threads, cur[u].fib = g
          PROVE  u # t /\ pc'[u] = pc[u] /\ cur'[u].fib = g
      BY <1>2, <1>3, <2>1, <3>3
    <3>4. Early(g) => Early(g)'
      BY <3>3 DEF Early
    <3> QED
      BY <3>1, <3>2, <3>4
  <2>2. \A i, k \in DOMAIN tasks' : i # k /\ tasks'[i].fib # None => tasks'[i].fib # tasks'[k].fib
    BY <1>5, <1>6
  <2>3. \A u, v \in Threads : u # v /\ cur'[u].fib # None => cur'[u].fib # cur'[v].fib
    BY <1>3, <1>6 DEF WhereInv, PlaceInv
  <2>4. \A g \in held : (\A u \in Threads : cur'[u].fib # g) => st[g] = "HOLD" /\ saved[g]
    <3>1. ASSUME NEW g \in held, \A u \in Threads : cur'[u].fib # g PROVE st[g] = "HOLD" /\ saved[g]
      <4>1. g # None
        BY DistinctAssumption DEF TypeOK
      <4>2. \A u \in Threads : cur[u].fib # g
        BY <1>2, <1>3, <3>1, <4>1
      <4> QED
        BY <4>2 DEF WhereInv, PlaceInv
    <3> QED
      BY <3>1
  <2> QED
    BY <1>2, <2>1, <2>2, <2>3, <2>4 DEF PlaceInv, Resumable, Early
<1>10. FreshInv'
  <2>1. ASSUME NEW g, Nowhere(g) PROVE Nowhere(g)'
    BY <1>2, <1>3, <1>5, <2>1 DEF Nowhere
  <2> QED
    BY <1>2, <2>1 DEF WhereInv, FreshInv
<1>11. OwnInv'
  <2>1. ASSUME NEW u \in Threads, cbFiber[u] # None
        PROVE  /\ st[cbFiber[u]] \in {"TERM", "EXCEPT"} \/ cur'[u].fib = cbFiber[u]
               /\ cbFiber[u] \in held => cur'[u].fib = cbFiber[u]
               /\ (\E i \in DOMAIN tasks' : tasks'[i].fib = cbFiber[u]) => cur'[u].fib = cbFiber[u]
               /\ \A v \in Threads : v # u => cur'[v].fib # cbFiber[u] /\ cbFiber[v] # cbFiber[u]
               /\ cur'[u].fib = cbFiber[u] => cur'[u].fn # None
    <3>1. /\ Queued(cbFiber[u]) => u # t /\ cur[u].fib = cbFiber[u]
          /\ cbFiber[u] # tasks[n].fib
      <4>1. Queued(cbFiber[u]) => u # t /\ cur[u].fib = cbFiber[u]
        BY <1>2, <2>1 DEF WhereInv, OwnInv
      <4> QED
        BY <1>6, <2>1, <4>1 DEF Queued
    <3>4. (\E i \in DOMAIN tasks' : tasks'[i].fib = cbFiber[u]) => Queued(cbFiber[u])
      BY <1>12 DEF Queued
    <3>2. CASE u = t
      BY <1>2, <1>3, <2>1, <3>1, <3>2, <3>4 DEF WhereInv, OwnInv
    <3>3. CASE u # t
      BY <1>3, <2>1, <3>1, <3>3, <3>4 DEF WhereInv, OwnInv
    <3> QED
      BY <3>2, <3>3
  <2>2. ASSUME NEW u \in Threads, cur'[u].fib # None, cur'[u].fn # None PROVE cbFiber[u] = cur'[u].fib
    BY <1>3, <2>2 DEF WhereInv, OwnInv, ShapeInv
  <2> QED
    BY <1>2, <2>1, <2>2 DEF OwnInv, Queued
<1> QED
  BY <1>8, <1>9, <1>10, <1>11 DEF WhereInv

LEMMA WhereStep ==
  ASSUME CoreInv, WhereInv, [Next]_vars, ~overtaken'
  PROVE  WhereInv'
<1>1. TypeOK /\ ShapeInv /\ LifeInv /\ TypeOK'
  BY CoreStep DEF CoreInv
<1>2. CASE PcSteps
  BY <1>1, <1>2, PcStepsOnly, PcOnlyKeeps DEF WhereInv
<1>3. CASE WorkSteps
  BY <1>1, <1>3, OnFiberSteps, NewJobs, AddsKeeps, WakeKeeps, SettleKeeps, WrapKeeps, GetKeeps
     DEF WorkSteps
<1> QED
  BY <1>2, <1>3, TwoSorts

LEMMA WhereInit ==
  ASSUME Init
  PROVE  WhereInv
<1>1. DOMAIN tasks = {} /\ held = {} /\ UserFibers \subseteq Fibers /\ None \notin Fibers
      /\ Wrappers \subseteq Fibers
  BY DistinctAssumption DEF Init, Fibers
<1>2. \A t \in Threads : cur[t].fib = None /\ cur[t].fn = None /\ cbFiber[t] = None /\ pc[t] = "new"
  BY DEF Init, NoTask
<1>3. \A f \in Fibers : saved[f] /\ st[f] = IF f \in UserFibers THEN "INIT" ELSE "NONE"
  BY DEF Init
<1> QED
  BY <1>1, <1>2, <1>3 DEF WhereInv, AtInv, PlaceInv, FreshInv, OwnInv, Nowhere

\* Until a thread takes a fiber that another is still leaving, nobody is where a
\* fiber should not be.
WhereUnlessOvertaken == overtaken \/ WhereInv

LEMMA OvertakenStays ==
  ASSUME CoreInv, [Next]_vars, overtaken
  PROVE  overtaken'
<1>1. CASE PcSteps
  BY <1>1 DEF PcSteps, Start, StopBegin, Stop, StopLock, StopNotify, StopJoin, vars, Notify, Register,
     NoTaskFound, IdleEnter, Block, IdleCheck, SpuriousWakeup, BodyStop, histVars
<1>2. CASE ClientSchedule \/ ClientBatch \/ HolderWake
  BY <1>2 DEF ClientSchedule, ClientBatch, HolderWake, Record
<1>3. ASSUME NEW t \in Threads,
             \/ GetNextTask(t) \/ Wrap(t) \/ Resume(t) \/ Switch(t) \/ Settle(t)
             \/ BodySchedule(t) \/ BodyYieldReady(t) \/ BodyArm(t) \/ BodyYieldHold(t) \/ BodyEnd(t)
      PROVE  overtaken'
  BY <1>3 DEF GetNextTask, Wrap, Resume, Switch, Settle, BodySchedule, Record, BodyYieldReady,
     BodyArm, BodyYieldHold, BodyEnd, histVars
<1> QED
  BY <1>1, <1>2, <1>3, TwoSorts DEF WorkSteps

LEMMA WhereUnlessStep ==
  ASSUME CoreInv, WhereUnlessOvertaken, [Next]_vars
  PROVE  WhereUnlessOvertaken'
  BY WhereStep, OvertakenStays DEF WhereUnlessOvertaken

\* Fiber::resume() is entered only on a fiber that is suspended and whose context
\* is stored, and no two threads are ever on one fiber's stack, until a thread
\* takes a fiber that another has not yet left: with any number of threads there
\* is no other way to two threads on one fiber.
THEOREM ResumeIsExclusive == Spec => []ExclusiveUnlessOvertaken
<1>1. Init => CoreInv /\ WhereUnlessOvertaken
  BY CoreInit, WhereInit DEF WhereUnlessOvertaken
<1>2. (CoreInv /\ WhereUnlessOvertaken) /\ [Next]_vars => (CoreInv /\ WhereUnlessOvertaken)'
  BY CoreStep, WhereUnlessStep
<1>3. CoreInv /\ WhereUnlessOvertaken => ExclusiveUnlessOvertaken
  <2> SUFFICES ASSUME CoreInv, WhereInv PROVE ExclusiveResume
    BY DEF WhereUnlessOvertaken, ExclusiveUnlessOvertaken
  <2>1. \A t \in Threads : OnStack(t) => cur[t].fib # None
    BY DEF CoreInv, ShapeInv, Busy, OnStack
  <2> QED
    BY <2>1 DEF WhereInv, AtInv, PlaceInv, ExclusiveResume
<1> QED
  BY <1>1, <1>2, <1>3, PTL DEF Spec

\* run() resets a wrapper for the next function only when no list, holder or
\* other thread refers to it, with the same exception.
THEOREM ResetIsOwned == Spec => []ResetOnlyOwned
<1>1. Init => CoreInv /\ WhereUnlessOvertaken
  BY CoreInit, WhereInit DEF WhereUnlessOvertaken
<1>2. (CoreInv /\ WhereUnlessOvertaken) /\ [Next]_vars => (CoreInv /\ WhereUnlessOvertaken)'
  BY CoreStep, WhereUnlessStep
<1>3. CoreInv /\ WhereUnlessOvertaken => ResetOnlyOwned
  BY DEF CoreInv, ShapeInv, Busy, WhereUnlessOvertaken, WhereInv, OwnInv, Queued, ResetOnlyOwned
<1> QED
  BY <1>1, <1>2, <1>3, PTL DEF Spec

-----------------------------------------------------------------------------
(* A job runs once. *)

\* A step that leaves functions, live fibers and what has run as they are.
SameJobs ==
    /\ UNCHANGED <<job, pinOf, done>>
    /\ \A i \in DOMAIN tasks' : tasks'[i].fn = None \/ (i \in DOMAIN tasks /\ tasks'[i] = tasks[i])
    /\ \A t \in Threads : pc'[t] = "wrap" => pc[t] = "wrap" /\ cur'[t] = cur[t]
    /\ \A f \in Fibers : /\ Live(f)' <=> Live(f)
                         /\ st'[f] = "NONE" <=> st[f] = "NONE"
                         /\ st'[f] \in {"TERM", "EXCEPT"} <=> st[f] \in {"TERM", "EXCEPT"}

LEMMA SameJobsKeeps ==
  ASSUME JobInv, SameJobs
  PROVE  JobInv'
<1>0. Wrappers \subseteq Fibers /\ UserFibers \subseteq Fibers
  BY DEF Fibers
<1>1. RunJobs'
  BY <1>0 DEF JobInv, RunJobs, SameJobs
<1>2. QueuedFns'
  BY <1>0 DEF JobInv, QueuedFns, SameJobs
<1>3. TakenFns'
  BY <1>0 DEF JobInv, TakenFns, SameJobs
<1>4. LiveFns'
  BY <1>0 DEF JobInv, LiveFns, SameJobs
<1> QED
  BY <1>1, <1>2, <1>3, <1>4 DEF JobInv

LEMMA SameJobsSteps ==
  ASSUME TypeOK, ShapeInv, WhereInv,
         \/ HolderWake
         \/ \E t \in Threads : \/ Resume(t) \/ Switch(t) \/ BodyYieldReady(t) \/ BodyArm(t)
                               \/ BodyYieldHold(t) \/ Settle(t)
  PROVE  SameJobs
<1>0. /\ pc \in [Threads -> {"new", "register", "fetch", "wrap", "resume", "exec",
                          "armed", "instop", "switch", "settle", "idle",
                          "block", "asleep", "check", "exited"}]
      /\ st \in [Fibers -> FiberStates]
      /\ \A t \in Threads : AtOf(t)
  BY AtEach DEF TypeOK, WhereInv
<1>1. ASSUME NEW t \in Threads,
             \/ Resume(t) \/ Switch(t) \/ BodyYieldReady(t) \/ BodyArm(t) \/ BodyYieldHold(t)
      PROVE  SameJobs
  <2>1. UNCHANGED <<job, pinOf, done, tasks, cur>>
    BY <1>1 DEF Resume, Switch, BodyYieldReady, BodyArm, BodyYieldHold, queueVars, histVars
  <2>2. \A u \in Threads : pc'[u] = "wrap" => pc[u] = "wrap"
    BY <1>0, <1>1 DEF Resume, Switch, BodyYieldReady, BodyArm, BodyYieldHold
  <2>3. \/ UNCHANGED st
        \/ Live(cur[t].fib) /\ \E s \in {"EXEC", "READY", "HOLD"} : st' = [st EXCEPT ![cur[t].fib] = s]
    <3>1. CASE Resume(t)
      BY <1>0, <3>1 DEF Resume, AtOf, Live
    <3>2. CASE BodyYieldReady(t)
      BY <1>0, <3>2 DEF BodyYieldReady, Running, AtOf, Live
    <3>3. CASE BodyYieldHold(t)
      BY <1>0, <3>3 DEF BodyYieldHold, AtOf, Live
    <3>4. CASE Switch(t) \/ BodyArm(t)
      BY <3>4 DEF Switch, BodyArm
    <3> QED
      BY <1>1, <3>1, <3>2, <3>3, <3>4
  <2>4. ASSUME NEW f \in Fibers
        PROVE  /\ Live(f)' <=> Live(f)
               /\ st'[f] = "NONE" <=> st[f] = "NONE"
               /\ st'[f] \in {"TERM", "EXCEPT"} <=> st[f] \in {"TERM", "EXCEPT"}
    BY <1>0, <2>3 DEF Live
  <2> QED
    BY <2>1, <2>2, <2>4 DEF SameJobs
<1>2. ASSUME NEW a, NEW x \in Task, Push(a, x), x.fn = None
      PROVE  \A i \in DOMAIN tasks' : tasks'[i].fn = None \/ (i \in DOMAIN tasks /\ tasks'[i] = tasks[i])
  <2>1. tasks \in Seq(Task) /\ tasks' = Append(tasks, x)
    BY <1>2 DEF TypeOK, Push
  <2>2. /\ Len(tasks) \in Nat /\ DOMAIN tasks = 1..Len(tasks) /\ DOMAIN tasks' = 1..(Len(tasks) + 1)
        /\ \A i \in 1..Len(tasks) : tasks'[i] = tasks[i]
        /\ tasks'[Len(tasks) + 1] = x
    BY <2>1, AppendQ
  <2>3. \A i \in DOMAIN tasks' : i \in DOMAIN tasks \/ i = Len(tasks) + 1
    BY <2>2
  <2> QED
    BY <1>2, <2>2, <2>3
<1>3. CASE HolderWake
  <2>1. PICK f \in held : Push(Client, [fib |-> f, fn |-> None, pin |-> AnyThread])
    BY <1>3 DEF HolderWake
  <2> DEFINE x == [fib |-> f, fn |-> None, pin |-> AnyThread]
  <2>2. x \in Task /\ x.fn = None
    BY ThreadsAndPins DEF TypeOK, Task
  <2> HIDE DEF x
  <2>3. Push(Client, x)
    BY <2>1 DEF x
  <2>4. \A i \in DOMAIN tasks' : tasks'[i].fn = None \/ (i \in DOMAIN tasks /\ tasks'[i] = tasks[i])
    BY <1>2, <2>2, <2>3
  <2>5. UNCHANGED <<job, pinOf, done, st, pc, cur>>
    BY <1>3 DEF HolderWake, loopVars
  <2> QED
    BY <2>4, <2>5 DEF SameJobs, Live
<1>4. ASSUME NEW t \in Threads, Settle(t) PROVE SameJobs
  <2> DEFINE x == [fib |-> cur[t].fib, fn |-> None, pin |-> IF cur[t].fn # None THEN AnyThread ELSE cur[t].pin]
  <2>1. cur[t] \in Task
    BY DEF TypeOK
  <2>2. x \in Task /\ x.fn = None
    BY <2>1, ThreadsAndPins DEF Task
  <2>3. Push(t, x) \/ UNCHANGED queueVars
    BY <1>4 DEF Settle
  <2> HIDE DEF x
  <2>4. \A i \in DOMAIN tasks' : tasks'[i].fn = None \/ (i \in DOMAIN tasks /\ tasks'[i] = tasks[i])
    BY <1>2, <2>2, <2>3 DEF queueVars
  <2>5. UNCHANGED <<job, pinOf, done, st>>
    BY <1>4 DEF Settle, fiberVars, histVars
  <2>6. \A u \in Threads : pc'[u] = "wrap" => pc[u] = "wrap" /\ cur'[u] = cur[u]
    BY <1>0, <1>4 DEF Settle, TypeOK
  <2> QED
    BY <2>4, <2>5, <2>6 DEF SameJobs, Live
<1> QED
  BY <1>1, <1>3, <1>4

LEMMA AddsJobs ==
  ASSUME TypeOK, ShapeInv, JobInv, Adds
  PROVE  JobInv'
<1>0. /\ Wrappers \subseteq Fibers /\ UserFibers \subseteq Fibers /\ UserFibers \subseteq Jobs
      /\ Funcs \subseteq Jobs /\ None \notin Jobs
      /\ UNCHANGED <<pc, cur, st, job, done>>
  BY DistinctAssumption DEF Fibers, Jobs, Adds
<1>1. \A f \in Fibers : Live(f)' <=> Live(f)
  BY <1>0 DEF Live
<1>2. RunJobs'
  BY <1>0, <1>1 DEF JobInv, RunJobs, Adds
<1>3. \A i \in DOMAIN tasks' \ DOMAIN tasks : tasks'[i].fn # None =>
         /\ tasks'[i].fn \in Funcs /\ pinOf[tasks'[i].fn] = None /\ pinOf'[tasks'[i].fn] # None
         /\ \A k \in DOMAIN tasks' \ DOMAIN tasks : k # i => tasks'[k].fn # tasks'[i].fn
  BY <1>0 DEF Adds, IsTask
<1>4. \A j \in Jobs : pinOf[j] # None => pinOf'[j] # None
  BY DEF Adds
<1>5. \A i \in DOMAIN tasks : tasks'[i] = tasks[i] /\ tasks[i] \in Task
  BY ElementOfSeq, LenProperties DEF TypeOK, Adds
<1>6. ASSUME NEW i \in DOMAIN tasks', tasks'[i].fn # None
      PROVE  /\ pinOf'[tasks'[i].fn] # None /\ done[tasks'[i].fn] = 0
             /\ \A k \in DOMAIN tasks' : k # i => tasks'[k].fn # tasks'[i].fn
             /\ \A t \in Threads : pc[t] = "wrap" => cur[t].fn # tasks'[i].fn
             /\ \A f \in Wrappers : Live(f) => job[f] # tasks'[i].fn
  <2>1. CASE i \in DOMAIN tasks
    <3>1. tasks'[i].fn \in Jobs /\ tasks'[i] = tasks[i] /\ tasks[i].fn # None
      BY <1>5, <1>6, <2>1 DEF Task, Jobs
    <3>2. pinOf[tasks[i].fn] # None
      BY <2>1, <3>1 DEF JobInv, QueuedFns
    <3>3. \A k \in DOMAIN tasks' : k # i => tasks'[k].fn # tasks'[i].fn
      BY <1>3, <1>5, <1>6, <2>1, <3>1, <3>2 DEF JobInv, QueuedFns
    <3> QED
      BY <1>4, <2>1, <3>1, <3>2, <3>3 DEF JobInv, QueuedFns
  <2>2. CASE i \notin DOMAIN tasks
    <3>1. tasks'[i].fn \in Funcs /\ pinOf[tasks'[i].fn] = None /\ pinOf'[tasks'[i].fn] # None
      BY <1>3, <1>6, <2>2
    <3>2. done[tasks'[i].fn] = 0
      BY <1>0, <3>1 DEF JobInv, RunJobs
    <3>3. \A k \in DOMAIN tasks' : k # i => tasks'[k].fn # tasks'[i].fn
      BY <1>3, <1>5, <1>6, <2>2, <3>1 DEF JobInv, QueuedFns
    <3>4. \A t \in Threads : pc[t] = "wrap" => cur[t].fn # tasks'[i].fn
      BY <3>1 DEF JobInv, TakenFns
    <3>5. \A f \in Wrappers : Live(f) => job[f] # tasks'[i].fn
      BY <3>1 DEF JobInv, LiveFns
    <3> QED
      BY <3>1, <3>2, <3>3, <3>4, <3>5
  <2> QED
    BY <2>1, <2>2
<1>7. QueuedFns'
  BY <1>0, <1>1, <1>6 DEF QueuedFns
<1>8. TakenFns'
  <2>1. \A t \in Threads : pc[t] = "wrap" => cur[t].fn \in Jobs
    <3>1. \A t \in Threads : cur[t] \in Task
      BY DEF TypeOK
    <3> QED
      BY <3>1 DEF ShapeInv, Task, Jobs
  <2> QED
    BY <1>0, <1>1, <1>4, <2>1 DEF JobInv, TakenFns
<1>9. LiveFns'
  <2>1. \A f \in Wrappers : Live(f) => job[f] \in Jobs
    BY <1>0 DEF Live, JobInv, RunJobs
  <2> QED
    BY <1>0, <1>1, <1>4, <2>1 DEF JobInv, LiveFns
<1> QED
  BY <1>2, <1>7, <1>8, <1>9 DEF JobInv

LEMMA GetJobs ==
  ASSUME TypeOK, ShapeInv, JobInv, NEW t \in Threads, GetNextTask(t)
  PROVE  JobInv'
<1>1. PICK n \in DOMAIN tasks :
          /\ cur' = [cur EXCEPT ![t] = tasks[n]]
          /\ tasks' = RemoveAt(tasks, n)
          /\ pc' = [pc EXCEPT ![t] = IF tasks[n].fib # None THEN "resume" ELSE "wrap"]
  BY DEF GetNextTask, Candidates, Erase
<1>2. UNCHANGED <<st, job, pinOf, done>> /\ pc[t] = "fetch"
  BY DEF GetNextTask, fiberVars, histVars
<1>3. /\ cur'[t] = tasks[n]
      /\ pc'[t] = "wrap" => tasks[n].fn # None
      /\ \A u \in Threads : u # t => pc'[u] = pc[u] /\ cur'[u] = cur[u]
  BY <1>1 DEF TypeOK, ShapeInv
<1> DEFINE old(k) == IF k < n THEN k ELSE k + 1
<1>4. /\ Len(tasks) \in Nat /\ DOMAIN tasks = 1..Len(tasks) /\ DOMAIN tasks' = 1..(Len(tasks) - 1)
      /\ \A k \in 1..(Len(tasks) - 1) : tasks'[k] = tasks[old(k)]
  BY <1>1, EraseQ DEF TypeOK
<1>5. /\ \A k \in DOMAIN tasks' : tasks'[k] = tasks[old(k)] /\ old(k) \in DOMAIN tasks /\ old(k) # n
      /\ \A k, m \in DOMAIN tasks' : k # m => old(k) # old(m)
  BY <1>4
<1> HIDE DEF old
<1>6. RunJobs' /\ LiveFns'
  BY <1>2 DEF JobInv, RunJobs, LiveFns, Live
<1>7. QueuedFns'
  <2>1. ASSUME NEW i \in DOMAIN tasks', tasks'[i].fn # None
        PROVE  /\ pinOf[tasks'[i].fn] # None /\ done[tasks'[i].fn] = 0
               /\ \A k \in DOMAIN tasks' : k # i => tasks'[k].fn # tasks'[i].fn
               /\ \A u \in Threads : pc'[u] = "wrap" => cur'[u].fn # tasks'[i].fn
               /\ \A f \in Wrappers : Live(f) => job[f] # tasks'[i].fn
    <3>1. /\ \A k \in DOMAIN tasks' : k # i => tasks'[k].fn # tasks'[i].fn
          /\ tasks[n].fn # tasks'[i].fn
      BY <1>5, <2>1 DEF JobInv, QueuedFns
    <3> QED
      BY <1>3, <1>5, <2>1, <3>1 DEF JobInv, QueuedFns
  <2> QED
    BY <1>2, <2>1 DEF QueuedFns, Live
<1>8. TakenFns'
  <2>1. ASSUME NEW u \in Threads, pc'[u] = "wrap"
        PROVE  /\ pinOf[cur'[u].fn] # None /\ done[cur'[u].fn] = 0
               /\ \A v \in Threads : v # u /\ pc'[v] = "wrap" => cur'[v].fn # cur'[u].fn
               /\ \A f \in Wrappers : Live(f) => job[f] # cur'[u].fn
    <3>1. CASE u = t
      BY <1>3, <2>1, <3>1 DEF JobInv, QueuedFns
    <3>2. CASE u # t
      BY <1>3, <2>1, <3>2 DEF JobInv, TakenFns, QueuedFns
    <3> QED
      BY <3>1, <3>2
  <2> QED
    BY <1>2, <2>1 DEF TakenFns, Live
<1> QED
  BY <1>6, <1>7, <1>8 DEF JobInv

LEMMA WrapJobs ==
  ASSUME TypeOK, ShapeInv, JobInv, NEW t \in Threads, Wrap(t)
  PROVE  JobInv'
<1>1. PICK f \in Wrappers :
            /\ \/ cbFiber[t] = f /\ st[f] = "TERM"
               \/ st[f] = "NONE"
            /\ f \in Fibers /\ f # None /\ f \notin UserFibers
            /\ \A u \in Threads : u # t => cur'[u] = cur[u]
            /\ st' = [st EXCEPT ![f] = "INIT"]
            /\ job' = [job EXCEPT ![f] = cur[t].fn]
  BY WrapFacts
<1>2. /\ UNCHANGED <<tasks, pinOf, done>> /\ pc' = [pc EXCEPT ![t] = "resume"]
      /\ pc[t] = "wrap" /\ cur[t].fn # None
  BY DEF Wrap, queueVars, histVars, ShapeInv
<1>3. /\ pc'[t] = "resume" /\ st'[f] = "INIT" /\ job'[f] = cur[t].fn
      /\ \A u \in Threads : u # t => pc'[u] = pc[u]
      /\ \A g \in Fibers : g # f => st'[g] = st[g] /\ job'[g] = job[g]
  BY <1>1, <1>2 DEF TypeOK
<1>4. Wrappers \subseteq Fibers /\ UserFibers \subseteq Fibers /\ cur[t].fn \in Funcs
  <2>1. cur[t] \in Task
    BY DEF TypeOK
  <2> QED
    BY <1>2, <2>1 DEF Task, Fibers
<1>5. ~Live(f) /\ Live(f)' /\ \A g \in Fibers : g # f => (Live(g)' <=> Live(g))
  BY <1>1, <1>3 DEF Live
<1>6. /\ pinOf[cur[t].fn] # None /\ done[cur[t].fn] = 0
      /\ \A u \in Threads : u # t /\ pc[u] = "wrap" => cur[u].fn # cur[t].fn
      /\ \A g \in Wrappers : Live(g) => job[g] # cur[t].fn
  BY <1>2 DEF JobInv, TakenFns
<1>7. RunJobs'
  <2>1. \A g \in UserFibers : job'[g] = g /\ (Live(g)' => done[g] = 0)
    BY <1>1, <1>3, <1>4, <1>5 DEF JobInv, RunJobs
  <2>2. \A g \in Wrappers : st'[g] # "NONE" => job'[g] \in Funcs
    BY <1>3, <1>4 DEF JobInv, RunJobs
  <2>3. \A g \in Fibers : st'[g] \in {"TERM", "EXCEPT"} => done[job'[g]] = 1
    BY <1>3 DEF JobInv, RunJobs
  <2> QED
    BY <1>2, <2>1, <2>2, <2>3 DEF JobInv, RunJobs
<1>8. QueuedFns'
  BY <1>1, <1>2, <1>3, <1>4, <1>5 DEF JobInv, QueuedFns
<1>9. TakenFns'
  BY <1>1, <1>2, <1>3, <1>4, <1>5, <1>6 DEF JobInv, TakenFns
<1>10. LiveFns'
  BY <1>1, <1>2, <1>3, <1>4, <1>5, <1>6 DEF JobInv, LiveFns
<1> QED
  BY <1>7, <1>8, <1>9, <1>10 DEF JobInv

LEMMA EndJobs ==
  ASSUME TypeOK, ShapeInv, WhereInv, JobInv, NEW t \in Threads, BodyEnd(t)
  PROVE  JobInv'
<1> DEFINE f == cur[t].fib
           j == job[f]
<1>0. pc[t] = "exec" /\ f \in Fibers /\ st[f] = "EXEC"
  BY AtEach DEF BodyEnd, Running, ShapeInv, Busy, TypeOK, Task, WhereInv, AtOf
<1>1. PICK s \in {"TERM", "EXCEPT"} : st' = [st EXCEPT ![f] = s]
  BY DEF BodyEnd
<1>2. /\ UNCHANGED <<tasks, cur, job, pinOf>> /\ pc' = [pc EXCEPT ![t] = "switch"]
      /\ done' = [done EXCEPT ![j] = @ + 1]
  BY DEF BodyEnd, queueVars
<1>3. /\ Wrappers \subseteq Fibers /\ UserFibers \subseteq Fibers /\ Fibers = UserFibers \cup Wrappers
      /\ UserFibers \cap Funcs = {} /\ Jobs = UserFibers \cup Funcs /\ None \notin Funcs
      /\ UserFibers \cap Wrappers = {}
  BY DistinctAssumption DEF Fibers, Jobs
<1>4. /\ f \in UserFibers => j = f /\ done[j] = 0 /\ pinOf[j] # None
      /\ f \in Wrappers => j \in Funcs /\ done[j] = 0 /\ pinOf[j] # None
  <2>1. Live(f)
    BY <1>0 DEF Live
  <2>2. f \in UserFibers => pinOf[f] # None
    BY DEF WhereInv, FreshInv, Nowhere
  <2>3. f \in UserFibers => j = f /\ done[j] = 0
    BY <2>1 DEF JobInv, RunJobs
  <2>4. f \in Wrappers => j \in Funcs /\ done[j] = 0 /\ pinOf[j] # None
    BY <1>0, <2>1 DEF JobInv, RunJobs, LiveFns
  <2> QED
    BY <2>2, <2>3, <2>4
<1>5. j \in Jobs /\ done[j] = 0 /\ pinOf[j] # None
  BY <1>0, <1>3, <1>4
<1>6. f \in Wrappers => /\ \A i \in DOMAIN tasks : tasks[i].fn # None => tasks[i].fn # j
                        /\ \A u \in Threads : pc[u] = "wrap" => cur[u].fn # j
                        /\ \A g \in Wrappers : g # f /\ Live(g) => job[g] # j
  BY <1>0 DEF JobInv, QueuedFns, TakenFns, LiveFns, Live
<1>7. /\ \A i \in DOMAIN tasks : tasks[i].fn # None => tasks[i].fn \in Funcs
      /\ \A u \in Threads : pc[u] = "wrap" => cur[u].fn \in Funcs
      /\ \A g \in Wrappers : Live(g) => job[g] \in Funcs
  <2>1. \A i \in DOMAIN tasks : tasks[i] \in Task
    BY ElementOfSeq, LenProperties DEF TypeOK
  <2>2. \A u \in Threads : cur[u] \in Task
    BY DEF TypeOK
  <2> QED
    BY <2>1, <2>2 DEF Task, ShapeInv, JobInv, RunJobs, Live
<1>8. /\ \A i \in DOMAIN tasks : tasks[i].fn # None => tasks[i].fn # j
      /\ \A u \in Threads : pc[u] = "wrap" => cur[u].fn # j
      /\ \A g \in Wrappers : g # f /\ Live(g) => job[g] # j
      /\ \A g \in UserFibers : g # f => g # j
  <2>1. CASE f \in Wrappers
    BY <1>3, <1>4, <1>6, <2>1
  <2>2. CASE f \in UserFibers
    BY <1>3, <1>4, <1>7, <2>2
  <2> QED
    BY <1>0, <1>3, <2>1, <2>2
<1> HIDE DEF j
<1>9. done'[j] = 1 /\ \A k \in Jobs : k # j => done'[k] = done[k]
  BY <1>2, <1>5 DEF TypeOK
<1> HIDE DEF f
<1>10. /\ st'[f] \in {"TERM", "EXCEPT"}
       /\ \A g \in Fibers : g # f => st'[g] = st[g]
       /\ \A g \in Fibers : Live(g)' => Live(g) /\ g # f
  BY <1>0, <1>1 DEF Live, TypeOK
<1>11. \A u \in Threads : pc'[u] = "wrap" => pc[u] = "wrap"
  BY <1>2 DEF TypeOK
<1>12. j = job[f]
  BY DEF j, f
<1>13. RunJobs'
  <2>1. \A g \in UserFibers : job'[g] = g /\ (Live(g)' => done'[g] = 0)
    BY <1>2, <1>3, <1>8, <1>9, <1>10 DEF JobInv, RunJobs
  <2>2. \A g \in Wrappers : st'[g] # "NONE" => job'[g] \in Funcs
    BY <1>0, <1>2, <1>3, <1>10 DEF JobInv, RunJobs
  <2>3. \A k \in Jobs : done'[k] \in {0, 1} /\ (pinOf'[k] = None => done'[k] = 0)
    BY <1>2, <1>5, <1>9 DEF JobInv, RunJobs
  <2>4. ASSUME NEW g \in Fibers, st'[g] \in {"TERM", "EXCEPT"} PROVE done'[job'[g]] = 1
    <3>1. CASE g = f
      BY <1>2, <1>9, <1>12, <3>1
    <3>2. CASE g # f
      <4>1. st[g] \in {"TERM", "EXCEPT"} /\ done[job[g]] = 1
        BY <1>10, <2>4, <3>2 DEF JobInv, RunJobs
      <4>2. job[g] \in Jobs
        BY <1>3, <4>1 DEF JobInv, RunJobs
      <4> QED
        BY <1>2, <1>5, <1>9, <4>1, <4>2
    <3> QED
      BY <3>1, <3>2
  <2> QED
    BY <2>1, <2>2, <2>3, <2>4 DEF RunJobs
<1>14. QueuedFns'
  BY <1>2, <1>3, <1>7, <1>8, <1>9, <1>10, <1>11 DEF JobInv, QueuedFns
<1>15. TakenFns'
  BY <1>2, <1>3, <1>7, <1>8, <1>9, <1>10, <1>11 DEF JobInv, TakenFns
<1>16. LiveFns'
  BY <1>2, <1>3, <1>7, <1>8, <1>9, <1>10 DEF JobInv, LiveFns
<1> QED
  BY <1>13, <1>14, <1>15, <1>16 DEF JobInv

LEMMA JobStep ==
  ASSUME CoreInv, WhereInv, JobInv, [Next]_vars
  PROVE  JobInv'
<1>1. TypeOK /\ ShapeInv /\ LifeInv
  BY DEF CoreInv
<1>2. CASE PcSteps
  BY <1>1, <1>2, PcStepsOnly, PcOnlyKeeps
<1>3. CASE WorkSteps
  BY <1>1, <1>3, SameJobsSteps, SameJobsKeeps, NewJobs, AddsJobs, GetJobs, WrapJobs, EndJobs
     DEF WorkSteps
<1> QED
  BY <1>2, <1>3, TwoSorts

LEMMA JobInit ==
  ASSUME Init
  PROVE  JobInv
<1>1. DOMAIN tasks = {} /\ Fibers = UserFibers \cup Wrappers /\ UserFibers \cap Wrappers = {}
      /\ UserFibers \subseteq Jobs
  BY DistinctAssumption DEF Init, Fibers, Jobs
<1>2. /\ \A t \in Threads : pc[t] = "new"
      /\ \A f \in UserFibers : job[f] = f /\ st[f] = "INIT"
      /\ \A f \in Wrappers : st[f] = "NONE"
      /\ \A j \in Jobs : done[j] = 0
  BY <1>1 DEF Init
<1> QED
  BY <1>1, <1>2 DEF JobInv, RunJobs, QueuedFns, TakenFns, LiveFns, Live

JobsUnlessOvertaken == overtaken \/ (WhereInv /\ JobInv)

\* A job handed to schedule() once never runs to its end twice: it is one entry
\* of the list, one function a thread has taken or one live fiber at a time,
\* until a thread takes a fiber that another has not yet left.
THEOREM JobsRunAtMostOnce == Spec => []RunsAtMostOnce
<1>1. Init => CoreInv /\ JobsUnlessOvertaken
  BY CoreInit, WhereInit, JobInit DEF JobsUnlessOvertaken
<1>2. (CoreInv /\ JobsUnlessOvertaken) /\ [Next]_vars => (CoreInv /\ JobsUnlessOvertaken)'
  BY CoreStep, WhereStep, JobStep, OvertakenStays DEF JobsUnlessOvertaken
<1>3. JobsUnlessOvertaken => RunsAtMostOnce
  BY DEF JobsUnlessOvertaken, JobInv, RunJobs, RunsAtMostOnce
<1> QED
  BY <1>1, <1>2, <1>3, PTL DEF Spec

-----------------------------------------------------------------------------
(* No job is dropped. *)

\* What a thread, the list or a holder has of a job stays, if every entry, every
\* busy thread and every held fiber is still there or came to be somewhere else.
LEMMA KeptOnFiber ==
  ASSUME CoreInv, WhereInv, JobInv, KeptInv, NEW t \in Threads,
         \/ Resume(t) \/ Switch(t) \/ BodyYieldReady(t) \/ BodyArm(t) \/ BodyYieldHold(t) \/ BodyEnd(t)
  PROVE  KeptInv'
<1>1. UNCHANGED <<tasks, cur, job, pinOf>> /\ held \subseteq held' /\ pc[t] \in Busy
  BY
     DEF Resume, Switch, BodyYieldReady, BodyArm, BodyYieldHold, BodyEnd, Running, Busy,
         queueVars, histVars
<1>2. \A u \in Threads : pc[u] \in Busy \cup {"wrap"} => pc'[u] \in Busy \cup {"wrap"}
  <2>1. \E p \in Busy : pc' = [pc EXCEPT ![t] = p]
    BY DEF Resume, Switch, BodyYieldReady, BodyArm, BodyYieldHold, BodyEnd, Busy
  <2> QED
    BY <2>1 DEF CoreInv, TypeOK
<1>3. \A j \in Jobs : done'[j] = 0 => done[j] = 0
  <2>1. CASE BodyEnd(t)
    <3>1. done \in [Jobs -> Nat] /\ done' = [done EXCEPT ![job[cur[t].fib]] = @ + 1]
      BY <2>1 DEF BodyEnd, CoreInv, TypeOK
    <3> QED
      BY <3>1
  <2>2. CASE UNCHANGED done
    BY <2>2
  <2> QED
    BY <2>1, <2>2 DEF Resume, Switch, BodyYieldReady, BodyArm, BodyYieldHold, histVars
<1>4. ASSUME NEW j, Kept(j) PROVE Kept(j)'
  BY <1>1, <1>2, <1>4 DEF Kept, JobOf
<1> QED
  BY <1>1, <1>3, <1>4 DEF KeptInv

LEMMA KeptAdds ==
  ASSUME JobInv, KeptInv, Adds
  PROVE  KeptInv'
<1>1. ASSUME NEW j, Kept(j) PROVE Kept(j)'
  BY <1>1 DEF Kept, JobOf, Adds
<1>2. ASSUME NEW j \in Jobs, pinOf[j] = None, pinOf'[j] # None PROVE Kept(j)'
  <2>1. PICK i \in DOMAIN tasks' : IsTask(tasks'[i], j)
    BY <1>2 DEF Adds
  <2>2. tasks'[i].fib = None \/ (tasks'[i].fib = j /\ job'[j] = j)
    BY <2>1 DEF IsTask, JobInv, RunJobs, Adds
  <2>3. (IF tasks'[i].fib # None THEN job'[tasks'[i].fib] ELSE tasks'[i].fn) = j
    BY <2>1, <2>2, DistinctAssumption DEF IsTask
  <2> QED
    BY <2>3 DEF Kept, JobOf
<1> QED
  BY <1>1, <1>2 DEF KeptInv, Adds

LEMMA KeptWake ==
  ASSUME CoreInv, KeptInv, HolderWake
  PROVE  KeptInv'
<1>1. PICK f \in held : /\ Push(Client, [fib |-> f, fn |-> None, pin |-> AnyThread])
                        /\ held' = held \ {f}
  BY DEF HolderWake
<1> DEFINE x == [fib |-> f, fn |-> None, pin |-> AnyThread]
<1>2. x \in Task /\ x.fib = f /\ f # None
  BY ThreadsAndPins, DistinctAssumption DEF CoreInv, TypeOK, Task
<1> HIDE DEF x
<1>3. tasks \in Seq(Task) /\ tasks' = Append(tasks, x)
  BY <1>1 DEF CoreInv, TypeOK, Push, x
<1>4. /\ Len(tasks) \in Nat /\ DOMAIN tasks = 1..Len(tasks) /\ DOMAIN tasks' = 1..(Len(tasks) + 1)
      /\ \A i \in 1..Len(tasks) : tasks'[i] = tasks[i]
      /\ tasks'[Len(tasks) + 1] = x
  BY <1>2, <1>3, AppendQ
<1>5. /\ DOMAIN tasks \subseteq DOMAIN tasks' /\ Len(tasks) + 1 \in DOMAIN tasks'
      /\ \A i \in DOMAIN tasks : tasks'[i] = tasks[i]
      /\ tasks'[Len(tasks) + 1].fib = f
  BY <1>2, <1>4
<1>6. UNCHANGED <<pc, cur, job, pinOf, done>>
  BY DEF HolderWake, loopVars
<1>7. ASSUME NEW j, Kept(j) PROVE Kept(j)'
  <2>1. CASE job[f] = j
    <3>1. (IF tasks'[Len(tasks) + 1].fib # None THEN job'[tasks'[Len(tasks) + 1].fib]
                                                ELSE tasks'[Len(tasks) + 1].fn) = j
      BY <1>2, <1>5, <1>6, <2>1
    <3>2. \E i \in DOMAIN tasks' : (IF tasks'[i].fib # None THEN job'[tasks'[i].fib] ELSE tasks'[i].fn) = j
      BY <1>5, <3>1, Zenon
    <3> QED
      BY <3>2 DEF Kept, JobOf
  <2>2. CASE job[f] # j
    BY <1>1, <1>5, <1>6, <1>7, <2>2 DEF Kept, JobOf
  <2> QED
    BY <2>1, <2>2
<1> QED
  BY <1>6, <1>7 DEF KeptInv

LEMMA KeptGet ==
  ASSUME CoreInv, KeptInv, NEW t \in Threads, GetNextTask(t)
  PROVE  KeptInv'
<1>1. PICK n \in DOMAIN tasks :
          /\ cur' = [cur EXCEPT ![t] = tasks[n]]
          /\ tasks' = RemoveAt(tasks, n)
          /\ pc' = [pc EXCEPT ![t] = IF tasks[n].fib # None THEN "resume" ELSE "wrap"]
  BY DEF GetNextTask, Candidates, Erase
<1>2. UNCHANGED <<held, job, pinOf, done>> /\ pc[t] = "fetch"
  BY DEF GetNextTask, fiberVars, histVars
<1>3. /\ cur'[t] = tasks[n] /\ pc'[t] \in Busy \cup {"wrap"}
      /\ \A u \in Threads : u # t => pc'[u] = pc[u] /\ cur'[u] = cur[u]
  BY <1>1 DEF CoreInv, TypeOK, Busy
<1>4. /\ Len(tasks) \in Nat /\ DOMAIN tasks = 1..Len(tasks) /\ DOMAIN tasks' = 1..(Len(tasks) - 1)
      /\ \A k \in 1..(Len(tasks) - 1) : tasks'[k] = tasks[IF k < n THEN k ELSE k + 1]
  BY <1>1, EraseQ DEF CoreInv, TypeOK
<1>5. ASSUME NEW i \in DOMAIN tasks, i # n PROVE \E k \in DOMAIN tasks' : tasks'[k] = tasks[i]
  <2>1. CASE i < n
    BY <1>4, <2>1
  <2>2. CASE ~(i < n)
    <3>1. i - 1 \in 1..(Len(tasks) - 1) /\ ~(i - 1 < n) /\ (i - 1) + 1 = i
      BY <1>4, <1>5, <2>2
    <3>2. tasks'[i - 1] = tasks[i]
      BY <1>4, <3>1
    <3> QED
      BY <1>4, <3>1, <3>2
  <2> QED
    BY <2>1, <2>2
<1>6. ASSUME NEW j, Kept(j) PROVE Kept(j)'
  <2>1. ASSUME NEW i \in DOMAIN tasks, JobOf(tasks[i]) = j PROVE Kept(j)'
    <3>1. CASE i = n
      BY <1>2, <1>3, <2>1, <3>1 DEF Kept, JobOf
    <3>2. CASE i # n
      BY <1>2, <1>5, <2>1, <3>2 DEF Kept, JobOf
    <3> QED
      BY <3>1, <3>2
  <2>2. ASSUME NEW u \in Threads, pc[u] \in Busy \cup {"wrap"}, JobOf(cur[u]) = j PROVE Kept(j)'
    <3>1. u # t
      BY <1>2, <2>2 DEF Busy
    <3> QED
      BY <1>2, <1>3, <2>2, <3>1 DEF Kept, JobOf
  <2>3. CASE \E f \in held : job[f] = j
    BY <1>2, <2>3 DEF Kept
  <2> QED
    BY <1>6, <2>1, <2>2, <2>3 DEF Kept
<1> QED
  BY <1>2, <1>6 DEF KeptInv

LEMMA KeptWrap ==
  ASSUME CoreInv, WhereInv, KeptInv, NEW t \in Threads, Wrap(t)
  PROVE  KeptInv'
<1>1. PICK f \in Wrappers :
            /\ \/ cbFiber[t] = f /\ st[f] = "TERM"
               \/ st[f] = "NONE"
            /\ f \in Fibers /\ f # None /\ f \notin UserFibers
            /\ cur'[t].fib = f
            /\ \A u \in Threads : u # t => cur'[u] = cur[u]
            /\ job' = [job EXCEPT ![f] = cur[t].fn]
  BY WrapFacts DEF CoreInv
<1>2. /\ UNCHANGED <<tasks, held, pinOf, done>> /\ pc' = [pc EXCEPT ![t] = "resume"]
      /\ cur[t].fib = None /\ pc[t] = "wrap"
  BY DEF Wrap, queueVars, histVars, CoreInv, ShapeInv, Busy
<1>3. Nowhere(f)
  <2>1. CASE st[f] = "NONE"
    BY <2>1 DEF WhereInv, FreshInv
  <2>2. CASE cbFiber[t] = f /\ st[f] = "TERM"
    BY <1>1, <1>2, <2>2 DEF WhereInv, OwnInv, Queued, Nowhere
  <2> QED
    BY <1>1, <2>1, <2>2
<1>4. /\ job'[f] = cur[t].fn /\ \A g \in Fibers : g # f => job'[g] = job[g]
      /\ pc'[t] \in Busy \cup {"wrap"} /\ \A u \in Threads : u # t => pc'[u] = pc[u]
  BY <1>1, <1>2 DEF CoreInv, TypeOK, Busy
<1>5. /\ \A u \in Threads : cur[u].fib \in Fibers \cup {None}
      /\ \A i \in DOMAIN tasks : tasks[i].fib \in Fibers \cup {None}
      /\ held \subseteq Fibers
  <2>1. \A i \in DOMAIN tasks : tasks[i] \in Task
    BY ElementOfSeq, LenProperties DEF CoreInv, TypeOK
  <2>2. held \subseteq Fibers /\ \A u \in Threads : cur[u] \in Task
    BY DEF CoreInv, TypeOK
  <2> QED
    BY <2>1, <2>2 DEF Task
<1>6. ASSUME NEW j, Kept(j) PROVE Kept(j)'
  <2>1. ASSUME NEW i \in DOMAIN tasks, JobOf(tasks[i]) = j PROVE Kept(j)'
    <3>1. (IF tasks'[i].fib # None THEN job'[tasks'[i].fib] ELSE tasks'[i].fn) = j
      BY <1>2, <1>3, <1>4, <1>5, <2>1 DEF JobOf, Nowhere
    <3> QED
      BY <1>2, <3>1 DEF Kept, JobOf
  <2>2. ASSUME NEW u \in Threads, pc[u] \in Busy \cup {"wrap"}, JobOf(cur[u]) = j PROVE Kept(j)'
    <3>1. (IF cur'[u].fib # None THEN job'[cur'[u].fib] ELSE cur'[u].fn) = j
      <4>1. CASE u = t
        BY <1>1, <1>2, <1>4, <2>2, <4>1 DEF JobOf
      <4>2. CASE u # t
        BY <1>1, <1>3, <1>4, <1>5, <2>2, <4>2 DEF JobOf, Nowhere
      <4> QED
        BY <4>1, <4>2
    <3>2. pc'[u] \in Busy \cup {"wrap"}
      BY <1>4, <2>2
    <3> QED
      BY <3>1, <3>2 DEF Kept, JobOf
  <2>3. ASSUME NEW g \in held, job[g] = j PROVE Kept(j)'
    <3>1. job'[g] = j
      BY <1>3, <1>4, <1>5, <2>3 DEF Nowhere
    <3> QED
      BY <1>2, <3>1 DEF Kept
  <2> QED
    BY <1>6, <2>1, <2>2, <2>3 DEF Kept
<1> QED
  BY <1>2, <1>6 DEF KeptInv

LEMMA KeptSettle ==
  ASSUME CoreInv, WhereInv, JobInv, KeptInv, NEW t \in Threads, Settle(t)
  PROVE  KeptInv'
<1> DEFINE f == cur[t].fib
           x == [fib |-> f, fn |-> None, pin |-> IF cur[t].fn # None THEN AnyThread ELSE cur[t].pin]
<1>1. cur[t] \in Task /\ pc[t] = "settle" /\ f # None
  BY DEF CoreInv, TypeOK, Settle, ShapeInv, Busy
<1>2. x \in Task /\ x.fib = f /\ f \in Fibers
  BY <1>1, ThreadsAndPins DEF Task
<1>3. /\ st[f] \in {"READY", "HOLD", "TERM", "EXCEPT"}
      /\ st[f] = "HOLD" <=> f \in held \/ Queued(f)
      /\ st[f] \in {"TERM", "EXCEPT"} => done[job[f]] = 1
  BY <1>1, <1>2 DEF WhereInv, AtInv, JobInv, RunJobs
<1>4. \/ st[f] = "READY" /\ tasks' = Append(tasks, x)
      \/ st[f] # "READY" /\ tasks' = tasks
  BY DEF Settle, QueuedAgain, Push, queueVars
<1>5. /\ UNCHANGED <<held, job, pinOf, done>>
      /\ cur' = [cur EXCEPT ![t] = NoTask] /\ pc' = [pc EXCEPT ![t] = "fetch"]
  BY DEF Settle, fiberVars, histVars
<1> HIDE DEF x
<1>6. \A u \in Threads : u # t => pc'[u] = pc[u] /\ cur'[u] = cur[u]
  BY <1>5 DEF CoreInv, TypeOK
<1>7. /\ DOMAIN tasks \subseteq DOMAIN tasks'
      /\ \A i \in DOMAIN tasks : tasks'[i] = tasks[i]
      /\ st[f] = "READY" => \E i \in DOMAIN tasks' : tasks'[i] = x
  <2>1. CASE st[f] # "READY" /\ tasks' = tasks
    BY <2>1
  <2>2. CASE st[f] = "READY" /\ tasks' = Append(tasks, x)
    <3>1. /\ Len(tasks) \in Nat /\ DOMAIN tasks = 1..Len(tasks) /\ DOMAIN tasks' = 1..(Len(tasks) + 1)
          /\ \A i \in 1..Len(tasks) : tasks'[i] = tasks[i]
          /\ tasks'[Len(tasks) + 1] = x
      BY <1>2, <2>2, AppendQ DEF CoreInv, TypeOK
    <3>2. Len(tasks) + 1 \in DOMAIN tasks' /\ DOMAIN tasks \subseteq DOMAIN tasks'
      BY <3>1
    <3> QED
      BY <3>1, <3>2
  <2> QED
    BY <1>4, <2>1, <2>2
<1>8. ASSUME NEW j, Kept(j), done[j] = 0 PROVE Kept(j)'
  <2>1. ASSUME NEW i \in DOMAIN tasks, JobOf(tasks[i]) = j PROVE Kept(j)'
    BY <1>5, <1>7, <2>1 DEF Kept, JobOf
  <2>2. ASSUME NEW u \in Threads, pc[u] \in Busy \cup {"wrap"}, JobOf(cur[u]) = j PROVE Kept(j)'
    <3>1. CASE u # t
      BY <1>5, <1>6, <2>2, <3>1 DEF Kept, JobOf
    <3>2. CASE u = t
      <4>1. job[f] = j
        BY <1>1, <2>2, <3>2 DEF JobOf
      <4>2. CASE st[f] = "READY"
        <5>1. PICK i \in DOMAIN tasks' : tasks'[i] = x
          BY <1>7, <4>2
        <5>2. (IF tasks'[i].fib # None THEN job'[tasks'[i].fib] ELSE tasks'[i].fn) = j
          BY <1>1, <1>2, <1>5, <4>1, <5>1
        <5> QED
          BY <5>2 DEF Kept, JobOf
      <4>3. CASE st[f] = "HOLD"
        <5>1. CASE f \in held
          <6>1. \E g \in held' : job'[g] = j
            BY <1>5, <4>1, <5>1
          <6> QED
            BY <6>1 DEF Kept
        <5>2. CASE Queued(f)
          <6>1. \E i \in DOMAIN tasks : JobOf(tasks[i]) = j
            BY <1>1, <4>1, <5>2 DEF Queued, JobOf
          <6> QED
            BY <2>1, <6>1
        <5> QED
          BY <1>3, <4>3, <5>1, <5>2
      <4>4. CASE st[f] \in {"TERM", "EXCEPT"}
        BY <1>3, <1>8, <4>1, <4>4
      <4> QED
        BY <1>3, <4>2, <4>3, <4>4
    <3> QED
      BY <3>1, <3>2
  <2>3. CASE \E g \in held : job[g] = j
    BY <1>5, <2>3 DEF Kept
  <2> QED
    BY <1>8, <2>1, <2>2, <2>3 DEF Kept
<1> QED
  BY <1>5, <1>8 DEF KeptInv

LEMMA KeptStep ==
  ASSUME CoreInv, WhereInv, JobInv, KeptInv, [Next]_vars
  PROVE  KeptInv'
<1>1. TypeOK /\ LifeInv
  BY DEF CoreInv
<1>2. CASE PcSteps
  BY <1>1, <1>2, PcStepsOnly, PcOnlyKeeps
<1>3. CASE WorkSteps
  BY <1>1, <1>3, KeptOnFiber, NewJobs, KeptAdds, KeptWake, KeptGet, KeptWrap, KeptSettle
     DEF WorkSteps
<1> QED
  BY <1>2, <1>3, TwoSorts

AllOut == \A t \in Threads : pc[t] = "exited"

\* The last thread that leaves run() has found the list empty.
LEMMA LastLeaves ==
  ASSUME CoreInv, [Next]_vars, ~AllOut, AllOut'
  PROVE  tasks' = <<>>
<1>0. /\ pc \in [Threads -> {"new", "register", "fetch", "wrap", "resume", "exec",
                          "armed", "instop", "switch", "settle", "idle",
                          "block", "asleep", "check", "exited"}]
  BY DEF CoreInv, TypeOK
<1>1. PICK u \in Threads : pc[u] # "exited" /\ pc'[u] = "exited"
  BY DEF AllOut
<1>2. CASE WorkSteps
  BY <1>0, <1>1, <1>2, WorkMoves DEF Busy, CoreInv
<1>3. CASE Start \/ StopBegin \/ Stop \/ UNCHANGED vars
  BY <1>0, <1>1, <1>3 DEF Start, StopBegin, Stop, StopLock, StopNotify, StopJoin, vars, loopVars
<1>4. ASSUME NEW a \in Threads \cup {Client}, Notify(a) PROVE tasks' = <<>>
  BY <1>0, <1>1, <1>4 DEF Notify
<1>5. ASSUME NEW t \in Threads, \/ Register(t) \/ NoTaskFound(t) \/ IdleEnter(t) \/ Block(t)
                                \/ SpuriousWakeup(t) \/ BodyStop(t)
      PROVE  tasks' = <<>>
  BY <1>0, <1>1, <1>5 DEF Register, NoTaskFound, IdleEnter, Block, SpuriousWakeup, BodyStop
<1>6. ASSUME NEW t \in Threads, IdleCheck(t) PROVE tasks' = <<>>
  BY <1>0, <1>1, <1>6 DEF IdleCheck, IdleLeaves, queueVars
<1> QED
  BY <1>2, <1>3, <1>4, <1>5, <1>6, TwoSorts DEF PcSteps

\* Once all have left, only a client or a holder adds to the list, too late.
LEMMA LeftAdds ==
  ASSUME CoreInv, LeaveInv, [Next]_vars, AllOut
  PROVE  LeaveInv'
<1>0. stopping /\ TypeOK
  BY ThreadsAssumption DEF CoreInv, LifeInv, AllOut
<1>1. \A i \in DOMAIN tasks : JobOf(tasks[i]) \in late
  BY DEF LeaveInv, AllOut
<1>2. ASSUME UNCHANGED <<tasks, job, late>> PROVE LeaveInv'
  BY <1>1, <1>2 DEF LeaveInv, JobOf
<1>3. CASE PcSteps
  <2>1. UNCHANGED <<tasks, job>>
    BY <1>0, <1>3, PcStepsOnly DEF PcOnly, CoreInv
  <2>2. UNCHANGED late
    BY <1>3
       DEF PcSteps, Start, StopBegin, Stop, StopLock, StopNotify, StopJoin, vars, Notify, Register,
       NoTaskFound, IdleEnter, Block, IdleCheck, SpuriousWakeup, BodyStop, histVars
  <2> QED
    BY <1>2, <2>1, <2>2
<1>4. ASSUME NEW a, NEW x \in Task, Push(a, x), UNCHANGED job, JobOf(x) \in late', late \subseteq late'
      PROVE  LeaveInv'
  <2>1. \A i \in DOMAIN tasks' : tasks'[i] = x \/ \E k \in DOMAIN tasks : tasks'[i] = tasks[k]
    BY <1>0, <1>4, PushItems
  <2>2. \A i \in DOMAIN tasks' : JobOf(tasks'[i]) \in late'
    BY <1>1, <1>4, <2>1
  <2> QED
    BY <1>4, <2>2 DEF LeaveInv, JobOf
<1>5. CASE ClientSchedule
  <2>1. PICK j \in Jobs, p \in PinChoices : Push(Client, TaskOf(j, p)) /\ Record(j, p, stopping)
    BY <1>5 DEF ClientSchedule
  <2>2. TaskOf(j, p) \in Task /\ late' = late \cup {j} /\ UNCHANGED job
    BY <1>0, <1>5, <2>1, PinsOK, TaskOfType DEF Record, ClientSchedule, fiberVars
  <2>3. JobOf(TaskOf(j, p)) = j
    BY DistinctAssumption DEF JobOf, TaskOf, CoreInv, BornInv, Fibers
  <2> QED
    BY <1>4, <2>1, <2>2, <2>3
<1>6. CASE ClientBatch
  <2>1. PICK j \in Jobs, k \in Jobs :
          /\ tasks' = tasks \o <<TaskOf(j, AnyThread), TaskOf(k, AnyThread)>>
          /\ late' = IF stopping THEN late \cup {j, k} ELSE late
    BY <1>6 DEF ClientBatch
  <2> DEFINE x == TaskOf(j, AnyThread)
             y == TaskOf(k, AnyThread)
  <2>2. x \in Task /\ y \in Task /\ JobOf(x) = j /\ JobOf(y) = k
    BY ThreadsAndPins, TaskOfType, DistinctAssumption DEF JobOf, TaskOf, CoreInv, BornInv, Fibers
  <2> HIDE DEF x, y
  <2>3. tasks' = tasks \o <<x, y>> /\ tasks \in Seq(Task) /\ UNCHANGED job
    BY <1>0, <1>6, <2>1 DEF x, y, TypeOK, ClientBatch, fiberVars
  <2>4. /\ Len(tasks) \in Nat /\ DOMAIN tasks = 1..Len(tasks) /\ DOMAIN tasks' = 1..(Len(tasks) + 2)
        /\ \A i \in 1..Len(tasks) : tasks'[i] = tasks[i]
        /\ tasks'[Len(tasks) + 1] = x /\ tasks'[Len(tasks) + 2] = y
    BY <2>2, <2>3, AppendTwo
  <2>5. \A i \in DOMAIN tasks' : i \in DOMAIN tasks \/ i = Len(tasks) + 1 \/ i = Len(tasks) + 2
    BY <2>4
  <2>6. late \subseteq late' /\ JobOf(x) \in late' /\ JobOf(y) \in late'
    BY <1>0, <2>1, <2>2
  <2>7. \A i \in DOMAIN tasks' : JobOf(tasks'[i]) \in late'
    BY <1>1, <2>4, <2>5, <2>6
  <2> QED
    BY <2>3, <2>7 DEF LeaveInv, JobOf
<1>7. CASE HolderWake
  <2>1. PICK f \in held : /\ Push(Client, [fib |-> f, fn |-> None, pin |-> AnyThread])
                          /\ late' = IF stopping THEN late \cup {job[f]} ELSE late
    BY <1>7 DEF HolderWake
  <2> DEFINE x == [fib |-> f, fn |-> None, pin |-> AnyThread]
  <2>2. x \in Task /\ JobOf(x) = job[f]
    BY <1>0, ThreadsAndPins, DistinctAssumption DEF TypeOK, Task, JobOf
  <2> HIDE DEF x
  <2>3. Push(Client, x) /\ UNCHANGED job /\ JobOf(x) \in late' /\ late \subseteq late'
    BY <1>0, <1>7, <2>1, <2>2 DEF x, HolderWake
  <2> QED
    BY <1>4, <2>2, <2>3
<1>8. ASSUME NEW t \in Threads, \/ GetNextTask(t) \/ Wrap(t) \/ Resume(t) \/ Switch(t) \/ Settle(t)
                                \/ BodySchedule(t) \/ BodyYieldReady(t) \/ BodyArm(t)
                                \/ BodyYieldHold(t) \/ BodyEnd(t)
      PROVE  FALSE
  BY <1>8
     DEF AllOut, GetNextTask, Wrap, Resume, Switch, Settle, BodySchedule, BodyYieldReady, BodyArm,
     BodyYieldHold, BodyEnd, Running
<1> QED
  BY <1>3, <1>5, <1>6, <1>7, <1>8, TwoSorts DEF WorkSteps

LEMMA LeaveStep ==
  ASSUME CoreInv, LeaveInv, [Next]_vars
  PROVE  LeaveInv'
<1>1. CASE AllOut
  BY <1>1, LeftAdds
<1>2. CASE ~AllOut /\ AllOut'
  <2>1. DOMAIN tasks' = {}
    BY <1>2, LastLeaves
  <2> QED
    BY <2>1 DEF LeaveInv
<1>3. CASE ~AllOut'
  BY <1>3 DEF LeaveInv, AllOut
<1> QED
  BY <1>1, <1>2, <1>3

DrainInv == CoreInv /\ LeaveInv /\ (overtaken \/ (WhereInv /\ JobInv /\ KeptInv))

\* stop() and ~Scheduler() drain the list: when the last thread has left run(),
\* every job scheduled before the stop, or by a task during it, has run or is
\* with a holder, unless a thread took a fiber that another had not yet left.
THEOREM StopDrains == Spec => []Drained
<1>1. Init => DrainInv
  <2>1. Init => KeptInv /\ LeaveInv
    <3>1. Init => DOMAIN tasks = {} /\ \A j \in Jobs : pinOf[j] = None
      BY DEF Init
    <3> QED
      BY <3>1 DEF KeptInv, LeaveInv
  <2> QED
    BY <2>1, CoreInit, WhereInit, JobInit DEF DrainInv
<1>2. DrainInv /\ [Next]_vars => DrainInv'
  BY CoreStep, WhereStep, JobStep, KeptStep, LeaveStep, OvertakenStays DEF DrainInv
<1>3. DrainInv => Drained
  <2> SUFFICES ASSUME DrainInv, ~overtaken, \A t \in Threads : pc[t] = "exited",
                      NEW j \in Jobs, pinOf[j] # None, j \notin late
               PROVE  done[j] = 1 \/ \E f \in held : job[f] = j
    BY DEF Drained
  <2>1. done[j] \in {0, 1}
    BY DEF DrainInv, JobInv, RunJobs
  <2>2. CASE done[j] = 0
    <3>1. Kept(j)
      BY <2>2 DEF DrainInv, KeptInv
    <3>2. \A i \in DOMAIN tasks : JobOf(tasks[i]) # j
      BY DEF DrainInv, LeaveInv
    <3> QED
      BY <3>1, <3>2 DEF Kept, Busy
  <2> QED
    BY <2>1, <2>2
<1> QED
  BY <1>1, <1>2, <1>3, PTL DEF Spec
=============================================================================
