-------------------------- MODULE HttpServer_proofs --------------------------
(***************************************************************************)
(* Proofs about the HTTP server: about TcpServer, which HttpServer is      *)
(* derived from, for every number of threads, listeners, accept loops and  *)
(* clients, wherever the callers run; and about Http, a connection between *)
(* such a server and a client, for every limit, servlet, route and number  *)
(* of requests, however the bytes are cut.                                 *)
(***************************************************************************)
EXTENDS TcpServer, Http, SequenceTheorems, WellFoundedInduction, NaturalsInduction, TLAPS

-----------------------------------------------------------------------------
(* The listening sockets of TcpServer. *)


\* Calls whose local vector holds the only references to its sockets.
Owner(t) == pc[t] \in {"commit", "close"}

\* The inductive invariant's parts.  A client counts once: no backlog is longer
\* than the number of clients.
BacklogOK == \A l \in Listeners : backlog[l] <= clients

\* start() has something to launch until the last loop is there.
LaunchOK == \A t \in Threads : pc[t] = "launch" => mine[t] # {}

\* A loop that has taken a client since stopped_ was set looks at stopped_ next
\* or has ended, and start() forgets the count.
LateOK ==
    \A k \in Loops :
        \/ late[k] = 0
        \/ late[k] = 1 /\ clients > 0 /\ stopped /\ loop[k].at \in {"check", "done"}

\* Every open socket belongs to the server, to a bind() or stop() in progress or
\* to a closeListeners() task.
OwnedOK ==
    \A l \in open : \/ l \in listeners
                    \/ \E S \in tasks : l \in S
                    \/ \E t \in Threads : Owner(t) /\ l \in mine[t]

\* No socket has two owners: listeners_, a call in progress and a
\* closeListeners() task never hold the same one, so it is closed once and never
\* after its descriptor number may have been given to somebody else.
OneOwner ==
    /\ listeners \cap fresh = {}
    /\ \A S \in tasks : S \cap (listeners \cup fresh) = {}
    /\ \A S, T \in tasks : S # T => S \cap T = {}
    /\ \A t \in Threads : Owner(t) =>
          /\ mine[t] \cap (listeners \cup fresh) = {}
          /\ \A S \in tasks : S \cap mine[t] = {}
          /\ \A u \in Threads : Owner(u) /\ u # t => mine[t] \cap mine[u] = {}

\* A socket that bind() has not committed yet has no accept loop.
PrivateOK ==
    /\ \A k \in Loops : loop[k].on \cap fresh = {}
    /\ \A u \in Threads : pc[u] = "launch" => mine[u] \cap fresh = {}
    /\ \A t \in Threads : pc[t] = "commit" =>
          /\ \A k \in Loops : mine[t] \cap loop[k].on = {}
          /\ \A u \in Threads : pc[u] = "launch" => mine[t] \cap mine[u] = {}

\* Initially nothing is open.
LEMMA InitInv == Init => TypeOK /\ BacklogOK /\ LaunchOK /\ LateOK /\ OwnedOK /\ OneOwner /\ PrivateOK
  BY ConstantsAssumption
  DEF Init, TypeOK, BacklogOK, LaunchOK, LateOK, OwnedOK, OneOwner, PrivateOK, Owner, NoLoop

\* The types, and what they need: backlogs and late clients are counted clients.
LEMMA TypeStep ==
  ASSUME TypeOK, BacklogOK, LaunchOK, LateOK, [Next]_vars
  PROVE  TypeOK'
<1> USE ConstantsAssumption DEF TypeOK, BacklogOK, LaunchOK, LateOK
<1>1. ASSUME NEW t \in Threads, BindOpen(t) PROVE TypeOK'
  BY <1>1 DEF BindOpen, Enter, OpenListeners, history
<1>2. ASSUME NEW t \in Threads, BindCommit(t) PROVE TypeOK'
  BY <1>2 DEF BindCommit, Discard, Leave, history
<1>3. ASSUME NEW t \in Threads, Start(t) PROVE TypeOK'
  <2>1. late' \in [Loops -> 0..MaxClients]
    BY <1>3 DEF Start
  <2>2. /\ pc' \in [Threads -> {"idle", "commit", "launch", "swap", "close"}]
        /\ ops' \in [Threads -> 0..MaxOps] /\ mine' \in [Threads -> SUBSET Listeners]
    BY <1>3 DEF Start, Enter
  <2> QED
    BY <1>3, <2>1, <2>2 DEF Start, history
<1>4. ASSUME NEW t \in Threads, Launch(t) PROVE TypeOK'
  <2> DEFINE l == CHOOSE x \in mine[t] : TRUE
             k == CHOOSE x \in Loops : loop[x] = NoLoop
  <2>1. l \in mine[t] /\ l \in Listeners /\ k \in Loops
    BY <1>4 DEF Launch
  <2> HIDE DEF l, k
  <2>2. /\ loop' = [loop EXCEPT ![k] = [on |-> {l}, at |-> "check", new |-> FALSE]]
        /\ mine' = [mine EXCEPT ![t] = mine[t] \ {l}]
        /\ pc' = [pc EXCEPT ![t] = IF mine[t] = {l} THEN "idle" ELSE "launch"]
    BY <1>4, Zenon DEF Launch, l, k
  <2>3. loop' \in [Loops -> [on : SUBSET Listeners,
                           at : {"free", "check", "accept", "call", "add", "waiting", "woken",
                                 "done"},
                           new : BOOLEAN]]
    BY <2>1, <2>2
  <2>4. /\ mine' \in [Threads -> SUBSET Listeners]
        /\ pc' \in [Threads -> {"idle", "commit", "launch", "swap", "close"}]
    BY <2>2
  <2> QED
    BY <1>4, <2>3, <2>4 DEF Launch, history
<1>5. ASSUME NEW t \in Threads, StopExchange(t) PROVE TypeOK'
  BY <1>5 DEF StopExchange, Enter, history
<1>6. ASSUME NEW t \in Threads, StopSwap(t) PROVE TypeOK'
  BY <1>6 DEF StopSwap, history
<1>7. ASSUME NEW t \in Threads, StopSchedules(t) PROVE TypeOK'
  BY <1>7 DEF StopSchedules, Leave, history
<1>8. ASSUME NEW t \in Threads, StopCloses(t) PROVE TypeOK'
  <2>1. PICK l \in Listeners :
          \/ CloseHook(l, t \in Inside) /\ UNCHANGED <<open, backlog, mine, pc, running>>
          \/ CloseFile(l) /\ GoOn(t, l) /\ UNCHANGED <<fdctx, loop, bare>>
    BY <1>8, Zenon DEF StopCloses
  <2>2. CASE CloseHook(l, t \in Inside) /\ UNCHANGED <<open, backlog, mine, pc, running>>
    BY <1>8, <2>2, SMTT(30) DEF StopCloses, CloseHook, CloseMark, CloseCancel, CloseDelete
  <2>3. CASE CloseFile(l) /\ GoOn(t, l) /\ UNCHANGED <<fdctx, loop, bare>>
    <3>1. /\ mine' = [mine EXCEPT ![t] = mine[t] \ {l}]
          /\ \E v \in {"idle", "close"} : pc' = [pc EXCEPT ![t] = v]
          /\ \E v \in BOOLEAN : running' = [running EXCEPT ![t] = v]
      BY <2>3 DEF GoOn
    <3>2. mine' \in [Threads -> SUBSET Listeners] /\ running' \in [Threads -> BOOLEAN]
      BY <3>1
    <3> QED
      BY <1>8, <2>3, <3>1, <3>2 DEF StopCloses, CloseFile, Discard
  <2> QED
    BY <2>1, <2>2, <2>3
<1>9. ASSUME NEW S \in tasks, TaskCloses(S) PROVE TypeOK'
  BY <1>9 DEF TaskCloses, callVars, CloseHook, CloseMark, CloseCancel, CloseDelete, CloseFile, Discard, Turn
<1>10. ASSUME NEW k \in Loops, LoopCheck(k) PROVE TypeOK'
  <2>1. \E w \in {"accept", "done"} : loop' = [loop EXCEPT ![k].at = w]
    BY <1>10 DEF LoopCheck, Goto
  <2> QED
    BY <1>10, <2>1 DEF LoopCheck, loopOnly, callVars
<1>11. ASSUME NEW k \in Loops, AcceptBegins(k) PROVE TypeOK'
  <2>1. PICK l \in loop[k].on :
          \/ loop' = [loop EXCEPT ![k].at = "done"] /\ fdctx' = fdctx
          \/ /\ loop' = [loop EXCEPT ![k] = [on |-> loop[k].on, at |-> "call",
                                             new |-> (fdctx[l] = "deleted")]]
             /\ fdctx' = [fdctx EXCEPT ![l] = IF fdctx[l] = "none" THEN "live" ELSE fdctx[l]]
    BY <1>11, Zenon DEF AcceptBegins, Goto
  <2>2. l \in Listeners /\ (fdctx[l] = "deleted") \in BOOLEAN
    OBVIOUS
  <2>3. fdctx' \in [Listeners -> {"none", "live", "marked", "cancelled", "deleted"}]
    BY <2>1, <2>2
  <2>4. loop' \in [Loops -> [on : SUBSET Listeners,
                           at : {"free", "check", "accept", "call", "add", "waiting", "woken",
                                 "done"},
                           new : BOOLEAN]]
    <3>1. CASE loop' = [loop EXCEPT ![k].at = "done"]
      BY <3>1
    <3>2. CASE loop' = [loop EXCEPT ![k] = [on |-> loop[k].on, at |-> "call",
                                            new |-> (fdctx[l] = "deleted")]]
      <4>1. [on |-> loop[k].on, at |-> "call", new |-> (fdctx[l] = "deleted")]
              \in [on : SUBSET Listeners,
                   at : {"free", "check", "accept", "call", "add", "waiting", "woken", "done"},
                   new : BOOLEAN]
        BY <2>2
      <4> QED
        BY <3>2, <4>1, Zenon
    <3> QED
      BY <2>1, <3>1, <3>2
  <2> QED
    BY <1>11, <2>3, <2>4 DEF AcceptBegins, loopOnly, callVars
<1>12. ASSUME NEW k \in Loops, Accept(k) PROVE TypeOK'
  <2>1. backlog' \in [Listeners -> 0..MaxClients]
    BY <1>12 DEF Accept
  <2>2. late' \in [Loops -> 0..MaxClients]
    <3> DEFINE more == IF stopped THEN late[k] + 1 ELSE late[k]
    <3>1. \/ late' = late
          \/ \E l \in loop[k].on : backlog[l] > 0 /\ late' = [late EXCEPT ![k] = more]
      BY <1>12, Zenon DEF Accept
    <3>2. CASE \E l \in loop[k].on : backlog[l] > 0 /\ late' = [late EXCEPT ![k] = more]
      <4>1. PICK l \in loop[k].on : backlog[l] > 0 /\ late' = [late EXCEPT ![k] = more]
        BY <3>2
      <4>2. late[k] = 0 /\ l \in Listeners
        BY <1>12 DEF Accept, At
      <4>3. 1 \in 0..MaxClients
        BY <4>1, <4>2
      <4>4. more \in 0..MaxClients
        BY <4>2, <4>3
      <4> QED
        BY <4>1, <4>4
    <3> QED
      BY <3>1, <3>2
  <2>3. \E w \in {"check", "done", "add"} : loop' = [loop EXCEPT ![k].at = w]
    BY <1>12 DEF Accept, Goto
  <2>4. loop' \in [Loops -> [on : SUBSET Listeners,
                           at : {"free", "check", "accept", "call", "add", "waiting", "woken",
                                 "done"},
                           new : BOOLEAN]]
    BY <2>3
  <2> QED
    BY <1>12, <2>1, <2>2, <2>4 DEF Accept, loopOnly, callVars
<1>13. ASSUME NEW k \in Loops, AcceptFails(k) PROVE TypeOK'
  <2>1. \E w \in {"check", "done"} : loop' = [loop EXCEPT ![k].at = w]
    BY <1>13 DEF AcceptFails, Goto, Failed
  <2> QED
    BY <1>13, <2>1 DEF AcceptFails, loopOnly, callVars
<1>14. ASSUME NEW k \in Loops, AddEvent(k) PROVE TypeOK'
  <2>1. \E w \in {"check", "done", "waiting"} : loop' = [loop EXCEPT ![k].at = w]
    BY <1>14 DEF AddEvent, Goto, Failed
  <2> QED
    BY <1>14, <2>1 DEF AddEvent, loopOnly, callVars
<1>15. ASSUME NEW k \in Loops, Wake(k) PROVE TypeOK'
  BY <1>15 DEF Wake, callVars, loopOnly, Goto, At
<1>16. ASSUME NEW k \in Loops, Woken(k) PROVE TypeOK'
  <2>1. \E w \in {"call", "done"} : loop' = [loop EXCEPT ![k].at = w]
    BY <1>16 DEF Woken, Goto
  <2> QED
    BY <1>16, <2>1 DEF Woken, loopOnly, callVars
<1>17. ASSUME NEW l \in Listeners, Connect(l) PROVE TypeOK'
  BY <1>17 DEF Connect, callVars, history
<1>18. CASE UNCHANGED vars
  BY <1>18 DEF vars, callVars, history
<1> QED
  BY <1>1, <1>2, <1>3, <1>4, <1>5, <1>6, <1>7, <1>8, <1>9,
     <1>10, <1>11, <1>12, <1>13, <1>14, <1>15, <1>16, <1>17, <1>18
     DEF Next, Stop, StartAccept, CloseTask

\* A client counts once, wherever it connects.
LEMMA BacklogStep ==
  ASSUME TypeOK, BacklogOK, [Next]_vars
  PROVE  BacklogOK'
<1> USE DEF TypeOK, BacklogOK
<1>1. ASSUME NEW t \in Threads, BindOpen(t) PROVE BacklogOK'
  BY <1>1 DEF BindOpen, Enter, OpenListeners, history
<1>2. ASSUME NEW t \in Threads, BindCommit(t) PROVE BacklogOK'
  BY <1>2 DEF BindCommit, Discard, Leave, history
<1>3. ASSUME NEW t \in Threads, Start(t) PROVE BacklogOK'
  BY <1>3 DEF Start, Enter, history
<1>4. ASSUME NEW t \in Threads, Launch(t) PROVE BacklogOK'
  BY <1>4 DEF Launch, history
<1>5. ASSUME NEW t \in Threads, StopExchange(t) PROVE BacklogOK'
  BY <1>5 DEF StopExchange, Enter, history
<1>6. ASSUME NEW t \in Threads, StopSwap(t) PROVE BacklogOK'
  BY <1>6 DEF StopSwap, history
<1>7. ASSUME NEW t \in Threads, StopSchedules(t) PROVE BacklogOK'
  BY <1>7 DEF StopSchedules, Leave, history
<1>8. ASSUME NEW t \in Threads, StopCloses(t) PROVE BacklogOK'
  <2>1. PICK l \in Listeners :
          \/ CloseHook(l, t \in Inside) /\ UNCHANGED <<open, backlog, mine, pc, running>>
          \/ CloseFile(l) /\ GoOn(t, l) /\ UNCHANGED <<fdctx, loop, bare>>
    BY <1>8, Zenon DEF StopCloses
  <2>2. CASE CloseHook(l, t \in Inside) /\ UNCHANGED <<open, backlog, mine, pc, running>>
    BY <1>8, <2>2 DEF StopCloses, CloseHook, CloseMark, CloseCancel, CloseDelete
  <2>3. CASE CloseFile(l) /\ GoOn(t, l) /\ UNCHANGED <<fdctx, loop, bare>>
    BY <1>8, <2>3 DEF StopCloses, CloseFile, Discard, GoOn
  <2> QED
    BY <2>1, <2>2, <2>3
<1>9. ASSUME NEW S \in tasks, TaskCloses(S) PROVE BacklogOK'
  BY <1>9 DEF TaskCloses, callVars, CloseHook, CloseMark, CloseCancel, CloseDelete, CloseFile, Discard, Turn
<1>10. ASSUME NEW k \in Loops, LoopCheck(k) PROVE BacklogOK'
  BY <1>10 DEF LoopCheck, callVars, loopOnly, Goto, At
<1>11. ASSUME NEW k \in Loops, AcceptBegins(k) PROVE BacklogOK'
  BY <1>11 DEF AcceptBegins, callVars, loopOnly, Goto, At
<1>12. ASSUME NEW k \in Loops, Accept(k) PROVE BacklogOK'
  BY <1>12 DEF Accept, callVars, loopOnly, Goto, At
<1>13. ASSUME NEW k \in Loops, AcceptFails(k) PROVE BacklogOK'
  BY <1>13 DEF AcceptFails, callVars, loopOnly, Goto, At, Failed
<1>14. ASSUME NEW k \in Loops, AddEvent(k) PROVE BacklogOK'
  BY <1>14 DEF AddEvent, callVars, loopOnly, Goto, At, Failed
<1>15. ASSUME NEW k \in Loops, Wake(k) PROVE BacklogOK'
  BY <1>15 DEF Wake, callVars, loopOnly, Goto, At
<1>16. ASSUME NEW k \in Loops, Woken(k) PROVE BacklogOK'
  BY <1>16 DEF Woken, callVars, loopOnly, Goto, At
<1>17. ASSUME NEW l \in Listeners, Connect(l) PROVE BacklogOK'
  BY <1>17 DEF Connect, callVars, history
<1>18. CASE UNCHANGED vars
  BY <1>18 DEF vars, callVars, history
<1> QED
  BY <1>1, <1>2, <1>3, <1>4, <1>5, <1>6, <1>7, <1>8, <1>9,
     <1>10, <1>11, <1>12, <1>13, <1>14, <1>15, <1>16, <1>17, <1>18
     DEF Next, Stop, StartAccept, CloseTask

\* start() goes on launching while there is a listener left.
LEMMA LaunchStep ==
  ASSUME TypeOK, LaunchOK, [Next]_vars
  PROVE  LaunchOK'
<1> USE DEF TypeOK, LaunchOK
<1>1. ASSUME NEW t \in Threads, BindOpen(t) PROVE LaunchOK'
  BY <1>1 DEF BindOpen, Enter, OpenListeners, history
<1>2. ASSUME NEW t \in Threads, BindCommit(t) PROVE LaunchOK'
  BY <1>2 DEF BindCommit, Discard, Leave, history
<1>3. ASSUME NEW t \in Threads, Start(t) PROVE LaunchOK'
  BY <1>3 DEF Start, Enter, history
<1>4. ASSUME NEW t \in Threads, Launch(t) PROVE LaunchOK'
  BY <1>4 DEF Launch, history
<1>5. ASSUME NEW t \in Threads, StopExchange(t) PROVE LaunchOK'
  BY <1>5 DEF StopExchange, Enter, history
<1>6. ASSUME NEW t \in Threads, StopSwap(t) PROVE LaunchOK'
  BY <1>6 DEF StopSwap, history
<1>7. ASSUME NEW t \in Threads, StopSchedules(t) PROVE LaunchOK'
  BY <1>7 DEF StopSchedules, Leave, history
<1>8. ASSUME NEW t \in Threads, StopCloses(t) PROVE LaunchOK'
  <2>1. PICK l \in Listeners :
          \/ CloseHook(l, t \in Inside) /\ UNCHANGED <<open, backlog, mine, pc, running>>
          \/ CloseFile(l) /\ GoOn(t, l) /\ UNCHANGED <<fdctx, loop, bare>>
    BY <1>8, Zenon DEF StopCloses
  <2>2. CASE CloseHook(l, t \in Inside) /\ UNCHANGED <<open, backlog, mine, pc, running>>
    BY <1>8, <2>2 DEF StopCloses, CloseHook, CloseMark, CloseCancel, CloseDelete
  <2>3. CASE CloseFile(l) /\ GoOn(t, l) /\ UNCHANGED <<fdctx, loop, bare>>
    BY <1>8, <2>3 DEF StopCloses, CloseFile, Discard, GoOn
  <2> QED
    BY <2>1, <2>2, <2>3
<1>9. ASSUME NEW S \in tasks, TaskCloses(S) PROVE LaunchOK'
  BY <1>9 DEF TaskCloses, callVars, CloseHook, CloseMark, CloseCancel, CloseDelete, CloseFile, Discard, Turn
<1>10. ASSUME NEW k \in Loops, LoopCheck(k) PROVE LaunchOK'
  BY <1>10 DEF LoopCheck, callVars, loopOnly, Goto, At
<1>11. ASSUME NEW k \in Loops, AcceptBegins(k) PROVE LaunchOK'
  BY <1>11 DEF AcceptBegins, callVars, loopOnly, Goto, At
<1>12. ASSUME NEW k \in Loops, Accept(k) PROVE LaunchOK'
  BY <1>12 DEF Accept, callVars, loopOnly, Goto, At
<1>13. ASSUME NEW k \in Loops, AcceptFails(k) PROVE LaunchOK'
  BY <1>13 DEF AcceptFails, callVars, loopOnly, Goto, At, Failed
<1>14. ASSUME NEW k \in Loops, AddEvent(k) PROVE LaunchOK'
  BY <1>14 DEF AddEvent, callVars, loopOnly, Goto, At, Failed
<1>15. ASSUME NEW k \in Loops, Wake(k) PROVE LaunchOK'
  BY <1>15 DEF Wake, callVars, loopOnly, Goto, At
<1>16. ASSUME NEW k \in Loops, Woken(k) PROVE LaunchOK'
  BY <1>16 DEF Woken, callVars, loopOnly, Goto, At
<1>17. ASSUME NEW l \in Listeners, Connect(l) PROVE LaunchOK'
  BY <1>17 DEF Connect, callVars, history
<1>18. CASE UNCHANGED vars
  BY <1>18 DEF vars, callVars, history
<1> QED
  BY <1>1, <1>2, <1>3, <1>4, <1>5, <1>6, <1>7, <1>8, <1>9,
     <1>10, <1>11, <1>12, <1>13, <1>14, <1>15, <1>16, <1>17, <1>18
     DEF Next, Stop, StartAccept, CloseTask

\* A loop past its check of stopped_ takes one client at most.
LEMMA LateStep ==
  ASSUME TypeOK, BacklogOK, LateOK, [Next]_vars
  PROVE  LateOK'
<1> USE DEF TypeOK, BacklogOK, LateOK
<1>1. ASSUME NEW t \in Threads, BindOpen(t) PROVE LateOK'
  BY <1>1 DEF BindOpen, Enter, OpenListeners, history
<1>2. ASSUME NEW t \in Threads, BindCommit(t) PROVE LateOK'
  BY <1>2 DEF BindCommit, Discard, Leave, history
<1>3. ASSUME NEW t \in Threads, Start(t) PROVE LateOK'
  BY <1>3 DEF Start, Enter, history
<1>4. ASSUME NEW t \in Threads, Launch(t) PROVE LateOK'
  BY <1>4 DEF Launch, history, NoLoop
<1>5. ASSUME NEW t \in Threads, StopExchange(t) PROVE LateOK'
  BY <1>5 DEF StopExchange, Enter, history
<1>6. ASSUME NEW t \in Threads, StopSwap(t) PROVE LateOK'
  BY <1>6 DEF StopSwap, history
<1>7. ASSUME NEW t \in Threads, StopSchedules(t) PROVE LateOK'
  BY <1>7 DEF StopSchedules, Leave, history
<1>8. ASSUME NEW t \in Threads, StopCloses(t) PROVE LateOK'
  <2>1. PICK l \in Listeners :
          \/ CloseHook(l, t \in Inside) /\ UNCHANGED <<open, backlog, mine, pc, running>>
          \/ CloseFile(l) /\ GoOn(t, l) /\ UNCHANGED <<fdctx, loop, bare>>
    BY <1>8, Zenon DEF StopCloses
  <2>2. CASE CloseHook(l, t \in Inside) /\ UNCHANGED <<open, backlog, mine, pc, running>>
    BY <1>8, <2>2 DEF StopCloses, CloseHook, CloseMark, CloseCancel, CloseDelete
  <2>3. CASE CloseFile(l) /\ GoOn(t, l) /\ UNCHANGED <<fdctx, loop, bare>>
    BY <1>8, <2>3 DEF StopCloses, CloseFile, Discard, GoOn
  <2> QED
    BY <2>1, <2>2, <2>3
<1>9. ASSUME NEW S \in tasks, TaskCloses(S) PROVE LateOK'
  BY <1>9 DEF TaskCloses, callVars, CloseHook, CloseMark, CloseCancel, CloseDelete, CloseFile, Discard, Turn
<1>10. ASSUME NEW k \in Loops, LoopCheck(k) PROVE LateOK'
  BY <1>10 DEF LoopCheck, callVars, loopOnly, Goto, At, MayAccept
<1>11. ASSUME NEW k \in Loops, AcceptBegins(k) PROVE LateOK'
  BY <1>11 DEF AcceptBegins, callVars, loopOnly, Goto, At
<1>12. ASSUME NEW k \in Loops, Accept(k) PROVE LateOK'
  <2>1. CASE loop' = [loop EXCEPT ![k].at = "check"] /\ late' = [late EXCEPT ![k] = IF stopped THEN late[k] + 1 ELSE late[k]]
    <3>1. late[k] = 0
      BY <1>12 DEF Accept, At
    <3>2. stopped => clients > 0
      BY <1>12, <2>1, <3>1 DEF Accept, At, loopOnly
    <3> QED
      BY <1>12, <2>1, <3>1, <3>2 DEF Accept, loopOnly
  <2>2. CASE late' = late /\ \E w \in {"done", "add"} : loop' = [loop EXCEPT ![k].at = w]
    <3>1. late[k] = 0
      BY <1>12 DEF Accept, At
    <3> QED
      BY <1>12, <2>2, <3>1 DEF Accept, loopOnly
  <2> QED
    <3>1. \/ late' = late /\ (Goto(k, "done") \/ Goto(k, "add"))
          \/ /\ late' = [late EXCEPT ![k] = IF stopped THEN late[k] + 1 ELSE late[k]]
             /\ Goto(k, "check")
      BY <1>12, Zenon DEF Accept
    <3> QED
      BY <2>1, <2>2, <3>1 DEF Goto
<1>13. ASSUME NEW k \in Loops, AcceptFails(k) PROVE LateOK'
  BY <1>13 DEF AcceptFails, callVars, loopOnly, Goto, At, Failed
<1>14. ASSUME NEW k \in Loops, AddEvent(k) PROVE LateOK'
  BY <1>14 DEF AddEvent, callVars, loopOnly, Goto, At, Failed
<1>15. ASSUME NEW k \in Loops, Wake(k) PROVE LateOK'
  BY <1>15 DEF Wake, callVars, loopOnly, Goto, At
<1>16. ASSUME NEW k \in Loops, Woken(k) PROVE LateOK'
  BY <1>16 DEF Woken, callVars, loopOnly, Goto, At
<1>17. ASSUME NEW l \in Listeners, Connect(l) PROVE LateOK'
  BY <1>17 DEF Connect, callVars, history
<1>18. CASE UNCHANGED vars
  BY <1>18 DEF vars, callVars, history
<1> QED
  BY <1>1, <1>2, <1>3, <1>4, <1>5, <1>6, <1>7, <1>8, <1>9,
     <1>10, <1>11, <1>12, <1>13, <1>14, <1>15, <1>16, <1>17, <1>18
     DEF Next, Stop, StartAccept, CloseTask

\* Every open listener is held by somebody who will close it.
LEMMA OwnedStep ==
  ASSUME TypeOK, OwnedOK, [Next]_vars
  PROVE  OwnedOK'
<1> USE DEF TypeOK, OwnedOK, Owner
<1>1. ASSUME NEW t \in Threads, BindOpen(t) PROVE OwnedOK'
  BY <1>1 DEF BindOpen, Enter, OpenListeners, history
<1>2. ASSUME NEW t \in Threads, BindCommit(t) PROVE OwnedOK'
  BY <1>2 DEF BindCommit, Discard, Leave, history
<1>3. ASSUME NEW t \in Threads, Start(t) PROVE OwnedOK'
  BY <1>3 DEF Start, Enter, history
<1>4. ASSUME NEW t \in Threads, Launch(t) PROVE OwnedOK'
  BY <1>4 DEF Launch, history
<1>5. ASSUME NEW t \in Threads, StopExchange(t) PROVE OwnedOK'
  BY <1>5 DEF StopExchange, Enter, history
<1>6. ASSUME NEW t \in Threads, StopSwap(t) PROVE OwnedOK'
  BY <1>6 DEF StopSwap, history
<1>7. ASSUME NEW t \in Threads, StopSchedules(t) PROVE OwnedOK'
  BY <1>7 DEF StopSchedules, Leave, history
<1>8. ASSUME NEW t \in Threads, StopCloses(t) PROVE OwnedOK'
  <2>1. PICK l \in Listeners :
          \/ CloseHook(l, t \in Inside) /\ UNCHANGED <<open, backlog, mine, pc, running>>
          \/ CloseFile(l) /\ GoOn(t, l) /\ UNCHANGED <<fdctx, loop, bare>>
    BY <1>8, Zenon DEF StopCloses
  <2>2. CASE CloseHook(l, t \in Inside) /\ UNCHANGED <<open, backlog, mine, pc, running>>
    BY <1>8, <2>2 DEF StopCloses, CloseHook, CloseMark, CloseCancel, CloseDelete
  <2>3. CASE CloseFile(l) /\ GoOn(t, l) /\ UNCHANGED <<fdctx, loop, bare>>
    BY <1>8, <2>3 DEF StopCloses, CloseFile, Discard, GoOn
  <2> QED
    BY <2>1, <2>2, <2>3
<1>9. ASSUME NEW S \in tasks, TaskCloses(S) PROVE OwnedOK'
  <2>1. PICK l \in Listeners :
          /\ l \in S
          /\ \/ open' = open /\ tasks' = tasks
             \/ open' = open \ {l} /\ tasks' = (tasks \ {S}) \cup ({S \ {l}} \ {{}})
    BY <1>9, Zenon DEF TaskCloses, CloseFile, Discard, Turn
  <2>2. CASE open' = open \ {l} /\ tasks' = (tasks \ {S}) \cup ({S \ {l}} \ {{}})
    <3> SUFFICES ASSUME NEW m \in open', \E T \in tasks : m \in T
                 PROVE  \E T \in tasks' : m \in T
      BY <1>9, <2>2 DEF TaskCloses, callVars
    <3>1. PICK T \in tasks : m \in T
      OBVIOUS
    <3>2. CASE T = S
      <4>1. m \in S \ {l}
        BY <2>2, <3>1, <3>2
      <4>2. S \ {l} \in tasks'
        BY <2>2, <4>1
      <4> QED
        BY <4>1, <4>2
    <3> QED
      BY <2>2, <3>1, <3>2
  <2> QED
    BY <1>9, <2>1, <2>2 DEF TaskCloses, callVars
<1>10. ASSUME NEW k \in Loops, LoopCheck(k) PROVE OwnedOK'
  BY <1>10 DEF LoopCheck, callVars, loopOnly, Goto, At
<1>11. ASSUME NEW k \in Loops, AcceptBegins(k) PROVE OwnedOK'
  BY <1>11 DEF AcceptBegins, callVars, loopOnly, Goto, At
<1>12. ASSUME NEW k \in Loops, Accept(k) PROVE OwnedOK'
  BY <1>12 DEF Accept, callVars, loopOnly, Goto, At
<1>13. ASSUME NEW k \in Loops, AcceptFails(k) PROVE OwnedOK'
  BY <1>13 DEF AcceptFails, callVars, loopOnly, Goto, At, Failed
<1>14. ASSUME NEW k \in Loops, AddEvent(k) PROVE OwnedOK'
  BY <1>14 DEF AddEvent, callVars, loopOnly, Goto, At, Failed
<1>15. ASSUME NEW k \in Loops, Wake(k) PROVE OwnedOK'
  BY <1>15 DEF Wake, callVars, loopOnly, Goto, At
<1>16. ASSUME NEW k \in Loops, Woken(k) PROVE OwnedOK'
  BY <1>16 DEF Woken, callVars, loopOnly, Goto, At
<1>17. ASSUME NEW l \in Listeners, Connect(l) PROVE OwnedOK'
  BY <1>17 DEF Connect, callVars, history
<1>18. CASE UNCHANGED vars
  BY <1>18 DEF vars, callVars, history
<1> QED
  BY <1>1, <1>2, <1>3, <1>4, <1>5, <1>6, <1>7, <1>8, <1>9,
     <1>10, <1>11, <1>12, <1>13, <1>14, <1>15, <1>16, <1>17, <1>18
     DEF Next, Stop, StartAccept, CloseTask

\* Nobody takes a listener that somebody else holds.
LEMMA OneOwnerStep ==
  ASSUME TypeOK, OneOwner, [Next]_vars
  PROVE  OneOwner'
<1> USE DEF TypeOK, OneOwner, Owner
<1>1. ASSUME NEW t \in Threads, BindOpen(t) PROVE OneOwner'
  BY <1>1 DEF BindOpen, Enter, OpenListeners, history
<1>2. ASSUME NEW t \in Threads, BindCommit(t) PROVE OneOwner'
  BY <1>2 DEF BindCommit, Discard, Leave, history
<1>3. ASSUME NEW t \in Threads, Start(t) PROVE OneOwner'
  BY <1>3 DEF Start, Enter, history
<1>4. ASSUME NEW t \in Threads, Launch(t) PROVE OneOwner'
  BY <1>4 DEF Launch, history
<1>5. ASSUME NEW t \in Threads, StopExchange(t) PROVE OneOwner'
  BY <1>5 DEF StopExchange, Enter, history
<1>6. ASSUME NEW t \in Threads, StopSwap(t) PROVE OneOwner'
  BY <1>6 DEF StopSwap, history
<1>7. ASSUME NEW t \in Threads, StopSchedules(t) PROVE OneOwner'
  BY <1>7 DEF StopSchedules, Leave, history
<1>8. ASSUME NEW t \in Threads, StopCloses(t) PROVE OneOwner'
  <2>1. PICK l \in Listeners :
          \/ CloseHook(l, t \in Inside) /\ UNCHANGED <<open, backlog, mine, pc, running>>
          \/ CloseFile(l) /\ GoOn(t, l) /\ UNCHANGED <<fdctx, loop, bare>>
    BY <1>8, Zenon DEF StopCloses
  <2>2. CASE CloseHook(l, t \in Inside) /\ UNCHANGED <<open, backlog, mine, pc, running>>
    BY <1>8, <2>2 DEF StopCloses, CloseHook, CloseMark, CloseCancel, CloseDelete
  <2>3. CASE CloseFile(l) /\ GoOn(t, l) /\ UNCHANGED <<fdctx, loop, bare>>
    BY <1>8, <2>3 DEF StopCloses, CloseFile, Discard, GoOn
  <2> QED
    BY <2>1, <2>2, <2>3
<1>9. ASSUME NEW S \in tasks, TaskCloses(S) PROVE OneOwner'
  <2>1. /\ UNCHANGED <<listeners, fresh, pc, mine>>
        /\ \/ tasks' = tasks
           \/ \E l \in S : tasks' = (tasks \ {S}) \cup ({S \ {l}} \ {{}})
    BY <1>9 DEF TaskCloses, callVars, Turn
  <2>2. CASE tasks' = tasks
    BY <2>1, <2>2
  <2>3. ASSUME NEW l \in S, tasks' = (tasks \ {S}) \cup ({S \ {l}} \ {{}})
        PROVE  OneOwner'
    \* Each task that is left is part of an earlier one, each of another.
    <3>1. \A T \in tasks' : (T \in tasks /\ T # S) \/ T = S \ {l}
      BY <2>3
    <3>2. \A T \in tasks' : T \cap (listeners \cup fresh) = {}
      BY <1>9, <3>1
    <3>3. \A T, U \in tasks' : T # U => T \cap U = {}
      BY <1>9, <3>1, ZenonT(40)
    <3>4. \A t \in Threads : Owner(t) => \A T \in tasks' : T \cap mine[t] = {}
      BY <1>9, <3>1
    <3> QED
      BY <2>1, <3>2, <3>3, <3>4
  <2> QED
    BY <2>1, <2>2, <2>3
<1>10. ASSUME NEW k \in Loops, LoopCheck(k) PROVE OneOwner'
  BY <1>10 DEF LoopCheck, callVars, loopOnly, Goto, At
<1>11. ASSUME NEW k \in Loops, AcceptBegins(k) PROVE OneOwner'
  BY <1>11 DEF AcceptBegins, callVars, loopOnly, Goto, At
<1>12. ASSUME NEW k \in Loops, Accept(k) PROVE OneOwner'
  BY <1>12 DEF Accept, callVars, loopOnly, Goto, At
<1>13. ASSUME NEW k \in Loops, AcceptFails(k) PROVE OneOwner'
  BY <1>13 DEF AcceptFails, callVars, loopOnly, Goto, At, Failed
<1>14. ASSUME NEW k \in Loops, AddEvent(k) PROVE OneOwner'
  BY <1>14 DEF AddEvent, callVars, loopOnly, Goto, At, Failed
<1>15. ASSUME NEW k \in Loops, Wake(k) PROVE OneOwner'
  BY <1>15 DEF Wake, callVars, loopOnly, Goto, At
<1>16. ASSUME NEW k \in Loops, Woken(k) PROVE OneOwner'
  BY <1>16 DEF Woken, callVars, loopOnly, Goto, At
<1>17. ASSUME NEW l \in Listeners, Connect(l) PROVE OneOwner'
  BY <1>17 DEF Connect, callVars, history
<1>18. CASE UNCHANGED vars
  BY <1>18 DEF vars, callVars, history
<1> QED
  BY <1>1, <1>2, <1>3, <1>4, <1>5, <1>6, <1>7, <1>8, <1>9,
     <1>10, <1>11, <1>12, <1>13, <1>14, <1>15, <1>16, <1>17, <1>18
     DEF Next, Stop, StartAccept, CloseTask

\* start() launches what has been committed.
LEMMA PrivateStep ==
  ASSUME TypeOK, LaunchOK, OneOwner, PrivateOK, [Next]_vars
  PROVE  PrivateOK'
<1> USE DEF TypeOK, OneOwner, Owner, PrivateOK
<1>1. ASSUME NEW t \in Threads, BindOpen(t) PROVE PrivateOK'
  BY <1>1 DEF BindOpen, Enter, OpenListeners, history
<1>2. ASSUME NEW t \in Threads, BindCommit(t) PROVE PrivateOK'
  BY <1>2 DEF BindCommit, Discard, Leave, history
<1>3. ASSUME NEW t \in Threads, Start(t) PROVE PrivateOK'
  BY <1>3 DEF Start, Enter, history
<1>4. ASSUME NEW t \in Threads, Launch(t) PROVE PrivateOK'
  <2> DEFINE l == CHOOSE x \in mine[t] : TRUE
             k == CHOOSE x \in Loops : loop[x] = NoLoop
  <2>1. l \in mine[t] /\ l \in Listeners /\ k \in Loops
    BY <1>4 DEF Launch, LaunchOK
  <2> HIDE DEF l, k
  <2>2. /\ loop' = [loop EXCEPT ![k] = [on |-> {l}, at |-> "check", new |-> FALSE]]
        /\ mine' = [mine EXCEPT ![t] = mine[t] \ {l}]
        /\ pc' = [pc EXCEPT ![t] = IF mine[t] = {l} THEN "idle" ELSE "launch"]
    BY <1>4, Zenon DEF Launch, l, k
  <2> QED
    BY <1>4, <2>1, <2>2 DEF Launch, NoLoop, history
<1>5. ASSUME NEW t \in Threads, StopExchange(t) PROVE PrivateOK'
  BY <1>5 DEF StopExchange, Enter, history
<1>6. ASSUME NEW t \in Threads, StopSwap(t) PROVE PrivateOK'
  BY <1>6 DEF StopSwap, history
<1>7. ASSUME NEW t \in Threads, StopSchedules(t) PROVE PrivateOK'
  BY <1>7 DEF StopSchedules, Leave, history
<1>8. ASSUME NEW t \in Threads, StopCloses(t) PROVE PrivateOK'
  <2>1. PICK l \in Listeners :
          \/ CloseHook(l, t \in Inside) /\ UNCHANGED <<open, backlog, mine, pc, running>>
          \/ CloseFile(l) /\ GoOn(t, l) /\ UNCHANGED <<fdctx, loop, bare>>
    BY <1>8, Zenon DEF StopCloses
  <2>2. CASE CloseHook(l, t \in Inside) /\ UNCHANGED <<open, backlog, mine, pc, running>>
    <3>1. \A j \in Loops : loop'[j].on = loop[j].on
      BY <2>2 DEF CloseHook, CloseMark, CloseCancel, CloseDelete
    <3> QED
      BY <1>8, <2>2, <3>1 DEF StopCloses, CloseHook, CloseMark, CloseCancel, CloseDelete
  <2>3. CASE CloseFile(l) /\ GoOn(t, l) /\ UNCHANGED <<fdctx, loop, bare>>
    BY <1>8, <2>3 DEF StopCloses, CloseFile, Discard, GoOn
  <2> QED
    BY <2>1, <2>2, <2>3
<1>9. ASSUME NEW S \in tasks, TaskCloses(S) PROVE PrivateOK'
  BY <1>9, SMTT(30) DEF TaskCloses, callVars, CloseHook, CloseMark, CloseCancel, CloseDelete, CloseFile, Discard, Turn
<1>10. ASSUME NEW k \in Loops, LoopCheck(k) PROVE PrivateOK'
  BY <1>10 DEF LoopCheck, callVars, loopOnly, Goto, At
<1>11. ASSUME NEW k \in Loops, AcceptBegins(k) PROVE PrivateOK'
  <2>1. \/ \E w \in {"done"} : loop' = [loop EXCEPT ![k].at = w]
        \/ \E v : loop' = [loop EXCEPT ![k] = [on |-> loop[k].on, at |-> "call", new |-> v]]
    BY <1>11, Zenon DEF AcceptBegins, Goto
  <2>2. \A j \in Loops : loop'[j].on = loop[j].on
    BY <2>1
  <2> QED
    BY <1>11, <2>2 DEF AcceptBegins, loopOnly, callVars
<1>12. ASSUME NEW k \in Loops, Accept(k) PROVE PrivateOK'
  <2>1. \E w \in {"check", "done", "add"} : loop' = [loop EXCEPT ![k].at = w]
    BY <1>12 DEF Accept, Goto
  <2>2. \A j \in Loops : loop'[j].on = loop[j].on
    BY <2>1
  <2> QED
    BY <1>12, <2>2 DEF Accept, loopOnly, callVars
<1>13. ASSUME NEW k \in Loops, AcceptFails(k) PROVE PrivateOK'
  BY <1>13 DEF AcceptFails, callVars, loopOnly, Goto, At, Failed
<1>14. ASSUME NEW k \in Loops, AddEvent(k) PROVE PrivateOK'
  BY <1>14 DEF AddEvent, callVars, loopOnly, Goto, At, Failed
<1>15. ASSUME NEW k \in Loops, Wake(k) PROVE PrivateOK'
  BY <1>15 DEF Wake, callVars, loopOnly, Goto, At
<1>16. ASSUME NEW k \in Loops, Woken(k) PROVE PrivateOK'
  BY <1>16 DEF Woken, callVars, loopOnly, Goto, At
<1>17. ASSUME NEW l \in Listeners, Connect(l) PROVE PrivateOK'
  BY <1>17 DEF Connect, callVars, history
<1>18. CASE UNCHANGED vars
  BY <1>18 DEF vars, callVars, history
<1> QED
  BY <1>1, <1>2, <1>3, <1>4, <1>5, <1>6, <1>7, <1>8, <1>9,
     <1>10, <1>11, <1>12, <1>13, <1>14, <1>15, <1>16, <1>17, <1>18
     DEF Next, Stop, StartAccept, CloseTask

\* The parts together are inductive.
IInv == /\ TypeOK /\ BacklogOK /\ LaunchOK /\ LateOK
        /\ OwnedOK /\ OneOwner /\ PrivateOK

LEMMA IInvAlways == Spec => []IInv
<1>1. Init => IInv
  BY InitInv DEF IInv
<1>2. IInv /\ [Next]_vars => IInv'
  BY TypeStep, BacklogStep, LaunchStep, LateStep, OwnedStep, OneOwnerStep, PrivateStep DEF IInv
<1> QED
  BY <1>1, <1>2, PTL DEF Spec

\* Every step keeps the types; a backlog never exceeds the clients there were.
THEOREM TypeCorrect == Spec => []TypeOK
<1>1. IInv => TypeOK
  BY DEF IInv
<1> QED
  BY <1>1, IInvAlways, PTL

\* No accept loop gets out of reach of stop(), for any number of overlapping
\* bind(), start() and stop() calls on and off accept_worker.
THEOREM LoopsStayReached == Spec => []NoOrphan
<1>1. IInv => NoOrphan
  <2> SUFFICES ASSUME IInv, NEW l \in open, l \in Accepting
               PROVE  l \in Reached
    BY DEF NoOrphan
  <2>1. \/ \E k \in Loops : l \in loop[k].on
        \/ \E u \in Threads : pc[u] = "launch" /\ l \in mine[u]
    BY DEF Accepting
  <2>2. ASSUME NEW t \in Threads, pc[t] = "commit", l \in mine[t] PROVE FALSE
    BY <2>1, <2>2 DEF IInv, PrivateOK
  <2>3. CASE \E t \in Threads : Owner(t) /\ l \in mine[t]
    <3>1. PICK t \in Threads : Owner(t) /\ l \in mine[t]
      BY <2>3
    <3>2. mine[t] \in {mine[u] : u \in {v \in Threads : pc[v] = "close"}}
      BY <2>2, <3>1, Zenon DEF Owner
    <3> QED
      BY <3>1, <3>2, Zenon DEF Reached
  <2> QED
    BY <2>3, Zenon DEF IInv, OwnedOK, Reached
<1> QED
  BY <1>1, IInvAlways, PTL

\* No socket is held, and hence closed, by two of them.
THEOREM SocketsClosedOnce == Spec => []OneOwner
<1>1. IInv => OneOwner
  BY DEF IInv
<1> QED
  BY <1>1, IInvAlways, PTL

\* After stop() has set stopped_ a loop takes one more client at most.
THEOREM StopBoundsAccepts == Spec => []AtMostOneMore
<1>1. IInv => AtMostOneMore
  BY DEF IInv, LateOK, AtMostOneMore
<1> QED
  BY <1>1, IInvAlways, PTL

-----------------------------------------------------------------------------
(* Induction and recursion, with sets and functions in the place of        *)
(* predicates and operators.                                               *)

\* A set of natural numbers has a least element.
LEMMA Least ==
  ASSUME NEW T \in SUBSET Nat, T # {}
  PROVE  \E x \in T : \A y \in T : x <= y
<1> DEFINE Less == {ss \in Nat \X Nat : ss[1] < ss[2]}
<1>1. IsWellFoundedOn(Less, Nat)
  BY NatLessThanWellFounded DEF OpToRel
<1>2. PICK x \in T : \A y \in T : ~(<<y, x>> \in Less)
  BY <1>1, WFMin, Zenon
<1>3. ASSUME NEW y \in T PROVE x <= y
  <2>1. x \in Nat /\ y \in Nat
    OBVIOUS
  <2>2. ~(y < x)
    BY <1>2, <2>1
  <2> QED
    BY <2>1, <2>2
<1> QED
  BY <1>3

LEMMA Induct ==
  ASSUME NEW S, 0 \in S, \A n \in Nat : n \in S => n + 1 \in S
  PROVE  \A n \in Nat : n \in S
<1> DEFINE T == Nat \ S
<1> SUFFICES ASSUME T # {} PROVE FALSE
  OBVIOUS
<1>1. PICK x \in T : \A y \in T : x <= y
  BY Least, Zenon
<1>2. x \in Nat /\ x # 0
  OBVIOUS
<1>3. x - 1 \in Nat /\ x - 1 \notin T
  BY <1>1, <1>2
<1> QED
  BY <1>2, <1>3

\* g does n rounds of a loop that starts with a and goes on with h.
Runs(g, n, a, h) == g[0] = a /\ \A i \in 0..(n - 1) : g[i + 1] = h[i][g[i]]

LEMMA RunsAgree ==
  ASSUME NEW n \in Nat, NEW a, NEW h, NEW f, NEW g, Runs(f, n, a, h), Runs(g, n, a, h)
  PROVE  \A i \in 0..n : f[i] = g[i]
<1> DEFINE S == {i \in Nat : i <= n => f[i] = g[i]}
<1>1. 0 \in S
  BY DEF Runs
<1>2. ASSUME NEW i \in Nat, i \in S PROVE i + 1 \in S
  <2> SUFFICES ASSUME i + 1 <= n PROVE f[i + 1] = g[i + 1]
    OBVIOUS
  <2>1. i \in 0..(n - 1) /\ f[i] = g[i]
    BY <1>2
  <2> QED
    BY <2>1 DEF Runs
<1> HIDE DEF S
<1>3. \A i \in Nat : i \in S
  BY <1>1, <1>2, Induct
<1> QED
  BY <1>3 DEF S

\* A loop has a function that says what it has after each round.
Rounds(T, a, h) == \E g \in [Nat -> T] : g[0] = a /\ \A n \in Nat : g[n + 1] = h[n][g[n]]

LEMMA Recursion ==
  ASSUME NEW T, NEW a \in T, NEW h \in [Nat -> [T -> T]]
  PROVE  Rounds(T, a, h)
<1> DEFINE S == {n \in Nat : \E f \in [0..n -> T] : Runs(f, n, a, h)}
<1>1. 0 \in S
  <2> DEFINE f == [i \in 0..0 |-> a]
  <2>1. f \in [0..0 -> T] /\ Runs(f, 0, a, h)
    BY DEF Runs
  <2> QED
    BY <2>1
<1>2. ASSUME NEW n \in Nat, n \in S PROVE n + 1 \in S
  <2>1. PICK f \in [0..n -> T] : Runs(f, n, a, h)
    BY <1>2
  <2> DEFINE e == [i \in 0..(n + 1) |-> IF i = n + 1 THEN h[n][f[n]] ELSE f[i]]
  <2>2. e \in [0..(n + 1) -> T]
    <3>1. h[n][f[n]] \in T
      OBVIOUS
    <3> QED
      BY <3>1
  <2>3. Runs(e, n + 1, a, h)
    <3>1. e[0] = a
      BY <2>1 DEF Runs
    <3>2. ASSUME NEW i \in 0..n PROVE e[i + 1] = h[i][e[i]]
      <4>1. CASE i = n
        BY <4>1
      <4>2. CASE i # n
        <5>1. i \in 0..(n - 1)
          BY <4>2
        <5>2. f[i + 1] = h[i][f[i]]
          BY <2>1, <5>1 DEF Runs
        <5> QED
          BY <5>1, <5>2
      <4> QED
        BY <4>1, <4>2
    <3>3. 0..((n + 1) - 1) = 0..n
      OBVIOUS
    <3> HIDE DEF e
    <3> QED
      BY <3>1, <3>2, <3>3 DEF Runs
  <2> QED
    BY <2>2, <2>3
<1> DEFINE Part(n) == CHOOSE f : f \in [0..n -> T] /\ Runs(f, n, a, h)
           g == [n \in Nat |-> Part(n)[n]]
<1>3. \A n \in Nat : n \in S
  <2> HIDE DEF S
  <2> QED
    BY <1>1, <1>2, Induct
<1>4. ASSUME NEW n \in Nat PROVE Part(n) \in [0..n -> T] /\ Runs(Part(n), n, a, h)
  BY <1>3
<1>5. g \in [Nat -> T]
  BY <1>4
<1>6. g[0] = a
  BY <1>4 DEF Runs
<1>7. ASSUME NEW n \in Nat PROVE g[n + 1] = h[n][g[n]]
  <2> HIDE DEF Part
  <2>1. Runs(Part(n + 1), n + 1, a, h)
    BY <1>4
  <2>2. Runs(Part(n + 1), n, a, h) /\ Part(n + 1)[n + 1] = h[n][Part(n + 1)[n]]
    BY <2>1 DEF Runs
  <2>3. Part(n + 1)[n] = Part(n)[n]
    BY <1>4, <2>2, RunsAgree
  <2> QED
    BY <2>2, <2>3
<1> QED
  BY <1>5, <1>6, <1>7 DEF Rounds

\* A loop that leaves through a or goes on with next, and comes nearer to its
\* end with every round, has a result for every start.
Ends(D, goes, next, a) ==
  \E f : f = [x \in D |-> IF x \in goes THEN f[next[x]] ELSE a[x]]

LEMMA TailRecursion ==
  ASSUME NEW D, NEW goes, NEW next, NEW a, NEW left \in [D -> Nat],
         \A x \in D : x \in goes => next[x] \in D /\ left[next[x]] < left[x],
         NEW N \in Nat, \A x \in D : left[x] < N
  PROVE  Ends(D, goes, next, a)
<1> DEFINE R == {a[x] : x \in D}
           T == [D -> R]
           round == [f \in T |-> [x \in D |-> IF x \in goes THEN f[next[x]] ELSE a[x]]]
           first == [x \in D |-> a[x]]
           h == [n \in Nat |-> round]
<1>1. first \in T
  OBVIOUS
<1>2. round \in [T -> T]
  <2> SUFFICES ASSUME NEW f \in T, NEW x \in D
               PROVE  (IF x \in goes THEN f[next[x]] ELSE a[x]) \in R
    OBVIOUS
  <2> QED
    OBVIOUS
<1>3. h \in [Nat -> [T -> T]]
  BY <1>2
<1>4. PICK g \in [Nat -> T] : g[0] = first /\ \A n \in Nat : g[n + 1] = h[n][g[n]]
  <2> HIDE DEF h, first, T
  <2>1. Rounds(T, first, h)
    BY <1>1, <1>3, Recursion, Zenon
  <2> QED
    BY <2>1 DEF Rounds
<1>5. ASSUME NEW n \in Nat, NEW x \in D
      PROVE  g[n + 1][x] = IF x \in goes THEN g[n][next[x]] ELSE a[x]
  <2>1. g[n + 1] = round[g[n]]
    BY <1>4
  <2>2. g[n] \in T
    BY <1>4
  <2> QED
    BY <2>1, <2>2
<1>6. \A n \in Nat : \A x \in D : left[x] < n => g[n + 1][x] = g[n][x]
  <2> DEFINE S == {n \in Nat : \A x \in D : left[x] < n => g[n + 1][x] = g[n][x]}
  <2>1. 0 \in S
    <3>1. \A x \in D : ~(left[x] < 0)
      OBVIOUS
    <3> QED
      BY <3>1
  <2>2. ASSUME NEW n \in Nat, n \in S PROVE n + 1 \in S
    <3> SUFFICES ASSUME NEW x \in D, left[x] < n + 1 PROVE g[(n + 1) + 1][x] = g[n + 1][x]
      OBVIOUS
    <3>0. n + 1 \in Nat
      OBVIOUS
    <3>1. CASE x \notin goes
      BY <3>1, <1>5, <3>0
    <3>2. CASE x \in goes
      <4>1. next[x] \in D /\ left[next[x]] < left[x]
        BY <3>2
      <4>2. left[next[x]] < n
        <5>1. left[next[x]] \in Nat /\ left[x] \in Nat
          BY <4>1
        <5> DEFINE u == left[next[x]]
                   v == left[x]
        <5>2. u \in Nat /\ v \in Nat /\ u < v /\ v < n + 1
          BY <4>1, <5>1
        <5> HIDE DEF u, v
        <5>3. u < n
          BY <5>2
        <5> QED
          BY <5>3 DEF u
      <4>3. g[n + 1][next[x]] = g[n][next[x]]
        BY <2>2, <4>1, <4>2
      <4> QED
        BY <3>2, <4>3, <1>5, <3>0
    <3> QED
      BY <3>1, <3>2
  <2> HIDE DEF S
  <2>3. \A n \in Nat : n \in S
    BY <2>1, <2>2, Induct
  <2> QED
    BY <2>3 DEF S
<1> DEFINE f == [x \in D |-> g[N][x]]
<1>7. f = [x \in D |-> IF x \in goes THEN f[next[x]] ELSE a[x]]
  <2> SUFFICES ASSUME NEW x \in D PROVE f[x] = IF x \in goes THEN f[next[x]] ELSE a[x]
    OBVIOUS
  <2>1. g[N][x] = IF x \in goes THEN g[N][next[x]] ELSE a[x]
    BY <1>5, <1>6
  <2> QED
    BY <2>1
<1> QED
  BY <1>7 DEF Ends

-----------------------------------------------------------------------------
(* The parsers look at the first bytes only as far as they have to. *)

LEMMA SetMinIs ==
  ASSUME NEW S \in SUBSET Nat, S # {}
  PROVE  SetMin(S) \in S /\ \A y \in S : SetMin(S) <= y
<1>1. \E x \in S : \A y \in S : x <= y
  BY Least, Zenon
<1> QED
  BY <1>1 DEF SetMin

\* The smallest is known by what it is.
LEMMA SetMinOf ==
  ASSUME NEW S \in SUBSET Nat, NEW x \in S, \A y \in S : x <= y
  PROVE  SetMin(S) = x
<1>1. SetMin(S) \in S /\ SetMin(S) <= x
  BY SetMinIs
<1>2. SetMin(S) \in Nat /\ x \in Nat /\ x <= SetMin(S)
  BY <1>1
<1> QED
  BY <1>1, <1>2

\* s is what has arrived of w.
Prefix(s, w) ==
  /\ s \in Seq(Tokens) /\ w \in Seq(Tokens) /\ Len(s) <= Len(w)
  /\ \A i \in 1..Len(s) : s[i] = w[i]

LEMMA CutIsPrefix ==
  ASSUME NEW w \in Seq(Tokens), NEW k \in 0..Len(w)
  PROVE  Prefix(SubSeq(w, 1, k), w) /\ Len(SubSeq(w, 1, k)) = k
  BY DEF Prefix

LEMMA HeaderEndIs ==
  ASSUME NEW in \in Seq(Tokens)
  PROVE  /\ HeaderEnd(in) \in Nat /\ HeaderEnd(in) <= Len(in)
         /\ HeaderEnd(in) # 0 => /\ HeaderEnd(in) >= 2 /\ in[HeaderEnd(in)].k = "crlf"
                                 /\ \A i \in 2..(HeaderEnd(in) - 1) : in[i].k # "crlf"
         /\ HeaderEnd(in) = 0 => \A i \in 2..Len(in) : in[i].k # "crlf"
<1> DEFINE E == {i \in 2..Len(in) : in[i].k = "crlf"}
<1>1. HeaderEnd(in) = IF E = {} THEN 0 ELSE SetMin(E)
  BY DEF HeaderEnd
<1>2. E # {} => SetMin(E) \in E /\ \A y \in E : SetMin(E) <= y
  <2>1. E \in SUBSET Nat
    OBVIOUS
  <2> HIDE DEF E
  <2> QED
    BY <2>1, SetMinIs
<1>3. CASE E = {}
  BY <1>1, <1>3
<1>4. CASE E # {}
  <2> DEFINE m == SetMin(E)
  <2>1. m \in E /\ \A y \in E : m <= y
    BY <1>2, <1>4
  <2>2. HeaderEnd(in) = m
    BY <1>1, <1>4
  <2>3. m \in 2..Len(in) /\ in[m].k = "crlf"
    BY <2>1
  <2>4. ASSUME NEW i \in 2..(m - 1) PROVE in[i].k # "crlf"
    <3> HIDE DEF m
    <3>1. i \in 2..Len(in) /\ ~(m <= i)
      BY <2>3
    <3> QED
      BY <2>1, <3>1
  <2> HIDE DEF m, E
  <2> QED
    BY <2>2, <2>3, <2>4
<1> QED
  BY <1>3, <1>4

LEMMA HeaderEndUnique ==
  ASSUME NEW in \in Seq(Tokens), NEW e \in 2..Len(in), in[e].k = "crlf",
         \A i \in 2..(e - 1) : in[i].k # "crlf"
  PROVE  HeaderEnd(in) = e
<1>1. e \in Nat /\ HeaderEnd(in) \in Nat
  BY HeaderEndIs
<1>2. HeaderEnd(in) # 0
  BY HeaderEndIs
<1>3. ~(HeaderEnd(in) < e)
  BY HeaderEndIs, <1>1, <1>2
<1>4. ~(e < HeaderEnd(in))
  BY HeaderEndIs, <1>1, <1>2
<1> QED
  BY <1>1, <1>3, <1>4

LEMMA SameHeaderEnd ==
  ASSUME NEW s, NEW w, Prefix(s, w), HeaderEnd(s) # 0
  PROVE  HeaderEnd(w) = HeaderEnd(s)
<1> DEFINE e == HeaderEnd(s)
<1>1. s \in Seq(Tokens) /\ w \in Seq(Tokens) /\ Len(s) <= Len(w) /\ \A i \in 1..Len(s) : s[i] = w[i]
  BY DEF Prefix
<1>2. e \in Nat /\ e >= 2 /\ e <= Len(s) /\ s[e].k = "crlf" /\ \A i \in 2..(e - 1) : s[i].k # "crlf"
  BY <1>1, HeaderEndIs
<1> HIDE DEF e
<1>3. e \in 2..Len(w) /\ w[e].k = "crlf"
  BY <1>1, <1>2
<1>4. \A i \in 2..(e - 1) : w[i].k # "crlf"
  BY <1>1, <1>2
<1>5. HeaderEnd(w) = e
  BY <1>1, <1>3, <1>4, HeaderEndUnique
<1> QED
  BY <1>5 DEF e

\* part is what has arrived of the line after s: in the header section a line
\* of the size of any other.
Cutting(s, w, part) ==
  /\ Prefix(s, w) /\ part \in Nat
  /\ HeaderEnd(s) = 0 => part <= 1 /\ Len(s) + part <= Len(w)

\* The section does not fit, whatever follows.
LEMMA TooLargeStays ==
  ASSUME NEW s, NEW w, NEW part, Cutting(s, w, part), HeaderTooLarge(s, HeaderEnd(s), part)
  PROVE  HeaderTooLarge(w, HeaderEnd(w), 0)
<1>1. s \in Seq(Tokens) /\ w \in Seq(Tokens) /\ Len(s) <= Len(w) /\ \A i \in 1..Len(s) : s[i] = w[i]
  BY DEF Prefix, Cutting
<1>2. MaxHeader \in Nat /\ part \in Nat
  BY LimitsAssumption DEF Cutting
<1>3. CASE HeaderEnd(s) # 0
  BY <1>3, SameHeaderEnd DEF HeaderTooLarge, Cutting
<1>4. CASE HeaderEnd(s) = 0
  <2>1. Len(s) + part > MaxHeader /\ part <= 1 /\ Len(s) + part <= Len(w)
    BY <1>4 DEF HeaderTooLarge, Cutting
  <2>2. CASE HeaderEnd(w) = 0
    BY <1>1, <1>2, <2>1, <2>2 DEF HeaderTooLarge
  <2>3. CASE HeaderEnd(w) # 0
    <3> DEFINE e == HeaderEnd(w)
    <3>1. e \in Nat /\ e >= 2 /\ w[e].k = "crlf"
      BY <1>1, <2>3, HeaderEndIs
    <3>2. \A i \in 2..Len(s) : s[i].k # "crlf"
      BY <1>1, <1>4, HeaderEndIs
    <3> HIDE DEF e
    <3>3. e > Len(s)
      BY <1>1, <3>1, <3>2
    <3>4. e > MaxHeader /\ e # 0
      BY <1>1, <1>2, <2>1, <3>1, <3>3
    <3> QED
      BY <3>4 DEF HeaderTooLarge, e
  <2> QED
    BY <2>2, <2>3
<1> QED
  BY <1>3, <1>4

LEMMA SameHeader ==
  ASSUME NEW s, NEW w, Prefix(s, w), NEW e \in 2..Len(s)
  PROVE  /\ \A k : Lines(w, e, k) = Lines(s, e, k)
         /\ \A S : HeaderError(w, e, S) = HeaderError(s, e, S)
         /\ ContentLength(w, e) = ContentLength(s, e)
         /\ RequestCloses(w, e) = RequestCloses(s, e)
         /\ ResponseCloses(w, e) = ResponseCloses(s, e)
         /\ \A k : FinalChunked(w, Lines(w, e, k)) = FinalChunked(s, Lines(s, e, k))
<1>1. s \in Seq(Tokens) /\ w \in Seq(Tokens) /\ Len(s) <= Len(w) /\ \A i \in 1..Len(s) : s[i] = w[i]
  BY DEF Prefix
<1>2. \A i \in 1..e : w[i] = s[i]
  BY <1>1
<1>3. \A i \in 2..(e - 1) : w[i] = s[i]
  BY <1>1
<1>4. ASSUME NEW k PROVE Lines(w, e, k) = Lines(s, e, k)
  BY <1>3 DEF Lines
<1>5. \A k : \A i \in Lines(s, e, k) : w[i] = s[i]
  BY <1>3 DEF Lines
<1>6. w[1] = s[1]
  BY <1>1
<1>7. BadLength(w, e) = BadLength(s, e)
  BY <1>4, <1>5 DEF BadLength
<1>8. BadLine(w, e) = BadLine(s, e)
  BY <1>3 DEF BadLine
<1>9. \A S : HeaderError(w, e, S) = HeaderError(s, e, S)
  BY <1>7, <1>8 DEF HeaderError
<1>10. ContentLength(w, e) = ContentLength(s, e)
  <2> DEFINE L == Lines(s, e, "length")
  <2>1. L \in SUBSET Nat
    BY DEF Lines
  <2>2. L # {} => SetMin(L) \in L
    <3> HIDE DEF L
    <3> QED
      BY <2>1, SetMinIs
  <2>3. Lines(w, e, "length") = L /\ \A i \in L : w[i] = s[i]
    BY <1>4, <1>5
  <2> QED
    BY <2>2, <2>3 DEF ContentLength
<1>11. RequestCloses(w, e) = RequestCloses(s, e)
  BY <1>4, <1>5, <1>6 DEF RequestCloses
<1>12. ResponseCloses(w, e) = ResponseCloses(s, e)
  <2>1. {w[i].n : i \in Lines(w, e, "connection")} = {s[i].n : i \in Lines(s, e, "connection")}
    BY <1>4, <1>5
  <2> QED
    BY <2>1, <1>6 DEF ResponseCloses
<1>13. \A k : FinalChunked(w, Lines(w, e, k)) = FinalChunked(s, Lines(s, e, k))
  BY <1>4, <1>5 DEF FinalChunked
<1> QED
  BY <1>4, <1>9, <1>10, <1>11, <1>12, <1>13

LEMMA LengthIs ==
  ASSUME NEW in \in Seq(Tokens), NEW e \in 2..Len(in)
  PROVE  ContentLength(in, e) \in Int
<1> DEFINE L == Lines(in, e, "length")
<1>1. L # {} => SetMin(L) \in 1..Len(in)
  <2>1. L \in SUBSET (1..Len(in)) /\ L \in SUBSET Nat
    BY DEF Lines
  <2> HIDE DEF L
  <2> QED
    BY <2>1, SetMinIs
<1>2. \A i \in 1..Len(in) : in[i].n \in Int
  <2> SUFFICES ASSUME NEW i \in 1..Len(in) PROVE in[i].n \in Int
    OBVIOUS
  <2>1. in[i] \in Tokens
    OBVIOUS
  <2> QED
    BY <2>1 DEF Tokens
<1> QED
  BY <1>1, <1>2 DEF ContentLength

LEMMA RequestSettled ==
  ASSUME NEW s, NEW w, NEW part, Cutting(s, w, part), ParseRequest(s, part) # Incomplete
  PROVE  ParseRequest(w, 0) = ParseRequest(s, part)
<1>1. s \in Seq(Tokens) /\ w \in Seq(Tokens) /\ Len(s) <= Len(w) /\ \A i \in 1..Len(s) : s[i] = w[i]
  BY DEF Prefix, Cutting
<1>2. CASE HeaderTooLarge(s, HeaderEnd(s), part)
  BY <1>2, TooLargeStays DEF ParseRequest
<1>3. CASE ~HeaderTooLarge(s, HeaderEnd(s), part)
  <2> DEFINE e == HeaderEnd(s)
             n == ContentLength(s, e)
  <2>1. e # 0
    BY <1>3 DEF ParseRequest
  <2>2. HeaderEnd(w) = e
    BY <2>1, SameHeaderEnd DEF Cutting
  <2>3. e \in 2..Len(s)
    BY <1>1, <2>1, HeaderEndIs
  <2>4. ~HeaderTooLarge(w, e, 0)
    BY <1>3, <2>1 DEF HeaderTooLarge
  <2>5. w[1] = s[1]
    BY <1>1, <2>3
  <2>6. /\ Lines(w, e, "encoding") = Lines(s, e, "encoding")
        /\ \A S : HeaderError(w, e, S) = HeaderError(s, e, S)
        /\ ContentLength(w, e) = n
        /\ RequestCloses(w, e) = RequestCloses(s, e)
    <3> HIDE DEF e
    <3> QED
      BY <2>3, SameHeader DEF n, Cutting
  <2>7. CASE \/ RequestLineError(s[1]) # "NONE"
             \/ HeaderError(s, e, Lines(s, e, "encoding")) # "NONE"
             \/ n > MaxBody
    BY <1>3, <2>1, <2>2, <2>4, <2>5, <2>6, <2>7 DEF ParseRequest
  <2>8. CASE ~(\/ RequestLineError(s[1]) # "NONE"
               \/ HeaderError(s, e, Lines(s, e, "encoding")) # "NONE"
               \/ n > MaxBody)
    <3>1. ~(Len(s) < e + n)
      BY <1>3, <2>1, <2>8 DEF ParseRequest
    <3>2. ~(Len(w) < e + n)
      <4>1. n \in Int
        <5> HIDE DEF e
        <5> QED
          BY <1>1, <2>3, LengthIs
      <4>2. e \in Int
        BY <2>3
      <4> HIDE DEF n, e
      <4> QED
        BY <1>1, <3>1, <4>1, <4>2
    <3> QED
      BY <1>3, <2>1, <2>2, <2>4, <2>5, <2>6, <2>8, <3>1, <3>2 DEF ParseRequest
  <2> QED
    BY <2>7, <2>8
<1> QED
  BY <1>2, <1>3

\* The verdict of a loop over the rest of a response is that on all of it, or
\* that a line was too long while it was incomplete.
Same(r, v, part) == v = r \/ (part > 0 /\ r = Error("HEADER_TOO_LARGE"))

LEMMA TrailersSettled ==
  ASSUME NEW s, NEW w, Prefix(s, w), NEW b \in 1..(Len(s) + 1), NEW m, NEW part \in Nat,
         Trailers(s, b, m, part) # Incomplete
  PROVE  Same(Trailers(s, b, m, part), Trailers(w, b, m, 0), part)
<1>1. s \in Seq(Tokens) /\ w \in Seq(Tokens) /\ Len(s) <= Len(w) /\ \A i \in 1..Len(s) : s[i] = w[i]
  BY DEF Prefix
<1>2. MaxHeader \in Nat /\ Len(s) \in Nat /\ Len(w) \in Nat /\ b \in Nat
  BY LimitsAssumption, <1>1
<1> DEFINE Halts(in) == {i \in b..Len(in) : \/ in[i].k \notin HeaderKinds
                                           \/ i - b > MaxHeader}
           Closing(in, i) == {j \in b..(i - 1) : in[j].k = "connection"}
           Result(in, i) ==
             IF i - b > MaxHeader THEN Error("HEADER_TOO_LARGE")
             ELSE IF in[i].k # "crlf" THEN Error("INVALID_HEADER")
             ELSE IF Closing(in, i) = {} THEN Finished(i, m)
             ELSE Finished(i, [m EXCEPT !.close =
                     \E j \in Closing(in, i) : in[j].n = 1 /\ \A l \in Closing(in, i) : l <= j])
<1>3. ASSUME NEW in, NEW q, Halts(in) = {}
      PROVE  Trailers(in, b, m, q) = IF Len(in) - b + 1 + q > MaxHeader THEN Error("HEADER_TOO_LARGE") ELSE Incomplete
  BY <1>3 DEF Trailers
<1>4. ASSUME NEW in, NEW q, Halts(in) # {}
      PROVE  Trailers(in, b, m, q) = Result(in, SetMin(Halts(in)))
  BY <1>4 DEF Trailers
<1>5. Halts(s) \in SUBSET Nat /\ Halts(w) \in SUBSET Nat
  BY <1>2
<1>6. \A i \in b..Len(s) : i \in Halts(w) <=> i \in Halts(s)
  BY <1>1, <1>2
<1>7. CASE Halts(s) # {}
  <2> DEFINE i == SetMin(Halts(s))
  <2>1. i \in Halts(s) /\ \A y \in Halts(s) : i <= y
    <3> HIDE DEF Halts
    <3> QED
      BY <1>5, <1>7, SetMinIs
  <2>2. i \in b..Len(s)
    BY <2>1
  <2>3. i \in Halts(w)
    <3> HIDE DEF Halts, i
    <3> QED
      BY <2>1, <2>2, <1>6
  <2>4. ASSUME NEW y \in Halts(w) PROVE i <= y
    <3>1. y \in b..Len(w)
      OBVIOUS
    <3> HIDE DEF Halts, i
    <3> QED
      BY <1>2, <2>1, <2>2, <1>6, <3>1
  <2>5. SetMin(Halts(w)) = i
    <3> HIDE DEF Halts, i
    <3> QED
      BY <1>5, <2>3, <2>4, SetMinOf
  <2>6. \A j \in b..i : w[j] = s[j]
    <3> HIDE DEF i
    <3> QED
      BY <1>1, <1>2, <2>2
  <2>7. Closing(w, i) = Closing(s, i) /\ (\A j \in Closing(s, i) : w[j] = s[j]) /\ w[i] = s[i]
    <3> HIDE DEF i
    <3> QED
      BY <1>2, <2>2, <2>6
  <2>8. Result(w, i) = Result(s, i)
    <3> HIDE DEF i, Closing, Halts
    <3> QED
      BY <2>7
  <2>9. Halts(w) # {}
    BY <2>3
  <2> HIDE DEF Result, i, Halts
  <2> QED
    BY <1>4, <1>7, <2>5, <2>8, <2>9 DEF i, Same
<1>8. CASE Halts(s) = {}
  <2>1. Len(s) - b + 1 + part > MaxHeader /\ Trailers(s, b, m, part) = Error("HEADER_TOO_LARGE")
    <3> HIDE DEF Halts
    <3> QED
      BY <1>3, <1>8
  <2> SUFFICES ASSUME part = 0 PROVE Trailers(w, b, m, 0) = Error("HEADER_TOO_LARGE")
    BY <2>1 DEF Same
  <2>2. CASE Halts(w) = {}
    <3>1. Len(w) - b + 1 + 0 > MaxHeader
      BY <1>1, <1>2, <2>1
    <3> HIDE DEF Halts
    <3> QED
      BY <1>3, <2>2, <3>1
  <2>3. CASE Halts(w) # {}
    <3> DEFINE i == SetMin(Halts(w))
    <3>1. i \in Halts(w)
      <4> HIDE DEF Halts
      <4> QED
        BY <1>5, <2>3, SetMinIs
    <3>2. i \in b..Len(w) /\ i \notin Halts(s)
      BY <3>1, <1>8
    <3> HIDE DEF i
    <3>3. ~(i <= Len(s))
      <4> HIDE DEF Halts
      <4> QED
        BY <1>2, <1>6, <3>1, <3>2
    <3>4. i - b > MaxHeader
      BY <1>2, <2>1, <3>2, <3>3
    <3>5. Trailers(w, b, m, 0) = Result(w, i)
      <4> HIDE DEF Halts, Result
      <4> QED
        BY <1>4, <2>3 DEF i
    <3> HIDE DEF Halts
    <3> QED
      BY <3>4, <3>5
  <2> QED
    BY <2>2, <2>3
<1> QED
  BY <1>7, <1>8

-----------------------------------------------------------------------------
(* The chunks. *)

\* Where the loop over the chunks may be, the places from which it goes on to
\* another chunk and the one it goes on to.
Spots(in) == (1..(Len(in) + 1)) \X (0..MaxBody)

Onward(in) ==
  {x \in Spots(in) : /\ x[1] <= Len(in) /\ IsChunkSize(in[x[1]]) /\ in[x[1]].n # 0
                     /\ ~(in[x[1]].n > MaxBody - x[2]) /\ ~(Len(in) < x[1] + in[x[1]].n + 1)
                     /\ in[x[1] + in[x[1]].n + 1].k = "crlf"}

NextSpot(in) == [x \in Spots(in) |-> <<x[1] + in[x[1]].n + 2, x[2] + in[x[1]].n>>]

\* What the loop finds out where it ends.
Verdict(in, m, part) ==
  [x \in Spots(in) |->
     LET n == in[x[1]].n
     IN IF x[1] > Len(in)
        THEN IF part > MaxHeader THEN Error("HEADER_TOO_LARGE") ELSE Incomplete
        ELSE IF ~IsChunkSize(in[x[1]]) THEN Error("INVALID_CHUNK_SIZE")
        ELSE IF n = 0 THEN Trailers(in, x[1] + 1, [m EXCEPT !.upto = x[1]], part)
        ELSE IF n > MaxBody - x[2] THEN Error("BODY_TOO_LARGE")
        ELSE IF Len(in) < x[1] + n + 1 THEN Incomplete
        ELSE Error("INVALID_CHUNK_SIZE")]

IsLoop(in, m, f, part) ==
  \A x \in Spots(in) : f[x] = IF x \in Onward(in) THEN f[NextSpot(in)[x]] ELSE Verdict(in, m, part)[x]

LEMMA OnwardIs ==
  ASSUME NEW in \in Seq(Tokens), NEW x \in Spots(in), x \in Onward(in)
  PROVE  /\ NextSpot(in)[x] \in Spots(in) /\ NextSpot(in)[x][1] > x[1]
         /\ in[x[1]].n \in Nat /\ x[1] \in 1..Len(in) /\ x[1] + in[x[1]].n + 1 \in 1..Len(in)
<1> DEFINE p == x[1]
           b == x[2]
           n == in[p].n
<1>1. /\ p \in 1..(Len(in) + 1) /\ b \in 0..MaxBody /\ MaxBody \in Nat
      /\ Len(in) \in Nat /\ p <= Len(in) /\ NextSpot(in)[x] = <<p + n + 2, b + n>>
  BY LimitsAssumption DEF Spots, Onward, NextSpot
<1>2. in[p] \in Tokens
  BY <1>1
<1>3. n \in Int /\ n >= 0 /\ ~(n > MaxBody - b) /\ ~(Len(in) < p + n + 1)
  BY <1>2 DEF Onward, IsChunkSize, Tokens
<1> HIDE DEF p, b, n
<1>4. p + n + 2 \in 1..(Len(in) + 1) /\ b + n \in 0..MaxBody /\ p + n + 2 > p /\ p + n + 1 \in 1..Len(in)
      /\ p \in 1..Len(in)
  BY <1>1, <1>3
<1>5. <<p + n + 2, b + n>> \in Spots(in) /\ <<p + n + 2, b + n>>[1] = p + n + 2
  BY <1>4 DEF Spots
<1> QED
  BY <1>1, <1>3, <1>4, <1>5 DEF p, n

LEMMA ChunksLoop ==
  ASSUME NEW in \in Seq(Tokens), NEW e \in 0..Len(in), NEW m, NEW part
  PROVE  \E f : IsLoop(in, m, f, part) /\ Chunks(in, e, m, part) = f[<<e + 1, 0>>]
<1> DEFINE D == Spots(in)
           left == [x \in D |-> (Len(in) + 1) - x[1]]
           Round(f) == [x \in D |-> IF x \in Onward(in) THEN f[NextSpot(in)[x]] ELSE Verdict(in, m, part)[x]]
           Code(f) == [x \in (1..(Len(in) + 1)) \X (0..MaxBody) |->
            LET p == x[1]
                n == in[p].n
            IN IF p > Len(in)
               THEN IF part > MaxHeader THEN Error("HEADER_TOO_LARGE") ELSE Incomplete
               ELSE IF ~IsChunkSize(in[p]) THEN Error("INVALID_CHUNK_SIZE")
               ELSE IF n = 0 THEN Trailers(in, p + 1, [m EXCEPT !.upto = p], part)
               ELSE IF n > MaxBody - x[2] THEN Error("BODY_TOO_LARGE")
               ELSE IF Len(in) < p + n + 1 THEN Incomplete
               ELSE IF in[p + n + 1].k # "crlf" THEN Error("INVALID_CHUNK_SIZE")
               ELSE f[<<p + n + 2, x[2] + n>>]]
<1>1. Len(in) \in Nat /\ MaxBody \in Nat
  BY LimitsAssumption
<1>2. Ends(D, Onward(in), NextSpot(in), Verdict(in, m, part))
  <2>1. left \in [D -> Nat] /\ \A x \in D : left[x] < Len(in) + 1
    <3> SUFFICES ASSUME NEW x \in D PROVE (Len(in) + 1) - x[1] \in Nat /\ (Len(in) + 1) - x[1] < Len(in) + 1
      OBVIOUS
    <3>1. x[1] \in 1..(Len(in) + 1)
      BY DEF Spots
    <3> QED
      BY <1>1, <3>1
  <2>2. ASSUME NEW x \in D, x \in Onward(in)
        PROVE  NextSpot(in)[x] \in D /\ left[NextSpot(in)[x]] < left[x]
    <3>1. NextSpot(in)[x] \in D /\ NextSpot(in)[x][1] > x[1]
      BY <2>2, OnwardIs
    <3>2. x[1] \in Nat /\ NextSpot(in)[x][1] \in Nat
      BY <3>1, <1>1 DEF Spots
    <3>3. left[x] = (Len(in) + 1) - x[1] /\ left[NextSpot(in)[x]] = (Len(in) + 1) - NextSpot(in)[x][1]
      BY <3>1
    <3> HIDE DEF left
    <3> QED
      BY <1>1, <3>1, <3>2, <3>3
  <2>3. Len(in) + 1 \in Nat
    BY <1>1
  <2> HIDE DEF D, left
  <2> QED
    BY <2>1, <2>2, <2>3, TailRecursion, Zenon
<1>3. PICK g : g = Round(g)
  BY <1>2 DEF Ends
<1>4. ASSUME NEW f PROVE Code(f) = Round(f)
  <2>1. ASSUME NEW x \in D PROVE Code(f)[x] = Round(f)[x]
    <3>1. x[1] \in 1..(Len(in) + 1) /\ (~(x[1] > Len(in)) <=> x[1] <= Len(in))
      BY <1>1 DEF Spots
    <3> QED
      BY <3>1 DEF Spots, Onward, NextSpot, Verdict
  <2> HIDE DEF D
  <2>2. D = (1..(Len(in) + 1)) \X (0..MaxBody)
    BY DEF D, Spots
  <2> QED
    BY <2>1, <2>2
<1> DEFINE c == CHOOSE f : f = Code(f)
<1>5. c = Code(c)
  <2> HIDE DEF Code, Round
  <2>1. g = Code(g)
    BY <1>3, <1>4
  <2> QED
    BY <2>1
<1>6. Chunks(in, e, m, part) = c[<<e + 1, 0>>]
  BY DEF Chunks
<1> HIDE DEF c
<1>7. c = Round(c)
  BY <1>4, <1>5
<1>8. IsLoop(in, m, c, part)
  BY <1>7 DEF IsLoop
<1> QED
  BY <1>6, <1>8

LEMMA SpotSettled ==
  ASSUME NEW s, NEW w, Prefix(s, w), NEW m, NEW part \in Nat, NEW x \in Spots(s)
  PROVE  /\ x \in Spots(w)
         /\ x \in Onward(s) => x \in Onward(w) /\ NextSpot(w)[x] = NextSpot(s)[x]
         /\ x \notin Onward(s) /\ Verdict(s, m, part)[x] # Incomplete =>
               \/ x \notin Onward(w) /\ Same(Verdict(s, m, part)[x], Verdict(w, m, 0)[x], part)
               \/ part > 0 /\ Verdict(s, m, part)[x] = Error("HEADER_TOO_LARGE")
<1> DEFINE p == x[1]
           b == x[2]
           n == s[p].n
<1>1. s \in Seq(Tokens) /\ w \in Seq(Tokens) /\ Len(s) <= Len(w) /\ \A i \in 1..Len(s) : s[i] = w[i]
  BY DEF Prefix
<1>2. /\ p \in 1..(Len(s) + 1) /\ b \in 0..MaxBody /\ MaxBody \in Nat /\ Len(s) \in Nat /\ Len(w) \in Nat
      /\ x = <<p, b>>
  BY <1>1, LimitsAssumption DEF Spots
<1>3. x \in Spots(w)
  <2> HIDE DEF p, b
  <2>1. p \in 1..(Len(w) + 1)
    BY <1>1, <1>2
  <2> QED
    BY <1>2, <2>1 DEF Spots
<1>4. p <= Len(s) => w[p] = s[p] /\ n \in Int
  <2> HIDE DEF p
  <2> SUFFICES ASSUME p <= Len(s) PROVE w[p] = s[p] /\ n \in Int
    OBVIOUS
  <2>1. p \in 1..Len(s)
    BY <1>2
  <2>2. s[p] \in Tokens
    BY <1>1, <2>1
  <2> QED
    BY <1>1, <2>1, <2>2 DEF Tokens
<1>5. ASSUME x \in Onward(s) PROVE x \in Onward(w) /\ NextSpot(w)[x] = NextSpot(s)[x]
  <2>1. /\ p <= Len(s) /\ IsChunkSize(s[p]) /\ n # 0 /\ ~(n > MaxBody - b) /\ ~(Len(s) < p + n + 1)
        /\ s[p + n + 1].k = "crlf" /\ p + n + 1 \in 1..Len(s)
    BY <1>1, <1>5, OnwardIs DEF Onward
  <2>2. w[p] = s[p] /\ w[p + n + 1] = s[p + n + 1] /\ n \in Int
    BY <1>1, <1>4, <2>1
  <2>3. p <= Len(w) /\ ~(Len(w) < p + n + 1)
    <3> HIDE DEF p, n
    <3> QED
      BY <1>1, <1>2, <2>1, <2>2
  <2>4. x \in Onward(w)
    BY <1>3, <2>1, <2>2, <2>3 DEF Onward
  <2> QED
    BY <1>3, <2>2, <2>4 DEF NextSpot
<1>6. ASSUME x \notin Onward(s), Verdict(s, m, part)[x] # Incomplete
      PROVE  \/ x \notin Onward(w) /\ Same(Verdict(s, m, part)[x], Verdict(w, m, 0)[x], part)
             \/ part > 0 /\ Verdict(s, m, part)[x] = Error("HEADER_TOO_LARGE")
  <2> DEFINE V(in, q) == IF p > Len(in)
        THEN IF q > MaxHeader THEN Error("HEADER_TOO_LARGE") ELSE Incomplete
        ELSE IF ~IsChunkSize(in[p]) THEN Error("INVALID_CHUNK_SIZE")
        ELSE IF in[p].n = 0 THEN Trailers(in, p + 1, [m EXCEPT !.upto = p], q)
        ELSE IF in[p].n > MaxBody - b THEN Error("BODY_TOO_LARGE")
        ELSE IF Len(in) < p + in[p].n + 1 THEN Incomplete
        ELSE Error("INVALID_CHUNK_SIZE")
  <2>1. Verdict(s, m, part)[x] = V(s, part) /\ Verdict(w, m, 0)[x] = V(w, 0)
    BY <1>3 DEF Verdict
  <2>0. CASE p > Len(s)
    <3>1. part > MaxHeader /\ V(s, part) = Error("HEADER_TOO_LARGE")
      BY <1>6, <2>0, <2>1
    <3>2. part > 0
      BY <3>1, LimitsAssumption
    <3> HIDE DEF V
    <3> QED
      BY <2>1, <3>1, <3>2
  <2> SUFFICES ASSUME ~(p > Len(s))
               PROVE  x \notin Onward(w) /\ Same(Verdict(s, m, part)[x], Verdict(w, m, 0)[x], part)
    BY <2>0
  <2>2. p <= Len(s) /\ p \in 1..Len(s) /\ p <= Len(w) /\ ~(p > Len(s)) /\ ~(p > Len(w))
    <3> HIDE DEF p
    <3> QED
      BY <1>1, <1>2
  <2>3. w[p] = s[p] /\ n \in Int
    BY <1>4, <2>2
  <2>4. CASE ~IsChunkSize(s[p])
    BY <2>1, <2>2, <2>3, <2>4 DEF Onward, Same
  <2>5. CASE IsChunkSize(s[p]) /\ n = 0
    <3>1. /\ V(s, part) = Trailers(s, p + 1, [m EXCEPT !.upto = p], part)
          /\ V(w, 0) = Trailers(w, p + 1, [m EXCEPT !.upto = p], 0)
      BY <2>2, <2>3, <2>5
    <3>2. p + 1 \in 1..(Len(s) + 1)
      BY <2>2
    <3> HIDE DEF V
    <3>3. Same(V(s, part), V(w, 0), part)
      BY <1>6, <2>1, <3>1, <3>2, TrailersSettled
    <3>4. x \notin Onward(w)
      BY <2>3, <2>5 DEF Onward
    <3> QED
      BY <2>1, <3>3, <3>4
  <2>6. CASE IsChunkSize(s[p]) /\ n # 0
    <3>1. CASE n > MaxBody - b
      BY <2>1, <2>2, <2>3, <2>6, <3>1 DEF Onward, Same
    <3>2. CASE ~(n > MaxBody - b)
      <4>1. ~(Len(s) < p + n + 1)
        BY <1>6, <2>1, <2>2, <2>6, <3>2
      <4>2. ~(Len(w) < p + n + 1) /\ p + n + 1 \in 1..Len(s)
        <5>1. n >= 0
          BY <2>6 DEF IsChunkSize
        <5> HIDE DEF p, n
        <5> QED
          BY <1>1, <1>2, <2>2, <2>3, <4>1, <5>1, SMTT(30)
      <4>3. s[p + n + 1].k # "crlf"
        BY <1>6, <2>2, <2>6, <3>2, <4>1 DEF Onward
      <4>4. w[p + n + 1].k # "crlf"
        BY <1>1, <4>2, <4>3
      <4>5. x \notin Onward(w)
        BY <2>3, <4>4 DEF Onward
      <4>6. V(w, 0) = V(s, part)
        BY <2>2, <2>3, <2>6, <3>2, <4>1, <4>2
      <4> HIDE DEF V
      <4> QED
        BY <2>1, <4>5, <4>6 DEF Same
    <3> QED
      BY <3>1, <3>2
  <2> QED
    BY <2>4, <2>5, <2>6
<1> QED
  BY <1>3, <1>5, <1>6

LEMMA LoopSettled ==
  ASSUME NEW s, NEW w, Prefix(s, w), NEW m, NEW part \in Nat, NEW f, NEW g,
         IsLoop(s, m, f, part), IsLoop(w, m, g, 0), NEW y \in Spots(s), f[y] # Incomplete
  PROVE  Same(f[y], g[y], part)
<1> DEFINE left(x) == (Len(s) + 1) - x[1]
           S == {j \in Nat : \A x \in Spots(s) : left(x) <= j /\ f[x] # Incomplete => Same(f[x], g[x], part)}
<1>1. s \in Seq(Tokens) /\ w \in Seq(Tokens) /\ Len(s) \in Nat
  BY DEF Prefix
<1>2. ASSUME NEW x \in Spots(s) PROVE left(x) \in Nat /\ x[1] \in Nat
  <2>1. x[1] \in 1..(Len(s) + 1)
    BY DEF Spots
  <2> QED
    BY <1>1, <2>1
<1>3. ASSUME NEW x \in Spots(s), f[x] # Incomplete, x \notin Onward(s) PROVE Same(f[x], g[x], part)
  <2>1. f[x] = Verdict(s, m, part)[x]
    BY <1>3 DEF IsLoop
  <2>2. /\ x \in Spots(w)
        /\ \/ x \notin Onward(w) /\ Same(Verdict(s, m, part)[x], Verdict(w, m, 0)[x], part)
           \/ part > 0 /\ Verdict(s, m, part)[x] = Error("HEADER_TOO_LARGE")
    BY <1>3, <2>1, SpotSettled
  <2>3. x \notin Onward(w) => g[x] = Verdict(w, m, 0)[x]
    BY <2>2 DEF IsLoop
  <2> QED
    BY <2>1, <2>2, <2>3 DEF Same
<1>4. 0 \in S
  <2> SUFFICES ASSUME NEW x \in Spots(s), left(x) <= 0, f[x] # Incomplete PROVE Same(f[x], g[x], part)
    OBVIOUS
  <2>1. x[1] > Len(s)
    BY <1>1, <1>2
  <2>2. ~(x[1] <= Len(s))
    BY <1>1, <1>2, <2>1
  <2>3. x \notin Onward(s)
    BY <2>2 DEF Onward
  <2> QED
    BY <1>3, <2>3
<1>5. ASSUME NEW j \in Nat, j \in S PROVE j + 1 \in S
  <2> SUFFICES ASSUME NEW x \in Spots(s), left(x) <= j + 1, f[x] # Incomplete PROVE Same(f[x], g[x], part)
    OBVIOUS
  <2>1. CASE x \notin Onward(s)
    BY <1>3, <2>1
  <2>2. CASE x \in Onward(s)
    <3> DEFINE z == NextSpot(s)[x]
    <3>1. z \in Spots(s) /\ z[1] > x[1]
      BY <1>1, <2>2, OnwardIs
    <3>2. x \in Spots(w) /\ x \in Onward(w) /\ NextSpot(w)[x] = z
      BY <2>2, SpotSettled
    <3>3. f[x] = f[z] /\ g[x] = g[z]
      BY <2>2, <3>2 DEF IsLoop
    <3> HIDE DEF z
    <3>4. left(z) <= j
      BY <1>1, <1>2, <3>1
    <3>5. Same(f[z], g[z], part)
      BY <1>5, <3>1, <3>3, <3>4
    <3> QED
      BY <3>3, <3>5
  <2> QED
    BY <2>1, <2>2
<1> HIDE DEF S
<1>6. \A j \in Nat : j \in S
  BY <1>4, <1>5, Induct
<1>7. left(y) \in S /\ left(y) \in Nat /\ left(y) <= left(y)
  BY <1>2, <1>6
<1> HIDE DEF left
<1> QED
  BY <1>7 DEF S

LEMMA ChunksSettled ==
  ASSUME NEW s, NEW w, Prefix(s, w), NEW e \in 0..Len(s), NEW m, NEW part \in Nat,
         Chunks(s, e, m, part) # Incomplete
  PROVE  Same(Chunks(s, e, m, part), Chunks(w, e, m, 0), part)
<1>1. s \in Seq(Tokens) /\ w \in Seq(Tokens) /\ Len(s) <= Len(w) /\ Len(s) \in Nat /\ Len(w) \in Nat
  BY DEF Prefix
<1>2. PICK f : IsLoop(s, m, f, part) /\ Chunks(s, e, m, part) = f[<<e + 1, 0>>]
  <2>1. s \in Seq(Tokens) /\ e \in 0..Len(s)
    BY <1>1
  <2>2. \A p : \E f : IsLoop(s, m, f, p) /\ Chunks(s, e, m, p) = f[<<e + 1, 0>>]
    BY <2>1, ChunksLoop
  <2> QED
    BY <2>2
<1>3. e \in 0..Len(w)
  BY <1>1
<1>4. PICK g : IsLoop(w, m, g, 0) /\ Chunks(w, e, m, 0) = g[<<e + 1, 0>>]
  BY <1>1, <1>3, ChunksLoop
<1>5. <<e + 1, 0>> \in Spots(s)
  <2>1. e + 1 \in 1..(Len(s) + 1) /\ 0 \in 0..MaxBody
    BY <1>1, LimitsAssumption
  <2> QED
    BY <2>1 DEF Spots
<1> QED
  BY <1>2, <1>4, <1>5, LoopSettled

LEMMA ResponseSettled ==
  ASSUME NEW s, NEW w, NEW part, Cutting(s, w, part), NEW how,
         ParseResponse(s, how, FALSE, part) # Incomplete
  PROVE  \/ ParseResponse(w, how, FALSE, 0) = ParseResponse(s, how, FALSE, part)
         \/ TooLongForNow(s, part, ParseResponse(s, how, FALSE, part))
<1>1. /\ s \in Seq(Tokens) /\ w \in Seq(Tokens) /\ Len(s) <= Len(w) /\ \A i \in 1..Len(s) : s[i] = w[i]
      /\ Len(s) \in Nat /\ Len(w) \in Nat /\ MaxBody \in Nat /\ part \in Nat
  BY LimitsAssumption DEF Prefix, Cutting
<1>2. CASE HeaderTooLarge(s, HeaderEnd(s), part)
  BY <1>2, TooLargeStays DEF ParseResponse
<1>3. CASE ~HeaderTooLarge(s, HeaderEnd(s), part)
  <2> DEFINE e == HeaderEnd(s)
             n == ContentLength(s, e)
             T == Lines(s, e, "encoding")
             G == Lines(s, e, "length")
             m == [line |-> s[1], close |-> ResponseCloses(s, e), from |-> e + 1, upto |-> e]
             bad == HeaderError(s, e, {})
             last == FinalChunked(s, T)
             V(in, q) == IF StatusLineError(s[1]) # "NONE" THEN Error(StatusLineError(s[1]))
                      ELSE IF bad # "NONE" THEN Error(bad)
                      ELSE IF T # {} /\ G # {} THEN Error("INVALID_CONTENT_LENGTH")
                      ELSE IF n > MaxBody THEN Error("BODY_TOO_LARGE")
                      ELSE IF ResponseHasNoBody(how, s[1].n) THEN Finished(e, m)
                      ELSE IF T # {}
                      THEN IF last THEN Chunks(in, e, m, q)
                           ELSE Error("UNSUPPORTED_TRANSFER_ENCODING")
                      ELSE IF G # {} THEN SizedBody(in, e, n, m)
                      ELSE CloseDelimited(in, e, m, FALSE)
  <2>1. e # 0
    BY <1>3 DEF ParseResponse
  <2>2. HeaderEnd(w) = e
    BY <2>1, SameHeaderEnd DEF Cutting
  <2>3. e \in 2..Len(s) /\ e \in 0..Len(s) /\ e \in Int
    BY <1>1, <2>1, HeaderEndIs
  <2>4. ~HeaderTooLarge(w, e, 0)
    BY <1>3, <2>1 DEF HeaderTooLarge
  <2>5. w[1] = s[1]
    BY <1>1, <2>3
  <2>6. /\ Lines(w, e, "encoding") = T /\ Lines(w, e, "length") = G
        /\ HeaderError(w, e, {}) = bad /\ ContentLength(w, e) = n
        /\ ResponseCloses(w, e) = ResponseCloses(s, e) /\ FinalChunked(w, T) = last
    <3> HIDE DEF e
    <3> QED
      BY <2>3, SameHeader DEF Cutting
  <2>7. ParseResponse(s, how, FALSE, part) = V(s, part)
    BY <1>3, <2>1 DEF ParseResponse
  <2>8. ParseResponse(w, how, FALSE, 0) = V(w, 0)
    <3> HIDE DEF e
    <3> QED
      BY <2>1, <2>2, <2>4, <2>5, <2>6 DEF ParseResponse
  <2>9. n \in Int
    <3> HIDE DEF e
    <3> QED
      BY <1>1, <2>3, LengthIs
  <2> HIDE DEF e, n, T, G, m, bad, last
  <2>10. Chunks(s, e, m, part) # Incomplete => Same(Chunks(s, e, m, part), Chunks(w, e, m, 0), part)
    BY <1>1, <2>3, ChunksSettled DEF Cutting
  <2>11. SizedBody(s, e, n, m) # Incomplete => SizedBody(w, e, n, m) = SizedBody(s, e, n, m)
    <3> SUFFICES ASSUME SizedBody(s, e, n, m) # Incomplete PROVE SizedBody(w, e, n, m) = SizedBody(s, e, n, m)
      OBVIOUS
    <3>1. ~(Len(s) < e + n)
      BY DEF SizedBody
    <3>2. ~(Len(w) < e + n)
      BY <1>1, <2>3, <2>9, <3>1
    <3> QED
      BY <3>1, <3>2 DEF SizedBody
  <2>12. CloseDelimited(s, e, m, FALSE) # Incomplete =>
           CloseDelimited(w, e, m, FALSE) = CloseDelimited(s, e, m, FALSE)
    <3> SUFFICES ASSUME CloseDelimited(s, e, m, FALSE) # Incomplete
                 PROVE  CloseDelimited(w, e, m, FALSE) = CloseDelimited(s, e, m, FALSE)
      OBVIOUS
    <3>1. Len(s) - e > MaxBody
      BY DEF CloseDelimited
    <3>2. Len(w) - e > MaxBody
      BY <1>1, <2>3, <3>1
    <3> QED
      BY <3>1, <3>2 DEF CloseDelimited
  <2>13. V(s, part) # Incomplete
    <3> HIDE DEF V
    <3> QED
      BY <2>7
  <2>14. Same(V(s, part), V(w, 0), part)
    BY <2>10, <2>11, <2>12, <2>13 DEF Same
  <2> HIDE DEF V
  <2> QED
    BY <2>1, <2>7, <2>8, <2>14 DEF Same, TooLongForNow, e
<1> QED
  BY <1>2, <1>3

LEMMA CutIs ==
  ASSUME NEW w \in Seq(Tokens), NEW cut \in Cuts(w)
  PROVE  Cutting(SubSeq(w, 1, cut[1]), w, cut[2])
<1> DEFINE k == cut[1]
           part == cut[2]
<1>1. /\ k \in 0..(Len(w) - 1) /\ part \in {0, 1, MaxHeader + 1} /\ MaxHeader \in Nat
      /\ part = 0 \/ part \in Beginnings(SubSeq(w, 1, k), w[k + 1])
  BY LimitsAssumption DEF Cuts
<1> HIDE DEF k, part
<1>2. k \in 0..Len(w) /\ part \in Nat /\ Len(w) \in Nat
  BY <1>1
<1>3. Prefix(SubSeq(w, 1, k), w) /\ Len(SubSeq(w, 1, k)) = k
  BY <1>2, CutIsPrefix
<1>4. HeaderEnd(SubSeq(w, 1, k)) = 0 => part <= 1
  BY <1>1 DEF Beginnings
<1>5. part <= 1 => k + part <= Len(w)
  BY <1>1, <1>2
<1> QED
  BY <1>2, <1>3, <1>4, <1>5 DEF Cutting, k, part

LEMMA BuffersSettled ==
  ASSUME sin \in Seq(Tokens), cin \in Seq(Tokens)
  PROVE  CutsDoNotMatter
<1>1. ASSUME NEW cut \in Cuts(sin), ParseRequest(SubSeq(sin, 1, cut[1]), cut[2]) # Incomplete
      PROVE  ParseRequest(sin, 0) = ParseRequest(SubSeq(sin, 1, cut[1]), cut[2])
  BY <1>1, CutIs, RequestSettled
<1>2. ASSUME NEW cut \in Cuts(cin),
             ParseResponse(SubSeq(cin, 1, cut[1]), method, FALSE, cut[2]) # Incomplete
      PROVE  LET s == SubSeq(cin, 1, cut[1])
                 r == ParseResponse(s, method, FALSE, cut[2])
             IN ParseResponse(cin, method, FALSE, 0) = r \/ TooLongForNow(s, cut[2], r)
  BY <1>2, CutIs, ResponseSettled
<1> QED
  BY <1>1, <1>2 DEF CutsDoNotMatter

-----------------------------------------------------------------------------
(* The messages as they are written. *)

\* A text: two lines, a length or none, the empty line at h and a body of n.
IsText(t, h, n, id) ==
  /\ t \in Seq(Tokens) /\ n \in Nat /\ h \in {3, 4} /\ Len(t) = h + n
  /\ t[2].k = "connection" /\ t[h].k = "crlf"
  /\ h = 4 => t[3].k = "length" /\ t[3].n = n
  /\ h = 3 => n = 0
  /\ \A i \in 1..Len(t) : i # h => t[i].k # "crlf"
  /\ \A i \in 1..Len(t) : t[i].id = id

LEMMA TextOf ==
  ASSUME NEW a \in Tokens, NEW b \in Tokens, NEW id \in Nat, NEW n \in Nat, NEW L \in BOOLEAN,
         a.id = id, b.id = id, a.k # "crlf", b.k = "connection", ~L => n = 0
  PROVE  LET t == <<a, b>> \o (IF L THEN <<Token("length", n, id)>> ELSE <<>>)
                    \o <<Token("crlf", 0, id)>> \o Data(n, id)
         IN IsText(t, IF L THEN 4 ELSE 3, n, id) /\ t[1] = a
<1> DEFINE l == Token("length", n, id)
           c == Token("crlf", 0, id)
           d == Token("data", 0, id)
           P == IF L THEN <<l>> ELSE <<>>
           u == <<a, b>> \o P
           head == u \o <<c>>
           D == Data(n, id)
           t == head \o D
           h == IF L THEN 4 ELSE 3
<1>1. l \in Tokens /\ c \in Tokens /\ d \in Tokens
  BY DEF Tokens, Token, LineKinds, HeaderKinds
<1>2. /\ l.k = "length" /\ l.n = n /\ c.k = "crlf" /\ d.k = "data"
      /\ l.id = id /\ c.id = id /\ d.id = id
  BY DEF Token
<1>3. D \in Seq(Tokens) /\ Len(D) = n /\ \A i \in 1..n : D[i] = d
  <2>1. D = [i \in 1..n |-> d]
    BY DEF Data
  <2> HIDE DEF D, d
  <2> QED
    BY <1>1, <2>1
<1> HIDE DEF l, c, d, D
<1>4. P \in Seq(Tokens) /\ Len(P) = h - 3 /\ (L => P[1] = l)
  BY <1>1
<1>4a. /\ u \in Seq(Tokens) /\ Len(u) = h - 1 /\ u[1] = a /\ u[2] = b /\ (L => u[3] = l)
  <2>1. <<a, b>> \in Seq(Tokens) /\ Len(<<a, b>>) = 2 /\ <<a, b>>[1] = a /\ <<a, b>>[2] = b
    OBVIOUS
  <2>2. h \in {3, 4} /\ (L => h = 4)
    OBVIOUS
  <2> HIDE DEF P, h
  <2> QED
    BY <1>4, <2>1, <2>2
<1>5. /\ head \in Seq(Tokens) /\ Len(head) = h /\ head[h] = c
      /\ \A i \in 1..(h - 1) : head[i] = u[i]
  <2>1. <<c>> \in Seq(Tokens) /\ Len(<<c>>) = 1 /\ <<c>>[1] = c
    BY <1>1
  <2>2. h \in {3, 4}
    OBVIOUS
  <2> HIDE DEF u, h
  <2> QED
    BY <1>4a, <2>1, <2>2
<1>7. h \in Nat
  OBVIOUS
<1>6. t \in Seq(Tokens) /\ Len(t) = h + n
  <2> HIDE DEF head, h
  <2>1. head \in Seq(Tokens) /\ D \in Seq(Tokens)
    BY <1>3, <1>5
  <2>2. t \in Seq(Tokens) /\ Len(t) = Len(head) + Len(D)
    BY <2>1
  <2> QED
    BY <1>3, <1>5, <2>2
<1>8. \A i \in 1..h : t[i] = head[i]
  <2> HIDE DEF head, h
  <2> QED
    BY <1>3, <1>5, <1>7
<1>9. \A i \in (h + 1)..(h + n) : t[i] = d
  <2> SUFFICES ASSUME NEW i \in (h + 1)..(h + n) PROVE t[i] = d
    OBVIOUS
  <2> HIDE DEF head, h
  <2>1. i - h \in 1..n /\ i \in 1..(h + n) /\ ~(i <= h)
    BY <1>7
  <2>2. t[i] = D[i - h]
    BY <1>3, <1>5, <1>7, <2>1
  <2> QED
    BY <1>3, <2>1, <2>2
<1>10. /\ t[1] = a /\ t[2] = b /\ t[h] = c /\ (L => t[3] = l)
       /\ \A i \in 1..h : t[i] \in {a, b, l, c} /\ (i # h => t[i] \in {a, b, l})
  <2> HIDE DEF t, head, u
  <2>1. CASE L
    <3>1. h = 4
      BY <2>1
    <3>2. t[1] = a /\ t[2] = b /\ t[3] = l /\ t[4] = c
      BY <1>4a, <1>5, <1>8, <2>1, <3>1
    <3> QED
      BY <3>1, <3>2
  <2>2. CASE ~L
    <3>1. h = 3
      BY <2>2
    <3>2. t[1] = a /\ t[2] = b /\ t[3] = c
      BY <1>4a, <1>5, <1>8, <3>1
    <3> QED
      BY <2>2, <3>1, <3>2
  <2> QED
    BY <2>1, <2>2
<1>11. \A i \in 1..Len(t) : t[i] \in {a, b, l, c, d} /\ (i # h => t[i] \in {a, b, l, d})
  <2> SUFFICES ASSUME NEW i \in 1..Len(t) PROVE t[i] \in {a, b, l, c, d} /\ (i # h => t[i] \in {a, b, l, d})
    OBVIOUS
  <2> HIDE DEF t, h
  <2>1. i \in 1..h \/ i \in (h + 1)..(h + n)
    BY <1>6, <1>7
  <2> QED
    BY <1>9, <1>10, <2>1
<1>12. IsText(t, h, n, id)
  <2>1. h \in {3, 4} /\ (h = 4 => L) /\ (h = 3 => n = 0)
    OBVIOUS
  <2> HIDE DEF t, h
  <2>2. \A i \in 1..Len(t) : i # h => t[i].k # "crlf"
    BY <1>2, <1>11
  <2>3. \A i \in 1..Len(t) : t[i].id = id
    BY <1>2, <1>11
  <2> QED
    BY <1>2, <1>6, <1>10, <2>1, <2>2, <2>3 DEF IsText
<1> QED
  BY <1>10, <1>12 DEF l, c, D

LEMMA RequestTextIs ==
  ASSUME NEW m \in Methods, NEW close \in BOOLEAN, NEW body \in Nat, NEW id \in Nat
  PROVE  LET t == RequestText(m, close, body, id)
         IN IsText(t, IF body > 0 THEN 4 ELSE 3, body, id) /\ t[1] = Token(m, 11, id)
<1> DEFINE a == Token(m, 11, id)
           b == Token("connection", IF close THEN 1 ELSE 0, id)
           L == body > 0
<1>1. a \in Tokens /\ b \in Tokens /\ a.id = id /\ b.id = id /\ a.k # "crlf" /\ b.k = "connection"
  BY DEF Methods, Tokens, Token, LineKinds, HeaderKinds
<1>2. L \in BOOLEAN /\ (~L => body = 0)
  OBVIOUS
<1> HIDE DEF a, b
<1>3. LET t == <<a, b>> \o (IF L THEN <<Token("length", body, id)>> ELSE <<>>)
                 \o <<Token("crlf", 0, id)>> \o Data(body, id)
      IN IsText(t, IF L THEN 4 ELSE 3, body, id) /\ t[1] = a
  <2> HIDE DEF L
  <2> QED
    BY <1>1, <1>2, TextOf
<1> QED
  BY <1>3 DEF RequestText, a, b

LEMMA ResponseTextIs ==
  ASSUME NEW r, r.status \in Nat, r.body \in Nat, r.close \in BOOLEAN, NEW id \in Nat
  PROVE  LET t == ResponseText(r, id)
         IN /\ IsText(t, IF AllowsBody(r.status) THEN 4 ELSE 3, IF AllowsBody(r.status) THEN r.body ELSE 0, id)
            /\ t[1] = Token("status", r.status, id)
<1> DEFINE a == Token("status", r.status, id)
           b == Token("connection", IF r.close THEN 1 ELSE 0, id)
           L == AllowsBody(r.status)
           n == IF L THEN r.body ELSE 0
<1>1. a \in Tokens /\ b \in Tokens /\ a.id = id /\ b.id = id /\ a.k # "crlf" /\ b.k = "connection"
  BY DEF Tokens, Token, LineKinds, HeaderKinds
<1>2. L \in BOOLEAN /\ (~L => n = 0) /\ n \in Nat
  BY DEF AllowsBody
<1> HIDE DEF a, b
<1>3. LET t == <<a, b>> \o (IF L THEN <<Token("length", n, id)>> ELSE <<>>)
                 \o <<Token("crlf", 0, id)>> \o Data(n, id)
      IN IsText(t, IF L THEN 4 ELSE 3, n, id) /\ t[1] = a
  <2> HIDE DEF L, n
  <2> QED
    BY <1>1, <1>2, TextOf
<1>4. Data(0, id) = <<>>
  <2>1. Data(0, id) = [i \in 1..0 |-> Token("data", 0, id)]
    BY DEF Data
  <2> QED
    BY <2>1
<1>5. (IF L THEN Data(r.body, id) ELSE <<>>) = Data(n, id)
  BY <1>4
<1>6. (IF L THEN <<Token("length", r.body, id)>> ELSE <<>>) = (IF L THEN <<Token("length", n, id)>> ELSE <<>>)
  OBVIOUS
<1>7. ResponseText(r, id) = <<a, b>> \o (IF L THEN <<Token("length", n, id)>> ELSE <<>>)
                              \o <<Token("crlf", 0, id)>> \o Data(n, id)
  <2> HIDE DEF n, L
  <2>1. ResponseText(r, id) = <<a, b>> \o (IF L THEN <<Token("length", r.body, id)>> ELSE <<>>)
                              \o <<Token("crlf", 0, id)>> \o (IF L THEN Data(r.body, id) ELSE <<>>)
    BY DEF ResponseText, L, a, b
  <2> QED
    BY <1>5, <1>6, <2>1
<1> HIDE DEF L
<1> QED
  BY <1>3, <1>7 DEF a, L

-----------------------------------------------------------------------------
(* Types. *)

LEMMA Associates ==
  ASSUME NEW a \in Seq(Tokens), NEW b \in Seq(Tokens), NEW c \in Seq(Tokens)
  PROVE  (a \o b) \o c = a \o (b \o c)
  BY ConcatAssociative

LEMMA ReadKeeps ==
  ASSUME NEW wire \in Seq(Tokens), NEW buffer \in Seq(Tokens), NEW wire2, NEW buffer2,
         Read(wire, buffer, wire2, buffer2)
  PROVE  /\ wire2 \in Seq(Tokens) /\ buffer2 \in Seq(Tokens) /\ wire # <<>>
         /\ buffer2 \o wire2 = buffer \o wire
<1>1. PICK k \in 1..Len(wire) : /\ buffer2 = buffer \o SubSeq(wire, 1, k)
                                /\ wire2 = SubSeq(wire, k + 1, Len(wire))
  BY DEF Read
<1> DEFINE x == SubSeq(wire, 1, k)
           y == SubSeq(wire, k + 1, Len(wire))
<1>2. x \in Seq(Tokens) /\ y \in Seq(Tokens)
  OBVIOUS
<1>3. Len(x) = k /\ Len(y) = Len(wire) - k
  OBVIOUS
<1>4. x \o y = wire
  <2>1. x \o y \in Seq(Tokens) /\ Len(x \o y) = Len(wire)
    BY <1>2, <1>3
  <2>2. \A i \in 1..Len(x \o y) : (x \o y)[i] = wire[i]
    <3> SUFFICES ASSUME NEW i \in 1..Len(wire) PROVE (x \o y)[i] = wire[i]
      BY <2>1
    <3>1. CASE i <= k
      <4>1. (x \o y)[i] = x[i]
        BY <1>2, <1>3, <3>1
      <4>2. x[i] = wire[i]
        BY <3>1
      <4> QED
        BY <4>1, <4>2
    <3>2. CASE ~(i <= k)
      <4>1. i - k \in 1..(Len(wire) - k)
        BY <3>2
      <4>2. (x \o y)[i] = y[i - k]
        <5> HIDE DEF x, y
        <5> QED
          BY <1>2, <1>3, <3>2, <4>1
      <4>3. y[i - k] = wire[i]
        BY <4>1
      <4> QED
        BY <4>2, <4>3
    <3> QED
      BY <3>1, <3>2
  <2> HIDE DEF x, y
  <2> QED
    BY <2>1, <2>2, SeqEqual
<1>5. (buffer \o x) \o y = buffer \o (x \o y)
  <2> HIDE DEF x, y
  <2> QED
    BY <1>2, Associates
<1>6. wire # <<>>
  OBVIOUS
<1> HIDE DEF x, y
<1>7. wire2 = y /\ buffer2 = buffer \o x
  BY <1>1 DEF x, y
<1> QED
  BY <1>2, <1>4, <1>5, <1>6, <1>7, SMTT(30)

LEMMA PartialIs ==
  ASSUME NEW text \in Seq(Tokens), NEW part \in Partial(text)
  PROVE  part \in Seq(Tokens) /\ \E k \in 0..Len(text) : part = SubSeq(text, 1, k)
<1>1. PICK k \in 0..(Len(text) - 1) : part = SubSeq(text, 1, k)
  BY DEF Partial
<1>2. k \in 0..Len(text)
  OBVIOUS
<1> QED
  BY <1>1, <1>2

LEMMA TextsAreTyped ==
  ASSUME NEW m \in Methods, NEW close \in BOOLEAN, NEW body \in Nat, NEW id \in Nat,
         NEW r, r.status \in Nat, r.body \in Nat, r.close \in BOOLEAN
  PROVE  RequestText(m, close, body, id) \in Seq(Tokens) /\ ResponseText(r, id) \in Seq(Tokens)
  BY RequestTextIs, ResponseTextIs DEF IsText

LEMMA MarkedIs ==
  ASSUME NEW piece \in Seq(LineKinds \X Int)
  PROVE  Marked(piece) \in Seq(Tokens)
<1>1. \A i \in 1..Len(piece) : Token(piece[i][1], piece[i][2], 0) \in Tokens
  <2> SUFFICES ASSUME NEW i \in 1..Len(piece) PROVE Token(piece[i][1], piece[i][2], 0) \in Tokens
    OBVIOUS
  <2>1. piece[i] \in LineKinds \X Int
    OBVIOUS
  <2>2. piece[i][1] \in LineKinds /\ piece[i][2] \in Int
    BY <2>1
  <2> QED
    BY <2>2 DEF Token, Tokens
<1>2. Marked(piece) = [i \in 1..Len(piece) |-> Token(piece[i][1], piece[i][2], 0)]
  BY DEF Marked
<1> QED
  BY <1>1, <1>2

LEMMA RestIs ==
  ASSUME NEW buffer \in Seq(Tokens), NEW r, r.used \in Nat
  PROVE  Rest(buffer, r) \in Seq(Tokens)
  BY DEF Rest

\* used is a count of bytes of the buffer.
LEMMA UsedRequest ==
  ASSUME NEW in \in Seq(Tokens), IsFinished(ParseRequest(in, 0))
  PROVE  /\ ParseRequest(in, 0).used \in 1..Len(in)
         /\ ParseRequest(in, 0).msg.line = in[1] /\ ParseRequest(in, 0).msg.close \in BOOLEAN
<1> DEFINE e == HeaderEnd(in)
           n == ContentLength(in, e)
<1>1. Len(in) \in Nat /\ MaxBody \in Nat
  BY LimitsAssumption
<1>2. ~HeaderTooLarge(in, e, 0) /\ e # 0 /\ HeaderError(in, e, Lines(in, e, "encoding")) = "NONE"
      /\ RequestLineError(in[1]) = "NONE" /\ ~(n > MaxBody) /\ ~(Len(in) < e + n)
  BY DEF ParseRequest, IsFinished, Error, Incomplete
<1>3. ParseRequest(in, 0) = Finished(e + n, [line |-> in[1], close |-> RequestCloses(in, e),
                                          from |-> e + 1, upto |-> e + n])
  BY <1>2 DEF ParseRequest
<1>4. ParseRequest(in, 0).used = e + n /\ e + n > 0
  BY <1>3 DEF Finished, IsFinished
<1>5. /\ ParseRequest(in, 0).msg.line = in[1] /\ ParseRequest(in, 0).msg.close = RequestCloses(in, e)
  BY <1>3 DEF Finished
<1>6. RequestCloses(in, e) \in BOOLEAN
  BY Zenon DEF RequestCloses
<1>7. e \in 2..Len(in)
  BY <1>1, <1>2, HeaderEndIs
<1>8. n \in Int
  <2> HIDE DEF e
  <2> QED
    BY <1>7, LengthIs
<1> HIDE DEF e, n
<1>9. e + n \in 1..Len(in)
  BY <1>1, <1>2, <1>4, <1>7, <1>8
<1> QED
  BY <1>4, <1>5, <1>6, <1>9

LEMMA UsedTrailers ==
  ASSUME NEW in \in Seq(Tokens), NEW b \in Nat, NEW m, NEW part
  PROVE  Trailers(in, b, m, part).used \in 0..Len(in)
<1> DEFINE Halts == {i \in b..Len(in) : \/ in[i].k \notin HeaderKinds
                                       \/ i - b > MaxHeader}
           i == SetMin(Halts)
<1>1. Len(in) \in Nat /\ Halts \in SUBSET Nat
  OBVIOUS
<1>2. Halts # {} => i \in 0..Len(in)
  <2>1. Halts \in SUBSET (0..Len(in))
    OBVIOUS
  <2> HIDE DEF Halts
  <2> QED
    BY <1>1, <2>1, SetMinIs
<1>3. \A x : Error(x).used = 0 /\ Incomplete.used = 0
  BY DEF Error, Incomplete
<1>4. \A u, x : Finished(u, x).used = u
  BY DEF Finished
<1>5. \/ Trailers(in, b, m, part).used = 0
      \/ Halts # {} /\ Trailers(in, b, m, part).used = i
  BY <1>3, <1>4 DEF Trailers
<1> HIDE DEF Halts, i
<1> QED
  BY <1>1, <1>2, <1>5

LEMMA UsedChunks ==
  ASSUME NEW in \in Seq(Tokens), NEW e \in 0..Len(in), NEW m, NEW part
  PROVE  Chunks(in, e, m, part).used \in 0..Len(in)
<1>1. PICK f : IsLoop(in, m, f, part) /\ Chunks(in, e, m, part) = f[<<e + 1, 0>>]
  BY ChunksLoop
<1> DEFINE left(x) == (Len(in) + 1) - x[1]
           S == {j \in Nat : \A x \in Spots(in) : left(x) <= j => f[x].used \in 0..Len(in)}
<1>2. Len(in) \in Nat
  OBVIOUS
<1>3. ASSUME NEW x \in Spots(in) PROVE left(x) \in Nat /\ x[1] \in Nat
  <2>1. x[1] \in 1..(Len(in) + 1)
    BY DEF Spots
  <2> QED
    BY <1>2, <2>1
<1>4. ASSUME NEW x \in Spots(in), x \notin Onward(in) PROVE f[x].used \in 0..Len(in)
  <2>1. f[x] = Verdict(in, m, part)[x]
    BY <1>1, <1>4 DEF IsLoop
  <2>2. \A y : Error(y).used = 0 /\ Incomplete.used = 0
    BY DEF Error, Incomplete
  <2>3. \/ Verdict(in, m, part)[x].used = 0
        \/ Verdict(in, m, part)[x] = Trailers(in, x[1] + 1, [m EXCEPT !.upto = x[1]], part)
    BY <2>2 DEF Verdict
  <2>4. x[1] + 1 \in Nat
    BY <1>3
  <2>5. Trailers(in, x[1] + 1, [m EXCEPT !.upto = x[1]], part).used \in 0..Len(in)
    BY <2>4, UsedTrailers
  <2> QED
    BY <1>2, <2>1, <2>3, <2>5
<1>5. 0 \in S
  <2> SUFFICES ASSUME NEW x \in Spots(in), left(x) <= 0 PROVE f[x].used \in 0..Len(in)
    OBVIOUS
  <2>1. ~(x[1] <= Len(in))
    BY <1>2, <1>3
  <2>2. x \notin Onward(in)
    BY <2>1 DEF Onward
  <2> QED
    BY <1>4, <2>2
<1>6. ASSUME NEW j \in Nat, j \in S PROVE j + 1 \in S
  <2> SUFFICES ASSUME NEW x \in Spots(in), left(x) <= j + 1 PROVE f[x].used \in 0..Len(in)
    OBVIOUS
  <2>1. CASE x \notin Onward(in)
    BY <1>4, <2>1
  <2>2. CASE x \in Onward(in)
    <3> DEFINE z == NextSpot(in)[x]
    <3>1. z \in Spots(in) /\ z[1] > x[1]
      BY <2>2, OnwardIs
    <3>2. f[x] = f[z]
      BY <1>1, <2>2 DEF IsLoop
    <3> HIDE DEF z
    <3>3. left(z) <= j
      BY <1>2, <1>3, <3>1
    <3> QED
      BY <1>6, <3>1, <3>2, <3>3
  <2> QED
    BY <2>1, <2>2
<1> HIDE DEF S
<1>7. \A j \in Nat : j \in S
  BY <1>5, <1>6, Induct
<1> DEFINE y == <<e + 1, 0>>
<1>8. y \in Spots(in)
  <2>1. e + 1 \in 1..(Len(in) + 1) /\ 0 \in 0..MaxBody
    BY LimitsAssumption
  <2> QED
    BY <2>1 DEF Spots
<1> HIDE DEF y
<1>9. left(y) \in S /\ left(y) \in Nat /\ left(y) <= left(y)
  BY <1>3, <1>7, <1>8
<1> HIDE DEF left
<1> QED
  BY <1>1, <1>8, <1>9 DEF S, y

LEMMA UsedResponse ==
  ASSUME NEW in \in Seq(Tokens), NEW how, NEW eof
  PROVE  IsFinished(ParseResponse(in, how, eof, 0)) => ParseResponse(in, how, eof, 0).used \in 1..Len(in)
<1> DEFINE e == HeaderEnd(in)
           n == ContentLength(in, e)
           m == [line |-> in[1], close |-> ResponseCloses(in, e), from |-> e + 1, upto |-> e]
           r == ParseResponse(in, how, eof, 0)
<1>1. Len(in) \in Nat
  OBVIOUS
<1>2. \A x : Error(x).used = 0 /\ Incomplete.used = 0
  BY DEF Error, Incomplete
<1>3. \A u, x : Finished(u, x).used = u
  BY DEF Finished
<1>4. \/ r.used = 0
      \/ e # 0 /\ (\/ r = Finished(e, m) \/ r = Chunks(in, e, m, 0)
                   \/ r = SizedBody(in, e, n, m) \/ r = CloseDelimited(in, e, m, eof))
  BY <1>2 DEF ParseResponse
<1>5. CASE r.used = 0
  BY <1>5 DEF IsFinished
<1>6. CASE e # 0 /\ (\/ r = Finished(e, m) \/ r = Chunks(in, e, m, 0)
                   \/ r = SizedBody(in, e, n, m) \/ r = CloseDelimited(in, e, m, eof))
  <2>1. e \in 2..Len(in) /\ e \in 0..Len(in)
    BY <1>1, <1>6, HeaderEndIs
  <2>2. n \in Int
    <3> HIDE DEF e
    <3> QED
      BY <2>1, LengthIs
  <2> HIDE DEF e, n, m, r
  <2>3. SizedBody(in, e, n, m).used = 0 \/ (~(Len(in) < e + n) /\ SizedBody(in, e, n, m).used = e + n)
    BY <1>2, <1>3 DEF SizedBody
  <2>4. CloseDelimited(in, e, m, eof).used \in {0, Len(in)}
    BY <1>2, <1>3 DEF CloseDelimited
  <2>5. Chunks(in, e, m, 0).used \in 0..Len(in)
    BY <2>1, UsedChunks
  <2>6. r.used \in 0..Len(in) \/ (r.used = e + n /\ ~(Len(in) < e + n))
    BY <1>1, <1>3, <1>6, <2>1, <2>3, <2>4, <2>5
  <2>7. r.used > 0 => r.used \in 1..Len(in)
    BY <1>1, <2>1, <2>2, <2>6
  <2> QED
    BY <2>7 DEF IsFinished, r
<1> QED
  BY <1>4, <1>5, <1>6

LEMMA Answering ==
  ASSUME answers \in Seq([error: Outcomes, ids: SUBSET Nat]), NEW x \in Outcomes, NEW S \in SUBSET Nat
  PROVE  Append(answers, [error |-> x, ids |-> S]) \in Seq([error: Outcomes, ids: SUBSET Nat])
  OBVIOUS

LEMMA IdsAre ==
  ASSUME NEW buffer \in Seq(Tokens), NEW r, r.used \in 1..Len(buffer)
  PROVE  Ids(buffer, r) \in SUBSET Nat
<1> SUFFICES ASSUME NEW i \in 1..r.used PROVE buffer[i].id \in Nat
  BY DEF Ids
<1>1. i \in 1..Len(buffer)
  OBVIOUS
<1>2. buffer[i] \in Tokens
  BY <1>1
<1> QED
  BY <1>2 DEF Tokens

Route == [pattern: Patterns, servlet: Servlet]

LEMMA WithoutIs ==
  ASSUME globs \in Seq(Route), NEW g
  PROVE  Without(g) \in Seq(Route)
<1> DEFINE Found == {i \in DOMAIN globs : globs[i].pattern = g}
<1>1. Found # {} => SetMin(Found) \in 1..Len(globs)
  <2>1. Found \in SUBSET (1..Len(globs)) /\ Found \in SUBSET Nat
    OBVIOUS
  <2> HIDE DEF Found
  <2> QED
    BY <2>1, SetMinIs
<1>2. CASE Found = {}
  BY <1>2 DEF Without
<1>3. CASE Found # {}
  <2> DEFINE i == SetMin(Found)
  <2>1. Without(g) = SubSeq(globs, 1, i - 1) \o SubSeq(globs, i + 1, Len(globs))
    BY <1>3 DEF Without
  <2>2. i \in 1..Len(globs)
    BY <1>1, <1>3
  <2> HIDE DEF i
  <2>3. /\ SubSeq(globs, 1, i - 1) \in Seq(Route)
        /\ SubSeq(globs, i + 1, Len(globs)) \in Seq(Route)
    BY <2>2
  <2> QED
    BY <2>1, <2>3
<1> QED
  BY <1>2, <1>3

LEMMA ServletsAre == NotFound \in Servlet /\ NoServlet \in Servlet /\ Servlets \subseteq Servlet
  BY HttpAssumption DEF NotFound, NoServlet, Servlet

LEMMA MatchedIs ==
  ASSUME HttpTypeOK, NEW p \in Paths
  PROVE  Matched(p) \in Servlet
<1> DEFINE Hit == {i \in DOMAIN globs : p \in globs[i].pattern}
<1>1. exact[p] \in Servlet /\ default \in Servlet /\ globs \in Seq(Route)
  BY DEF HttpTypeOK, Route
<1>2. Hit # {} => SetMin(Hit) \in 1..Len(globs)
  <2>1. Hit \in SUBSET (1..Len(globs)) /\ Hit \in SUBSET Nat
    BY <1>1
  <2> HIDE DEF Hit
  <2> QED
    BY <2>1, SetMinIs
<1>3. Hit # {} => globs[SetMin(Hit)].servlet \in Servlet
  <2> HIDE DEF Hit
  <2>1. \A i \in 1..Len(globs) : globs[i].servlet \in Servlet
    <3> SUFFICES ASSUME NEW i \in 1..Len(globs) PROVE globs[i].servlet \in Servlet
      OBVIOUS
    <3>1. globs[i] \in Route
      BY <1>1
    <3> QED
      BY <3>1 DEF Route
  <2> QED
    BY <1>2, <2>1
<1> QED
  BY <1>1, <1>3 DEF Matched

LEMMA HttpInitType == HttpInit => HttpTypeOK
<1> SUFFICES ASSUME HttpInit PROVE HttpTypeOK
  OBVIOUS
<1>1. NotFound \in Servlet /\ NoServlet \in Servlet
  BY ServletsAre
<1>2. NoRequest \in [method: LineKinds \cup {"none"}, id: Nat, close: BOOLEAN]
  BY DEF NoRequest
<1>3. NoResponse \in [status: Nat, body: Nat, close: BOOLEAN]
  BY DEF NoResponse
<1>4. 0 \in 0..MaxRoutes
  BY HttpAssumption
<1> QED
  BY <1>1, <1>2, <1>3, <1>4 DEF HttpInit, HttpTypeOK

\* What ends a call.
LEMMA GivesUpType ==
  ASSUME HttpTypeOK, NEW x \in Outcomes, ClientGivesUp(x)
  PROVE  /\ answers' \in Seq([error: Outcomes, ids: SUBSET Nat]) /\ cpc' = "idle"
         /\ reusable' = FALSE /\ sides' \subseteq {"client", "server"}
         /\ cin' = cin /\ method' = method /\ requests' = requests
<1>1. answers \in Seq([error: Outcomes, ids: SUBSET Nat]) /\ {} \in SUBSET Nat
  BY DEF HttpTypeOK
<1>2. Append(answers, [error |-> x, ids |-> {}]) \in Seq([error: Outcomes, ids: SUBSET Nat])
  BY <1>1, Answering
<1> QED
  BY <1>2 DEF ClientGivesUp, HttpTypeOK

LEMMA MethodsAre == UsedMethods \subseteq Methods /\ "GET" \in Methods
  BY HttpAssumption DEF Methods

LEMMA ClientType ==
  ASSUME HttpTypeOK,
         Dial \/ SendRequest \/ SendRequestFails \/ ClientParses \/ ClientReads \/ ClientEof
         \/ ClientReadsPart \/ ClientTimeout
  PROVE  HttpTypeOK'
<1> USE DEF client, server, dispatch
<1>0. /\ answers \in Seq([error: Outcomes, ids: SUBSET Nat]) /\ cin \in Seq(Tokens) /\ toClient \in Seq(Tokens)
      /\ toServer \in Seq(Tokens) /\ requests \in Nat /\ sin \in Seq(Tokens) /\ {} \in SUBSET Nat
  BY DEF HttpTypeOK
<1>1. CASE Dial
  <2>1. answers' \in Seq([error: Outcomes, ids: SUBSET Nat])
    <3>1. "CONNECT_FAIL" \in Outcomes
      BY DEF Outcomes
    <3>2. Append(answers, [error |-> "CONNECT_FAIL", ids |-> {}]) \in Seq([error: Outcomes, ids: SUBSET Nat])
      BY <1>0, <3>1, Answering
    <3> QED
      BY <1>0, <1>1, <3>2 DEF Dial
  <2>2. /\ cpc' = "idle" /\ reusable' \in BOOLEAN /\ spc' \in {"recv", "handle", "send", "done"}
        /\ sides' \subseteq {"client", "server"}
    BY <1>1 DEF Dial, ConnectFails, HttpTypeOK
  <2>3. UNCHANGED <<foreign, toServer, toClient, cin, method, requests, sin, request, response,
                    served, dispatch>>
    BY <1>1 DEF Dial
  <2> QED
    BY <2>1, <2>2, <2>3 DEF HttpTypeOK
<1>2. CASE SendRequest
  <2>1. PICK m \in UsedMethods, close \in BOOLEAN, body \in 0..1 :
          /\ method' = m
          /\ toServer' = toServer \o (IF "server" \in sides
                                      THEN RequestText(m, close, body, requests + 1) ELSE <<>>)
    BY <1>2 DEF SendRequest
  <2>2. RequestText(m, close, body, requests + 1) \in Seq(Tokens)
    <3>1. m \in Methods /\ requests + 1 \in Nat /\ body \in Nat
      BY <1>0, MethodsAre
    <3> QED
      BY <3>1, RequestTextIs DEF IsText
  <2>3. toServer' \in Seq(Tokens)
    <3> DEFINE t == RequestText(m, close, body, requests + 1)
    <3>1. t \in Seq(Tokens)
      BY <2>2
    <3> HIDE DEF t
    <3>2. toServer' = toServer \o (IF "server" \in sides THEN t ELSE <<>>)
      BY <2>1 DEF t
    <3> QED
      BY <1>0, <3>1, <3>2
  <2>4. /\ cpc' = "recv" /\ reusable' = FALSE /\ requests' = requests + 1 /\ method' \in UsedMethods
        /\ UNCHANGED <<foreign, toClient, sides, cin, answers, server, dispatch>>
    BY <1>2, <2>1 DEF SendRequest
  <2>5. requests' \in Nat
    BY <1>0, <2>4
  <2> QED
    BY <2>3, <2>4, <2>5 DEF HttpTypeOK
<1>3. CASE SendRequestFails
  <2>1. /\ method' \in UsedMethods /\ reusable' = FALSE /\ requests' = requests + 1
        /\ sides' = sides \ {"client"}
        /\ answers' = Append(answers, [error |-> "SEND_ERROR", ids |-> {}])
        /\ UNCHANGED <<foreign, toClient, cpc, cin, server, dispatch>>
    BY <1>3 DEF SendRequestFails
  <2> DEFINE t == RequestText(method', FALSE, IF method' = "POST" THEN 1 ELSE 0, requests + 1)
  <2>2. PICK part \in Partial(t) : toServer' = toServer \o (IF "server" \in sides THEN part ELSE <<>>)
    BY <1>3 DEF SendRequestFails
  <2>3. t \in Seq(Tokens)
    <3> DEFINE n == IF method' = "POST" THEN 1 ELSE 0
    <3>1. method' \in Methods /\ requests + 1 \in Nat /\ n \in Nat /\ FALSE \in BOOLEAN
      BY <1>0, <2>1, MethodsAre
    <3> HIDE DEF n
    <3>2. RequestText(method', FALSE, n, requests + 1) \in Seq(Tokens)
      BY <3>1, RequestTextIs DEF IsText
    <3> QED
      BY <3>2 DEF n
  <2> HIDE DEF t
  <2>4. part \in Seq(Tokens)
    BY <2>3, PartialIs
  <2>5. toServer' \in Seq(Tokens)
    BY <1>0, <2>2, <2>4
  <2>6. answers' \in Seq([error: Outcomes, ids: SUBSET Nat])
    <3>1. "SEND_ERROR" \in Outcomes
      BY DEF Outcomes
    <3> QED
      BY <1>0, <2>1, <3>1, Answering
  <2>7. requests' \in Nat
    BY <1>0, <2>1
  <2> QED
    BY <2>1, <2>5, <2>6, <2>7 DEF HttpTypeOK
<1>4. CASE ClientParses
  <2>1. UNCHANGED <<foreign, toServer, toClient, server, dispatch>>
    BY <1>4 DEF ClientParses
  <2>2. CASE HasError(Buffered) /\ ClientGivesUp("PARSE_ERROR")
    <3>1. "PARSE_ERROR" \in Outcomes
      BY DEF Outcomes
    <3>2. /\ answers' \in Seq([error: Outcomes, ids: SUBSET Nat]) /\ cpc' = "idle"
          /\ reusable' = FALSE /\ sides' \subseteq {"client", "server"}
          /\ cin' = cin /\ method' = method /\ requests' = requests
      BY <2>2, <3>1, GivesUpType
    <3> QED
      BY <2>1, <3>2 DEF HttpTypeOK
  <2>3. CASE ~(HasError(Buffered) /\ ClientGivesUp("PARSE_ERROR"))
    <3> DEFINE r == Buffered
    <3>1. /\ IsFinished(r) /\ cin' = Rest(cin, r) /\ UNCHANGED <<method, requests, sides>>
          /\ \/ UNCHANGED <<cpc, reusable, answers>>
             \/ /\ cpc' = "idle" /\ reusable' = (~r.msg.close /\ r.msg.line.n # 101)
                /\ answers' = Append(answers, [error |-> "OK", ids |-> Ids(cin, r)])
      BY <1>4, <2>3 DEF ClientParses
    <3>2. r.used \in 1..Len(cin)
      BY <1>0, <3>1, UsedResponse DEF Buffered
    <3> HIDE DEF r
    <3>3. cin' \in Seq(Tokens)
      <4>1. r.used \in Nat
        BY <3>2
      <4> QED
        BY <1>0, <3>1, <4>1, RestIs
    <3>4. answers' \in Seq([error: Outcomes, ids: SUBSET Nat])
      <4>1. "OK" \in Outcomes
        BY DEF Outcomes
      <4>2. Ids(cin, r) \in SUBSET Nat
        BY <1>0, <3>2, IdsAre
      <4>3. Append(answers, [error |-> "OK", ids |-> Ids(cin, r)]) \in Seq([error: Outcomes, ids: SUBSET Nat])
        BY <1>0, <4>1, <4>2, Answering
      <4> QED
        BY <1>0, <3>1, <4>3
    <3>5. reusable' \in BOOLEAN /\ cpc' \in {"new", "idle", "recv"}
      BY <3>1 DEF HttpTypeOK
    <3> QED
      BY <2>1, <3>1, <3>3, <3>4, <3>5 DEF HttpTypeOK
  <2> QED
    BY <2>2, <2>3
<1>5. CASE ClientReads
  <2>1. Read(toClient, cin, toClient', cin')
    BY <1>5 DEF ClientReads
  <2>2. toClient' \in Seq(Tokens) /\ cin' \in Seq(Tokens)
    BY <1>0, <2>1, ReadKeeps
  <2> QED
    BY <1>5, <2>2 DEF ClientReads, HttpTypeOK
<1>6. CASE ClientEof
  <2> DEFINE r == ParseResponse(cin, method, TRUE, 0)
  <2>1. UNCHANGED <<foreign, toServer, toClient, server, dispatch>>
    BY <1>6 DEF ClientEof
  <2>2. CASE cin # <<>> /\ IsFinished(r)
    <3>1. /\ answers' = Append(answers, [error |-> "OK", ids |-> Ids(cin, r)])
          /\ cin' = Rest(cin, r)
          /\ cpc' = "idle" /\ reusable' = FALSE /\ sides' = sides \ {"client"}
          /\ UNCHANGED <<method, requests>>
      BY <1>6, <2>2 DEF ClientEof
    <3>2. r.used \in 1..Len(cin)
      BY <1>0, <2>2, UsedResponse
    <3> HIDE DEF r
    <3>3. cin' \in Seq(Tokens)
      <4>1. r.used \in Nat
        BY <3>2
      <4> QED
        BY <1>0, <3>1, <4>1, RestIs
    <3>4. answers' \in Seq([error: Outcomes, ids: SUBSET Nat])
      <4>1. "OK" \in Outcomes
        BY DEF Outcomes
      <4>2. Ids(cin, r) \in SUBSET Nat
        BY <1>0, <3>2, IdsAre
      <4> QED
        BY <1>0, <3>1, <4>1, <4>2, Answering
    <3> QED
      BY <2>1, <3>1, <3>3, <3>4 DEF HttpTypeOK
  <2>3. CASE ~(cin # <<>> /\ IsFinished(r))
    <3>1. ClientGivesUp("RECEIVE_CLOSE_BY_PEER")
      BY <1>6, <2>3 DEF ClientEof
    <3>2. "RECEIVE_CLOSE_BY_PEER" \in Outcomes
      BY DEF Outcomes
    <3>3. /\ answers' \in Seq([error: Outcomes, ids: SUBSET Nat]) /\ cpc' = "idle"
          /\ reusable' = FALSE /\ sides' \subseteq {"client", "server"}
          /\ cin' = cin /\ method' = method /\ requests' = requests
      BY <3>1, <3>2, GivesUpType
    <3> QED
      BY <2>1, <3>3 DEF HttpTypeOK
  <2> QED
    BY <2>2, <2>3
<1>7. CASE ClientTimeout
  <2>1. UNCHANGED <<foreign, toServer, toClient, server, dispatch>> /\ ClientGivesUp("TIMEOUT")
    BY <1>7 DEF ClientTimeout
  <2>2. "TIMEOUT" \in Outcomes
    BY DEF Outcomes
  <2>3. /\ answers' \in Seq([error: Outcomes, ids: SUBSET Nat]) /\ cpc' = "idle"
        /\ reusable' = FALSE /\ sides' \subseteq {"client", "server"}
        /\ cin' = cin /\ method' = method /\ requests' = requests
    BY <2>1, <2>2, GivesUpType
  <2> QED
    BY <2>1, <2>3 DEF HttpTypeOK
<1>8. CASE ClientReadsPart
  <2>1. UNCHANGED <<foreign, toServer, toClient, server, dispatch>> /\ ClientGivesUp("PARSE_ERROR")
    BY <1>8 DEF ClientReadsPart
  <2>2. "PARSE_ERROR" \in Outcomes
    BY DEF Outcomes
  <2>3. /\ answers' \in Seq([error: Outcomes, ids: SUBSET Nat]) /\ cpc' = "idle"
        /\ reusable' = FALSE /\ sides' \subseteq {"client", "server"}
        /\ cin' = cin /\ method' = method /\ requests' = requests
    BY <2>1, <2>2, GivesUpType
  <2> QED
    BY <2>1, <2>3 DEF HttpTypeOK
<1> QED
  BY <1>1, <1>2, <1>3, <1>4, <1>5, <1>6, <1>7, <1>8

LEMMA ServerType ==
  ASSUME HttpTypeOK, ServerParses \/ ServerReads \/ ServerReadsPart \/ ServerCloses \/ Handle \/ SendResponse \/ SendFails
  PROVE  HttpTypeOK'
<1> USE DEF client, server, dispatch
<1>0. /\ sin \in Seq(Tokens) /\ toClient \in Seq(Tokens) /\ toServer \in Seq(Tokens)
      /\ request \in [method: LineKinds \cup {"none"}, id: Nat, close: BOOLEAN]
      /\ response \in [status: Nat, body: Nat, close: BOOLEAN] /\ served \in Nat /\ keep \in BOOLEAN
  BY DEF HttpTypeOK
<1>1. CASE ServerParses
  <2>1. UNCHANGED <<foreign, toServer, toClient, client, dispatch>>
    BY <1>1 DEF ServerParses
  <2>2. CASE HasError(SessionBuffered) /\ CloseSession
    BY <2>1, <2>2 DEF CloseSession, HttpTypeOK
  <2>3. CASE ~(HasError(SessionBuffered) /\ CloseSession)
    <3> DEFINE r == SessionBuffered
    <3>1. /\ IsFinished(r) /\ sin' = Rest(sin, r) /\ spc' = "handle" /\ served' = served + 1
          /\ request' = [method |-> r.msg.line.k, id |-> r.msg.line.id, close |-> r.msg.close]
          /\ UNCHANGED <<response, sides>>
      BY <1>1, <2>3 DEF ServerParses
    <3>2. r.used \in 1..Len(sin) /\ r.msg.line = sin[1] /\ r.msg.close \in BOOLEAN
      BY <1>0, <3>1, UsedRequest DEF SessionBuffered
    <3> HIDE DEF r
    <3>3. sin' \in Seq(Tokens)
      <4>1. r.used \in Nat
        BY <3>2
      <4> QED
        BY <1>0, <3>1, <4>1, RestIs
    <3>4. sin[1] \in Tokens
      BY <1>0, <3>2
    <3>5. request' \in [method: LineKinds \cup {"none"}, id: Nat, close: BOOLEAN]
      BY <3>1, <3>2, <3>4 DEF Tokens
    <3>6. served' \in Nat
      BY <1>0, <3>1
    <3> QED
      BY <2>1, <3>1, <3>3, <3>5, <3>6 DEF HttpTypeOK
  <2> QED
    BY <2>2, <2>3
<1>2. CASE ServerReads
  <2>1. Read(toServer, sin, toServer', sin')
    BY <1>2 DEF ServerReads
  <2>2. toServer' \in Seq(Tokens) /\ sin' \in Seq(Tokens)
    BY <1>0, <2>1, ReadKeeps
  <2> QED
    BY <1>2, <2>2 DEF ServerReads, HttpTypeOK
<1>3. CASE ServerCloses \/ ServerReadsPart
  BY <1>3 DEF ServerCloses, ServerReadsPart, CloseSession, HttpTypeOK
<1>4. CASE Handle
  <2>1. PICK p \in Paths :
          LET s == Matched(p)
              r == IF s.throws \/ s = NoServlet THEN [s EXCEPT !.status = 500, !.body = 1] ELSE s
              close == r.close \/ request.close \/ ~keep
          IN response' = [status |-> r.status, close |-> close, body |-> Body(request.method, r.body)]
    BY <1>4 DEF Handle
  <2> DEFINE s == Matched(p)
             r == IF s.throws \/ s = NoServlet THEN [s EXCEPT !.status = 500, !.body = 1] ELSE s
             close == r.close \/ request.close \/ ~keep
  <2>2. s \in Servlet
    BY MatchedIs
  <2>3. r.status \in Nat /\ r.body \in Nat
    <3> HIDE DEF s
    <3> QED
      BY <2>2 DEF Servlet
  <2>4. response' = [status |-> r.status, close |-> close, body |-> Body(request.method, r.body)]
    BY <2>1
  <2>5. close \in BOOLEAN
    BY Zenon
  <2> HIDE DEF r, close
  <2>6. response' \in [status: Nat, body: Nat, close: BOOLEAN]
    BY <2>3, <2>4, <2>5 DEF Body
  <2> QED
    BY <1>4, <2>6 DEF Handle, HttpTypeOK
<1>5. ResponseText(response, request.id) \in Seq(Tokens)
  <2>1. response.status \in Nat /\ response.body \in Nat /\ response.close \in BOOLEAN /\ request.id \in Nat
    BY <1>0
  <2> QED
    BY <2>1, ResponseTextIs DEF IsText
<1>6. CASE SendResponse
  <2>1. toClient' \in Seq(Tokens)
    <3> DEFINE t == ResponseText(response, request.id)
    <3>1. t \in Seq(Tokens) /\ toClient' = toClient \o t
      BY <1>5, <1>6 DEF SendResponse
    <3> HIDE DEF t
    <3> QED
      BY <1>0, <3>1
  <2>2. /\ UNCHANGED <<foreign, toServer, client, dispatch, sin, request, response, served>>
        /\ sides' \subseteq {"client", "server"} /\ spc' \in {"recv", "handle", "send", "done"}
    BY <1>6 DEF SendResponse, CloseSession, HttpTypeOK
  <2> QED
    BY <2>1, <2>2 DEF HttpTypeOK
<1>7. CASE SendFails
  <2> DEFINE t == ResponseText(response, request.id)
  <2>1. PICK part \in Partial(t) : toClient' = toClient \o part
    BY <1>7 DEF SendFails
  <2>2. t \in Seq(Tokens)
    BY <1>5
  <2> HIDE DEF t
  <2>3. part \in Seq(Tokens)
    BY <2>2, PartialIs
  <2>4. toClient' \in Seq(Tokens)
    BY <1>0, <2>1, <2>3
  <2> QED
    BY <1>7, <2>4 DEF SendFails, CloseSession, HttpTypeOK
<1> QED
  BY <1>1, <1>2, <1>3, <1>4, <1>6, <1>7

LEMMA RoutingType ==
  ASSUME HttpTypeOK, Routing
  PROVE  HttpTypeOK'
<1> USE DEF client, server, dispatch
<1>0. /\ exact \in [Paths -> Servlet] /\ globs \in Seq(Route) /\ default \in Servlet /\ routes \in 0..MaxRoutes
      /\ keep \in BOOLEAN /\ MaxRoutes \in Nat
  BY HttpAssumption DEF HttpTypeOK, Route
<1>1. routes' \in 0..MaxRoutes /\ UNCHANGED <<foreign, toServer, toClient, sides, client, server>>
  BY <1>0 DEF Routing, Change, AddServlet, DelServlet, AddGlob, DelGlob, SetDefault,
              SetServletDispatch, SetKeepAlive
<1>2. exact' \in [Paths -> Servlet]
  BY <1>0, ServletsAre DEF Routing, AddServlet, DelServlet, AddGlob, DelGlob, SetDefault,
              SetServletDispatch, SetKeepAlive
<1>3. default' \in Servlet
  BY <1>0, ServletsAre DEF Routing, AddServlet, DelServlet, AddGlob, DelGlob, SetDefault,
              SetServletDispatch, SetKeepAlive
<1>4. keep' \in BOOLEAN
  BY <1>0 DEF Routing, AddServlet, DelServlet, AddGlob, DelGlob, SetDefault,
              SetServletDispatch, SetKeepAlive
<1>5. globs' \in Seq(Route)
  <2>1. CASE AddGlob
    <3>1. PICK g \in Patterns, s \in Servlets : globs' = Append(Without(g), [pattern |-> g, servlet |-> s])
      BY <2>1 DEF AddGlob
    <3>2. [pattern |-> g, servlet |-> s] \in Route
      BY ServletsAre DEF Route
    <3>3. Without(g) \in Seq(Route)
      BY <1>0, WithoutIs
    <3> QED
      BY <3>1, <3>2, <3>3
  <2>2. CASE DelGlob
    <3>1. PICK g \in Patterns : globs' = Without(g)
      BY <2>2 DEF DelGlob
    <3> QED
      BY <1>0, <3>1, WithoutIs
  <2>3. CASE SetServletDispatch
    BY <2>3 DEF SetServletDispatch
  <2>4. CASE AddServlet \/ DelServlet \/ SetDefault \/ SetKeepAlive
    BY <1>0, <2>4 DEF AddServlet, DelServlet, SetDefault, SetKeepAlive
  <2> QED
    BY <2>1, <2>2, <2>3, <2>4 DEF Routing
<1> QED
  BY <1>1, <1>2, <1>3, <1>4, <1>5 DEF HttpTypeOK, Route

LEMMA ForeignType ==
  ASSUME HttpTypeOK, ForeignSends \/ ForeignCloses
  PROVE  HttpTypeOK'
<1> USE DEF client, server, dispatch
<1>0. requests \in Nat /\ served \in Nat /\ toServer \in Seq(Tokens) /\ toClient \in Seq(Tokens)
  BY DEF HttpTypeOK
<1>1. CASE ForeignSends
  <2>1. \A piece \in ClientPieces \cup ServerPieces : Marked(piece) \in Seq(Tokens)
    BY HttpAssumption, MarkedIs
  <2>2. toServer' \in Seq(Tokens) /\ toClient' \in Seq(Tokens)
    BY <1>0, <1>1, <2>1 DEF ForeignSends
  <2>3. requests' \in Nat /\ served' \in Nat
    BY <1>0, <1>1 DEF ForeignSends
  <2>4. UNCHANGED <<foreign, sides, cpc, cin, method, reusable, answers, spc, sin, request,
                    response, dispatch>>
    BY <1>1 DEF ForeignSends
  <2> QED
    BY <2>2, <2>3, <2>4 DEF HttpTypeOK
<1>2. CASE ForeignCloses
  BY <1>2 DEF ForeignCloses, HttpTypeOK
<1> QED
  BY <1>1, <1>2

LEMMA HttpTypeStep ==
  ASSUME HttpTypeOK, [HttpNext]_httpVars
  PROVE  HttpTypeOK'
<1>1. CASE UNCHANGED httpVars
  BY <1>1 DEF httpVars, client, server, dispatch, HttpTypeOK
<1>2. CASE HttpNext
  BY <1>2, ClientType, ServerType, RoutingType, ForeignType DEF HttpNext, ClientStep, ServerStep
<1> QED
  BY <1>1, <1>2

\* Every variable of the connection keeps its type: what is on the wire and in
\* the buffers of recvRequest() and recvResponse() are lines and units of a
\* body, whatever is cut off, left over or sent by a foreign peer.
THEOREM HttpTypeCorrect == HttpSpec => []HttpTypeOK
  BY HttpInitType, HttpTypeStep, PTL DEF HttpSpec

\* HttpRequestParser::parse() and HttpResponseParser::parse() find the same in
\* a buffer however its bytes arrived, for every limit and every input: a
\* message or an error found in the first bytes, the last line of them whole or
\* not, is what is found in all of them.  Two limits of the response parser do
\* look at the cut, that on an incomplete line with a chunk size and that on
\* incomplete trailers: only what they refuse may be accepted when it arrives
\* at once.
THEOREM ParsersDoNotSeeCuts == HttpSpec => []CutsDoNotMatter
<1>1. HttpTypeOK => CutsDoNotMatter
  BY BuffersSettled DEF HttpTypeOK
<1> QED
  BY <1>1, HttpTypeCorrect, PTL

-----------------------------------------------------------------------------
(* Two droplet peers stay in step. *)

\* s is what has been sent of the text t: its first k lines.
Cut(s, t, k) == k \in 0..Len(t) /\ s = SubSeq(t, 1, k)
Sent(s, t) == \E k \in 0..Len(t) : Cut(s, t, k)

\* The request of the call is on its way, or will never arrive in full.
Asking ==
  /\ cin = <<>> /\ toClient = <<>> /\ spc \in {"recv", "done"}
  /\ \E close \in BOOLEAN, body \in 0..1 :
        Sent(sin \o toServer, RequestText(method, close, body, requests))

Bodyless == method = "HEAD" => response.body = 0

\* The server has it and nothing else.
Serving ==
  /\ cin = <<>> /\ toClient = <<>> /\ sin = <<>> /\ toServer = <<>> /\ spc \in {"handle", "send"}
  /\ request.id = requests /\ request.method = method /\ (spc = "send" => Bodyless)

\* The answer is on its way, or a part of it.
Replying ==
  /\ sin = <<>> /\ toServer = <<>> /\ spc \in {"recv", "done"} /\ Bodyless
  /\ Sent(cin \o toClient, ResponseText(response, requests))

\* Between two calls on a reusable connection nothing is on its way; during a
\* call there is one message on its way, this call's.
AnswersOK == \A n \in DOMAIN answers : answers[n].error = "OK" => answers[n].ids = {n}
RestOK ==
  cpc # "recv" /\ reusable =>
     /\ cin = <<>> /\ toClient = <<>> /\ sin = <<>> /\ toServer = <<>> /\ spc \in {"recv", "done"}
     /\ Len(answers) = requests
CallOK ==
  cpc = "recv" => /\ Len(answers) + 1 = requests /\ method \in UsedMethods
                  /\ Asking \/ Serving \/ Replying
Sync == foreign = "none" => AnswersOK /\ RestOK /\ CallOK

\* Where the parsers find the end of the header section and the length.
LEMMA CutOfText ==
  ASSUME NEW t, NEW h, NEW n, NEW id, IsText(t, h, n, id), NEW s, NEW k, Cut(s, t, k)
  PROVE  /\ s \in Seq(Tokens) /\ Len(s) = k /\ k \in 0..Len(t) /\ \A i \in 1..k : s[i] = t[i]
         /\ HeaderEnd(s) # 0 =>
              /\ HeaderEnd(s) = h /\ k >= h /\ ContentLength(s, h) = n
              /\ Lines(s, h, "encoding") = {} /\ (Lines(s, h, "length") = {} <=> h = 3)
<1>1. /\ t \in Seq(Tokens) /\ n \in Nat /\ h \in {3, 4} /\ Len(t) = h + n
      /\ t[2].k = "connection" /\ t[h].k = "crlf"
      /\ h = 4 => t[3].k = "length" /\ t[3].n = n
      /\ h = 3 => n = 0
      /\ \A i \in 1..Len(t) : i # h => t[i].k # "crlf"
  BY DEF IsText
<1>2. s \in Seq(Tokens) /\ Len(s) = k /\ (\A i \in 1..k : s[i] = t[i]) /\ k \in 0..Len(t)
  BY <1>1 DEF Cut
<1>3. ASSUME HeaderEnd(s) # 0
      PROVE  /\ HeaderEnd(s) = h /\ k >= h /\ ContentLength(s, h) = n
             /\ Lines(s, h, "encoding") = {} /\ (Lines(s, h, "length") = {} <=> h = 3)
  <2> DEFINE e == HeaderEnd(s)
  <2>1. e \in Nat /\ e >= 2 /\ e <= k /\ s[e].k = "crlf"
    BY <1>2, <1>3, HeaderEndIs
  <2> HIDE DEF e
  <2>2. e \in 1..k /\ e \in 1..Len(t)
    BY <1>1, <1>2, <2>1
  <2>3. t[e].k = "crlf"
    BY <1>2, <2>1, <2>2
  <2>4. e = h
    BY <1>1, <2>2, <2>3
  <2>5. k >= h /\ k \in Nat
    BY <1>2, <2>1, <2>4
  <2>6. CASE h = 3
    <3>1. 2..(h - 1) = {2}
      BY <2>6
    <3>2. s[2].k = "connection"
      BY <1>1, <1>2, <2>5, <2>6
    <3>3. Lines(s, h, "encoding") = {} /\ Lines(s, h, "length") = {}
      BY <3>1, <3>2 DEF Lines
    <3>4. ContentLength(s, h) = n
      BY <1>1, <2>6, <3>3 DEF ContentLength
    <3> QED
      BY <2>4, <2>5, <2>6, <3>3, <3>4 DEF e
  <2>7. CASE h = 4
    <3>1. 2..(h - 1) = {2, 3}
      BY <2>7
    <3>2. s[2].k = "connection" /\ s[3].k = "length" /\ s[3].n = n
      BY <1>1, <1>2, <2>5, <2>7
    <3>3. Lines(s, h, "encoding") = {} /\ Lines(s, h, "length") = {3}
      BY <3>1, <3>2 DEF Lines
    <3>4. SetMin({3}) = 3
      BY DEF SetMin
    <3>5. ContentLength(s, h) = n
      BY <3>2, <3>3, <3>4 DEF ContentLength
    <3> QED
      BY <2>4, <2>5, <2>7, <3>3, <3>5 DEF e
  <2> QED
    BY <1>1, <2>6, <2>7
<1> QED
  BY <1>2, <1>3

\* The server finds a request of droplet's only when it has all of it, and
\* then nothing is left.
LEMMA WholeRequest ==
  ASSUME NEW t, NEW h, NEW n, NEW id, IsText(t, h, n, id), NEW s, NEW k, Cut(s, t, k),
         IsFinished(ParseRequest(s, 0))
  PROVE  k = Len(t) /\ ParseRequest(s, 0).used = Len(s) /\ ParseRequest(s, 0).msg.line = t[1]
<1>1. /\ s \in Seq(Tokens) /\ Len(s) = k /\ k \in 0..Len(t) /\ \A i \in 1..k : s[i] = t[i]
      /\ HeaderEnd(s) # 0 => HeaderEnd(s) = h /\ k >= h /\ ContentLength(s, h) = n
  BY CutOfText
<1>2. /\ HeaderEnd(s) # 0 /\ ~(Len(s) < HeaderEnd(s) + ContentLength(s, HeaderEnd(s)))
      /\ ParseRequest(s, 0).used = HeaderEnd(s) + ContentLength(s, HeaderEnd(s))
  BY DEF ParseRequest, IsFinished, Error, Incomplete, Finished
<1>3. n \in Nat /\ h \in Nat /\ h > 0 /\ Len(t) = h + n
  BY DEF IsText
<1>4. k = Len(t) /\ ParseRequest(s, 0).used = Len(s)
  BY <1>1, <1>2, <1>3
<1>5. ParseRequest(s, 0).msg.line = s[1]
  BY <1>1, UsedRequest
<1> QED
  BY <1>1, <1>3, <1>4, <1>5

\* The client finds a response of droplet's only when it has all of it.
LEMMA WholeResponse ==
  ASSUME NEW t, NEW h, NEW n, NEW id, IsText(t, h, n, id), NEW s, NEW k, Cut(s, t, k),
         NEW how, NEW eof, h = 3 => ResponseHasNoBody(how, t[1].n), ResponseHasNoBody(how, t[1].n) => n = 0,
         IsFinished(ParseResponse(s, how, eof, 0))
  PROVE  k = Len(t) /\ ParseResponse(s, how, eof, 0).used = Len(s)
<1> DEFINE e == HeaderEnd(s)
           r == ParseResponse(s, how, eof, 0)
           m == [line |-> s[1], close |-> ResponseCloses(s, e), from |-> e + 1, upto |-> e]
<1>1. /\ s \in Seq(Tokens) /\ Len(s) = k /\ k \in 0..Len(t) /\ \A i \in 1..k : s[i] = t[i]
      /\ e # 0 =>
              /\ e = h /\ k >= h /\ ContentLength(s, h) = n
              /\ Lines(s, h, "encoding") = {} /\ (Lines(s, h, "length") = {} <=> h = 3)
  BY CutOfText
<1>2. r.used > 0
  BY DEF IsFinished
<1>3. \A x : Error(x).used = 0 /\ Incomplete.used = 0
  BY DEF Error, Incomplete
<1>4. \A u, x : Finished(u, x).used = u
  BY DEF Finished
<1>5. e # 0
  <2>1. e = 0 => r.used = 0
    BY <1>3 DEF ParseResponse
  <2> QED
    BY <1>2, <2>1
<1>6. n \in Nat /\ h \in Nat /\ h > 0 /\ Len(t) = h + n /\ h \in {3, 4}
  BY DEF IsText
<1>7. s[1] = t[1]
  BY <1>1, <1>5, <1>6
<1>8. CASE ResponseHasNoBody(how, t[1].n)
  <2>1. r.used = 0 \/ r = Finished(e, m)
    BY <1>3, <1>5, <1>7, <1>8 DEF ParseResponse
  <2>2. r.used = e
    BY <1>2, <1>4, <2>1
  <2>3. n = 0 /\ e = h /\ k >= h
    BY <1>1, <1>5, <1>8
  <2> HIDE DEF e, r
  <2> QED
    BY <1>1, <1>6, <2>2, <2>3 DEF r
<1>9. CASE ~ResponseHasNoBody(how, t[1].n)
  <2>1. h # 3 /\ Lines(s, e, "length") # {} /\ Lines(s, e, "encoding") = {} /\ ContentLength(s, e) = n
    BY <1>1, <1>5, <1>9
  <2>2. r.used = 0 \/ r = SizedBody(s, e, n, m)
    BY <1>3, <1>5, <1>7, <1>9, <2>1 DEF ParseResponse
  <2>3. r.used = e + n /\ ~(Len(s) < e + n)
    BY <1>2, <1>3, <1>4, <2>2 DEF SizedBody
  <2>4. e = h /\ k >= h
    BY <1>1, <1>5
  <2> HIDE DEF e, r
  <2> QED
    BY <1>1, <1>6, <2>3, <2>4 DEF r
<1> QED
  BY <1>8, <1>9

\* A part of a message bears the message's number.
LEMMA IdsOfText ==
  ASSUME NEW t, NEW h, NEW n, NEW id, IsText(t, h, n, id), NEW r, r.used = Len(t)
  PROVE  Ids(t, r) = {id}
<1>1. Len(t) \in Nat /\ Len(t) > 0 /\ \A i \in 1..Len(t) : t[i].id = id
  BY DEF IsText
<1>2. 1 \in 1..Len(t)
  BY <1>1
<1> QED
  BY <1>1, <1>2 DEF Ids

LEMMA CutSplit ==
  ASSUME NEW a \in Seq(Tokens), NEW b \in Seq(Tokens), NEW t \in Seq(Tokens), NEW k, Cut(a \o b, t, k)
  PROVE  Cut(a, t, Len(a)) /\ (Len(a) = Len(t) => a = t /\ b = <<>>)
<1>1. k \in 0..Len(t) /\ a \o b = SubSeq(t, 1, k)
  BY DEF Cut
<1>2. Len(a) + Len(b) = k /\ Len(a) \in Nat /\ Len(b) \in Nat
  <2>1. Len(a \o b) = Len(a) + Len(b)
    OBVIOUS
  <2>2. Len(SubSeq(t, 1, k)) = k
    BY <1>1
  <2> QED
    BY <1>1, <2>1, <2>2
<1>3. \A i \in 1..Len(a) : a[i] = t[i]
  <2> SUFFICES ASSUME NEW i \in 1..Len(a) PROVE a[i] = t[i]
    OBVIOUS
  <2>1. (a \o b)[i] = a[i]
    OBVIOUS
  <2>2. i \in 1..k
    BY <1>2
  <2>3. SubSeq(t, 1, k)[i] = t[i]
    BY <1>1, <2>2
  <2> QED
    BY <1>1, <2>1, <2>3
<1>4. Len(a) \in 0..Len(t)
  BY <1>1, <1>2
<1>5. a = SubSeq(t, 1, Len(a))
  <2> DEFINE x == SubSeq(t, 1, Len(a))
  <2>1. x \in Seq(Tokens) /\ Len(x) = Len(a) /\ \A i \in 1..Len(a) : a[i] = x[i]
    BY <1>3, <1>4
  <2> HIDE DEF x
  <2>2. a = x
    BY <2>1, SeqEqual
  <2> QED
    BY <2>2 DEF x
<1>6. ASSUME Len(a) = Len(t) PROVE a = t /\ b = <<>>
  <2>1. a = t
    BY <1>3, <1>6, SeqEqual
  <2>2. Len(b) = 0
    BY <1>1, <1>2, <1>6
  <2> QED
    BY <2>1, <2>2
<1> QED
  BY <1>4, <1>5, <1>6 DEF Cut

LEMMA NothingSent ==
  ASSUME NEW t \in Seq(Tokens)
  PROVE  Sent(<<>> \o <<>>, t)
<1>1. <<>> \o <<>> = SubSeq(t, 1, 0) /\ 0 \in 0..Len(t)
  OBVIOUS
<1> QED
  BY <1>1 DEF Sent, Cut

LEMMA AllSent ==
  ASSUME NEW t \in Seq(Tokens), NEW part, part \in Partial(t) \/ part = t
  PROVE  Sent(<<>> \o (<<>> \o part), t) /\ part \in Seq(Tokens)
<1>1. part \in Seq(Tokens) /\ \E k \in 0..Len(t) : part = SubSeq(t, 1, k)
  <2>1. CASE part \in Partial(t)
    BY <2>1, PartialIs
  <2>2. CASE part = t
    <3>1. t = SubSeq(t, 1, Len(t)) /\ Len(t) \in 0..Len(t)
      OBVIOUS
    <3> QED
      BY <2>2, <3>1
  <2> QED
    BY <2>1, <2>2
<1>2. <<>> \o (<<>> \o part) = part
  BY <1>1
<1> QED
  BY <1>1, <1>2 DEF Sent, Cut

NoTunnels == "CONNECT" \notin UsedMethods

\* A response that the client finds is the answer to its request, the whole of
\* it and nothing else.
LEMMA ReplyIsWhole ==
  ASSUME NoTunnels, HttpTypeOK, method \in UsedMethods, Replying, NEW eof,
         IsFinished(ParseResponse(cin, method, eof, 0))
  PROVE  LET r == ParseResponse(cin, method, eof, 0)
         IN /\ toClient = <<>> /\ r.used = Len(cin) /\ Ids(cin, r) = {requests}
            /\ Rest(cin, r) = <<>>
<1> DEFINE t == ResponseText(response, requests)
           L == AllowsBody(response.status)
           h == IF L THEN 4 ELSE 3
           n == IF L THEN response.body ELSE 0
           r == ParseResponse(cin, method, eof, 0)
<1>1. /\ cin \in Seq(Tokens) /\ toClient \in Seq(Tokens) /\ requests \in Nat
      /\ response.status \in Nat /\ response.body \in Nat /\ response.close \in BOOLEAN
  BY DEF HttpTypeOK
<1>2. IsText(t, h, n, requests) /\ t[1] = Token("status", response.status, requests)
  BY <1>1, ResponseTextIs
<1>3. t[1].n = response.status /\ t \in Seq(Tokens)
  BY <1>2 DEF Token, IsText
<1>4. PICK k : Cut(cin \o toClient, t, k)
  BY DEF Replying, Sent
<1> HIDE DEF t
<1>5. Cut(cin, t, Len(cin)) /\ (Len(cin) = Len(t) => cin = t /\ toClient = <<>>)
  BY <1>1, <1>3, <1>4, CutSplit
<1>6. h = 3 => ResponseHasNoBody(method, t[1].n)
  BY <1>1, <1>3 DEF AllowsBody, ResponseHasNoBody
<1>7. ResponseHasNoBody(method, t[1].n) => n = 0
  BY <1>1, <1>3 DEF ResponseHasNoBody, AllowsBody, NoTunnels, Replying, Bodyless
<1> HIDE DEF h, n
<1>8. Len(cin) = Len(t) /\ r.used = Len(cin)
  BY <1>2, <1>5, <1>6, <1>7, WholeResponse
<1>9. cin = t /\ toClient = <<>>
  BY <1>5, <1>8
<1>10. Ids(t, r) = {requests}
  <2> HIDE DEF r
  <2> QED
    BY <1>2, <1>8, <1>9, IdsOfText
<1>11. Rest(cin, r) = <<>>
  <2> HIDE DEF r
  <2> QED
    BY <1>1, <1>8 DEF Rest
<1> QED
  BY <1>8, <1>9, <1>10, <1>11

LEMMA RequestIsWhole ==
  ASSUME HttpTypeOK, method \in UsedMethods, Asking, IsFinished(SessionBuffered)
  PROVE  /\ toServer = <<>> /\ Rest(sin, SessionBuffered) = <<>>
         /\ SessionBuffered.msg.line.k = method /\ SessionBuffered.msg.line.id = requests
<1>1. sin \in Seq(Tokens) /\ toServer \in Seq(Tokens) /\ requests \in Nat /\ method \in Methods
  BY MethodsAre DEF HttpTypeOK
<1>2. PICK close \in BOOLEAN, body \in 0..1 : Sent(sin \o toServer, RequestText(method, close, body, requests))
  BY DEF Asking
<1> DEFINE t == RequestText(method, close, body, requests)
           h == IF body > 0 THEN 4 ELSE 3
<1>3. IsText(t, h, body, requests) /\ t[1] = Token(method, 11, requests)
  <2>1. body \in Nat
    OBVIOUS
  <2> QED
    BY <1>1, <2>1, RequestTextIs
<1>4. t[1].k = method /\ t[1].id = requests /\ t \in Seq(Tokens)
  BY <1>3 DEF Token, IsText
<1>5. PICK k : Cut(sin \o toServer, t, k)
  BY <1>2 DEF Sent
<1> HIDE DEF t, h
<1>6. Cut(sin, t, Len(sin)) /\ (Len(sin) = Len(t) => sin = t /\ toServer = <<>>)
  BY <1>1, <1>4, <1>5, CutSplit
<1> DEFINE r == SessionBuffered
<1>7. Len(sin) = Len(t) /\ r.used = Len(sin) /\ r.msg.line = t[1]
  BY <1>3, <1>6, WholeRequest DEF SessionBuffered
<1> HIDE DEF r
<1>8. Rest(sin, r) = <<>>
  BY <1>1, <1>7 DEF Rest
<1> QED
  BY <1>4, <1>6, <1>7, <1>8 DEF r

-----------------------------------------------------------------------------
(* Every step keeps the two in step. *)

LEMMA SyncInit == HttpInit => Sync
  BY DEF HttpInit, Sync, AnswersOK, RestOK, CallOK

LEMMA AnswerKept ==
  ASSUME HttpTypeOK, AnswersOK, NEW x, x.error = "OK" => x.ids = {Len(answers) + 1},
         answers' = Append(answers, x)
  PROVE  AnswersOK'
<1>1. answers \in Seq([error: Outcomes, ids: SUBSET Nat]) /\ Len(answers) \in Nat
  BY DEF HttpTypeOK
<1>2. /\ DOMAIN answers' = 1..(Len(answers) + 1) /\ answers'[Len(answers) + 1] = x
      /\ \A i \in 1..Len(answers) : answers'[i] = answers[i]
  BY <1>1
<1> SUFFICES ASSUME NEW i \in 1..(Len(answers) + 1), answers'[i].error = "OK"
             PROVE  answers'[i].ids = {i}
  BY <1>2 DEF AnswersOK
<1>3. CASE i = Len(answers) + 1
  BY <1>2, <1>3
<1>4. CASE i # Len(answers) + 1
  <2>1. i \in 1..Len(answers) /\ i \in DOMAIN answers
    BY <1>1, <1>4
  <2> QED
    BY <1>2, <2>1 DEF AnswersOK
<1> QED
  BY <1>3, <1>4

\* A call that fails leaves a connection that nobody uses again.
LEMMA SyncGivesUp ==
  ASSUME HttpTypeOK, AnswersOK, NEW x, x # "OK", ClientGivesUp(x)
  PROVE  AnswersOK' /\ RestOK' /\ CallOK'
<1>1. AnswersOK'
  <2> DEFINE a == [error |-> x, ids |-> {}]
  <2>1. a.error # "OK" /\ answers' = Append(answers, a)
    BY DEF ClientGivesUp
  <2> HIDE DEF a
  <2> QED
    BY <2>1, AnswerKept
<1>2. reusable' = FALSE /\ cpc' = "idle"
  BY DEF ClientGivesUp
<1> QED
  BY <1>1, <1>2 DEF RestOK, CallOK

LEMMA SyncClient ==
  ASSUME NoTunnels, HttpTypeOK, HttpTypeOK', foreign = "none", AnswersOK, RestOK, CallOK,
         Dial \/ SendRequest \/ SendRequestFails \/ ClientParses \/ ClientReads \/ ClientEof
         \/ ClientReadsPart \/ ClientTimeout
  PROVE  AnswersOK' /\ RestOK' /\ CallOK'
<1> USE DEF client, server, dispatch
<1>0. /\ cin \in Seq(Tokens) /\ toClient \in Seq(Tokens) /\ sin \in Seq(Tokens) /\ toServer \in Seq(Tokens)
      /\ requests \in Nat /\ Len(answers) \in Nat /\ reusable \in BOOLEAN
  BY DEF HttpTypeOK
<1>1. CASE Dial
  <2>1. cpc = "new" /\ cpc' = "idle"
        /\ UNCHANGED <<foreign, toServer, toClient, cin, requests, sin>>
    BY <1>1 DEF Dial
  <2>2. CASE UNCHANGED <<reusable, answers, sides, spc>>
    BY <2>1, <2>2 DEF AnswersOK, RestOK, CallOK
  <2>3. CASE /\ answers' = Append(answers, [error |-> "CONNECT_FAIL", ids |-> {}])
             /\ reusable' = FALSE /\ ConnectFails
    <3> DEFINE a == [error |-> "CONNECT_FAIL", ids |-> {}]
    <3>1. a.error # "OK" /\ answers' = Append(answers, a)
      BY <2>3
    <3> HIDE DEF a
    <3>2. AnswersOK'
      BY <3>1, AnswerKept
    <3> QED
      BY <2>1, <2>3, <3>2 DEF RestOK, CallOK
  <2> QED
    BY <1>1, <2>2, <2>3 DEF Dial
<1>2. CASE SendRequest
  <2>1. /\ cpc = "idle" /\ reusable /\ cpc' = "recv" /\ reusable' = FALSE /\ requests' = requests + 1
        /\ UNCHANGED <<toClient, cin, answers, sin, spc>>
    BY <1>2 DEF SendRequest
  <2>2. /\ cin = <<>> /\ toClient = <<>> /\ sin = <<>> /\ toServer = <<>> /\ spc \in {"recv", "done"}
        /\ Len(answers) = requests
    BY <2>1 DEF RestOK
  <2>3. PICK m \in UsedMethods, close \in BOOLEAN, body \in 0..1 :
          /\ method' = m
          /\ toServer' = toServer \o (IF "server" \in sides
                                      THEN RequestText(m, close, body, requests + 1) ELSE <<>>)
    BY <1>2 DEF SendRequest
  <2> DEFINE t == RequestText(m, close, body, requests + 1)
  <2>4. t \in Seq(Tokens)
    <3>1. m \in Methods /\ requests + 1 \in Nat /\ body \in Nat
      BY <1>0, MethodsAre
    <3> QED
      BY <3>1, RequestTextIs DEF IsText
  <2>5. toServer' = <<>> \o (IF "server" \in sides THEN t ELSE <<>>)
    BY <2>2, <2>3
  <2>6. t = RequestText(method', close, body, requests')
    BY <2>1, <2>3
  <2> HIDE DEF t
  <2>7. Sent(<<>> \o toServer', t)
    <3>1. CASE "server" \in sides
      BY <2>4, <2>5, <3>1, AllSent
    <3>2. CASE "server" \notin sides
      <4>1. toServer' = <<>>
        BY <2>5, <3>2
      <4> QED
        BY <2>4, <4>1, NothingSent
    <3> QED
      BY <3>1, <3>2
  <2>8. Asking'
    BY <2>1, <2>2, <2>6, <2>7 DEF Asking
  <2>9. CallOK'
    BY <2>1, <2>2, <2>3, <2>8 DEF CallOK
  <2> QED
    BY <2>1, <2>9 DEF AnswersOK, RestOK
<1>3. CASE SendRequestFails
  <2>1. /\ cpc = "idle" /\ cpc' = cpc /\ reusable' = FALSE
        /\ answers' = Append(answers, [error |-> "SEND_ERROR", ids |-> {}])
    BY <1>3 DEF SendRequestFails
  <2> DEFINE a == [error |-> "SEND_ERROR", ids |-> {}]
  <2>2. a.error # "OK" /\ answers' = Append(answers, a)
    BY <2>1
  <2> HIDE DEF a
  <2>3. AnswersOK'
    BY <2>2, AnswerKept
  <2> QED
    BY <2>1, <2>3 DEF RestOK, CallOK
<1>4. CASE ClientParses
  <2>1. cpc = "recv" /\ cin # <<>> /\ UNCHANGED <<toServer, toClient, sin, spc, response, request>>
    BY <1>4 DEF ClientParses
  <2>2. CASE HasError(Buffered) /\ ClientGivesUp("PARSE_ERROR")
    BY <2>2, SyncGivesUp
  <2>3. CASE ~(HasError(Buffered) /\ ClientGivesUp("PARSE_ERROR"))
    <3> DEFINE r == Buffered
    <3>1. /\ IsFinished(r) /\ cin' = Rest(cin, r) /\ UNCHANGED <<method, requests>>
          /\ \/ UNCHANGED <<cpc, reusable, answers>>
             \/ /\ cpc' = "idle"
                /\ answers' = Append(answers, [error |-> "OK", ids |-> Ids(cin, r)])
      BY <1>4, <2>3 DEF ClientParses
    <3>2. Len(answers) + 1 = requests /\ method \in UsedMethods /\ Replying
      BY <2>1 DEF CallOK, Asking, Serving
    <3>3. toClient = <<>> /\ Ids(cin, r) = {requests} /\ Rest(cin, r) = <<>>
      BY <3>1, <3>2, ReplyIsWhole DEF Buffered
    <3> HIDE DEF r
    <3>4. sin = <<>> /\ toServer = <<>> /\ spc \in {"recv", "done"}
      BY <3>2 DEF Replying
    <3>5. CASE UNCHANGED <<cpc, reusable, answers>>
      <4>1. /\ cin' = <<>> /\ toClient' = <<>> /\ sin' = <<>> /\ toServer' = <<>>
            /\ spc' \in {"recv", "done"}
        BY <2>1, <3>1, <3>3, <3>4
      <4>2. Sent(<<>> \o <<>>, RequestText(method', TRUE, 0, requests'))
        <5>1. RequestText(method', TRUE, 0, requests') \in Seq(Tokens)
          <6>1. method' \in Methods /\ requests' \in Nat /\ 0 \in Nat /\ TRUE \in BOOLEAN
            BY <1>0, <3>1, <3>2, MethodsAre
          <6> QED
            BY <6>1, RequestTextIs DEF IsText
        <5> QED
          BY <5>1, NothingSent
      <4>3. TRUE \in BOOLEAN /\ 0 \in 0..1
        OBVIOUS
      <4>4. Asking'
        BY <4>1, <4>2, <4>3 DEF Asking
      <4>5. CallOK'
        BY <3>1, <3>2, <3>5, <4>4 DEF CallOK
      <4>6. RestOK'
        BY <2>1, <3>5 DEF RestOK
      <4> QED
        BY <3>5, <4>5, <4>6 DEF AnswersOK
    <3>6. CASE /\ cpc' = "idle"
               /\ answers' = Append(answers, [error |-> "OK", ids |-> Ids(cin, r)])
      <4> DEFINE a == [error |-> "OK", ids |-> Ids(cin, r)]
      <4>1. a.ids = {Len(answers) + 1} /\ answers' = Append(answers, a)
        BY <3>2, <3>3, <3>6
      <4> HIDE DEF a
      <4>2. AnswersOK'
        BY <4>1, AnswerKept
      <4>3. Len(answers') = requests'
        <5>1. answers \in Seq([error: Outcomes, ids: SUBSET Nat])
          BY DEF HttpTypeOK
        <5>2. Len(answers') = Len(answers) + 1
          BY <4>1, <5>1
        <5> QED
          BY <3>1, <3>2, <5>2
      <4> QED
        BY <2>1, <3>1, <3>3, <3>4, <3>6, <4>2, <4>3 DEF RestOK, CallOK
    <3> QED
      BY <3>1, <3>5, <3>6
  <2> QED
    BY <2>2, <2>3
<1>5. CASE ClientReads
  <2>1. /\ cpc = "recv" /\ Read(toClient, cin, toClient', cin')
        /\ UNCHANGED <<cpc, method, reusable, requests, answers, sin, toServer, spc, response, request>>
    BY <1>5 DEF ClientReads
  <2>2. toClient # <<>> /\ cin' \o toClient' = cin \o toClient
    BY <1>0, <2>1, ReadKeeps
  <2>3. Len(answers) + 1 = requests /\ method \in UsedMethods /\ Replying
    BY <2>1, <2>2 DEF CallOK, Asking, Serving
  <2>4. Replying'
    BY <2>1, <2>2, <2>3 DEF Replying, Bodyless
  <2> QED
    BY <2>1, <2>3, <2>4 DEF AnswersOK, RestOK, CallOK
<1>6. CASE ClientEof
  <2> DEFINE r == ParseResponse(cin, method, TRUE, 0)
  <2>1. cpc = "recv"
    BY <1>6 DEF ClientEof
  <2>2. CASE cin # <<>> /\ IsFinished(r)
    <3>1. /\ answers' = Append(answers, [error |-> "OK", ids |-> Ids(cin, r)])
          /\ cpc' = "idle" /\ reusable' = FALSE
      BY <1>6, <2>2 DEF ClientEof
    <3>2. Len(answers) + 1 = requests /\ method \in UsedMethods /\ Replying
      BY <2>1, <2>2 DEF CallOK, Asking, Serving
    <3>3. Ids(cin, r) = {requests}
      BY <2>2, <3>2, ReplyIsWhole
    <3> HIDE DEF r
    <3> DEFINE a == [error |-> "OK", ids |-> Ids(cin, r)]
    <3>4. a.ids = {Len(answers) + 1} /\ answers' = Append(answers, a)
      BY <3>1, <3>2, <3>3
    <3> HIDE DEF a
    <3>5. AnswersOK'
      BY <3>4, AnswerKept
    <3> QED
      BY <3>1, <3>5 DEF RestOK, CallOK
  <2>3. CASE ~(cin # <<>> /\ IsFinished(r))
    <3>1. ClientGivesUp("RECEIVE_CLOSE_BY_PEER")
      BY <1>6, <2>3 DEF ClientEof
    <3> QED
      BY <3>1, SyncGivesUp
  <2> QED
    BY <2>2, <2>3
<1>7. CASE ClientTimeout \/ ClientReadsPart
  <2>1. ClientGivesUp("TIMEOUT") \/ ClientGivesUp("PARSE_ERROR")
    BY <1>7 DEF ClientTimeout, ClientReadsPart
  <2> QED
    BY <2>1, SyncGivesUp
<1> QED
  BY <1>1, <1>2, <1>3, <1>4, <1>5, <1>6, <1>7

LEMMA SyncServer ==
  ASSUME HttpTypeOK, foreign = "none", AnswersOK, RestOK, CallOK,
         ServerParses \/ ServerReads \/ ServerReadsPart \/ ServerCloses \/ Handle \/ SendResponse \/ SendFails
  PROVE  AnswersOK' /\ RestOK' /\ CallOK'
<1> USE DEF client, server, dispatch
<1>0. /\ cin \in Seq(Tokens) /\ toClient \in Seq(Tokens) /\ sin \in Seq(Tokens) /\ toServer \in Seq(Tokens)
      /\ response.status \in Nat /\ response.body \in Nat /\ response.close \in BOOLEAN /\ requests \in Nat
  BY DEF HttpTypeOK
<1>1. UNCHANGED <<cpc, cin, method, reusable, requests, answers>>
  BY DEF ServerParses, ServerReads, ServerReadsPart, ServerCloses, Handle, SendResponse, SendFails
<1>2. AnswersOK'
  BY <1>1 DEF AnswersOK
<1>3. CASE ServerParses
  <2>1. spc = "recv" /\ sin # <<>> /\ UNCHANGED <<toServer, toClient>>
    BY <1>3 DEF ServerParses
  <2>2. RestOK'
    BY <1>1, <2>1 DEF RestOK
  <2>3. ASSUME cpc = "recv" PROVE Asking' \/ Serving' \/ Replying'
    <3>1. Asking /\ method \in UsedMethods
      BY <2>1, <2>3 DEF CallOK, Serving, Replying
    <3>2. CASE HasError(SessionBuffered) /\ CloseSession
      <4>1. spc' = "done" /\ sin' = sin
        BY <3>2 DEF CloseSession
      <4>2. Asking'
        BY <1>1, <2>1, <3>1, <4>1 DEF Asking
      <4> QED
        BY <4>2
    <3>3. CASE ~(HasError(SessionBuffered) /\ CloseSession)
      <4>1. /\ IsFinished(SessionBuffered) /\ sin' = Rest(sin, SessionBuffered) /\ spc' = "handle"
            /\ request' = [method |-> SessionBuffered.msg.line.k, id |-> SessionBuffered.msg.line.id,
                           close |-> SessionBuffered.msg.close]
        BY <1>3, <3>3 DEF ServerParses
      <4>2. /\ toServer = <<>> /\ Rest(sin, SessionBuffered) = <<>>
            /\ SessionBuffered.msg.line.k = method /\ SessionBuffered.msg.line.id = requests
        BY <3>1, <4>1, RequestIsWhole
      <4>3. request'.id = requests /\ request'.method = method
        BY <4>1, <4>2
      <4>4. cin = <<>> /\ toClient = <<>>
        BY <3>1 DEF Asking
      <4>5. Serving'
        BY <1>1, <2>1, <4>1, <4>2, <4>3, <4>4 DEF Serving
      <4> QED
        BY <4>5
    <3> QED
      BY <3>2, <3>3
  <2> QED
    BY <1>1, <1>2, <2>2, <2>3 DEF CallOK
<1>4. CASE ServerReads
  <2>1. /\ spc = "recv" /\ Read(toServer, sin, toServer', sin')
        /\ UNCHANGED <<toClient, spc, request, response>>
    BY <1>4 DEF ServerReads
  <2>2. toServer # <<>> /\ sin' \o toServer' = sin \o toServer
    BY <1>0, <2>1, ReadKeeps
  <2>3. RestOK'
    BY <1>1, <2>2 DEF RestOK
  <2>4. ASSUME cpc = "recv" PROVE Asking'
    <3>1. Asking
      BY <2>1, <2>2, <2>4 DEF CallOK, Serving, Replying
    <3> QED
      BY <1>1, <2>1, <2>2, <3>1 DEF Asking
  <2> QED
    BY <1>1, <1>2, <2>3, <2>4 DEF CallOK
<1>5. CASE ServerCloses \/ ServerReadsPart
  <2>1. spc = "recv" /\ spc' = "done" /\ UNCHANGED <<toServer, toClient, sin, request, response>>
    BY <1>5 DEF ServerCloses, ServerReadsPart, CloseSession
  <2>2. RestOK'
    BY <1>1, <2>1 DEF RestOK
  <2>3. ASSUME cpc = "recv" PROVE Asking' \/ Replying'
    <3>1. Asking \/ Replying
      BY <2>1, <2>3 DEF CallOK, Serving
    <3>2. Asking => Asking'
      BY <1>1, <2>1 DEF Asking
    <3>3. Replying => Replying'
      BY <1>1, <2>1 DEF Replying, Bodyless
    <3> QED
      BY <3>1, <3>2, <3>3
  <2> QED
    BY <1>1, <1>2, <2>2, <2>3 DEF CallOK
<1>6. CASE Handle
  <2>1. /\ spc = "handle" /\ spc' = "send"
        /\ UNCHANGED <<toServer, toClient, sin, request>>
        /\ \E b : response'.body = Body(request.method, b)
    <3>1. PICK p \in Paths :
            LET s == Matched(p)
                r == IF s.throws \/ s = NoServlet THEN [s EXCEPT !.status = 500, !.body = 1] ELSE s
                close == r.close \/ request.close \/ ~keep
            IN response' = [status |-> r.status, close |-> close, body |-> Body(request.method, r.body)]
      BY <1>6 DEF Handle
    <3>2. \E b : response'.body = Body(request.method, b)
      BY <3>1
    <3> QED
      BY <1>6, <3>2 DEF Handle
  <2>2. RestOK'
    BY <1>1, <2>1 DEF RestOK
  <2>3. ASSUME cpc = "recv" PROVE Serving'
    <3>1. Serving
      BY <2>1, <2>3 DEF CallOK, Asking, Replying
    <3>2. Bodyless'
      BY <1>1, <2>1, <3>1 DEF Bodyless, Body, Serving
    <3> QED
      BY <1>1, <2>1, <3>1, <3>2 DEF Serving
  <2> QED
    BY <1>1, <1>2, <2>2, <2>3 DEF CallOK
<1>7. CASE SendResponse \/ SendFails
  <2> DEFINE t == ResponseText(response, request.id)
  <2>1. /\ spc = "send" /\ spc' \in {"recv", "done"} /\ UNCHANGED <<toServer, sin, request, response>>
        /\ \E part : (part \in Partial(t) \/ part = t) /\ toClient' = toClient \o part
    BY <1>7 DEF SendResponse, SendFails, CloseSession
  <2>2. RestOK'
    BY <1>1, <2>1 DEF RestOK
  <2>3. ASSUME cpc = "recv" PROVE Replying'
    <3>1. /\ cin = <<>> /\ toClient = <<>> /\ sin = <<>> /\ toServer = <<>>
          /\ request.id = requests /\ Bodyless
      BY <2>1, <2>3 DEF CallOK, Asking, Replying, Serving
    <3>2. PICK part : (part \in Partial(t) \/ part = t) /\ toClient' = <<>> \o part
      BY <2>1, <3>1
    <3>3. t \in Seq(Tokens) /\ t = ResponseText(response', requests')
      <4>1. t = ResponseText(response, requests)
        BY <3>1
      <4>2. ResponseText(response, requests) \in Seq(Tokens)
        BY <1>0, ResponseTextIs DEF IsText
      <4> QED
        BY <1>1, <2>1, <4>1, <4>2
    <3> HIDE DEF t
    <3>4. Sent(<<>> \o (<<>> \o part), t)
      BY <3>2, <3>3, AllSent
    <3>5. Sent(cin' \o toClient', ResponseText(response', requests'))
      BY <1>1, <3>1, <3>2, <3>3, <3>4
    <3> QED
      BY <1>1, <2>1, <3>1, <3>5 DEF Replying, Bodyless
  <2> QED
    BY <1>1, <1>2, <2>2, <2>3 DEF CallOK
<1> QED
  BY <1>3, <1>4, <1>5, <1>6, <1>7

LEMMA SyncSame ==
  ASSUME AnswersOK, RestOK, CallOK, UNCHANGED <<toServer, toClient, client, server>>
  PROVE  AnswersOK' /\ RestOK' /\ CallOK'
<1> USE DEF client, server
<1>1. AnswersOK' /\ RestOK'
  BY DEF AnswersOK, RestOK
<1>2. (Asking => Asking') /\ (Serving => Serving') /\ (Replying => Replying')
  BY DEF Asking, Serving, Replying, Bodyless
<1> QED
  BY <1>1, <1>2 DEF CallOK

LEMMA SyncStep ==
  ASSUME NoTunnels, HttpTypeOK, HttpTypeOK', Sync, [HttpNext]_httpVars
  PROVE  Sync'
<1> SUFFICES ASSUME foreign' = "none" PROVE AnswersOK' /\ RestOK' /\ CallOK'
  BY DEF Sync
<1>1. foreign' = foreign
  BY DEF HttpNext, httpVars, Dial, SendRequest, SendRequestFails, ClientStep, ClientParses, ClientReads,
         ClientEof, ClientReadsPart, ClientTimeout, ServerStep, ServerParses, ServerReads,
         ServerReadsPart, Handle, SendResponse,
         ServerCloses, SendFails, Routing, AddServlet, DelServlet, AddGlob, DelGlob, SetDefault,
         SetServletDispatch, SetKeepAlive, ForeignSends, ForeignCloses
<1>2. foreign = "none" /\ AnswersOK /\ RestOK /\ CallOK
  BY <1>1 DEF Sync
<1>3. CASE Dial \/ SendRequest \/ SendRequestFails \/ ClientStep \/ ClientReadsPart
           \/ ClientTimeout
  BY <1>2, <1>3, SyncClient DEF ClientStep
<1>4. CASE ServerStep \/ ServerReadsPart \/ ServerCloses \/ SendFails
  BY <1>2, <1>4, SyncServer DEF ServerStep
<1>5. CASE Routing \/ UNCHANGED httpVars
  <2>1. UNCHANGED <<toServer, toClient, client, server>>
    BY <1>5 DEF Routing, AddServlet, DelServlet, AddGlob, DelGlob, SetDefault,
                SetServletDispatch, SetKeepAlive, httpVars
  <2> QED
    BY <1>2, <2>1, SyncSame
<1>6. CASE ForeignSends \/ ForeignCloses
  <2>1. foreign \in {"client", "server"}
    BY <1>6 DEF ForeignSends, ForeignCloses, HttpTypeOK
  <2> QED
    BY <1>2, <2>1
<1> QED
  BY <1>3, <1>4, <1>5, <1>6 DEF HttpNext

\* Between two droplet peers the n-th call returns the answer to the n-th
\* request and no byte of another message, and a connection that goes back to
\* the pool as reusable has nothing left to read: for every way the bytes are
\* cut, all limits, servlets and changes of the routes, failing writes, closes
\* and timeouts.  CONNECT is left out: recvResponse() takes its answer for a
\* tunnel, which has no body, while HttpServer sends one.
THEOREM PeersStayInStep == NoTunnels => (HttpSpec => []InStep)
<1> SUFFICES ASSUME NoTunnels PROVE HttpSpec => []InStep
  OBVIOUS
<1>1. HttpInit => HttpTypeOK /\ Sync
  BY HttpInitType, SyncInit
<1>2. HttpTypeOK /\ Sync /\ [HttpNext]_httpVars => (HttpTypeOK /\ Sync)'
  BY HttpTypeStep, SyncStep
<1>3. Sync => InStep
  BY DEF Sync, InStep, AnswersOK, RestOK
<1> QED
  BY <1>1, <1>2, <1>3, PTL DEF HttpSpec
=============================================================================
