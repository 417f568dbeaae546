--------------------------- MODULE IOManager_proofs ---------------------------
(***************************************************************************)
(* Proofs about IOManager, for every number of workers, descriptors and    *)
(* jobs, whatever the client may call.                                     *)
(***************************************************************************)
EXTENDS IOManager, FiniteSetTheorems, SequenceTheorems, TLAPS

-----------------------------------------------------------------------------
(* The lists of steps. *)

Task == [job : Jobs, pin : Workers \cup {AnyThread}]

\* A count comes first, and a push is followed by its tickle().
ListOK(L) ==
    \A i \in DOMAIN L : /\ L[i].op = "sub" => i = 1
                        /\ L[i].op = "push" => i + 1 \in DOMAIN L /\ L[i + 1].op = TICKLE

IsPush(L, i, j) == i \in DOMAIN L /\ L[i].op = "push" /\ L[i].job = j

\* The list pushes the jobs of J, each once.
PushesJobs(L, J) ==
    /\ \A i \in DOMAIN L : L[i].op = "push" => L[i].job \in J
    /\ \A j \in J : \E i \in DOMAIN L : IsPush(L, i, j)
    /\ \A j \in J : \A i, k \in DOMAIN L : IsPush(L, i, j) /\ IsPush(L, k, j) => i = k

\* A list that counts down n events (0: none) and pushes the jobs of J.
IsCall(L, n, J) ==
    /\ L \in Seq(Step) /\ ListOK(L) /\ PushesJobs(L, J)
    /\ IF n = 0 THEN \A i \in DOMAIN L : L[i].op # "sub"
                ELSE L # <<>> /\ L[1].op = "sub" /\ L[1].n = n

LEMMA StepFields ==
  ASSUME NEW s \in Step
  PROVE  /\ s.op \in {"sub", TICKLE, "push"}
         /\ s.op = "sub" => s.n \in 1..2
         /\ s.op = "push" => s.job \in Jobs /\ s.pin \in Workers \cup {AnyThread}
         /\ s.op = "push" => [job |-> s.job, pin |-> s.pin] \in Task
  BY DEF Step, TICKLE, Task

LEMMA StepLists ==
  ASSUME NEW L \in Seq(Step)
  PROVE  /\ Len(L) \in Nat /\ DOMAIN L = 1..Len(L) /\ \A i \in DOMAIN L : L[i] \in Step
         /\ L = <<>> <=> DOMAIN L = {}
  BY LenProperties, ElementOfSeq, EmptySeq

LEMMA TickleList == IsCall(Tickle, 0, {}) /\ Tickle # <<>>
<1>1. [op |-> TICKLE] \in Step /\ [op |-> TICKLE].op = TICKLE
  BY DEF Step
<1>2. Tickle \in Seq(Step) /\ Len(Tickle) = 1 /\ Tickle[1] = [op |-> TICKLE]
  BY <1>1 DEF Tickle
<1>3. DOMAIN Tickle = 1..1
  BY <1>2, LenProperties
<1>4. \A i \in DOMAIN Tickle : Tickle[i].op = TICKLE
  BY <1>1, <1>2, <1>3
<1> QED
  BY <1>2, <1>3, <1>4, SMTT(30) DEF IsCall, ListOK, PushesJobs, TICKLE

LEMMA EmptyList == IsCall(<<>>, 0, {})
  BY EmptySeq DEF IsCall, ListOK, PushesJobs

LEMMA PushList ==
  ASSUME NEW j \in Jobs, NEW p \in Workers \cup {AnyThread}
  PROVE  /\ ScheduleCall(j, p) \in Seq(Step) /\ Len(ScheduleCall(j, p)) = 2
         /\ ScheduleCall(j, p)[1].op = "push" /\ ScheduleCall(j, p)[1].job = j
         /\ ScheduleCall(j, p)[1] \in Step /\ ScheduleCall(j, p)[2] \in Step
         /\ ScheduleCall(j, p)[2].op = TICKLE
         /\ IsCall(ScheduleCall(j, p), 0, {j})
<1> DEFINE u == [op |-> "push", job |-> j, pin |-> p]
           t == [op |-> TICKLE]
           L == ScheduleCall(j, p)
<1>1. u \in Step /\ u.op = "push" /\ u.job = j /\ t \in Step /\ t.op = TICKLE
  BY DEF Step
<1>2. L = <<u>> \o <<t>>
  BY DEF ScheduleCall, Tickle
<1> HIDE DEF u, t, L
<1>3. L \in Seq(Step) /\ Len(L) = 2 /\ L[1] = u /\ L[2] = t
  <2>1. /\ <<u>> \in Seq(Step) /\ Len(<<u>>) = 1 /\ <<u>>[1] = u
        /\ <<t>> \in Seq(Step) /\ Len(<<t>>) = 1 /\ <<t>>[1] = t
    BY <1>1
  <2> QED
    BY <1>2, <2>1, ConcatProperties
<1>4. DOMAIN L = 1..2
  BY <1>3, LenProperties
<1>5. ListOK(L)
  BY <1>1, <1>3, <1>4 DEF ListOK, TICKLE
<1>6. PushesJobs(L, {j})
  BY <1>1, <1>3, <1>4 DEF PushesJobs, IsPush, TICKLE
<1>7. \A i \in DOMAIN L : L[i].op # "sub"
  BY <1>1, <1>3, <1>4 DEF TICKLE
<1> QED
  BY <1>1, <1>3, <1>5, <1>6, <1>7 DEF L, IsCall

\* One list after the other.
LEMMA ConcatList ==
  ASSUME NEW L, NEW J, NEW M, NEW K, NEW n \in Nat,
         IsCall(L, n, J), IsCall(M, 0, K), J \cap K = {}
  PROVE  IsCall(L \o M, n, J \cup K)
<1> DEFINE N == L \o M
           l == Len(L)
           m == Len(M)
<1>1. /\ L \in Seq(Step) /\ M \in Seq(Step) /\ ListOK(L) /\ ListOK(M)
      /\ PushesJobs(L, J) /\ PushesJobs(M, K)
      /\ \A i \in DOMAIN M : M[i].op # "sub"
  BY DEF IsCall
<1>2. l \in Nat /\ m \in Nat /\ DOMAIN L = 1..l /\ DOMAIN M = 1..m
  BY <1>1, LenProperties
<1>3. N \in Seq(Step) /\ Len(N) = l + m
      /\ \A i \in 1..(l + m) : N[i] = IF i <= l THEN L[i] ELSE M[i - l]
  BY <1>1, ConcatProperties
<1> HIDE DEF N, l, m
<1>4. DOMAIN N = 1..(l + m)
  BY <1>3, LenProperties
<1>5. \A i \in 1..l : i \in DOMAIN N /\ N[i] = L[i]
  BY <1>2, <1>3, <1>4
<1>6. \A i \in 1..m : l + i \in DOMAIN N /\ N[l + i] = M[i]
  <2> SUFFICES ASSUME NEW i \in 1..m PROVE l + i \in DOMAIN N /\ N[l + i] = M[i]
    OBVIOUS
  <2>1. l + i \in 1..(l + m) /\ ~(l + i <= l) /\ (l + i) - l = i
    BY <1>2
  <2> QED
    BY <2>1, <1>3, <1>4
<1>7. \A i \in DOMAIN N : (i \in 1..l /\ N[i] = L[i]) \/ (\E k \in 1..m : i = l + k /\ N[i] = M[k])
  <2> SUFFICES ASSUME NEW i \in DOMAIN N, i \notin 1..l
               PROVE  \E k \in 1..m : i = l + k /\ N[i] = M[k]
    BY <1>5
  <2>1. i - l \in 1..m /\ i = l + (i - l)
    BY <1>2, <1>4
  <2> QED
    BY <2>1, <1>6
<1>8. ListOK(N)
  <2> SUFFICES ASSUME NEW i \in DOMAIN N
               PROVE  /\ N[i].op = "sub" => i = 1
                      /\ N[i].op = "push" => i + 1 \in DOMAIN N /\ N[i + 1].op = TICKLE
    BY DEF ListOK
  <2>1. CASE i \in 1..l /\ N[i] = L[i]
    <3>1. L[i].op = "push" => i + 1 \in 1..l /\ L[i + 1].op = TICKLE
      BY <1>1, <1>2, <2>1 DEF ListOK
    <3> QED
      BY <1>1, <1>2, <1>5, <2>1, <3>1 DEF ListOK
  <2>2. CASE \E k \in 1..m : i = l + k /\ N[i] = M[k]
    <3>1. PICK k \in 1..m : i = l + k /\ N[i] = M[k]
      BY <2>2
    <3>2. M[k].op = "push" => k + 1 \in 1..m /\ M[k + 1].op = TICKLE
      BY <1>1, <1>2 DEF ListOK
    <3>3. i + 1 = l + (k + 1)
      BY <1>2, <3>1
    <3> QED
      BY <1>1, <1>2, <1>6, <3>1, <3>2, <3>3
  <2> QED
    BY <1>7, <2>1, <2>2
<1>9. PushesJobs(N, J \cup K)
  <2>1. \A i \in DOMAIN N : N[i].op = "push" => N[i].job \in J \cup K
    BY <1>1, <1>2, <1>7 DEF PushesJobs
  <2>2. \A j \in J : \E i \in DOMAIN N : IsPush(N, i, j)
    <3> TAKE j \in J
    <3>1. PICK i \in 1..l : L[i].op = "push" /\ L[i].job = j
      BY <1>1, <1>2 DEF PushesJobs, IsPush
    <3> QED
      BY <3>1, <1>5 DEF IsPush
  <2>3. \A j \in K : \E i \in DOMAIN N : IsPush(N, i, j)
    <3> TAKE j \in K
    <3>1. PICK i \in 1..m : M[i].op = "push" /\ M[i].job = j
      BY <1>1, <1>2 DEF PushesJobs, IsPush
    <3> QED
      BY <3>1, <1>6 DEF IsPush
  <2>4. ASSUME NEW i \in DOMAIN N, NEW k \in DOMAIN N, NEW j \in J \cup K,
               IsPush(N, i, j), IsPush(N, k, j)
        PROVE  i = k
    <3>1. CASE j \in J
      <4>1. \A x \in DOMAIN N : IsPush(N, x, j) => x \in 1..l /\ IsPush(L, x, j)
        BY <1>1, <1>2, <1>7, <3>1 DEF PushesJobs, IsPush
      <4> QED
        BY <4>1, <3>1, <2>4, <1>1, <1>2 DEF PushesJobs
    <3>2. CASE j \in K
      <4>1. \A x \in DOMAIN N : IsPush(N, x, j) => \E y \in 1..m : x = l + y /\ IsPush(M, y, j)
        BY <1>1, <1>2, <1>7, <3>2 DEF PushesJobs, IsPush
      <4>2. PICK y \in 1..m : i = l + y /\ IsPush(M, y, j)
        BY <4>1, <2>4
      <4>3. PICK z \in 1..m : k = l + z /\ IsPush(M, z, j)
        BY <4>1, <2>4
      <4>4. y = z
        BY <4>2, <4>3, <3>2, <1>1, <1>2 DEF PushesJobs
      <4> QED
        BY <4>2, <4>3, <4>4
    <3> QED
      BY <3>1, <3>2
  <2> QED
    BY <2>1, <2>2, <2>3, <2>4 DEF PushesJobs
<1>10. CASE n = 0
  <2>1. \A i \in DOMAIN L : L[i].op # "sub"
    BY <1>10 DEF IsCall
  <2>2. \A i \in DOMAIN N : N[i].op # "sub"
    BY <2>1, <1>1, <1>2, <1>7
  <2> QED
    BY <1>10, <2>2, <1>3, <1>8, <1>9 DEF IsCall, N
<1>11. CASE n # 0
  <2>1. L # <<>> /\ L[1].op = "sub" /\ L[1].n = n
    BY <1>11 DEF IsCall
  <2>2. 1 \in 1..l
    BY <2>1, <1>1, <1>2, EmptySeq DEF l
  <2>3. N[1] = L[1] /\ N # <<>>
    BY <2>2, <1>5
  <2> QED
    BY <1>11, <2>1, <2>3, <1>3, <1>8, <1>9 DEF IsCall, N
<1> QED
  BY <1>10, <1>11

LEMMA CountList ==
  ASSUME NEW E \in SUBSET Events, E # {}
  PROVE  /\ IsFiniteSet(E) /\ Cardinality(E) \in 1..2
         /\ IsCall(Subtract(E), Cardinality(E), {})
<1>1. E = {"READ"} \/ E = {"WRITE"} \/ E = {"READ", "WRITE"}
  BY DEF Events
<1>2. IsFiniteSet({"READ"}) /\ Cardinality({"READ"}) = 1
      /\ IsFiniteSet({"WRITE"}) /\ Cardinality({"WRITE"}) = 1
  BY FS_Singleton
<1>3. IsFiniteSet({"READ"} \cup {"WRITE"}) /\ Cardinality({"READ"} \cup {"WRITE"}) = 2
  <2>1. "WRITE" \notin {"READ"}
    OBVIOUS
  <2> QED
    BY <1>2, <2>1, FS_AddElement
<1>4. IsFiniteSet(E) /\ Cardinality(E) \in 1..2
  <2>1. {"READ", "WRITE"} = {"READ"} \cup {"WRITE"}
    OBVIOUS
  <2>2. IsFiniteSet({"READ", "WRITE"}) /\ Cardinality({"READ", "WRITE"}) = 2
    BY <1>3, <2>1
  <2> QED
    BY <1>1, <1>2, <2>2
<1> DEFINE n == Cardinality(E)
           u == [op |-> "sub", n |-> n]
<1> HIDE DEF n
<1>5. u \in Step /\ u.op = "sub" /\ u.n = n /\ n # 0
  BY <1>4 DEF Step, n
<1> HIDE DEF u
<1>6. Subtract(E) = <<u>>
  BY DEF Subtract, u, n
<1>7. <<u>> \in Seq(Step) /\ Len(<<u>>) = 1 /\ <<u>>[1] = u /\ <<u>> # <<>>
  BY <1>5
<1>8. DOMAIN <<u>> = 1..1
  BY <1>7, LenProperties
<1>9. ListOK(<<u>>) /\ PushesJobs(<<u>>, {})
  BY <1>5, <1>7, <1>8 DEF ListOK, PushesJobs
<1>10. IsCall(<<u>>, n, {})
  BY <1>5, <1>7, <1>9 DEF IsCall
<1> QED
  BY <1>4, <1>6, <1>10 DEF n

\* trigger() schedules the handlers of E.
LEMMA TriggerList ==
  ASSUME handler \in [Slots -> Jobs \cup {None}],
         \A s, t \in Slots : handler[s] = handler[t] /\ handler[s] # None => s = t,
         NEW fd \in Fds, NEW E \in SUBSET Registered(fd)
  PROVE  IsCall(TriggerCall(fd, E), 0, JobsAt(fd, E)) /\ JobsAt(fd, E) \subseteq Jobs
<1> DEFINE r == handler[<<fd, "READ">>]
           w == handler[<<fd, "WRITE">>]
           R == IF "READ" \in E THEN {r} ELSE {}
           W == IF "WRITE" \in E THEN {w} ELSE {}
           LR == IF "READ" \in E THEN ScheduleCall(r, AnyThread) ELSE <<>>
           LW == IF "WRITE" \in E THEN ScheduleCall(w, AnyThread) ELSE <<>>
<1>1. <<fd, "READ">> \in Slots /\ <<fd, "WRITE">> \in Slots /\ E \subseteq {"READ", "WRITE"}
  BY DEF Slots, Events, Registered
<1>2. ("READ" \in E => r \in Jobs) /\ ("WRITE" \in E => w \in Jobs)
  BY <1>1 DEF Registered
<1>3. R \cap W = {}
  <2>1. "READ" \in E /\ "WRITE" \in E => r # w
    <3>1. <<fd, "READ">> # <<fd, "WRITE">>
      OBVIOUS
    <3> QED
      BY <1>1, <1>2, <3>1, ConstantsAssumption
  <2> QED
    BY <2>1
<1>4. IsCall(LR, 0, R) /\ IsCall(LW, 0, W)
  BY <1>2, PushList, EmptyList
<1>5. JobsAt(fd, E) = R \cup W
  <2>1. JobsAt(fd, E) \subseteq R \cup W
    <3>1. \A e \in E : handler[<<fd, e>>] \in R \cup W
      <4> TAKE e \in E
      <4>1. e = "READ" \/ e = "WRITE"
        BY <1>1
      <4>2. CASE e = "READ"
        BY <4>2
      <4>3. CASE e = "WRITE"
        BY <4>3
      <4> QED
        BY <4>1, <4>2, <4>3
    <3> HIDE DEF R, W
    <3> QED
      BY <3>1 DEF JobsAt
  <2>2. R \cup W \subseteq JobsAt(fd, E)
    BY <1>1 DEF JobsAt
  <2> QED
    BY <2>1, <2>2
<1>6. TriggerCall(fd, E) = LR \o LW
  BY DEF TriggerCall
<1>7. R \cup W \subseteq Jobs
  BY <1>2
<1> HIDE DEF R, W, LR, LW
<1> QED
  BY <1>3, <1>4, <1>5, <1>6, <1>7, ConcatList

\* The list of a finite set has its elements, each once.
LEMMA SetList ==
  ASSUME NEW S, IsFiniteSet(S)
  PROVE  /\ SetToSeq(S) \in [1..Cardinality(S) -> S] /\ Cardinality(S) \in Nat
         /\ \A i, k \in 1..Cardinality(S) : SetToSeq(S)[i] = SetToSeq(S)[k] => i = k
         /\ \A x \in S : \E i \in 1..Cardinality(S) : SetToSeq(S)[i] = x
<1> DEFINE n == Cardinality(S)
           D == 1..n
           f == SetToSeq(S)
<1>1. n \in Nat
  BY FS_CardinalityType
<1>2. IsFiniteSet(D) /\ Cardinality(D) = n
  BY <1>1, FS_Interval
<1>3. \E g \in [D -> S] : IsInjective(g)
  <2>1. ExistsBijection(D, S)
    BY <1>2, FS_SameCardinalityBij
  <2> QED
    BY <2>1 DEF ExistsBijection, Bijection, Injection, IsInjective
<1>4. f \in [D -> S] /\ IsInjective(f)
  BY <1>3 DEF SetToSeq
<1> HIDE DEF f
<1>5. \A i, k \in D : f[i] = f[k] => i = k
  BY <1>4 DEF IsInjective
<1> DEFINE Q == {f[i] : i \in D}
<1>6. Q \subseteq S /\ \A x \in Q : \E i \in D : f[i] = x
  BY <1>4
<1>7. ExistsBijection(D, Q)
  <2>1. f \in Bijection(D, Q)
    BY <1>4, <1>5 DEF Bijection, Injection, Surjection, IsInjective
  <2> QED
    BY <2>1 DEF ExistsBijection
<1>8. Cardinality(Q) = Cardinality(S)
  BY <1>2, <1>7, FS_Bijection
<1>9. Q = S
  BY <1>6, <1>8, FS_Subset
<1> QED
  BY <1>1, <1>4, <1>5, <1>6, <1>9 DEF f

\* Every expired callback is scheduled, each once.
LEMMA ExpiredList ==
  ASSUME NEW S \in SUBSET Jobs
  PROVE  IsCall(ScheduleCalls(SetToSeq(S)), 0, S)
<1> DEFINE n == Cardinality(S)
           f == SetToSeq(S)
           L == ScheduleCalls(f)
<1>0. IsFiniteSet(S)
  BY ConstantsAssumption, FS_Subset
<1>1. /\ f \in [1..n -> S] /\ n \in Nat
      /\ \A i, k \in 1..n : f[i] = f[k] => i = k
      /\ \A x \in S : \E i \in 1..n : f[i] = x
  BY <1>0, SetList
<1> HIDE DEF n, f
<1>2. Len(f) = n
  <2>1. f \in Seq(S)
    BY <1>1
  <2> QED
    BY <1>1, <2>1, LenProperties
<1>3. L = [i \in 1..(2 * n) |-> ScheduleCall(f[(i + 1) \div 2], AnyThread)[2 - (i % 2)]]
  BY <1>2 DEF ScheduleCalls
<1> HIDE DEF L
<1>4. \A i \in 1..(2 * n) : /\ (i + 1) \div 2 \in 1..n
                            /\ i % 2 = 1 => i = 2 * ((i + 1) \div 2) - 1 /\ 2 - (i % 2) = 1
                            /\ i % 2 # 1 => 2 - (i % 2) = 2
  BY <1>1
<1>5. \A i \in 1..(2 * n) : L[i] \in Step
         /\ (i % 2 = 1 => L[i].op = "push" /\ L[i].job = f[(i + 1) \div 2])
         /\ (i % 2 # 1 => L[i].op = TICKLE)
  <2> TAKE i \in 1..(2 * n)
  <2>1. f[(i + 1) \div 2] \in Jobs
    BY <1>1, <1>4
  <2>2. L[i] = ScheduleCall(f[(i + 1) \div 2], AnyThread)[2 - (i % 2)]
    BY <1>3
  <2> DEFINE C == ScheduleCall(f[(i + 1) \div 2], AnyThread)
  <2>3. /\ C[1].op = "push" /\ C[1].job = f[(i + 1) \div 2] /\ C[1] \in Step
        /\ C[2].op = TICKLE /\ C[2] \in Step
    BY <2>1, PushList
  <2>4. L[i] = C[2 - (i % 2)]
    BY <2>2
  <2> HIDE DEF C
  <2>5. CASE i % 2 = 1
    <3>1. L[i] = C[1]
      BY <2>4, <2>5, <1>4
    <3> QED
      BY <3>1, <2>3, <2>5
  <2>6. CASE i % 2 # 1
    <3>1. L[i] = C[2]
      BY <2>4, <2>6, <1>4
    <3> QED
      BY <3>1, <2>3, <2>6
  <2> QED
    BY <2>5, <2>6
<1>6. DOMAIN L = 1..(2 * n) /\ L \in Seq(Step)
  <2>1. 2 * n \in Nat /\ L \in [1..(2 * n) -> Step]
    BY <1>1, <1>3, <1>5
  <2> QED
    BY <2>1, IsASeq
<1>7. ListOK(L)
  <2> SUFFICES ASSUME NEW i \in 1..(2 * n), L[i].op = "push" \/ L[i].op = "sub"
               PROVE  L[i].op = "push" /\ i + 1 \in 1..(2 * n) /\ L[i + 1].op = TICKLE
    BY <1>6 DEF ListOK, TICKLE
  <2>1. i % 2 = 1 /\ L[i].op = "push"
    BY <1>5 DEF TICKLE
  <2>2. i + 1 \in 1..(2 * n) /\ (i + 1) % 2 # 1
    BY <2>1, <1>1
  <2> QED
    BY <2>1, <2>2, <1>5
<1>8. \A i \in 1..(2 * n) : L[i].op = "push" => i % 2 = 1
  BY <1>5 DEF TICKLE
<1>9. PushesJobs(L, S)
  <2>1. \A i \in DOMAIN L : L[i].op = "push" => L[i].job \in S
    BY <1>1, <1>4, <1>5, <1>6, <1>8
  <2>2. \A j \in S : \E i \in DOMAIN L : IsPush(L, i, j)
    <3> TAKE j \in S
    <3>1. PICK k \in 1..n : f[k] = j
      BY <1>1
    <3>2. 2 * k - 1 \in 1..(2 * n) /\ (2 * k - 1) % 2 = 1 /\ ((2 * k - 1) + 1) \div 2 = k
      BY <1>1
    <3>3. L[2 * k - 1].op = "push" /\ L[2 * k - 1].job = j
      BY <3>1, <3>2, <1>5
    <3> QED
      BY <3>2, <3>3, <1>6 DEF IsPush
  <2>3. ASSUME NEW j \in S, NEW i \in DOMAIN L, NEW k \in DOMAIN L, IsPush(L, i, j), IsPush(L, k, j)
        PROVE  i = k
    <3>1. i \in 1..(2 * n) /\ k \in 1..(2 * n) /\ i % 2 = 1 /\ k % 2 = 1
      BY <2>3, <1>6, <1>8 DEF IsPush
    <3>2. f[(i + 1) \div 2] = f[(k + 1) \div 2]
      BY <2>3, <3>1, <1>5 DEF IsPush
    <3>3. (i + 1) \div 2 = (k + 1) \div 2
      <4>1. (i + 1) \div 2 \in 1..n /\ (k + 1) \div 2 \in 1..n
        BY <3>1, <1>4
      <4> DEFINE x == (i + 1) \div 2
                 y == (k + 1) \div 2
      <4>2. x \in 1..n /\ y \in 1..n /\ f[x] = f[y]
        BY <4>1, <3>2
      <4> HIDE DEF x, y
      <4>3. x = y
        BY <4>2, <1>1
      <4> QED
        BY <4>3 DEF x, y
    <3> QED
      BY <3>1, <3>3, <1>4
  <2> QED
    BY <2>1, <2>2, <2>3 DEF PushesJobs
<1>10. \A i \in DOMAIN L : L[i].op # "sub"
  BY <1>5, <1>6 DEF TICKLE
<1> QED
  BY <1>6, <1>7, <1>9, <1>10 DEF IsCall, L, f

-----------------------------------------------------------------------------
(* The invariants. *)

\* TypeOK, but for the sign of the count.
Types ==
    /\ tasks \in Seq(Task) /\ tokens \in Nat
    /\ handler \in [Slots -> Jobs \cup {None}] /\ pending \in Int
    /\ due \subseteq timers /\ timers \subseteq Jobs
    /\ readyFds \subseteq Fds \X (Events \cup {HUP}) /\ open \subseteq Fds
    /\ stopping \in BOOLEAN /\ force \in BOOLEAN
    /\ stopPc \in {"no", "tickle", "join", "done"}
    /\ pc \in [Workers -> {"fetch", "running", "timeout", "epoll", "events",
                           "stopEvents", "stopTimers", "stopTasks", "exited"}]
    /\ ready \in [Workers -> BOOLEAN]
    /\ got \in [Workers -> SUBSET (Slots \cup {TickleTag})]
    /\ wait \in [Workers -> SUBSET Jobs]
    /\ cur \in [Workers -> Jobs \cup {None}]
    /\ todo \in [Actors -> Seq(Step)]
    /\ ops \in [Jobs -> 0..MaxOps] /\ state \in [Jobs -> JobStates] /\ ext \subseteq Jobs

\* Where a thread is in run() and idle(), and what it may still have to do.
LoopInv ==
    /\ \A w \in Workers : /\ pc[w] \notin {"running", "events", "stopEvents"} => todo[w] = <<>>
                          /\ pc[w] # "events" => got[w] = {}
                          /\ pc[w] = "running" <=> cur[w] # None
    /\ force => todo[Client] = <<>>

ListInv == \A a \in Actors : ListOK(todo[a])

\* Where a job is, by what became of it, and nowhere twice.
QueuedInv ==
    \A j \in Jobs :
        /\ state[j] = "queued" <=> \E i \in DOMAIN tasks : tasks[i].job = j
        /\ \A i, k \in DOMAIN tasks : tasks[i].job = j /\ tasks[k].job = j => i = k

RunningInv ==
    \A j \in Jobs :
        /\ state[j] = "running" <=> \E w \in Workers : cur[w] = j
        /\ \A v, w \in Workers : cur[v] = j /\ cur[w] = j => v = w

WaitingInv ==
    \A j \in Jobs :
        /\ state[j] = "waiting" <=> \E s \in Slots : handler[s] = j
        /\ \A s, t \in Slots : handler[s] = j /\ handler[t] = j => s = t

TimedInv == \A j \in Jobs : state[j] = "timed" <=> j \in timers

TriggeredInv ==
    \A j \in Jobs :
        /\ state[j] = "triggered" <=> \E a \in Actors : \E i \in DOMAIN todo[a] : IsPush(todo[a], i, j)
        /\ \A a, b \in Actors : \A i \in DOMAIN todo[a], k \in DOMAIN todo[b] :
              IsPush(todo[a], i, j) /\ IsPush(todo[b], k, j) => a = b /\ i = k

IInv == /\ Types /\ LoopInv /\ ListInv
        /\ QueuedInv /\ RunningInv /\ WaitingInv /\ TimedInv /\ TriggeredInv

-----------------------------------------------------------------------------
(* How the jobs move. *)

\* The jobs of J go from one state to another.
Moves(J, from, to) ==
    /\ J \subseteq Jobs /\ \A j \in J : state[j] = from
    /\ \A j \in Jobs : state'[j] = IF j \in J THEN to ELSE state[j]

LEMMA MarkMoves ==
  ASSUME Types, NEW J \in SUBSET Jobs, NEW from, NEW to \in JobStates,
         \A j \in J : state[j] = from, Mark(J, to)
  PROVE  Moves(J, from, to) /\ state' \in [Jobs -> JobStates]
  BY DEF Types, Mark, Moves

LEMMA MarkOne ==
  ASSUME Types, NEW j \in Jobs, NEW to \in JobStates, Mark({j}, to)
  PROVE  Moves({j}, state[j], to) /\ state' \in [Jobs -> JobStates]
  BY DEF Types, Mark, Moves

\* The part of a state that no job enters or leaves.
Still(st) == \A j \in Jobs : state'[j] = st <=> state[j] = st

LEMMA MovesStill ==
  ASSUME NEW J, NEW from, NEW to, Moves(J, from, to), NEW st, st # from, st # to
  PROVE  Still(st)
  BY DEF Moves, Still

\* The jobs that enter and leave a state.
Enters(J, st) ==
    /\ J \subseteq Jobs /\ \A j \in J : state[j] # st /\ state'[j] = st
    /\ \A j \in Jobs \ J : state'[j] = st <=> state[j] = st

Leaves(J, st) ==
    /\ J \subseteq Jobs /\ \A j \in J : state[j] = st /\ state'[j] # st
    /\ \A j \in Jobs \ J : state'[j] = st <=> state[j] = st

LEMMA MovesBoth ==
  ASSUME NEW J, NEW from, NEW to, Moves(J, from, to), from # to
  PROVE  Enters(J, to) /\ Leaves(J, from)
  BY DEF Moves, Enters, Leaves

LEMMA StillBoth ==
  ASSUME NEW st, Still(st)
  PROVE  Enters({}, st) /\ Leaves({}, st)
  BY DEF Still, Enters, Leaves

LEMMA QueuedStill ==
  ASSUME QueuedInv, UNCHANGED tasks, Still("queued") PROVE QueuedInv'
  BY DEF QueuedInv, Still

LEMMA RunningStill ==
  ASSUME RunningInv, UNCHANGED cur, Still("running") PROVE RunningInv'
  BY DEF RunningInv, Still

LEMMA WaitingStill ==
  ASSUME WaitingInv, UNCHANGED handler, Still("waiting") PROVE WaitingInv'
  BY DEF WaitingInv, Still

LEMMA TimedStill ==
  ASSUME TimedInv, UNCHANGED timers, Still("timed") PROVE TimedInv'
  BY DEF TimedInv, Still

LEMMA TriggeredStill ==
  ASSUME TriggeredInv, UNCHANGED todo, Still("triggered") PROVE TriggeredInv'
  BY DEF TriggeredInv, IsPush, Still

\* schedule() queues a job.
LEMMA QueueAppend ==
  ASSUME Types, QueuedInv, NEW x \in Task, tasks' = Append(tasks, x),
         NEW from, from # "queued", Moves({x.job}, from, "queued")
  PROVE  QueuedInv' /\ tasks' \in Seq(Task)
<1>1. /\ Len(tasks) \in Nat /\ DOMAIN tasks = 1..Len(tasks) /\ tasks \in Seq(Task)
  BY LenProperties DEF Types
<1>2. /\ tasks' \in Seq(Task) /\ Len(tasks') = Len(tasks) + 1
      /\ \A i \in 1..Len(tasks) : tasks'[i] = tasks[i]
      /\ tasks'[Len(tasks) + 1] = x
  BY <1>1, AppendProperties
<1>3. DOMAIN tasks' = 1..(Len(tasks) + 1)
  BY <1>2, LenProperties
<1> DEFINE n == Len(tasks)
<1> HIDE DEF n
<1>4. /\ n \in Nat /\ DOMAIN tasks = 1..n /\ DOMAIN tasks' = 1..(n + 1)
      /\ (\A i \in 1..n : tasks'[i] = tasks[i]) /\ tasks'[n + 1] = x
  BY <1>1, <1>2, <1>3 DEF n
<1>5. x.job \in Jobs /\ \A i \in 1..n : tasks[i].job # x.job
  BY <1>4 DEF Moves, QueuedInv, Task
<1>6. \A i \in 1..(n + 1) : i \in 1..n \/ i = n + 1
  BY <1>4
<1>7. n + 1 \in 1..(n + 1) /\ \A i \in 1..n : i \in 1..(n + 1)
  BY <1>4
<1>8. ASSUME NEW j \in Jobs
      PROVE  /\ state'[j] = "queued" <=> \E i \in DOMAIN tasks' : tasks'[i].job = j
             /\ \A i, k \in DOMAIN tasks' : tasks'[i].job = j /\ tasks'[k].job = j => i = k
  <2>1. CASE j = x.job
    BY <2>1, <1>4, <1>5, <1>6, <1>7 DEF Moves
  <2>2. CASE j # x.job
    BY <2>2, <1>4, <1>5, <1>6, <1>7 DEF Moves, QueuedInv
  <2> QED
    BY <2>1, <2>2
<1> QED
  BY <1>2, <1>8 DEF QueuedInv

\* getNextTask() takes a job out.
LEMMA QueueErase ==
  ASSUME Types, QueuedInv, NEW p \in DOMAIN tasks, tasks' = RemoveAt(tasks, p),
         NEW to, to # "queued", Moves({tasks[p].job}, "queued", to)
  PROVE  QueuedInv' /\ tasks' \in Seq(Task)
<1> DEFINE n == Len(tasks)
           a == SubSeq(tasks, 1, p - 1)
           b == SubSeq(tasks, p + 1, n)
<1>1. n \in Nat /\ DOMAIN tasks = 1..n /\ tasks \in Seq(Task) /\ \A k \in 1..n : tasks[k] \in Task
  BY LenProperties, ElementOfSeq DEF Types
<1>2. p \in 1..n
  BY <1>1
<1> HIDE DEF n
<1>3. /\ a \in Seq(Task) /\ Len(a) = p - 1 /\ \A k \in 1..(p - 1) : a[k] = tasks[k]
  BY <1>1, <1>2, SubSeqProperties
<1>4. /\ b \in Seq(Task) /\ Len(b) = n - p /\ \A k \in 1..(n - p) : b[k] = tasks[p + k]
  BY <1>1, <1>2, SubSeqProperties, SMTT(30) DEF n
<1>5. tasks' = a \o b
  BY DEF RemoveAt, n
<1> HIDE DEF a, b
<1>6. /\ tasks' \in Seq(Task) /\ Len(tasks') = n - 1
      /\ \A k \in 1..(n - 1) : tasks'[k] = IF k <= p - 1 THEN a[k] ELSE b[k - (p - 1)]
  <2>1. /\ a \o b \in Seq(Task) /\ Len(a \o b) = Len(a) + Len(b)
        /\ \A k \in 1..(Len(a) + Len(b)) :
              (a \o b)[k] = IF k <= Len(a) THEN a[k] ELSE b[k - Len(a)]
    BY <1>3, <1>4, ConcatProperties
  <2>2. Len(a) + Len(b) = n - 1
    BY <1>1, <1>2, <1>3, <1>4
  <2> QED
    BY <1>3, <1>5, <2>1, <2>2
<1>7. DOMAIN tasks' = 1..(n - 1)
  BY <1>6, LenProperties
<1>8. \A k \in 1..(n - 1) : tasks'[k] = tasks[IF k < p THEN k ELSE k + 1]
  <2> TAKE k \in 1..(n - 1)
  <2>1. CASE k < p
    BY <1>1, <1>2, <1>3, <1>6, <2>1
  <2>2. CASE ~(k < p)
    <3>1. k - (p - 1) \in 1..(n - p) /\ p + (k - (p - 1)) = k + 1
      BY <1>1, <1>2, <2>2
    <3>2. b[k - (p - 1)] = tasks[k + 1]
      BY <1>4, <3>1
    <3> QED
      BY <1>1, <1>2, <1>6, <2>2, <3>2
  <2> QED
    BY <2>1, <2>2
\* Each position of the new list is one of the old list, other than p.
<1> DEFINE o(k) == IF k < p THEN k ELSE k + 1
<1>9. \A k \in 1..(n - 1) : o(k) \in 1..n /\ o(k) # p /\ tasks'[k] = tasks[o(k)]
  BY <1>1, <1>2, <1>8
<1>10. \A k, l \in 1..(n - 1) : o(k) = o(l) => k = l
  BY <1>1, <1>2
<1>11. \A i \in 1..n : i # p => \E k \in 1..(n - 1) : o(k) = i
  <2> SUFFICES ASSUME NEW i \in 1..n, i # p PROVE \E k \in 1..(n - 1) : o(k) = i
    OBVIOUS
  <2>1. CASE i < p
    <3>1. i \in 1..(n - 1) /\ o(i) = i
      BY <1>1, <1>2, <2>1
    <3> QED
      BY <3>1
  <2>2. CASE ~(i < p)
    <3>1. i - 1 \in 1..(n - 1) /\ o(i - 1) = i
      BY <1>1, <1>2, <2>2
    <3> QED
      BY <3>1
  <2> QED
    BY <2>1, <2>2
<1> HIDE DEF o
<1>12. ASSUME NEW j \in Jobs
       PROVE  /\ state'[j] = "queued" <=> \E i \in DOMAIN tasks' : tasks'[i].job = j
              /\ \A i, k \in DOMAIN tasks' : tasks'[i].job = j /\ tasks'[k].job = j => i = k
  <2>1. \A i, k \in DOMAIN tasks' : tasks'[i].job = j /\ tasks'[k].job = j => i = k
    BY <1>1, <1>7, <1>9, <1>10 DEF QueuedInv
  <2>2. (\E i \in DOMAIN tasks' : tasks'[i].job = j) <=> (\E i \in 1..n : i # p /\ tasks[i].job = j)
    BY <1>7, <1>9, <1>11
  <2>3. (\E i \in 1..n : i # p /\ tasks[i].job = j)
          <=> (\E i \in 1..n : tasks[i].job = j) /\ j # tasks[p].job
    BY <1>1, <1>2 DEF QueuedInv
  <2>4. state'[j] = "queued" <=> state[j] = "queued" /\ j # tasks[p].job
    BY DEF Moves
  <2> QED
    BY <1>1, <2>1, <2>2, <2>3, <2>4 DEF QueuedInv
<1> QED
  BY <1>6, <1>12 DEF QueuedInv

\* A worker that ran nothing runs a job.
LEMMA RunStart ==
  ASSUME Types, RunningInv, NEW w \in Workers, NEW j \in Jobs, cur[w] = None,
         cur' = [cur EXCEPT ![w] = j],
         NEW from, from # "running", Moves({j}, from, "running")
  PROVE  RunningInv'
<1>1. \A v \in Workers : cur'[v] = IF v = w THEN j ELSE cur[v]
  BY DEF Types
<1>2. \A v \in Workers : cur[v] # j
  BY DEF RunningInv, Moves
<1>3. ASSUME NEW i \in Jobs
      PROVE  /\ state'[i] = "running" <=> \E v \in Workers : cur'[v] = i
             /\ \A v, u \in Workers : cur'[v] = i /\ cur'[u] = i => v = u
  <2>1. CASE i = j
    BY <2>1, <1>1, <1>2 DEF Moves
  <2>2. CASE i # j
    <3>1. i # None
      BY ConstantsAssumption
    <3> QED
      BY <2>2, <3>1, <1>1 DEF Moves, RunningInv
  <2> QED
    BY <2>1, <2>2
<1> QED
  BY <1>3 DEF RunningInv

\* A job has run.
LEMMA RunEnd ==
  ASSUME Types, RunningInv, NEW w \in Workers, cur[w] \in Jobs,
         cur' = [cur EXCEPT ![w] = None],
         NEW to, to # "running", Moves({cur[w]}, "running", to)
  PROVE  RunningInv'
<1>1. \A v \in Workers : cur'[v] = IF v = w THEN None ELSE cur[v]
  BY DEF Types
<1>2. ASSUME NEW i \in Jobs
      PROVE  /\ state'[i] = "running" <=> \E v \in Workers : cur'[v] = i
             /\ \A v, u \in Workers : cur'[v] = i /\ cur'[u] = i => v = u
  <2>1. i # None
    BY ConstantsAssumption
  <2>2. CASE i = cur[w]
    <3>1. \A v \in Workers : cur'[v] # i
      BY <2>1, <2>2, <1>1 DEF RunningInv
    <3> QED
      BY <3>1, <2>2 DEF Moves
  <2>3. CASE i # cur[w]
    BY <2>1, <2>3, <1>1 DEF Moves, RunningInv
  <2> QED
    BY <2>2, <2>3
<1> QED
  BY <1>2 DEF RunningInv

\* A handler is registered.
LEMMA SlotSet ==
  ASSUME Types, WaitingInv, NEW s \in Slots, NEW j \in Jobs, handler[s] = None,
         handler' = [handler EXCEPT ![s] = j],
         NEW from, from # "waiting", Moves({j}, from, "waiting")
  PROVE  WaitingInv' /\ handler' \in [Slots -> Jobs \cup {None}]
<1>1. \A t \in Slots : handler'[t] = IF t = s THEN j ELSE handler[t]
  BY DEF Types
<1>2. \A t \in Slots : handler[t] # j
  BY DEF WaitingInv, Moves
<1>3. ASSUME NEW i \in Jobs
      PROVE  /\ state'[i] = "waiting" <=> \E v \in Slots : handler'[v] = i
             /\ \A v, u \in Slots : handler'[v] = i /\ handler'[u] = i => v = u
  <2>1. CASE i = j
    BY <2>1, <1>1, <1>2 DEF Moves
  <2>2. CASE i # j
    <3>1. i # None
      BY ConstantsAssumption
    <3> QED
      BY <2>2, <3>1, <1>1 DEF Moves, WaitingInv
  <2> QED
    BY <2>1, <2>2
<1> QED
  BY <1>3 DEF WaitingInv, Types

\* The jobs at registered events wait, and are different.
LEMMA JobsWaiting ==
  ASSUME Types, WaitingInv, NEW fd \in Fds, NEW E \in SUBSET Registered(fd)
  PROVE  /\ JobsAt(fd, E) \subseteq Jobs /\ \A j \in JobsAt(fd, E) : state[j] = "waiting"
         /\ \A s, t \in Slots : handler[s] = handler[t] /\ handler[s] # None => s = t
         /\ E \subseteq Events /\ \A e \in E : <<fd, e>> \in Slots /\ handler[<<fd, e>>] \in Jobs
<1>1. \A e \in E : <<fd, e>> \in Slots /\ handler[<<fd, e>>] \in Jobs
  BY DEF Registered, Slots, Types
<1>2. JobsAt(fd, E) \subseteq Jobs
  BY <1>1 DEF JobsAt
<1>3. \A j \in JobsAt(fd, E) : state[j] = "waiting"
  <2>1. \A e \in E : state[handler[<<fd, e>>]] = "waiting"
    BY <1>1 DEF WaitingInv
  <2> QED
    BY <2>1 DEF JobsAt
<1>4. \A s, t \in Slots : handler[s] = handler[t] /\ handler[s] # None => s = t
  BY DEF WaitingInv, Types
<1> QED
  BY <1>1, <1>2, <1>3, <1>4 DEF Registered

\* Handlers leave their FdContext.
LEMMA SlotMove ==
  ASSUME Types, WaitingInv, NEW fd \in Fds, NEW E \in SUBSET Registered(fd), MoveOut(fd, E),
         NEW to, to # "waiting", Moves(JobsAt(fd, E), "waiting", to)
  PROVE  WaitingInv' /\ handler' \in [Slots -> Jobs \cup {None}]
<1> DEFINE Gone(s) == s[1] = fd /\ s[2] \in E
<1>1. \A s \in Slots : handler'[s] = IF Gone(s) THEN None ELSE handler[s]
  BY DEF MoveOut
<1>2. \A s \in Slots : Gone(s) => handler[s] \in JobsAt(fd, E)
  <2> SUFFICES ASSUME NEW s \in Slots, Gone(s) PROVE handler[s] \in JobsAt(fd, E)
    OBVIOUS
  <2>1. s = <<fd, s[2]>> /\ s[2] \in E
    BY DEF Slots
  <2> QED
    BY <2>1 DEF JobsAt
<1>3. \A j \in JobsAt(fd, E) : \E s \in Slots : Gone(s) /\ handler[s] = j
  BY DEF JobsAt, Registered, Slots
<1>4. \A s, t \in Slots : handler[s] = handler[t] /\ handler[s] # None => s = t
  BY JobsWaiting
<1> HIDE DEF Gone
<1>5. ASSUME NEW i \in Jobs
      PROVE  /\ state'[i] = "waiting" <=> \E v \in Slots : handler'[v] = i
             /\ \A v, u \in Slots : handler'[v] = i /\ handler'[u] = i => v = u
  <2>1. i # None
    BY ConstantsAssumption
  <2>2. CASE i \in JobsAt(fd, E)
    <3>1. \A v \in Slots : handler'[v] # i
      BY <2>1, <2>2, <1>1, <1>3, <1>4
    <3> QED
      BY <3>1, <2>2 DEF Moves
  <2>3. CASE i \notin JobsAt(fd, E)
    <3>1. \A v \in Slots : handler'[v] = i <=> handler[v] = i
      BY <2>1, <2>3, <1>1, <1>2
    <3> QED
      BY <2>3, <3>1 DEF Moves, WaitingInv
  <2> QED
    BY <2>2, <2>3
<1>6. handler' \in [Slots -> Jobs \cup {None}]
  BY DEF MoveOut, Types
<1> QED
  BY <1>5, <1>6 DEF WaitingInv

\* An actor begins a call that schedules the jobs of J.
LEMMA PushAdd ==
  ASSUME Types, ListInv, TriggeredInv, NEW a \in Actors, todo[a] = <<>>, NEW L, NEW n, NEW J,
         todo' = [todo EXCEPT ![a] = L], IsCall(L, n, J),
         Enters(J, "triggered")
  PROVE  TriggeredInv' /\ ListInv' /\ todo' \in [Actors -> Seq(Step)]
<1>1. \A b \in Actors : todo'[b] = IF b = a THEN L ELSE todo[b]
  BY DEF Types
<1>2. L \in Seq(Step) /\ ListOK(L) /\ PushesJobs(L, J)
  BY DEF IsCall
<1>3. ListInv' /\ todo' \in [Actors -> Seq(Step)]
  <2>1. \A b \in Actors : ListOK(todo'[b])
    BY <1>1, <1>2 DEF ListInv
  <2> QED
    BY <1>2, <2>1 DEF ListInv, ListOK, Types
<1>4. ASSUME NEW j \in Jobs
      PROVE  /\ state'[j] = "triggered" <=>
                   \E b \in Actors : \E i \in DOMAIN todo'[b] : IsPush(todo'[b], i, j)
             /\ \A b, c \in Actors : \A i \in DOMAIN todo'[b], k \in DOMAIN todo'[c] :
                   IsPush(todo'[b], i, j) /\ IsPush(todo'[c], k, j) => b = c /\ i = k
  <2>1. CASE j \in J
    <3>1. \A b \in Actors : \A i \in DOMAIN todo[b] : ~IsPush(todo[b], i, j)
      BY <2>1 DEF TriggeredInv, Enters
    <3>2. \E i \in DOMAIN L : IsPush(L, i, j)
      BY <2>1, <1>2 DEF PushesJobs
    <3>3. \A i, k \in DOMAIN L : IsPush(L, i, j) /\ IsPush(L, k, j) => i = k
      BY <2>1, <1>2 DEF PushesJobs
    <3>4. state'[j] = "triggered"
      BY <2>1 DEF Enters
    <3> QED
      BY <3>1, <3>2, <3>3, <3>4, <1>1
  <2>2. CASE j \notin J
    <3>1. \A i \in DOMAIN L : ~IsPush(L, i, j)
      BY <2>2, <1>2 DEF PushesJobs, IsPush
    <3>2. \A i \in DOMAIN todo[a] : ~IsPush(todo[a], i, j)
      BY EmptySeq
    <3>3. \A b \in Actors \ {a} : todo'[b] = todo[b]
      BY <1>1
    <3>4. todo'[a] = L
      BY <1>1
    <3>5. state'[j] = "triggered" <=> state[j] = "triggered"
      BY <2>2 DEF Enters
    <3> QED
      BY <3>1, <3>2, <3>3, <3>4, <3>5 DEF TriggeredInv
  <2> QED
    BY <2>1, <2>2
<1>5. TriggeredInv'
  BY <1>4 DEF TriggeredInv, IsPush
<1> QED
  BY <1>3, <1>5

\* An actor works off the first step of its list.
LEMMA PushTail ==
  ASSUME Types, ListInv, TriggeredInv, NEW a \in Actors, todo[a] # <<>>,
         todo' = [todo EXCEPT ![a] = Tail(@)],
         NEW J, J = IF todo[a][1].op = "push" THEN {todo[a][1].job} ELSE {},
         Leaves(J, "triggered")
  PROVE  TriggeredInv' /\ ListInv' /\ todo' \in [Actors -> Seq(Step)]
<1> DEFINE L == todo[a]
           T == Tail(L)
           n == Len(L)
<1>1. L \in Seq(Step) /\ ListOK(L) /\ L # <<>>
  BY DEF Types, ListInv
<1>2. n \in Nat /\ DOMAIN L = 1..n /\ n > 0
  BY <1>1, LenProperties, EmptySeq
<1>3. T \in Seq(Step) /\ Len(T) = n - 1 /\ \A i \in 1..(n - 1) : T[i] = L[i + 1]
  BY <1>1, HeadTailProperties
<1>4. \A b \in Actors : todo'[b] = IF b = a THEN T ELSE todo[b]
  BY DEF Types
<1> HIDE DEF n, T, L
<1>5. DOMAIN T = 1..(n - 1)
  BY <1>3, LenProperties
<1>6. ListOK(T)
  <2> SUFFICES ASSUME NEW i \in 1..(n - 1)
               PROVE  /\ T[i].op = "sub" => i = 1
                      /\ T[i].op = "push" => i + 1 \in 1..(n - 1) /\ T[i + 1].op = TICKLE
    BY <1>5 DEF ListOK
  <2>1. i + 1 \in 1..n /\ i + 1 # 1 /\ T[i] = L[i + 1]
    BY <1>2, <1>3
  <2>2. L[i + 1].op # "sub"
    BY <1>1, <1>2, <2>1 DEF ListOK
  <2>3. L[i + 1].op = "push" => (i + 1) + 1 \in 1..n /\ L[(i + 1) + 1].op = TICKLE
    BY <1>1, <1>2, <2>1 DEF ListOK
  <2>4. (i + 1) + 1 \in 1..n => i + 1 \in 1..(n - 1) /\ T[i + 1] = L[(i + 1) + 1]
    BY <1>2, <1>3
  <2> QED
    BY <2>1, <2>2, <2>3, <2>4
<1>7. ListInv' /\ todo' \in [Actors -> Seq(Step)]
  <2>1. \A b \in Actors : ListOK(todo'[b])
    BY <1>4, <1>6 DEF ListInv
  <2>2. todo' \in [Actors -> Seq(Step)]
    BY <1>3 DEF Types, T, L
  <2> QED
    BY <2>1, <2>2 DEF ListInv, ListOK
<1>8. \A j \in Jobs : \A i \in 1..(n - 1) : IsPush(T, i, j) <=> IsPush(L, i + 1, j)
  <2> TAKE j \in Jobs
  <2> TAKE i \in 1..(n - 1)
  <2>1. i + 1 \in DOMAIN L /\ i \in DOMAIN T /\ T[i] = L[i + 1]
    BY <1>2, <1>3, <1>5
  <2> QED
    BY <2>1 DEF IsPush
<1>9. \A k \in 1..n : k # 1 => k - 1 \in 1..(n - 1) /\ (k - 1) + 1 = k
  BY <1>2
<1>10. 1 \in 1..n
  BY <1>2
<1>11. ASSUME NEW j \in Jobs
       PROVE  /\ state'[j] = "triggered" <=>
                   \E b \in Actors : \E i \in DOMAIN todo'[b] : IsPush(todo'[b], i, j)
              /\ \A b, c \in Actors : \A i \in DOMAIN todo'[b], k \in DOMAIN todo'[c] :
                   IsPush(todo'[b], i, j) /\ IsPush(todo'[c], k, j) => b = c /\ i = k
  <2>1. j \in J <=> IsPush(L, 1, j)
    BY <1>2, <1>10 DEF IsPush, L
  <2>2. \A b, c \in Actors : \A i \in DOMAIN todo[b], k \in DOMAIN todo[c] :
            IsPush(todo[b], i, j) /\ IsPush(todo[c], k, j) => b = c /\ i = k
    BY DEF TriggeredInv
  <2>3. \A b \in Actors \ {a} : todo'[b] = todo[b]
    BY <1>4
  <2>4. todo'[a] = T /\ todo[a] = L
    BY <1>4 DEF L
  <2>5. ASSUME NEW b \in Actors, NEW c \in Actors, NEW i \in DOMAIN todo'[b], NEW k \in DOMAIN todo'[c],
               IsPush(todo'[b], i, j), IsPush(todo'[c], k, j)
        PROVE  b = c /\ i = k
    <3>1. \E x \in DOMAIN todo[b] : IsPush(todo[b], x, j) /\ (b = a => x = i + 1) /\ (b # a => x = i)
      <4>1. CASE b = a
        <5>1. i \in 1..(n - 1) /\ IsPush(T, i, j)
          BY <4>1, <2>4, <2>5, <1>5
        <5>2. IsPush(L, i + 1, j)
          BY <5>1, <1>8
        <5>3. i + 1 \in DOMAIN L
          BY <5>1, <1>2
        <5> QED
          BY <4>1, <5>2, <5>3, <2>4
      <4>2. CASE b # a
        BY <4>2, <2>3, <2>5
      <4> QED
        BY <4>1, <4>2
    <3>2. \E x \in DOMAIN todo[c] : IsPush(todo[c], x, j) /\ (c = a => x = k + 1) /\ (c # a => x = k)
      <4>1. CASE c = a
        <5>1. k \in 1..(n - 1) /\ IsPush(T, k, j)
          BY <4>1, <2>4, <2>5, <1>5
        <5>2. IsPush(L, k + 1, j)
          BY <5>1, <1>8
        <5>3. k + 1 \in DOMAIN L
          BY <5>1, <1>2
        <5> QED
          BY <4>1, <5>2, <5>3, <2>4
      <4>2. CASE c # a
        BY <4>2, <2>3, <2>5
      <4> QED
        BY <4>1, <4>2
    <3>3. b = c /\ (b = a => i + 1 = k + 1) /\ (b # a => i = k)
      BY <3>1, <3>2, <2>2
    <3>4. CASE b = a
      <4>1. i \in 1..(n - 1) /\ k \in 1..(n - 1)
        BY <3>3, <3>4, <2>4, <1>5
      <4> QED
        BY <3>3, <3>4, <4>1, <1>2
    <3> QED
      BY <3>3, <3>4
  <2>6. CASE j \in J
    <3>1. \A b \in Actors : \A i \in DOMAIN todo'[b] : ~IsPush(todo'[b], i, j)
      <4> SUFFICES ASSUME NEW b \in Actors, NEW i \in DOMAIN todo'[b], IsPush(todo'[b], i, j)
                   PROVE  FALSE
        OBVIOUS
      <4>1. CASE b = a
        <5>1. i \in 1..(n - 1) /\ IsPush(T, i, j)
          BY <4>1, <2>4, <1>5
        <5>2. IsPush(L, i + 1, j)
          BY <5>1, <1>8
        <5>3. i + 1 \in DOMAIN L /\ i + 1 # 1
          BY <5>1, <1>2
        <5> QED
          BY <5>2, <5>3, <2>1, <2>2, <2>4, <2>6, <1>2, <1>10
      <4>2. CASE b # a
        BY <4>2, <2>1, <2>2, <2>3, <2>4, <2>6, <1>2, <1>10
      <4> QED
        BY <4>1, <4>2
    <3>2. state'[j] # "triggered"
      BY <2>6 DEF Leaves
    <3> QED
      BY <3>1, <3>2, <2>5
  <2>7. CASE j \notin J
    <3>1. state'[j] = "triggered" <=> state[j] = "triggered"
      BY <2>7 DEF Leaves
    <3>2. (\E i \in DOMAIN T : IsPush(T, i, j)) <=> (\E i \in DOMAIN L : IsPush(L, i, j))
      <4>1. ASSUME NEW i \in DOMAIN L, IsPush(L, i, j) PROVE \E k \in DOMAIN T : IsPush(T, k, j)
        <5>1. i # 1 /\ i \in 1..n
          BY <4>1, <2>1, <2>7, <1>2
        <5> QED
          BY <5>1, <4>1, <1>5, <1>8, <1>9
      <4>2. ASSUME NEW i \in DOMAIN T, IsPush(T, i, j) PROVE \E k \in DOMAIN L : IsPush(L, k, j)
        <5>1. i \in 1..(n - 1) /\ i + 1 \in 1..n
          BY <1>2, <1>5
        <5> QED
          BY <5>1, <4>2, <1>2, <1>8
      <4> QED
        BY <4>1, <4>2
    <3>3. (\E b \in Actors : \E i \in DOMAIN todo'[b] : IsPush(todo'[b], i, j))
             <=> (\E b \in Actors : \E i \in DOMAIN todo[b] : IsPush(todo[b], i, j))
      BY <3>2, <2>3, <2>4
    <3> QED
      BY <3>1, <3>3, <2>5 DEF TriggeredInv
  <2> QED
    BY <2>6, <2>7
<1>12. TriggeredInv'
  BY <1>11 DEF TriggeredInv, IsPush
<1> QED
  BY <1>7, <1>12

-----------------------------------------------------------------------------
(* The interface. *)

\* An actor is free to call, and its call is counted.
MayCall(a) ==
    /\ a \in Actors /\ todo[a] = <<>>
    /\ a \in Workers => pc[a] = "running"
    /\ a = Client => ~force
    /\ ops' \in [Jobs -> 0..MaxOps]

\* The parts that a call leaves alone.
LEMMA CallLoop ==
  ASSUME Types, LoopInv, NEW a, MayCall(a), NEW L, todo' = [todo EXCEPT ![a] = L],
         UNCHANGED <<stopVars, loopVars>>
  PROVE  LoopInv'
<1>1. \A b \in Actors : b # a => todo'[b] = todo[b]
  BY DEF MayCall, Types
<1>2. UNCHANGED <<pc, got, cur, force>>
  BY DEF stopVars, loopVars
<1>3. Client \in Actors /\ \A w \in Workers : w \in Actors
  BY DEF Actors
<1>4. \A w \in Workers : pc[w] \notin {"running", "events", "stopEvents"} => todo'[w] = <<>>
  BY <1>1, <1>3 DEF MayCall, LoopInv
<1>5. force => todo'[Client] = <<>>
  BY <1>1, <1>3 DEF MayCall, LoopInv
<1> QED
  BY <1>2, <1>4, <1>5 DEF LoopInv

LEMMA SameLoop ==
  ASSUME LoopInv, UNCHANGED <<todo, stopVars, loopVars>> PROVE LoopInv'
  BY DEF LoopInv, stopVars, loopVars

LEMMA SameLists ==
  ASSUME ListInv, UNCHANGED todo PROVE ListInv'
  BY DEF ListInv, ListOK

LEMMA AddEventStep ==
  ASSUME IInv, NEW a, MayCall(a), AddEvent(a)
  PROVE  IInv'
<1>1. PICK s \in Slots : \E j \in Jobs :
          /\ state[j] = "new" /\ handler[s] = None /\ s[1] \in open
          /\ handler' = [handler EXCEPT ![s] = j]
          /\ Mark({j}, "waiting")
  BY DEF AddEvent
<1>2. PICK j \in Jobs : /\ state[j] = "new" /\ handler[s] = None
                        /\ handler' = [handler EXCEPT ![s] = j]
                        /\ Mark({j}, "waiting")
  BY <1>1
<1>3. /\ pending' = pending + 1 /\ todo' = [todo EXCEPT ![a] = Tickle]
      /\ UNCHANGED <<ext, tasks, tokens, readyFds, open, timerVars, stopVars, loopVars>>
  BY DEF AddEvent
<1>4. /\ Types /\ LoopInv /\ ListInv /\ QueuedInv /\ RunningInv /\ WaitingInv /\ TimedInv
      /\ TriggeredInv /\ a \in Actors /\ todo[a] = <<>> /\ ops' \in [Jobs -> 0..MaxOps]
  BY DEF IInv, MayCall
<1>5. Moves({j}, "new", "waiting") /\ state' \in [Jobs -> JobStates]
  BY <1>2, <1>4, MarkMoves DEF JobStates
<1>6. Still("queued") /\ Still("running") /\ Still("timed") /\ Still("triggered")
  BY <1>5, MovesStill
<1>7. WaitingInv' /\ handler' \in [Slots -> Jobs \cup {None}]
  BY <1>2, <1>4, <1>5, SlotSet
<1>8. TriggeredInv' /\ ListInv' /\ todo' \in [Actors -> Seq(Step)]
  <2>1. Enters({}, "triggered")
    BY <1>6, StillBoth
  <2> QED
    BY <2>1, <1>3, <1>4, TickleList, PushAdd
<1>9. QueuedInv' /\ RunningInv' /\ TimedInv'
  BY <1>3, <1>4, <1>6, QueuedStill, RunningStill, TimedStill DEF timerVars, loopVars
<1>10. LoopInv'
  BY <1>3, <1>4, CallLoop
<1>11. Types'
  BY <1>3, <1>4, <1>5, <1>7, <1>8 DEF Types, timerVars, stopVars, loopVars
<1> QED
  BY <1>7, <1>8, <1>9, <1>10, <1>11 DEF IInv

\* delEvent() and cancelEvent(): the handlers of E leave their FdContext.
LEMMA MoveOutStep ==
  ASSUME IInv, NEW a, MayCall(a), NEW fd \in Fds, NEW E \in SUBSET Registered(fd),
         NEW to \in {"deleted", "triggered"}, Mark(JobsAt(fd, E), to), MoveOut(fd, E),
         NEW L, NEW n,
         todo' = [todo EXCEPT ![a] = L],
         IsCall(L, n, IF to = "triggered" THEN JobsAt(fd, E) ELSE {}),
         UNCHANGED <<ext, tasks, tokens, pending, readyFds, open, timerVars, stopVars, loopVars>>
  PROVE  IInv'
<1>1. /\ Types /\ LoopInv /\ ListInv /\ QueuedInv /\ RunningInv /\ WaitingInv /\ TimedInv
      /\ TriggeredInv /\ a \in Actors /\ todo[a] = <<>> /\ ops' \in [Jobs -> 0..MaxOps]
  BY DEF IInv, MayCall
<1> DEFINE J == JobsAt(fd, E)
<1>2. J \subseteq Jobs /\ \A j \in J : state[j] = "waiting"
  BY <1>1, JobsWaiting
<1>3. Moves(J, "waiting", to) /\ state' \in [Jobs -> JobStates]
  BY <1>1, <1>2, MarkMoves DEF JobStates
<1>4. Still("queued") /\ Still("running") /\ Still("timed")
  BY <1>3, MovesStill
<1>5. WaitingInv' /\ handler' \in [Slots -> Jobs \cup {None}]
  BY <1>1, <1>3, SlotMove
<1> HIDE DEF J
<1>6. TriggeredInv' /\ ListInv' /\ todo' \in [Actors -> Seq(Step)]
  <2>1. CASE to = "triggered"
    <3>1. IsCall(L, n, J)
      BY <2>1 DEF J
    <3>2. Enters(J, "triggered")
      BY <2>1, <1>3, MovesBoth
    <3> QED
      BY <3>1, <3>2, <1>1, PushAdd
  <2>2. CASE to = "deleted"
    <3>1. IsCall(L, n, {})
      BY <2>2
    <3>2. Enters({}, "triggered")
      BY <2>2, <1>3, MovesStill, StillBoth
    <3> QED
      BY <3>1, <3>2, <1>1, PushAdd
  <2> QED
    BY <2>1, <2>2
<1>7. QueuedInv' /\ RunningInv' /\ TimedInv'
  BY <1>1, <1>4, QueuedStill, RunningStill, TimedStill DEF timerVars, loopVars
<1>8. LoopInv'
  BY <1>1, CallLoop
<1>9. Types'
  BY <1>1, <1>3, <1>5, <1>6 DEF Types, timerVars, stopVars, loopVars
<1> QED
  BY <1>5, <1>6, <1>7, <1>8, <1>9 DEF IInv

\* The calls of delEvent(), processEvent() and cancelEvent().
LEMMA DelList ==
  ASSUME NEW E \in SUBSET Events, E # {}
  PROVE  IsCall(Subtract(E) \o Tickle, Cardinality(E), {})
<1>1. IsCall(Subtract(E), Cardinality(E), {}) /\ Cardinality(E) \in Nat
  BY CountList
<1>2. {} \cup {} = {} /\ {} \cap {} = {}
  OBVIOUS
<1> QED
  BY <1>1, <1>2, TickleList, ConcatList

LEMMA ProcessList ==
  ASSUME Types, WaitingInv, NEW fd \in Fds, NEW E \in SUBSET Registered(fd), E # {}
  PROVE  IsCall(Subtract(E) \o TriggerCall(fd, E), Cardinality(E), JobsAt(fd, E))
<1> DEFINE J == JobsAt(fd, E)
<1>1. IsCall(Subtract(E), Cardinality(E), {}) /\ Cardinality(E) \in Nat
  <2>1. E \in SUBSET Events
    BY DEF Registered
  <2> QED
    BY <2>1, CountList
<1>2. IsCall(TriggerCall(fd, E), 0, J)
  BY JobsWaiting, TriggerList DEF Types
<1> HIDE DEF J
<1>3. {} \cup J = J /\ {} \cap J = {}
  OBVIOUS
<1>4. IsCall(Subtract(E) \o TriggerCall(fd, E), Cardinality(E), J)
  BY <1>1, <1>2, <1>3, ConcatList
<1> QED
  BY <1>4 DEF J

LEMMA CancelList ==
  ASSUME Types, WaitingInv, NEW fd \in Fds, NEW E \in SUBSET Registered(fd), E # {}
  PROVE  IsCall(Subtract(E) \o TriggerCall(fd, E) \o Tickle, Cardinality(E), JobsAt(fd, E))
<1> DEFINE J == JobsAt(fd, E)
<1>1. Cardinality(E) \in Nat
  <2>1. E \in SUBSET Events
    BY DEF Registered
  <2> QED
    BY <2>1, CountList
<1>2. IsCall(Subtract(E) \o TriggerCall(fd, E), Cardinality(E), J)
  BY ProcessList
<1> HIDE DEF J
<1>3. J \cup {} = J /\ J \cap {} = {}
  OBVIOUS
<1>4. IsCall(Subtract(E) \o TriggerCall(fd, E) \o Tickle, Cardinality(E), J)
  BY <1>1, <1>2, <1>3, TickleList, ConcatList
<1> QED
  BY <1>4 DEF J

LEMMA DelEventStep ==
  ASSUME IInv, NEW a, MayCall(a), DelEvent(a)
  PROVE  IInv'
<1>1. PICK fd \in open : \E E \in (SUBSET Registered(fd)) \ {{}} :
          /\ Mark(JobsAt(fd, E), "deleted")
          /\ MoveOut(fd, E)
          /\ todo' = [todo EXCEPT ![a] = Subtract(E) \o Tickle]
  BY DEF DelEvent
<1>2. PICK E \in (SUBSET Registered(fd)) \ {{}} :
          /\ Mark(JobsAt(fd, E), "deleted")
          /\ MoveOut(fd, E)
          /\ todo' = [todo EXCEPT ![a] = Subtract(E) \o Tickle]
  BY <1>1
<1>3. fd \in Fds /\ E \in SUBSET Registered(fd) /\ E \in SUBSET Events /\ E # {}
  BY DEF IInv, Types, Registered
<1>4. IsCall(Subtract(E) \o Tickle, Cardinality(E), {})
  BY <1>3, DelList
<1>5. UNCHANGED <<ext, tasks, tokens, pending, readyFds, open, timerVars, stopVars, loopVars>>
  BY DEF DelEvent
<1>6. IsCall(Subtract(E) \o Tickle, Cardinality(E),
             IF "deleted" = "triggered" THEN JobsAt(fd, E) ELSE {})
  BY <1>4
<1> QED
  BY <1>2, <1>3, <1>5, <1>6, MoveOutStep

LEMMA CancelEventStep ==
  ASSUME IInv, NEW a, MayCall(a), CancelEvent(a)
  PROVE  IInv'
<1>1. PICK fd \in open : \E E \in (SUBSET Registered(fd)) \ {{}} :
          /\ Mark(JobsAt(fd, E), "triggered")
          /\ MoveOut(fd, E)
          /\ todo' = [todo EXCEPT ![a] = Subtract(E) \o TriggerCall(fd, E) \o Tickle]
  BY DEF CancelEvent
<1>2. PICK E \in (SUBSET Registered(fd)) \ {{}} :
          /\ Mark(JobsAt(fd, E), "triggered")
          /\ MoveOut(fd, E)
          /\ todo' = [todo EXCEPT ![a] = Subtract(E) \o TriggerCall(fd, E) \o Tickle]
  BY <1>1
<1>3. fd \in Fds /\ E \in SUBSET Registered(fd) /\ E \in SUBSET Events /\ E # {}
  BY DEF IInv, Types, Registered
<1>4. IsCall(Subtract(E) \o TriggerCall(fd, E) \o Tickle, Cardinality(E), JobsAt(fd, E))
  BY <1>3, CancelList DEF IInv
<1>5. UNCHANGED <<ext, tasks, tokens, pending, readyFds, open, timerVars, stopVars, loopVars>>
  BY DEF CancelEvent
<1>6. IsCall(Subtract(E) \o TriggerCall(fd, E) \o Tickle, Cardinality(E),
             IF "triggered" = "triggered" THEN JobsAt(fd, E) ELSE {})
  BY <1>4
<1> QED
  BY <1>2, <1>3, <1>5, <1>6, MoveOutStep

LEMMA ScheduleStep ==
  ASSUME IInv, NEW a, MayCall(a), Schedule(a)
  PROVE  IInv'
<1>1. PICK j \in Jobs, p \in {AnyThread} \cup (IF Pinned THEN Workers ELSE {}) :
          /\ state[j] = "new"
          /\ todo' = [todo EXCEPT ![a] = ScheduleCall(j, p)]
          /\ Mark({j}, "triggered")
  BY DEF Schedule
<1>2. UNCHANGED <<ext, tasks, tokens, ioVars, timerVars, stopVars, loopVars>>
  BY DEF Schedule
<1>3. /\ Types /\ LoopInv /\ ListInv /\ QueuedInv /\ RunningInv /\ WaitingInv /\ TimedInv
      /\ TriggeredInv /\ a \in Actors /\ todo[a] = <<>> /\ ops' \in [Jobs -> 0..MaxOps]
  BY DEF IInv, MayCall
<1>4. p \in Workers \cup {AnyThread}
  OBVIOUS
<1>5. Moves({j}, "new", "triggered") /\ state' \in [Jobs -> JobStates]
  BY <1>1, <1>3, MarkOne DEF JobStates
<1>6. Still("queued") /\ Still("running") /\ Still("waiting") /\ Still("timed")
  BY <1>5, MovesStill
<1>7. TriggeredInv' /\ ListInv' /\ todo' \in [Actors -> Seq(Step)]
  <2>1. Enters({j}, "triggered")
    BY <1>5, MovesBoth
  <2>2. IsCall(ScheduleCall(j, p), 0, {j})
    BY <1>4, PushList
  <2> QED
    BY <2>1, <2>2, <1>1, <1>3, PushAdd
<1>8. QueuedInv' /\ RunningInv' /\ TimedInv' /\ WaitingInv'
  BY <1>2, <1>3, <1>6, QueuedStill, RunningStill, TimedStill, WaitingStill
     DEF timerVars, loopVars, ioVars
<1>9. LoopInv'
  BY <1>1, <1>2, <1>3, CallLoop
<1>10. Types'
  BY <1>2, <1>3, <1>5, <1>7 DEF Types, timerVars, stopVars, loopVars, ioVars
<1> QED
  BY <1>7, <1>8, <1>9, <1>10 DEF IInv

LEMMA AddTimerStep ==
  ASSUME IInv, NEW a, MayCall(a), AddTimer(a)
  PROVE  IInv'
<1>1. PICK j \in Jobs : state[j] = "new" /\ timers' = timers \cup {j} /\ Mark({j}, "timed")
  BY DEF AddTimer
<1>2. UNCHANGED <<ext, tasks, tokens, ioVars, due, stopVars, loopVars>>
  BY DEF AddTimer
<1>3. /\ Types /\ LoopInv /\ ListInv /\ QueuedInv /\ RunningInv /\ WaitingInv /\ TimedInv
      /\ TriggeredInv /\ a \in Actors /\ todo[a] = <<>> /\ ops' \in [Jobs -> 0..MaxOps]
  BY DEF IInv, MayCall
<1>4. Moves({j}, "new", "timed") /\ state' \in [Jobs -> JobStates]
  BY <1>1, <1>3, MarkOne DEF JobStates
<1>5. Still("queued") /\ Still("running") /\ Still("waiting") /\ Still("triggered")
  BY <1>4, MovesStill
<1>6. TriggeredInv' /\ ListInv' /\ todo' \in [Actors -> Seq(Step)] /\ LoopInv'
  <2>1. CASE todo' = [todo EXCEPT ![a] = Tickle]
    <3>1. Enters({}, "triggered")
      BY <1>5, StillBoth
    <3>2. TriggeredInv' /\ ListInv' /\ todo' \in [Actors -> Seq(Step)]
      BY <3>1, <2>1, <1>3, TickleList, PushAdd
    <3> QED
      BY <3>2, <2>1, <1>2, <1>3, CallLoop
  <2>2. CASE UNCHANGED todo
    <3>1. TriggeredInv'
      BY <2>2, <1>3, <1>5, TriggeredStill
    <3>2. ListInv'
      BY <2>2, <1>3, SameLists
    <3>3. LoopInv'
      BY <2>2, <1>2, <1>3, SameLoop
    <3> QED
      BY <3>1, <3>2, <3>3, <2>2, <1>3 DEF Types
  <2> QED
    BY <2>1, <2>2 DEF AddTimer
<1>7. QueuedInv' /\ RunningInv' /\ WaitingInv'
  BY <1>2, <1>3, <1>5, QueuedStill, RunningStill, WaitingStill DEF loopVars, ioVars
<1>8. TimedInv'
  BY <1>1, <1>3, <1>4 DEF TimedInv, Moves
<1>9. Types'
  BY <1>1, <1>2, <1>3, <1>4, <1>6 DEF Types, stopVars, loopVars, ioVars
<1> QED
  BY <1>6, <1>7, <1>8, <1>9 DEF IInv

LEMMA CancelTimerStep ==
  ASSUME IInv, NEW a, MayCall(a), CancelTimer(a)
  PROVE  IInv'
<1>1. PICK j \in timers : timers' = timers \ {j} /\ due' = due \ {j} /\ Mark({j}, "deleted")
  BY DEF CancelTimer
<1>2. UNCHANGED <<ext, tasks, tokens, ioVars, todo, stopVars, loopVars>>
  BY DEF CancelTimer
<1>3. /\ Types /\ LoopInv /\ ListInv /\ QueuedInv /\ RunningInv /\ WaitingInv /\ TimedInv
      /\ TriggeredInv /\ ops' \in [Jobs -> 0..MaxOps]
  BY DEF IInv, MayCall
<1>4. j \in Jobs /\ state[j] = "timed"
  BY <1>3 DEF Types, TimedInv
<1>5. Moves({j}, "timed", "deleted") /\ state' \in [Jobs -> JobStates]
  BY <1>1, <1>3, <1>4, MarkMoves DEF JobStates
<1>6. Still("queued") /\ Still("running") /\ Still("waiting") /\ Still("triggered")
  BY <1>5, MovesStill
<1>7. QueuedInv' /\ RunningInv' /\ WaitingInv' /\ TriggeredInv'
  BY <1>2, <1>3, <1>6, QueuedStill, RunningStill, WaitingStill, TriggeredStill
     DEF loopVars, ioVars
<1>8. TimedInv'
  BY <1>1, <1>3, <1>5 DEF TimedInv, Moves
<1>9. LoopInv' /\ ListInv'
  BY <1>2, <1>3, SameLoop, SameLists
<1>10. Types'
  BY <1>1, <1>2, <1>3, <1>5 DEF Types, stopVars, loopVars, ioVars
<1> QED
  BY <1>7, <1>8, <1>9, <1>10 DEF IInv

-----------------------------------------------------------------------------
(* The lists are worked off. *)

LEMMA DoStep ==
  ASSUME IInv, NEW a \in Actors, Do(a)
  PROVE  IInv'
<1> DEFINE L == todo[a]
           s == L[1]
<1>1. /\ Types /\ LoopInv /\ ListInv /\ QueuedInv /\ RunningInv /\ WaitingInv /\ TimedInv
      /\ TriggeredInv
  BY DEF IInv
<1>2. L # <<>> /\ L \in Seq(Step) /\ s \in Step /\ Head(L) = s
  <2>1. L # <<>> /\ L \in Seq(Step)
    BY <1>1 DEF Do, Types
  <2> HIDE DEF L
  <2> QED
    BY <2>1, HeadTailProperties, ElementOfSeq, EmptySeq, LenProperties
<1>3. /\ todo' = [todo EXCEPT ![a] = Tail(@)]
      /\ UNCHANGED <<handler, readyFds, open, timerVars, stopVars, loopVars, ops>>
  BY DEF Do
<1>4. \/ /\ s.op = "sub" /\ pending' = pending - s.n
         /\ UNCHANGED <<tasks, tokens, state, ext>>
      \/ /\ s.op = "push"
         /\ tasks' = Append(tasks, [job |-> s.job, pin |-> s.pin])
         /\ Mark({s.job}, "queued")
         /\ ext' = IF a = Client THEN ext \cup {s.job} ELSE ext
         /\ UNCHANGED <<tokens, pending>>
      \/ /\ s.op = TICKLE
         /\ tokens' = tokens + TickleValue
         /\ UNCHANGED <<tasks, pending, state, ext>>
  BY <1>2 DEF Do
<1>5. /\ s.op = "sub" => s.n \in Nat
      /\ s.op = "push" => s.job \in Jobs /\ [job |-> s.job, pin |-> s.pin] \in Task
  BY <1>2, StepFields
<1>6. LoopInv'
  <2>1. \A b \in Actors : todo[b] = <<>> => todo'[b] = <<>>
    BY <1>1, <1>2, <1>3 DEF Types
  <2>2. Client \in Actors /\ \A w \in Workers : w \in Actors
    BY DEF Actors
  <2> QED
    BY <2>1, <2>2, <1>1, <1>3 DEF LoopInv, stopVars, loopVars
<1>7. TickleValue \in Nat
  BY ConstantsAssumption, FS_CardinalityType DEF TickleValue
<1>8. CASE s.op = "push"
  <2> DEFINE x == [job |-> s.job, pin |-> s.pin]
  <2>1. x \in Task /\ x.job = s.job /\ s.job \in Jobs
    BY <1>5, <1>8
  <2> HIDE DEF x
  <2>2. /\ tasks' = Append(tasks, x) /\ Mark({s.job}, "queued")
        /\ ext' = IF a = Client THEN ext \cup {s.job} ELSE ext
        /\ UNCHANGED <<tokens, pending>>
    BY <1>4, <1>8 DEF x, TICKLE
  <2>3. state[s.job] = "triggered"
    <3>1. 1 \in DOMAIN L
      BY <1>2, StepLists
    <3>2. IsPush(L, 1, s.job)
      BY <3>1, <1>8 DEF IsPush
    <3> QED
      BY <1>1, <2>1, <3>1, <3>2 DEF TriggeredInv
  <2> HIDE DEF L, s
  <2>4. Moves({s.job}, "triggered", "queued") /\ state' \in [Jobs -> JobStates]
    BY <1>1, <2>1, <2>2, <2>3, MarkOne DEF JobStates
  <2>5. Still("running") /\ Still("waiting") /\ Still("timed")
    BY <2>4, MovesStill
  <2>6. QueuedInv' /\ tasks' \in Seq(Task)
    BY <1>1, <2>1, <2>2, <2>4, QueueAppend
  <2>7. TriggeredInv' /\ ListInv' /\ todo' \in [Actors -> Seq(Step)]
    <3>1. Leaves({s.job}, "triggered")
      BY <2>4, MovesBoth
    <3>2. {s.job} = IF todo[a][1].op = "push" THEN {todo[a][1].job} ELSE {}
      BY <1>8 DEF L, s
    <3> QED
      BY <3>1, <3>2, <1>1, <1>2, <1>3, PushTail DEF L
  <2>8. RunningInv' /\ WaitingInv' /\ TimedInv'
    BY <2>5, <1>1, <1>3, RunningStill, WaitingStill, TimedStill DEF loopVars, timerVars
  <2>9. Types'
    BY <1>1, <1>3, <2>1, <2>2, <2>4, <2>6, <2>7 DEF Types, timerVars, stopVars, loopVars
  <2> QED
    BY <1>6, <2>6, <2>7, <2>8, <2>9 DEF IInv
<1>9. CASE s.op # "push"
  <2>1. UNCHANGED <<tasks, state, ext>>
    BY <1>4, <1>9
  <2>2. pending' \in Int /\ tokens' \in Nat
    BY <1>1, <1>4, <1>5, <1>7, <1>9 DEF Types
  <2>3. /\ Still("queued") /\ Still("running") /\ Still("waiting") /\ Still("timed")
        /\ Still("triggered")
    BY <2>1 DEF Still
  <2>4. TriggeredInv' /\ ListInv' /\ todo' \in [Actors -> Seq(Step)]
    <3>1. Leaves({}, "triggered")
      BY <2>3, StillBoth
    <3>2. {} = IF todo[a][1].op = "push" THEN {todo[a][1].job} ELSE {}
      BY <1>9
    <3> QED
      BY <3>1, <3>2, <1>1, <1>2, <1>3, PushTail
  <2>5. QueuedInv' /\ RunningInv' /\ WaitingInv' /\ TimedInv'
    BY <2>1, <2>3, <1>1, <1>3, QueuedStill, RunningStill, WaitingStill, TimedStill
       DEF loopVars, timerVars
  <2>6. Types'
    BY <1>1, <1>3, <2>1, <2>2, <2>4 DEF Types, timerVars, stopVars, loopVars
  <2> QED
    BY <1>6, <2>4, <2>5, <2>6 DEF IInv
<1> QED
  BY <1>8, <1>9

-----------------------------------------------------------------------------
(* run() and idle(). *)

\* A step in which no job, handler, timer or list changes.
LEMMA QuietStep ==
  ASSUME IInv, UNCHANGED <<tasks, state, cur, handler, timers, todo>>, Types', LoopInv'
  PROVE  IInv'
<1>1. /\ Still("queued") /\ Still("running") /\ Still("waiting") /\ Still("timed")
      /\ Still("triggered")
  BY DEF Still
<1> QED
  BY <1>1, QueuedStill, RunningStill, WaitingStill, TimedStill, TriggeredStill, SameLists
     DEF IInv

LEMMA FetchStep ==
  ASSUME IInv, NEW w \in Workers, Fetch(w)
  PROVE  IInv'
<1> DEFINE mine == {i \in DOMAIN tasks : tasks[i].pin \in {AnyThread, w}}
<1>1. /\ Types /\ LoopInv /\ ListInv /\ QueuedInv /\ RunningInv /\ WaitingInv /\ TimedInv
      /\ TriggeredInv
  BY DEF IInv
<1>2. /\ pc[w] = "fetch"
      /\ UNCHANGED <<tokens, ioVars, timerVars, stopVars, ready, got, wait, todo, ops, ext>>
  BY DEF Fetch
<1>3. cur[w] = None /\ todo[w] = <<>> /\ got[w] = {}
  BY <1>1, <1>2 DEF LoopInv
<1>4. CASE mine = {} /\ pc' = [pc EXCEPT ![w] = "timeout"] /\ UNCHANGED <<tasks, cur, state>>
  <2>1. Types'
    BY <1>1, <1>2, <1>4 DEF Types, ioVars, timerVars, stopVars
  <2>2. LoopInv'
    BY <1>1, <1>2, <1>3, <1>4 DEF LoopInv, Types, stopVars
  <2> QED
    BY <2>1, <2>2, <1>2, <1>4, QuietStep DEF ioVars, timerVars
<1>5. CASE \E i \in mine :
             /\ \A k \in mine : i <= k
             /\ cur' = [cur EXCEPT ![w] = tasks[i].job]
             /\ tasks' = RemoveAt(tasks, i)
             /\ Mark({tasks[i].job}, "running")
             /\ pc' = [pc EXCEPT ![w] = "running"]
  <2>1. PICK i \in DOMAIN tasks : /\ cur' = [cur EXCEPT ![w] = tasks[i].job]
                                  /\ tasks' = RemoveAt(tasks, i)
                                  /\ Mark({tasks[i].job}, "running")
                                  /\ pc' = [pc EXCEPT ![w] = "running"]
    BY <1>5
  <2> DEFINE j == tasks[i].job
  <2>2. j \in Jobs
    <3>1. tasks[i] \in Task
      BY <1>1, ElementOfSeq, LenProperties DEF Types
    <3> QED
      BY <3>1 DEF Task
  <2>3. state[j] = "queued"
    BY <1>1, <2>2 DEF QueuedInv
  <2>4. Moves({j}, "queued", "running") /\ state' \in [Jobs -> JobStates]
    BY <1>1, <2>1, <2>2, <2>3, MarkOne DEF JobStates
  <2>5. Still("waiting") /\ Still("timed") /\ Still("triggered")
    BY <2>4, MovesStill
  <2>6. QueuedInv' /\ tasks' \in Seq(Task)
    BY <1>1, <2>1, <2>4, QueueErase
  <2>7. RunningInv'
    BY <1>1, <1>3, <2>1, <2>2, <2>4, RunStart
  <2>8. WaitingInv' /\ TimedInv' /\ TriggeredInv' /\ ListInv'
    BY <1>1, <1>2, <2>5, WaitingStill, TimedStill, TriggeredStill, SameLists
       DEF ioVars, timerVars
  <2> HIDE DEF j
  <2>9. cur' = [cur EXCEPT ![w] = j] /\ j # None
    BY <2>1, <2>2, ConstantsAssumption DEF j
  <2>10. Types'
    BY <1>1, <1>2, <2>1, <2>2, <2>4, <2>6, <2>9 DEF Types, ioVars, timerVars, stopVars
  <2>11. LoopInv'
    BY <1>1, <1>2, <1>3, <2>1, <2>9 DEF LoopInv, Types, stopVars
  <2> QED
    BY <2>6, <2>7, <2>8, <2>10, <2>11 DEF IInv
<1> QED
  BY <1>4, <1>5 DEF Fetch

LEMMA EndJobStep ==
  ASSUME IInv, NEW w \in Workers, EndJob(w)
  PROVE  IInv'
<1>1. /\ Types /\ LoopInv /\ ListInv /\ QueuedInv /\ RunningInv /\ WaitingInv /\ TimedInv
      /\ TriggeredInv
  BY DEF IInv
<1>2. /\ pc[w] = "running" /\ todo[w] = <<>> /\ Mark({cur[w]}, "ended")
      /\ cur' = [cur EXCEPT ![w] = None] /\ pc' = [pc EXCEPT ![w] = "fetch"]
      /\ UNCHANGED <<tasks, tokens, ioVars, timerVars, stopVars, ready, got, wait, todo, ops, ext>>
  BY DEF EndJob
<1>3. cur[w] \in Jobs
  BY <1>1, <1>2 DEF LoopInv, Types
<1>4. state[cur[w]] = "running"
  BY <1>1, <1>3 DEF RunningInv
<1>5. Moves({cur[w]}, "running", "ended") /\ state' \in [Jobs -> JobStates]
  BY <1>1, <1>2, <1>3, <1>4, MarkOne DEF JobStates
<1>6. Still("queued") /\ Still("waiting") /\ Still("timed") /\ Still("triggered")
  BY <1>5, MovesStill
<1>7. RunningInv'
  BY <1>1, <1>2, <1>3, <1>5, RunEnd
<1>8. QueuedInv' /\ WaitingInv' /\ TimedInv' /\ TriggeredInv' /\ ListInv'
  BY <1>1, <1>2, <1>6, QueuedStill, WaitingStill, TimedStill, TriggeredStill, SameLists
     DEF ioVars, timerVars
<1>9. Types'
  BY <1>1, <1>2, <1>5 DEF Types, ioVars, timerVars, stopVars
<1>10. LoopInv'
  BY <1>1, <1>2 DEF LoopInv, Types, stopVars
<1> QED
  BY <1>7, <1>8, <1>9, <1>10 DEF IInv

\* Outside processEvent() and listExpiredCallbacks() an idle worker moves no job.
LEMMA IdleQuietStep ==
  ASSUME IInv, NEW w \in Workers,
         \/ ComputeTimeout(w) \/ EpollWait(w) \/ DrainTickle(w)
         \/ StoppingEvents(w) \/ StoppingTimers(w) \/ StoppingTasks(w)
  PROVE  IInv'
<1>1. Types /\ LoopInv
  BY DEF IInv
<1>2. ASSUME ComputeTimeout(w) PROVE Types' /\ LoopInv'
  <2>1. Types'
    BY <1>1, <1>2 DEF ComputeTimeout, Types, ioVars, timerVars, stopVars, histVars
  <2>2. LoopInv'
    BY <1>1, <1>2 DEF ComputeTimeout, Types, LoopInv, stopVars
  <2> QED
    BY <2>1, <2>2
<1>3. ASSUME EpollWait(w) PROVE Types' /\ LoopInv'
  <2>1. EpollReady \in SUBSET (Slots \cup {TickleTag})
    BY DEF EpollReady
  <2>2. Types'
    BY <1>1, <1>3, <2>1 DEF EpollWait, Types, ioVars, timerVars, stopVars, histVars
  <2>3. LoopInv'
    BY <1>1, <1>3 DEF EpollWait, Types, LoopInv, stopVars
  <2> QED
    BY <2>2, <2>3
<1>4. ASSUME DrainTickle(w) PROVE Types' /\ LoopInv'
  <2>1. Types'
    BY <1>1, <1>4 DEF DrainTickle, TickleReady, Types, ioVars, timerVars, stopVars, histVars
  <2>2. LoopInv'
    BY <1>1, <1>4 DEF DrainTickle, Types, LoopInv, stopVars
  <2> QED
    BY <2>1, <2>2
<1>5. ASSUME NEW yes \in BOOLEAN, NEW next, Proceed(w, yes, next)
      PROVE  \E p \in {next, "fetch", "timeout"} : pc' = [pc EXCEPT ![w] = p]
  BY <1>1, <1>5 DEF Proceed, Types
<1>6. ASSUME StoppingEvents(w) \/ StoppingTimers(w) \/ StoppingTasks(w)
      PROVE  Types' /\ LoopInv'
  <2>1. /\ \E p \in {"stopTimers", "stopTasks", "exited", "fetch", "timeout"} :
                pc' = [pc EXCEPT ![w] = p]
        /\ todo[w] = <<>> /\ pc[w] \in {"stopEvents", "stopTimers", "stopTasks"}
    <3>1. CASE StoppingEvents(w)
      BY <1>5, <3>1 DEF StoppingEvents
    <3>2. CASE StoppingTimers(w)
      BY <1>1, <1>5, <3>2 DEF StoppingTimers, LoopInv
    <3>3. CASE StoppingTasks(w)
      BY <1>1, <1>5, <3>3 DEF StoppingTasks, LoopInv, QueueEmpty
    <3> QED
      BY <1>6, <3>1, <3>2, <3>3
  <2>2. UNCHANGED <<tasks, tokens, ioVars, timerVars, stopVars, ready, got, wait, cur, todo, histVars>>
    BY <1>6 DEF StoppingEvents, StoppingTimers, StoppingTasks
  <2>3. Types'
    BY <1>1, <2>1, <2>2 DEF Types, ioVars, timerVars, stopVars, histVars
  <2>4. LoopInv'
    BY <1>1, <2>1, <2>2 DEF Types, LoopInv, stopVars
  <2> QED
    BY <2>3, <2>4
<1>7. UNCHANGED <<tasks, state, cur, handler, timers, todo>>
  BY DEF ComputeTimeout, EpollWait, DrainTickle, StoppingEvents, StoppingTimers, StoppingTasks,
         ioVars, timerVars, histVars
<1> QED
  BY <1>2, <1>3, <1>4, <1>6, <1>7, QuietStep

LEMMA ProcessEventStep ==
  ASSUME IInv, NEW w \in Workers, ProcessEvent(w)
  PROVE  IInv'
<1>1. /\ Types /\ LoopInv /\ ListInv /\ QueuedInv /\ RunningInv /\ WaitingInv /\ TimedInv
      /\ TriggeredInv /\ w \in Actors
  BY DEF IInv, Actors
<1>2. /\ pc[w] = "events" /\ todo[w] = <<>>
      /\ UNCHANGED <<tasks, tokens, pending, readyFds, open, timerVars, stopVars, pc,
                     wait, cur, ops, ext>>
  BY DEF ProcessEvent
<1>3. PICK fd \in Fds :
          LET rep == {e \in Events : <<fd, e>> \in got[w]}
              E == StillRegistered(fd, rep)
          IN
          /\ got' = [got EXCEPT ![w] = @ \ ({fd} \X Events)]
          /\ IF E = {}
             THEN UNCHANGED <<handler, state, ready, todo>>
             ELSE /\ Mark(JobsAt(fd, E), "triggered")
                  /\ MoveOut(fd, E)
                  /\ todo' = [todo EXCEPT ![w] = Consume(E) \o TriggerCall(fd, E)]
                  /\ ready' = [ready EXCEPT ![w] = TRUE]
  BY DEF ProcessEvent
<1> DEFINE rep == {e \in Events : <<fd, e>> \in got[w]}
           E == StillRegistered(fd, rep)
<1>4. E \in SUBSET Registered(fd) /\ E \in SUBSET Events
  BY DEF StillRegistered, Registered
<1>5. /\ got' = [got EXCEPT ![w] = @ \ ({fd} \X Events)]
      /\ E = {} => UNCHANGED <<handler, state, ready, todo>>
      /\ E # {} => /\ Mark(JobsAt(fd, E), "triggered")
                   /\ MoveOut(fd, E)
                   /\ todo' = [todo EXCEPT ![w] = Consume(E) \o TriggerCall(fd, E)]
                   /\ ready' = [ready EXCEPT ![w] = TRUE]
  BY <1>3
<1> HIDE DEF rep, E
<1>6. \A v \in Workers : got'[v] \subseteq got[v]
  BY <1>1, <1>5 DEF Types
<1>7. got' \in [Workers -> SUBSET (Slots \cup {TickleTag})]
  BY <1>1, <1>5 DEF Types
<1>8. CASE E = {}
  <2>1. Types'
    BY <1>1, <1>2, <1>5, <1>7, <1>8 DEF Types, timerVars, stopVars
  <2>2. LoopInv'
    BY <1>1, <1>2, <1>5, <1>6, <1>8 DEF LoopInv, stopVars
  <2> QED
    BY <2>1, <2>2, <1>2, <1>5, <1>8, QuietStep DEF timerVars
<1>9. CASE E # {}
  <2> DEFINE J == JobsAt(fd, E)
             L == Consume(E) \o TriggerCall(fd, E)
  <2>1. J \subseteq Jobs /\ \A j \in J : state[j] = "waiting"
    BY <1>1, <1>4, JobsWaiting
  <2>2. Moves(J, "waiting", "triggered") /\ state' \in [Jobs -> JobStates]
    BY <1>1, <1>5, <1>9, <2>1, MarkMoves DEF JobStates
  <2>3. Still("queued") /\ Still("running") /\ Still("timed")
    BY <2>2, MovesStill
  <2>4. WaitingInv' /\ handler' \in [Slots -> Jobs \cup {None}]
    BY <1>1, <1>4, <1>5, <1>9, <2>2, SlotMove
  <2>5. IsCall(L, Cardinality(E), J)
    BY <1>1, <1>4, <1>9, ProcessList DEF Consume
  <2>6. todo' = [todo EXCEPT ![w] = L]
    BY <1>5, <1>9
  <2> HIDE DEF J, L
  <2>7. TriggeredInv' /\ ListInv' /\ todo' \in [Actors -> Seq(Step)]
    BY <1>1, <1>2, <2>2, <2>5, <2>6, MovesBoth, PushAdd
  <2>8. QueuedInv' /\ RunningInv' /\ TimedInv'
    BY <1>1, <1>2, <2>3, QueuedStill, RunningStill, TimedStill DEF timerVars
  <2>9. LoopInv'
    <3>1. \A b \in Actors : b # w => todo'[b] = todo[b]
      BY <1>1, <2>6 DEF Types
    <3>2. Client \in Actors /\ Client # w /\ \A v \in Workers : v \in Actors
      BY ConstantsAssumption DEF Actors
    <3> QED
      BY <3>1, <3>2, <1>1, <1>2, <1>6 DEF LoopInv, stopVars
  <2>10. ready' \in [Workers -> BOOLEAN]
    BY <1>1, <1>5, <1>9 DEF Types
  <2>11. Types'
    BY <1>1, <1>2, <1>7, <2>2, <2>4, <2>7, <2>10 DEF Types, timerVars, stopVars
  <2> QED
    BY <2>4, <2>7, <2>8, <2>9, <2>11 DEF IInv
<1> QED
  BY <1>8, <1>9

LEMMA ListExpiredStep ==
  ASSUME IInv, NEW w \in Workers, ListExpired(w)
  PROVE  IInv'
<1>1. /\ Types /\ LoopInv /\ ListInv /\ QueuedInv /\ RunningInv /\ WaitingInv /\ TimedInv
      /\ TriggeredInv /\ w \in Actors
  BY DEF IInv, Actors
<1> DEFINE L == ScheduleCalls(SetToSeq(due))
<1>2. /\ pc[w] = "events" /\ todo[w] = <<>> /\ got[w] = {}
      /\ timers' = timers \ due /\ due' = {} /\ Mark(due, "triggered")
      /\ todo' = [todo EXCEPT ![w] = L]
      /\ ready' = [ready EXCEPT ![w] = @ \/ due # {}]
      /\ pc' = [pc EXCEPT ![w] = "stopEvents"]
      /\ UNCHANGED <<tasks, tokens, ioVars, stopVars, got, wait, cur, ops, ext>>
  BY DEF ListExpired
<1>3. due \subseteq Jobs /\ \A j \in due : state[j] = "timed"
  BY <1>1 DEF Types, TimedInv
<1>4. Moves(due, "timed", "triggered") /\ state' \in [Jobs -> JobStates]
  BY <1>1, <1>2, <1>3, MarkMoves DEF JobStates
<1>5. Still("queued") /\ Still("running") /\ Still("waiting")
  BY <1>4, MovesStill
<1>6. IsCall(L, 0, due)
  BY <1>3, ExpiredList
<1> HIDE DEF L
<1>7. TriggeredInv' /\ ListInv' /\ todo' \in [Actors -> Seq(Step)]
  BY <1>1, <1>2, <1>4, <1>6, MovesBoth, PushAdd
<1>8. QueuedInv' /\ RunningInv' /\ WaitingInv'
  BY <1>1, <1>2, <1>5, QueuedStill, RunningStill, WaitingStill DEF ioVars
<1>9. TimedInv'
  BY <1>1, <1>2, <1>4 DEF TimedInv, Moves
<1>10. LoopInv'
  <2>1. \A b \in Actors : b # w => todo'[b] = todo[b]
    BY <1>1, <1>2 DEF Types
  <2>2. Client \in Actors /\ Client # w /\ \A v \in Workers : v \in Actors
    BY ConstantsAssumption DEF Actors
  <2>3. cur[w] = None
    BY <1>1, <1>2 DEF LoopInv
  <2>4. \A v \in Workers : pc'[v] = IF v = w THEN "stopEvents" ELSE pc[v]
    BY <1>1, <1>2 DEF Types
  <2> QED
    BY <2>1, <2>2, <2>3, <2>4, <1>1, <1>2 DEF LoopInv, stopVars
<1>11. ready' \in [Workers -> BOOLEAN] /\ timers' \subseteq Jobs
  BY <1>1, <1>2 DEF Types
<1>12. Types'
  BY <1>1, <1>2, <1>4, <1>7, <1>11 DEF Types, ioVars, stopVars
<1> QED
  BY <1>7, <1>8, <1>9, <1>10, <1>12 DEF IInv

-----------------------------------------------------------------------------
(* Stopping, and the outside world. *)

LEMMA StopBeginStep ==
  ASSUME IInv, StopBegin
  PROVE  IInv'
<1>1. Types /\ LoopInv
  BY DEF IInv
<1>2. /\ force' \in BOOLEAN /\ (force' => todo[Client] = <<>>)
      /\ stopping' = TRUE /\ stopPc' = "tickle"
      /\ UNCHANGED <<tasks, tokens, ioVars, timerVars, loopVars, todo, histVars>>
  BY ConstantsAssumption DEF StopBegin
<1>3. Types'
  BY <1>1, <1>2 DEF Types, ioVars, timerVars, loopVars, histVars
<1>4. LoopInv'
  BY <1>1, <1>2 DEF LoopInv, loopVars
<1> QED
  BY <1>2, <1>3, <1>4, QuietStep DEF ioVars, timerVars, loopVars, histVars

LEMMA OutsideStep ==
  ASSUME IInv, StopTickle \/ FdReady \/ TimePasses \/ CloseFd \/ UNCHANGED vars
  PROVE  IInv'
<1>1. Types /\ LoopInv
  BY DEF IInv
<1>2. /\ UNCHANGED <<tasks, handler, pending, timers, stopping, force, loopVars, todo, histVars>>
      /\ UNCHANGED open \/ \E fd \in open : open' = open \ {fd}
  BY DEF StopTickle, FdReady, TimePasses, CloseFd, vars, ioVars, timerVars, stopVars
<1>3. tokens' \in Nat
  <2>1. TickleValue \in Nat
    BY ConstantsAssumption, FS_CardinalityType DEF TickleValue
  <2> QED
    BY <1>1, <2>1 DEF StopTickle, FdReady, TimePasses, CloseFd, vars, Types
<1>4. readyFds' \subseteq Fds \X (Events \cup {HUP})
  <2>1. CASE FdReady
    <3>1. PICK fd \in open : \E e \in Registered(fd) \cup {HUP} : readyFds' = readyFds \cup {<<fd, e>>}
      BY <2>1 DEF FdReady
    <3>2. PICK e \in Registered(fd) \cup {HUP} : readyFds' = readyFds \cup {<<fd, e>>}
      BY <3>1
    <3> QED
      BY <3>2, <1>1 DEF Types, Registered
  <2>2. CASE ~FdReady
    BY <1>1, <2>2 DEF StopTickle, TimePasses, CloseFd, vars, ioVars, Types
  <2> QED
    BY <2>1, <2>2
<1>5. due' \subseteq timers
  BY <1>1 DEF StopTickle, FdReady, TimePasses, CloseFd, vars, timerVars, Types
<1>6. stopPc' \in {"no", "tickle", "join", "done"}
  BY <1>1 DEF StopTickle, FdReady, TimePasses, CloseFd, vars, stopVars, Types
<1>7. Types'
  BY <1>1, <1>2, <1>3, <1>4, <1>5, <1>6 DEF Types, loopVars, histVars
<1>8. LoopInv'
  BY <1>1, <1>2 DEF LoopInv, loopVars
<1> QED
  BY <1>2, <1>7, <1>8, QuietStep DEF loopVars, histVars

LEMMA StopJoinStep ==
  ASSUME IInv, StopJoin
  PROVE  IInv'
<1>1. /\ Types /\ LoopInv /\ ListInv /\ QueuedInv /\ RunningInv /\ WaitingInv /\ TimedInv
      /\ TriggeredInv
  BY DEF IInv
<1>2. stopPc' = "done"
      /\ UNCHANGED <<tasks, tokens, readyFds, open, stopping, force, loopVars, todo, ops, ext>>
  BY DEF StopJoin
<1>3. LoopInv'
  BY <1>1, <1>2 DEF LoopInv, loopVars
<1>4. CASE force
  <2>1. /\ Mark({j \in Jobs : state[j] \in {"waiting", "timed"}}, "deleted")
        /\ handler' = [s \in Slots |-> None] /\ pending' = 0 /\ timers' = {} /\ due' = {}
    BY <1>4 DEF StopJoin
  <2>2. \A j \in Jobs : state'[j] = IF state[j] \in {"waiting", "timed"} THEN "deleted" ELSE state[j]
    BY <2>1 DEF Mark
  <2>3. state' \in [Jobs -> JobStates]
    BY <1>1, <2>1 DEF Mark, Types, JobStates
  <2>4. Still("queued") /\ Still("running") /\ Still("triggered")
    BY <2>2 DEF Still
  <2>5. QueuedInv' /\ RunningInv' /\ TriggeredInv' /\ ListInv'
    BY <2>4, <1>1, <1>2, QueuedStill, RunningStill, TriggeredStill, SameLists DEF loopVars
  <2>6. \A j \in Jobs : state'[j] # "waiting" /\ state'[j] # "timed"
    BY <2>2
  <2>7. WaitingInv' /\ TimedInv'
    BY <2>1, <2>6, ConstantsAssumption DEF WaitingInv, TimedInv
  <2>8. Types'
    BY <1>1, <1>2, <2>1, <2>3 DEF Types, loopVars
  <2> QED
    BY <1>3, <2>5, <2>7, <2>8 DEF IInv
<1>5. CASE ~force
  <2>1. UNCHANGED <<state, handler, pending, timerVars>>
    BY <1>5 DEF StopJoin
  <2>2. Types'
    BY <1>1, <1>2, <2>1 DEF Types, loopVars, timerVars
  <2> QED
    BY <1>2, <1>3, <2>1, <2>2, QuietStep DEF loopVars, timerVars
<1> QED
  BY <1>4, <1>5

-----------------------------------------------------------------------------
(* All the steps. *)

\* The call of an actor that is in no other call.
Called(a) ==
    /\ MayCall(a)
    /\ AddEvent(a) \/ DelEvent(a) \/ CancelEvent(a) \/ Schedule(a) \/ AddTimer(a) \/ CancelTimer(a)

LEMMA Calls ==
  ASSUME IInv, ClientCall \/ (\E w \in Workers : BodyCall(w))
  PROVE  \E a \in Actors : Called(a)
<1>1. CASE ClientCall
  <2>1. MayCall(Client)
    BY <1>1, ConstantsAssumption DEF ClientCall, MayCall, Actors, IInv, Types
  <2> QED
    BY <1>1, <2>1 DEF ClientCall, Called, MayCall
<1>2. CASE \E w \in Workers : BodyCall(w)
  <2>1. PICK w \in Workers : BodyCall(w)
    BY <1>2
  <2>2. cur[w] \in Jobs
    BY <2>1 DEF BodyCall, IInv, LoopInv, Types
  <2>3. ops' \in [Jobs -> 0..MaxOps]
    BY <2>1, <2>2, ConstantsAssumption DEF BodyCall, IInv, Types
  <2>4. MayCall(w)
    BY <2>1, <2>3, ConstantsAssumption DEF BodyCall, MayCall, Actors
  <2> QED
    BY <2>1, <2>4 DEF BodyCall, Called, MayCall
<1> QED
  BY <1>1, <1>2

LEMMA InitInv == Init => IInv
<1> SUFFICES ASSUME Init PROVE IInv
  OBVIOUS
<1>1. Types
  <2>1. tasks \in Seq(Task) /\ todo \in [Actors -> Seq(Step)]
    BY EmptySeq DEF Init
  <2>2. ops \in [Jobs -> 0..MaxOps] /\ state \in [Jobs -> JobStates]
    BY ConstantsAssumption DEF Init, JobStates
  <2>3. handler \in [Slots -> Jobs \cup {None}] /\ cur \in [Workers -> Jobs \cup {None}]
    BY DEF Init
  <2>4. /\ got \in [Workers -> SUBSET (Slots \cup {TickleTag})]
        /\ wait \in [Workers -> SUBSET Jobs] /\ ready \in [Workers -> BOOLEAN]
    BY DEF Init
  <2>5. pc \in [Workers -> {"fetch", "running", "timeout", "epoll", "events",
                            "stopEvents", "stopTimers", "stopTasks", "exited"}]
    BY DEF Init
  <2>6. /\ tokens \in Nat /\ pending \in Int /\ due \subseteq timers /\ timers \subseteq Jobs
        /\ open \subseteq Fds /\ ext \subseteq Jobs
    BY DEF Init
  <2>7. readyFds \subseteq Fds \X (Events \cup {HUP})
    <3>1. readyFds = {}
      BY DEF Init
    <3> QED
      BY <3>1
  <2>8. stopping \in BOOLEAN /\ force \in BOOLEAN /\ stopPc \in {"no", "tickle", "join", "done"}
    BY DEF Init
  <2> QED
    BY <2>1, <2>2, <2>3, <2>4, <2>5, <2>6, <2>7, <2>8 DEF Types
<1>2. LoopInv /\ ListInv
  BY EmptySeq DEF Init, LoopInv, ListInv, ListOK, Actors
<1>3. QueuedInv /\ RunningInv /\ WaitingInv /\ TimedInv /\ TriggeredInv
  BY EmptySeq, ConstantsAssumption
     DEF Init, QueuedInv, RunningInv, WaitingInv, TimedInv, TriggeredInv, IsPush
<1> QED
  BY <1>1, <1>2, <1>3 DEF IInv

LEMMA NextInv == IInv /\ [Next]_vars => IInv'
<1> SUFFICES ASSUME IInv, [Next]_vars PROVE IInv'
  OBVIOUS
<1>1. ASSUME NEW a \in Actors, Called(a) PROVE IInv'
  BY <1>1, AddEventStep, DelEventStep, CancelEventStep, ScheduleStep, AddTimerStep,
     CancelTimerStep DEF Called
<1>2. CASE ClientCall \/ \E w \in Workers : BodyCall(w)
  BY <1>1, <1>2, Calls
<1>3. ASSUME NEW w \in Workers, Idle(w) PROVE IInv'
  BY <1>3, IdleQuietStep, ProcessEventStep, ListExpiredStep DEF Idle
<1> QED
  BY <1>2, <1>3, DoStep, FetchStep, EndJobStep, StopBeginStep, StopJoinStep, OutsideStep
     DEF Next, Stop, Terminated

LEMMA IInvAlways == Spec => []IInv
  BY InitInv, NextInv, PTL DEF Spec

-----------------------------------------------------------------------------
(* Workers leave with the queue empty. *)

\* ~IOManager() is a stop, too.
ForceInv == force => stopping

\* A worker that leaves has just seen an empty queue, and is in no call any more.
LEMMA LeftStep ==
  ASSUME IInv, ForceInv, NothingLeftByWorkers, [Next]_vars
  PROVE  ForceInv' /\ NothingLeftByWorkers'
<1>1. Types /\ LoopInv
  BY DEF IInv
<1>2. ASSUME UNCHANGED <<tasks, ext, pc>>, UNCHANGED <<stopping, force>> \/ StopBegin
      PROVE  ForceInv' /\ NothingLeftByWorkers'
  <2>1. (~force' => ~force) /\ (force' => stopping')
    <3>1. CASE UNCHANGED <<stopping, force>>
      BY <3>1 DEF ForceInv
    <3>2. CASE StopBegin
      BY <3>2 DEF ForceInv, StopBegin
    <3> QED
      BY <1>2, <3>1, <3>2
  <2>2. UNCHANGED tasks /\ UNCHANGED ext /\ UNCHANGED pc
    BY <1>2
  <2> QED
    BY <2>1, <2>2 DEF ForceInv, NothingLeftByWorkers, AllExited
<1>3. ASSUME NEW a \in Actors, Called(a) PROVE ForceInv' /\ NothingLeftByWorkers'
  <2>1. UNCHANGED <<tasks, ext, pc, stopping, force>>
    BY <1>3 DEF Called, AddEvent, DelEvent, CancelEvent, Schedule, AddTimer, CancelTimer,
                loopVars, stopVars
  <2> QED
    BY <1>2, <2>1
<1>4. ASSUME NEW a \in Actors, Do(a) PROVE ForceInv' /\ NothingLeftByWorkers'
  <2>1. UNCHANGED <<stopping, force, pc>>
    BY <1>4 DEF Do, stopVars, loopVars
  <2>2. CASE UNCHANGED <<tasks, ext>>
    BY <1>2, <2>1, <2>2
  <2>3. CASE ~UNCHANGED <<tasks, ext>>
    <3>1. PICK s : /\ tasks' = Append(tasks, [job |-> s.job, pin |-> s.pin])
                   /\ ext' = IF a = Client THEN ext \cup {s.job} ELSE ext
      BY <1>4, <2>3 DEF Do
    <3>2. AllExited => a = Client
      <4>1. todo[a] # <<>>
        BY <1>4 DEF Do
      <4> QED
        BY <4>1, <1>1 DEF AllExited, LoopInv, Actors
    <3>3. tasks \in Seq(Task)
      BY <1>1 DEF Types
    <3> DEFINE x == [job |-> s.job, pin |-> s.pin]
               n == Len(tasks)
    <3>4. x.job = s.job
      OBVIOUS
    <3> HIDE DEF x
    <3>5. /\ DOMAIN tasks = 1..n /\ n \in Nat /\ DOMAIN tasks' = 1..(n + 1)
          /\ (\A i \in 1..n : tasks'[i] = tasks[i]) /\ tasks'[n + 1] = x
      BY <3>1, <3>3, LenProperties DEF x
    <3> HIDE DEF n
    <3>6. \A i \in DOMAIN tasks' : i \in DOMAIN tasks \/ i = n + 1
      BY <3>5
    <3>7. ASSUME AllExited, ~force PROVE \A i \in DOMAIN tasks' : tasks'[i].job \in ext'
      <4>1. \A i \in DOMAIN tasks : tasks[i].job \in ext
        BY <3>7 DEF NothingLeftByWorkers
      <4> QED
        BY <4>1, <3>1, <3>2, <3>4, <3>5, <3>6, <3>7
    <3> QED
      BY <2>1, <3>7 DEF ForceInv, NothingLeftByWorkers, AllExited
  <2> QED
    BY <2>2, <2>3
\* A worker that takes or ends a job, or goes on waiting, has not left.
<1>5. ASSUME NEW w \in Workers, NEW p, p # "exited", pc' = [pc EXCEPT ![w] = p],
             UNCHANGED <<stopping, force>>
      PROVE  ForceInv' /\ NothingLeftByWorkers'
  <2>1. pc'[w] # "exited"
    BY <1>1, <1>5 DEF Types
  <2> QED
    BY <1>5, <2>1 DEF ForceInv, NothingLeftByWorkers, AllExited
<1>6. ASSUME NEW w \in Workers, Fetch(w) \/ EndJob(w) PROVE ForceInv' /\ NothingLeftByWorkers'
  <2>1. \E p \in {"timeout", "running", "fetch"} : pc' = [pc EXCEPT ![w] = p]
    BY <1>6 DEF Fetch, EndJob
  <2> QED
    BY <1>5, <1>6, <2>1 DEF Fetch, EndJob, stopVars
<1>7. ASSUME NEW w \in Workers, ComputeTimeout(w) \/ EpollWait(w) \/ ListExpired(w)
      PROVE  ForceInv' /\ NothingLeftByWorkers'
  <2>1. \E p \in {"epoll", "events", "stopEvents"} : pc' = [pc EXCEPT ![w] = p]
    BY <1>7 DEF ComputeTimeout, EpollWait, ListExpired
  <2> QED
    BY <1>5, <1>7, <2>1 DEF ComputeTimeout, EpollWait, ListExpired, stopVars
<1>8. ASSUME NEW w \in Workers, DrainTickle(w) \/ ProcessEvent(w)
      PROVE  ForceInv' /\ NothingLeftByWorkers'
  BY <1>2, <1>8 DEF DrainTickle, ProcessEvent, stopVars, histVars
<1>9. ASSUME NEW w \in Workers, StoppingEvents(w) \/ StoppingTimers(w)
      PROVE  ForceInv' /\ NothingLeftByWorkers'
  <2>1. UNCHANGED <<tasks, stopping, force, ext>>
    BY <1>9 DEF StoppingEvents, StoppingTimers, stopVars, histVars
  <2>2. force \/ \E p \in {"stopTimers", "stopTasks", "fetch", "timeout"} : pc' = [pc EXCEPT ![w] = p]
    BY <1>1, <1>9 DEF StoppingEvents, StoppingTimers, Proceed, Types
  <2>3. CASE force
    BY <2>1, <2>3 DEF ForceInv, NothingLeftByWorkers
  <2> QED
    BY <1>5, <2>1, <2>2, <2>3
<1>10. ASSUME NEW w \in Workers, StoppingTasks(w) PROVE ForceInv' /\ NothingLeftByWorkers'
  <2>1. UNCHANGED <<tasks, stopping, force, ext>>
    BY <1>10 DEF StoppingTasks, stopVars, histVars
  <2>2. CASE tasks = <<>>
    <3>1. DOMAIN tasks' = {}
      BY <2>1, <2>2
    <3> QED
      BY <2>1, <3>1 DEF ForceInv, NothingLeftByWorkers
  <2>3. CASE tasks # <<>>
    <3>1. \E p \in {"fetch", "timeout"} : pc' = [pc EXCEPT ![w] = p]
      BY <1>1, <1>10, <2>3 DEF StoppingTasks, Proceed, QueueEmpty, Types
    <3> QED
      BY <1>5, <2>1, <3>1
  <2> QED
    BY <2>2, <2>3
<1>11. ASSUME StopBegin \/ StopTickle \/ StopJoin \/ FdReady \/ TimePasses \/ CloseFd
              \/ UNCHANGED vars
       PROVE  ForceInv' /\ NothingLeftByWorkers'
  BY <1>2, <1>11 DEF StopBegin, StopTickle, StopJoin, FdReady, TimePasses, CloseFd, vars,
                     stopVars, loopVars, histVars
<1> QED
  BY <1>3, <1>4, <1>6, <1>7, <1>8, <1>9, <1>10, <1>11, Calls DEF Next, Stop, Terminated, Idle

\* Whatever a worker queued is run before the last worker leaves run(): the
\* tasks that may be left when idle() has ended in every thread are those the
\* client scheduled from outside.
THEOREM WorkersFinishTheirWork == Spec => []NothingLeftByWorkers
<1>1. Init => ForceInv /\ NothingLeftByWorkers
  BY DEF Init, ForceInv, NothingLeftByWorkers
<1>2. IInv /\ (ForceInv /\ NothingLeftByWorkers) /\ [Next]_vars => (ForceInv /\ NothingLeftByWorkers)'
  BY LeftStep
<1> QED
  BY <1>1, <1>2, IInvAlways, PTL DEF Spec

-----------------------------------------------------------------------------
(* Queued work is seen. *)

AnyTask == \E i \in DOMAIN tasks : tasks[i].pin = AnyThread

\* An actor is about to call tickle().
WillTickle == \E a \in Actors : \E i \in DOMAIN todo[a] : todo[a][i].op = TICKLE

\* A call starts with an empty list, so no announced tickle() gets lost.
LEMMA TickleKept ==
  ASSUME Types, NEW a \in Actors, todo[a] = <<>>, WillTickle,
         \A b \in Actors : b # a => todo'[b] = todo[b]
  PROVE  WillTickle'
<1>1. PICK b \in Actors : \E i \in DOMAIN todo[b] : todo[b][i].op = TICKLE
  BY DEF WillTickle
<1>2. b # a
  BY <1>1, EmptySeq
<1>3. \E i \in DOMAIN todo'[b] : todo'[b][i].op = TICKLE
  BY <1>1, <1>2
<1> QED
  BY <1>3 DEF WillTickle

\* A step of a call that is not the tickle() itself leaves it to be done.
LEMMA TickleStays ==
  ASSUME Types, NEW a \in Actors, todo[a] # <<>>, todo' = [todo EXCEPT ![a] = Tail(@)],
         todo[a][1].op # TICKLE, WillTickle
  PROVE  WillTickle'
<1> DEFINE L == todo[a]
           n == Len(L)
<1>1. L \in Seq(Step) /\ L # <<>>
  BY DEF Types
<1>2. n \in Nat /\ DOMAIN L = 1..n /\ n > 0
  BY <1>1, LenProperties, EmptySeq
<1>3. /\ DOMAIN Tail(L) = 1..(n - 1) /\ \A i \in 1..(n - 1) : Tail(L)[i] = L[i + 1]
  BY <1>1, HeadTailProperties, LenProperties
<1>4. todo'[a] = Tail(L) /\ \A b \in Actors : b # a => todo'[b] = todo[b]
  BY DEF Types
<1>5. PICK b \in Actors : \E i \in DOMAIN todo[b] : todo[b][i].op = TICKLE
  BY DEF WillTickle
<1>6. CASE b # a
  BY <1>4, <1>5, <1>6 DEF WillTickle
<1>7. CASE b = a
  <2>1. PICK i \in 1..n : L[i].op = TICKLE
    BY <1>2, <1>5, <1>7
  <2>2. i # 1
    BY <2>1
  <2>3. i - 1 \in 1..(n - 1) /\ (i - 1) + 1 = i
    BY <1>2, <2>2
  <2>4. i - 1 \in DOMAIN todo'[a] /\ todo'[a][i - 1].op = TICKLE
    BY <1>3, <1>4, <2>1, <2>3
  <2> QED
    BY <2>4 DEF WillTickle
<1> QED
  BY <1>6, <1>7

\* A step that neither queues nor moves a worker nor drops a tickle().
LEMMA SeenStill ==
  ASSUME ForceInv, WorkIsSeen, UNCHANGED <<tasks, pc, ready, got>>,
         ~force' => ~force, tokens > 0 => tokens' > 0, WillTickle => WillTickle'
  PROVE  WorkIsSeen'
<1>1. UNCHANGED tasks /\ UNCHANGED pc /\ UNCHANGED ready /\ UNCHANGED got
  OBVIOUS
<1>2. CASE AnyTask /\ ~force'
  <2>1. tokens > 0 \/ WillTickle \/ \E w \in Workers : WillFetch(w)
    BY <1>2 DEF WorkIsSeen, AnyTask, WillTickle
  <2>2. \A w \in Workers : WillFetch(w) => WillFetch(w)'
    BY <1>1 DEF WillFetch
  <2>3. tokens' > 0 \/ WillTickle' \/ \E w \in Workers : WillFetch(w)'
    BY <2>1, <2>2
  <2> QED
    BY <2>3 DEF WorkIsSeen, WillTickle
<1>3. CASE ~(AnyTask /\ ~force')
  BY <1>1, <1>3 DEF WorkIsSeen, AnyTask
<1> QED
  BY <1>2, <1>3

\* A step of a worker that does not take it off its way to getNextTask().
LEMMA SeenIdle ==
  ASSUME Types, ForceInv, WorkIsSeen, NEW w \in Workers, UNCHANGED <<tasks, force>>,
         \/ tokens > 0 => tokens' > 0
         \/ WillFetch(w)',
         \A v \in Workers : v # w => pc'[v] = pc[v] /\ ready'[v] = ready[v] /\ got'[v] = got[v],
         WillFetch(w) => WillFetch(w)' \/ ~AnyTask \/ force,
         WillTickle => WillTickle'
  PROVE  WorkIsSeen'
<1>1. UNCHANGED tasks /\ UNCHANGED force
  OBVIOUS
<1>2. CASE AnyTask /\ ~force
  <2>1. tokens > 0 \/ WillTickle \/ \E v \in Workers : WillFetch(v)
    BY <1>2 DEF WorkIsSeen, AnyTask, WillTickle
  <2>2. \A v \in Workers : v # w /\ WillFetch(v) => WillFetch(v)'
    BY DEF WillFetch
  <2>3. tokens' > 0 \/ WillTickle' \/ \E v \in Workers : WillFetch(v)'
    BY <1>2, <2>1, <2>2
  <2> QED
    BY <2>3 DEF WorkIsSeen, WillTickle
<1>3. CASE ~(AnyTask /\ ~force)
  BY <1>1, <1>3 DEF WorkIsSeen, AnyTask
<1> QED
  BY <1>2, <1>3

LEMMA SeenDo ==
  ASSUME IInv, ForceInv, WorkIsSeen, NEW a \in Actors, Do(a)
  PROVE  WorkIsSeen'
<1> DEFINE L == todo[a]
           s == L[1]
<1>1. Types /\ ListInv
  BY DEF IInv
<1>2. L # <<>> /\ L \in Seq(Step) /\ Head(L) = s /\ 1 \in DOMAIN L
  <2>1. L # <<>> /\ L \in Seq(Step)
    BY <1>1 DEF Do, Types
  <2> HIDE DEF L
  <2> QED
    BY <2>1, HeadTailProperties, EmptySeq, LenProperties
<1>3. /\ todo' = [todo EXCEPT ![a] = Tail(@)]
      /\ UNCHANGED <<pc, ready, got, force>>
  BY DEF Do, loopVars, stopVars
<1>4. \/ s.op = "sub" /\ UNCHANGED <<tasks, tokens>>
      \/ s.op = "push" /\ UNCHANGED tokens
      \/ s.op = TICKLE /\ tokens' = tokens + TickleValue
  BY <1>2 DEF Do
<1>5. CASE s.op = TICKLE
  <2>1. TickleValue \in Nat /\ TickleValue > 0
    <3>1. Cardinality(Workers) \in Nat /\ Cardinality(Workers) > 0
      BY ConstantsAssumption, FS_CardinalityType, FS_EmptySet
    <3> QED
      BY <3>1 DEF TickleValue
  <2>2. tokens' > 0
    BY <1>1, <1>4, <1>5, <2>1 DEF Types, TICKLE
  <2> QED
    BY <2>2 DEF WorkIsSeen
<1>6. CASE s.op = "push"
  <2>1. 2 \in DOMAIN L /\ L[2].op = TICKLE
    <3>1. 1 + 1 \in DOMAIN L /\ L[1 + 1].op = TICKLE
      BY <1>1, <1>2, <1>6 DEF ListInv, ListOK
    <3> QED
      BY <3>1
  <2>2. WillTickle
    BY <2>1 DEF WillTickle
  <2>3. WillTickle'
    BY <1>1, <1>2, <1>3, <1>6, <2>2, TickleStays DEF TICKLE
  <2> QED
    BY <2>3 DEF WillTickle, WorkIsSeen
<1>7. CASE s.op = "sub"
  <2>1. UNCHANGED <<tasks, tokens>>
    BY <1>4, <1>7 DEF TICKLE
  <2>2. WillTickle => WillTickle'
    BY <1>1, <1>2, <1>3, <1>7, TickleStays DEF TICKLE
  <2> QED
    BY <1>3, <2>1, <2>2, SeenStill
<1> QED
  BY <1>4, <1>5, <1>6, <1>7

LEMMA SeenStep ==
  ASSUME IInv, ForceInv, WorkIsSeen, [Next]_vars
  PROVE  WorkIsSeen'
<1>1. Types /\ LoopInv
  BY DEF IInv
<1>2. ASSUME NEW a \in Actors, Called(a) PROVE WorkIsSeen'
  <2>1. UNCHANGED <<tasks, tokens, pc, ready, got, force>>
    BY <1>2 DEF Called, AddEvent, DelEvent, CancelEvent, Schedule, AddTimer, CancelTimer,
                loopVars, stopVars
  <2>2. \A b \in Actors : b # a => todo'[b] = todo[b]
    BY <1>1, <1>2
       DEF Called, AddEvent, DelEvent, CancelEvent, Schedule, AddTimer, CancelTimer, Types
  <2>3. todo[a] = <<>>
    BY <1>2 DEF Called, MayCall
  <2>4. WillTickle => WillTickle'
    BY <1>1, <2>2, <2>3, TickleKept
  <2> QED
    BY <2>1, <2>4, SeenStill
<1>3. ASSUME NEW w \in Workers, Fetch(w) \/ EndJob(w) PROVE WorkIsSeen'
  <2>1. CASE pc' = [pc EXCEPT ![w] = "fetch"] \/ pc' = [pc EXCEPT ![w] = "running"]
    <3>1. WillFetch(w)'
      BY <1>1, <2>1 DEF WillFetch, Types
    <3> QED
      BY <3>1 DEF WorkIsSeen
  <2>2. CASE UNCHANGED tasks /\ {i \in DOMAIN tasks : tasks[i].pin \in {AnyThread, w}} = {}
    BY <2>2 DEF WorkIsSeen
  <2> QED
    BY <1>3, <2>1, <2>2 DEF Fetch, EndJob
<1>4. ASSUME NEW w \in Workers, ComputeTimeout(w) \/ EpollWait(w) PROVE WorkIsSeen'
  <2>1. UNCHANGED <<tasks, force>> /\ UNCHANGED tokens /\ UNCHANGED todo
    BY <1>4 DEF ComputeTimeout, EpollWait, stopVars
  <2>2. ~WillFetch(w)
    BY <1>4 DEF ComputeTimeout, EpollWait, WillFetch
  <2>3. \A v \in Workers : v # w => pc'[v] = pc[v] /\ ready'[v] = ready[v] /\ got'[v] = got[v]
    BY <1>1, <1>4 DEF ComputeTimeout, EpollWait, Types
  <2>4. WillTickle => WillTickle'
    BY <2>1 DEF WillTickle
  <2> QED
    BY <1>1, <2>1, <2>2, <2>3, <2>4, SeenIdle
<1>5. ASSUME NEW w \in Workers, DrainTickle(w) PROVE WorkIsSeen'
  <2>1. pc'[w] = "events" /\ ready'[w] = TRUE
    BY <1>1, <1>5 DEF DrainTickle, TickleReady, Types
  <2>2. WillFetch(w)'
    BY <2>1 DEF WillFetch
  <2> QED
    BY <2>2 DEF WorkIsSeen
<1>6. ASSUME NEW w \in Workers, ProcessEvent(w) PROVE WorkIsSeen'
  <2>1. UNCHANGED <<tasks, force>> /\ UNCHANGED tokens /\ UNCHANGED pc /\ todo[w] = <<>>
        /\ pc[w] = "events"
    BY <1>6 DEF ProcessEvent, stopVars
  <2>2. PICK fd \in Fds :
            /\ got' = [got EXCEPT ![w] = @ \ ({fd} \X Events)]
            /\ UNCHANGED <<ready, todo>> \/ (ready' = [ready EXCEPT ![w] = TRUE]
                                             /\ \E L : todo' = [todo EXCEPT ![w] = L])
    BY <1>6 DEF ProcessEvent
  <2>3. \A v \in Workers : v # w => ready'[v] = ready[v] /\ got'[v] = got[v]
    BY <1>1, <2>2 DEF Types
  <2>4. TickleTag \in got[w] => TickleTag \in got'[w]
    <3>1. TickleTag \notin {fd} \X Events
      BY ConstantsAssumption DEF TickleTag
    <3> QED
      BY <1>1, <2>2, <3>1 DEF Types
  <2>5. ready[w] => ready'[w]
    BY <1>1, <2>2 DEF Types
  <2>6. WillFetch(w) => WillFetch(w)'
    BY <2>1, <2>4, <2>5 DEF WillFetch
  <2>7. w \in Actors /\ \A b \in Actors : b # w => todo'[b] = todo[b]
    BY <1>1, <2>2 DEF Types, Actors
  <2>8. WillTickle => WillTickle'
    BY <1>1, <2>1, <2>7, TickleKept
  <2> QED
    BY <1>1, <2>1, <2>3, <2>6, <2>8, SeenIdle
<1>7. ASSUME NEW w \in Workers, ListExpired(w) PROVE WorkIsSeen'
  <2>1. UNCHANGED <<tasks, force>> /\ UNCHANGED tokens /\ UNCHANGED got /\ todo[w] = <<>>
        /\ got[w] = {} /\ pc[w] = "events"
    BY <1>7 DEF ListExpired, stopVars
  <2>2. /\ ready' = [ready EXCEPT ![w] = @ \/ due # {}]
        /\ pc' = [pc EXCEPT ![w] = "stopEvents"]
        /\ \E L : todo' = [todo EXCEPT ![w] = L]
    BY <1>7 DEF ListExpired
  <2>3. \A v \in Workers : v # w => pc'[v] = pc[v] /\ ready'[v] = ready[v]
    BY <1>1, <2>2 DEF Types
  <2>4. pc'[w] = "stopEvents" /\ (ready[w] => ready'[w])
    BY <1>1, <2>2 DEF Types
  <2>5. WillFetch(w) => WillFetch(w)'
    BY <2>1, <2>4 DEF WillFetch
  <2>6. w \in Actors /\ \A b \in Actors : b # w => todo'[b] = todo[b]
    BY <1>1, <2>2 DEF Types, Actors
  <2>7. WillTickle => WillTickle'
    BY <1>1, <2>1, <2>6, TickleKept
  <2> QED
    BY <1>1, <2>1, <2>3, <2>5, <2>7, SeenIdle
<1>8. ASSUME NEW w \in Workers, StoppingEvents(w) \/ StoppingTimers(w) \/ StoppingTasks(w)
      PROVE  WorkIsSeen'
  <2>1. UNCHANGED <<tasks, force>> /\ UNCHANGED tokens /\ UNCHANGED got /\ UNCHANGED ready
        /\ UNCHANGED todo
    BY <1>8 DEF StoppingEvents, StoppingTimers, StoppingTasks, stopVars
  <2>2. pc[w] \in {"stopEvents", "stopTimers", "stopTasks"} /\ got[w] = {}
    BY <1>1, <1>8 DEF StoppingEvents, StoppingTimers, StoppingTasks, LoopInv
  <2>3. \A v \in Workers : v # w => pc'[v] = pc[v]
    BY <1>1, <1>8 DEF StoppingEvents, StoppingTimers, StoppingTasks, Proceed, Types
  <2>4. ready[w] => force \/ tasks = <<>> \/ pc'[w] \in {"stopTimers", "stopTasks", "fetch"}
    BY <1>1, <1>8 DEF StoppingEvents, StoppingTimers, StoppingTasks, Proceed, QueueEmpty, Types
  <2>5. tasks = <<>> => ~AnyTask
    BY EmptySeq DEF AnyTask
  <2>6. WillFetch(w) => WillFetch(w)' \/ ~AnyTask \/ force
    BY <2>1, <2>2, <2>4, <2>5 DEF WillFetch
  <2>7. WillTickle => WillTickle'
    BY <2>1 DEF WillTickle
  <2> QED
    BY <1>1, <2>1, <2>3, <2>6, <2>7, SeenIdle
<1>9. ASSUME StopBegin \/ StopTickle \/ StopJoin \/ FdReady \/ TimePasses \/ CloseFd
             \/ UNCHANGED vars
      PROVE  WorkIsSeen'
  <2>1. UNCHANGED <<tasks, pc, ready, got>> /\ UNCHANGED todo
    BY <1>9 DEF StopBegin, StopTickle, StopJoin, FdReady, TimePasses, CloseFd, vars, loopVars
  <2>2. ~force' => ~force
    BY <1>9
       DEF StopBegin, StopTickle, StopJoin, FdReady, TimePasses, CloseFd, vars, stopVars, ForceInv
  <2>3. tokens > 0 => tokens' > 0
    <3>1. TickleValue \in Nat
      BY ConstantsAssumption, FS_CardinalityType DEF TickleValue
    <3>2. UNCHANGED tokens \/ tokens' = tokens + TickleValue
      BY <1>9 DEF StopBegin, StopTickle, StopJoin, FdReady, TimePasses, CloseFd, vars
    <3>3. tokens \in Nat
      BY <1>1 DEF Types
    <3> QED
      BY <3>1, <3>2, <3>3
  <2>4. WillTickle => WillTickle'
    BY <2>1 DEF WillTickle
  <2> QED
    BY <2>1, <2>2, <2>3, <2>4, SeenStill
<1> QED
  BY <1>2, <1>3, <1>4, <1>5, <1>6, <1>7, <1>8, <1>9, SeenDo, Calls DEF Next, Stop, Terminated, Idle

\* A task that any thread may run is never forgotten in the queue while all the
\* workers sleep: schedule() has left a token in the eventfd or is about to
\* write one, or a worker is on its way to getNextTask().
THEOREM WorkIsAlwaysSeen == Spec => []WorkIsSeen
<1>1. Init => ForceInv /\ NothingLeftByWorkers /\ WorkIsSeen
  BY EmptySeq DEF Init, ForceInv, NothingLeftByWorkers, WorkIsSeen
<1>2. IInv /\ (ForceInv /\ NothingLeftByWorkers /\ WorkIsSeen) /\ [Next]_vars
         => (ForceInv /\ NothingLeftByWorkers /\ WorkIsSeen)'
  BY LeftStep, SeenStep
<1> QED
  BY <1>1, <1>2, IInvAlways, PTL DEF Spec

-----------------------------------------------------------------------------
(* Every handler is in one place. *)

LEMMA AtMostOne ==
  ASSUME NEW S, \A x, y \in S : x = y
  PROVE  Cardinality(S) = IF S = {} THEN 0 ELSE 1
<1>1. CASE S = {}
  BY <1>1, FS_EmptySet
<1>2. CASE S # {}
  <2>1. PICK x \in S : TRUE
    BY <1>2
  <2>2. S = {x}
    BY <2>1
  <2> QED
    BY <2>2, <1>2, FS_Singleton
<1> QED
  BY <1>1, <1>2

LEMMA OnePlace == IInv => DeliveredOnce
<1> SUFFICES ASSUME IInv, NEW j \in Jobs
             PROVE  Places(j) = IF state[j] \in {"new", "ended", "deleted"} THEN 0 ELSE 1
  BY DEF DeliveredOnce
<1> DEFINE Q == {i \in DOMAIN tasks : tasks[i].job = j}
           R == {w \in Workers : cur[w] = j}
           H == {s \in Slots : handler[s] = j}
           T == {j} \cap timers
           P == UNION {{a} \X Pushes(a, j) : a \in Actors}
<1>1. Cardinality(Q) = IF state[j] = "queued" THEN 1 ELSE 0
  <2>1. (\A x, y \in Q : x = y) /\ (Q = {} <=> state[j] # "queued")
    BY DEF IInv, QueuedInv
  <2> HIDE DEF Q
  <2> QED
    BY <2>1, AtMostOne
<1>2. Cardinality(R) = IF state[j] = "running" THEN 1 ELSE 0
  <2>1. (\A x, y \in R : x = y) /\ (R = {} <=> state[j] # "running")
    BY DEF IInv, RunningInv
  <2> HIDE DEF R
  <2> QED
    BY <2>1, AtMostOne
<1>3. Cardinality(H) = IF state[j] = "waiting" THEN 1 ELSE 0
  <2>1. (\A x, y \in H : x = y) /\ (H = {} <=> state[j] # "waiting")
    BY DEF IInv, WaitingInv
  <2> HIDE DEF H
  <2> QED
    BY <2>1, AtMostOne
<1>4. Cardinality(T) = IF state[j] = "timed" THEN 1 ELSE 0
  <2>1. (\A x, y \in T : x = y) /\ (T = {} <=> state[j] # "timed")
    BY DEF IInv, TimedInv
  <2> HIDE DEF T
  <2> QED
    BY <2>1, AtMostOne
<1>5. Cardinality(P) = IF state[j] = "triggered" THEN 1 ELSE 0
  <2>1. \A a \in Actors : \A i : i \in Pushes(a, j) <=> i \in DOMAIN todo[a] /\ IsPush(todo[a], i, j)
    BY DEF Pushes, IsPush
  <2>2. \A x \in P : \E a \in Actors : \E i \in Pushes(a, j) : x = <<a, i>>
    OBVIOUS
  <2>3. \A a \in Actors : \A i \in Pushes(a, j) : <<a, i>> \in P
    OBVIOUS
  <2> HIDE DEF P
  <2>4. ASSUME NEW x \in P, NEW y \in P PROVE x = y
    <3>1. PICK a \in Actors : \E i \in Pushes(a, j) : x = <<a, i>>
      BY <2>2
    <3>2. PICK i \in Pushes(a, j) : x = <<a, i>>
      BY <3>1
    <3>3. PICK b \in Actors : \E k \in Pushes(b, j) : y = <<b, k>>
      BY <2>2
    <3>4. PICK k \in Pushes(b, j) : y = <<b, k>>
      BY <3>3
    <3>5. a = b /\ i = k
      BY <2>1 DEF IInv, TriggeredInv
    <3> QED
      BY <3>2, <3>4, <3>5
  <2>5. P = {} <=> state[j] # "triggered"
    <3>1. state[j] = "triggered" <=> \E a \in Actors : \E i \in Pushes(a, j) : TRUE
      BY <2>1 DEF IInv, TriggeredInv
    <3> QED
      BY <3>1, <2>2, <2>3
  <2> QED
    BY <2>4, <2>5, AtMostOne
<1>6. Places(j) = Cardinality(Q) + Cardinality(R) + Cardinality(H) + Cardinality(T) + Cardinality(P)
  BY DEF Places
<1>7. state[j] \in {"new", "waiting", "timed", "triggered", "queued", "running", "ended", "deleted"}
  BY DEF IInv, Types, JobStates
<1> HIDE DEF Q, R, H, T, P
<1> QED
  BY <1>1, <1>2, <1>3, <1>4, <1>5, <1>6, <1>7

\* A handler, timer callback or task is in exactly one place from its
\* registration until it has run or was deleted, so an event that fires while
\* it is cancelled, deleted or reported to two workers is delivered once or not
\* at all.
THEOREM HandlersAreDeliveredOnce == Spec => []DeliveredOnce
  BY IInvAlways, OnePlace, PTL

-----------------------------------------------------------------------------
(* The count of pending events. *)

\* What list L still counts down, and the events that the lists of T do.
Left(L) == IF L # <<>> /\ L[1].op = "sub" THEN L[1].n ELSE 0

Flying(T, a) ==
    UNION {{<<a, i>>} \X (1..T[a][i].n) : i \in {i \in DOMAIN T[a] : T[a][i].op = "sub"}}

AllFlying(T) == UNION {Flying(T, a) : a \in Actors}

LEMMA LeftCall ==
  ASSUME NEW L, NEW n \in Nat, NEW J, IsCall(L, n, J)
  PROVE  Left(L) = n
<1>1. L \in Seq(Step)
  BY DEF IsCall
<1>2. L # <<>> => 1 \in DOMAIN L
  BY <1>1, StepLists, LenProperties
<1> QED
  BY <1>2 DEF IsCall, Left

\* The events an actor has in flight are those of the first step of its list.
LEMMA FlyingOne ==
  ASSUME NEW T \in [Actors -> Seq(Step)], NEW a \in Actors, ListOK(T[a])
  PROVE  /\ Flying(T, a) = {<<a, 1>>} \X (1..Left(T[a])) /\ Left(T[a]) \in 0..2
         /\ IsFiniteSet(Flying(T, a)) /\ Cardinality(Flying(T, a)) = Left(T[a])
<1> DEFINE L == T[a]
           S == {i \in DOMAIN L : L[i].op = "sub"}
<1>1. L \in Seq(Step) /\ (L # <<>> <=> 1 \in DOMAIN L) /\ \A i \in DOMAIN L : L[i] \in Step
  BY StepLists, LenProperties
<1>2. Left(L) \in 0..2
  <2>1. CASE L # <<>> /\ L[1].op = "sub"
    <3>1. L[1] \in Step
      BY <1>1, <2>1
    <3>2. L[1].n \in 1..2
      BY <2>1, <3>1, StepFields
    <3> QED
      BY <2>1, <3>2 DEF Left
  <2>2. CASE ~(L # <<>> /\ L[1].op = "sub")
    BY <2>2 DEF Left
  <2> QED
    BY <2>1, <2>2
<1>3. Flying(T, a) = {<<a, 1>>} \X (1..Left(L))
  <2>1. CASE L # <<>> /\ L[1].op = "sub"
    <3>1. S = {1}
      BY <1>1, <2>1 DEF ListOK
    <3>2. Flying(T, a) = UNION {{<<a, i>>} \X (1..L[i].n) : i \in S}
      BY DEF Flying
    <3>3. Left(L) = L[1].n
      BY <2>1 DEF Left
    <3> HIDE DEF S, L
    <3>4. {{<<a, i>>} \X (1..L[i].n) : i \in S} = {{<<a, 1>>} \X (1..L[1].n)}
      BY <3>1
    <3> DEFINE A == {<<a, 1>>} \X (1..L[1].n)
    <3> HIDE DEF A
    <3>5. UNION {A} = A
      OBVIOUS
    <3> QED
      BY <3>2, <3>3, <3>4, <3>5 DEF A
  <2>2. CASE ~(L # <<>> /\ L[1].op = "sub")
    <3>1. S = {}
      BY <1>1, <2>2 DEF ListOK
    <3>2. Flying(T, a) = UNION {{<<a, i>>} \X (1..L[i].n) : i \in S}
      BY DEF Flying
    <3>3. Left(L) = 0
      BY <2>2 DEF Left
    <3> HIDE DEF S, L
    <3>4. 1..Left(L) = {}
      BY <3>3
    <3> QED
      BY <3>1, <3>2, <3>4
  <2> QED
    BY <2>1, <2>2
<1>4. IsFiniteSet({<<a, 1>>}) /\ Cardinality({<<a, 1>>}) = 1
  BY FS_Singleton
<1> HIDE DEF L
<1>5. IsFiniteSet(1..Left(L)) /\ Cardinality(1..Left(L)) = Left(L)
  BY <1>2, FS_Interval
<1>6. /\ IsFiniteSet({<<a, 1>>} \X (1..Left(L)))
      /\ Cardinality({<<a, 1>>} \X (1..Left(L))) = 1 * Left(L)
  <2> DEFINE A == {<<a, 1>>}
             B == 1..Left(L)
  <2>1. IsFiniteSet(A) /\ Cardinality(A) = 1 /\ IsFiniteSet(B) /\ Cardinality(B) = Left(L)
    BY <1>4, <1>5
  <2> HIDE DEF A, B
  <2>2. IsFiniteSet(A \X B) /\ Cardinality(A \X B) = 1 * Left(L)
    BY <2>1, FS_Product
  <2> QED
    BY <2>2 DEF A, B
<1> QED
  BY <1>2, <1>3, <1>6 DEF L

\* The events in flight, with those of one actor apart.
LEMMA FlyingSplit ==
  ASSUME NEW T \in [Actors -> Seq(Step)], \A b \in Actors : ListOK(T[b]), NEW a \in Actors
  PROVE  LET R == UNION {Flying(T, b) : b \in Actors \ {a}}
         IN  /\ Cardinality(R) \in Nat /\ Left(T[a]) \in Nat
             /\ Cardinality(AllFlying(T)) = Left(T[a]) + Cardinality(R)
<1> DEFINE R == UNION {Flying(T, b) : b \in Actors \ {a}}
<1>1. \A b \in Actors : Flying(T, b) = {<<b, 1>>} \X (1..Left(T[b])) /\ Left(T[b]) \in 0..2
  BY FlyingOne
<1>2. AllFlying(T) = Flying(T, a) \cup R
  BY DEF AllFlying
<1>3. Flying(T, a) \cap R = {}
  <2> SUFFICES ASSUME NEW x \in Flying(T, a), NEW b \in Actors \ {a}, x \in Flying(T, b)
               PROVE  FALSE
    OBVIOUS
  <2>1. x[1] = <<a, 1>> /\ x[1] = <<b, 1>>
    BY <1>1
  <2> QED
    BY <2>1
<1>4. IsFiniteSet(R)
  <2>1. IsFiniteSet(Actors)
    BY ConstantsAssumption, FS_AddElement DEF Actors
  <2>2. IsFiniteSet({1}) /\ IsFiniteSet(1..2)
    <3>1. IsFiniteSet({1})
      BY FS_Singleton
    <3>2. 1 \in Int /\ 2 \in Int
      OBVIOUS
    <3> QED
      BY <3>1, <3>2, FS_Interval
  <2>3. IsFiniteSet((Actors \X {1}) \X (1..2))
    BY <2>1, <2>2, FS_Product
  <2>4. R \subseteq (Actors \X {1}) \X (1..2)
    <3> SUFFICES ASSUME NEW b \in Actors, NEW x \in Flying(T, b)
                 PROVE  x \in (Actors \X {1}) \X (1..2)
      OBVIOUS
    <3>1. x \in {<<b, 1>>} \X (1..Left(T[b])) /\ Left(T[b]) \in 0..2
      BY <1>1
    <3>2. 1..Left(T[b]) \subseteq 1..2
      BY <3>1
    <3> QED
      BY <3>1, <3>2
  <2> QED
    BY <2>3, <2>4, FS_Subset
<1>5. IsFiniteSet(Flying(T, a)) /\ Cardinality(Flying(T, a)) = Left(T[a]) /\ Left(T[a]) \in Nat
  BY FlyingOne
<1> HIDE DEF R
<1>6. Cardinality(AllFlying(T)) = Cardinality(Flying(T, a)) + Cardinality(R) - 0
  BY <1>2, <1>3, <1>4, <1>5, FS_Union, FS_EmptySet
<1>7. Cardinality(R) \in Nat
  BY <1>4, FS_CardinalityType
<1> QED
  BY <1>5, <1>6, <1>7 DEF R

\* One actor's list changes.
LEMMA FlyingChange ==
  ASSUME NEW T \in [Actors -> Seq(Step)], \A b \in Actors : ListOK(T[b]),
         NEW V \in [Actors -> Seq(Step)], \A b \in Actors : ListOK(V[b]),
         NEW a \in Actors, \A b \in Actors : b # a => V[b] = T[b]
  PROVE  /\ Cardinality(AllFlying(T)) \in Nat /\ Cardinality(AllFlying(V)) \in Nat
         /\ Left(T[a]) \in Nat /\ Left(V[a]) \in Nat
         /\ Cardinality(AllFlying(V)) + Left(T[a]) = Cardinality(AllFlying(T)) + Left(V[a])
<1> DEFINE R == UNION {Flying(T, b) : b \in Actors \ {a}}
           Q == UNION {Flying(V, b) : b \in Actors \ {a}}
<1>1. \A b \in Actors \ {a} : Flying(T, b) = Flying(V, b)
  BY DEF Flying
<1>2. R = Q
  BY <1>1
<1>3. /\ Cardinality(R) \in Nat /\ Left(T[a]) \in Nat
      /\ Cardinality(AllFlying(T)) = Left(T[a]) + Cardinality(R)
  BY FlyingSplit
<1>4. /\ Left(V[a]) \in Nat
      /\ Cardinality(AllFlying(V)) = Left(V[a]) + Cardinality(Q)
  BY FlyingSplit
<1> HIDE DEF R, Q
<1> QED
  BY <1>2, <1>3, <1>4

\* The events a handler is registered for.
Taken(h) == {s \in Slots : h[s] # None}

\* PendingExact, in terms of the lists.
LEMMA Exact ==
  PendingExact <=> pending = Cardinality(Taken(handler)) + Cardinality(AllFlying(todo))
<1>1. \A a \in Actors : InFlight(a) = Flying(todo, a)
  BY DEF InFlight, Flying
<1>2. UNION {InFlight(a) : a \in Actors} = AllFlying(todo)
  BY <1>1 DEF AllFlying
<1> QED
  BY <1>2 DEF PendingExact, Taken

LEMMA ExactNext ==
  PendingExact' <=> pending' = Cardinality(Taken(handler')) + Cardinality(AllFlying(todo'))
<1>1. \A a \in Actors : InFlight(a)' = Flying(todo', a)
  BY DEF InFlight, Flying
<1>2. UNION {InFlight(a)' : a \in Actors} = AllFlying(todo')
  BY <1>1 DEF AllFlying
<1> QED
  BY <1>2 DEF PendingExact, Taken

LEMMA TakenFinite ==
  ASSUME NEW h
  PROVE  IsFiniteSet(Taken(h)) /\ Cardinality(Taken(h)) \in Nat
<1>1. IsFiniteSet(Events)
  <2>1. Events \in SUBSET Events /\ Events # {}
    BY DEF Events
  <2> QED
    BY <2>1, CountList
<1>2. IsFiniteSet(Slots)
  BY <1>1, ConstantsAssumption, FS_Product DEF Slots
<1>3. Taken(h) \subseteq Slots
  BY DEF Taken
<1>4. IsFiniteSet(Taken(h))
  BY <1>2, <1>3, FS_Subset
<1> QED
  BY <1>4, FS_CardinalityType

LEMMA TakenMove ==
  ASSUME Types, NEW fd \in Fds, NEW E \in SUBSET Registered(fd), E # {}, MoveOut(fd, E)
  PROVE  Cardinality(Taken(handler)) = Cardinality(Taken(handler')) + Cardinality(E)
<1> DEFINE S == Taken(handler)
           D == {fd} \X E
<1>1. IsFiniteSet(E) /\ Cardinality(E) \in Nat
  <2>1. E \in SUBSET Events
    BY DEF Registered
  <2> QED
    BY <2>1, CountList
<1>2. Cardinality(D) = Cardinality(E)
  <2>1. IsFiniteSet({fd}) /\ Cardinality({fd}) = 1
    BY FS_Singleton
  <2>2. Cardinality(D) = 1 * Cardinality(E)
    BY <1>1, <2>1, FS_Product
  <2> QED
    BY <1>1, <2>2
<1>3. D \subseteq S
  BY DEF Registered, Taken, Slots
<1>4. Taken(handler') = S \ D
  <2>1. \A s \in Slots : s \in D <=> s[1] = fd /\ s[2] \in E
    BY DEF Slots
  <2>2. \A s \in Slots : handler'[s] = IF s \in D THEN None ELSE handler[s]
    BY <2>1 DEF MoveOut
  <2> HIDE DEF D
  <2> QED
    BY <2>2 DEF Taken
<1>5. IsFiniteSet(S) /\ Cardinality(S) \in Nat /\ S \cap D = D
  BY <1>3, TakenFinite
<1> HIDE DEF S, D
<1>6. Cardinality(S \ D) = Cardinality(S) - Cardinality(D)
  BY <1>5, FS_Difference, ZenonT(40)
<1>7. Cardinality(S) = Cardinality(S \ D) + Cardinality(E)
  BY <1>1, <1>2, <1>5, <1>6
<1> QED
  BY <1>4, <1>7 DEF S

LEMMA LeftTail ==
  ASSUME NEW L \in Seq(Step), ListOK(L), L # <<>>
  PROVE  Left(Tail(L)) = 0
<1>1. Len(L) \in Nat /\ Len(L) > 0 /\ DOMAIN L = 1..Len(L)
  BY LenProperties, EmptySeq
<1>2. CASE Tail(L) = <<>>
  BY <1>2 DEF Left
<1>3. CASE Tail(L) # <<>>
  <2>1. Tail(L) \in Seq(Step) /\ Len(Tail(L)) = Len(L) - 1 /\ \A i \in 1..(Len(L) - 1) : Tail(L)[i] = L[i + 1]
    BY HeadTailProperties
  <2>2. Len(L) > 1
    BY <1>1, <1>3, <2>1, EmptySeq
  <2>3. 1 \in 1..(Len(L) - 1) /\ 1 + 1 \in DOMAIN L /\ 1 + 1 # 1
    BY <1>1, <2>2
  <2>4. Tail(L)[1] = L[1 + 1] /\ L[1 + 1].op # "sub"
    BY <2>1, <2>3 DEF ListOK
  <2> QED
    BY <2>4 DEF Left
<1> QED
  BY <1>2, <1>3

\* One actor's list, the handlers and the count change together.
LEMMA CountChange ==
  ASSUME IInv, IInv', PendingExact, NEW a \in Actors, \A b \in Actors : b # a => todo'[b] = todo[b],
         pending' + Cardinality(Taken(handler)) + Left(todo[a])
            = pending + Cardinality(Taken(handler')) + Left(todo'[a])
  PROVE  PendingExact'
<1> DEFINE c == Cardinality(Taken(handler))
           d == Cardinality(Taken(handler'))
           f == Cardinality(AllFlying(todo))
           g == Cardinality(AllFlying(todo'))
           l == Left(todo[a])
           m == Left(todo'[a])
<1>1. todo \in [Actors -> Seq(Step)] /\ \A b \in Actors : ListOK(todo[b])
  BY DEF IInv, Types, ListInv
<1>2. todo' \in [Actors -> Seq(Step)] /\ \A b \in Actors : ListOK(todo'[b])
  BY DEF IInv, Types, ListInv, ListOK
<1>3. f \in Nat /\ g \in Nat /\ l \in Nat /\ m \in Nat /\ g + l = f + m
  BY <1>1, <1>2, FlyingChange
<1>4. c \in Nat /\ d \in Nat
  BY TakenFinite
<1>5. pending \in Int /\ pending' \in Int
  BY DEF IInv, Types
<1>6. pending = c + f /\ pending' + c + l = pending + d + m
  BY Exact
<1> HIDE DEF c, d, f, g, l, m
<1>7. pending' = d + g
  <2>1. ASSUME NEW p \in Int, NEW q \in Int, p = c + f, q + c + l = p + d + m PROVE q = d + g
    BY <1>3, <1>4, <2>1
  <2> QED
    BY <1>5, <1>6, <2>1
<1> QED
  BY <1>7, ExactNext DEF d, g

\* No list, handler or count changes.
LEMMA CountStill ==
  ASSUME PendingExact, UNCHANGED <<pending, handler, todo>>
  PROVE  PendingExact'
<1>1. UNCHANGED pending /\ UNCHANGED handler /\ UNCHANGED todo
  OBVIOUS
<1>2. pending = Cardinality(Taken(handler)) + Cardinality(AllFlying(todo))
  BY Exact
<1>3. pending' = Cardinality(Taken(handler')) + Cardinality(AllFlying(todo'))
  BY <1>1, <1>2
<1> QED
  BY <1>3, ExactNext

\* A call without a count begins.
LEMMA CountList0 ==
  ASSUME IInv, IInv', PendingExact, NEW a \in Actors, todo[a] = <<>>, NEW L, NEW J, IsCall(L, 0, J),
         todo' = [todo EXCEPT ![a] = L], UNCHANGED <<pending, handler>>
  PROVE  PendingExact'
<1>1. todo'[a] = L /\ \A b \in Actors : b # a => todo'[b] = todo[b]
  BY DEF IInv, Types
<1>2. Left(todo[a]) = 0 /\ Left(todo'[a]) = 0
  BY <1>1, LeftCall DEF Left
<1>3. UNCHANGED pending /\ UNCHANGED handler
  OBVIOUS
<1>4. pending' + Cardinality(Taken(handler)) + Left(todo[a])
         = pending + Cardinality(Taken(handler')) + Left(todo'[a])
  BY <1>2, <1>3
<1> QED
  BY <1>1, <1>4, CountChange

\* Handlers are moved out, to be counted down later.
LEMMA CountMove ==
  ASSUME IInv, IInv', PendingExact, NEW a \in Actors, todo[a] = <<>>, NEW L, NEW J,
         NEW fd \in Fds, NEW E \in SUBSET Registered(fd), E # {}, MoveOut(fd, E),
         IsCall(L, Cardinality(E), J), todo' = [todo EXCEPT ![a] = L], UNCHANGED pending
  PROVE  PendingExact'
<1>1. todo'[a] = L /\ \A b \in Actors : b # a => todo'[b] = todo[b]
  BY DEF IInv, Types
<1>2. Cardinality(E) \in Nat
  <2>1. E \in SUBSET Events
    BY DEF Registered
  <2> QED
    BY <2>1, CountList
<1>3. Left(todo[a]) = 0 /\ Left(todo'[a]) = Cardinality(E)
  BY <1>1, <1>2, LeftCall DEF Left
<1>4. Cardinality(Taken(handler)) = Cardinality(Taken(handler')) + Cardinality(E)
  BY TakenMove DEF IInv
<1>5. pending \in Int /\ Cardinality(Taken(handler')) \in Nat
  BY TakenFinite DEF IInv, Types
<1> DEFINE d == Cardinality(Taken(handler'))
           e == Cardinality(E)
<1> HIDE DEF d, e
<1>6. pending' + Cardinality(Taken(handler)) + Left(todo[a])
         = pending + Cardinality(Taken(handler')) + Left(todo'[a])
  <2>1. pending + (d + e) + 0 = pending + d + e
    BY <1>2, <1>5 DEF d, e
  <2> QED
    BY <2>1, <1>3, <1>4 DEF d, e
<1> QED
  BY <1>1, <1>6, CountChange

LEMMA CountAdd ==
  ASSUME IInv, IInv', PendingExact, NEW a \in Actors, todo[a] = <<>>, AddEvent(a)
  PROVE  PendingExact'
<1>1. PICK s \in Slots : handler[s] = None /\ \E j \in Jobs : handler' = [handler EXCEPT ![s] = j]
  BY DEF AddEvent
<1>2. PICK j \in Jobs : handler' = [handler EXCEPT ![s] = j]
  BY <1>1
<1>3. pending' = pending + 1 /\ todo' = [todo EXCEPT ![a] = Tickle]
  BY DEF AddEvent
<1>4. todo'[a] = Tickle /\ \A b \in Actors : b # a => todo'[b] = todo[b]
  BY <1>3 DEF IInv, Types
<1>5. Left(todo[a]) = 0 /\ Left(todo'[a]) = 0
  BY <1>4, TickleList, LeftCall DEF Left
<1>6. Taken(handler') = Taken(handler) \cup {s} /\ s \notin Taken(handler)
  BY <1>1, <1>2, ConstantsAssumption DEF Taken, IInv, Types
<1>7. Cardinality(Taken(handler')) = Cardinality(Taken(handler)) + 1
  <2>1. IsFiniteSet(Taken(handler))
    BY TakenFinite
  <2> DEFINE S == Taken(handler)
  <2> HIDE DEF S
  <2>2. Cardinality(S \cup {s}) = Cardinality(S) + 1
    BY <1>6, <2>1, FS_AddElement DEF S
  <2> QED
    BY <1>6, <2>2 DEF S
<1>8. pending \in Int /\ Cardinality(Taken(handler)) \in Nat
  BY TakenFinite DEF IInv, Types
<1> DEFINE c == Cardinality(Taken(handler))
<1> HIDE DEF c
<1>9. pending' + Cardinality(Taken(handler)) + Left(todo[a])
         = pending + Cardinality(Taken(handler')) + Left(todo'[a])
  <2>1. (pending + 1) + c + 0 = pending + (c + 1) + 0
    BY <1>8 DEF c
  <2> QED
    BY <2>1, <1>3, <1>5, <1>7 DEF c
<1> QED
  BY <1>4, <1>9, CountChange

LEMMA CountDo ==
  ASSUME IInv, IInv', PendingExact, NEW a \in Actors, Do(a)
  PROVE  PendingExact'
<1> DEFINE L == todo[a]
<1>1. L # <<>> /\ L \in Seq(Step) /\ ListOK(L)
  BY DEF Do, IInv, Types, ListInv
<1>2. Head(L) = L[1] /\ 1 \in DOMAIN L /\ L[1] \in Step
  <2> HIDE DEF L
  <2> QED
    BY <1>1, StepLists, HeadTailProperties, LenProperties
<1>3. todo' = [todo EXCEPT ![a] = Tail(@)] /\ UNCHANGED handler
  BY DEF Do
<1>4. todo'[a] = Tail(L) /\ \A b \in Actors : b # a => todo'[b] = todo[b]
  BY <1>3 DEF IInv, Types
<1>5. Left(todo'[a]) = 0
  BY <1>1, <1>4, LeftTail
<1>6. (L[1].op = "sub" /\ pending' = pending - L[1].n) \/ (L[1].op # "sub" /\ UNCHANGED pending)
  BY <1>2 DEF Do, TICKLE
<1>7. L[1].op = "sub" => L[1].n \in Nat
  <2> DEFINE s == L[1]
  <2> HIDE DEF s
  <2>1. s.op = "sub" => s.n \in 1..2
    BY <1>2, StepFields DEF s
  <2>2. s.op = "sub" => s.n \in Nat
    BY <2>1
  <2> QED
    BY <2>2 DEF s
<1>8. pending' + Left(todo[a]) = pending /\ Left(todo[a]) \in Nat
  <2>1. CASE L[1].op = "sub"
    <3>1. Left(todo[a]) = L[1].n
      BY <1>1, <2>1 DEF Left
    <3>2. pending \in Int
      BY DEF IInv, Types
    <3> QED
      BY <1>6, <1>7, <2>1, <3>1, <3>2
  <2>2. CASE L[1].op # "sub"
    <3>1. Left(todo[a]) = 0
      BY <2>2 DEF Left
    <3>2. pending \in Int
      BY DEF IInv, Types
    <3> QED
      BY <1>6, <2>2, <3>1, <3>2
  <2> QED
    BY <2>1, <2>2
<1> DEFINE c == Cardinality(Taken(handler))
           l == Left(todo[a])
<1>9. c \in Nat /\ pending \in Int /\ pending' \in Int
  BY TakenFinite DEF IInv, Types
<1> HIDE DEF c, l
<1>10. ASSUME NEW p \in Int, NEW q \in Int, q + l = p PROVE q + c + l = p + c + 0
  BY <1>8, <1>9, <1>10 DEF l
<1>11. pending' + c + l = pending + c + 0
  BY <1>8, <1>9, <1>10 DEF l
<1>12. pending' + Cardinality(Taken(handler)) + Left(todo[a])
         = pending + Cardinality(Taken(handler')) + Left(todo'[a])
  BY <1>3, <1>5, <1>11 DEF c, l
<1> QED
  BY <1>4, <1>12, CountChange

LEMMA CountJoin ==
  ASSUME IInv, PendingExact, StopJoin
  PROVE  PendingExact'
<1>1. CASE ~force
  BY <1>1, CountStill DEF StopJoin
<1>2. CASE force
  <2>1. \A a \in Actors : todo[a] = <<>>
    BY <1>2 DEF StopJoin, IInv, LoopInv, Actors
  <2>2. pending' = 0 /\ handler' = [s \in Slots |-> None] /\ UNCHANGED todo
    BY <1>2 DEF StopJoin
  <2>3. Taken(handler') = {}
    BY <2>2 DEF Taken
  <2>4. \A a \in Actors : Flying(todo, a) = {}
    BY <2>1, EmptySeq DEF Flying
  <2>5. AllFlying(todo') = {}
    BY <2>2, <2>4 DEF AllFlying
  <2>6. Cardinality(Taken(handler')) = 0 /\ Cardinality(AllFlying(todo')) = 0
    BY <2>3, <2>5, FS_EmptySet
  <2> QED
    BY <2>2, <2>6, ExactNext
<1> QED
  BY <1>1, <1>2

LEMMA CountCalled ==
  ASSUME IInv, IInv', PendingExact, NEW a \in Actors, Called(a)
  PROVE  PendingExact'
<1>1. todo[a] = <<>> /\ Types /\ WaitingInv
  BY DEF Called, MayCall, IInv
<1>2. CASE AddEvent(a)
  BY <1>1, <1>2, CountAdd
<1>3. CASE DelEvent(a) \/ CancelEvent(a)
  <2>1. PICK fd \in open : \E E \in (SUBSET Registered(fd)) \ {{}} :
            /\ MoveOut(fd, E)
            /\ \/ todo' = [todo EXCEPT ![a] = Subtract(E) \o Tickle]
               \/ todo' = [todo EXCEPT ![a] = Subtract(E) \o TriggerCall(fd, E) \o Tickle]
    BY <1>3 DEF DelEvent, CancelEvent
  <2>2. PICK E \in (SUBSET Registered(fd)) \ {{}} :
            /\ MoveOut(fd, E)
            /\ \/ todo' = [todo EXCEPT ![a] = Subtract(E) \o Tickle]
               \/ todo' = [todo EXCEPT ![a] = Subtract(E) \o TriggerCall(fd, E) \o Tickle]
    BY <2>1
  <2>3. fd \in Fds /\ E \in SUBSET Registered(fd) /\ E \in SUBSET Events /\ E # {}
    BY <1>1 DEF Types, Registered
  <2>4. IsCall(Subtract(E) \o Tickle, Cardinality(E), {})
    BY <2>3, DelList
  <2>5. IsCall(Subtract(E) \o TriggerCall(fd, E) \o Tickle, Cardinality(E), JobsAt(fd, E))
    BY <1>1, <2>3, CancelList
  <2>6. UNCHANGED pending
    BY <1>3 DEF DelEvent, CancelEvent
  <2> QED
    BY <1>1, <2>2, <2>3, <2>4, <2>5, <2>6, CountMove
<1>4. CASE Schedule(a)
  <2>1. PICK j \in Jobs, p \in {AnyThread} \cup (IF Pinned THEN Workers ELSE {}) :
            todo' = [todo EXCEPT ![a] = ScheduleCall(j, p)]
    BY <1>4 DEF Schedule
  <2>2. p \in Workers \cup {AnyThread}
    OBVIOUS
  <2>3. IsCall(ScheduleCall(j, p), 0, {j})
    BY <2>2, PushList
  <2>4. UNCHANGED <<pending, handler>>
    BY <1>4 DEF Schedule, ioVars
  <2> QED
    BY <1>1, <2>1, <2>3, <2>4, CountList0
<1>5. CASE AddTimer(a) \/ CancelTimer(a)
  <2>1. UNCHANGED <<pending, handler>>
    BY <1>5 DEF AddTimer, CancelTimer, ioVars
  <2>2. CASE UNCHANGED todo
    BY <2>1, <2>2, CountStill
  <2>3. CASE todo' = [todo EXCEPT ![a] = Tickle]
    BY <1>1, <2>1, <2>3, TickleList, CountList0
  <2> QED
    BY <1>5, <2>2, <2>3 DEF AddTimer, CancelTimer
<1> QED
  BY <1>2, <1>3, <1>4, <1>5 DEF Called

LEMMA CountIdle ==
  ASSUME IInv, IInv', PendingExact, NEW w \in Workers, Idle(w)
  PROVE  PendingExact'
<1>1. Types /\ WaitingInv /\ w \in Actors
  BY DEF IInv, Actors
<1>2. CASE ProcessEvent(w)
  <2>1. UNCHANGED pending /\ todo[w] = <<>>
    BY <1>2 DEF ProcessEvent
  <2>2. CASE UNCHANGED <<handler, todo>>
    BY <2>1, <2>2, CountStill
  <2>3. CASE ~UNCHANGED <<handler, todo>>
    <3>1. PICK fd \in Fds : \E E \in (SUBSET Registered(fd)) \ {{}} :
              MoveOut(fd, E) /\ todo' = [todo EXCEPT ![w] = Consume(E) \o TriggerCall(fd, E)]
      BY <1>2, <2>3 DEF ProcessEvent, StillRegistered
    <3>2. PICK E \in (SUBSET Registered(fd)) \ {{}} :
              MoveOut(fd, E) /\ todo' = [todo EXCEPT ![w] = Consume(E) \o TriggerCall(fd, E)]
      BY <3>1
    <3>3. IsCall(Subtract(E) \o TriggerCall(fd, E), Cardinality(E), JobsAt(fd, E))
      BY <1>1, ProcessList
    <3> QED
      BY <1>1, <2>1, <3>2, <3>3, CountMove DEF Consume
  <2> QED
    BY <2>2, <2>3
<1>3. CASE ListExpired(w)
  <2>1. UNCHANGED <<pending, handler>> /\ todo[w] = <<>>
        /\ todo' = [todo EXCEPT ![w] = ScheduleCalls(SetToSeq(due))]
    BY <1>3 DEF ListExpired, ioVars
  <2>2. IsCall(ScheduleCalls(SetToSeq(due)), 0, due)
    BY <1>1, ExpiredList DEF Types
  <2> QED
    BY <1>1, <2>1, <2>2, CountList0
<1>4. CASE ~ProcessEvent(w) /\ ~ListExpired(w)
  <2>1. UNCHANGED <<pending, handler, todo>>
    BY <1>4 DEF Idle, ComputeTimeout, EpollWait, DrainTickle, StoppingEvents, StoppingTimers,
                StoppingTasks, ioVars
  <2> QED
    BY <2>1, CountStill
<1> QED
  BY <1>2, <1>3, <1>4

LEMMA CountStep == IInv /\ PendingExact /\ [Next]_vars => PendingExact'
<1> SUFFICES ASSUME IInv, PendingExact, [Next]_vars PROVE PendingExact'
  OBVIOUS
<1>1. IInv'
  BY NextInv
<1>2. ASSUME NEW w \in Workers, Fetch(w) \/ EndJob(w) PROVE PendingExact'
  BY <1>2, CountStill DEF Fetch, EndJob, ioVars
<1>3. ASSUME StopBegin \/ StopTickle \/ FdReady \/ TimePasses \/ CloseFd \/ UNCHANGED vars
      PROVE  PendingExact'
  <2>1. UNCHANGED <<pending, handler, todo>>
    BY <1>3 DEF StopBegin, StopTickle, FdReady, TimePasses, CloseFd, vars, ioVars
  <2> QED
    BY <2>1, CountStill
<1>4. ASSUME NEW a \in Actors, Called(a) \/ Do(a) PROVE PendingExact'
  BY <1>1, <1>4, CountCalled, CountDo
<1>5. ASSUME NEW w \in Workers, Idle(w) PROVE PendingExact'
  BY <1>1, <1>5, CountIdle
<1> QED
  BY <1>2, <1>3, <1>4, <1>5, CountJoin, Calls DEF Next, Stop, Terminated

LEMMA InitExact == Init => PendingExact
<1> SUFFICES ASSUME Init PROVE PendingExact
  OBVIOUS
<1>1. pending = 0 /\ handler = [s \in Slots |-> None] /\ \A a \in Actors : todo[a] = <<>>
  BY DEF Init
<1>2. Taken(handler) = {}
  BY <1>1 DEF Taken
<1>3. \A a \in Actors : Flying(todo, a) = {}
  BY <1>1, EmptySeq DEF Flying
<1>4. AllFlying(todo) = {}
  BY <1>3 DEF AllFlying
<1>5. Cardinality(Taken(handler)) = 0 /\ Cardinality(AllFlying(todo)) = 0
  BY <1>2, <1>4, FS_EmptySet
<1> QED
  BY <1>1, <1>5, Exact

\* pending_event_count_ is the number of registered events plus those already
\* taken out of their FdContext and not yet counted down, whatever addEvent(),
\* delEvent(), cancelEvent(), processEvent() and ~IOManager() do in between.
THEOREM PendingIsExact == Spec => []PendingExact
  BY InitExact, CountStep, IInvAlways, PTL DEF Spec

\* Every variable stays in its type; that pending_event_count_ never runs below
\* zero is a consequence of PendingExact.
THEOREM TypeCorrect == Spec => []TypeOK
<1>1. IInv /\ PendingExact => TypeOK
  <2> SUFFICES ASSUME IInv, PendingExact PROVE TypeOK
    OBVIOUS
  <2>1. Types /\ ListInv
    BY DEF IInv
  <2>2. Cardinality(Taken(handler)) \in Nat
    BY TakenFinite
  <2>3. Cardinality(AllFlying(todo)) \in Nat
    <3>1. todo \in [Actors -> Seq(Step)] /\ (\A b \in Actors : ListOK(todo[b])) /\ Client \in Actors
      BY <2>1 DEF Types, ListInv, Actors
    <3> QED
      BY <3>1, FlyingChange
  <2>4. pending \in Nat
    <3>1. pending = Cardinality(Taken(handler)) + Cardinality(AllFlying(todo))
      BY Exact
    <3> QED
      BY <2>2, <2>3, <3>1
  <2> QED
    BY <2>1, <2>4 DEF Types, TypeOK, Task
<1> QED
  BY <1>1, PendingIsExact, IInvAlways, PTL

-----------------------------------------------------------------------------
(* The manager implements EventDelivery. *)

\* The jobs whose history is in S.
In(S) == {j \in Jobs : state[j] \in S}

\* The places of a job are the ones its history says.
PlacesOK ==
    /\ Armed = In({"waiting", "timed"}) /\ Owed = In({"triggered", "queued"})
    /\ Active = In({"running"}) /\ Over = In({"ended", "deleted"})

LEMMA PlacesAre == IInv => PlacesOK
<1> SUFFICES ASSUME IInv PROVE PlacesOK
  OBVIOUS
<1>1. QueuedInv /\ RunningInv /\ WaitingInv /\ TimedInv /\ TriggeredInv
  BY DEF IInv
<1>2. Armed = In({"waiting", "timed"})
  BY <1>1 DEF Armed, In, WaitingInv, TimedInv
<1>3. Active = In({"running"}) /\ Over = In({"ended", "deleted"})
  BY <1>1 DEF Active, Over, In, RunningInv
<1>4. \A j \in Jobs, a \in Actors : Pushes(a, j) # {} <=> \E i \in DOMAIN todo[a] : IsPush(todo[a], i, j)
  BY DEF Pushes, IsPush
<1>5. Owed = In({"triggered", "queued"})
  BY <1>1, <1>4 DEF Owed, In, QueuedInv, TriggeredInv
<1> QED
  BY <1>2, <1>3, <1>5 DEF PlacesOK

LEMMA PlacesAreNext == IInv' => PlacesOK'
  BY PlacesAre, PTL

\* The jobs of J, whose history is in S, are marked.
Shift(J, S, to) ==
    /\ J \subseteq Jobs /\ \A j \in J : state[j] \in S
    /\ \A j \in Jobs : state'[j] = IF j \in J THEN to ELSE state[j]

LEMMA MarkShifts ==
  ASSUME NEW J, NEW S, NEW to, J \subseteq Jobs, \A j \in J : state[j] \in S, Mark(J, to)
  PROVE  Shift(J, S, to)
  BY DEF Shift, Mark

\* A step that changes the history of no job is not seen.
LEMMA NotSeen ==
  ASSUME IInv, IInv', UNCHANGED state
  PROVE  UNCHANGED Delivery!vars
  BY PlacesAre, PlacesAreNext DEF PlacesOK, In, Delivery!vars

\* What a change of the history is in EventDelivery.
LEMMA ShiftArms ==
  ASSUME IInv, IInv', NEW j \in Jobs, NEW to \in {"waiting", "timed"}, Shift({j}, {"new"}, to)
  PROVE  Delivery!Next
<1>1. j \in Delivery!Fresh
  BY PlacesAre DEF Delivery!Fresh, PlacesOK, Shift, In
<1>2. /\ Armed' = Armed \cup {j} /\ Owed' = Owed /\ Active' = Active /\ Over' = Over
  BY PlacesAre, PlacesAreNext DEF PlacesOK, Shift, In
<1> QED
  BY <1>1, <1>2 DEF Delivery!Next, Delivery!Arm

LEMMA ShiftPosts ==
  ASSUME IInv, IInv', NEW j \in Jobs, Shift({j}, {"new"}, "triggered")
  PROVE  Delivery!Next
<1>1. j \in Delivery!Fresh
  BY PlacesAre DEF Delivery!Fresh, PlacesOK, Shift, In
<1>2. /\ Owed' = Owed \cup {j} /\ Armed' = Armed /\ Active' = Active /\ Over' = Over
  BY PlacesAre, PlacesAreNext DEF PlacesOK, Shift, In
<1> QED
  BY <1>1, <1>2 DEF Delivery!Next, Delivery!Post

LEMMA ShiftFires ==
  ASSUME IInv, IInv', NEW J, Shift(J, {"waiting", "timed"}, "triggered")
  PROVE  Delivery!Next
<1>1. J \in SUBSET Armed
  BY PlacesAre DEF PlacesOK, Shift, In
<1>2. /\ Armed' = Armed \ J /\ Owed' = Owed \cup J /\ Active' = Active /\ Over' = Over
  BY PlacesAre, PlacesAreNext DEF PlacesOK, Shift, In
<1> QED
  BY <1>1, <1>2 DEF Delivery!Next, Delivery!Fire

LEMMA ShiftWithdraws ==
  ASSUME IInv, IInv', NEW J, Shift(J, {"waiting", "timed"}, "deleted")
  PROVE  Delivery!Next
<1>1. J \in SUBSET Armed
  BY PlacesAre DEF PlacesOK, Shift, In
<1>2. /\ Armed' = Armed \ J /\ Over' = Over \cup J /\ Owed' = Owed /\ Active' = Active
  BY PlacesAre, PlacesAreNext DEF PlacesOK, Shift, In
<1> QED
  BY <1>1, <1>2 DEF Delivery!Next, Delivery!Withdraw

LEMMA ShiftStarts ==
  ASSUME IInv, IInv', NEW j \in Jobs, Shift({j}, {"queued"}, "running")
  PROVE  Delivery!Next
<1>1. j \in Owed
  BY PlacesAre DEF PlacesOK, Shift, In
<1>2. /\ Owed' = Owed \ {j} /\ Active' = Active \cup {j} /\ Armed' = Armed /\ Over' = Over
  BY PlacesAre, PlacesAreNext DEF PlacesOK, Shift, In
<1> QED
  BY <1>1, <1>2 DEF Delivery!Next, Delivery!Start

LEMMA ShiftEnds ==
  ASSUME IInv, IInv', NEW j \in Jobs, Shift({j}, {"running"}, "ended")
  PROVE  Delivery!Next
<1>1. j \in Active
  BY PlacesAre DEF PlacesOK, Shift, In
<1>2. /\ Active' = Active \ {j} /\ Over' = Over \cup {j} /\ Armed' = Armed /\ Owed' = Owed
  BY PlacesAre, PlacesAreNext DEF PlacesOK, Shift, In
<1> QED
  BY <1>1, <1>2 DEF Delivery!Next, Delivery!End

\* Pushing a task is not seen: the job was owed before.
LEMMA ShiftPushes ==
  ASSUME IInv, IInv', NEW j \in Jobs, Shift({j}, {"triggered"}, "queued")
  PROVE  UNCHANGED Delivery!vars
  BY PlacesAre, PlacesAreNext DEF PlacesOK, Shift, In, Delivery!vars

Seen == [Delivery!Next]_(Delivery!vars)

\* Handlers that are moved out of their FdContext.
LEMMA SeenMove ==
  ASSUME IInv, IInv', NEW fd \in Fds, NEW E \in SUBSET Registered(fd),
         NEW to \in {"deleted", "triggered"}, Mark(JobsAt(fd, E), to)
  PROVE  Seen
<1>1. /\ JobsAt(fd, E) \subseteq Jobs
      /\ \A j \in JobsAt(fd, E) : state[j] \in {"waiting", "timed"}
  BY JobsWaiting DEF IInv
<1>2. Shift(JobsAt(fd, E), {"waiting", "timed"}, to)
  BY <1>1, MarkShifts
<1> QED
  BY <1>2, ShiftFires, ShiftWithdraws DEF Seen

LEMMA SeenCall ==
  ASSUME IInv, IInv', NEW a \in Actors, Called(a)
  PROVE  Seen
<1>1. Types /\ TimedInv
  BY DEF IInv
<1>2. CASE AddEvent(a)
  <2>1. PICK j \in Jobs : state[j] = "new" /\ Mark({j}, "waiting")
    BY <1>2 DEF AddEvent
  <2> QED
    BY <2>1, MarkShifts, ShiftArms DEF Seen
<1>3. CASE DelEvent(a)
  <2>1. PICK fd \in Fds : \E E \in SUBSET Registered(fd) : Mark(JobsAt(fd, E), "deleted")
    BY <1>1, <1>3 DEF DelEvent, Types
  <2> QED
    BY <2>1, SeenMove
<1>4. CASE CancelEvent(a)
  <2>1. PICK fd \in Fds : \E E \in SUBSET Registered(fd) : Mark(JobsAt(fd, E), "triggered")
    BY <1>1, <1>4 DEF CancelEvent, Types
  <2> QED
    BY <2>1, SeenMove
<1>5. CASE Schedule(a)
  <2>1. PICK j \in Jobs : state[j] = "new" /\ Mark({j}, "triggered")
    BY <1>5 DEF Schedule
  <2> QED
    BY <2>1, MarkShifts, ShiftPosts DEF Seen
<1>6. CASE AddTimer(a)
  <2>1. PICK j \in Jobs : state[j] = "new" /\ Mark({j}, "timed")
    BY <1>6 DEF AddTimer
  <2> QED
    BY <2>1, MarkShifts, ShiftArms DEF Seen
<1>7. CASE CancelTimer(a)
  <2>1. PICK j \in timers : Mark({j}, "deleted")
    BY <1>7 DEF CancelTimer
  <2>2. j \in Jobs /\ state[j] = "timed"
    BY <1>1, <2>1 DEF Types, TimedInv
  <2> QED
    BY <2>1, <2>2, MarkShifts, ShiftWithdraws DEF Seen
<1> QED
  BY <1>2, <1>3, <1>4, <1>5, <1>6, <1>7 DEF Called

\* A push takes the job that the call has triggered.
LEMMA SeenPush ==
  ASSUME IInv, IInv', NEW a \in Actors, Do(a)
  PROVE  Seen
<1> DEFINE s == Head(todo[a])
<1>1. Types /\ TriggeredInv /\ todo[a] # <<>>
  BY DEF IInv, Do
<1>2. todo[a] \in Seq(Step) /\ 1 \in DOMAIN todo[a] /\ s = todo[a][1] /\ s \in Step
  <2>1. todo[a] \in Seq(Step)
    BY <1>1 DEF Types
  <2> QED
    BY <1>1, <2>1, StepLists
<1>3. CASE s.op = "push" /\ Mark({s.job}, "queued")
  <2>1. s.job \in Jobs
    BY <1>2, <1>3, StepFields
  <2>2. IsPush(todo[a], 1, s.job)
    BY <1>2, <1>3 DEF IsPush
  <2>3. state[s.job] = "triggered"
    BY <1>1, <1>2, <2>1, <2>2 DEF TriggeredInv
  <2> QED
    BY <1>3, <2>1, <2>3, MarkShifts, ShiftPushes DEF Seen
<1>4. CASE UNCHANGED state
  BY <1>4, NotSeen DEF Seen
<1> QED
  BY <1>3, <1>4 DEF Do

LEMMA SeenRun ==
  ASSUME IInv, IInv', NEW w \in Workers, Fetch(w) \/ EndJob(w)
  PROVE  Seen
<1>1. Types /\ LoopInv /\ QueuedInv /\ RunningInv
  BY DEF IInv
<1>2. CASE Fetch(w) /\ UNCHANGED state
  BY <1>2, NotSeen DEF Seen
<1>3. CASE \E i \in DOMAIN tasks : Mark({tasks[i].job}, "running")
  <2>1. PICK i \in DOMAIN tasks : Mark({tasks[i].job}, "running")
    BY <1>3
  <2>2. tasks[i].job \in Jobs
    <3>1. tasks \in Seq(Task) /\ DOMAIN tasks = 1..Len(tasks)
      BY <1>1, LenProperties DEF Types
    <3>2. tasks[i] \in Task
      BY <3>1, ElementOfSeq
    <3> QED
      BY <3>2 DEF Task
  <2>3. state[tasks[i].job] = "queued"
    BY <1>1, <2>2 DEF QueuedInv
  <2> QED
    BY <2>1, <2>2, <2>3, MarkShifts, ShiftStarts DEF Seen
<1>4. CASE EndJob(w)
  <2>1. cur[w] \in Jobs /\ Mark({cur[w]}, "ended")
    BY <1>1, <1>4 DEF EndJob, Types, LoopInv
  <2>2. state[cur[w]] = "running"
    BY <1>1, <2>1 DEF RunningInv
  <2> QED
    BY <2>1, <2>2, MarkShifts, ShiftEnds DEF Seen
<1> QED
  BY <1>2, <1>3, <1>4 DEF Fetch

LEMMA SeenInIdle ==
  ASSUME IInv, IInv', NEW w \in Workers, Idle(w)
  PROVE  Seen
<1>1. CASE ProcessEvent(w)
  <2>1. PICK fd \in Fds : LET rep == {e \in Events : <<fd, e>> \in got[w]}
                              E == StillRegistered(fd, rep)
                          IN UNCHANGED state \/ Mark(JobsAt(fd, E), "triggered")
    BY <1>1 DEF ProcessEvent
  <2> DEFINE E == StillRegistered(fd, {e \in Events : <<fd, e>> \in got[w]})
  <2>2. E \in SUBSET Registered(fd)
    BY DEF StillRegistered
  <2> HIDE DEF E
  <2>3. UNCHANGED state \/ Mark(JobsAt(fd, E), "triggered")
    BY <2>1 DEF E
  <2> QED
    BY <2>2, <2>3, SeenMove, NotSeen DEF Seen
<1>2. CASE ListExpired(w)
  <2>1. Mark(due, "triggered") /\ due \subseteq Jobs /\ \A j \in due : state[j] = "timed"
    BY <1>2 DEF ListExpired, IInv, Types, TimedInv
  <2> QED
    BY <2>1, MarkShifts, ShiftFires DEF Seen
<1>3. CASE ~ProcessEvent(w) /\ ~ListExpired(w)
  <2>1. UNCHANGED state
    BY <1>3 DEF Idle, ComputeTimeout, EpollWait, DrainTickle, StoppingEvents, StoppingTimers,
                StoppingTasks, histVars
  <2> QED
    BY <2>1, NotSeen DEF Seen
<1> QED
  BY <1>1, <1>2, <1>3

LEMMA DeliveryInit == Init => Delivery!Init
<1> SUFFICES ASSUME Init PROVE Delivery!Init
  OBVIOUS
<1>1. IInv /\ \A j \in Jobs : state[j] = "new"
  BY InitInv DEF Init
<1> QED
  BY <1>1, PlacesAre DEF PlacesOK, In, Delivery!Init

LEMMA DeliveryStep == IInv /\ [Next]_vars => Seen
<1> SUFFICES ASSUME IInv, [Next]_vars PROVE Seen
  OBVIOUS
<1>1. IInv'
  BY NextInv
<1>2. ASSUME StopBegin \/ StopTickle \/ FdReady \/ TimePasses \/ CloseFd \/ UNCHANGED vars
      PROVE  Seen
  <2>1. UNCHANGED state
    BY <1>2 DEF StopBegin, StopTickle, FdReady, TimePasses, CloseFd, vars, histVars
  <2> QED
    BY <1>1, <2>1, NotSeen DEF Seen
<1>3. CASE StopJoin
  <2> DEFINE J == {j \in Jobs : state[j] \in {"waiting", "timed"}}
  <2>1. UNCHANGED state \/ Mark(J, "deleted")
    BY <1>3 DEF StopJoin
  <2> QED
    BY <1>1, <2>1, NotSeen, MarkShifts, ShiftWithdraws DEF Seen
<1>4. ASSUME NEW a \in Actors, Called(a) \/ Do(a) PROVE Seen
  BY <1>1, <1>4, SeenCall, SeenPush
<1>5. ASSUME NEW w \in Workers, Fetch(w) \/ EndJob(w) \/ Idle(w) PROVE Seen
  BY <1>1, <1>5, SeenRun, SeenInIdle
<1> QED
  BY <1>2, <1>3, <1>4, <1>5, Calls DEF Next, Stop, Terminated

\* IOManager implements EventDelivery, for every number of threads, descriptors
\* and jobs: a callback handed to addEvent(), addTimer() or schedule() is run
\* once, or withdrawn before it fired by delEvent(), Timer::cancel() or
\* ~IOManager(), whatever fires, is cancelled or is stopped at the same time.
THEOREM IOManagerDelivers == Spec => Delivers
  BY DeliveryInit, DeliveryStep, IInvAlways, PTL DEF Spec, Delivers, Delivery!Spec, Seen
=============================================================================
