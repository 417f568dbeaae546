------------------------ MODULE ConnectionPool_proofs ------------------------
(***************************************************************************)
(* Proofs about ConnectionPool for every number of threads, every size of  *)
(* the pool and every limit.                                               *)
(***************************************************************************)
EXTENDS ConnectionPool, FiniteSetTheorems, SequenceTheorems, TLAPS

-----------------------------------------------------------------------------
(* The inductive invariant. *)

\* Where a thread is fixes what it holds: a slot between the critical section
\* and connect(), a connection from there to the end of the lease, connections
\* to delete only in between; and only a reusable connection is pushed.
HoldsOK ==
    \A t \in Threads :
        /\ t \in reserved => pc[t] \in {"drop", "connect"} /\ lease[t] = None
        /\ pc[t] = "connect" => t \in reserved
        /\ pc[t] \in {"leased", "sent", "push"} => lease[t] # None
        /\ pc[t] \in {"out", "lock", "connect"} => lease[t] = None
        /\ pc[t] # "drop" => invalid[t] = {}
        /\ pc[t] = "sent" => count[lease[t]] < MaxUses
        /\ pc[t] = "push" => lease[t] \in reusable
        /\ pc[t] \notin {"out", "leased", "sent"} => alive

\* A connection owed a response is not reusable, an idle one is.
ReuseOK == awaiting \cap reusable = {} /\ Idle \subseteq reusable

IInv == TypeOK /\ HoldsOK /\ ExclusiveLease /\ ReuseOK

\* Arithmetic modulo Word.
LEMMA WordType == Word \in Nat \ {0}
  BY ConstantsAssumption, FS_CardinalityType

LEMMA WordRange == \A x \in Int : x % Word \in 0..Word - 1
  BY WordType, SMT

LEMMA LessType ==
  ASSUME TypeOK, NEW n \in Int
  PROVE  Less(n) \in 0..Word - 1
<1>1. total - n \in Int
  BY WordType DEF TypeOK
<1> QED
  BY <1>1, WordRange DEF Less

\* Subsets of Conns and of Threads have a cardinality.
LEMMA Finite ==
  /\ \A S \in SUBSET Conns : IsFiniteSet(S) /\ Cardinality(S) \in Nat
  /\ \A S \in SUBSET Threads : IsFiniteSet(S) /\ Cardinality(S) \in Nat
  BY ConstantsAssumption, FS_Subset, FS_CardinalityType

LEMMA IInvStep ==
  ASSUME IInv, [Next]_vars
  PROVE  IInv'
<1> USE ConstantsAssumption
<1> SUFFICES ASSUME TypeOK, HoldsOK, ExclusiveLease, ReuseOK PROVE IInv'
  BY DEF IInv
<1>1. CASE Tick \/ UNCHANGED vars
  BY <1>1, SMTT(30) DEF Tick, IInv, TypeOK, HoldsOK, ExclusiveLease, ReuseOK, Idle, vars, connVars,
     threadVars
<1>2. ASSUME NEW t \in Threads, GetBegin(t) PROVE IInv'
  <2> USE <1>2 DEF GetBegin, Go, connVars
  <2>1. TypeOK'
    BY WordRange DEF TypeOK, HoldsOK
  <2>2. HoldsOK'
    BY DEF TypeOK, HoldsOK, ExclusiveLease
  <2>3. ExclusiveLease'
    BY DEF TypeOK, HoldsOK, ExclusiveLease, Idle
  <2>4. ReuseOK'
    BY DEF TypeOK, HoldsOK, ExclusiveLease, ReuseOK, Idle
  <2> QED
    BY <2>1, <2>2, <2>3, <2>4 DEF IInv
<1>3. ASSUME NEW t \in Threads, GetLocked(t) PROVE IInv'
  <2>1. PICK k \in 0..Len(idle) :
            /\ invalid' = [invalid EXCEPT ![t] = {idle[i] : i \in 1..k}]
            /\ \/ /\ k < Len(idle)
                  /\ lease' = [lease EXCEPT ![t] = idle[k + 1]]
                  /\ idle' = SubSeq(idle, k + 2, Len(idle))
                  /\ UNCHANGED <<total, reserved>>
               \/ /\ k = Len(idle)
                  /\ total' = (total + 1) % Word
                  /\ reserved' = reserved \cup {t}
                  /\ idle' = <<>>
                  /\ UNCHANGED lease
               \/ /\ k = Len(idle)
                  /\ idle' = <<>>
                  /\ UNCHANGED <<total, reserved, lease>>
    BY <1>3 DEF GetLocked, Remaining
  <2> DEFINE gone == {idle[i] : i \in 1..k}
  <2>2. /\ pc[t] = "lock" /\ pc' = [pc EXCEPT ![t] = "drop"]
        /\ UNCHANGED <<now, alive, alloc, connVars, clk>>
    BY <1>3 DEF GetLocked, Go
  <2>3. Len(idle) \in Nat /\ DOMAIN idle = 1..Len(idle) /\ k \in Nat
    BY DEF TypeOK
  <2>a. \A i \in 1..k : i \in DOMAIN idle /\ idle[i] \in Conns
    BY <2>3 DEF TypeOK
  <2>4. gone \subseteq Idle /\ gone \subseteq Conns
    BY <2>a DEF Idle
  <2>5. /\ idle' \in Seq(Conns)
        /\ \A i \in DOMAIN idle' : i + k + 1 \in DOMAIN idle /\ idle'[i] = idle[i + k + 1]
        /\ DOMAIN idle' \subseteq Nat
    <3>1. CASE idle' = <<>>
      BY <3>1
    <3>2. CASE k < Len(idle) /\ idle' = SubSeq(idle, k + 2, Len(idle))
      <4>1. k + 2 \in Int /\ Len(idle) \in Int /\ \A i \in k + 2..Len(idle) : idle[i] \in Conns
        BY <2>3 DEF TypeOK
      <4>2. /\ idle' \in Seq(Conns)
            /\ Len(idle') = IF k + 2 <= Len(idle) THEN Len(idle) - (k + 2) + 1 ELSE 0
            /\ \A i \in 1..Len(idle) - (k + 2) + 1 : idle'[i] = idle[k + 2 + i - 1]
        BY <3>2, <4>1, SubSeqProperties
      <4>3. DOMAIN idle' = 1..Len(idle')
        BY <4>2
      <4>4. ASSUME NEW i \in DOMAIN idle'
            PROVE  i + k + 1 \in DOMAIN idle /\ idle'[i] = idle[i + k + 1] /\ i \in Nat
        <5>1. i \in 1..Len(idle) - (k + 2) + 1
          <6>1. CASE k + 2 <= Len(idle)
            <7>1. Len(idle') = Len(idle) - (k + 2) + 1
              BY <4>2, <6>1
            <7> QED
              BY <7>1, <4>3
          <6>2. CASE ~(k + 2 <= Len(idle))
            <7>1. Len(idle') = 0
              BY <4>2, <6>2
            <7> QED
              BY <7>1, <4>3
          <6> QED
            BY <6>1, <6>2
        <5>2. i + k + 1 \in 1..Len(idle) /\ k + 2 + i - 1 = i + k + 1 /\ i \in Nat
          BY <5>1, <2>3
        <5> QED
          BY <4>2, <5>1, <5>2, <2>3
      <4> QED
        BY <4>2, <4>4
    <3> QED
      BY <3>1, <3>2, <2>1
  <2>b. \A i, j \in DOMAIN idle : idle[i] = idle[j] => i = j
    BY DEF ExclusiveLease
  <2>c. \A i \in DOMAIN idle' : \A j \in 1..k : idle'[i] # idle[j]
    <3> SUFFICES ASSUME NEW i \in DOMAIN idle', NEW j \in 1..k, idle'[i] = idle[j]
                 PROVE  FALSE
      OBVIOUS
    <3>1. i + k + 1 \in DOMAIN idle /\ idle[i + k + 1] = idle[j] /\ i \in Nat
      BY <2>5
    <3>2. i + k + 1 = j
      BY <3>1, <2>a, <2>b
    <3> QED
      BY <3>1, <3>2, <2>3
  <2>6. Idle' \subseteq Idle /\ Idle' \cap gone = {}
    BY <2>5, <2>c DEF Idle
  <2>7. ASSUME k < Len(idle), lease' = [lease EXCEPT ![t] = idle[k + 1]]
        PROVE  idle[k + 1] \in Conns \cap Idle /\ idle[k + 1] \notin gone \cup Idle'
    <3>1. k + 1 \in DOMAIN idle /\ idle[k + 1] \in Conns
      BY <2>3, <2>7 DEF TypeOK
    <3>2. \A i \in DOMAIN idle' : idle'[i] # idle[k + 1]
      BY <2>b, <2>3, <2>5, <3>1
    <3>3. \A j \in 1..k : idle[j] # idle[k + 1]
      BY <2>a, <2>b, <2>3, <3>1
    <3> QED
      BY <3>1, <3>2, <3>3 DEF Idle
  <2>8. PICK c \in Conns \cup {None} :
            /\ lease' = [lease EXCEPT ![t] = c]
            /\ c # None => c \in Idle /\ c \notin gone \cup Idle'
    <3>1. CASE UNCHANGED lease
      BY <3>1, <2>2 DEF HoldsOK, TypeOK
    <3> QED
      BY <3>1, <2>1, <2>7
  <2>9. \/ UNCHANGED <<total, reserved>>
        \/ /\ total' = (total + 1) % Word
           /\ reserved' = reserved \cup {t}
           /\ UNCHANGED lease
    BY <2>1
  <2>10. invalid' = [invalid EXCEPT ![t] = gone]
    BY <2>1
  <2> HIDE DEF gone
  <2> USE DEF connVars
  <2>11. total' \in 0..Word - 1
    <3>1. total + 1 \in Int
      BY WordType DEF TypeOK
    <3> QED
      BY <2>9, <3>1, WordRange DEF TypeOK
  <2>12. TypeOK'
    BY <2>2, <2>4, <2>5, <2>8, <2>9, <2>10, <2>11 DEF TypeOK
  <2>13. HoldsOK'
    BY <2>2, <2>8, <2>9, <2>10 DEF HoldsOK, TypeOK
  <2>14. \A i, j \in DOMAIN idle' : idle'[i] = idle'[j] => i = j
    BY <2>3, <2>5, SMTT(30) DEF ExclusiveLease
  <2>15. ExclusiveLease'
    BY <2>2, <2>4, <2>6, <2>8, <2>10, <2>14 DEF ExclusiveLease, HoldsOK, TypeOK
  <2>16. ReuseOK'
    BY <2>2, <2>6 DEF ReuseOK
  <2> QED
    BY <2>12, <2>13, <2>15, <2>16 DEF IInv
<1>4. ASSUME NEW t \in Threads, GetDrop(t) PROVE IInv'
  <2> USE <1>4 DEF GetDrop, Go, CountOff, connVars
  <2>0. total' \in 0..Word - 1
    <3>1. Cardinality(invalid[t]) \in Int
      BY Finite DEF TypeOK
    <3> QED
      BY <3>1, LessType
  <2>1. TypeOK'
    BY <2>0 DEF TypeOK
  <2>2. HoldsOK'
    BY DEF TypeOK, HoldsOK, ExclusiveLease
  <2>3. ExclusiveLease'
    BY DEF TypeOK, HoldsOK, ExclusiveLease, Idle
  <2>4. ReuseOK'
    BY DEF TypeOK, HoldsOK, ExclusiveLease, ReuseOK, Idle
  <2> QED
    BY <2>1, <2>2, <2>3, <2>4 DEF IInv
<1>5. ASSUME NEW t \in Threads, ConnectOk(t) PROVE IInv'
  <2> USE <1>5 DEF ConnectOk, Go
  <2>1. TypeOK'
    BY WordRange DEF TypeOK, HoldsOK
  <2>2. HoldsOK'
    BY DEF TypeOK, HoldsOK, ExclusiveLease
  <2>3. ExclusiveLease'
    BY DEF TypeOK, HoldsOK, ExclusiveLease, Idle
  <2>4. ReuseOK'
    BY DEF TypeOK, HoldsOK, ExclusiveLease, ReuseOK, Idle
  <2> QED
    BY <2>1, <2>2, <2>3, <2>4 DEF IInv
<1>6. ASSUME NEW t \in Threads, ConnectFails(t) PROVE IInv'
  <2> USE <1>6 DEF ConnectFails, Go, SlotBack, connVars
  <2>0. total' \in 0..Word - 1
    BY LessType
  <2>1. TypeOK'
    BY <2>0 DEF TypeOK
  <2>2. HoldsOK'
    BY DEF TypeOK, HoldsOK, ExclusiveLease
  <2>3. ExclusiveLease'
    BY DEF TypeOK, HoldsOK, ExclusiveLease, Idle
  <2>4. ReuseOK'
    BY DEF TypeOK, HoldsOK, ExclusiveLease, ReuseOK, Idle
  <2> QED
    BY <2>1, <2>2, <2>3, <2>4 DEF IInv
<1>7. ASSUME NEW t \in Threads, SendRequest(t) PROVE IInv'
  <2> USE <1>7 DEF SendRequest, Go, Sending
  <2>1. TypeOK'
    BY WordRange DEF TypeOK, HoldsOK
  <2>2. HoldsOK'
    BY DEF TypeOK, HoldsOK, ExclusiveLease
  <2>3. ExclusiveLease'
    BY DEF TypeOK, HoldsOK, ExclusiveLease, Idle
  <2>4. ReuseOK'
    BY SMTT(30) DEF TypeOK, HoldsOK, ExclusiveLease, ReuseOK, Idle
  <2> QED
    BY <2>1, <2>2, <2>3, <2>4 DEF IInv
<1>8. ASSUME NEW t \in Threads, RecvResponse(t) PROVE IInv'
  <2> USE <1>8 DEF RecvResponse, Go
  <2>0. lease[t] \in Conns /\ count[lease[t]] + 1 \in 0..MaxUses
    BY DEF TypeOK, HoldsOK
  <2>a. count' \in [Conns -> 0..MaxUses]
    <3>1. CASE UNCHANGED count
      BY <3>1 DEF TypeOK
    <3>2. CASE count' = [count EXCEPT ![lease[t]] = @ + 1]
      BY <2>0, <3>2 DEF TypeOK
    <3> QED
      BY <3>1, <3>2
  <2>b. reusable' \subseteq Conns /\ awaiting' \subseteq Conns /\ connected' \subseteq Conns
    BY <2>0 DEF TypeOK
  <2>1. TypeOK'
    BY <2>a, <2>b DEF TypeOK
  <2>2. HoldsOK'
    BY DEF TypeOK, HoldsOK, ExclusiveLease
  <2>3. ExclusiveLease'
    BY DEF TypeOK, HoldsOK, ExclusiveLease, Idle
  <2>4. ReuseOK'
    BY SMTT(30) DEF TypeOK, HoldsOK, ExclusiveLease, ReuseOK, Idle
  <2> QED
    BY <2>1, <2>2, <2>3, <2>4 DEF IInv
<1>9. ASSUME NEW t \in Threads, ReleaseOrphan(t) PROVE IInv'
  <2> USE <1>9 DEF ReleaseOrphan, Go, Held, connVars
  <2>1. TypeOK'
    BY WordRange DEF TypeOK, HoldsOK
  <2>2. HoldsOK'
    BY DEF TypeOK, HoldsOK, ExclusiveLease
  <2>3. ExclusiveLease'
    BY DEF TypeOK, HoldsOK, ExclusiveLease, Idle
  <2>4. ReuseOK'
    BY DEF TypeOK, HoldsOK, ExclusiveLease, ReuseOK, Idle
  <2> QED
    BY <2>1, <2>2, <2>3, <2>4 DEF IInv
<1>10. ASSUME NEW t \in Threads, ReleaseBad(t) PROVE IInv'
  <2> USE <1>10 DEF ReleaseBad, Go, Held, connVars
  <2>0. total' \in 0..Word - 1
    BY LessType
  <2>1. TypeOK'
    BY <2>0 DEF TypeOK
  <2>2. HoldsOK'
    BY DEF TypeOK, HoldsOK, ExclusiveLease
  <2>3. ExclusiveLease'
    BY DEF TypeOK, HoldsOK, ExclusiveLease, Idle
  <2>4. ReuseOK'
    BY DEF TypeOK, HoldsOK, ExclusiveLease, ReuseOK, Idle
  <2> QED
    BY <2>1, <2>2, <2>3, <2>4 DEF IInv
<1>11. ASSUME NEW t \in Threads, ReleaseGood(t) PROVE IInv'
  <2> USE <1>11 DEF ReleaseGood, Go, Held, Bad, connVars
  <2>1. TypeOK'
    BY WordRange DEF TypeOK, HoldsOK
  <2>2. HoldsOK'
    BY DEF TypeOK, HoldsOK, ExclusiveLease
  <2>3. ExclusiveLease'
    BY DEF TypeOK, HoldsOK, ExclusiveLease, Idle
  <2>4. ReuseOK'
    BY DEF TypeOK, HoldsOK, ExclusiveLease, ReuseOK, Idle
  <2> QED
    BY <2>1, <2>2, <2>3, <2>4 DEF IInv
<1>12. ASSUME NEW t \in Threads, ReleasePush(t) PROVE IInv'
  <2> USE <1>12 DEF ReleasePush, Pushed, Go, connVars
  <2>0. lease[t] \in Conns
    BY DEF TypeOK, HoldsOK
  <2>a. /\ idle' \in Seq(Conns) /\ Len(idle') = Len(idle) + 1
        /\ \A i \in 1..Len(idle) : idle'[i] = idle[i]
        /\ idle'[Len(idle) + 1] = lease[t]
        /\ DOMAIN idle' = 1..Len(idle) + 1 /\ DOMAIN idle = 1..Len(idle)
    BY <2>0 DEF TypeOK
  <2>1. TypeOK'
    BY <2>a DEF TypeOK
  <2>2. HoldsOK'
    BY DEF TypeOK, HoldsOK, ExclusiveLease
  <2>b. Idle' = Idle \cup {lease[t]}
    <3>1. Len(idle) \in Nat
      BY DEF TypeOK
    <3>2. ASSUME NEW x \in Idle' PROVE x \in Idle \cup {lease[t]}
      <4>1. PICK i \in DOMAIN idle' : x = idle'[i]
        BY <3>2 DEF Idle
      <4>2. CASE i = Len(idle) + 1
        BY <4>1, <4>2, <2>a
      <4>3. CASE i \in 1..Len(idle)
        BY <4>1, <4>3, <2>a DEF Idle
      <4> QED
        BY <4>2, <4>3, <2>a, <3>1
    <3>3. ASSUME NEW x \in Idle \cup {lease[t]} PROVE x \in Idle'
      <4>1. CASE x = lease[t]
        BY <4>1, <2>a, <3>1 DEF Idle
      <4>2. CASE x \in Idle
        <5>1. PICK i \in DOMAIN idle : x = idle[i]
          BY <4>2 DEF Idle
        <5>2. i \in DOMAIN idle' /\ idle'[i] = x
          BY <5>1, <2>a, <3>1
        <5> QED
          BY <5>2 DEF Idle
      <4> QED
        BY <4>1, <4>2
    <3> QED
      BY <3>2, <3>3
  <2>3. ExclusiveLease'
    <3>1. \A i, j \in DOMAIN idle' : idle'[i] = idle'[j] => i = j
      <4>1. lease[t] \notin Idle
        BY <2>0 DEF ExclusiveLease, HoldsOK, TypeOK
      <4> QED
        BY <2>a, <4>1, SMTT(30) DEF ExclusiveLease, Idle, TypeOK
    <3>2. /\ lease[t] # None /\ alloc' = alloc /\ invalid' = invalid
          /\ lease' = [lease EXCEPT ![t] = None] /\ DOMAIN lease = Threads
      BY DEF HoldsOK, TypeOK
    <3> HIDE <1>12 DEF ReleasePush, Pushed, Go, connVars
    <3>3. lease[t] \in alloc \ Idle
      BY <3>2 DEF ExclusiveLease
    <3>4. Idle' \subseteq alloc'
      BY <2>b, <3>2, <3>3 DEF ExclusiveLease
    <3>5. ASSUME NEW u \in Threads
          PROVE  /\ lease'[u] # None => lease'[u] \in alloc' \ Idle'
                 /\ invalid'[u] \subseteq alloc' \ Idle'
      BY <2>b, <3>2 DEF ExclusiveLease
    <3>6. ASSUME NEW u \in Threads, NEW v \in Threads
          PROVE  /\ lease'[u] # None => lease'[u] \notin invalid'[v]
                 /\ u # v /\ lease'[u] # None => lease'[u] # lease'[v]
                 /\ u # v => invalid'[u] \cap invalid'[v] = {}
      BY <3>2 DEF ExclusiveLease
    <3> QED
      BY <3>1, <3>4, <3>5, <3>6 DEF ExclusiveLease
  <2>4. ReuseOK'
    BY <2>b DEF HoldsOK, ReuseOK
  <2> QED
    BY <2>1, <2>2, <2>3, <2>4 DEF IInv
<1>13. CASE DestroyPool
  <2> USE <1>13 DEF DestroyPool, connVars, threadVars
  <2>0. total' \in 0..Word - 1
    BY LessType DEF TypeOK
  <2>a. idle' \in Seq(Conns)
    <3> HIDE <1>13
    <3>1. <<>> \in Seq(Conns)
      OBVIOUS
    <3> QED
      BY <1>13, <3>1
  <2>b. alive' \in BOOLEAN
    BY Zenon
  <2>c. alloc' \subseteq Conns
    BY DEF TypeOK
  <2>1. TypeOK'
    BY <2>0, <2>a, <2>b, <2>c DEF TypeOK
  <2>2. HoldsOK'
    BY DEF TypeOK, HoldsOK
  <2>3. ExclusiveLease'
    BY DEF TypeOK, HoldsOK, ExclusiveLease, Idle
  <2>4. ReuseOK'
    BY DEF ReuseOK, Idle
  <2> QED
    BY <2>1, <2>2, <2>3, <2>4 DEF IInv
<1> QED
  BY <1>1, <1>2, <1>3, <1>4, <1>5, <1>6, <1>7, <1>8, <1>9, <1>10, <1>11, <1>12, <1>13
  DEF Next

LEMMA IInvInit == Init => IInv
  BY ConstantsAssumption, WordType
  DEF Init, IInv, TypeOK, HoldsOK, ExclusiveLease, ReuseOK, Idle

LEMMA IInvAlways == Spec => []IInv
  BY IInvInit, IInvStep, PTL DEF Spec

\* Every variable keeps its type: in particular the lease of a thread that is
\* sending is a connection, and total_ stays in its word.
THEOREM TypeCorrect == Spec => []TypeOK
  BY IInvAlways, PTL DEF IInv

\* For any number of threads, connections and requests, getConnection() and
\* releaseConnection() never put one connection in two hands or leave a deleted
\* one reachable.
THEOREM LeasesAreExclusive == Spec => []ExclusiveLease
  BY IInvAlways, PTL DEF IInv

\* For any interleaving and any request abandoned half way, sendRequest() and
\* recvResponse() keep a connection that still owes a response out of the deque.
THEOREM ReuseIsClean == Spec => []CleanReuse
<1>1. ReuseOK => CleanReuse
  BY DEF ReuseOK, CleanReuse
<1> QED
  BY <1>1, IInvAlways, PTL DEF IInv

-----------------------------------------------------------------------------
(* The atomic counter and the limit. *)

LEMMA WordSmall == \A x \in 0..Word - 1 : x % Word = x
  BY WordType, SMT

\* What adding and removing does to the cardinalities.
LEMMA Sizes ==
  /\ \A S \in SUBSET Conns : \A x \in Conns \ S : Cardinality(S \cup {x}) = Cardinality(S) + 1
  /\ \A S \in SUBSET Threads : \A x \in Threads \ S : Cardinality(S \cup {x}) = Cardinality(S) + 1
  /\ \A S \in SUBSET Conns : \A x \in S : Cardinality(S \ {x}) = Cardinality(S) - 1
  /\ \A S \in SUBSET Threads : \A x \in S : Cardinality(S \ {x}) = Cardinality(S) - 1
  /\ \A S \in SUBSET Conns : \A T \in SUBSET S :
        Cardinality(S \ T) = Cardinality(S) - Cardinality(T)
  /\ \A S \in SUBSET Conns : \A T \in SUBSET S : Cardinality(T) <= Cardinality(S)
  /\ \A S \in SUBSET Threads : \A T \in SUBSET S : Cardinality(T) <= Cardinality(S)
<1>1. /\ \A S \in SUBSET Conns : \A x \in Conns \ S : Cardinality(S \cup {x}) = Cardinality(S) + 1
      /\ \A S \in SUBSET Threads : \A x \in Threads \ S :
            Cardinality(S \cup {x}) = Cardinality(S) + 1
  BY Finite, FS_AddElement
<1>2. /\ \A S \in SUBSET Conns : \A x \in S : Cardinality(S \ {x}) = Cardinality(S) - 1
      /\ \A S \in SUBSET Threads : \A x \in S : Cardinality(S \ {x}) = Cardinality(S) - 1
  BY Finite, FS_RemoveElement
<1>3. /\ \A S \in SUBSET Conns : \A T \in SUBSET S : Cardinality(T) <= Cardinality(S)
      /\ \A S \in SUBSET Threads : \A T \in SUBSET S : Cardinality(T) <= Cardinality(S)
  BY Finite, FS_Subset
<1>4. ASSUME NEW S \in SUBSET Conns, NEW T \in SUBSET S
      PROVE  Cardinality(S \ T) = Cardinality(S) - Cardinality(T)
  <2>1. S \cap T = T /\ IsFiniteSet(S)
    BY Finite
  <2> QED
    BY <2>1, FS_Difference
<1> QED
  BY <1>1, <1>2, <1>3, <1>4

LEMMA AccountingStep ==
  ASSUME IInv, Accounting, [Next]_vars
  PROVE  Accounting'
<1> DEFINE Counted == total' = Cardinality(alloc') + Cardinality(reserved')
<1> SUFFICES ASSUME alive' PROVE Counted
  BY DEF Accounting
<1> USE ConstantsAssumption
<1>0. /\ alloc \in SUBSET Conns /\ reserved \in SUBSET Threads
      /\ total \in 0..Word - 1 /\ Word \in Nat \ {0}
      /\ Cardinality(alloc) \in Nat /\ Cardinality(reserved) \in Nat
      /\ Cardinality(alloc) <= Cardinality(Conns)
      /\ \A t \in Threads : invalid[t] \in SUBSET alloc
  BY WordType, Finite, Sizes DEF IInv, TypeOK, ExclusiveLease
<1>1. alive
  BY DEF Next, vars, Tick, DestroyPool, GetBegin, GetLocked, GetDrop, ConnectOk,
     ConnectFails, SendRequest, RecvResponse, ReleaseOrphan, ReleaseBad, ReleaseGood,
     ReleasePush
<1>2. total = Cardinality(alloc) + Cardinality(reserved)
  BY <1>1 DEF Accounting
<1>3. \A n \in 0..total : Less(n) = total - n
  <2>1. ASSUME NEW n \in 0..total PROVE total - n \in 0..Word - 1
    BY <1>0
  <2> QED
    BY <2>1, WordSmall DEF Less
<1>4. CASE UNCHANGED <<total, alloc, reserved>>
  BY <1>2, <1>4
<1>5. ASSUME NEW t \in Threads, GetLocked(t) PROVE Counted
  <2>1. CASE UNCHANGED <<total, reserved>>
    BY <1>4, <1>5, <2>1 DEF GetLocked
  <2>2. CASE total' = (total + 1) % Word /\ reserved' = reserved \cup {t}
    <3>1. t \notin reserved
      BY <1>5 DEF GetLocked, IInv, HoldsOK
    <3>2. reserved' \in SUBSET Threads /\ Cardinality(reserved') = Cardinality(reserved) + 1
      BY <1>0, <2>2, <3>1, Sizes
    <3>3. Cardinality(reserved') <= Cardinality(Threads)
      BY <3>2, Sizes
    <3>4. total + 1 \in 0..Word - 1
      BY <1>0, <1>2, <3>2, <3>3, Finite
    <3>5. total' = total + 1
      BY <2>2, <3>4, WordSmall
    <3>6. UNCHANGED alloc
      BY <1>5 DEF GetLocked
    <3> QED
      BY <1>0, <1>2, <3>2, <3>5, <3>6
  <2> QED
    BY <1>5, <2>1, <2>2 DEF GetLocked
<1>6. ASSUME NEW t \in Threads, GetDrop(t) PROVE Counted
  <2>1. /\ Cardinality(invalid[t]) \in Nat
        /\ Cardinality(invalid[t]) <= Cardinality(alloc)
        /\ Cardinality(alloc \ invalid[t]) = Cardinality(alloc) - Cardinality(invalid[t])
    BY <1>0, Sizes, Finite
  <2>2. Cardinality(invalid[t]) \in 0..total
    BY <1>0, <1>2, <2>1
  <2>3. /\ total' = Less(Cardinality(invalid[t])) /\ alloc' = alloc \ invalid[t]
        /\ UNCHANGED reserved
    BY <1>6 DEF GetDrop, CountOff
  <2> QED
    BY <1>0, <1>2, <1>3, <2>1, <2>2, <2>3
<1>7. ASSUME NEW t \in Threads, ConnectOk(t) PROVE Counted
  <2>1. PICK c \in Conns \ alloc : alloc' = alloc \cup {c}
    BY <1>7 DEF ConnectOk
  <2>2. t \in reserved /\ reserved' = reserved \ {t} /\ UNCHANGED total
    BY <1>7 DEF ConnectOk, IInv, HoldsOK
  <2>3. /\ Cardinality(alloc') = Cardinality(alloc) + 1
        /\ Cardinality(reserved') = Cardinality(reserved) - 1
    BY <1>0, <2>1, <2>2, Sizes
  <2> QED
    BY <1>0, <1>2, <2>2, <2>3
<1>8. ASSUME NEW t \in Threads, ConnectFails(t) PROVE Counted
  <2>1. /\ t \in reserved /\ reserved' = reserved \ {t} /\ UNCHANGED alloc
        /\ total' = Less(1)
    BY <1>8 DEF ConnectFails, SlotBack, IInv, HoldsOK
  <2>2. Cardinality(reserved') = Cardinality(reserved) - 1 /\ Cardinality(reserved') \in Nat
    BY <1>0, <2>1, Sizes, Finite
  <2>3. 1 \in 0..total
    BY <1>0, <1>2, <2>2
  <2> QED
    BY <1>0, <1>2, <1>3, <2>1, <2>2, <2>3
<1>9. ASSUME NEW t \in Threads, ReleaseBad(t) PROVE Counted
  <2>1. /\ lease[t] \in alloc /\ alloc' = alloc \ {lease[t]} /\ UNCHANGED reserved
        /\ total' = Less(1)
    BY <1>9 DEF ReleaseBad, Held, IInv, HoldsOK, ExclusiveLease
  <2>2. Cardinality(alloc') = Cardinality(alloc) - 1 /\ Cardinality(alloc') \in Nat
    BY <1>0, <2>1, Sizes, Finite
  <2>3. 1 \in 0..total
    BY <1>0, <1>2, <2>2
  <2> QED
    BY <1>0, <1>2, <1>3, <2>1, <2>2, <2>3
<1> QED
  BY <1>1, <1>4, <1>5, <1>6, <1>7, <1>8, <1>9
  DEF Next, vars, Tick, DestroyPool, GetBegin, SendRequest, RecvResponse, ReleaseOrphan,
      ReleaseGood, ReleasePush, threadVars

\* The pool shrinks in every step but two.
LEMMA CapacityShrinks ==
  ASSUME IInv, Capacity, Live' \subseteq Live, reserved' \subseteq reserved, alive' => alive
  PROVE  Capacity'
<1>1. Live \in SUBSET Conns /\ reserved \in SUBSET Threads
  BY DEF IInv, TypeOK, Live
<1>2. Cardinality(Live') <= Cardinality(Live) /\ Cardinality(reserved') <= Cardinality(reserved)
  BY <1>1, Sizes
<1>3. /\ Cardinality(Live) \in Nat /\ Cardinality(reserved) \in Nat
      /\ Cardinality(Live') \in Nat /\ Cardinality(reserved') \in Nat
  BY <1>1, Finite
<1> QED
  BY <1>2, <1>3, ConstantsAssumption DEF Capacity

LEMMA CapacityStep ==
  ASSUME IInv, Accounting, Capacity, [Next]_vars
  PROVE  Capacity'
<1> USE ConstantsAssumption
<1>0. /\ alloc \in SUBSET Conns /\ reserved \in SUBSET Threads
      /\ Live \in SUBSET Conns /\ total \in 0..Word - 1 /\ Word \in Nat \ {0}
      /\ Cardinality(alloc) \in Nat /\ Cardinality(reserved) \in Nat
      /\ Cardinality(Live) \in Nat
  BY WordType, Finite DEF IInv, TypeOK, Live
<1>1. CASE Tick \/ DestroyPool \/ UNCHANGED vars
  <2>1. /\ alloc' \subseteq alloc /\ UNCHANGED <<invalid, reserved>> /\ (alive' => alive)
    BY <1>1 DEF Tick, DestroyPool, vars, threadVars
  <2>2. Live' \subseteq Live
    BY <2>1 DEF Live
  <2> QED
    BY <2>1, <2>2, CapacityShrinks
<1>2. ASSUME NEW t \in Threads,
             \/ GetBegin(t) \/ SendRequest(t) \/ RecvResponse(t) \/ ReleaseOrphan(t)
             \/ ReleaseBad(t) \/ ReleaseGood(t) \/ ReleasePush(t) \/ ConnectFails(t)
      PROVE  Capacity'
  <2>1. /\ alloc' \subseteq alloc /\ UNCHANGED invalid /\ reserved' \subseteq reserved
        /\ (alive' => alive)
    BY <1>2 DEF GetBegin, SendRequest, RecvResponse, ReleaseOrphan, ReleaseBad,
       ReleaseGood, ReleasePush, ConnectFails
  <2>2. Live' \subseteq Live
    BY <2>1 DEF Live
  <2> QED
    BY <2>1, <2>2, CapacityShrinks
<1>3. ASSUME NEW t \in Threads, GetLocked(t) PROVE Capacity'
  <2>1. PICK k \in 0..Len(idle) :
            /\ invalid' = [invalid EXCEPT ![t] = {idle[i] : i \in 1..k}]
            /\ \/ UNCHANGED reserved
               \/ HasSlot({idle[i] : i \in 1..k}) /\ reserved' = reserved \cup {t}
    BY <1>3 DEF GetLocked
  <2> DEFINE gone == {idle[i] : i \in 1..k}
  <2>2. gone \in SUBSET alloc
    <3>1. \A i \in 1..k : i \in DOMAIN idle
      BY DEF IInv, TypeOK
    <3> QED
      BY <3>1 DEF IInv, ExclusiveLease, Idle
  <2>3. /\ invalid' = [invalid EXCEPT ![t] = gone]
        /\ UNCHANGED reserved \/ (HasSlot(gone) /\ reserved' = reserved \cup {t})
    BY <2>1
  <2> HIDE DEF gone
  <2>4. invalid[t] = {} /\ t \notin reserved /\ invalid \in [Threads -> SUBSET Conns]
    BY <1>3 DEF GetLocked, IInv, HoldsOK, TypeOK
  <2>5. UNCHANGED <<alloc, alive>>
    BY <1>3 DEF GetLocked
  <2>6. Live' \subseteq Live /\ Live' \subseteq alloc \ gone
    BY <2>3, <2>4, <2>5 DEF Live
  <2>7. CASE UNCHANGED reserved
    BY <2>5, <2>6, <2>7, CapacityShrinks
  <2>8. CASE HasSlot(gone) /\ reserved' = reserved \cup {t} /\ alive
    <3>1. /\ Cardinality(gone) \in Nat /\ Cardinality(gone) <= Cardinality(alloc)
          /\ Cardinality(alloc \ gone) = Cardinality(alloc) - Cardinality(gone)
          /\ Cardinality(Live') <= Cardinality(alloc \ gone) /\ Cardinality(Live') \in Nat
          /\ Cardinality(reserved') = Cardinality(reserved) + 1
      BY <1>0, <2>2, <2>4, <2>6, <2>8, Sizes, Finite
    <3>2. total = Cardinality(alloc) + Cardinality(reserved)
      BY <2>8 DEF Accounting
    <3>3. total - Cardinality(gone) \in 0..Word - 1
      BY <1>0, <3>1, <3>2, SMTT(30)
    <3>a. (total - Cardinality(gone)) % Word = total - Cardinality(gone)
      BY <3>3, WordSmall
    <3>4. total - Cardinality(gone) < MaxSize
      BY <2>8, <3>a DEF HasSlot, Less
    <3>b. /\ Cardinality(Live') <= Cardinality(alloc) - Cardinality(gone)
          /\ Cardinality(reserved') = Cardinality(reserved) + 1
          /\ Cardinality(Live') \in Nat /\ Cardinality(gone) \in Nat
      BY <3>1
    <3>5. Cardinality(Live') + Cardinality(reserved') <= MaxSize
      <4> DEFINE l == Cardinality(Live')
                 r == Cardinality(reserved')
                 a == Cardinality(alloc)
                 g == Cardinality(gone)
                 q == Cardinality(reserved)
      <4>1. /\ l <= a - g /\ r = q + 1 /\ l \in Nat /\ g \in Nat /\ a \in Nat /\ q \in Nat
            /\ a + q - g < MaxSize /\ MaxSize \in Nat
        BY <1>0, <3>b, <3>2, <3>4
      <4> HIDE DEF l, r, a, g, q
      <4>2. l + r <= MaxSize
        BY <4>1, SMT
      <4> QED
        BY <4>2 DEF l, r
    <3> QED
      BY <3>5 DEF Capacity
  <2>9. CASE ~alive
    BY <2>5, <2>9 DEF Capacity
  <2> QED
    BY <2>3, <2>7, <2>8, <2>9
<1>4. ASSUME NEW t \in Threads, GetDrop(t) PROVE Capacity'
  <2>1. /\ alloc' = alloc \ invalid[t] /\ invalid' = [invalid EXCEPT ![t] = {}]
        /\ UNCHANGED <<reserved, alive>>
    BY <1>4 DEF GetDrop
  <2>2. Live' \subseteq Live
    BY <2>1 DEF Live, IInv, TypeOK
  <2> QED
    BY <2>1, <2>2, CapacityShrinks
<1>5. ASSUME NEW t \in Threads, ConnectOk(t) PROVE Capacity'
  <2>1. PICK c \in Conns \ alloc : alloc' = alloc \cup {c}
    BY <1>5 DEF ConnectOk
  <2>2. t \in reserved /\ reserved' = reserved \ {t} /\ UNCHANGED <<alive, invalid>>
    BY <1>5 DEF ConnectOk, IInv, HoldsOK
  <2>3. Live' \subseteq Live \cup {c} /\ c \notin Live
    BY <2>1, <2>2 DEF Live
  <2>4. /\ Cardinality(Live \cup {c}) = Cardinality(Live) + 1
        /\ Cardinality(Live') <= Cardinality(Live \cup {c})
        /\ Cardinality(reserved') = Cardinality(reserved) - 1
        /\ Cardinality(Live') \in Nat
    <3>1. Live \cup {c} \in SUBSET Conns /\ Live' \in SUBSET (Live \cup {c})
      BY <1>0, <2>1, <2>3
    <3> QED
      BY <1>0, <2>2, <2>3, <3>1, Sizes, Finite
  <2> QED
    BY <1>0, <2>2, <2>4 DEF Capacity
<1> QED
  BY <1>1, <1>2, <1>3, <1>4, <1>5 DEF Next

\* total_ is exact and the limit holds for any number of threads, any max_size_
\* and any interleaving of getConnection(), connect() and releaseConnection().
THEOREM PoolIsBounded == Spec => [](Accounting /\ Capacity)
<1>1. Init => Accounting /\ Capacity
  <2>1. Cardinality({}) = 0
    BY FS_EmptySet
  <2>2. Init => Live = {}
    BY DEF Init, Live
  <2>3. Init => Accounting
    BY <2>1 DEF Init, Accounting
  <2>4. ASSUME Init PROVE Cardinality(Live) + Cardinality(reserved) <= MaxSize
    <3>1. Cardinality(Live) = 0 /\ Cardinality(reserved) = 0
      BY <2>1, <2>2, <2>4 DEF Init
    <3> QED
      BY <3>1, ConstantsAssumption
  <2> QED
    BY <2>3, <2>4 DEF Capacity
<1>2. IInv /\ Accounting /\ Capacity /\ [Next]_vars => (Accounting /\ Capacity)'
  BY AccountingStep, CapacityStep
<1> QED
  BY <1>1, <1>2, IInvAlways, PTL DEF Spec

\* total_ is never off: it counts the connections that exist and the slots that
\* getConnection() has reserved, whatever threads fail, time out or give back.
THEOREM CounterIsExact == Spec => []Accounting
  BY PoolIsBounded, PTL
==============================================================================
