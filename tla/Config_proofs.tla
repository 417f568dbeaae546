---------------------------- MODULE Config_proofs ----------------------------
(***************************************************************************)
(* Proofs about Config and the Logger it reports to, for every number of   *)
(* threads, names, values and listeners and every content of the file.     *)
(***************************************************************************)
EXTENDS Config, FiniteSetTheorems, SequenceTheorems, TLAPS

-----------------------------------------------------------------------------
(* Types. *)

\* The points of a call.
Points == {"idle", "find", "emplace", "assert", "abort", "notify", "listen", "load", "apply"}

Members == Names \X (Values \cup {Bad})

CallRec == [pc : Points, name : Names \cup {""}, type : Types \cup {""}, var : Nat,
            old : Values, new : Values, todo : Seq(Listeners), time : Int,
            yaml : SUBSET Members]

VarRec == [name : Names, type : Types, value : Values, listeners : Seq(Listeners)]

YamlOK(y) == \/ y = Broken
             \/ DOMAIN y \subseteq Names /\ \A n \in DOMAIN y : y[n] \in Values \cup {Bad}

ConfTypes ==
    /\ vars_ \in Seq(VarRec) /\ datas \in [Names -> Nat]
    /\ at \in [Threads -> CallRec] /\ holds \in [Threads -> SUBSET Nat]
    /\ net \in Seq([Values -> Int]) /\ Len(net) = Len(vars_)
    /\ file.time \in Nat /\ YamlOK(file.yaml) /\ applied \in Int /\ mark \in Int

\* Every reference to a variable leads to one: from the table to the variable of
\* the name, from a call to the one it made or changes, and from a user to the
\* one the table has.
RefsOK ==
    /\ \A n \in Names : datas[n] # 0 =>
          datas[n] \in 1..Len(vars_) /\ vars_[datas[n]].name = n
    /\ \A t \in Threads : \A o \in holds[t] :
          o \in 1..Len(vars_) /\ datas[vars_[o].name] = o
    /\ \A t \in Threads :
          /\ at[t].pc \in {"find", "emplace"} => at[t].name \in Names /\ at[t].type \in Types
          /\ at[t].pc = "emplace" =>
                at[t].var \in 1..Len(vars_) /\ vars_[at[t].var].name = at[t].name
          /\ at[t].pc \in {"notify", "listen"} => at[t].var \in 1..Len(vars_)
          /\ at[t].pc = "listen" => at[t].todo # <<>>

LEMMA IdleRec == Idle \in CallRec
  BY ConfigAssumption DEF Idle, CallRec, Points

LEMMA IdleAt == Idle.pc = "idle" /\ Idle.time = -1
  BY DEF Idle

\* Where a call goes on.
LEMMA ResumeRec ==
  ASSUME NEW s \in CallRec
  PROVE  /\ Resume(s) \in CallRec /\ Resume(s).time = s.time
         /\ Resume(s).pc \in {"apply", "idle"}
<1> DEFINE p == IF s.time >= 0 THEN "apply" ELSE "idle"
           r == [Idle EXCEPT !.pc = p, !.time = s.time, !.yaml = s.yaml]
<1>1. p \in {"apply", "idle"} /\ p \in Points
  BY DEF Points
<1> HIDE DEF p
<1>2. r \in CallRec /\ r.time = s.time /\ r.pc = p
  BY <1>1, IdleRec DEF CallRec
<1>3. Resume(s) = r
  BY DEF Resume, p
<1> HIDE DEF r
<1> QED
  BY <1>1, <1>2, <1>3

\* Variables are added, and a variable changes its value and its listeners, never
\* its name.
NamesKept ==
    /\ vars_' \in Seq(VarRec) /\ Len(vars_) <= Len(vars_')
    /\ \A o \in 1..Len(vars_) : vars_'[o].name = vars_[o].name

\* The table keeps its entries; a new one is the variable of its name.
TableKept ==
    /\ datas' \in [Names -> Nat]
    /\ \A n \in Names :
          IF datas[n] # 0 THEN datas'[n] = datas[n]
          ELSE datas'[n] # 0 => datas'[n] \in 1..Len(vars_') /\ vars_'[datas'[n]].name = n

\* What is handed out is what the table has.
HandedOut ==
    /\ holds' \in [Threads -> SUBSET Nat]
    /\ \A u \in Threads : \A o \in holds'[u] :
          o \in holds[u] \/ (o \in 1..Len(vars_') /\ datas'[vars_'[o].name] = o)

\* A step's effect on the thread's own record.
Moves(t, s) ==
    /\ s \in CallRec /\ at' = [at EXCEPT ![t] = s]
    /\ s.pc \in {"find", "emplace"} => s.name \in Names /\ s.type \in Types
    /\ s.pc = "emplace" => s.var \in 1..Len(vars_') /\ vars_'[s.var].name = s.name
    /\ s.pc \in {"notify", "listen"} => s.var \in 1..Len(vars_')
    /\ s.pc = "listen" => s.todo # <<>>

\* Outside LoadFromConfDir() itself a call keeps its time or drops it.
KeepsTime(t, s) ==
    s.time = -1 \/ (s.time = at[t].time /\ s.pc # "load" /\ at[t].pc # "load")

LEMMA RefsFrame ==
  ASSUME ConfTypes, RefsOK, NEW t \in Threads, NEW s, Moves(t, s), NamesKept, TableKept, HandedOut
  PROVE  RefsOK'
<1>1. Len(vars_) \in Nat /\ Len(vars_') \in Nat
  BY LenProperties DEF ConfTypes, NamesKept
<1>2. ASSUME NEW n \in Names, datas'[n] # 0
      PROVE  datas'[n] \in 1..Len(vars_') /\ vars_'[datas'[n]].name = n
  BY <1>1, <1>2 DEF NamesKept, TableKept, RefsOK, ConfTypes
<1>3. ASSUME NEW u \in Threads, NEW o \in holds'[u]
      PROVE  o \in 1..Len(vars_') /\ datas'[vars_'[o].name] = o
  <2>1. CASE o \in holds[u]
    <3>1. o \in 1..Len(vars_) /\ datas[vars_[o].name] = o /\ vars_'[o].name = vars_[o].name
      BY <2>1 DEF RefsOK, NamesKept
    <3>2. vars_[o].name \in Names
      <4>1. vars_[o] \in VarRec
        BY <3>1, ElementOfSeq DEF ConfTypes
      <4> QED
        BY <4>1 DEF VarRec
    <3>3. o # 0
      BY <1>1, <3>1
    <3>4. datas'[vars_[o].name] = o
      BY <3>1, <3>2, <3>3 DEF TableKept
    <3> QED
      BY <1>1, <3>1, <3>4 DEF NamesKept
  <2> QED
    BY <1>3, <2>1 DEF HandedOut
<1>4. ASSUME NEW u \in Threads
      PROVE  /\ at'[u].pc \in {"find", "emplace"} => at'[u].name \in Names /\ at'[u].type \in Types
             /\ at'[u].pc = "emplace" =>
                    at'[u].var \in 1..Len(vars_') /\ vars_'[at'[u].var].name = at'[u].name
             /\ at'[u].pc \in {"notify", "listen"} => at'[u].var \in 1..Len(vars_')
             /\ at'[u].pc = "listen" => at'[u].todo # <<>>
  <2>1. CASE u = t
    <3>1. at'[u] = s
      BY <2>1 DEF Moves, ConfTypes
    <3> QED
      BY <3>1 DEF Moves
  <2>2. CASE u # t
    <3>1. at'[u] = at[u]
      BY <2>2 DEF Moves, ConfTypes
    <3> QED
      BY <1>1, <3>1 DEF RefsOK, NamesKept
  <2> QED
    BY <2>1, <2>2
<1> QED
  BY <1>2, <1>3, <1>4 DEF RefsOK

LEMMA VarAt ==
  ASSUME ConfTypes, NEW o \in 1..Len(vars_)
  PROVE  /\ vars_ \in Seq(VarRec) /\ vars_[o] \in VarRec /\ vars_[o].name \in Names
         /\ vars_[o].type \in Types /\ vars_[o].value \in Values
         /\ vars_[o].listeners \in Seq(Listeners) /\ o \in Nat
<1>1. vars_ \in Seq(VarRec)
  BY DEF ConfTypes
<1>2. vars_[o] \in VarRec
  BY <1>1, ElementOfSeq
<1> QED
  BY <1>1, <1>2 DEF VarRec

\* setValue()
LEMMA SwapMoves ==
  ASSUME ConfTypes, NEW t \in Threads, NEW o \in 1..Len(vars_), NEW v \in Values,
         NEW s \in CallRec, Swap(t, o, v, s), s.pc \in {"idle", "apply"}, KeepsTime(t, s)
  PROVE  NamesKept /\ Len(vars_') = Len(vars_) /\ \E r : Moves(t, r) /\ KeepsTime(t, r)
<1>1. NamesKept /\ Len(vars_') = Len(vars_)
  <2>1. vars_' = [vars_ EXCEPT ![o] = [vars_[o] EXCEPT !.value = v]]
    BY DEF Swap
  <2>2. [vars_[o] EXCEPT !.value = v] \in VarRec /\ [vars_[o] EXCEPT !.value = v].name = vars_[o].name
    BY VarAt DEF VarRec
  <2> QED
    BY VarAt, <2>1, <2>2 DEF NamesKept
<1>2. CASE vars_[o].value = v
  <2>1. at' = [at EXCEPT ![t] = s]
    BY <1>2 DEF Swap, Goto
  <2>2. Moves(t, s)
    BY <2>1 DEF Moves
  <2> QED
    BY <1>1, <2>2
<1>3. CASE vars_[o].value # v
  <2> DEFINE r == [s EXCEPT !.pc = "notify", !.var = o, !.old = vars_[o].value, !.new = v]
  <2>1. at' = [at EXCEPT ![t] = r]
    BY <1>3 DEF Swap, Goto
  <2>2. r \in CallRec /\ r.pc = "notify" /\ r.var = o /\ r.time = s.time
    BY VarAt DEF CallRec, Points
  <2> HIDE DEF r
  <2>3. Moves(t, r) /\ KeepsTime(t, r)
    BY <1>1, <2>1, <2>2 DEF Moves, KeepsTime
  <2> QED
    BY <1>1, <2>3
<1> QED
  BY <1>2, <1>3

\* What stays as it is.
LEMMA Frames ==
  ASSUME ConfTypes
  PROVE  /\ UNCHANGED vars_ => NamesKept
         /\ UNCHANGED datas => TableKept
         /\ UNCHANGED holds => HandedOut
  BY LenProperties DEF ConfTypes, NamesKept, TableKept, HandedOut

LEMMA StayMoves ==
  ASSUME ConfTypes, RefsOK, NEW t \in Threads, UNCHANGED at, NamesKept, at[t].pc # "load"
  PROVE  Moves(t, at[t]) /\ KeepsTime(t, at[t])
<1>1. Len(vars_) \in Nat /\ Len(vars_') \in Nat
  BY LenProperties DEF ConfTypes, NamesKept
<1>2. at' = [at EXCEPT ![t] = at[t]] /\ at[t] \in CallRec
  BY DEF ConfTypes
<1>3. KeepsTime(t, at[t])
  BY DEF KeepsTime
<1>4. ASSUME at[t].pc = "emplace"
      PROVE  at[t].var \in 1..Len(vars_') /\ vars_'[at[t].var].name = at[t].name
  BY <1>1, <1>4 DEF RefsOK, NamesKept
<1>5. ASSUME at[t].pc \in {"notify", "listen"} PROVE at[t].var \in 1..Len(vars_')
  BY <1>1, <1>5 DEF RefsOK, NamesKept
<1>6. /\ at[t].pc \in {"find", "emplace"} => at[t].name \in Names /\ at[t].type \in Types
      /\ at[t].pc = "listen" => at[t].todo # <<>>
  BY DEF RefsOK
<1> QED
  BY <1>2, <1>3, <1>4, <1>5, <1>6 DEF Moves

LEMMA IdleMoves ==
  ASSUME NEW t \in Threads, Goto(t, Idle)
  PROVE  Moves(t, Idle) /\ KeepsTime(t, Idle)
  BY IdleRec, IdleAt DEF Moves, KeepsTime, Goto

LEMMA ResumeMoves ==
  ASSUME ConfTypes, NEW t \in Threads, Goto(t, Resume(at[t])), at[t].pc # "load"
  PROVE  Moves(t, Resume(at[t])) /\ KeepsTime(t, Resume(at[t]))
<1>1. at[t] \in CallRec
  BY DEF ConfTypes
<1> QED
  BY <1>1, ResumeRec DEF Moves, KeepsTime, Goto

\* A record that only waits for an assertion, a load or its next member.
LEMMA PlainMoves ==
  ASSUME ConfTypes, NEW t \in Threads, NEW s \in CallRec, Goto(t, s),
         s.pc \in {"idle", "assert", "abort", "load", "apply"}
  PROVE  Moves(t, s)
  BY DEF Moves, Goto

LEMMA HandOne ==
  ASSUME ConfTypes, NEW t \in Threads, NEW o \in Nat, o \in 1..Len(vars_'),
         datas'[vars_'[o].name] = o,
         UNCHANGED holds \/ holds' = [holds EXCEPT ![t] = @ \cup {o}]
  PROVE  HandedOut
<1>1. holds \in [Threads -> SUBSET Nat]
  BY DEF ConfTypes
<1>2. CASE holds' = [holds EXCEPT ![t] = @ \cup {o}]
  BY <1>1, <1>2 DEF HandedOut
<1> QED
  BY <1>2, Frames

\* CheckType()
LEMMA CheckMoves ==
  ASSUME ConfTypes, NEW t \in Threads, NEW v, Check(t, v)
  PROVE  /\ \E s : Moves(t, s) /\ KeepsTime(t, s)
         /\ UNCHANGED holds \/ holds' = [holds EXCEPT ![t] = @ \cup {v.var}]
<1>1. CASE v.type = at[t].type
  BY <1>1, IdleMoves DEF Check
<1>2. CASE v.type # at[t].type
  <2> DEFINE s == [Idle EXCEPT !.pc = "assert"]
  <2>1. s \in CallRec /\ s.pc = "assert" /\ s.time = -1
    BY IdleRec, IdleAt DEF CallRec, Points
  <2>2. Goto(t, s) /\ UNCHANGED holds
    BY <1>2 DEF Check
  <2> HIDE DEF s
  <2>3. Moves(t, s) /\ KeepsTime(t, s)
    BY <2>1, <2>2, PlainMoves DEF KeepsTime
  <2> QED
    BY <2>2, <2>3
<1> QED
  BY <1>1, <1>2

Effect(t) ==
    /\ NamesKept /\ TableKept /\ HandedOut
    /\ \E s : Moves(t, s) /\ (KeepsTime(t, s) \/ LoadFromConfDir(t) \/ LoadFile(t))

LEMMA LookupEffect ==
  ASSUME ConfTypes, RefsOK, NEW t \in Threads, Lookup(t)
  PROVE  Effect(t)
<1>1. PICK n \in Names, ty \in Types :
          \/ Goto(t, Idle)
          \/ Goto(t, [Idle EXCEPT !.pc = "find", !.name = n, !.type = ty])
  BY DEF Lookup
<1>2. NamesKept /\ TableKept /\ HandedOut
  BY Frames DEF Lookup
<1>3. CASE Goto(t, Idle)
  BY <1>2, <1>3, IdleMoves DEF Effect
<1>4. CASE Goto(t, [Idle EXCEPT !.pc = "find", !.name = n, !.type = ty])
  <2> DEFINE s == [Idle EXCEPT !.pc = "find", !.name = n, !.type = ty]
  <2>1. s \in CallRec /\ s.pc = "find" /\ s.time = -1 /\ s.name = n /\ s.type = ty
    BY IdleRec, IdleAt DEF CallRec, Points
  <2>2. at' = [at EXCEPT ![t] = s]
    BY <1>4 DEF Goto
  <2> HIDE DEF s
  <2>3. Moves(t, s) /\ KeepsTime(t, s)
    BY <2>1, <2>2 DEF Moves, KeepsTime
  <2> QED
    BY <1>2, <2>3 DEF Effect
<1> QED
  BY <1>1, <1>3, <1>4

LEMMA EmplaceRec ==
  ASSUME NEW r \in CallRec, NEW k \in Nat
  PROVE  LET s == [r EXCEPT !.pc = "emplace", !.var = k]
         IN /\ s \in CallRec /\ s.pc = "emplace" /\ s.var = k /\ s.name = r.name
            /\ s.type = r.type /\ s.time = r.time
  BY DEF CallRec, Points

LEMMA FindEffect ==
  ASSUME ConfTypes, RefsOK, NEW t \in Threads, Find(t)
  PROVE  Effect(t)
<1> DEFINE n == at[t].name
           o == datas[n]
<1>1. at[t].pc = "find" /\ n \in Names /\ at[t].type \in Types /\ at[t] \in CallRec
  BY DEF Find, RefsOK, ConfTypes
<1>2. CASE o # 0
  <2>1. Check(t, [var |-> o, type |-> vars_[o].type]) /\ UNCHANGED <<vars_, datas>>
    BY <1>2 DEF Find
  <2>2. NamesKept /\ TableKept
    BY <2>1, Frames
  <2>3. PICK s : Moves(t, s) /\ KeepsTime(t, s)
    BY <2>1, CheckMoves
  <2>4. UNCHANGED holds \/ holds' = [holds EXCEPT ![t] = @ \cup {o}]
    BY <2>1, CheckMoves
  <2>5. o \in 1..Len(vars_) /\ vars_[o].name = n
    BY <1>1, <1>2 DEF RefsOK
  <2>6. o \in Nat /\ o \in 1..Len(vars_') /\ datas'[vars_'[o].name] = o
    BY <2>1, <2>5, VarAt
  <2>7. HandedOut
    BY <2>4, <2>6, HandOne
  <2> QED
    BY <2>2, <2>3, <2>7 DEF Effect
<1>3. CASE o = 0
  <2> DEFINE s == [at[t] EXCEPT !.pc = "emplace", !.var = Len(vars_) + 1]
             v == NewVar(n, at[t].type)
  <2>0. vars_ \in Seq(VarRec) /\ Len(vars_) \in Nat /\ Len(vars_) + 1 \in Nat
    BY LenProperties DEF ConfTypes
  <2>1. /\ vars_' = Append(vars_, v) /\ at' = [at EXCEPT ![t] = s]
        /\ UNCHANGED <<datas, holds>>
    BY <1>3 DEF Find, Goto
  <2>2. v \in VarRec /\ v.name = n
    BY <1>1, ConfigAssumption DEF NewVar, VarRec
  <2>3. /\ s \in CallRec /\ s.pc = "emplace" /\ s.var = Len(vars_) + 1 /\ s.name = n
        /\ s.type = at[t].type /\ s.time = at[t].time
    BY <1>1, <2>0, EmplaceRec, Zenon
  <2> HIDE DEF s, v
  <2>4. /\ vars_' \in Seq(VarRec) /\ Len(vars_') = Len(vars_) + 1
        /\ \A i \in 1..Len(vars_) : vars_'[i] = vars_[i]
        /\ vars_'[Len(vars_) + 1] = v
    BY <2>0, <2>1, <2>2, AppendProperties
  <2>5. NamesKept
    BY <2>0, <2>4 DEF NamesKept
  <2>6. Moves(t, s) /\ KeepsTime(t, s)
    BY <1>1, <2>0, <2>1, <2>2, <2>3, <2>4 DEF Moves, KeepsTime
  <2> QED
    BY <2>1, <2>5, <2>6, Frames DEF Effect
<1> QED
  BY <1>2, <1>3

LEMMA EmplaceEffect ==
  ASSUME ConfTypes, RefsOK, NEW t \in Threads, Emplace(t)
  PROVE  Effect(t)
<1> DEFINE n == at[t].name
           o == Stored(datas[n], at[t].var)
<1>1. /\ at[t].pc = "emplace" /\ n \in Names /\ at[t].var \in 1..Len(vars_)
      /\ vars_[at[t].var].name = n
  BY DEF Emplace, RefsOK
<1>2. /\ datas' = [datas EXCEPT ![n] = IF @ = 0 THEN at[t].var ELSE @] /\ UNCHANGED vars_
      /\ Check(t, [var |-> o, type |-> vars_[o].type])
  BY DEF Emplace
<1>3. o \in 1..Len(vars_) /\ vars_[o].name = n /\ datas'[n] = o
  BY <1>1, <1>2 DEF Stored, RefsOK, ConfTypes
<1> HIDE DEF o
<1>4. NamesKept
  BY <1>2, Frames
<1>5. TableKept
  BY <1>1, <1>2, VarAt DEF TableKept, ConfTypes
<1>6. PICK s : Moves(t, s) /\ KeepsTime(t, s)
  BY <1>2, CheckMoves
<1>7. UNCHANGED holds \/ holds' = [holds EXCEPT ![t] = @ \cup {o}]
  BY <1>2, CheckMoves
<1>8. o \in Nat /\ o \in 1..Len(vars_') /\ datas'[vars_'[o].name] = o
  BY <1>2, <1>3, VarAt
<1>9. HandedOut
  BY <1>7, <1>8, HandOne
<1> QED
  BY <1>4, <1>5, <1>6, <1>9 DEF Effect

\* DROPLET_ASSERT()
LEMMA AssertEffect ==
  ASSUME ConfTypes, RefsOK, NEW t \in Threads, AssertLogs(t) \/ AssertEnds(t)
  PROVE  Effect(t)
<1>1. NamesKept /\ TableKept /\ HandedOut
  BY Frames DEF AssertLogs, AssertEnds
<1>2. CASE AssertLogs(t)
  <2> DEFINE s == [at[t] EXCEPT !.pc = "abort"]
  <2>1. at[t] \in CallRec /\ at[t].pc = "assert" /\ Goto(t, s)
    BY <1>2 DEF AssertLogs, ConfTypes
  <2>2. s \in CallRec /\ s.pc = "abort" /\ s.time = at[t].time
    BY <2>1 DEF CallRec, Points
  <2> HIDE DEF s
  <2>3. Moves(t, s) /\ KeepsTime(t, s)
    BY <2>1, <2>2, PlainMoves DEF KeepsTime
  <2> QED
    BY <1>1, <2>3 DEF Effect
<1>3. CASE AssertEnds(t)
  <2>1. Moves(t, Resume(at[t])) /\ KeepsTime(t, Resume(at[t]))
    BY <1>3, ResumeMoves DEF AssertEnds
  <2> QED
    BY <1>1, <2>1 DEF Effect
<1> QED
  BY <1>2, <1>3

\* Lookup() without a default.
LEMMA LookupBaseEffect ==
  ASSUME ConfTypes, RefsOK, NEW t \in Threads, LookupBase(t)
  PROVE  Effect(t)
<1>1. UNCHANGED <<vars_, datas, at>> /\ at[t].pc = "idle"
  BY DEF LookupBase, Call
<1>2. NamesKept /\ TableKept
  BY <1>1, Frames
<1>3. Moves(t, at[t]) /\ KeepsTime(t, at[t])
  BY <1>1, <1>2, StayMoves
<1>4. HandedOut
  <2>1. PICK n \in Names, ty \in Types :
            holds' = [holds EXCEPT ![t] = IF datas[n] # 0 /\ vars_[datas[n]].type = ty
                                          THEN @ \cup {datas[n]} ELSE @]
    BY DEF LookupBase
  <2>2. CASE datas[n] # 0 /\ vars_[datas[n]].type = ty
    <3>1. datas[n] \in 1..Len(vars_) /\ vars_[datas[n]].name = n
      BY <2>2 DEF RefsOK
    <3>2. datas[n] \in Nat /\ datas[n] \in 1..Len(vars_') /\ datas'[vars_'[datas[n]].name] = datas[n]
      BY <1>1, <3>1, VarAt
    <3>3. holds' = [holds EXCEPT ![t] = @ \cup {datas[n]}]
      BY <2>1, <2>2
    <3> QED
      BY <3>2, <3>3, HandOne
  <2>3. CASE ~(datas[n] # 0 /\ vars_[datas[n]].type = ty)
    <3>1. holds' = [holds EXCEPT ![t] = @]
      BY <2>1, <2>3
    <3>2. UNCHANGED holds
      BY <3>1 DEF ConfTypes
    <3> QED
      BY <3>2, Frames
  <2> QED
    BY <2>2, <2>3
<1> QED
  BY <1>2, <1>3, <1>4 DEF Effect

\* fromNode()
LEMMA FromNodeMoves ==
  ASSUME ConfTypes, NEW t \in Threads, NEW o \in 1..Len(vars_), NEW v \in Values \cup {Bad},
         NEW s \in CallRec, FromNode(t, o, v, s), s.pc \in {"idle", "apply"}, KeepsTime(t, s)
  PROVE  NamesKept /\ \E r : Moves(t, r) /\ KeepsTime(t, r)
<1>1. CASE Converts(v) /\ Swap(t, o, v, s)
  BY <1>1, SwapMoves DEF Converts
<1>2. CASE Goto(t, s) /\ UNCHANGED vars_
  BY <1>2, PlainMoves, Frames
<1> QED
  BY <1>1, <1>2 DEF FromNode

\* setValue() and fromString()
LEMMA SetEffect ==
  ASSUME ConfTypes, RefsOK, NEW t \in Threads, SetValue(t) \/ FromString(t)
  PROVE  Effect(t)
<1>1. TableKept /\ HandedOut
  BY Frames DEF SetValue, FromString
<1>2. Idle \in CallRec /\ Idle.pc \in {"idle", "apply"} /\ KeepsTime(t, Idle)
  BY IdleRec, IdleAt DEF KeepsTime
<1>3. \A o \in holds[t] : o \in 1..Len(vars_)
  BY DEF RefsOK
<1>4. CASE SetValue(t)
  <2>1. PICK o \in holds[t], v \in Values : Swap(t, o, v, Idle)
    BY <1>4 DEF SetValue
  <2>2. NamesKept /\ \E r : Moves(t, r) /\ KeepsTime(t, r)
    BY <1>2, <1>3, <2>1, SwapMoves
  <2> QED
    BY <1>1, <2>2 DEF Effect
<1>5. CASE FromString(t)
  <2>1. PICK o \in holds[t], v \in Values \cup {Bad} : FromNode(t, o, v, Idle)
    BY <1>5 DEF FromString
  <2>2. NamesKept /\ \E r : Moves(t, r) /\ KeepsTime(t, r)
    BY <1>2, <1>3, <2>1, FromNodeMoves
  <2> QED
    BY <1>1, <2>2 DEF Effect
<1> QED
  BY <1>4, <1>5

\* notify() and its loop over the listeners.
LEMMA NotifyEffect ==
  ASSUME ConfTypes, RefsOK, NEW t \in Threads, Notify(t) \/ Listen(t)
  PROVE  Effect(t)
<1>1. NamesKept /\ TableKept /\ HandedOut /\ UNCHANGED vars_
  BY Frames DEF Notify, Listen
<1>2. /\ at[t].pc \in {"notify", "listen"} /\ at[t].var \in 1..Len(vars_) /\ at[t] \in CallRec
  BY DEF Notify, Listen, RefsOK, ConfTypes
<1>3. PICK q : Goto(t, Resume(at[t])) \/ (q \in Seq(Listeners) /\ q # <<>>
                 /\ Goto(t, [at[t] EXCEPT !.pc = "listen", !.todo = q]))
  <2>1. CASE Notify(t)
    <3>1. vars_[at[t].var].listeners \in Seq(Listeners)
      BY <1>2, VarAt
    <3> QED
      BY <2>1, <3>1 DEF Notify
  <2>2. CASE Listen(t)
    <3>1. at[t].todo \in Seq(Listeners) /\ at[t].todo # <<>>
      BY <1>2, <2>2 DEF CallRec, Listen, RefsOK
    <3>2. Tail(at[t].todo) \in Seq(Listeners)
      BY <3>1, HeadTailProperties
    <3>3. [at[t] EXCEPT !.todo = Tail(at[t].todo)]
            = [at[t] EXCEPT !.pc = "listen", !.todo = Tail(at[t].todo)]
      BY <1>2, <2>2 DEF Listen, CallRec
    <3> QED
      BY <2>2, <3>2, <3>3 DEF Listen
  <2> QED
    BY <2>1, <2>2
<1>4. CASE Goto(t, Resume(at[t]))
  <2>1. Moves(t, Resume(at[t])) /\ KeepsTime(t, Resume(at[t]))
    BY <1>2, <1>4, ResumeMoves
  <2> QED
    BY <1>1, <2>1 DEF Effect
<1>5. CASE q \in Seq(Listeners) /\ q # <<>> /\ Goto(t, [at[t] EXCEPT !.pc = "listen", !.todo = q])
  <2> DEFINE s == [at[t] EXCEPT !.pc = "listen", !.todo = q]
  <2>1. s \in CallRec /\ s.pc = "listen" /\ s.time = at[t].time /\ s.var = at[t].var /\ s.todo = q
    BY <1>2, <1>5 DEF CallRec, Points
  <2>2. at' = [at EXCEPT ![t] = s]
    BY <1>5 DEF Goto
  <2> HIDE DEF s
  <2>3. Moves(t, s) /\ KeepsTime(t, s)
    BY <1>1, <1>2, <1>5, <2>1, <2>2 DEF Moves, KeepsTime
  <2> QED
    BY <1>1, <2>3 DEF Effect
<1> QED
  BY <1>3, <1>4, <1>5

LEMMA ListenersRec ==
  ASSUME NEW v \in VarRec, NEW q \in Seq(Listeners)
  PROVE  [v EXCEPT !.listeners = q] \in VarRec /\ [v EXCEPT !.listeners = q].name = v.name
  BY DEF VarRec

\* Another list of listeners for one variable.
LEMMA ListenersKept ==
  ASSUME ConfTypes, NEW o \in 1..Len(vars_), NEW q \in Seq(Listeners),
         vars_' = [vars_ EXCEPT ![o].listeners = q]
  PROVE  NamesKept
<1>1. vars_' = [vars_ EXCEPT ![o] = [vars_[o] EXCEPT !.listeners = q]]
  OBVIOUS
<1>2. /\ [vars_[o] EXCEPT !.listeners = q] \in VarRec
      /\ [vars_[o] EXCEPT !.listeners = q].name = vars_[o].name
  BY VarAt, ListenersRec
<1> QED
  BY VarAt, <1>1, <1>2 DEF NamesKept

LEMMA ListenersEffect ==
  ASSUME ConfTypes, RefsOK, NEW t \in Threads, ChangeListeners(t) \/ ClearAllListeners(t)
  PROVE  Effect(t)
<1>1. TableKept /\ HandedOut
  BY Frames DEF ChangeListeners, ClearAllListeners
<1>2. at[t].pc = "idle" /\ UNCHANGED at
  BY DEF ChangeListeners, ClearAllListeners, Call
<1>3. NamesKept
  <2>1. CASE ChangeListeners(t)
    <3> DEFINE Changed(o, q) ==
                  /\ vars_' = [vars_ EXCEPT ![o].listeners = q]
                  /\ \/ \E h \in Listeners : q = Append(vars_[o].listeners, h)
                     \/ \E i \in DOMAIN vars_[o].listeners : q = RemoveAt(vars_[o].listeners, i)
                     \/ q = <<>>
    <3>0. PICK o \in holds[t] : \E q : Changed(o, q)
      BY <2>1 DEF ChangeListeners
    <3>1. PICK q : Changed(o, q)
      BY <3>0
    <3>2. o \in 1..Len(vars_) /\ vars_[o].listeners \in Seq(Listeners)
      BY VarAt DEF RefsOK
    <3>3. q \in Seq(Listeners)
      <4>1. CASE \E i \in DOMAIN vars_[o].listeners : q = RemoveAt(vars_[o].listeners, i)
        <5> DEFINE ls == vars_[o].listeners
        <5>1. PICK i \in DOMAIN ls : q = SubSeq(ls, 1, i - 1) \o SubSeq(ls, i + 1, Len(ls))
          BY <4>1 DEF RemoveAt
        <5> HIDE DEF ls
        <5>2. ls \in Seq(Listeners) /\ Len(ls) \in Nat /\ i \in 1..Len(ls)
          BY <3>2, LenProperties DEF ls
        <5>3. SubSeq(ls, 1, i - 1) \in Seq(Listeners) /\ SubSeq(ls, i + 1, Len(ls)) \in Seq(Listeners)
          <6>1. \A k \in 1..Len(ls) : ls[k] \in Listeners
            BY <5>2, ElementOfSeq
          <6>2. /\ \A k \in 1..i - 1 : ls[k] \in Listeners
                /\ \A k \in i + 1..Len(ls) : ls[k] \in Listeners
            BY <5>2, <6>1
          <6> QED
            BY <5>2, <6>2, SubSeqProperties
        <5> QED
          BY <5>1, <5>3, ConcatProperties
      <4>2. CASE \E h \in Listeners : q = Append(vars_[o].listeners, h)
        BY <3>2, <4>2, AppendProperties
      <4>3. CASE q = <<>>
        BY <4>3
      <4> QED
        BY <3>1, <4>1, <4>2, <4>3
    <3> QED
      BY <3>1, <3>2, <3>3, ListenersKept
  <2>2. CASE ClearAllListeners(t)
    <3>0. vars_ \in Seq(VarRec) /\ Len(vars_) \in Nat /\ DOMAIN vars_ = 1..Len(vars_)
      BY LenProperties DEF ConfTypes
    <3>1. vars_' = [o \in 1..Len(vars_) |-> IF \E n \in Names : datas[n] = o
                        THEN [vars_[o] EXCEPT !.listeners = <<>>] ELSE vars_[o]]
      BY <2>2, <3>0 DEF ClearAllListeners
    <3>2. \A o \in 1..Len(vars_) : vars_'[o] \in VarRec /\ vars_'[o].name = vars_[o].name
      <4> SUFFICES ASSUME NEW o \in 1..Len(vars_)
                   PROVE  vars_'[o] \in VarRec /\ vars_'[o].name = vars_[o].name
        OBVIOUS
      <4>1. vars_[o] \in VarRec
        BY VarAt
      <4>2. /\ [vars_[o] EXCEPT !.listeners = <<>>] \in VarRec
            /\ [vars_[o] EXCEPT !.listeners = <<>>].name = vars_[o].name
        <5>1. <<>> \in Seq(Listeners)
          OBVIOUS
        <5> QED
          BY <4>1, <5>1, ListenersRec, Zenon
      <4>3. vars_'[o] \in {vars_[o], [vars_[o] EXCEPT !.listeners = <<>>]}
        BY <3>1
      <4> QED
        BY <4>1, <4>2, <4>3
    <3>3. DOMAIN vars_' = 1..Len(vars_) /\ vars_' = [o \in 1..Len(vars_) |-> vars_'[o]]
      BY <3>1
    <3>4. vars_' \in Seq(VarRec) /\ Len(vars_') = Len(vars_)
      BY <3>0, <3>2, <3>3, IsASeq
    <3> QED
      BY <3>0, <3>2, <3>4 DEF NamesKept
  <2> QED
    BY <2>1, <2>2
<1> QED
  BY <1>1, <1>2, <1>3, StayMoves DEF Effect

\* LoadFromConfDir() up to the reading of the file.
LEMMA LoadEffect ==
  ASSUME ConfTypes, RefsOK, NEW t \in Threads, LoadFromConfDir(t)
  PROVE  /\ NamesKept /\ TableKept /\ HandedOut
         /\ \E s : Moves(t, s) /\ (s.time = -1 \/ (s.time = file.time /\ s.pc = "load"))
<1>1. NamesKept /\ TableKept /\ HandedOut
  BY Frames DEF LoadFromConfDir
<1> DEFINE s == [Idle EXCEPT !.pc = "load", !.time = file.time]
<1>2. Goto(t, Idle) \/ Goto(t, s)
  BY DEF LoadFromConfDir
<1>3. s \in CallRec /\ s.pc = "load" /\ s.time = file.time
  <2>1. file.time \in Int
    BY DEF ConfTypes
  <2> QED
    BY <2>1, IdleRec DEF CallRec, Points
<1> HIDE DEF s
<1>4. CASE Goto(t, s)
  <2>1. Moves(t, s)
    BY <1>3, <1>4, PlainMoves
  <2> QED
    BY <1>1, <1>3, <2>1
<1>5. CASE Goto(t, Idle)
  BY <1>1, <1>5, IdleMoves, IdleAt
<1> QED
  BY <1>2, <1>4, <1>5

\* The reading of the file.
LEMMA LoadFileEffect ==
  ASSUME ConfTypes, RefsOK, NEW t \in Threads, LoadFile(t)
  PROVE  /\ NamesKept /\ TableKept /\ HandedOut
         /\ \E s : /\ Moves(t, s) /\ s.pc # "load"
                   /\ \/ s.time = -1 /\ UNCHANGED applied
                      \/ s.time = at[t].time /\ applied' = file.time
<1>1. NamesKept /\ TableKept /\ HandedOut
  BY Frames DEF LoadFile
<1>2. CASE Goto(t, Idle) /\ UNCHANGED applied
  BY <1>1, <1>2, IdleMoves, IdleAt
<1>3. CASE file.yaml # Broken
  <2> DEFINE y == {<<n, file.yaml[n]>> : n \in DOMAIN file.yaml \ BadNames}
             s(p) == [at[t] EXCEPT !.yaml = y, !.pc = p]
  <2>1. y \in SUBSET Members
    BY <1>3 DEF ConfTypes, YamlOK, Members
  <2> HIDE DEF y
  <2>2. at[t] \in CallRec
    BY DEF ConfTypes
  <2>3. \A p \in {"assert", "apply"} :
            s(p) \in CallRec /\ s(p).pc = p /\ s(p).time = at[t].time
    BY <2>1, <2>2 DEF CallRec, Points
  <2>4. applied' = file.time /\ \E p \in {"assert", "apply"} : Goto(t, s(p))
    BY <1>3 DEF LoadFile, y
  <2>5. PICK p \in {"assert", "apply"} : Goto(t, s(p))
    BY <2>4
  <2>6. Moves(t, s(p))
    BY <2>3, <2>5, PlainMoves
  <2> QED
    BY <1>1, <2>3, <2>4, <2>6
<1> QED
  BY <1>2, <1>3 DEF LoadFile

\* The next member, or the end of the load.
LEMMA ApplyEffect ==
  ASSUME ConfTypes, RefsOK, NEW t \in Threads, Apply(t)
  PROVE  Effect(t)
<1>1. TableKept /\ HandedOut /\ at[t].pc = "apply" /\ at[t] \in CallRec
  BY Frames DEF Apply, ConfTypes
<1>2. CASE Goto(t, Idle) /\ UNCHANGED vars_
  BY <1>1, <1>2, IdleMoves, Frames DEF Effect
<1>3. ASSUME NEW m \in at[t].yaml,
             LET s == [at[t] EXCEPT !.yaml = @ \ {m}]
                 o == datas[m[1]]
             IN IF o = 0 THEN Goto(t, s) /\ UNCHANGED vars_ ELSE FromNode(t, o, m[2], s)
      PROVE  Effect(t)
  <2> DEFINE s == [at[t] EXCEPT !.yaml = @ \ {m}]
             o == datas[m[1]]
  <2>1. m[1] \in Names /\ m[2] \in Values \cup {Bad}
    BY <1>1 DEF CallRec, Members
  <2>2. s \in CallRec /\ s.pc = "apply" /\ s.time = at[t].time
    BY <1>1 DEF CallRec
  <2>3. KeepsTime(t, s)
    BY <1>1, <2>2 DEF KeepsTime
  <2>4. IF o = 0 THEN Goto(t, s) /\ UNCHANGED vars_ ELSE FromNode(t, o, m[2], s)
    BY <1>3
  <2> HIDE DEF s
  <2>5. CASE o = 0
    <3>1. Moves(t, s) /\ NamesKept
      BY <2>2, <2>4, <2>5, PlainMoves, Frames
    <3> QED
      BY <1>1, <2>3, <3>1 DEF Effect
  <2>6. CASE o # 0
    <3>1. o \in 1..Len(vars_)
      BY <2>1, <2>6 DEF RefsOK
    <3>2. NamesKept /\ \E r : Moves(t, r) /\ KeepsTime(t, r)
      BY <2>1, <2>2, <2>3, <2>4, <2>6, <3>1, FromNodeMoves
    <3> QED
      BY <1>1, <3>2 DEF Effect
  <2> QED
    BY <2>5, <2>6
<1> QED
  BY <1>2, <1>3 DEF Apply

-----------------------------------------------------------------------------
(* The reports.  What is not yet reported of a variable is known from the     *)
(* calls that are about to report it.                                         *)

News(a, o, v) == {t \in Threads : a[t].pc = "notify" /\ a[t].var = o /\ a[t].new = v}
Olds(a, o, v) == {t \in Threads : a[t].pc = "notify" /\ a[t].var = o /\ a[t].old = v}

One(b) == IF b THEN 1 ELSE 0

\* Reports made and reports due lead from the default to the value.
AddUp ==
    \A o \in 1..Len(vars_), v \in Values :
        net[o][v] + Cardinality(News(at, o, v)) - Cardinality(Olds(at, o, v))
            = One(v = vars_[o].value) - One(v = Default)

SameValues ==
    Len(vars_') = Len(vars_) /\ \A o \in 1..Len(vars_) : vars_'[o].value = vars_[o].value

\* A step that neither changes a value nor reports.
Quiet(t) ==
    /\ SameValues /\ UNCHANGED net
    /\ at[t].pc # "notify" /\ \E s : s.pc # "notify" /\ at' = [at EXCEPT ![t] = s]

\* A step that makes a variable.
Creates(t) ==
    /\ \E x \in VarRec : x.value = Default /\ vars_' = Append(vars_, x)
    /\ net' = Append(net, [v \in Values |-> 0])
    /\ at[t].pc # "notify" /\ \E s : s.pc # "notify" /\ at' = [at EXCEPT ![t] = s]

\* A step that changes a value, and will report it.
Changes(t) ==
    \E o \in 1..Len(vars_), v \in Values :
        /\ v # vars_[o].value /\ vars_' = [vars_ EXCEPT ![o].value = v] /\ UNCHANGED net
        /\ at[t].pc # "notify"
        /\ \E s : /\ s.pc = "notify" /\ s.var = o /\ s.new = v /\ s.old = vars_[o].value
                  /\ at' = [at EXCEPT ![t] = s]

LEMMA GotoQuiet ==
  ASSUME NEW t \in Threads, NEW s, Goto(t, s), s.pc # "notify", at[t].pc # "notify",
         SameValues, UNCHANGED net
  PROVE  Quiet(t)
  BY DEF Quiet, Goto

LEMMA SwapKind ==
  ASSUME ConfTypes, NEW t \in Threads, NEW o \in 1..Len(vars_), NEW v \in Values,
         NEW s \in CallRec, Swap(t, o, v, s), s.pc # "notify", at[t].pc # "notify", UNCHANGED net
  PROVE  Quiet(t) \/ Changes(t)
<1>1. vars_' = [vars_ EXCEPT ![o] = [vars_[o] EXCEPT !.value = v]] /\ vars_[o] \in VarRec
  BY VarAt DEF Swap
<1>2. CASE vars_[o].value = v
  <2>1. [vars_[o] EXCEPT !.value = v] = vars_[o]
    BY <1>1, <1>2 DEF VarRec
  <2>2. vars_' = [vars_ EXCEPT ![o] = vars_[o]]
    BY <1>1, <2>1
  <2>3. vars_ = [i \in 1..Len(vars_) |-> vars_[i]]
    BY IsASeq, LenProperties DEF ConfTypes
  <2>4. vars_' = vars_
    BY <2>2, <2>3
  <2>5. SameValues
    BY <2>4 DEF SameValues
  <2> QED
    BY <1>2, <2>5, GotoQuiet DEF Swap
<1>3. CASE vars_[o].value # v
  <2> DEFINE r == [s EXCEPT !.pc = "notify", !.var = o, !.old = vars_[o].value, !.new = v]
  <2>1. r.pc = "notify" /\ r.var = o /\ r.new = v /\ r.old = vars_[o].value
    BY VarAt DEF CallRec, Points
  <2>2. at' = [at EXCEPT ![t] = r] /\ vars_' = [vars_ EXCEPT ![o].value = v]
    BY <1>3 DEF Swap, Goto
  <2> HIDE DEF r
  <2>3. Changes(t)
    BY <1>3, <2>1, <2>2 DEF Changes
  <2> QED
    BY <2>3
<1> QED
  BY <1>2, <1>3

LEMMA FromNodeKind ==
  ASSUME ConfTypes, NEW t \in Threads, NEW o \in 1..Len(vars_), NEW v \in Values \cup {Bad},
         NEW s \in CallRec, FromNode(t, o, v, s), s.pc # "notify", at[t].pc # "notify",
         UNCHANGED net
  PROVE  Quiet(t) \/ Changes(t)
<1>1. CASE Converts(v) /\ Swap(t, o, v, s)
  BY <1>1, SwapKind DEF Converts
<1>2. CASE Goto(t, s) /\ UNCHANGED vars_
  BY <1>2, GotoQuiet DEF SameValues
<1> QED
  BY <1>1, <1>2 DEF FromNode

LEMMA AbortRec ==
  ASSUME NEW r \in CallRec
  PROVE  /\ [r EXCEPT !.pc = "abort"].pc = "abort"
         /\ \A y : [r EXCEPT !.yaml = y].pc = r.pc
         /\ \A y, q : [r EXCEPT !.yaml = y, !.pc = q].pc = q
         /\ \A q : [r EXCEPT !.todo = q].pc = r.pc
         /\ \A k : [r EXCEPT !.pc = "emplace", !.var = k].pc = "emplace"
         /\ \A n, ty : [r EXCEPT !.pc = "find", !.name = n, !.type = ty].pc = "find"
         /\ [r EXCEPT !.pc = "assert"].pc = "assert"
         /\ \A k : [r EXCEPT !.pc = "load", !.time = k].pc = "load"
  BY DEF CallRec

LEMMA StayQuiet ==
  ASSUME ConfTypes, NEW t \in Threads, UNCHANGED <<at, net>>, SameValues, at[t].pc = "idle"
  PROVE  Quiet(t)
<1>1. at' = [at EXCEPT ![t] = at[t]]
  BY DEF ConfTypes
<1> QED
  BY <1>1 DEF Quiet

LEMMA CheckQuiet ==
  ASSUME NEW t \in Threads, NEW v, Check(t, v), UNCHANGED <<vars_, net>>, at[t].pc # "notify"
  PROVE  Quiet(t)
<1>1. Goto(t, Idle) \/ Goto(t, [Idle EXCEPT !.pc = "assert"])
  BY DEF Check
<1>2. SameValues
  BY DEF SameValues
<1>3. [Idle EXCEPT !.pc = "assert"].pc # "notify" /\ Idle.pc # "notify"
  BY IdleRec, IdleAt, AbortRec
<1> QED
  BY <1>1, <1>2, <1>3, GotoQuiet

\* Every step of a thread is of one of four kinds.
LEMMA Kinds ==
  ASSUME ConfTypes, RefsOK, NEW t \in Threads, Step(t)
  PROVE  Quiet(t) \/ Creates(t) \/ Changes(t) \/ Notify(t)
<1>0. at[t] \in CallRec /\ Idle \in CallRec /\ Idle.pc = "idle"
  BY IdleRec, IdleAt DEF ConfTypes
<1>a. UNCHANGED vars_ => SameValues
  BY DEF SameValues
<1>1. CASE Lookup(t)
  <2>1. PICK n, ty : \/ Goto(t, Idle)
                     \/ Goto(t, [Idle EXCEPT !.pc = "find", !.name = n, !.type = ty])
    BY <1>1 DEF Lookup
  <2>2. [Idle EXCEPT !.pc = "find", !.name = n, !.type = ty].pc # "notify"
    BY <1>0, AbortRec
  <2>3. at[t].pc = "idle" /\ UNCHANGED <<vars_, net>>
    BY <1>1 DEF Lookup, Call
  <2> QED
    BY <1>0, <1>a, <2>1, <2>2, <2>3, GotoQuiet
<1>2. CASE Find(t) /\ datas[at[t].name] # 0
  BY <1>2, CheckQuiet DEF Find
<1>3. CASE Find(t) /\ datas[at[t].name] = 0
  <2> DEFINE x == NewVar(at[t].name, at[t].type)
             s == [at[t] EXCEPT !.pc = "emplace", !.var = Len(vars_) + 1]
  <2>1. /\ vars_' = Append(vars_, x) /\ net' = Append(net, [v \in Values |-> 0])
        /\ at' = [at EXCEPT ![t] = s] /\ at[t].pc = "find"
    BY <1>3 DEF Find, Goto
  <2>2. x \in VarRec /\ x.value = Default
    BY <1>3, ConfigAssumption DEF NewVar, VarRec, Find, RefsOK
  <2>3. s.pc = "emplace"
    <3>1. Len(vars_) + 1 \in Nat
      BY LenProperties DEF ConfTypes
    <3> QED
      BY <1>0, <3>1, EmplaceRec, Zenon
  <2> HIDE DEF x, s
  <2>4. Creates(t)
    BY <2>1, <2>2, <2>3 DEF Creates
  <2> QED
    BY <2>4
<1>4. CASE Emplace(t)
  BY <1>4, CheckQuiet DEF Emplace
<1>5. CASE AssertLogs(t)
  <2>1. Goto(t, [at[t] EXCEPT !.pc = "abort"]) /\ at[t].pc = "assert" /\ UNCHANGED <<vars_, net>>
    BY <1>5 DEF AssertLogs
  <2>2. [at[t] EXCEPT !.pc = "abort"].pc # "notify"
    BY <1>0, AbortRec
  <2> QED
    BY <1>a, <2>1, <2>2, GotoQuiet
<1>6. CASE AssertEnds(t)
  <2>1. Goto(t, Resume(at[t])) /\ at[t].pc = "abort" /\ UNCHANGED <<vars_, net>>
    BY <1>6 DEF AssertEnds
  <2> QED
    BY <1>0, <1>a, <2>1, GotoQuiet, ResumeRec
<1>7. CASE LookupBase(t)
  BY <1>7, <1>a, StayQuiet DEF LookupBase, Call
<1>8. CASE SetValue(t)
  <2>1. PICK o \in holds[t], v \in Values : Swap(t, o, v, Idle)
    BY <1>8 DEF SetValue
  <2>2. o \in 1..Len(vars_) /\ at[t].pc = "idle" /\ UNCHANGED net
    BY <1>8 DEF RefsOK, SetValue, Call
  <2> QED
    BY <1>0, <2>1, <2>2, SwapKind
<1>9. CASE FromString(t)
  <2>1. PICK o \in holds[t], v \in Values \cup {Bad} : FromNode(t, o, v, Idle)
    BY <1>9 DEF FromString
  <2>2. o \in 1..Len(vars_) /\ at[t].pc = "idle" /\ UNCHANGED net
    BY <1>9 DEF RefsOK, FromString, Call
  <2> QED
    BY <1>0, <2>1, <2>2, FromNodeKind
<1>10. CASE Listen(t)
  <2>1. PICK q : Goto(t, Resume(at[t])) \/ Goto(t, [at[t] EXCEPT !.todo = q])
    BY <1>10 DEF Listen
  <2>2. at[t].pc = "listen" /\ UNCHANGED <<vars_, net>>
    BY <1>10 DEF Listen
  <2>3. [at[t] EXCEPT !.todo = q].pc = "listen"
    BY <1>0, <2>2, AbortRec
  <2> QED
    BY <1>0, <1>a, <2>1, <2>2, <2>3, GotoQuiet, ResumeRec
<1>11. CASE ChangeListeners(t)
  <2>0. PICK o \in holds[t] : \E q : vars_' = [vars_ EXCEPT ![o].listeners = q]
    BY <1>11 DEF ChangeListeners
  <2>1. PICK q : vars_' = [vars_ EXCEPT ![o].listeners = q]
    BY <2>0
  <2>2. o \in 1..Len(vars_) /\ vars_[o] \in VarRec /\ vars_ \in Seq(VarRec)
    BY VarAt DEF RefsOK
  <2>3. [vars_[o] EXCEPT !.listeners = q].value = vars_[o].value
    BY <2>2 DEF VarRec
  <2>4. vars_' = [vars_ EXCEPT ![o] = [vars_[o] EXCEPT !.listeners = q]]
    BY <2>1
  <2>5. SameValues
    BY <2>2, <2>3, <2>4 DEF SameValues
  <2> QED
    BY <1>11, <2>5, StayQuiet DEF ChangeListeners, Call
<1>12. CASE ClearAllListeners(t)
  <2>0. vars_ \in Seq(VarRec) /\ Len(vars_) \in Nat /\ DOMAIN vars_ = 1..Len(vars_)
    BY LenProperties DEF ConfTypes
  <2>1. vars_' = [o \in 1..Len(vars_) |-> IF \E n \in Names : datas[n] = o
                      THEN [vars_[o] EXCEPT !.listeners = <<>>] ELSE vars_[o]]
    BY <1>12, <2>0 DEF ClearAllListeners
  <2>2. ASSUME NEW o \in 1..Len(vars_) PROVE vars_'[o].value = vars_[o].value
    <3>1. [vars_[o] EXCEPT !.listeners = <<>>].value = vars_[o].value
      BY VarAt DEF VarRec
    <3>2. vars_'[o] \in {vars_[o], [vars_[o] EXCEPT !.listeners = <<>>]}
      BY <2>1
    <3> QED
      BY <3>1, <3>2
  <2>3. Len(vars_') = Len(vars_)
    BY <2>0, <2>1
  <2>4. SameValues
    BY <2>2, <2>3 DEF SameValues
  <2> QED
    BY <1>12, <2>4, StayQuiet DEF ClearAllListeners, Call
<1>13. CASE LoadFromConfDir(t)
  <2>1. Goto(t, Idle) \/ Goto(t, [Idle EXCEPT !.pc = "load", !.time = file.time])
    BY <1>13 DEF LoadFromConfDir
  <2>2. [Idle EXCEPT !.pc = "load", !.time = file.time].pc # "notify"
    BY <1>0, AbortRec
  <2>3. at[t].pc = "idle" /\ UNCHANGED <<vars_, net>>
    BY <1>13 DEF LoadFromConfDir, Call
  <2> QED
    BY <1>0, <1>a, <2>1, <2>2, <2>3, GotoQuiet
<1>14. CASE LoadFile(t)
  <2>1. PICK y, q : /\ q \in {"assert", "apply"}
                    /\ Goto(t, Idle) \/ Goto(t, [at[t] EXCEPT !.yaml = y, !.pc = q])
    BY <1>14 DEF LoadFile
  <2>2. [at[t] EXCEPT !.yaml = y, !.pc = q].pc # "notify"
    BY <1>0, <2>1, AbortRec
  <2>3. at[t].pc = "load" /\ UNCHANGED <<vars_, net>>
    BY <1>14 DEF LoadFile
  <2> QED
    BY <1>0, <1>a, <2>1, <2>2, <2>3, GotoQuiet
<1>15. CASE Apply(t)
  <2>1. at[t].pc = "apply" /\ UNCHANGED net
    BY <1>15 DEF Apply
  <2>2. CASE Goto(t, Idle) /\ UNCHANGED vars_
    BY <1>0, <1>a, <2>1, <2>2, GotoQuiet
  <2>3. ASSUME NEW m \in at[t].yaml,
               LET s == [at[t] EXCEPT !.yaml = @ \ {m}]
                   o == datas[m[1]]
               IN IF o = 0 THEN Goto(t, s) /\ UNCHANGED vars_ ELSE FromNode(t, o, m[2], s)
        PROVE  Quiet(t) \/ Changes(t)
    <3> DEFINE s == [at[t] EXCEPT !.yaml = @ \ {m}]
               o == datas[m[1]]
    <3>1. m[1] \in Names /\ m[2] \in Values \cup {Bad}
      BY <1>0 DEF CallRec, Members
    <3>2. s \in CallRec /\ s.pc = "apply"
      BY <1>0, <2>1 DEF CallRec
    <3>3. IF o = 0 THEN Goto(t, s) /\ UNCHANGED vars_ ELSE FromNode(t, o, m[2], s)
      BY <2>3
    <3> HIDE DEF s
    <3>4. CASE o = 0
      BY <1>a, <2>1, <3>2, <3>3, <3>4, GotoQuiet
    <3>5. CASE o # 0
      <4>1. o \in 1..Len(vars_)
        BY <3>1, <3>5 DEF RefsOK
      <4> QED
        BY <2>1, <3>1, <3>2, <3>3, <3>5, <4>1, FromNodeKind
    <3> QED
      BY <3>4, <3>5
  <2> QED
    BY <1>15, <2>2, <2>3 DEF Apply
<1> QED
  BY <1>1, <1>2, <1>3, <1>4, <1>5, <1>6, <1>7, <1>8, <1>9, <1>10, <1>11, <1>12, <1>13, <1>14,
     <1>15 DEF Step

-----------------------------------------------------------------------------
(* The types and the references are kept. *)

LEMMA StepEffect ==
  ASSUME ConfTypes, RefsOK, NEW t \in Threads, Step(t)
  PROVE  Effect(t)
<1>1. CASE LoadFromConfDir(t)
  BY <1>1, LoadEffect DEF Effect
<1>2. CASE LoadFile(t)
  BY <1>2, LoadFileEffect DEF Effect
<1> QED
  BY <1>1, <1>2, LookupEffect, FindEffect, EmplaceEffect, AssertEffect, LookupBaseEffect, SetEffect,
     NotifyEffect, ListenersEffect, ApplyEffect DEF Step

\* The history has one count for every variable and value.
LEMMA NetStep ==
  ASSUME ConfTypes, RefsOK, NEW t \in Threads, Step(t)
  PROVE  net' \in Seq([Values -> Int]) /\ Len(net') = Len(vars_')
<1>0. net \in Seq([Values -> Int]) /\ Len(net) = Len(vars_) /\ vars_ \in Seq(VarRec)
  BY DEF ConfTypes
<1>1. CASE Quiet(t)
  BY <1>0, <1>1 DEF Quiet, SameValues
<1>2. CASE Creates(t)
  <2>1. [v \in Values |-> 0] \in [Values -> Int]
    OBVIOUS
  <2> QED
    BY <1>0, <1>2, <2>1, AppendProperties DEF Creates
<1>3. CASE Changes(t)
  <2>0. PICK o \in 1..Len(vars_) : \E v : vars_' = [vars_ EXCEPT ![o].value = v] /\ UNCHANGED net
    BY <1>3 DEF Changes
  <2>1. PICK v : vars_' = [vars_ EXCEPT ![o].value = v] /\ UNCHANGED net
    BY <2>0
  <2>2. Len(vars_') = Len(vars_)
    BY <1>0, <2>1
  <2> QED
    BY <1>0, <2>1, <2>2
<1>4. CASE Notify(t)
  <2> DEFINE o == at[t].var
             f == [v \in Values |-> net[o][v] + (IF v = Reported(t) THEN 1 ELSE 0)
                                              - (IF v = at[t].old THEN 1 ELSE 0)]
  <2>1. o \in 1..Len(net) /\ net' = [net EXCEPT ![o] = f] /\ UNCHANGED vars_
    BY <1>0, <1>4 DEF Notify, RefsOK
  <2>2. net[o] \in [Values -> Int]
    BY <1>0, <2>1, ElementOfSeq
  <2>3. f \in [Values -> Int]
    BY <2>2
  <2> HIDE DEF f
  <2> QED
    BY <1>0, <2>1, <2>3, ExceptSeq
<1> QED
  BY <1>1, <1>2, <1>3, <1>4, Kinds

LEMMA FileStep ==
  ASSUME ConfTypes, NEW t \in Threads, Step(t)
  PROVE  UNCHANGED file /\ applied' \in Int /\ mark' \in Int
<1>0. at[t] \in CallRec
  BY DEF ConfTypes
<1>1. at[t].time \in Int
  BY <1>0 DEF CallRec
<1>2. file.time \in Int /\ applied \in Int /\ mark \in Int
  BY DEF ConfTypes
<1> QED
  BY <1>1, <1>2
     DEF Step, Lookup, Find, Emplace, AssertLogs, AssertEnds, LookupBase, SetValue, FromString,
     Notify, Listen, ChangeListeners, ClearAllListeners, LoadFromConfDir, LoadFile, Apply, MarkTime

LEMMA StepTypes ==
  ASSUME ConfTypes, RefsOK, NEW t \in Threads, Step(t)
  PROVE  ConfTypes' /\ RefsOK'
<1>1. NamesKept /\ TableKept /\ HandedOut
  BY StepEffect DEF Effect
<1>2. PICK s : Moves(t, s)
  BY StepEffect DEF Effect
<1>3. RefsOK'
  BY <1>1, <1>2, RefsFrame
<1>4. at' \in [Threads -> CallRec]
  BY <1>2 DEF Moves, ConfTypes
<1>5. file'.time \in Nat /\ YamlOK(file'.yaml) /\ applied' \in Int /\ mark' \in Int
  BY FileStep DEF ConfTypes
<1>6. YamlOK(file.yaml)' = YamlOK(file'.yaml)
  BY DEF YamlOK
<1> QED
  BY <1>1, <1>3, <1>4, <1>5, <1>6, NetStep DEF ConfTypes, NamesKept, TableKept, HandedOut

LEMMA WriteFileTypes ==
  ASSUME ConfTypes, RefsOK, WriteFile
  PROVE  ConfTypes' /\ RefsOK'
<1>1. PICK y \in Contents : file' = [time |-> file.time + 1, yaml |-> y]
  BY DEF WriteFile
<1>2. file'.time \in Nat /\ YamlOK(file'.yaml)
  BY <1>1, ConfigAssumption DEF ConfTypes, YamlOK
<1> QED
  BY <1>2 DEF ConfTypes, RefsOK, YamlOK, WriteFile

LEMMA NextTypes ==
  ASSUME ConfTypes, RefsOK, [Next]_vars
  PROVE  ConfTypes' /\ RefsOK'
<1>1. CASE UNCHANGED conf
  BY <1>1 DEF conf, ConfTypes, RefsOK, YamlOK
<1> QED
  BY <1>1, StepTypes, WriteFileTypes DEF Next, vars

LEMMA InitTypes == Init => ConfTypes /\ RefsOK
<1> SUFFICES ASSUME Init PROVE ConfTypes /\ RefsOK
  OBVIOUS
<1>1. vars_ \in Seq(VarRec) /\ net \in Seq([Values -> Int]) /\ Len(net) = Len(vars_)
  BY DEF Init
<1>2. file.time \in Nat /\ YamlOK(file.yaml)
  BY ConfigAssumption DEF Init, YamlOK
<1>3. at \in [Threads -> CallRec]
  BY IdleRec DEF Init
<1>4. \A t \in Threads : at[t].pc = "idle"
  BY IdleAt DEF Init
<1> QED
  BY <1>1, <1>2, <1>3, <1>4 DEF Init, ConfTypes, RefsOK

\* The types and the references hold in every state.
THEOREM ReferencesHold == Spec => [](ConfTypes /\ RefsOK)
<1>1. ConfTypes /\ RefsOK /\ [Next]_vars => ConfTypes' /\ RefsOK'
  BY NextTypes
<1> QED
  BY <1>1, InitTypes, PTL DEF Spec

\* All users of a name share one variable, however their first lookups
\* interleave: the second emplace() of LookupOrCreate() keeps what the first stored.
THEOREM UsersShareOneVariable == Spec => []OneVarPerName
<1>1. RefsOK => OneVarPerName
  BY DEF RefsOK, OneVarPerName
<1> QED
  BY <1>1, ReferencesHold, PTL

-----------------------------------------------------------------------------
(* The file.  A load that read its time and went on to apply members has read  *)
(* the content at that time or at a later one.                                 *)

LoadOK ==
    \A t \in Threads :
        /\ at[t].time <= file.time
        /\ at[t].pc # "load" /\ at[t].time = file.time => applied = file.time

MarkOK == mark <= file.time

FileInv == LoadOK /\ MarkOK /\ FileApplied

LEMMA FileInit == Init => FileInv
<1> SUFFICES ASSUME Init PROVE FileInv
  OBVIOUS
<1>1. \A t \in Threads : at[t].time = -1
  BY IdleAt DEF Init
<1> QED
  BY <1>1 DEF Init, FileInv, LoadOK, MarkOK, FileApplied

\* A call that keeps its time or drops it.
LEMMA LoadFrame ==
  ASSUME ConfTypes, LoadOK, NEW t \in Threads, NEW s, Moves(t, s), KeepsTime(t, s),
         UNCHANGED <<file, applied>>
  PROVE  LoadOK'
<1>1. file.time \in Nat
  BY DEF ConfTypes
<1>2. ASSUME NEW u \in Threads
      PROVE  /\ at'[u].time <= file.time
             /\ at'[u].pc # "load" /\ at'[u].time = file.time => applied = file.time
  <2>1. CASE u = t
    <3>1. at'[u] = s
      BY <2>1 DEF Moves, ConfTypes
    <3> QED
      BY <1>1, <3>1 DEF LoadOK, KeepsTime
  <2>2. CASE u # t
    <3>1. at'[u] = at[u]
      BY <2>2 DEF Moves, ConfTypes
    <3> QED
      BY <3>1 DEF LoadOK
  <2> QED
    BY <2>1, <2>2
<1> QED
  BY <1>2 DEF LoadOK

LEMMA FileInvStep ==
  ASSUME ConfTypes, RefsOK, FileInv, NEW t \in Threads, Step(t)
  PROVE  FileInv'
<1>0. file.time \in Nat /\ applied \in Int /\ mark \in Int /\ UNCHANGED file
  BY FileStep DEF ConfTypes
<1>1. CASE LoadFromConfDir(t)
  <2>1. PICK s : Moves(t, s) /\ (s.time = -1 \/ (s.time = file.time /\ s.pc = "load"))
    BY <1>1, LoadEffect
  <2>2. UNCHANGED <<applied, mark>>
    BY <1>1 DEF LoadFromConfDir
  <2>3. ASSUME NEW u \in Threads
        PROVE  /\ at'[u].time <= file.time
               /\ at'[u].pc # "load" /\ at'[u].time = file.time => applied = file.time
    <3>1. at'[u] = s \/ at'[u] = at[u]
      BY <2>1 DEF Moves, ConfTypes
    <3> QED
      BY <1>0, <2>1, <3>1 DEF FileInv, LoadOK
  <2> QED
    BY <1>0, <2>2, <2>3 DEF FileInv, LoadOK, MarkOK, FileApplied
<1>2. CASE LoadFile(t)
  <2>1. PICK s : /\ Moves(t, s) /\ s.pc # "load"
                 /\ \/ s.time = -1 /\ UNCHANGED applied
                    \/ s.time = at[t].time /\ applied' = file.time
    BY <1>2, LoadFileEffect
  <2>2. UNCHANGED mark
    BY <1>2 DEF LoadFile
  <2>3. ASSUME NEW u \in Threads
        PROVE  /\ at'[u].time <= file.time
               /\ at'[u].pc # "load" /\ at'[u].time = file.time => applied' = file.time
    <3>1. at'[u] = s \/ at'[u] = at[u]
      BY <2>1 DEF Moves, ConfTypes
    <3> QED
      BY <1>0, <2>1, <3>1 DEF FileInv, LoadOK
  <2> QED
    BY <1>0, <2>1, <2>2, <2>3 DEF FileInv, LoadOK, MarkOK, FileApplied
<1>3. CASE ~(LoadFromConfDir(t) \/ LoadFile(t))
  <2>1. PICK s : Moves(t, s) /\ KeepsTime(t, s)
    BY <1>3, StepEffect DEF Effect
  <2>2. UNCHANGED applied
    BY <1>3 DEF Step, Lookup, Find, Emplace, AssertLogs, AssertEnds, LookupBase, SetValue,
       FromString, Notify, Listen, ChangeListeners, ClearAllListeners, Apply
  <2>3. UNCHANGED mark \/ (at[t].pc = "apply" /\ mark' = at[t].time)
    BY <1>3 DEF Step, Lookup, Find, Emplace, AssertLogs, AssertEnds, LookupBase, SetValue,
       FromString, Notify, Listen, ChangeListeners, ClearAllListeners, Apply, MarkTime
  <2>4. LoadOK'
    BY <1>0, <2>1, <2>2, LoadFrame DEF FileInv
  <2>5. MarkOK' /\ FileApplied'
    BY <1>0, <2>2, <2>3 DEF FileInv, LoadOK, MarkOK, FileApplied
  <2> QED
    BY <2>4, <2>5 DEF FileInv
<1> QED
  BY <1>1, <1>2, <1>3

\* A write makes every time read before it an earlier one.
LEMMA FileInvWrite ==
  ASSUME ConfTypes, FileInv, WriteFile
  PROVE  FileInv'
<1>1. file'.time = file.time + 1 /\ UNCHANGED <<at, applied, mark>>
  BY DEF WriteFile
<1>2. file.time \in Nat /\ applied \in Int /\ mark \in Int
  BY DEF ConfTypes
<1>3. \A u \in Threads : at[u].time \in Int
  BY DEF ConfTypes, CallRec
<1> QED
  BY <1>1, <1>2, <1>3 DEF FileInv, LoadOK, MarkOK, FileApplied

LEMMA FileInvNext ==
  ASSUME ConfTypes, RefsOK, FileInv, [Next]_vars
  PROVE  FileInv'
<1>1. CASE UNCHANGED conf
  BY <1>1 DEF conf, FileInv, LoadOK, MarkOK, FileApplied
<1> QED
  BY <1>1, FileInvStep, FileInvWrite DEF Next, vars

\* A file whose recorded time is its own has been read since it was written
\* last: MarkFileLoaded() records the time that was read before the content, so a
\* write during a load is seen by the next load.
THEOREM WritesAreSeen == Spec => []FileApplied
<1>1. ConfTypes /\ RefsOK /\ FileInv /\ [Next]_vars => FileInv'
  BY FileInvNext
<1>2. FileInv => FileApplied
  BY DEF FileInv
<1> QED
  BY <1>1, <1>2, FileInit, ReferencesHold, PTL DEF Spec

-----------------------------------------------------------------------------
(* The reports add up. *)

LEMMA DueFinite ==
  ASSUME NEW a, NEW o, NEW v
  PROVE  /\ IsFiniteSet(News(a, o, v)) /\ Cardinality(News(a, o, v)) \in Nat
         /\ IsFiniteSet(Olds(a, o, v)) /\ Cardinality(Olds(a, o, v)) \in Nat
<1>1. News(a, o, v) \in SUBSET Threads /\ Olds(a, o, v) \in SUBSET Threads
  BY DEF News, Olds
<1>2. IsFiniteSet(Threads)
  BY ConfigAssumption
<1> QED
  BY <1>1, <1>2, FS_Subset, FS_CardinalityType

\* One thread's record is replaced.
Moved(a, b, t, s) == \A u \in Threads : b[u] = IF u = t THEN s ELSE a[u]

LEMMA GotoMoved ==
  ASSUME ConfTypes, NEW t \in Threads, NEW s, at' = [at EXCEPT ![t] = s]
  PROVE  Moved(at, at', t, s)
  BY DEF ConfTypes, Moved

LEMMA DueQuiet ==
  ASSUME ConfTypes, NEW t \in Threads, at[t].pc # "notify", NEW s, s.pc # "notify",
         at' = [at EXCEPT ![t] = s], NEW o, NEW v
  PROVE  News(at', o, v) = News(at, o, v) /\ Olds(at', o, v) = Olds(at, o, v)
<1>0. Moved(at, at', t, s)
  BY GotoMoved
<1>1. News(at', o, v) = News(at, o, v) \ {t} /\ Olds(at', o, v) = Olds(at, o, v) \ {t}
  BY <1>0, SMT DEF News, Olds, Moved
<1>2. t \notin News(at, o, v) /\ t \notin Olds(at, o, v)
  BY DEF News, Olds
<1> QED
  BY <1>1, <1>2

LEMMA AddUpQuiet ==
  ASSUME ConfTypes, AddUp, NEW t \in Threads, Quiet(t)
  PROVE  AddUp'
<1>1. \A o, v : News(at', o, v) = News(at, o, v) /\ Olds(at', o, v) = Olds(at, o, v)
  BY DueQuiet DEF Quiet
<1>2. UNCHANGED net /\ Len(vars_') = Len(vars_)
      /\ \A o \in 1..Len(vars_) : vars_'[o].value = vars_[o].value
  BY DEF Quiet, SameValues
<1> QED
  BY <1>1, <1>2 DEF AddUp

LEMMA AddUpCreates ==
  ASSUME ConfTypes, RefsOK, AddUp, NEW t \in Threads, Creates(t)
  PROVE  AddUp'
<1>0. /\ vars_ \in Seq(VarRec) /\ Len(vars_) \in Nat /\ Len(net) = Len(vars_)
      /\ net \in Seq([Values -> Int])
  BY LenProperties DEF ConfTypes
<1>1. \A o, v : News(at', o, v) = News(at, o, v) /\ Olds(at', o, v) = Olds(at, o, v)
  BY DueQuiet DEF Creates
<1>2. PICK x \in VarRec : x.value = Default /\ vars_' = Append(vars_, x)
  BY DEF Creates
<1>3. /\ Len(vars_') = Len(vars_) + 1 /\ vars_'[Len(vars_) + 1].value = Default
      /\ \A o \in 1..Len(vars_) : vars_'[o] = vars_[o]
  BY <1>0, <1>2, AppendProperties
<1>4. /\ \A o \in 1..Len(vars_) : net'[o] = net[o]
      /\ net'[Len(vars_) + 1] = [v \in Values |-> 0]
  <2>1. [v \in Values |-> 0] \in [Values -> Int] /\ net' = Append(net, [v \in Values |-> 0])
    BY DEF Creates
  <2> QED
    BY <1>0, <2>1, AppendProperties
<1>5. \A v : News(at, Len(vars_) + 1, v) = {} /\ Olds(at, Len(vars_) + 1, v) = {}
  BY <1>0 DEF RefsOK, News, Olds
<1>6. ASSUME NEW o \in 1..Len(vars_'), NEW v \in Values
      PROVE  net'[o][v] + Cardinality(News(at, o, v)) - Cardinality(Olds(at, o, v))
                 = One(v = vars_'[o].value) - One(v = Default)
  <2>1. CASE o \in 1..Len(vars_)
    BY <1>3, <1>4, <2>1 DEF AddUp
  <2>2. CASE o = Len(vars_) + 1
    <3>1. Cardinality(News(at, o, v)) = 0 /\ Cardinality(Olds(at, o, v)) = 0
      BY <1>5, <2>2, FS_EmptySet
    <3>2. net'[o][v] = 0
      BY <1>4, <2>2
    <3> QED
      BY <1>3, <2>2, <3>1, <3>2 DEF One
  <2> QED
    BY <1>0, <1>3, <2>1, <2>2
<1> QED
  BY <1>1, <1>6 DEF AddUp

LEMMA AddUpChanges ==
  ASSUME ConfTypes, RefsOK, AddUp, NEW t \in Threads, Changes(t)
  PROVE  AddUp'
<1>0. /\ vars_ \in Seq(VarRec) /\ net \in Seq([Values -> Int]) /\ Len(net) = Len(vars_)
      /\ at \in [Threads -> CallRec]
  BY DEF ConfTypes
<1>1. PICK p \in 1..Len(vars_), w \in Values :
          /\ w # vars_[p].value /\ vars_' = [vars_ EXCEPT ![p].value = w] /\ UNCHANGED net
          /\ at[t].pc # "notify"
          /\ \E s : /\ s.pc = "notify" /\ s.var = p /\ s.new = w /\ s.old = vars_[p].value
                    /\ at' = [at EXCEPT ![t] = s]
  BY DEF Changes
<1>2. PICK s : /\ s.pc = "notify" /\ s.var = p /\ s.new = w /\ s.old = vars_[p].value
               /\ at' = [at EXCEPT ![t] = s]
  BY <1>1
<1>a. Moved(at, at', t, s)
  BY <1>2, GotoMoved
<1>3. /\ Len(vars_') = Len(vars_) /\ vars_'[p].value = w
      /\ \A o \in 1..Len(vars_) : o # p => vars_'[o] = vars_[o]
  <2>1. vars_' = [vars_ EXCEPT ![p] = [vars_[p] EXCEPT !.value = w]]
    BY <1>1
  <2>2. [vars_[p] EXCEPT !.value = w].value = w
    BY VarAt DEF VarRec
  <2> QED
    BY <1>0, <2>1, <2>2
<1>4. ASSUME NEW o \in 1..Len(vars_), NEW v \in Values
      PROVE  net[o][v] + Cardinality(News(at', o, v)) - Cardinality(Olds(at', o, v))
                 = One(v = vars_'[o].value) - One(v = Default)
  <2>0. net[o][v] \in Int
    BY <1>0, ElementOfSeq
  <2>1. t \notin News(at, o, v) /\ t \notin Olds(at, o, v)
    BY <1>1 DEF News, Olds
  <2>2. net[o][v] + Cardinality(News(at, o, v)) - Cardinality(Olds(at, o, v))
            = One(v = vars_[o].value) - One(v = Default)
    BY DEF AddUp
  <2>3. CASE o # p
    <3>1. News(at', o, v) = News(at, o, v) /\ Olds(at', o, v) = Olds(at, o, v)
      <4>1. News(at', o, v) = News(at, o, v) \ {t} /\ Olds(at', o, v) = Olds(at, o, v) \ {t}
        BY <1>2, <1>a, <2>3, SMT DEF News, Olds, Moved
      <4> QED
        BY <2>1, <4>1
    <3> QED
      BY <1>3, <2>2, <2>3, <3>1
  <2>4. CASE o = p
    <3>1. News(at', o, v) = IF w = v THEN News(at, o, v) \cup {t} ELSE News(at, o, v) \ {t}
      BY <1>2, <1>a, <2>4, SMT DEF News, Olds, Moved
    <3>2. Olds(at', o, v) = IF vars_[p].value = v THEN Olds(at, o, v) \cup {t} ELSE Olds(at, o, v) \ {t}
      BY <1>2, <1>a, <2>4, SMT DEF News, Olds, Moved
    <3>3. Cardinality(News(at', o, v)) = Cardinality(News(at, o, v)) + One(v = w)
      <4>1. CASE w = v
        BY <2>1, <3>1, <4>1, DueFinite, FS_AddElement DEF One
      <4>2. CASE w # v
        <5>1. News(at', o, v) = News(at, o, v)
          BY <2>1, <3>1, <4>2
        <5> QED
          BY <4>2, <5>1, DueFinite DEF One
      <4> QED
        BY <4>1, <4>2
    <3>4. Cardinality(Olds(at', o, v)) = Cardinality(Olds(at, o, v)) + One(v = vars_[p].value)
      <4>1. CASE vars_[p].value = v
        BY <2>1, <3>2, <4>1, DueFinite, FS_AddElement DEF One
      <4>2. CASE vars_[p].value # v
        <5>1. Olds(at', o, v) = Olds(at, o, v)
          BY <2>1, <3>2, <4>2
        <5> QED
          BY <4>2, <5>1, DueFinite DEF One
      <4> QED
        BY <4>1, <4>2
    <3>5. vars_'[o].value = w
      BY <1>3, <2>4
    <3>6. /\ Cardinality(News(at, o, v)) \in Nat /\ Cardinality(Olds(at, o, v)) \in Nat
          /\ One(v = w) \in Int /\ One(v = vars_[p].value) \in Int
      BY DueFinite DEF One
    <3>7. One(v = vars_'[o].value) = One(v = w) /\ One(v = vars_[o].value) = One(v = vars_[p].value)
      BY <2>4, <3>5
    <3>8. One(v = Default) \in Int
      BY DEF One
    <3>9. net[o][v] + Cardinality(News(at, o, v)) - Cardinality(Olds(at, o, v))
              = One(v = vars_[p].value) - One(v = Default)
      BY <2>2, <3>7, Zenon
    <3>10. net[o][v] + (Cardinality(News(at, o, v)) + One(v = w))
                     - (Cardinality(Olds(at, o, v)) + One(v = vars_[p].value))
               = One(v = w) - One(v = Default)
      <4> DEFINE a == net[o][v]
                 n == Cardinality(News(at, o, v))
                 m == Cardinality(Olds(at, o, v))
                 i == One(v = w)
                 j == One(v = vars_[p].value)
                 d == One(v = Default)
      <4>1. /\ a \in Int /\ n \in Nat /\ m \in Nat /\ i \in Int /\ j \in Int /\ d \in Int
            /\ a + n - m = j - d
        BY <2>0, <3>6, <3>8, <3>9, Zenon
      <4> HIDE DEF a, n, m, i, j, d
      <4>2. a + (n + i) - (m + j) = i - d
        BY <4>1
      <4> QED
        BY <4>2, Zenon DEF a, n, m, i, j, d
    <3> QED
      BY <3>3, <3>4, <3>7, <3>10, Zenon
  <2> QED
    BY <2>3, <2>4
<1>5. UNCHANGED net /\ Len(vars_') = Len(vars_)
  BY <1>1, <1>3
<1> QED
  BY <1>4, <1>5 DEF AddUp

LEMMA AddUpNotify ==
  ASSUME ConfTypes, RefsOK, AddUp, NEW t \in Threads, Notify(t)
  PROVE  AddUp'
<1> DEFINE p == at[t].var
           w == at[t].new
           x == at[t].old
<1>0. net \in Seq([Values -> Int]) /\ Len(net) = Len(vars_) /\ at \in [Threads -> CallRec]
  BY DEF ConfTypes
<1>1. /\ at[t].pc = "notify" /\ p \in 1..Len(vars_) /\ UNCHANGED vars_
      /\ net' = [net EXCEPT ![p] = [v \in Values |->
                    net[p][v] + (IF v = w THEN 1 ELSE 0) - (IF v = x THEN 1 ELSE 0)]]
  BY DEF Notify, RefsOK, Reported
<1>2. PICK s : s.pc # "notify" /\ at' = [at EXCEPT ![t] = s]
  <2>1. at[t] \in CallRec
    BY DEF ConfTypes
  <2>2. PICK q : Goto(t, Resume(at[t])) \/ Goto(t, [at[t] EXCEPT !.pc = "listen", !.todo = q])
    BY DEF Notify
  <2>3. [at[t] EXCEPT !.pc = "listen", !.todo = q].pc # "notify"
    BY <2>1 DEF CallRec
  <2> QED
    BY <2>1, <2>2, <2>3, ResumeRec DEF Goto
<1>a. Moved(at, at', t, s)
  BY <1>2, GotoMoved
<1>3. ASSUME NEW o \in 1..Len(vars_), NEW v \in Values
      PROVE  net'[o][v] + Cardinality(News(at', o, v)) - Cardinality(Olds(at', o, v))
                 = One(v = vars_[o].value) - One(v = Default)
  <2>0. net[o] \in [Values -> Int]
    BY <1>0, ElementOfSeq
  <2>1. News(at', o, v) = News(at, o, v) \ {t} /\ Olds(at', o, v) = Olds(at, o, v) \ {t}
    BY <1>2, <1>a, SMT DEF News, Olds, Moved
  <2>2. net[o][v] + Cardinality(News(at, o, v)) - Cardinality(Olds(at, o, v))
            = One(v = vars_[o].value) - One(v = Default)
    BY DEF AddUp
  <2>3. (t \in News(at, o, v) <=> o = p /\ v = w) /\ (t \in Olds(at, o, v) <=> o = p /\ v = x)
    BY <1>1 DEF News, Olds
  <2>a. IsFiniteSet(News(at, o, v)) /\ IsFiniteSet(Olds(at, o, v))
    BY DueFinite
  <2>b. Cardinality(News(at, o, v)) \in Nat /\ Cardinality(Olds(at, o, v)) \in Nat
    BY DueFinite
  <2>c. /\ Cardinality(News(at', o, v)) = IF t \in News(at, o, v)
              THEN Cardinality(News(at, o, v)) - 1 ELSE Cardinality(News(at, o, v))
        /\ Cardinality(Olds(at', o, v)) = IF t \in Olds(at, o, v)
              THEN Cardinality(Olds(at, o, v)) - 1 ELSE Cardinality(Olds(at, o, v))
    BY <2>1, <2>a, FS_RemoveElement, Zenon
  <2>4. /\ Cardinality(News(at', o, v)) = Cardinality(News(at, o, v)) - One(o = p /\ v = w)
        /\ Cardinality(Olds(at', o, v)) = Cardinality(Olds(at, o, v)) - One(o = p /\ v = x)
    BY <2>3, <2>b, <2>c DEF One
  <2>5. net'[o][v] = net[o][v] + One(o = p /\ v = w) - One(o = p /\ v = x)
    <3>1. CASE o # p
      BY <1>0, <1>1, <2>0, <3>1 DEF One
    <3>2. CASE o = p
      BY <1>0, <1>1, <2>0, <3>2 DEF One
    <3> QED
      BY <3>1, <3>2
  <2>6. net[o][v] \in Int
    BY <2>0
  <2>7. One(o = p /\ v = w) \in Int /\ One(o = p /\ v = x) \in Int
    BY DEF One
  <2> HIDE DEF p, w, x
  <2> QED
    BY <2>2, <2>b, <2>4, <2>5, <2>6, <2>7
<1> QED
  BY <1>1, <1>3 DEF AddUp

LEMMA AddUpNext ==
  ASSUME ConfTypes, RefsOK, AddUp, [Next]_vars
  PROVE  AddUp'
<1>1. CASE UNCHANGED <<vars_, net, at>>
  BY <1>1 DEF AddUp, News, Olds
<1>2. ASSUME NEW t \in Threads, Step(t) PROVE AddUp'
  BY <1>2, Kinds, AddUpQuiet, AddUpCreates, AddUpChanges, AddUpNotify
<1> QED
  BY <1>1, <1>2 DEF Next, vars, conf, WriteFile

\* With nothing due, the reports that were made lead to the value.
LEMMA NothingDue ==
  ASSUME ConfTypes, AddUp
  PROVE  ReportsAddUp
<1> SUFFICES ASSUME NEW o \in DOMAIN vars_,
                    \A t \in Threads : at[t].pc = "notify" => at[t].var # o,
                    NEW v \in Values
             PROVE  net[o][v] = (IF v = vars_[o].value THEN 1 ELSE 0)
                                    - (IF v = Default THEN 1 ELSE 0)
  BY DEF ReportsAddUp
<1>1. o \in 1..Len(vars_) /\ o \in 1..Len(net) /\ net \in Seq([Values -> Int])
  BY LenProperties DEF ConfTypes
<1>2. net[o][v] \in Int
  BY <1>1, ElementOfSeq
<1>3. News(at, o, v) = {} /\ Olds(at, o, v) = {}
  BY DEF News, Olds
<1>4. Cardinality(News(at, o, v)) = 0 /\ Cardinality(Olds(at, o, v)) = 0
  BY <1>3, FS_EmptySet
<1> QED
  BY <1>1, <1>2, <1>4 DEF AddUp, One

\* Listeners are told of every change once and with the values it really had:
\* setValue() reports outside its locks what it swapped inside them, so when
\* nobody is changing a variable the reports lead from its default to its value.
THEOREM ReportsLeadToTheValue == Spec => []ReportsAddUp
<1>1. Init => AddUp
  BY DEF Init, AddUp
<1>2. ConfTypes /\ RefsOK /\ AddUp /\ [Next]_vars => AddUp'
  BY AddUpNext
<1>3. ConfTypes /\ AddUp => ReportsAddUp
  BY NothingDue
<1> QED
  BY <1>1, <1>2, <1>3, ReferencesHold, PTL DEF Spec

-----------------------------------------------------------------------------
(* What a FATAL record guarantees, for every number of threads and         *)
(* appenders: proved of Config's specification, whose threads log.         *)


Record == Nat \X Nat

LineRec == [pc : {"none", "submit", "append"}, logger : Loggers, rec : Record, i : Int]

LogTypes ==
    /\ line \in [Threads -> LineRec] /\ logged \in Nat
    /\ disk \in [Appenders -> Seq(Record)] /\ buffer \in [Appenders -> Seq(Record)]
    /\ took \in [Appenders -> Seq(Record)]

\* What is on the disk, d, begins what the appender took, k, and has all of its
\* FATAL records.
Safe(d, k) ==
    /\ Len(d) <= Len(k) /\ \A i \in 1..Len(d) : d[i] = k[i]
    /\ \A i \in 1..Len(k) : LevelOf(k[i]) = FATAL => i <= Len(d)

\* While the process runs, the buffer has the rest.
LogInv ==
    /\ LogTypes
    /\ \A a \in Appenders :
          /\ Safe(disk[a], took[a])
          /\ ~down => took[a] = disk[a] \o buffer[a]

-----------------------------------------------------------------------------
(* Sequences. *)

LEMMA AppendAfter ==
  ASSUME NEW d \in Seq(Record), NEW b \in Seq(Record), NEW r \in Record
  PROVE  /\ d \o Append(b, r) = Append(d \o b, r)
         /\ Append(b, r) \in Seq(Record) /\ d \o b \in Seq(Record)
<1>1. d \o b \in Seq(Record) /\ Len(d \o b) = Len(d) + Len(b) /\ Len(d) \in Nat /\ Len(b) \in Nat
  BY ConcatProperties, LenProperties
<1>2. Append(b, r) \in Seq(Record) /\ Len(Append(b, r)) = Len(b) + 1
  BY AppendProperties
<1>3. d \o Append(b, r) \in Seq(Record) /\ Len(d \o Append(b, r)) = Len(d) + (Len(b) + 1)
  BY <1>2, ConcatProperties
<1>4. Append(d \o b, r) \in Seq(Record) /\ Len(Append(d \o b, r)) = (Len(d) + Len(b)) + 1
  BY <1>1, AppendProperties
<1>5. ASSUME NEW i \in 1..Len(d \o Append(b, r))
      PROVE  (d \o Append(b, r))[i] = Append(d \o b, r)[i]
  BY <1>1, <1>2, <1>3, <1>4, ConcatProperties, AppendProperties
<1> QED
  BY <1>1, <1>2, <1>3, <1>4, <1>5, SeqEqual

\* A record that stays in the buffer.
LEMMA SafeAppend ==
  ASSUME NEW d \in Seq(Record), NEW k \in Seq(Record), NEW r \in Record, Safe(d, k),
         LevelOf(r) # FATAL
  PROVE  Safe(d, Append(k, r))
<1>1. /\ Len(d) \in Nat /\ Len(k) \in Nat /\ Len(Append(k, r)) = Len(k) + 1
      /\ \A i \in 1..Len(k) : Append(k, r)[i] = k[i]
      /\ Append(k, r)[Len(k) + 1] = r
  BY LenProperties, AppendProperties
<1>2. ASSUME NEW i \in 1..Len(Append(k, r)), LevelOf(Append(k, r)[i]) = FATAL
      PROVE  i <= Len(d)
  <2>1. CASE i \in 1..Len(k)
    <3>1. Append(k, r)[i] = k[i]
      BY <1>1, <2>1
    <3> QED
      BY <1>2, <2>1, <3>1 DEF Safe
  <2>2. CASE i = Len(k) + 1
    <3>1. Append(k, r)[i] = r
      BY <1>1, <2>2
    <3> QED
      BY <1>2, <3>1
  <2> QED
    BY <1>1, <2>1, <2>2
<1> QED
  BY <1>1, <1>2 DEF Safe

\* Everything is on the disk.
LEMMA SafeWhole ==
  ASSUME NEW k \in Seq(Record)
  PROVE  Safe(k, k)
  BY LenProperties DEF Safe

-----------------------------------------------------------------------------
(* The steps. *)

\* Appender::Impl::append()
LEMMA AppendKeeps ==
  ASSUME LogInv, ~down, NEW t \in Threads, AppendOne(t)
  PROVE  LogInv'
<1> DEFINE l == line[t].logger
           a == appenders[l][line[t].i]
           rec == line[t].rec
<1>1. line[t] \in LineRec /\ line \in [Threads -> LineRec] /\ logged \in Nat
  BY DEF LogInv, LogTypes
<1>2. rec \in Record
  BY <1>1 DEF LineRec
<1>3. line' \in [Threads -> LineRec] /\ UNCHANGED <<logged, down>>
  <2>1. NoLine \in LineRec
    BY DEF NoLine, LineRec, Record, Loggers
  <2>2. [line[t] EXCEPT !.i = line[t].i + 1] \in LineRec
    BY <1>1 DEF LineRec
  <2>3. line' = [line EXCEPT ![t] = IF line[t].i = Len(appenders[l]) THEN NoLine
                                    ELSE [line[t] EXCEPT !.i = line[t].i + 1]]
    BY Zenon DEF AppendOne
  <2>4. UNCHANGED <<logged, down>>
    BY DEF AppendOne
  <2> QED
    BY <1>1, <2>1, <2>2, <2>3, <2>4
<1>4. CASE UNCHANGED <<disk, buffer, took>>
  BY <1>3, <1>4 DEF LogInv, LogTypes
<1>5. CASE /\ disk' = [disk EXCEPT ![a] = Written(a, rec).disk]
           /\ buffer' = [buffer EXCEPT ![a] = Written(a, rec).buffer]
           /\ took' = [took EXCEPT ![a] = Append(@, rec)]
  <2> HIDE DEF a, rec, l
  <2>1. /\ disk \in [Appenders -> Seq(Record)] /\ buffer \in [Appenders -> Seq(Record)]
        /\ took \in [Appenders -> Seq(Record)]
    BY DEF LogInv, LogTypes
  <2>2. CASE a \notin Appenders
    <3>1. UNCHANGED <<disk, buffer, took>>
      BY <1>5, <2>1, <2>2
    <3> QED
      BY <1>4, <3>1
  <2>3. CASE a \in Appenders
    <3> DEFINE d == disk[a]
               b == buffer[a]
               w == Written(a, rec)
    <3>1. d \in Seq(Record) /\ b \in Seq(Record) /\ took[a] = d \o b /\ Safe(d, took[a])
      BY <2>1, <2>3 DEF LogInv
    <3>2. /\ d \o Append(b, rec) = Append(took[a], rec) /\ Append(b, rec) \in Seq(Record)
          /\ Append(took[a], rec) \in Seq(Record)
      <4>1. /\ d \o Append(b, rec) = Append(d \o b, rec) /\ Append(b, rec) \in Seq(Record)
            /\ d \o b \in Seq(Record)
        BY <1>2, <3>1, AppendAfter, Zenon
      <4> HIDE DEF d, b
      <4> QED
        BY <1>2, <3>1, <4>1, AppendProperties
    <3>3. /\ w.disk \in Seq(Record) /\ w.buffer \in Seq(Record)
          /\ Append(took[a], rec) = w.disk \o w.buffer /\ Safe(w.disk, Append(took[a], rec))
      <4>1. CASE LevelOf(rec) = FATAL
        <5>1. w.disk = Append(took[a], rec) /\ w.buffer = <<>>
          BY <3>2, <4>1 DEF Written, Flushed
        <5>2. <<>> \in Seq(Record) /\ w.disk \o <<>> = w.disk
          BY <3>2, <5>1, ConcatEmptySeq, EmptySeq
        <5> QED
          BY <3>2, <5>1, <5>2, SafeWhole
      <4>2. CASE LevelOf(rec) # FATAL
        <5>1. w.disk = d /\ w.buffer = Append(b, rec)
          BY <4>2 DEF Written
        <5>2. Safe(d, Append(took[a], rec))
          BY <1>2, <3>1, <4>2, SafeAppend, AppendAfter
        <5> QED
          BY <3>1, <3>2, <5>1, <5>2
      <4> QED
        BY <4>1, <4>2
    <3>4. /\ disk'[a] = w.disk /\ buffer'[a] = w.buffer /\ took'[a] = Append(took[a], rec)
          /\ \A c \in Appenders : c # a =>
                disk'[c] = disk[c] /\ buffer'[c] = buffer[c] /\ took'[c] = took[c]
      BY <1>5, <2>1, <2>3
    <3>5. /\ disk' \in [Appenders -> Seq(Record)] /\ buffer' \in [Appenders -> Seq(Record)]
          /\ took' \in [Appenders -> Seq(Record)]
      BY <1>5, <2>1, <2>3, <3>2, <3>3
    <3>6. ASSUME NEW c \in Appenders
          PROVE  Safe(disk'[c], took'[c]) /\ took'[c] = disk'[c] \o buffer'[c]
      <4>1. CASE c = a
        BY <3>3, <3>4, <4>1
      <4>2. CASE c # a
        <5>1. Safe(disk[c], took[c]) /\ took[c] = disk[c] \o buffer[c]
          BY DEF LogInv
        <5> QED
          BY <3>4, <4>2, <5>1
      <4> QED
        BY <4>1, <4>2
    <3> QED
      BY <1>3, <3>5, <3>6 DEF LogInv, LogTypes, Safe
  <2> QED
    BY <2>2, <2>3
<1> QED
  BY <1>4, <1>5 DEF AppendOne

\* flush()
LEMMA FlushKeeps ==
  ASSUME LogInv, ~down, NEW A, FlushAll(A), UNCHANGED <<line, logged, took, down>>
  PROVE  LogInv'
<1>1. /\ disk \in [Appenders -> Seq(Record)] /\ buffer \in [Appenders -> Seq(Record)]
      /\ took \in [Appenders -> Seq(Record)]
  BY DEF LogInv, LogTypes
<1>2. ASSUME NEW a \in Appenders
      PROVE  /\ disk'[a] \in Seq(Record) /\ buffer'[a] \in Seq(Record)
             /\ Safe(disk'[a], took[a]) /\ took[a] = disk'[a] \o buffer'[a]
  <2>1. disk[a] \in Seq(Record) /\ buffer[a] \in Seq(Record) /\ took[a] \in Seq(Record)
    BY <1>1
  <2>2. Safe(disk[a], took[a]) /\ took[a] = disk[a] \o buffer[a]
    BY DEF LogInv
  <2>3. CASE a \in A
    <3>1. disk'[a] = took[a] /\ buffer'[a] = <<>>
      BY <2>2, <2>3 DEF FlushAll, Flushed
    <3>2. Safe(took[a], took[a]) /\ took[a] \o <<>> = took[a] /\ <<>> \in Seq(Record)
      BY <2>1, SafeWhole, ConcatEmptySeq, EmptySeq
    <3> QED
      BY <2>1, <3>1, <3>2
  <2>4. CASE a \notin A
    <3>1. disk'[a] = disk[a] /\ buffer'[a] = buffer[a]
      BY <2>4 DEF FlushAll
    <3> QED
      BY <2>1, <2>2, <3>1
  <2> QED
    BY <2>3, <2>4
<1>3. disk' \in [Appenders -> Seq(Record)] /\ buffer' \in [Appenders -> Seq(Record)]
  <2>1. disk' = [a \in Appenders |-> disk'[a]] /\ buffer' = [a \in Appenders |-> buffer'[a]]
    BY DEF FlushAll
  <2> QED
    BY <1>2, <2>1
<1> QED
  BY <1>1, <1>2, <1>3 DEF LogInv, LogTypes, Safe

LEMMA CrashKeeps ==
  ASSUME LogInv, Crash
  PROVE  LogInv'
<1>1. down' = TRUE /\ UNCHANGED <<line, logged, disk, took>>
  BY DEF Crash
<1>2. buffer' \in [Appenders -> Seq(Record)]
  BY DEF Crash
<1> QED
  BY <1>1, <1>2 DEF LogInv, LogTypes, Safe

LEMMA SubmitKeeps ==
  ASSUME LogInv, NEW t \in Threads, Submit(t)
  PROVE  LogInv'
<1>1. line[t] \in LineRec /\ line \in [Threads -> LineRec]
  BY DEF LogInv, LogTypes
<1>2. /\ NoLine \in LineRec /\ [line[t] EXCEPT !.pc = "append"] \in LineRec
      /\ [line[t] EXCEPT !.logger = "root"] \in LineRec
  BY <1>1 DEF NoLine, LineRec, Record, Loggers
<1>3. line' \in [Threads -> LineRec]
  BY <1>1, <1>2 DEF Submit
<1> QED
  BY <1>3 DEF LogInv, LogTypes, Safe, Submit

LEMMA LogKeeps ==
  ASSUME LogInv, NEW t \in Threads, NEW l \in Loggers, NEW n \in Nat, LogRecord(t, l, n)
  PROVE  LogInv'
<1>1. line \in [Threads -> LineRec] /\ logged \in Nat
  BY DEF LogInv, LogTypes
<1>2. NoLine \in LineRec /\ [pc |-> "submit", logger |-> l, rec |-> <<logged, n>>, i |-> 1] \in LineRec
  BY <1>1 DEF NoLine, LineRec, Record, Loggers
<1>3. line' \in [Threads -> LineRec] /\ logged' \in Nat
  BY <1>1, <1>2 DEF LogRecord, Log
<1> QED
  BY <1>3 DEF LogInv, LogTypes, Safe, LogRecord

LEMMA Still ==
  ASSUME LogInv, UNCHANGED <<line, logged, disk, buffer, took, down>>
  PROVE  LogInv'
  BY DEF LogInv, LogTypes, Safe

LEMMA TuningKeeps ==
  ASSUME LogInv, ~down, Tuning
  PROVE  LogInv'
<1>1. CASE Flush \/ FlushAppender
  <2>1. (\E A : FlushAll(A)) /\ UNCHANGED <<line, logged, took, down>>
    BY <1>1 DEF Flush, FlushAppender
  <2> QED
    BY <2>1, FlushKeeps
<1>2. CASE ChangeAppenders \/ SetLevel \/ SetAppenderLevel
  BY <1>2, Still DEF ChangeAppenders, SetLevel, SetAppenderLevel
<1> QED
  BY <1>1, <1>2 DEF Tuning

\* What a call does to the log.
LEMMA StepLogs ==
  ASSUME NEW t \in Threads, Step(t)
  PROVE  \/ UNCHANGED logVars \/ Crash
         \/ \E l \in Loggers, n \in Nat : LogRecord(t, l, n)
<1>1. Report(t) => \E l \in Loggers, n \in Nat : LogRecord(t, l, n)
  BY DEF Report, Loggers, ERROR
<1>2. LogRecord(t, "root", FATAL) => \E l \in Loggers, n \in Nat : LogRecord(t, l, n)
  BY DEF Loggers, FATAL
<1> QED
  BY <1>1, <1>2
     DEF Step, Lookup, Find, Check, Emplace, AssertLogs, AssertEnds, LookupBase, SetValue,
     FromString, FromNode, Notify, Listen, ChangeListeners, ClearAllListeners, LoadFromConfDir,
     LoadFile, Apply

LEMMA LogNext ==
  ASSUME LogInv, [Next]_vars
  PROVE  LogInv'
<1>1. CASE UNCHANGED logVars
  BY <1>1, Still DEF logVars
<1>2. ASSUME ~down, NEW t \in Threads, Step(t) PROVE LogInv'
  BY <1>1, <1>2, StepLogs, CrashKeeps, LogKeeps
<1>3. ASSUME ~down, NEW t \in Threads, LoggerStep(t) PROVE LogInv'
  BY <1>3, SubmitKeeps, AppendKeeps DEF LoggerStep
<1>4. CASE WriteFile
  BY <1>1, <1>4 DEF WriteFile
<1> QED
  BY <1>1, <1>2, <1>3, <1>4, TuningKeeps, CrashKeeps DEF Next, vars

LEMMA LogInit == Init => LogInv
<1> SUFFICES ASSUME Init PROVE LogInv
  OBVIOUS
<1>1. LogTypes
  BY DEF Init, LoggerInit, LogTypes, NoLine, LineRec, Record, Loggers
<1>2. ASSUME NEW a \in Appenders
      PROVE  Safe(disk[a], took[a]) /\ took[a] = disk[a] \o buffer[a]
  <2>1. disk[a] = <<>> /\ took[a] = <<>> /\ buffer[a] = <<>>
    BY DEF Init, LoggerInit
  <2>2. <<>> \in Seq(Record) /\ <<>> \o <<>> = <<>>
    BY EmptySeq, ConcatEmptySeq
  <2> QED
    BY <2>1, <2>2, SafeWhole
<1> QED
  BY <1>1, <1>2 DEF LogInv

LEMMA FatalIsSafe ==
  ASSUME LogInv
  PROVE  FatalSurvives
<1> SUFFICES ASSUME NEW a \in Appenders, NEW k \in DOMAIN took[a], LevelOf(took[a][k]) = FATAL
             PROVE  Len(disk[a]) >= k /\ SubSeq(disk[a], 1, k) = SubSeq(took[a], 1, k)
  BY DEF FatalSurvives
<1> DEFINE d == disk[a]
           q == took[a]
<1>1. d \in Seq(Record) /\ q \in Seq(Record) /\ Safe(d, q)
  BY DEF LogInv, LogTypes
<1> HIDE DEF d, q
<1>2. Len(d) \in Nat /\ Len(q) \in Nat /\ k \in 1..Len(q)
  BY <1>1, LenProperties DEF q
<1>3. k <= Len(d) /\ \A i \in 1..k : d[i] = q[i]
  BY <1>1, <1>2 DEF Safe, q
<1>4. \A i \in 1..k : d[i] \in Record /\ q[i] \in Record
  BY <1>1, <1>2, <1>3, ElementOfSeq
<1>5. SubSeq(d, 1, k) \in Seq(Record) /\ SubSeq(q, 1, k) \in Seq(Record)
      /\ Len(SubSeq(d, 1, k)) = k /\ Len(SubSeq(q, 1, k)) = k
      /\ \A i \in 1..k : SubSeq(d, 1, k)[i] = d[i] /\ SubSeq(q, 1, k)[i] = q[i]
  BY <1>2, <1>4, SubSeqProperties
<1>6. SubSeq(d, 1, k) = SubSeq(q, 1, k)
  BY <1>3, <1>5, SeqEqual
<1> QED
  BY <1>2, <1>3, <1>6 DEF d, q

\* A FATAL record that an appender has accepted reaches the disk with every
\* record accepted before it, in that order, whatever other threads append and
\* whenever the process dies: append() flushes under the appender's lock.
THEOREM FatalRecordsSurvive == Spec => []FatalSurvives
<1>1. LogInv /\ [Next]_vars => LogInv'
  BY LogNext
<1>2. LogInv => FatalSurvives
  BY FatalIsSafe
<1> QED
  BY <1>1, <1>2, LogInit, PTL DEF Spec
==============================================================================
