----------------------------- MODULE Hook_proofs -----------------------------
(***************************************************************************)
(* Proofs about Hook, for every number of fibers, descriptors, threads and *)
(* calls.                                                                  *)
(***************************************************************************)
EXTENDS Hook, FiniteSetTheorems, FunctionTheorems, TLAPS

-----------------------------------------------------------------------------
(* The invariants. *)

\* Where a fiber can be in each of the functions, and the context it has there.
PcOps(p) ==
    CASE p \in {"get", "check", "call", "arm", "add", "held"} -> {"recv", "connect"}
      [] p \in {"yield", "woken"} -> {"recv", "connect", "sleep"}
      [] p = "asleep" -> {"sleep"}
      [] p \in {"mark", "cancelAll", "del", "closef"} -> {"close"}
      [] p = "ioctl" -> {"fionbio"}
      [] p = "fcntl" -> {"setfl"}
      [] p = "context" -> {"socket", "rcvtimeo", "setfl", "fionbio"}
      [] OTHER -> {}

Waiting == {"check", "call", "arm", "add", "yield", "held", "woken"}

CallOf(f) ==
    /\ pc[f] = "idle" => call[f] = NoCall
    /\ pc[f] # "idle" => call[f].fd \in Fds /\ call[f].op \in PcOps(pc[f])
    /\ pc[f] \in Waiting /\ call[f].op # "sleep" => call[f].ctx \in Ctxs

CallInv == \A f \in Fibers : CallOf(f)

\* A timer belongs to a call, and a callback to a timeout that has passed.
TimerOf(f) ==
    /\ f \in armed \cup fired => pc[f] # "idle"
    /\ f \in fired => f \in expired
    /\ info[f] => f \in expired

TimerInv == \A f \in Fibers : TimerOf(f)

\* What was suspended when its context was marked is on the way to the check.
DoomOf(f) == f \in doomed => /\ pc[f] \in {"held", "woken", "check"} /\ call[f].op # "sleep"
                            /\ Closed(f)

DoomInv == \A f \in Fibers : DoomOf(f)

\* Where a fiber waits, from the point it has reached.
WaitOf(f) ==
    /\ \A s \in Slots : slot[s] = f => /\ s = <<call[f].fd, EventOf(f)>>
                                       /\ pc[f] \in {"yield", "held"} /\ call[f].op # "sleep"
                                       /\ f \notin queue
    /\ f \in queue => pc[f] \in {"idle", "held", "asleep", "yield"}
    /\ f \in queue \cap on => pc[f] = "yield"
    /\ pc[f] \in {"held", "asleep"} => f \notin on
    /\ pc[f] \notin {"idle", "held", "asleep"} => f \in on

WaitInv == \A f \in Fibers : WaitOf(f)

\* The calls that need the number to stay open.
Users == {"socket", "close", "setfl", "fionbio", "rcvtimeo"}

InUse(f, fd) == call[f].fd = fd /\ call[f].op \in Users

\* A number keeps its file while one of them runs, and close() and socket()
\* run alone.
FileInv ==
    /\ \A fd \in Fds : file[fd] <= files
    /\ \A fd \in Fds, f \in Fibers : InUse(f, fd) => file[fd] # 0
    /\ \A fd \in Fds, f, g \in Fibers :
          (f # g /\ call[f].fd = fd /\ call[f].op \in {"socket", "close"}) => ~InUse(g, fd)

\* The contexts: the hooks' flag is that of a socket, and a socket is what was
\* made for an open file.
CtxOf(c) == /\ ctx[c].snb = ctx[c].socket /\ ctx[c].snb = (ctx[c].file # 0)
            /\ ctx[c].file <= files

CtxInv == \A c \in Ctxs : CtxOf(c)

\* An open number has a context unless it is being opened or closed.
TableInv ==
    \A fd \in Fds :
        file[fd] # 0 /\ (\A f \in Fibers : call[f].fd = fd => call[f].op \notin {"socket", "close"})
          => table[fd] # None

\* A context was made for the file that is open now, for the number's entry or
\* for one that a call still holds.
HasContext(fd) == file[fd] # 0 /\ \E c \in Ctxs : ctx[c].file = file[fd]

\* A number's entry is its own and, once a context has been made for the file,
\* it is one of that file; only close() has a closed one in the table.
EntryInv ==
    /\ \A d, e \in Fds : d # e /\ file[d] # 0 => file[d] # file[e]
    /\ \A d, e \in Fds : d # e /\ table[d] # None => table[d] # table[e]
    /\ \A fd \in Fds : HasContext(fd) /\ table[fd] # None => ctx[table[fd]].file = file[fd]
    /\ \A fd \in Fds : table[fd] # None /\ ctx[table[fd]].closed
                         => \E f \in Fibers : pc[f] \in {"cancelAll", "del"} /\ call[f].fd = fd

\* ioctl() is between the kernel and the context.
Between(f, fd) == pc[f] = "context" /\ call[f].op = "fionbio" /\ call[f].fd = fd

FlagInv ==
    /\ \A fd \in Fds : HasContext(fd) => knb[fd] \/ \E f \in Fibers : Between(f, fd)
    /\ \A fd \in Fds, f \in Fibers :
          pc[f] = "fcntl" /\ call[f].fd = fd /\ HasContext(fd)
            => call[f].ctx \in Ctxs /\ ctx[call[f].ctx].snb

-----------------------------------------------------------------------------
(* Types. *)

CtxRec == [closed : BOOLEAN, socket : BOOLEAN, unb : BOOLEAN, snb : BOOLEAN,
           timed : BOOLEAN, file : 0..MaxFiles]
CallRec == [op : Calls \cup {None}, fd : Fds \cup {None},
            ctx : Ctxs \cup {None}, timed : BOOLEAN, arg : BOOLEAN]
Pcs == {"idle", "get", "check", "call", "arm", "add", "yield", "held",
        "woken", "error", "asleep", "mark", "cancelAll", "del",
        "closef", "ioctl", "context", "fcntl"}
Results == {"none", "ok", "EAGAIN", "EBADF", "EEXIST", "EALREADY", "ETIMEDOUT"}

LEMMA NoCallType == NoCall \in CallRec /\ NoCall.op = None /\ NoCall.fd = None /\ NoCall.ctx = None
  BY DEF NoCall, CallRec

LEMMA NoCtxType == NoCtx \in CtxRec
  BY ConstantsAssumption DEF NoCtx, CtxRec

\* What a write to one field of a context leaves alone.
KeepsCtx(y, x) == y.socket = x.socket /\ y.snb = x.snb /\ y.file = x.file /\ (x.closed => y.closed)

LEMMA SetFields ==
  ASSUME NEW x \in CtxRec, NEW v \in BOOLEAN
  PROVE  /\ [x EXCEPT !.closed = TRUE] \in CtxRec /\ KeepsCtx([x EXCEPT !.closed = TRUE], x)
         /\ [x EXCEPT !.closed = TRUE].closed
         /\ [x EXCEPT !.unb = v] \in CtxRec /\ KeepsCtx([x EXCEPT !.unb = v], x)
         /\ [x EXCEPT !.timed = v] \in CtxRec /\ KeepsCtx([x EXCEPT !.timed = v], x)
  BY DEF CtxRec, KeepsCtx

\* There is an object that nobody refers to.
LEMMA NewCtxUnused ==
  ASSUME TypeOK, NEW fd \in Fds, table[fd] = None
  PROVE  NewCtx \in Ctxs /\ NewCtx \notin Used
<1> DEFINE D == Fds \ {fd}
           A == {table[d] : d \in D}
           B == {call[f].ctx : f \in Fibers}
<1>1. IsFiniteSet(D) /\ Cardinality(D) = Cardinality(Fds) - 1
      /\ Cardinality(Fds) \in Nat /\ Cardinality(Fibers) \in Nat /\ Cardinality(Ctxs) \in Nat
  BY ConstantsAssumption, FS_RemoveElement, FS_CardinalityType
<1>2. IsFiniteSet(A) /\ Cardinality(A) <= Cardinality(D)
  <2>1. [d \in D |-> table[d]] \in Surjection(D, A)
    BY DEF Surjection
  <2> QED
    BY <1>1, <2>1, FS_Surjection
<1>3. IsFiniteSet(B) /\ Cardinality(B) <= Cardinality(Fibers)
  <2>1. [f \in Fibers |-> call[f].ctx] \in Surjection(Fibers, B)
    BY DEF Surjection
  <2> QED
    BY <2>1, FS_Surjection, ConstantsAssumption
<1>4. IsFiniteSet(A \cup B) /\ Cardinality(A \cup B) <= Cardinality(A) + Cardinality(B)
  <2>1. /\ Cardinality(A) \in Nat /\ Cardinality(B) \in Nat
        /\ IsFiniteSet(A \cap B) /\ Cardinality(A \cap B) \in Nat
    BY <1>2, <1>3, FS_CardinalityType, FS_Intersection
  <2>2. IsFiniteSet(A \cup B) /\ Cardinality(A \cup B) = Cardinality(A) + Cardinality(B) - Cardinality(A \cap B)
    BY <1>2, <1>3, FS_Union
  <2> HIDE DEF A, B
  <2> QED
    BY <2>1, <2>2
<1>5. \E c \in Ctxs : c \notin Used
  <2>1. SUFFICES ASSUME Ctxs \subseteq Used PROVE FALSE
    OBVIOUS
  <2>2. Ctxs \subseteq A \cup B
    <3>1. None \notin Ctxs
      BY ConstantsAssumption
    <3> QED
      BY <2>1, <3>1 DEF Used
  <2>3. Cardinality(Ctxs) <= Cardinality(A \cup B)
    BY <1>4, <2>2, FS_Subset
  <2>4. Cardinality(A) \in Nat /\ Cardinality(B) \in Nat /\ Cardinality(A \cup B) \in Nat
    BY <1>2, <1>3, <1>4, FS_CardinalityType
  <2> HIDE DEF A, B, D
  <2> QED
    BY <1>1, <1>2, <1>3, <1>4, <2>3, <2>4, CtxsAssumption
<1> QED
  BY <1>5 DEF NewCtx

\* TypeOK with its record types by name.
Types ==
    /\ file \in [Fds -> 0..MaxFiles] /\ files \in 0..MaxFiles
    /\ knb \in [Fds -> BOOLEAN] /\ ready \subseteq Slots /\ polled \subseteq Fds
    /\ dialled \subseteq Fds
    /\ table \in [Fds -> Ctxs \cup {None}] /\ ctx \in [Ctxs -> CtxRec]
    /\ slot \in [Slots -> Fibers \cup {None}]
    /\ queue \subseteq Fibers /\ on \subseteq Fibers
    /\ pc \in [Fibers -> Pcs] /\ call \in [Fibers -> CallRec]
    /\ info \in [Fibers -> BOOLEAN]
    /\ armed \subseteq Fibers /\ fired \subseteq Fibers /\ cb \subseteq Slots
    /\ ncalls \in [Fibers -> 0..MaxCalls] /\ last \in [Fibers -> Results]
    /\ expired \subseteq Fibers /\ doomed \subseteq Fibers

LEMMA TypeDef == TypeOK <=> Types
  BY DEF TypeOK, Types, CtxRec, CallRec, Pcs, Results

LEMMA TypeDefNext == TypeOK' <=> Types'
  BY DEF TypeOK, Types, CtxRec, CallRec, Pcs, Results

\* A call's record: what Begin() makes of it and what the head of DoIo() adds.
LEMMA CallFields ==
  ASSUME NEW op \in Calls, NEW fd \in Fds, NEW v \in BOOLEAN,
         NEW x \in CallRec, NEW c \in Ctxs \cup {None}, NEW w \in BOOLEAN
  PROVE  /\ [NoCall EXCEPT !.op = op, !.fd = fd, !.arg = v] \in CallRec
         /\ [NoCall EXCEPT !.op = op, !.fd = fd, !.arg = v].op = op
         /\ [NoCall EXCEPT !.op = op, !.fd = fd, !.arg = v].fd = fd
         /\ [x EXCEPT !.ctx = c] \in CallRec
         /\ [x EXCEPT !.ctx = c].op = x.op /\ [x EXCEPT !.ctx = c].fd = x.fd
         /\ [x EXCEPT !.ctx = c].ctx = c
         /\ [x EXCEPT !.ctx = c, !.timed = w] \in CallRec
         /\ [x EXCEPT !.ctx = c, !.timed = w].op = x.op
         /\ [x EXCEPT !.ctx = c, !.timed = w].fd = x.fd
         /\ [x EXCEPT !.ctx = c, !.timed = w].ctx = c
         /\ x.op \in Calls \cup {None} /\ x.fd \in Fds \cup {None} /\ x.ctx \in Ctxs \cup {None}
         /\ x.timed \in BOOLEAN /\ x.arg \in BOOLEAN
  BY DEF NoCall, CallRec

LEMMA ReturnTypes ==
  ASSUME Types, NEW f \in Fibers, NEW r \in Results, Return(f, r)
  PROVE  /\ pc' \in [Fibers -> Pcs] /\ call' \in [Fibers -> CallRec]
         /\ info' \in [Fibers -> BOOLEAN] /\ last' \in [Fibers -> Results]
         /\ armed' \subseteq Fibers /\ fired' \subseteq Fibers /\ cb' \subseteq Slots
         /\ expired' \subseteq Fibers /\ doomed' \subseteq Fibers
  BY NoCallType DEF Types, Return, Goto, Pcs

\* A context that is made for a number: that of its file, if it is open, and the
\* file is then non-blocking.
Made(fd, d) ==
    /\ d \notin Used /\ table[fd] = None /\ table'[fd] = d
    /\ ~ctx'[d].closed /\ ctx'[d].file = file[fd]
    /\ ctx'[d].snb = (file[fd] # 0) /\ ctx'[d].socket = (file[fd] # 0)
    /\ file[fd] # 0 => knb'[fd]

\* Contexts keep what they are, unless nobody refers to them.
Kept ==
    \A d \in Ctxs :
        \/ KeepsCtx(ctx'[d], ctx[d])
        \/ d \notin Used /\ \E fd \in Fds : Made(fd, d)

LEMMA AllKept ==
  ASSUME \A d \in Ctxs : KeepsCtx(ctx'[d], ctx[d])
  PROVE  Kept
  BY DEF Kept

\* What FdManager::get(fd, true) does: the objects in use keep what they are,
\* and a new one is that of the open file, which is then non-blocking.
LEMMA GetContextStep ==
  ASSUME TypeOK, NEW fd \in Fds, NEW c \in Ctxs, NEW unb \in BOOLEAN \cup {None},
         GetContext(fd, c, unb)
  PROVE  /\ ctx' \in [Ctxs -> CtxRec] /\ table' \in [Fds -> Ctxs \cup {None}]
         /\ knb' \in [Fds -> BOOLEAN]
         /\ Kept
         /\ table'[fd] = c
         /\ \A d \in Fds : d # fd => table'[d] = table[d] /\ knb'[d] = knb[d]
         /\ table[fd] # None => c = table[fd] /\ knb' = knb /\ table' = table
         /\ table[fd] = None => Made(fd, c)
<1>t. Types
  BY TypeDef
<1>1. CASE table[fd] # None
  <2> DEFINE w == IF unb = None THEN ctx[c].unb ELSE unb
             y == [ctx[c] EXCEPT !.unb = w]
  <2>1. ctx[c] \in CtxRec /\ w \in BOOLEAN
    BY <1>t DEF Types, CtxRec
  <2>2. y \in CtxRec /\ KeepsCtx(y, ctx[c])
    BY <2>1, SetFields
  <2>3. ctx' = [ctx EXCEPT ![c] = y] /\ c = table[fd] /\ table' = table /\ knb' = knb
    BY <1>1, <1>t DEF GetContext, Types
  <2> HIDE DEF w, y
  <2>4. \A d \in Ctxs : KeepsCtx(ctx[d], ctx[d])
    BY DEF KeepsCtx
  <2>5. \A d \in Ctxs : ctx'[d] = IF d = c THEN y ELSE ctx[d]
    BY <2>3, <1>t DEF Types
  <2>6. \A d \in Ctxs : KeepsCtx(ctx'[d], ctx[d])
    BY <2>5, <2>4, <2>2
  <2> QED
    BY <2>6, <2>5, <2>3, <2>2, <1>t, <1>1, AllKept DEF Types
<1>2. CASE table[fd] = None
  <2> DEFINE y == [NoCtx EXCEPT !.socket = file[fd] # 0, !.snb = file[fd] # 0,
                                !.unb = (unb = TRUE), !.file = file[fd]]
  <2>1. file[fd] \in 0..MaxFiles
    BY <1>t DEF Types
  <2>2. /\ y \in CtxRec /\ ~y.closed /\ y.file = file[fd] /\ y.snb = (file[fd] # 0)
        /\ y.socket = (file[fd] # 0)
    BY <2>1 DEF NoCtx, CtxRec
  <2>3. ctx' = [ctx EXCEPT ![c] = y] /\ c = NewCtx /\ table' = [table EXCEPT ![fd] = c]
        /\ knb' = [knb EXCEPT ![fd] = @ \/ file[fd] # 0]
    BY <1>2, <1>t DEF GetContext, FdCtxInit, Types
  <2> HIDE DEF y
  <2>4. c \notin Used
    BY <2>3, <1>2, NewCtxUnused
  <2>5. \A d \in Ctxs : ctx'[d] = IF d = c THEN y ELSE ctx[d]
    BY <2>3, <1>t DEF Types
  <2>7. ctx' \in [Ctxs -> CtxRec] /\ table' \in [Fds -> Ctxs \cup {None}]
        /\ knb' \in [Fds -> BOOLEAN]
    BY <2>2, <2>3, <1>t DEF Types
  <2>8. table'[fd] = c /\ (\A d \in Fds : d # fd => table'[d] = table[d] /\ knb'[d] = knb[d])
        /\ (file[fd] # 0 => knb'[fd])
    BY <2>3, <1>t DEF Types
  <2>9. Made(fd, c)
    BY <2>4, <2>5, <2>8, <2>2, <1>2 DEF Made
  <2>10. Kept
    <3>1. \A d \in Ctxs : d # c => KeepsCtx(ctx'[d], ctx[d])
      BY <2>5 DEF KeepsCtx
    <3> QED
      BY <2>4, <2>9, <3>1 DEF Kept
  <2> QED
    BY <2>7, <2>8, <2>9, <2>10, <1>2
<1> QED
  BY <1>1, <1>2

\* A step that writes one field of one context.
LEMMA SetContext ==
  ASSUME Types, NEW c \in Ctxs, NEW y \in CtxRec, KeepsCtx(y, ctx[c]),
         ctx' = [ctx EXCEPT ![c] = y]
  PROVE  ctx' \in [Ctxs -> CtxRec] /\ ctx'[c] = y
         /\ \A d \in Ctxs : KeepsCtx(ctx'[d], ctx[d])
<1>1. \A d \in Ctxs : ctx'[d] = IF d = c THEN y ELSE ctx[d]
  BY DEF Types
<1>2. \A d \in Ctxs : KeepsCtx(ctx[d], ctx[d])
  BY DEF KeepsCtx
<1> QED
  BY <1>1, <1>2 DEF Types

LEMMA SameContexts ==
  ASSUME Types, UNCHANGED ctx
  PROVE  ctx' \in [Ctxs -> CtxRec] /\ \A d \in Ctxs : KeepsCtx(ctx'[d], ctx[d])
  BY DEF Types, KeepsCtx

\* Every step keeps the types, and the contexts in use.
LEMMA WorkerTypes ==
  ASSUME TypeOK, CallInv, TimerInv, NEW f \in Fibers,
         Resume(f) \/ Begin(f) \/ Yield(f) \/ Finish(f)
         \/ Expire(f) \/ TimerCallback(f) \/ SleepOver(f)
  PROVE  TypeOK' /\ Kept
<1>t. Types
  BY TypeDef
<1>c. Kept
  <2>1. UNCHANGED ctx
    BY DEF Resume, Begin, Yield, Finish, Expire, TimerCallback, SleepOver, fdVars
  <2> QED
    BY <2>1, <1>t, SameContexts, AllKept
<1>s. SUFFICES Types'
  BY <1>c, TypeDefNext
<1>1. CASE Resume(f)
  BY <1>1, <1>t DEF Types, Resume, Pcs, kernelVars, fdVars, timerVars
<1>2. CASE Begin(f)
  <2>1. PICK op \in Calls, fd \in Fds, v \in BOOLEAN :
          /\ op = "socket" => files < MaxFiles
          /\ call' = [call EXCEPT ![f] = [NoCall EXCEPT !.op = op, !.fd = fd, !.arg = v]]
          /\ Goto(f, Entry(op))
          /\ IF op = "socket"
             THEN /\ file' = [file EXCEPT ![fd] = files + 1] /\ files' = files + 1
                  /\ knb' = [knb EXCEPT ![fd] = v]
             ELSE UNCHANGED <<file, files, knb>>
    BY <1>2 DEF Begin
  <2>2. call' \in [Fibers -> CallRec]
    <3>1. call[f] \in CallRec /\ None \in Ctxs \cup {None}
      BY <1>t DEF Types
    <3>2. [NoCall EXCEPT !.op = op, !.fd = fd, !.arg = v] \in CallRec
      BY <3>1, CallFields
    <3> QED
      BY <3>2, <2>1, <1>t DEF Types
  <2>3. pc' \in [Fibers -> Pcs]
    BY <2>1, <1>t DEF Types, Goto, Entry, Pcs
  <2>4. /\ file' \in [Fds -> 0..MaxFiles] /\ files' \in 0..MaxFiles
        /\ knb' \in [Fds -> BOOLEAN]
    BY <2>1, <1>t, ConstantsAssumption DEF Types
  <2>5. ncalls' \in [Fibers -> 0..MaxCalls]
    <3>1. ncalls[f] \in 0..MaxCalls /\ ncalls[f] < MaxCalls /\ MaxCalls \in Nat
      BY <1>2, <1>t, ConstantsAssumption DEF Types, Begin
    <3>2. ncalls[f] + 1 \in 0..MaxCalls
      BY <3>1
    <3> QED
      BY <1>2, <1>t, <3>2 DEF Types, Begin
  <2> QED
    BY <1>2, <1>t, <2>2, <2>3, <2>4, <2>5 DEF Types, Begin, fdVars, timerVars
<1>3. CASE Yield(f) \/ Finish(f)
  BY <1>3, <1>t DEF Types, Yield, Finish, kernelVars, fdVars, timerVars
<1>4. CASE Expire(f) \/ SleepOver(f)
  BY <1>4, <1>t DEF Types, Expire, SleepOver, kernelVars, fdVars, timerVars
<1>5. CASE TimerCallback(f)
  <2>1. cb' \subseteq Slots
    <3>1. call[f].fd \in Fds /\ EventOf(f) \in Events
      BY <1>5 DEF TimerCallback, TimerInv, TimerOf, CallInv, CallOf, EventOf, Events
    <3> QED
      BY <1>5, <1>t, <3>1 DEF TimerCallback, Types, Slots
  <2> QED
    BY <1>5, <1>t, <2>1 DEF Types, TimerCallback, kernelVars, fdVars
<1> QED
  BY <1>1, <1>2, <1>3, <1>4, <1>5

\* The handlers that leave an FdContext are fibers, and only they are scheduled.
LEMMA CancelEventStep ==
  ASSUME Types, NEW fd \in Fds, NEW E \in SUBSET Events,
         TakeOut(fd, E) \/ CancelEvent(fd, E)
  PROVE  /\ slot' \in [Slots -> Fibers \cup {None}] /\ queue' \subseteq Fibers
         /\ polled' \subseteq Fds
         /\ \A s \in Slots : slot'[s] \in {slot[s], None}
         /\ \A g \in Fibers : g \in queue' /\ g \notin queue =>
               \E s \in Slots : slot[s] = g /\ slot'[s] = None
<1>1. CASE TakeOut(fd, E)
  <2>1. \A e \in E : <<fd, e>> \in Slots
    BY DEF Slots
  <2>2. \A e \in Registered(fd) : slot[<<fd, e>>] \in Fibers
    BY DEF Registered, Types, Slots
  <2>3. slot' = [s \in Slots |-> IF s[1] = fd /\ s[2] \in E THEN None ELSE slot[s]]
        /\ queue' = queue \cup {slot[<<fd, e>>] : e \in E \cap Registered(fd)}
        /\ (polled' = polled \ {fd} \/ polled' = polled)
    BY <1>1 DEF TakeOut
  <2>4. slot' \in [Slots -> Fibers \cup {None}] /\ \A s \in Slots : slot'[s] \in {slot[s], None}
    BY <2>3 DEF Types
  <2>5. \A e \in E : slot'[<<fd, e>>] = None
    BY <2>1, <2>3
  <2>6. ASSUME NEW g \in Fibers, g \in queue', g \notin queue
        PROVE  \E s \in Slots : slot[s] = g /\ slot'[s] = None
    <3>1. PICK e \in E \cap Registered(fd) : g = slot[<<fd, e>>]
      BY <2>3, <2>6
    <3> QED
      BY <3>1, <2>1, <2>5
  <2>7. queue' \subseteq Fibers
    <3>1. \A x \in {slot[<<fd, e>>] : e \in E \cap Registered(fd)} : x \in Fibers
      BY <2>2
    <3> QED
      BY <2>3, <3>1 DEF Types
  <2>8. polled' \subseteq Fds
    BY <2>3 DEF Types
  <2> QED
    BY <2>4, <2>6, <2>7, <2>8
<1>2. CASE UNCHANGED <<slot, queue, polled>>
  BY <1>2 DEF Types
<1> QED
  BY <1>1, <1>2 DEF CancelEvent

LEMMA EventTypes ==
  ASSUME TypeOK,
         (\E s \in Slots : TimerCancels(s) \/ FdReady(s)) \/ (\E fd \in Fds : Deliver(fd))
  PROVE  TypeOK' /\ Kept
<1>t. Types
  BY TypeDef
<1>c. Kept
  <2>1. UNCHANGED ctx
    BY DEF TimerCancels, FdReady, Deliver, fdVars
  <2> QED
    BY <2>1, <1>t, SameContexts, AllKept
<1>s. SUFFICES Types'
  BY <1>c, TypeDefNext
<1>1. CASE \E s \in Slots : TimerCancels(s)
  <2>1. PICK s \in Slots : TimerCancels(s)
    BY <1>1
  <2>2. s[1] \in Fds /\ {s[2]} \in SUBSET Events /\ CancelEvent(s[1], {s[2]})
    BY <2>1 DEF Slots, TimerCancels
  <2>3. /\ slot' \in [Slots -> Fibers \cup {None}] /\ queue' \subseteq Fibers
        /\ polled' \subseteq Fds
    BY <2>2, <1>t, CancelEventStep
  <2> QED
    BY <2>1, <2>3, <1>t DEF Types, TimerCancels, fdVars
<1>2. CASE \E s \in Slots : FdReady(s)
  BY <1>2, <1>t DEF Types, FdReady, fdVars, timerVars
<1>3. CASE \E fd \in Fds : Deliver(fd)
  <2>1. PICK fd \in Fds : Deliver(fd)
    BY <1>3
  <2> DEFINE E == {e \in Registered(fd) : <<fd, e>> \in ready}
  <2>2. E \in SUBSET Events /\ TakeOut(fd, E)
    BY <2>1 DEF Deliver, Registered
  <2>3. /\ slot' \in [Slots -> Fibers \cup {None}] /\ queue' \subseteq Fibers
        /\ polled' \subseteq Fds
    BY <2>2, <1>t, CancelEventStep
  <2> QED
    BY <2>1, <2>3, <1>t DEF Types, Deliver, fdVars, timerVars
<1> QED
  BY <1>1, <1>2, <1>3

LEMMA CloseTypes ==
  ASSUME TypeOK, CallInv, NEW f \in Fibers, Close(f)
  PROVE  TypeOK' /\ Kept
<1>t. Types
  BY TypeDef
<1>f. call[f].fd \in Fds
  BY DEF Close, MarkClosed, CloseCancels, DelContext, CloseFile, At, CallInv, CallOf
<1> DEFINE c == table[call[f].fd]
<1>a. c \in Ctxs \cup {None}
  BY <1>f, <1>t DEF Types
<1>b. ASSUME c # None, ctx' = [ctx EXCEPT ![c].closed = TRUE]
      PROVE  ctx' \in [Ctxs -> CtxRec] /\ \A d \in Ctxs : KeepsCtx(ctx'[d], ctx[d])
  <2>1. c \in Ctxs /\ ctx[c] \in CtxRec
    BY <1>b, <1>a, <1>t DEF Types
  <2>2. [ctx[c] EXCEPT !.closed = TRUE] \in CtxRec
        /\ KeepsCtx([ctx[c] EXCEPT !.closed = TRUE], ctx[c])
    BY <2>1, SetFields
  <2>3. ctx' = [ctx EXCEPT ![c] = [ctx[c] EXCEPT !.closed = TRUE]]
    BY <1>b, <2>1
  <2> QED
    BY <2>1, <2>2, <2>3, <1>t, SetContext
<1> HIDE DEF c
<1>1. ctx' \in [Ctxs -> CtxRec] /\ \A d \in Ctxs : KeepsCtx(ctx'[d], ctx[d])
  <2>1. CASE UNCHANGED ctx
    BY <2>1, <1>t, SameContexts
  <2>2. CASE c # None /\ ctx' = [ctx EXCEPT ![c].closed = TRUE]
    BY <2>2, <1>b
  <2> QED
    BY <2>1, <2>2 DEF Close, MarkClosed, CloseCancels, DelContext, CloseFile, fdVars, c
<1>s. SUFFICES Types'
  BY <1>1, TypeDefNext, AllKept
<1>2. CASE MarkClosed(f)
  BY <1>2, <1>1, <1>t DEF Types, MarkClosed, Goto, Pcs, kernelVars, timerVars
<1>3. CASE CloseCancels(f)
  <2>1. Events \in SUBSET Events /\ CancelEvent(call[f].fd, Events)
    BY <1>3 DEF CloseCancels
  <2>2. /\ slot' \in [Slots -> Fibers \cup {None}] /\ queue' \subseteq Fibers
        /\ polled' \subseteq Fds
    BY <2>1, <1>f, <1>t, CancelEventStep
  <2> QED
    BY <1>3, <2>2, <1>t DEF Types, CloseCancels, Goto, Pcs, fdVars, timerVars
<1>4. CASE DelContext(f)
  BY <1>4, <1>1, <1>t, <1>f DEF Types, DelContext, Goto, Pcs, kernelVars, timerVars
<1>5. CASE CloseFile(f)
  <2>1. PICK r \in Results : Return(f, r)
    BY <1>5 DEF CloseFile, Results
  <2>2. /\ file' \in [Fds -> 0..MaxFiles] /\ knb' \in [Fds -> BOOLEAN]
        /\ ready' \subseteq Slots /\ polled' \subseteq Fds /\ dialled' \subseteq Fds
    BY <1>5, <1>t, <1>f, ConstantsAssumption DEF CloseFile, Types
  <2> QED
    BY <1>5, <2>1, <2>2, <1>t, ReturnTypes DEF Types, CloseFile, fdVars
<1> QED
  BY <1>2, <1>3, <1>4, <1>5 DEF Close

LEMMA SettingsTypes ==
  ASSUME TypeOK, CallInv, NEW f \in Fibers, Settings(f)
  PROVE  TypeOK' /\ Kept
<1>t. Types
  BY TypeDef
<1>f. call[f].fd \in Fds /\ call[f] \in CallRec /\ call[f].arg \in BOOLEAN
  <2>1. call[f].fd \in Fds
    BY DEF Settings, SocketContext, SetTimeout, FcntlContext, FcntlKernel, IoctlKernel,
           IoctlContext, At, CallInv, CallOf
  <2> QED
    BY <2>1, <1>t DEF Types, CallRec
<1> DEFINE fd == call[f].fd
           c == table[fd]
<1>a. c \in Ctxs \cup {None}
  BY <1>f, <1>t DEF Types
<1>b. ASSUME c # None, NEW v \in BOOLEAN,
             ctx' = [ctx EXCEPT ![c].unb = v] \/ ctx' = [ctx EXCEPT ![c].timed = v]
      PROVE  ctx' \in [Ctxs -> CtxRec] /\ \A d \in Ctxs : KeepsCtx(ctx'[d], ctx[d])
  <2>1. c \in Ctxs /\ ctx[c] \in CtxRec
    BY <1>b, <1>a, <1>t DEF Types
  <2>2. /\ [ctx[c] EXCEPT !.unb = v] \in CtxRec /\ KeepsCtx([ctx[c] EXCEPT !.unb = v], ctx[c])
        /\ [ctx[c] EXCEPT !.timed = v] \in CtxRec /\ KeepsCtx([ctx[c] EXCEPT !.timed = v], ctx[c])
    BY <2>1, SetFields
  <2>3. \/ ctx' = [ctx EXCEPT ![c] = [ctx[c] EXCEPT !.unb = v]]
        \/ ctx' = [ctx EXCEPT ![c] = [ctx[c] EXCEPT !.timed = v]]
    BY <1>b, <2>1
  <2> QED
    BY <2>1, <2>2, <2>3, <1>t, SetContext
<1>1. CASE SocketContext(f)
  <2>1. PICK d \in Ctxs : GetContext(fd, d, call[f].arg)
    BY <1>1 DEF SocketContext
  <2>2. /\ ctx' \in [Ctxs -> CtxRec] /\ table' \in [Fds -> Ctxs \cup {None}]
        /\ knb' \in [Fds -> BOOLEAN] /\ Kept
    BY <2>1, <1>f, GetContextStep
  <2>3. "ok" \in Results /\ Return(f, "ok")
    BY <1>1 DEF SocketContext, Results
  <2>4. Types'
    BY <1>1, <2>2, <2>3, <1>t, ReturnTypes DEF Types, SocketContext
  <2> QED
    BY <2>2, <2>4, TypeDefNext
<1> HIDE DEF c
<1>2. ASSUME ~SocketContext(f)
      PROVE  ctx' \in [Ctxs -> CtxRec] /\ \A d \in Ctxs : KeepsCtx(ctx'[d], ctx[d])
  <2>1. CASE UNCHANGED ctx
    BY <2>1, <1>t, SameContexts
  <2>2. CASE c # None /\ (\/ ctx' = [ctx EXCEPT ![c].unb = call[f].arg]
                          \/ ctx' = [ctx EXCEPT ![c].timed = call[f].arg])
    BY <2>2, <1>b, <1>f
  <2> QED
    BY <1>2, <2>1, <2>2 DEF Settings, SetTimeout, FcntlContext, FcntlKernel, IoctlKernel,
           IoctlContext, TimeoutSet, fdVars, c
<1>3. ASSUME ~SocketContext(f)
      PROVE  Types'
  <2>0. ctx' \in [Ctxs -> CtxRec]
    BY <1>2, <1>3
  <2>1. CASE SetTimeout(f)
    <3>1. PICK r \in Results : Return(f, r)
      BY <2>1 DEF SetTimeout, Results
    <3> QED
      BY <2>1, <2>0, <3>1, <1>t, ReturnTypes DEF Types, SetTimeout, kernelVars
  <2>2. CASE FcntlContext(f)
    <3>1. PICK x \in Ctxs \cup {None} : call' = [call EXCEPT ![f].ctx = x]
      BY <2>2, <1>a DEF FcntlContext, c
    <3>2. call' = [call EXCEPT ![f] = [call[f] EXCEPT !.ctx = x]]
      BY <3>1
    <3>3. [call[f] EXCEPT !.ctx = x] \in CallRec
      BY <1>f, CallFields, <3>1 DEF CallRec
    <3>4. call' \in [Fibers -> CallRec]
      BY <3>2, <3>3, <1>t DEF Types
    <3> QED
      BY <2>2, <2>0, <3>4, <1>t DEF Types, FcntlContext, Goto, Pcs, kernelVars, timerVars
  <2>3. CASE FcntlKernel(f)
    <3>1. PICK r \in Results : Return(f, r)
      BY <2>3 DEF FcntlKernel, Results
    <3>2. knb' \in [Fds -> BOOLEAN]
      BY <2>3, <1>t DEF FcntlKernel, Types
    <3> QED
      BY <2>3, <3>1, <3>2, <1>t, ReturnTypes DEF Types, FcntlKernel, fdVars
  <2>4. CASE IoctlKernel(f)
    BY <2>4, <1>t, <1>f DEF Types, IoctlKernel, Goto, Pcs, fdVars, timerVars
  <2>5. CASE IoctlContext(f)
    <3>1. PICK r \in Results : Return(f, r)
      BY <2>5 DEF IoctlContext, Results
    <3>2. knb' \in [Fds -> BOOLEAN]
      BY <2>5, <1>t DEF IoctlContext, Types
    <3> QED
      BY <2>5, <2>0, <3>1, <3>2, <1>t, ReturnTypes DEF Types, IoctlContext
  <2> QED
    BY <1>3, <2>1, <2>2, <2>3, <2>4, <2>5 DEF Settings
<1> QED
  BY <1>1, <1>2, <1>3, TypeDefNext, AllKept

\* The head of DoIo(): the call ends, or keeps its context and goes on.
LEMMA GetCtxStep ==
  ASSUME TypeOK, CallInv, NEW f \in Fibers, GetCtx(f)
  PROVE  \E c \in Ctxs :
            /\ GetContext(call[f].fd, c, None)
            /\ \/ \E r \in Results : Return(f, r)
               \/ /\ ~ctx'[c].closed
                  /\ \E w \in BOOLEAN :
                        call' = [call EXCEPT ![f] = [call[f] EXCEPT !.ctx = c, !.timed = w]]
                  /\ \E p \in {"call", "check"} : Goto(f, p)
                  /\ UNCHANGED <<timerVars, last, doomed>>
<1>t. Types
  BY TypeDef
<1>f. call[f].fd \in Fds /\ call[f] \in CallRec /\ call[f].arg \in BOOLEAN
  <2>1. call[f].fd \in Fds
    BY DEF GetCtx, At, CallInv, CallOf
  <2> QED
    BY <2>1, <1>t DEF Types, CallRec
<1> DEFINE fd == call[f].fd
<1>1. PICK c \in Ctxs :
          /\ GetContext(fd, c, None)
          /\ IF ctx'[c].closed THEN Return(f, "EBADF")
             ELSE IF ~ctx'[c].socket \/ ctx'[c].unb
             THEN Return(f, IF file[fd] = 0 THEN "EBADF"
                            ELSE IF <<fd, EventOf(f)>> \in ready THEN "ok" ELSE "EAGAIN")
             ELSE /\ call' = [call EXCEPT ![f].ctx = c,
                                          ![f].timed = IF call[f].op = "connect" THEN call[f].arg
                                                       ELSE ctx'[c].timed]
                  /\ Goto(f, IF call[f].op = "connect" THEN "call" ELSE "check")
                  /\ UNCHANGED <<timerVars, last, doomed>>
  BY DEF GetCtx
<1> DEFINE w == IF call[f].op = "connect" THEN call[f].arg ELSE ctx'[c].timed
<1>2. w \in BOOLEAN
  <2>1. ctx' \in [Ctxs -> CtxRec]
    BY <1>1, <1>f, GetContextStep
  <2> QED
    BY <2>1, <1>f DEF CtxRec
<1>3. CASE ctx'[c].closed
  BY <1>1, <1>3 DEF Results
<1>4. CASE ~ctx'[c].closed /\ (~ctx'[c].socket \/ ctx'[c].unb)
  BY <1>1, <1>4 DEF Results
<1>5. CASE ~ctx'[c].closed /\ ~(~ctx'[c].socket \/ ctx'[c].unb)
  <2>1. call' = [call EXCEPT ![f].ctx = c, ![f].timed = w]
    BY <1>1, <1>5
  <2> HIDE DEF w
  <2>2. call' = [call EXCEPT ![f] = [call[f] EXCEPT !.ctx = c, !.timed = w]]
    BY <2>1, <1>t DEF Types
  <2> QED
    BY <1>1, <1>2, <1>5, <2>2
<1> QED
  BY <1>3, <1>4, <1>5

LEMMA DoIoTypes ==
  ASSUME TypeOK, CallInv, NEW f \in Fibers, DoIo(f)
  PROVE  TypeOK' /\ Kept
<1>t. Types
  BY TypeDef
<1>f. call[f].fd \in Fds /\ call[f] \in CallRec
  <2>1. call[f].fd \in Fds
    BY
       DEF DoIo, GetCtx, CheckClosed, SystemCall, ArmTimer, AddEvent, Hold, Woken, At, CallInv,
           CallOf
  <2> QED
    BY <2>1, <1>t DEF Types
<1>1. CASE GetCtx(f)
  <2>1. PICK c \in Ctxs :
            /\ GetContext(call[f].fd, c, None)
            /\ \/ \E r \in Results : Return(f, r)
               \/ /\ \E w \in BOOLEAN :
                        call' = [call EXCEPT ![f] = [call[f] EXCEPT !.ctx = c, !.timed = w]]
                  /\ \E p \in {"call", "check"} : Goto(f, p)
                  /\ UNCHANGED <<timerVars, last, doomed>>
    BY <1>1, GetCtxStep
  <2>2. /\ ctx' \in [Ctxs -> CtxRec] /\ table' \in [Fds -> Ctxs \cup {None}]
        /\ knb' \in [Fds -> BOOLEAN] /\ Kept
    BY <2>1, <1>f, GetContextStep
  <2>3. CASE \E r \in Results : Return(f, r)
    <3>1. Types'
      BY <2>3, <2>2, <1>1, <1>t, ReturnTypes DEF Types, GetCtx
    <3> QED
      BY <3>1, <2>2, TypeDefNext
  <2>4. CASE ~\E r \in Results : Return(f, r)
    <3>1. PICK w \in BOOLEAN :
             call' = [call EXCEPT ![f] = [call[f] EXCEPT !.ctx = c, !.timed = w]]
      BY <2>4, <2>1
    <3>2. [call[f] EXCEPT !.ctx = c, !.timed = w] \in CallRec
      BY <1>f DEF CallRec
    <3>3. call' \in [Fibers -> CallRec]
      BY <3>1, <3>2, <1>t DEF Types
    <3>4. pc' \in [Fibers -> Pcs]
      BY <2>1, <2>4, <1>t DEF Types, Goto, Pcs
    <3>5. Types'
      BY <2>1, <2>4, <3>3, <3>4, <2>2, <1>1, <1>t DEF Types, GetCtx, timerVars
    <3> QED
      BY <3>5, <2>2, TypeDefNext
  <2> QED
    BY <2>3, <2>4
<1>2. ASSUME ~GetCtx(f)
      PROVE  Kept
  <2>1. UNCHANGED ctx
    BY <1>2 DEF DoIo, CheckClosed, SystemCall, ArmTimer, AddEvent, Hold, Woken, fdVars
  <2> QED
    BY <2>1, <1>t, SameContexts, AllKept
<1>s. SUFFICES ASSUME ~GetCtx(f)
               PROVE  Types'
  BY <1>1, <1>2, TypeDefNext
<1>3. CASE CheckClosed(f)
  <2>1. CASE Closed(f)
    <3>1. "EBADF" \in Results /\ Return(f, "EBADF")
      BY <1>3, <2>1 DEF CheckClosed, Results
    <3> QED
      BY <1>3, <3>1, <1>t, ReturnTypes DEF Types, CheckClosed, kernelVars, fdVars
  <2>2. CASE ~Closed(f)
    BY <1>3, <2>2, <1>t DEF Types, CheckClosed, kernelVars, fdVars, timerVars, Goto, Pcs
  <2> QED
    BY <2>1, <2>2
<1>4. CASE SystemCall(f)
  <2>1. ready' \subseteq Slots /\ dialled' \subseteq Fds
    BY <1>4, <1>t, <1>f DEF SystemCall, Types
  <2>2. CASE \E r \in Results : Return(f, r)
    BY <1>4, <2>1, <2>2, <1>t, ReturnTypes DEF Types, SystemCall, fdVars
  <2>3. CASE Goto(f, "arm") /\ UNCHANGED <<call, timerVars, last, doomed, ready>>
    BY <1>4, <2>1, <2>3, <1>t DEF Types, SystemCall, fdVars, timerVars, Goto, Pcs
  <2> QED
    BY <1>4, <2>2, <2>3 DEF SystemCall, Results
<1>5. CASE ArmTimer(f)
  BY <1>5, <1>t DEF Types, ArmTimer, kernelVars, fdVars, Goto, Pcs
<1>6. CASE AddEvent(f)
  <2>1. <<call[f].fd, EventOf(f)>> \in Slots
    BY <1>f DEF Slots, EventOf, Events
  <2>2. CASE \E r \in Results : Return(f, r)
    <3>1. UNCHANGED <<slot, polled>> \/ (pc'[f] = "yield" /\ pc'[f] = "idle")
      BY <1>6, <2>2, <1>t DEF AddEvent, Types, Return, Goto
    <3> QED
      BY <1>6, <3>1, <2>2, <1>t, ReturnTypes DEF Types, AddEvent, fdVars
  <2>3. CASE /\ slot' = [slot EXCEPT ![<<call[f].fd, EventOf(f)>>] = f]
             /\ polled' = polled \cup {call[f].fd}
             /\ Goto(f, "yield")
             /\ UNCHANGED <<call, timerVars, last, doomed>>
    BY <1>6, <2>1, <2>3, <1>t, <1>f DEF Types, AddEvent, fdVars, timerVars, Goto, Pcs
  <2> QED
    BY <1>6, <2>2, <2>3 DEF AddEvent, Results
<1>7. CASE Hold(f)
  BY <1>7, <1>t DEF Types, Hold, kernelVars, fdVars, timerVars, Goto, Pcs
<1>8. CASE Woken(f)
  <2>1. CASE \E r \in Results : Return(f, r)
    BY <1>8, <2>1, <1>t, ReturnTypes DEF Types, Woken, kernelVars, fdVars
  <2>2. CASE /\ armed' = armed \ {f} /\ Goto(f, "check")
             /\ UNCHANGED <<call, info, fired, cb, expired, last, doomed>>
    BY <1>8, <2>2, <1>t DEF Types, Woken, kernelVars, fdVars, Goto, Pcs
  <2> QED
    BY <1>8, <2>1, <2>2 DEF Woken, Results
<1> QED
  BY <1>s, <1>3, <1>4, <1>5, <1>6, <1>7, <1>8 DEF DoIo

LEMMA TypeStep ==
  ASSUME TypeOK, CallInv, TimerInv, Next
  PROVE  TypeOK' /\ Kept
  BY WorkerTypes, EventTypes, CloseTypes, SettingsTypes, DoIoTypes DEF Next, Step

-----------------------------------------------------------------------------
(* Calls and timers. *)

\* A fiber's step leaves the calls of the others alone.
Others(f) ==
    \A g \in Fibers \ {f} :
        /\ pc'[g] = pc[g] /\ call'[g] = call[g] /\ info'[g] = info[g]
        /\ (g \in armed' <=> g \in armed) /\ (g \in fired' <=> g \in fired)
        /\ (g \in expired' <=> g \in expired) /\ (g \in on' <=> g \in on)

\* The call of a fiber is over.
Over(f) == /\ pc'[f] = "idle" /\ call'[f] = NoCall /\ info'[f] = FALSE
           /\ f \notin armed' /\ f \notin fired' /\ f \notin expired' /\ f \notin doomed'

LEMMA ReturnOver ==
  ASSUME Types, NEW f \in Fibers, NEW r, Return(f, r)
  PROVE  Over(f) /\ (UNCHANGED on => Others(f)) /\ doomed' = doomed \ {f}
  BY DEF Types, Return, Goto, Over, Others

LEMMA OverCall ==
  ASSUME NEW f \in Fibers, Over(f)
  PROVE  CallOf(f)' /\ TimerOf(f)'
  BY DEF Over, CallOf, TimerOf, Waiting

\* What a fiber is about does not change before its call is over.
Same(f) == call'[f].op = call[f].op /\ call'[f].fd = call[f].fd

LEMMA WorkerCalls ==
  ASSUME TypeOK, CallInv, TimerInv, NEW f \in Fibers,
         Resume(f) \/ Begin(f) \/ Yield(f) \/ Finish(f)
         \/ Expire(f) \/ TimerCallback(f) \/ SleepOver(f)
  PROVE  Others(f) /\ CallOf(f)' /\ TimerOf(f)'
<1>t. Types
  BY TypeDef
<1>i. CallOf(f) /\ TimerOf(f)
  BY DEF CallInv, TimerInv
<1>1. CASE Resume(f)
  <2>1. Others(f)
    BY <1>1, <1>t DEF Types, Resume, Others, timerVars
  <2>2. CallOf(f)' /\ TimerOf(f)'
    BY <1>1, <1>t, <1>i DEF Types, Resume, CallOf, TimerOf, timerVars, PcOps, Waiting
  <2> QED
    BY <2>1, <2>2
<1>2. CASE Begin(f)
  <2>1. PICK op \in Calls, fd \in Fds, v \in BOOLEAN :
          /\ call' = [call EXCEPT ![f] = [NoCall EXCEPT !.op = op, !.fd = fd, !.arg = v]]
          /\ Goto(f, Entry(op))
    BY <1>2 DEF Begin
  <2> DEFINE x == [NoCall EXCEPT !.op = op, !.fd = fd, !.arg = v]
  <2>2. x.op = op /\ x.fd = fd
    BY DEF NoCall
  <2>3. call' = [call EXCEPT ![f] = x] /\ pc' = [pc EXCEPT ![f] = Entry(op)]
    BY <2>1 DEF Goto
  <2> HIDE DEF x
  <2>4. Others(f)
    BY <1>2, <2>3, <1>t DEF Types, Begin, Others, timerVars
  <2>5. call'[f].op = op /\ call'[f].fd = fd /\ pc'[f] = Entry(op)
    BY <2>2, <2>3, <1>t DEF Types
  <2>6. Entry(op) # "idle" /\ op \in PcOps(Entry(op)) /\ (Entry(op) \in Waiting => op = "sleep")
    BY ConstantsAssumption DEF Entry, PcOps, Waiting
  <2>7. CallOf(f)'
    BY <2>5, <2>6 DEF CallOf
  <2>8. TimerOf(f)'
    BY <1>2, <1>i, <2>5, <2>6 DEF TimerOf, Begin, timerVars
  <2> QED
    BY <2>4, <2>7, <2>8
<1>3. CASE Yield(f) \/ Finish(f)
  <2>1. Others(f)
    BY <1>3, <1>t DEF Types, Yield, Finish, Others, timerVars
  <2> QED
    BY <1>3, <1>i, <2>1 DEF Yield, Finish, CallOf, TimerOf, timerVars
<1>4. CASE Expire(f) \/ SleepOver(f)
  <2>1. Others(f)
    BY <1>4, <1>t DEF Types, Expire, SleepOver, Others, timerVars
  <2> QED
    BY <1>4, <1>i, <2>1 DEF Expire, SleepOver, CallOf, TimerOf, timerVars
<1>5. CASE TimerCallback(f)
  <2>1. Others(f)
    BY <1>5, <1>t DEF Types, TimerCallback, Others
  <2>2. CallOf(f)'
    BY <1>5, <1>i DEF TimerCallback, CallOf
  <2>3. TimerOf(f)'
    BY <1>5, <1>i, <1>t DEF TimerCallback, TimerOf, Types
  <2> QED
    BY <2>1, <2>2, <2>3
<1> QED
  BY <1>1, <1>2, <1>3, <1>4, <1>5

LEMMA CloseCalls ==
  ASSUME TypeOK, CallInv, TimerInv, NEW f \in Fibers, Close(f)
  PROVE  Others(f) /\ CallOf(f)' /\ TimerOf(f)' /\ (Over(f) \/ Same(f))
<1>t. Types
  BY TypeDef
<1>i. CallOf(f) /\ TimerOf(f)
  BY DEF CallInv, TimerInv
<1>1. CASE MarkClosed(f)
  <2>1. pc' = [pc EXCEPT ![f] = pc'[f]] /\ pc'[f] \in {"closef", "cancelAll"}
    BY <1>1, <1>t DEF Types, MarkClosed, Goto
  <2>2. Others(f) /\ Same(f)
    BY <1>1, <2>1, <1>t DEF Types, MarkClosed, Others, Same, timerVars
  <2> QED
    BY <1>1, <2>1, <2>2, <1>i DEF MarkClosed, At, CallOf, TimerOf, timerVars, PcOps, Waiting
<1>2. CASE CloseCancels(f)
  <2>1. Others(f) /\ Same(f) /\ pc'[f] = "del"
    BY <1>2, <1>t DEF Types, CloseCancels, Goto, Others, Same, timerVars
  <2> QED
    BY <1>2, <2>1, <1>i DEF CloseCancels, At, CallOf, TimerOf, timerVars, PcOps, Waiting
<1>3. CASE DelContext(f)
  <2>1. Others(f) /\ Same(f) /\ pc'[f] = "closef"
    BY <1>3, <1>t DEF Types, DelContext, Goto, Others, Same, timerVars
  <2> QED
    BY <1>3, <2>1, <1>i DEF DelContext, At, CallOf, TimerOf, timerVars, PcOps, Waiting
<1>4. CASE CloseFile(f)
  BY <1>4, <1>t, ReturnOver, OverCall DEF CloseFile
<1> QED
  BY <1>1, <1>2, <1>3, <1>4 DEF Close

LEMMA SettingsCalls ==
  ASSUME TypeOK, CallInv, TimerInv, NEW f \in Fibers, Settings(f)
  PROVE  Others(f) /\ CallOf(f)' /\ TimerOf(f)' /\ (Over(f) \/ Same(f))
<1>t. Types
  BY TypeDef
<1>i. CallOf(f) /\ TimerOf(f)
  BY DEF CallInv, TimerInv
<1>1. CASE SocketContext(f) \/ SetTimeout(f) \/ FcntlKernel(f) \/ IoctlContext(f)
  BY <1>1, <1>t, ReturnOver, OverCall DEF SocketContext, SetTimeout, FcntlKernel, IoctlContext
<1>2. CASE FcntlContext(f)
  <2>1. PICK x : call' = [call EXCEPT ![f].ctx = x]
    BY <1>2 DEF FcntlContext
  <2>2. Same(f) /\ pc'[f] = "fcntl"
    BY <1>2, <2>1, <1>t DEF Types, CallRec, FcntlContext, Goto, Same
  <2>3. Others(f)
    BY <1>2, <2>1, <1>t DEF Types, FcntlContext, Goto, Others, timerVars
  <2> QED
    BY <1>2, <2>2, <2>3, <1>i
       DEF FcntlContext, At, CallOf, TimerOf, timerVars, PcOps, Waiting, Same
<1>3. CASE IoctlKernel(f)
  <2>1. Others(f) /\ Same(f) /\ pc'[f] = "context"
    BY <1>3, <1>t DEF Types, IoctlKernel, Goto, Others, Same, timerVars
  <2> QED
    BY <1>3, <2>1, <1>i DEF IoctlKernel, At, CallOf, TimerOf, timerVars, PcOps, Waiting
<1> QED
  BY <1>1, <1>2, <1>3 DEF Settings

LEMMA DoIoCalls ==
  ASSUME TypeOK, CallInv, TimerInv, NEW f \in Fibers, DoIo(f)
  PROVE  Others(f) /\ CallOf(f)' /\ TimerOf(f)' /\ (Over(f) \/ Same(f))
<1>t. Types
  BY TypeDef
<1>i. CallOf(f) /\ TimerOf(f)
  BY DEF CallInv, TimerInv
<1>r. CASE \E r \in Results : Return(f, r) /\ UNCHANGED on
  BY <1>r, <1>t, ReturnOver, OverCall
<1>1. CASE GetCtx(f)
  <2>1. CASE \E r \in Results : Return(f, r)
    BY <2>1, <1>r, <1>1 DEF GetCtx
  <2>2. CASE ~\E r \in Results : Return(f, r)
    <3>0. PICK c \in Ctxs :
            /\ \E w \in BOOLEAN :
                  call' = [call EXCEPT ![f] = [call[f] EXCEPT !.ctx = c, !.timed = w]]
            /\ \E p \in {"call", "check"} : Goto(f, p)
            /\ UNCHANGED <<timerVars, last, doomed>>
      BY <2>2, <1>1, GetCtxStep
    <3>1. PICK w \in BOOLEAN, p \in {"call", "check"} :
            /\ call' = [call EXCEPT ![f] = [call[f] EXCEPT !.ctx = c, !.timed = w]]
            /\ Goto(f, p) /\ UNCHANGED <<timerVars, last, doomed>>
      BY <3>0
    <3> DEFINE y == [call[f] EXCEPT !.ctx = c, !.timed = w]
    <3>2. y.op = call[f].op /\ y.fd = call[f].fd /\ y.ctx = c
      BY <1>t DEF Types, CallRec
    <3> HIDE DEF y
    <3>3. call' = [call EXCEPT ![f] = y] /\ pc' = [pc EXCEPT ![f] = p]
      BY <3>1 DEF y, Goto
    <3>4. call'[f] = y /\ pc'[f] = p
      BY <3>3, <1>t DEF Types
    <3>5. Others(f)
      BY <3>1, <3>3, <1>1, <1>t DEF Types, GetCtx, Others, timerVars
    <3>6. CallOf(f)'
      BY <3>2, <3>4, <1>1, <1>i DEF GetCtx, At, CallOf, PcOps, Waiting
    <3>7. TimerOf(f)'
      BY <3>1, <3>4, <1>1, <1>i DEF GetCtx, At, TimerOf, timerVars
    <3> QED
      BY <3>2, <3>4, <3>5, <3>6, <3>7 DEF Same
  <2> QED
    BY <2>1, <2>2
<1>g. ASSUME NEW p \in Pcs \ {"idle"}, Goto(f, p), UNCHANGED call, Others(f), pc[f] # "idle",
             PcOps(pc[f]) \subseteq PcOps(p) \/ call[f].op \in PcOps(p),
             p \in Waiting => pc[f] \in Waiting,
             UNCHANGED <<info, fired, expired>>
      PROVE  CallOf(f)' /\ TimerOf(f)' /\ Same(f)
  <2>1. pc'[f] = p
    BY <1>g, <1>t DEF Goto, Types
  <2> QED
    BY <2>1, <1>g, <1>i DEF CallOf, TimerOf, Same
<1>2. CASE CheckClosed(f)
  <2>1. CASE Goto(f, "call") /\ UNCHANGED <<call, timerVars, last, doomed>>
    <3>1. Others(f)
      BY <1>2, <2>1, <1>t DEF Types, CheckClosed, Goto, Others, timerVars
    <3> QED
      BY <1>2, <2>1, <3>1, <1>g DEF CheckClosed, At, Pcs, PcOps, Waiting, timerVars
  <2> QED
    BY <1>2, <2>1, <1>r DEF CheckClosed, Results
<1>3. CASE SystemCall(f)
  <2>1. CASE Goto(f, "arm") /\ UNCHANGED <<call, timerVars, last, doomed, ready>>
    <3>1. Others(f)
      BY <1>3, <2>1, <1>t DEF Types, SystemCall, Goto, Others, timerVars
    <3> QED
      BY <1>3, <2>1, <3>1, <1>g DEF SystemCall, At, Pcs, PcOps, Waiting, timerVars
  <2> QED
    BY <1>3, <2>1, <1>r DEF SystemCall, Results
<1>4. CASE ArmTimer(f)
  <2>1. Others(f)
    BY <1>4, <1>t DEF Types, ArmTimer, Goto, Others
  <2> QED
    BY <1>4, <2>1, <1>g DEF ArmTimer, At, Pcs, PcOps, Waiting
<1>5. CASE AddEvent(f)
  <2>1. CASE Goto(f, "yield") /\ UNCHANGED <<call, timerVars, last, doomed>>
    <3>1. Others(f)
      BY <1>5, <2>1, <1>t DEF Types, AddEvent, Goto, Others, timerVars
    <3> QED
      BY <1>5, <2>1, <3>1, <1>g DEF AddEvent, At, Pcs, PcOps, Waiting, timerVars
  <2> QED
    BY <1>5, <2>1, <1>r DEF AddEvent, Results
<1>6. CASE Hold(f)
  <2>1. Others(f)
    BY <1>6, <1>t DEF Types, Hold, Goto, Others, timerVars
  <2>2. call[f].op \in {"recv", "connect", "sleep"}
    BY <1>6, <1>i DEF Hold, At, CallOf, PcOps
  <2>3. CASE call[f].op = "sleep"
    BY <1>6, <2>1, <2>3, <1>g DEF Hold, At, Pcs, PcOps, Waiting, timerVars
  <2>4. CASE call[f].op # "sleep"
    BY <1>6, <2>1, <2>2, <2>4, <1>g DEF Hold, At, Pcs, PcOps, Waiting, timerVars
  <2> QED
    BY <2>3, <2>4
<1>7. CASE Woken(f)
  <2>1. CASE /\ armed' = armed \ {f} /\ Goto(f, "check")
             /\ UNCHANGED <<call, info, fired, cb, expired, last, doomed>>
             /\ call[f].op # "sleep"
    <3>1. Others(f)
      BY <1>7, <2>1, <1>t DEF Types, Woken, Goto, Others
    <3>2. call[f].op \in PcOps("check")
      BY <1>7, <2>1, <1>i DEF Woken, At, CallOf, PcOps
    <3> QED
      BY <1>7, <2>1, <3>1, <3>2, <1>g DEF Woken, At, Pcs, Waiting
  <2> QED
    BY <1>7, <2>1, <1>r DEF Woken, Results
<1> QED
  BY <1>1, <1>2, <1>3, <1>4, <1>5, <1>6, <1>7 DEF DoIo

\* The actions of the event loop and of the kernel leave the calls alone.
Environment == (\E s \in Slots : TimerCancels(s) \/ FdReady(s)) \/ (\E fd \in Fds : Deliver(fd))

LEMMA EnvironmentCalls ==
  ASSUME Environment
  PROVE  UNCHANGED <<file, files, knb, table, ctx, on, pc, call, info, armed, fired, expired, doomed>>
  BY DEF Environment, TimerCancels, FdReady, Deliver, fdVars, timerVars

\* The steps of one fiber, its timer included.
FiberStep(f) == \/ Resume(f) \/ Begin(f) \/ Yield(f) \/ Finish(f) \/ Step(f)
                \/ Expire(f) \/ TimerCallback(f) \/ SleepOver(f)

LEMMA NextSteps == Next <=> (\E f \in Fibers : FiberStep(f)) \/ Environment
  BY DEF Next, FiberStep, Environment

LEMMA FiberCalls ==
  ASSUME TypeOK, CallInv, TimerInv, NEW f \in Fibers, FiberStep(f)
  PROVE  Others(f) /\ CallOf(f)' /\ TimerOf(f)'
  BY WorkerCalls, CloseCalls, SettingsCalls, DoIoCalls DEF FiberStep, Step

LEMMA CallStep ==
  ASSUME TypeOK, CallInv, TimerInv, Next
  PROVE  CallInv' /\ TimerInv'
<1>1. CASE Environment
  <2>1. \A g \in Fibers : CallOf(g) /\ TimerOf(g)
    BY DEF CallInv, TimerInv
  <2>2. \A g \in Fibers : CallOf(g)' /\ TimerOf(g)'
    BY <2>1, <1>1, EnvironmentCalls DEF CallOf, TimerOf
  <2> QED
    BY <2>2 DEF CallInv, TimerInv
<1>2. ASSUME NEW f \in Fibers, FiberStep(f)
      PROVE  CallInv' /\ TimerInv'
  <2>1. Others(f) /\ CallOf(f)' /\ TimerOf(f)'
    BY <1>2, FiberCalls
  <2>2. \A g \in Fibers \ {f} : CallOf(g)' /\ TimerOf(g)'
    <3>1. \A g \in Fibers : CallOf(g) /\ TimerOf(g)
      BY DEF CallInv, TimerInv
    <3> QED
      BY <2>1, <3>1 DEF Others, CallOf, TimerOf
  <2> QED
    BY <2>1, <2>2 DEF CallInv, TimerInv
<1> QED
  BY <1>1, <1>2, NextSteps

\* Types, calls and timers hold in every state.
CoreInv == TypeOK /\ CallInv /\ TimerInv

LEMMA InitCore == Init => CoreInv
<1> SUFFICES ASSUME Init PROVE CoreInv
  OBVIOUS
<1>1. Types
  <2>1. 0 \in 0..MaxFiles /\ 0 \in 0..MaxCalls
    BY ConstantsAssumption
  <2> QED
    BY <2>1, NoCallType, NoCtxType DEF Init, Types, Pcs, Results
<1>2. \A f \in Fibers : CallOf(f) /\ TimerOf(f)
  BY DEF Init, CallOf, TimerOf, Waiting
<1> QED
  BY <1>1, <1>2, TypeDef DEF CoreInv, CallInv, TimerInv

LEMMA CoreStep == CoreInv /\ [Next]_vars => CoreInv'
<1> SUFFICES ASSUME CoreInv, [Next]_vars PROVE CoreInv'
  OBVIOUS
<1>1. CASE Next
  BY <1>1, TypeStep, CallStep DEF CoreInv
<1>2. CASE UNCHANGED vars
  BY <1>2 DEF CoreInv, TypeOK, CallInv, CallOf, TimerInv, TimerOf,
     vars, kernelVars, fdVars, timerVars
<1> QED
  BY <1>1, <1>2

\* TypeOK holds in every state, with the place of a fiber in its call: between
\* two steps a fiber is where one of the hooked functions can be, and there the
\* record of its call has what the next line of the function uses.
THEOREM TypeCorrect == Spec => [](TypeOK /\ CallInv)
<1>1. CoreInv => TypeOK /\ CallInv
  BY DEF CoreInv
<1> QED
  BY <1>1, InitCore, CoreStep, PTL DEF Spec

\* TimeoutIsReal: timer_info says that the timeout has won only when it has
\* passed during this call, so the -1 and ETIMEDOUT of DoIo() and
\* connect_with_timeout() are never returned early.
THEOREM TimeoutsAreReal == Spec => []TimeoutIsReal
<1>1. CoreInv => TimeoutIsReal
  BY DEF CoreInv, TimerInv, TimerOf, TimeoutIsReal
<1> QED
  BY <1>1, InitCore, CoreStep, PTL DEF Spec

-----------------------------------------------------------------------------
(* Fibers that close() wakes. *)

\* Only markClosed() adds to the fibers that must not reach the system call.
LEMMA DoomedBy ==
  ASSUME TypeOK, CallInv, NEW f \in Fibers, FiberStep(f), ~MarkClosed(f)
  PROVE  doomed' \subseteq doomed
<1>t. Types
  BY TypeDef
<1>1. CASE DoIo(f)
  <2>1. CASE GetCtx(f)
    BY <2>1, GetCtxStep DEF Return
  <2> QED
    BY <1>1, <2>1 DEF DoIo, CheckClosed, SystemCall, ArmTimer, AddEvent, Hold, Woken, Return
<1>2. CASE Settings(f)
  BY <1>2 DEF Settings, SocketContext, SetTimeout, FcntlContext, FcntlKernel, IoctlKernel,
           IoctlContext, Return
<1>3. CASE Close(f)
  BY <1>3 DEF Close, CloseCancels, DelContext, CloseFile, Return
<1> QED
  BY <1>1, <1>2, <1>3
     DEF FiberStep, Step, Resume, Begin, Yield, Finish, Expire, TimerCallback, SleepOver

\* The way of a fiber that waits for an event, up to the check of the context.
LEMMA WaitingStep ==
  ASSUME TypeOK, NEW f \in Fibers, FiberStep(f), pc[f] \in {"held", "woken", "check"},
         pc[f] = "check" => Closed(f), f \in doomed'
  PROVE  pc'[f] \in {"held", "woken", "check"} /\ call'[f] = call[f]
<1>t. Types
  BY TypeDef
<1>r. ~\E r : Return(f, r)
  BY DEF Return
<1>1. CASE Step(f)
  <2>1. CheckClosed(f) \/ Woken(f)
    BY <1>1 DEF Step, DoIo, Close, Settings, GetCtx, SystemCall, ArmTimer, AddEvent, Hold,
       MarkClosed, CloseCancels, DelContext, CloseFile, SocketContext, SetTimeout, FcntlContext,
       FcntlKernel, IoctlKernel, IoctlContext, At
  <2>2. ~CheckClosed(f)
    BY <1>r DEF CheckClosed, At
  <2> QED
    BY <2>1, <2>2, <1>r, <1>t DEF Woken, Goto, Types
<1>2. CASE Resume(f)
  BY <1>2, <1>t DEF Resume, Types
<1> QED
  BY <1>1, <1>2 DEF FiberStep, Begin, Yield, Finish, At, Expire, TimerCallback, SleepOver

LEMMA DoomStep ==
  ASSUME CoreInv, DoomInv, Next
  PROVE  DoomInv'
<1>t. TypeOK /\ Types /\ CallInv /\ TimerInv /\ Kept
  BY TypeDef, TypeStep DEF CoreInv
<1> SUFFICES ASSUME NEW g \in Fibers, g \in doomed'
             PROVE  /\ pc'[g] \in {"held", "woken", "check"} /\ call'[g].op # "sleep"
                    /\ ctx'[call'[g].ctx].closed
  BY DEF DoomInv, DoomOf, Closed
<1>i. DoomOf(g) /\ CallOf(g)
  BY <1>t DEF DoomInv, CallInv
<1>1. CASE Environment
  BY <1>1, <1>i, EnvironmentCalls DEF DoomOf, Closed
<1>2. ASSUME NEW f \in Fibers, FiberStep(f)
      PROVE  /\ pc'[g] \in {"held", "woken", "check"} /\ call'[g].op # "sleep"
             /\ ctx'[call'[g].ctx].closed
  <2>o. Others(f)
    BY <1>2, <1>t, FiberCalls
  <2>1. CASE g \in doomed
    <3>1. call[g].ctx \in Ctxs \cap Used
      BY <2>1, <1>i DEF DoomOf, CallOf, Waiting, Used
    <3>2. ctx'[call[g].ctx].closed
      BY <3>1, <2>1, <1>i, <1>t DEF DoomOf, Closed, Kept, KeepsCtx
    <3>3. pc'[g] \in {"held", "woken", "check"} /\ call'[g] = call[g]
      <4>1. CASE g = f
        BY <4>1, <1>2, <1>i, <1>t, <2>1, WaitingStep DEF DoomOf
      <4>2. CASE g # f
        BY <4>2, <2>o, <2>1, <1>i DEF Others, DoomOf
      <4> QED
        BY <4>1, <4>2
    <3> QED
      BY <3>2, <3>3, <2>1, <1>i DEF DoomOf
  <2>2. CASE g \notin doomed
    <3>1. MarkClosed(f)
      BY <2>2, <1>2, <1>t, DoomedBy
    <3> DEFINE c == table[call[f].fd]
    <3>2. pc[g] = "held" /\ call[g].ctx = c /\ c # None /\ ctx' = [ctx EXCEPT ![c].closed = TRUE]
      BY <3>1, <2>2 DEF MarkClosed
    <3>3. g # f /\ pc'[g] = pc[g] /\ call'[g] = call[g]
      BY <3>1, <3>2, <2>o DEF MarkClosed, At, Others
    <3>4. call[g].op # "sleep" /\ c \in Ctxs
      BY <3>2, <1>i DEF CallOf, PcOps, Waiting
    <3>5. ctx'[c].closed
      BY <3>2, <3>4, <1>t, SetFields DEF Types
    <3> QED
      BY <3>2, <3>3, <3>4, <3>5
  <2> QED
    BY <2>1, <2>2
<1> QED
  BY <1>1, <1>2, NextSteps

\* NoIoAfterClose: close() calls markClosed() before it wakes anyone, so the
\* loop of DoIo() that a woken fiber goes back to finds the context closed and
\* returns EBADF: the number, which may name another file by then, is not used.
THEOREM ClosedCallsEnd == Spec => []NoIoAfterClose
<1>1. Init => DoomInv
  BY DEF Init, DoomInv, DoomOf
<1>2. CoreInv /\ DoomInv /\ [Next]_vars => DoomInv'
  <2>1. CASE UNCHANGED vars
    BY <2>1 DEF DoomInv, DoomOf, Closed, vars, fdVars
  <2> QED
    BY <2>1, DoomStep
<1>3. CoreInv /\ DoomInv => NoIoAfterClose
  BY DEF CoreInv, TypeOK, DoomInv, DoomOf, NoIoAfterClose
<1> QED
  BY <1>1, <1>2, <1>3, InitCore, CoreStep, PTL DEF Spec

-----------------------------------------------------------------------------
(* Where fibers wait. *)

\* A fiber that is scheduled by an event, a timeout or close() leaves the only
\* slot it was in.
LEMMA WakeWait ==
  ASSUME Types, NEW g \in Fibers, WaitOf(g), NEW fd \in Fds, NEW E \in SUBSET Events,
         TakeOut(fd, E) \/ CancelEvent(fd, E),
         pc'[g] = pc[g], call'[g] = call[g], g \in on' <=> g \in on
  PROVE  WaitOf(g)'
<1>1. /\ \A s \in Slots : slot'[s] \in {slot[s], None}
      /\ g \in queue' /\ g \notin queue => \E s \in Slots : slot[s] = g /\ slot'[s] = None
  BY CancelEventStep
<1>2. g # None
  BY ConstantsAssumption
<1>3. \A s \in Slots : slot'[s] = g => slot[s] = g
  BY <1>1, <1>2
<1>4. EventOf(g)' = EventOf(g)
  BY DEF EventOf
<1>5. CASE g \in queue' /\ g \notin queue
  <2>1. PICK s \in Slots : slot[s] = g /\ slot'[s] = None
    BY <1>1, <1>5
  <2>2. \A t \in Slots : slot'[t] # g
    BY <1>2, <1>3, <2>1 DEF WaitOf
  <2> QED
    BY <2>1, <2>2 DEF WaitOf
<1>6. CASE ~(g \in queue' /\ g \notin queue)
  BY <1>3, <1>4, <1>6 DEF WaitOf
<1> QED
  BY <1>5, <1>6

LEMMA SameWait ==
  ASSUME NEW g \in Fibers, WaitOf(g), UNCHANGED slot, g \in queue' => g \in queue,
         pc'[g] = pc[g], call'[g] = call[g], g \in on' <=> g \in on
  PROVE  WaitOf(g)'
<1>1. EventOf(g)' = EventOf(g)
  BY DEF EventOf
<1> QED
  BY <1>1 DEF WaitOf

LEMMA EnvironmentWait ==
  ASSUME CoreInv, WaitInv, Environment, NEW g \in Fibers
  PROVE  WaitOf(g)'
<1>t. Types /\ WaitOf(g)
  BY TypeDef DEF CoreInv, WaitInv
<1>1. pc'[g] = pc[g] /\ call'[g] = call[g] /\ (g \in on' <=> g \in on)
  BY EnvironmentCalls
<1>2. CASE \E s \in Slots : TimerCancels(s)
  <2>1. PICK s \in Slots : TimerCancels(s)
    BY <1>2
  <2>2. s[1] \in Fds /\ {s[2]} \in SUBSET Events /\ CancelEvent(s[1], {s[2]})
    BY <2>1 DEF Slots, TimerCancels
  <2> QED
    BY <2>2, <1>t, <1>1, WakeWait
<1>3. CASE \E s \in Slots : FdReady(s)
  BY <1>3, <1>t, <1>1, SameWait DEF FdReady
<1>4. CASE \E fd \in Fds : Deliver(fd)
  <2>1. PICK fd \in Fds : Deliver(fd)
    BY <1>4
  <2> DEFINE E == {e \in Registered(fd) : <<fd, e>> \in ready}
  <2>2. E \in SUBSET Events /\ TakeOut(fd, E)
    BY <2>1 DEF Deliver, Registered
  <2> QED
    BY <2>2, <1>t, <1>1, WakeWait
<1> QED
  BY <1>2, <1>3, <1>4 DEF Environment

\* The other fibers wait where they were, or are woken.
LEMMA OthersWait ==
  ASSUME CoreInv, WaitInv, NEW f \in Fibers, FiberStep(f), NEW g \in Fibers, g # f
  PROVE  WaitOf(g)'
<1>t. TypeOK /\ Types /\ CallInv /\ TimerInv /\ WaitOf(g)
  BY TypeDef DEF CoreInv, WaitInv
<1>1. pc'[g] = pc[g] /\ call'[g] = call[g] /\ (g \in on' <=> g \in on)
  BY <1>t, FiberCalls DEF Others
<1>2. CASE CloseCancels(f)
  <2>1. call[f].fd \in Fds /\ Events \in SUBSET Events /\ CancelEvent(call[f].fd, Events)
    BY <1>2, <1>t DEF CloseCancels, At, CallInv, CallOf
  <2> QED
    BY <2>1, <1>t, <1>1, WakeWait
<1>3. CASE AddEvent(f)
  <2>1. \A s \in Slots : slot'[s] = g => slot[s] = g
    BY <1>3, <1>t DEF AddEvent, Types
  <2>2. EventOf(g)' = EventOf(g)
    BY <1>1 DEF EventOf
  <2>3. UNCHANGED queue
    BY <1>3 DEF AddEvent
  <2> QED
    BY <2>1, <2>2, <2>3, <1>1, <1>t DEF WaitOf
<1>4. CASE ~CloseCancels(f) /\ ~AddEvent(f)
  <2>1. UNCHANGED slot /\ (g \in queue' => g \in queue)
    BY <1>4 DEF FiberStep, Step, Resume, Begin, Yield, Finish, Expire, TimerCallback, SleepOver,
       DoIo, Close, Settings, GetCtx, CheckClosed, SystemCall, ArmTimer, Hold, Woken,
       MarkClosed, DelContext, CloseFile, SocketContext, SetTimeout, FcntlContext,
       FcntlKernel, IoctlKernel, IoctlContext
  <2> QED
    BY <2>1, <1>1, <1>t, SameWait
<1> QED
  BY <1>2, <1>3, <1>4

\* A fiber that runs, at a point of its call other than yield_to_hold(), is in
\* no slot and not scheduled; it stays so until it gets there.
LEMMA RunningWait ==
  ASSUME NEW f \in Fibers, WaitOf(f), f \in on, pc[f] \notin {"yield", "held", "asleep"},
         UNCHANGED <<slot, queue, on>>, pc'[f] \notin {"held", "asleep"}
  PROVE  WaitOf(f)'
<1>1. f \notin queue /\ \A s \in Slots : slot[s] # f
  BY DEF WaitOf
<1> QED
  BY <1>1 DEF WaitOf

LEMMA OwnWait ==
  ASSUME CoreInv, WaitInv, NEW f \in Fibers, FiberStep(f)
  PROVE  WaitOf(f)'
<1>t. TypeOK /\ Types /\ CallInv /\ TimerInv /\ WaitOf(f) /\ CallOf(f)
  BY TypeDef DEF CoreInv, WaitInv, CallInv
<1>e. ASSUME call'[f] = call[f] PROVE EventOf(f)' = EventOf(f)
  BY <1>e DEF EventOf
<1>1. CASE Resume(f)
  <2>1. pc'[f] \in {"idle", "woken"} /\ f \in on' /\ f \notin queue' /\ UNCHANGED slot
    BY <1>1, <1>t DEF Resume, Types
  <2>2. \A s \in Slots : slot[s] # f
    BY <1>1, <1>t DEF Resume, WaitOf
  <2> QED
    BY <2>1, <2>2 DEF WaitOf
<1>2. CASE Begin(f)
  <2>1. PICK op \in Calls : Goto(f, Entry(op))
    BY <1>2 DEF Begin
  <2>2. pc'[f] \notin {"held", "asleep"}
    BY <2>1, <1>t DEF Goto, Entry, Types
  <2> QED
    BY <2>2, <1>2, <1>t, RunningWait DEF Begin, At
<1>3. CASE Yield(f) \/ Finish(f)
  <2>1. pc[f] = "idle" /\ pc'[f] = "idle" /\ f \notin on' /\ UNCHANGED slot
    BY <1>3, <1>t DEF Yield, Finish, At
  <2>2. \A s \in Slots : slot[s] # f
    BY <2>1, <1>t DEF WaitOf
  <2> QED
    BY <2>1, <2>2 DEF WaitOf
<1>4. CASE Expire(f) \/ TimerCallback(f)
  BY <1>4, <1>t, SameWait DEF Expire, TimerCallback
<1>5. CASE SleepOver(f)
  <2>1. pc[f] = "asleep" /\ pc'[f] = "asleep" /\ UNCHANGED <<slot, on>>
    BY <1>5 DEF SleepOver
  <2>2. \A s \in Slots : slot[s] # f
    BY <2>1, <1>t DEF WaitOf
  <2> QED
    BY <2>1, <2>2, <1>t DEF WaitOf
<1>6. CASE Hold(f)
  <2>1. UNCHANGED <<slot, queue, call>> /\ f \notin on' /\ pc[f] = "yield"
        /\ pc'[f] = IF call[f].op = "sleep" THEN "asleep" ELSE "held"
    BY <1>6, <1>t DEF Hold, At, Goto, Types
  <2> QED
    BY <2>1, <1>t, <1>e DEF WaitOf
<1>7. CASE AddEvent(f)
  <2>1. f \notin queue /\ f \in on /\ UNCHANGED <<queue, on>> /\ \A s \in Slots : slot[s] # f
    BY <1>7, <1>t DEF AddEvent, At, WaitOf
  <2>2. CASE \E r : Return(f, r) /\ UNCHANGED slot
    BY <2>1, <2>2, <1>t, ReturnOver DEF WaitOf, Over
  <2>3. CASE /\ slot' = [slot EXCEPT ![<<call[f].fd, EventOf(f)>>] = f]
             /\ Goto(f, "yield") /\ UNCHANGED call
    <3>1. pc'[f] = "yield" /\ call[f].op # "sleep"
      BY <2>3, <1>7, <1>t DEF Goto, Types, AddEvent, At, CallOf, PcOps
    <3>2. \A s \in Slots : slot'[s] = f => s = <<call[f].fd, EventOf(f)>>
      BY <2>3, <2>1, <1>t DEF Types
    <3> QED
      BY <3>1, <3>2, <2>1, <2>3, <1>e DEF WaitOf
  <2> QED
    BY <1>7, <2>2, <2>3 DEF AddEvent
<1>8. CASE CloseCancels(f)
  <2>1. f \notin queue /\ f \in on /\ (\A s \in Slots : slot[s] # f) /\ pc'[f] = "del"
        /\ UNCHANGED on
    BY <1>8, <1>t DEF CloseCancels, At, WaitOf, Goto, Types
  <2>2. call[f].fd \in Fds /\ Events \in SUBSET Events /\ CancelEvent(call[f].fd, Events)
    BY <1>8, <1>t DEF CloseCancels, At, CallOf
  <2>3. /\ \A s \in Slots : slot'[s] \in {slot[s], None}
        /\ f \in queue' /\ f \notin queue => \E s \in Slots : slot[s] = f /\ slot'[s] = None
    BY <2>2, <1>t, CancelEventStep
  <2>4. f \notin queue' /\ \A s \in Slots : slot'[s] # f
    BY <2>1, <2>3, ConstantsAssumption
  <2> QED
    BY <2>1, <2>4 DEF WaitOf
<1>9. CASE Step(f) /\ ~Hold(f) /\ ~AddEvent(f) /\ ~CloseCancels(f)
  <2>1. UNCHANGED <<slot, queue, on>> /\ f \in on /\ pc[f] \notin {"yield", "held", "asleep"}
    BY <1>9 DEF Step, At,
       DoIo, Close, Settings, GetCtx, CheckClosed, SystemCall, ArmTimer, Woken,
       MarkClosed, DelContext, CloseFile, SocketContext, SetTimeout, FcntlContext,
       FcntlKernel, IoctlKernel, IoctlContext
  <2>2. pc'[f] \notin {"held", "asleep"}
    <3>1. CASE GetCtx(f)
      <4>1. CASE \E r : Return(f, r)
        BY <4>1, <1>t, ReturnOver DEF Over
      <4>2. CASE ~\E r : Return(f, r)
        <5>1. \E p \in {"call", "check"} : Goto(f, p)
          BY <3>1, <4>2, <1>t, GetCtxStep
        <5> QED
          BY <5>1, <1>t DEF Goto, Types
      <4> QED
        BY <4>1, <4>2
    <3>2. CASE \E r : Return(f, r)
      BY <3>2, <1>t, ReturnOver DEF Over
    <3>3. CASE ~GetCtx(f) /\ ~\E r : Return(f, r)
      <4>1. PICK p \in Pcs \ {"held", "asleep"} : Goto(f, p)
        BY <1>9, <3>3 DEF Step, Pcs,
           DoIo, Close, Settings, CheckClosed, SystemCall, ArmTimer, Woken,
           MarkClosed, DelContext, CloseFile, SocketContext, SetTimeout, FcntlContext,
           FcntlKernel, IoctlKernel, IoctlContext
      <4> QED
        BY <4>1, <1>t DEF Goto, Types
    <3> QED
      BY <3>1, <3>2, <3>3
  <2> QED
    BY <2>1, <2>2, <1>t, RunningWait
<1> QED
  BY <1>1, <1>2, <1>3, <1>4, <1>5, <1>6, <1>7, <1>8, <1>9 DEF FiberStep

LEMMA WaitStep ==
  ASSUME CoreInv, WaitInv, Next
  PROVE  WaitInv'
<1>1. CASE Environment
  BY <1>1, EnvironmentWait DEF WaitInv
<1>2. CASE \E f \in Fibers : FiberStep(f)
  BY <1>2, OthersWait, OwnWait DEF WaitInv
<1> QED
  BY <1>1, <1>2, NextSteps

\* At most one element, and none if the condition fails.
LEMMA AtMostOne ==
  ASSUME NEW S, NEW x, S \subseteq {x}
  PROVE  Cardinality(S) = IF S = {} THEN 0 ELSE 1
<1>1. S = {} \/ S = {x}
  OBVIOUS
<1> QED
  BY <1>1, FS_EmptySet, FS_Singleton

LEMMA WaitsOnceFollows == WaitInv => WaitsOnce
<1> SUFFICES ASSUME WaitInv, NEW f \in Fibers
             PROVE  Cardinality({s \in Slots : slot[s] = f})
                      + Cardinality({f} \cap queue)
                      + Cardinality({f} \cap on)
                      <= IF At(f, "yield") THEN 2 ELSE 1
  BY DEF WaitsOnce
<1> DEFINE A == {s \in Slots : slot[s] = f}
           B == {f} \cap queue
           C == {f} \cap on
<1>w. WaitOf(f)
  BY DEF WaitInv
<1>1. Cardinality(A) = IF A = {} THEN 0 ELSE 1
  <2>1. A \subseteq {<<call[f].fd, EventOf(f)>>}
    BY <1>w DEF WaitOf
  <2> QED
    BY <2>1, AtMostOne
<1>2. Cardinality(B) = IF f \in queue THEN 1 ELSE 0
  <2>1. B \subseteq {f} /\ (B = {} <=> f \notin queue)
    OBVIOUS
  <2> QED
    BY <2>1, AtMostOne
<1>3. Cardinality(C) = IF f \in on THEN 1 ELSE 0
  <2>1. C \subseteq {f} /\ (C = {} <=> f \notin on)
    OBVIOUS
  <2> QED
    BY <2>1, AtMostOne
<1>4. A # {} => pc[f] \in {"yield", "held"} /\ f \notin queue
  BY <1>w DEF WaitOf
<1>5. /\ f \in queue /\ f \in on => pc[f] = "yield"
      /\ pc[f] = "held" => f \notin on
  BY <1>w DEF WaitOf
<1> HIDE DEF A, B, C
<1>6. Cardinality(A) + Cardinality(B) + Cardinality(C) <= IF At(f, "yield") THEN 2 ELSE 1
  BY <1>1, <1>2, <1>3, <1>4, <1>5 DEF At
<1> QED
  BY <1>6 DEF A, B, C

\* WaitsOnce: however an event, a timeout and close() fall together, a fiber is
\* registered, scheduled or running in one place, so that nothing resumes it
\* twice; between addEvent() and the end of yield_to_hold() it is still running
\* and, besides, either registered or scheduled.
THEOREM FibersWaitOnce == Spec => []WaitsOnce
<1>1. Init => WaitInv
  <2> SUFFICES ASSUME Init, NEW f \in Fibers PROVE WaitOf(f)
    BY DEF WaitInv
  <2>1. \A s \in Slots : slot[s] # f
    BY ConstantsAssumption DEF Init
  <2> QED
    BY <2>1 DEF Init, WaitOf
<1>2. CoreInv /\ WaitInv /\ [Next]_vars => WaitInv'
  <2>1. CASE UNCHANGED vars
    BY <2>1 DEF WaitInv, WaitOf, EventOf, vars
  <2> QED
    BY <2>1, WaitStep
<1> QED
  BY <1>1, <1>2, WaitsOnceFollows, InitCore, CoreStep, PTL DEF Spec

-----------------------------------------------------------------------------
(* Files, contexts and the kernel's flag. *)

\* Which steps change what.
LEMMA FilesSame ==
  ASSUME NEW f \in Fibers, FiberStep(f), ~Begin(f), ~CloseFile(f)
  PROVE  UNCHANGED <<file, files>>
  BY DEF FiberStep, Step, Resume, Yield, Finish, Expire, TimerCallback, SleepOver,
     DoIo, Close, Settings, GetCtx, CheckClosed, SystemCall, ArmTimer, AddEvent, Hold, Woken,
     MarkClosed, CloseCancels, DelContext, SocketContext, SetTimeout, FcntlContext,
     FcntlKernel, IoctlKernel, IoctlContext, kernelVars

LEMMA FlagsSame ==
  ASSUME NEW f \in Fibers, FiberStep(f), ~Begin(f), ~CloseFile(f), ~GetCtx(f),
         ~SocketContext(f), ~FcntlKernel(f), ~IoctlKernel(f), ~IoctlContext(f)
  PROVE  UNCHANGED knb
  BY DEF FiberStep, Step, Resume, Yield, Finish, Expire, TimerCallback, SleepOver,
     DoIo, Close, Settings, CheckClosed, SystemCall, ArmTimer, AddEvent, Hold, Woken,
     MarkClosed, CloseCancels, DelContext, SetTimeout, FcntlContext, kernelVars

LEMMA TableSame ==
  ASSUME NEW f \in Fibers, FiberStep(f), ~GetCtx(f), ~SocketContext(f), ~DelContext(f)
  PROVE  UNCHANGED table
  BY DEF FiberStep, Step, Resume, Begin, Yield, Finish, Expire, TimerCallback, SleepOver,
     DoIo, Close, Settings, CheckClosed, SystemCall, ArmTimer, AddEvent, Hold, Woken,
     MarkClosed, CloseCancels, CloseFile, SetTimeout, FcntlContext,
     FcntlKernel, IoctlKernel, IoctlContext, fdVars

LEMMA CallsSame ==
  ASSUME CoreInv, NEW f \in Fibers, FiberStep(f), ~Begin(f)
  PROVE  Others(f) /\ (Over(f) \/ Same(f))
<1>1. TypeOK /\ CallInv /\ TimerInv
  BY DEF CoreInv
<1>2. CASE Step(f)
  BY <1>1, <1>2, CloseCalls, SettingsCalls, DoIoCalls DEF Step
<1>3. CASE ~Step(f)
  <2>1. UNCHANGED call
    BY <1>3 DEF FiberStep, Resume, Yield, Finish, Expire, TimerCallback, SleepOver
  <2> QED
    BY <1>1, <2>1, FiberCalls DEF Same
<1> QED
  BY <1>2, <1>3

\* No step but Begin() makes a fiber a user of a number.
LEMMA UsesSame ==
  ASSUME CoreInv, NEW f \in Fibers, FiberStep(f), ~Begin(f), NEW g \in Fibers, NEW fd \in Fds,
         call'[g].fd = fd
  PROVE  call[g].fd = fd /\ call'[g].op = call[g].op
<1>1. fd # NoCall.fd
  BY ConstantsAssumption, NoCallType
<1> QED
  BY <1>1, CallsSame DEF Others, Over, Same

\* The guards of Begin().
LEMMA BeginStep ==
  ASSUME TypeOK, NEW f \in Fibers, Begin(f)
  PROVE  \E op \in Calls, fd \in Fds :
           /\ op = "socket" <=> file[fd] = 0
           /\ \A g \in Fibers : call[g].fd = fd => ~Excluded(op, call[g].op)
           /\ call'[f].op = op /\ call'[f].fd = fd /\ pc'[f] = Entry(op)
           /\ IF op = "socket"
              THEN file' = [file EXCEPT ![fd] = files + 1] /\ files' = files + 1
              ELSE UNCHANGED <<file, files, knb>>
           /\ \A d \in Fds : d # fd => knb'[d] = knb[d]
<1>1. PICK op \in Calls, fd \in Fds, v \in BOOLEAN :
          /\ op = "socket" <=> file[fd] = 0
          /\ \A g \in Fibers : call[g].fd = fd => ~Excluded(op, call[g].op)
          /\ call' = [call EXCEPT ![f] = [NoCall EXCEPT !.op = op, !.fd = fd, !.arg = v]]
          /\ Goto(f, Entry(op))
          /\ IF op = "socket"
             THEN /\ file' = [file EXCEPT ![fd] = files + 1] /\ files' = files + 1
                  /\ knb' = [knb EXCEPT ![fd] = v]
             ELSE UNCHANGED <<file, files, knb>>
  BY DEF Begin
<1> DEFINE x == [NoCall EXCEPT !.op = op, !.fd = fd, !.arg = v]
<1>2. x.op = op /\ x.fd = fd
  BY DEF NoCall
<1>3. call'[f] = x /\ pc'[f] = Entry(op)
  BY <1>1 DEF TypeOK, Goto
<1> HIDE DEF x
<1>4. \A d \in Fds : d # fd => knb'[d] = knb[d]
  BY <1>1 DEF TypeOK
<1>5. call'[f].op = op /\ call'[f].fd = fd
  BY <1>2, <1>3
<1> QED
  BY <1>1, <1>3, <1>4, <1>5

LEMMA FileStep ==
  ASSUME CoreInv, FileInv, NEW f \in Fibers, FiberStep(f)
  PROVE  FileInv' /\ files' >= files
<1>t. TypeOK /\ Types /\ CallInv /\ TimerInv /\ Others(f)
  BY TypeDef, FiberCalls DEF CoreInv
<1>n. files \in Nat /\ \A fd \in Fds : file[fd] \in Nat
  BY <1>t, ConstantsAssumption DEF Types
<1>1. CASE Begin(f)
  <2>1. PICK op \in Calls, fd \in Fds :
           /\ op = "socket" <=> file[fd] = 0
           /\ \A g \in Fibers : call[g].fd = fd => ~Excluded(op, call[g].op)
           /\ call'[f].op = op /\ call'[f].fd = fd
           /\ IF op = "socket"
              THEN file' = [file EXCEPT ![fd] = files + 1] /\ files' = files + 1
              ELSE UNCHANGED <<file, files, knb>>
    BY <1>1, <1>t, BeginStep
  <2>2. \A d \in Fds : file'[d] = IF op = "socket" /\ d = fd THEN files + 1 ELSE file[d]
    BY <2>1, <1>t DEF Types
  <2>3. files' >= files /\ \A d \in Fds : file'[d] <= files'
    BY <2>1, <2>2, <1>n DEF FileInv
  <2>4. \A g \in Fibers : g # f => call'[g] = call[g]
    BY <1>t DEF Others
  <2>5. \A d \in Fds, g \in Fibers : InUse(g, d)' => file'[d] # 0
    BY <2>1, <2>2, <2>4, <1>n DEF FileInv, InUse
  <2>6. ASSUME NEW d \in Fds, NEW g \in Fibers, NEW h \in Fibers,
               g # h, call'[g].fd = d, call'[g].op \in {"socket", "close"}, InUse(h, d)'
        PROVE  FALSE
    <3>1. CASE g # f /\ h # f
      BY <3>1, <2>4, <2>6 DEF FileInv, InUse
    <3>2. CASE g = f
      <4>1. d = fd /\ op \in {"socket", "close"} /\ InUse(h, fd)
        BY <3>2, <2>1, <2>4, <2>6 DEF InUse
      <4>2. op = "close" /\ ~Excluded(op, call[h].op)
        BY <4>1, <2>1 DEF FileInv, InUse
      <4> QED
        BY <4>1, <4>2 DEF Excluded, InUse, Users
    <3>3. CASE h = f
      <4>1. d = fd /\ op \in Users /\ call[g].fd = fd /\ call[g].op \in {"socket", "close"}
        BY <3>3, <2>1, <2>4, <2>6 DEF InUse
      <4>2. ~Excluded(op, call[g].op) /\ file[fd] # 0
        BY <4>1, <2>1 DEF FileInv, InUse, Users
      <4> QED
        BY <4>1, <4>2, <2>1 DEF Excluded, Users
    <3> QED
      BY <3>1, <3>2, <3>3
  <2> QED
    BY <2>3, <2>5, <2>6 DEF FileInv
<1>2. CASE ~Begin(f)
  <2>1. \A g \in Fibers, fd \in Fds : call'[g].fd = fd => call[g].fd = fd /\ call'[g].op = call[g].op
    BY <1>2, UsesSame
  <2>2. \A fd \in Fds, g \in Fibers : InUse(g, fd)' => InUse(g, fd)
    BY <2>1 DEF InUse
  <2>3. \A fd \in Fds, g, h \in Fibers :
          (g # h /\ call'[g].fd = fd /\ call'[g].op \in {"socket", "close"}) => ~InUse(h, fd)'
    BY <2>1, <2>2 DEF FileInv
  <2>4. CASE CloseFile(f)
    <3>0. call[f].fd \in Fds /\ call[f].op = "close"
      BY <2>4, <1>t DEF CloseFile, At, CallInv, CallOf, PcOps
    <3>1. PICK k \in Fds : k = call[f].fd
      BY <3>0
    <3>2. files' = files /\ \A d \in Fds : file'[d] = IF d = k THEN 0 ELSE file[d]
      BY <2>4, <3>1, <1>t DEF CloseFile, Types
    <3>3. \A g \in Fibers : ~InUse(g, k)'
      <4>1. \A g \in Fibers \ {f} : ~InUse(g, k)
        BY <3>0, <3>1 DEF FileInv
      <4>2. Over(f)
        BY <2>4, <1>t, ReturnOver DEF CloseFile
      <4>3. ~InUse(f, k)'
        BY <4>2, NoCallType, ConstantsAssumption DEF InUse, Over
      <4> QED
        BY <4>1, <4>3, <2>2
    <3>4. \A d \in Fds : file'[d] <= files'
      BY <3>2, <1>n DEF FileInv
    <3>5. \A d \in Fds, g \in Fibers : InUse(g, d)' => file'[d] # 0
      BY <3>2, <3>3, <2>2 DEF FileInv
    <3> QED
      BY <3>2, <3>4, <3>5, <2>3, <1>n DEF FileInv
  <2>5. CASE ~CloseFile(f)
    <3>1. UNCHANGED <<file, files>>
      BY <1>2, <2>5, FilesSame
    <3> QED
      BY <3>1, <2>2, <2>3, <1>n DEF FileInv
  <2> QED
    BY <2>4, <2>5
<1> QED
  BY <1>1, <1>2

LEMMA CtxStep ==
  ASSUME CoreInv, FileInv, CtxInv, Kept, files' >= files, files' \in Nat
  PROVE  CtxInv'
<1>t. Types
  BY TypeDef DEF CoreInv
<1>n. files \in Nat /\ (\A fd \in Fds : file[fd] \in Nat) /\ \A c \in Ctxs : ctx[c].file \in Nat
  BY <1>t, ConstantsAssumption DEF Types, CtxRec
<1> SUFFICES ASSUME NEW d \in Ctxs
             PROVE  /\ ctx'[d].snb = ctx'[d].socket /\ ctx'[d].snb = (ctx'[d].file # 0)
                    /\ ctx'[d].file <= files'
  BY DEF CtxInv, CtxOf
<1>1. CASE KeepsCtx(ctx'[d], ctx[d])
  BY <1>1, <1>n DEF KeepsCtx, CtxInv, CtxOf
<1>2. ASSUME NEW fd \in Fds, Made(fd, d)
      PROVE  /\ ctx'[d].snb = ctx'[d].socket /\ ctx'[d].snb = (ctx'[d].file # 0)
             /\ ctx'[d].file <= files'
  <2>1. ctx'[d].file = file[fd] /\ ctx'[d].snb = (file[fd] # 0) /\ ctx'[d].socket = (file[fd] # 0)
    BY <1>2 DEF Made
  <2>2. file[fd] <= files'
    <3>1. file[fd] <= files
      BY DEF FileInv
    <3> QED
      BY <3>1, <1>n
  <2> QED
    BY <2>1, <2>2
<1> QED
  BY <1>1, <1>2 DEF Kept

\* What happens to the entry of a number in FdManager.
LEMMA EntryStep ==
  ASSUME CoreInv, NEW f \in Fibers, FiberStep(f), NEW fd \in Fds
  PROVE  /\ \/ table'[fd] = table[fd]
            \/ Made(fd, table'[fd])
            \/ DelContext(f) /\ call[f].fd = fd
         /\ call[f].fd # fd => table'[fd] = table[fd]
<1>t. TypeOK /\ Types /\ CallInv /\ TimerInv
  BY TypeDef DEF CoreInv
<1>1. ASSUME NEW d \in Fds, NEW c \in Ctxs, NEW u \in BOOLEAN \cup {None}, GetContext(d, c, u)
      PROVE  /\ table'[fd] = table[fd] \/ Made(fd, table'[fd])
             /\ d # fd => table'[fd] = table[fd]
  BY <1>1, <1>t, GetContextStep
<1>2. CASE GetCtx(f)
  BY <1>2, <1>1, <1>t DEF GetCtx, At, CallInv, CallOf
<1>3. CASE SocketContext(f)
  <2>1. call[f].fd \in Fds /\ call[f].arg \in BOOLEAN
    BY <1>3, <1>t DEF SocketContext, At, CallInv, CallOf, Types, CallRec
  <2> QED
    BY <1>3, <1>1, <2>1 DEF SocketContext
<1>4. CASE DelContext(f)
  BY <1>4, <1>t DEF DelContext, Types
<1>5. CASE ~GetCtx(f) /\ ~SocketContext(f) /\ ~DelContext(f)
  BY <1>5, TableSame
<1> QED
  BY <1>2, <1>3, <1>4, <1>5

\* socket() and close() return where the entry is made and where the file is closed.
LEMMA OpenerStays ==
  ASSUME CoreInv, NEW f \in Fibers, FiberStep(f), ~Begin(f), ~CloseFile(f), ~SocketContext(f),
         call[f].fd \in Fds, call[f].op \in {"socket", "close"}
  PROVE  Same(f)
<1>1. CallOf(f) /\ call[f] # NoCall
  BY NoCallType, ConstantsAssumption DEF CoreInv, CallInv
<1>2. pc[f] \in {"context", "mark", "cancelAll", "del", "closef"}
  BY <1>1 DEF CallOf, PcOps
<1>3. UNCHANGED call
  BY <1>1, <1>2 DEF FiberStep, Step, Resume, Yield, Finish, Expire, TimerCallback, SleepOver,
     DoIo, Close, Settings, GetCtx, CheckClosed, SystemCall, ArmTimer, AddEvent, Hold, Woken,
     MarkClosed, CloseCancels, DelContext, SetTimeout, FcntlContext,
     FcntlKernel, IoctlKernel, IoctlContext, At
<1> QED
  BY <1>3 DEF Same

LEMMA TableStep ==
  ASSUME CoreInv, TableInv, NEW f \in Fibers, FiberStep(f)
  PROVE  TableInv'
<1>t. TypeOK /\ Types /\ CallInv /\ TimerInv /\ Others(f)
  BY TypeDef, FiberCalls DEF CoreInv
<1> SUFFICES ASSUME NEW fd \in Fds, file'[fd] # 0,
                    \A g \in Fibers : call'[g].fd = fd => call'[g].op \notin {"socket", "close"}
             PROVE  table'[fd] # None
  BY DEF TableInv
<1>e. ASSUME file[fd] # 0,
             \A g \in Fibers : call[g].fd = fd => call[g].op \notin {"socket", "close"}
      PROVE  table'[fd] # None
  <2>1. table[fd] # None
    BY <1>e DEF TableInv
  <2>2. ~(DelContext(f) /\ call[f].fd = fd)
    BY <1>e, <1>t DEF DelContext, At, CallInv, CallOf, PcOps
  <2> QED
    BY <2>1, <2>2, EntryStep DEF Made
<1>1. CASE Begin(f)
  <2>1. PICK op \in Calls, d \in Fds :
           /\ call'[f].op = op /\ call'[f].fd = d
           /\ IF op = "socket"
              THEN file' = [file EXCEPT ![d] = files + 1] /\ files' = files + 1
              ELSE UNCHANGED <<file, files, knb>>
    BY <1>1, <1>t, BeginStep
  <2>2. file[fd] # 0
    BY <2>1, <1>t DEF Types
  <2>3. call[f].fd # fd
    BY <1>1, <1>t, NoCallType, ConstantsAssumption DEF Begin, At, CallInv, CallOf
  <2> QED
    BY <2>2, <2>3, <1>e, <1>t DEF Others
<1>2. CASE CloseFile(f)
  <2>1. call[f].fd # fd /\ file[fd] # 0
    BY <1>2, <1>t DEF CloseFile, Types
  <2> QED
    BY <2>1, <1>e, <1>t DEF Others
<1>3. CASE SocketContext(f)
  <2>1. PICK c \in Ctxs : GetContext(call[f].fd, c, call[f].arg)
    BY <1>3 DEF SocketContext
  <2>2. call[f].fd \in Fds /\ call[f].arg \in BOOLEAN
    BY <1>3, <1>t DEF SocketContext, At, CallInv, CallOf, Types, CallRec
  <2>3. CASE call[f].fd = fd
    BY <2>1, <2>2, <2>3, <1>t, GetContextStep, ConstantsAssumption
  <2>4. CASE call[f].fd # fd
    <3>1. file[fd] # 0
      BY <1>3 DEF SocketContext
    <3> QED
      BY <2>4, <3>1, <1>e, <1>t DEF Others
  <2> QED
    BY <2>3, <2>4
<1>4. CASE ~Begin(f) /\ ~CloseFile(f) /\ ~SocketContext(f)
  <2>1. file[fd] # 0
    BY <1>4, FilesSame
  <2>2. call[f].fd = fd => call[f].op \notin {"socket", "close"}
    BY <1>4, OpenerStays DEF Same
  <2> QED
    BY <2>1, <2>2, <1>e, <1>t DEF Others
<1> QED
  BY <1>1, <1>2, <1>3, <1>4

\* A context that is made for a number is made by get(fd, true), which opens and
\* closes nothing.
LEMMA MadeStep ==
  ASSUME CoreInv, NEW f \in Fibers, FiberStep(f), NEW fd \in Fds, NEW c \in Ctxs, Made(fd, c)
  PROVE  UNCHANGED <<file, files>> /\ call[f].fd = fd
<1>1. table'[fd] # table[fd]
  BY ConstantsAssumption DEF Made
<1>2. ~Begin(f) /\ ~CloseFile(f)
  BY <1>1 DEF Begin, CloseFile, fdVars
<1> QED
  BY <1>1, <1>2, FilesSame, EntryStep

\* A number whose file has a context had that file before the step, and the
\* context is of the same file as before, or new.
LEMMA FileBefore ==
  ASSUME CoreInv, FileInv, CtxInv, EntryInv, Kept, NEW f \in Fibers, FiberStep(f), NEW fd \in Fds,
         HasContext(fd)'
  PROVE  /\ file'[fd] = file[fd] /\ file[fd] # 0
         /\ HasContext(fd) \/ \E c \in Ctxs : Made(fd, c)
<1>t. TypeOK /\ Types
  BY TypeDef DEF CoreInv
<1>1. PICK c \in Ctxs : ctx'[c].file = file'[fd] /\ file'[fd] # 0
  BY DEF HasContext
<1>2. CASE KeepsCtx(ctx'[c], ctx[c])
  <2>1. ctx[c].file = file'[fd] /\ ctx[c].file <= files
    BY <1>1, <1>2 DEF KeepsCtx, CtxInv, CtxOf
  <2>2. file'[fd] = file[fd]
    <3>1. CASE Begin(f)
      <4>1. PICK op \in Calls, k \in Fds :
               IF op = "socket" THEN file' = [file EXCEPT ![k] = files + 1]
                                ELSE UNCHANGED file
        BY <3>1, <1>t, BeginStep
      <4>2. file'[fd] \in {file[fd], files + 1}
        BY <4>1, <1>t DEF Types
      <4>3. files \in Nat
        BY <1>t, ConstantsAssumption DEF Types
      <4> QED
        BY <4>2, <4>3, <2>1
    <3>2. CASE CloseFile(f)
      <4>1. file'[fd] \in {file[fd], 0}
        BY <3>2, <1>t DEF CloseFile, Types
      <4> QED
        BY <4>1, <1>1
    <3>3. CASE ~Begin(f) /\ ~CloseFile(f)
      BY <3>3, FilesSame
    <3> QED
      BY <3>1, <3>2, <3>3
  <2> QED
    BY <1>1, <2>1, <2>2 DEF HasContext
<1>3. ASSUME NEW k \in Fds, Made(k, c)
      PROVE  file'[fd] = file[fd] /\ Made(fd, c)
  <2>1. UNCHANGED file /\ ctx'[c].file = file[k]
    BY <1>3, MadeStep DEF Made
  <2>2. k = fd
    BY <2>1, <1>1 DEF EntryInv
  <2> QED
    BY <2>1, <2>2, <1>3
<1> QED
  BY <1>1, <1>2, <1>3 DEF Kept

\* While fcntl() or ioctl() runs its number has an entry, of its own file if a
\* context was made for that file, and not closed.
LEMMA SettingEntry ==
  ASSUME CoreInv, FileInv, CtxInv, TableInv, EntryInv, NEW g \in Fibers, NEW fd \in Fds,
         call[g].fd = fd, call[g].op \in {"setfl", "fionbio"}
  PROVE  /\ table[fd] \in Ctxs
         /\ \A h \in Fibers : call[h].fd = fd => call[h].op \notin {"socket", "close"}
         /\ ~ctx[table[fd]].closed
         /\ HasContext(fd) => ctx[table[fd]].snb /\ ctx[table[fd]].socket
<1>t. Types /\ CallInv
  BY TypeDef DEF CoreInv
<1>1. InUse(g, fd)
  BY DEF InUse, Users
<1>2. file[fd] # 0 /\ \A h \in Fibers : call[h].fd = fd => call[h].op \notin {"socket", "close"}
  BY <1>1 DEF FileInv
<1>3. table[fd] \in Ctxs /\ table[fd] # None
  BY <1>2, <1>t DEF TableInv, Types
<1>4. ~ctx[table[fd]].closed
  <2>1. \A h \in Fibers : pc[h] \in {"cancelAll", "del"} => call[h].op = "close"
    BY <1>t DEF CallInv, CallOf, PcOps
  <2> QED
    BY <2>1, <1>2, <1>3 DEF EntryInv
<1>5. HasContext(fd) => ctx[table[fd]].file # 0
  BY <1>2, <1>3 DEF EntryInv
<1> QED
  BY <1>2, <1>3, <1>4, <1>5 DEF CtxInv, CtxOf

\* Only markClosed() and del() close a context that is in use.
LEMMA ClosedSame ==
  ASSUME CoreInv, Kept, NEW f \in Fibers, FiberStep(f), ~MarkClosed(f), ~DelContext(f),
         NEW c \in Ctxs, ctx'[c].closed
  PROVE  ctx[c].closed
<1>t. TypeOK /\ Types /\ CallInv
  BY TypeDef DEF CoreInv
<1>1. ASSUME NEW d \in Ctxs, NEW v \in BOOLEAN,
             \/ ctx' = [ctx EXCEPT ![d].unb = v]
             \/ ctx' = [ctx EXCEPT ![d].timed = v]
      PROVE  ctx[c].closed
  <2>1. ctx[d] \in CtxRec
    BY <1>t DEF Types
  <2>2. /\ [ctx[d] EXCEPT !.unb = v].closed = ctx[d].closed
        /\ [ctx[d] EXCEPT !.timed = v].closed = ctx[d].closed
    BY <2>1 DEF CtxRec
  <2>3. ctx'[c] \in {ctx[c], [ctx[c] EXCEPT !.unb = v], [ctx[c] EXCEPT !.timed = v]}
        /\ (c # d => ctx'[c] = ctx[c])
    BY <1>1, <1>t DEF Types
  <2> QED
    BY <2>2, <2>3
<1>2. ASSUME NEW fd \in Fds, NEW d \in Ctxs, NEW unb \in BOOLEAN \cup {None},
             GetContext(fd, d, unb)
      PROVE  ctx[c].closed
  <2>1. CASE table[fd] # None
    <3> DEFINE v == IF unb = None THEN ctx[d].unb ELSE unb
    <3>1. v \in BOOLEAN
      BY <1>t DEF Types, CtxRec
    <3>2. ctx' = [ctx EXCEPT ![d].unb = v]
      BY <2>1, <1>2, <1>t DEF GetContext, Types
    <3> HIDE DEF v
    <3> QED
      BY <3>1, <3>2, <1>1
  <2>2. CASE table[fd] = None
    <3>1. Made(fd, d)
      BY <2>2, <1>2, <1>t, GetContextStep
    <3>2. c # d
      BY <3>1 DEF Made
    <3>3. \A y : ctx' = [ctx EXCEPT ![d] = y] => ctx'[c] = ctx[c]
      BY <3>2, <1>t DEF Types
    <3> QED
      BY <3>3, <2>2, <1>2, <1>t, ConstantsAssumption DEF GetContext
  <2> QED
    BY <2>1, <2>2
<1>3. CASE GetCtx(f)
  BY <1>3, <1>2, <1>t DEF GetCtx, At, CallInv, CallOf
<1>4. CASE SocketContext(f)
  <2>1. call[f].fd \in Fds /\ call[f].arg \in BOOLEAN
    BY <1>4, <1>t DEF SocketContext, At, CallInv, CallOf, Types, CallRec
  <2> QED
    BY <1>4, <1>2, <2>1 DEF SocketContext
<1>5. CASE SetTimeout(f) \/ FcntlContext(f) \/ IoctlContext(f)
  <2>1. /\ call[f].fd \in Fds /\ call[f].arg \in BOOLEAN
        /\ table[call[f].fd] # None => table[call[f].fd] \in Ctxs
    BY <1>5, <1>t DEF SetTimeout, FcntlContext, IoctlContext, At, CallInv, CallOf, Types, CallRec
  <2>2. \/ UNCHANGED ctx
        \/ /\ table[call[f].fd] # None
           /\ \/ ctx' = [ctx EXCEPT ![table[call[f].fd]].unb = call[f].arg]
              \/ ctx' = [ctx EXCEPT ![table[call[f].fd]].timed = call[f].arg]
    BY <1>5 DEF SetTimeout, FcntlContext, IoctlContext, TimeoutSet
  <2> QED
    BY <2>1, <2>2, <1>1
<1>6. CASE /\ ~GetCtx(f) /\ ~SocketContext(f) /\ ~SetTimeout(f) /\ ~FcntlContext(f)
           /\ ~IoctlContext(f)
  <2>1. UNCHANGED ctx
    BY <1>6 DEF FiberStep, Step, Resume, Begin, Yield, Finish, Expire, TimerCallback, SleepOver,
       DoIo, Close, Settings, CheckClosed, SystemCall, ArmTimer, AddEvent, Hold, Woken,
       CloseCancels, CloseFile, FcntlKernel, IoctlKernel, fdVars
  <2> QED
    BY <2>1
<1> QED
  BY <1>3, <1>4, <1>5, <1>6

\* close() goes on to del() once it has marked the context.
LEMMA CloserStays ==
  ASSUME CoreInv, NEW f \in Fibers, FiberStep(f), ~DelContext(f), NEW g \in Fibers,
         pc[g] \in {"cancelAll", "del"}
  PROVE  pc'[g] \in {"cancelAll", "del"} /\ call'[g].fd = call[g].fd
<1>t. TypeOK /\ Types /\ CallInv /\ TimerInv /\ Others(f)
  BY TypeDef, FiberCalls DEF CoreInv
<1>1. CASE g # f
  BY <1>1, <1>t DEF Others
<1>2. CASE CloseCancels(f)
  BY <1>1, <1>2, <1>t DEF CloseCancels, Goto, Types
<1>3. CASE g = f /\ ~CloseCancels(f)
  <2>1. ~Step(f)
    BY <1>3 DEF Step, At,
       DoIo, Close, Settings, GetCtx, CheckClosed, SystemCall, ArmTimer, AddEvent, Hold,
       Woken, MarkClosed, CloseCancels, DelContext, CloseFile, SocketContext, SetTimeout,
       FcntlContext, FcntlKernel, IoctlKernel, IoctlContext
  <2> QED
    BY <2>1, <1>3 DEF FiberStep, Resume, Begin, Yield, Finish, At, Expire,
       TimerCallback, SleepOver
<1> QED
  BY <1>1, <1>2, <1>3

LEMMA EntryInvStep ==
  ASSUME CoreInv, FileInv, CtxInv, EntryInv, Kept, TypeOK', NEW f \in Fibers, FiberStep(f)
  PROVE  EntryInv'
<1>t. TypeOK /\ Types /\ Types' /\ CallInv /\ TimerInv /\ Others(f)
  BY TypeDef, TypeDefNext, FiberCalls DEF CoreInv
<1>n. files \in Nat /\ \A fd \in Fds : file[fd] \in Nat
  BY <1>t, ConstantsAssumption DEF Types
<1>u. ASSUME NEW fd \in Fds, table[fd] # None
      PROVE  table[fd] \in Ctxs /\ table[fd] \in Used /\ KeepsCtx(ctx'[table[fd]], ctx[table[fd]])
  BY <1>u, <1>t DEF Types, Used, Kept
<1>1. ASSUME NEW d \in Fds, NEW e \in Fds, d # e, file'[d] # 0, file'[d] = file'[e]
      PROVE  FALSE
  <2>1. CASE Begin(f)
    <3>1. PICK op \in Calls, fd \in Fds :
             /\ op = "socket" <=> file[fd] = 0
             /\ IF op = "socket"
                THEN file' = [file EXCEPT ![fd] = files + 1] /\ files' = files + 1
                ELSE UNCHANGED <<file, files, knb>>
      BY <2>1, <1>t, BeginStep
    <3>2. \A k \in Fds : file'[k] = IF op = "socket" /\ k = fd THEN files + 1 ELSE file[k]
      BY <3>1, <1>t DEF Types
    <3>3. \A k \in Fds : file[k] # files + 1
      BY <1>n DEF FileInv
    <3> QED
      BY <3>2, <3>3, <1>1 DEF EntryInv
  <2>2. CASE CloseFile(f)
    <3>1. \A k \in Fds : file'[k] = file[k] \/ file'[k] = 0
      BY <2>2, <1>t DEF CloseFile, Types
    <3> QED
      BY <3>1, <1>1 DEF EntryInv
  <2>3. CASE ~Begin(f) /\ ~CloseFile(f)
    BY <2>3, <1>1, FilesSame DEF EntryInv
  <2> QED
    BY <2>1, <2>2, <2>3
<1>2. ASSUME NEW d \in Fds, NEW e \in Fds, d # e, table'[d] # None, table'[d] = table'[e]
      PROVE  FALSE
  <2>1. \A a, b \in Fds : a # b /\ table[b] = table'[b] /\ Made(a, table'[a])
                            => table'[a] # table'[b]
    BY DEF Made, Used
  <2>2. \A a, b \in Fds : a # b /\ table[b] = table'[b] /\ table[a] = table'[a]
                            => table'[a] # table'[b] \/ table'[a] = None
    BY DEF EntryInv
  <2>3. DelContext(f) /\ call[f].fd \in Fds => table'[call[f].fd] = None
    BY <1>t DEF DelContext, Types
  <2>4. ~(call[f].fd = d /\ call[f].fd = e)
    BY <1>2
  <2> QED
    BY <2>1, <2>2, <2>3, <2>4, <1>2, EntryStep
<1>3. ASSUME NEW fd \in Fds, HasContext(fd)', table'[fd] # None
      PROVE  ctx'[table'[fd]].file = file'[fd]
  <2>1. file'[fd] = file[fd] /\ (HasContext(fd) \/ \E c \in Ctxs : Made(fd, c))
    BY <1>3, FileBefore
  <2>2. CASE Made(fd, table'[fd])
    BY <2>1, <2>2 DEF Made
  <2>3. CASE table'[fd] = table[fd]
    <3>1. HasContext(fd) /\ table[fd] # None
      BY <2>1, <2>3, <1>3 DEF Made
    <3>2. ctx[table[fd]].file = file[fd]
      BY <3>1 DEF EntryInv
    <3> QED
      BY <3>1, <3>2, <2>1, <2>3, <1>u DEF KeepsCtx
  <2>4. CASE DelContext(f) /\ call[f].fd = fd
    BY <2>4, <1>3, <1>t DEF DelContext, Types
  <2> QED
    BY <2>2, <2>3, <2>4, EntryStep
<1>4. ASSUME NEW fd \in Fds, table'[fd] # None, ctx'[table'[fd]].closed
      PROVE  \E g \in Fibers : pc'[g] \in {"cancelAll", "del"} /\ call'[g].fd = fd
  <2>1. table'[fd] = table[fd] /\ table[fd] # None /\ table[fd] \in Ctxs
    <3>1. ~Made(fd, table'[fd])
      BY <1>4 DEF Made
    <3>2. ~(DelContext(f) /\ call[f].fd = fd)
      BY <1>4, <1>t DEF DelContext, Types
    <3> QED
      BY <3>1, <3>2, <1>4, <1>u, EntryStep
  <2>2. CASE MarkClosed(f) /\ call[f].fd = fd
    <3>1. pc'[f] = "cancelAll" /\ call' = call
      BY <2>1, <2>2, <1>t DEF MarkClosed, Goto, Types
    <3> QED
      BY <2>2, <3>1
  <2>3. CASE ctx[table[fd]].closed
    <3>1. PICK g \in Fibers : pc[g] \in {"cancelAll", "del"} /\ call[g].fd = fd
      BY <2>1, <2>3 DEF EntryInv
    <3>2. CASE ~DelContext(f)
      BY <3>1, <3>2, CloserStays
    <3>3. CASE DelContext(f)
      <4>1. g # f
        BY <3>1, <3>3, <1>4, <1>t DEF DelContext, Types
      <4> QED
        BY <3>1, <4>1, <1>t DEF Others
    <3> QED
      BY <3>2, <3>3
  <2>4. CASE ~ctx[table[fd]].closed /\ ~(MarkClosed(f) /\ call[f].fd = fd)
    <3>1. MarkClosed(f) \/ DelContext(f)
      BY <2>1, <2>4, <1>4, ClosedSame
    <3>2. PICK k \in Fds : k = call[f].fd
      BY <3>1, <1>t DEF MarkClosed, DelContext, At, CallInv, CallOf
    <3>3. k # fd
      BY <3>1, <3>2, <2>4, <1>4, <1>t DEF DelContext, Types
    <3>4. table[k] # table[fd]
      BY <3>3, <2>1 DEF EntryInv
    <3>5. \A y : ctx' = [ctx EXCEPT ![table[k]] = y] => ctx'[table[fd]] = ctx[table[fd]]
      BY <3>4, <2>1, <1>t DEF Types
    <3>6. UNCHANGED ctx \/ ctx' = [ctx EXCEPT ![table[k]].closed = TRUE]
      BY <3>1, <3>2 DEF MarkClosed, DelContext
    <3> QED
      BY <3>5, <3>6, <2>1, <2>4, <1>4
  <2> QED
    BY <2>2, <2>3, <2>4
<1> QED
  BY <1>1, <1>2, <1>3, <1>4 DEF EntryInv

\* fcntl() found a context that wants the kernel's flag: while it runs the number
\* is neither closed nor opened.
LEMMA FcntlStep ==
  ASSUME CoreInv, FileInv, CtxInv, TableInv, EntryInv, FlagInv, Kept, CallInv',
         NEW f \in Fibers, FiberStep(f), NEW fd \in Fds, NEW g \in Fibers,
         pc'[g] = "fcntl", call'[g].fd = fd, HasContext(fd)'
  PROVE  call'[g].ctx \in Ctxs /\ ctx'[call'[g].ctx].snb
<1>t. TypeOK /\ Types /\ CallInv /\ TimerInv /\ Others(f)
  BY TypeDef, FiberCalls DEF CoreInv
<1>0. ~Begin(f) \/ g # f
  <2>1. ASSUME Begin(f), g = f PROVE FALSE
    <3>1. PICK op \in Calls : pc'[f] = Entry(op)
      BY <2>1, <1>t, BeginStep
    <3> QED
      BY <3>1, <2>1 DEF Entry
  <2> QED
    BY <2>1
<1>1. call[g].fd = fd /\ call[g].op = "setfl"
  <2>1. call'[g].op = "setfl"
    BY DEF CallInv, CallOf, PcOps
  <2>2. CASE g # f
    BY <2>1, <2>2, <1>t DEF Others
  <2>3. CASE g = f
    BY <2>1, <2>3, <1>0, UsesSame
  <2> QED
    BY <2>2, <2>3
<1>2. /\ table[fd] \in Ctxs /\ ~ctx[table[fd]].closed
      /\ HasContext(fd) => ctx[table[fd]].snb /\ ctx[table[fd]].socket
  BY <1>1, SettingEntry
<1>3. HasContext(fd)
  BY <1>2, FileBefore, ConstantsAssumption DEF Made
<1>4. \A c \in Ctxs : c \in Used /\ ctx[c].snb => ctx'[c].snb
  BY DEF Kept, KeepsCtx
<1>5. CASE g = f /\ FcntlContext(f)
  <2>1. call' = [call EXCEPT ![f].ctx = table[fd]]
    BY <1>1, <1>2, <1>3, <1>5, ConstantsAssumption DEF FcntlContext
  <2>2. call'[g].ctx = table[fd] /\ table[fd] \in Used
    BY <1>5, <2>1, <1>t DEF Types, CallRec, Used
  <2> QED
    BY <2>2, <1>2, <1>3, <1>4
<1>6. CASE ~(g = f /\ FcntlContext(f))
  <2>1. pc[g] = "fcntl" /\ call'[g] = call[g]
    <3>1. CASE g # f
      BY <3>1, <1>t DEF Others
    <3>2. CASE g = f
      <4>1. ~Over(f)
        BY <3>2 DEF Over
      <4>2. ~\E r : Return(f, r)
        BY <4>1, <1>t, ReturnOver
      <4>4. ~GetCtx(f)
        <5>1. ASSUME GetCtx(f) PROVE FALSE
          <6>1. \E p \in {"call", "check"} : Goto(f, p)
            BY <5>1, <4>2, <1>t, GetCtxStep
          <6> QED
            BY <6>1, <3>2, <1>t DEF Goto, Types
        <5> QED
          BY <5>1
      <4>5. ~Step(f)
        <5>1. \A p \in Pcs : Goto(f, p) => p = "fcntl"
          BY <3>2, <1>t DEF Goto, Types
        <5> QED
          BY <5>1, <4>2, <4>4, <1>6, <3>2 DEF Step, Pcs,
             DoIo, Close, Settings, CheckClosed, SystemCall, ArmTimer, AddEvent, Hold, Woken,
             MarkClosed, CloseCancels, DelContext, CloseFile, SocketContext, SetTimeout,
             FcntlKernel, IoctlKernel, IoctlContext
      <4>6. ~Resume(f)
        BY <3>2, <1>t DEF Resume, Types
      <4> QED
        BY <1>0, <4>5, <4>6, <3>2 DEF FiberStep, Yield, Finish, Expire, TimerCallback, SleepOver
    <3> QED
      BY <3>1, <3>2
  <2>2. call[g].ctx \in Ctxs /\ ctx[call[g].ctx].snb
    BY <2>1, <1>1, <1>3 DEF FlagInv
  <2> QED
    BY <2>1, <2>2, <1>4 DEF Used
<1> QED
  BY <1>5, <1>6

\* The kernel's flag is set behind every context, or ioctl() is about to set it
\* again.
LEMMA KnbStep ==
  ASSUME CoreInv, FileInv, CtxInv, TableInv, EntryInv, FlagInv, Kept,
         NEW f \in Fibers, FiberStep(f), NEW fd \in Fds, HasContext(fd)'
  PROVE  knb'[fd] \/ \E g \in Fibers : Between(g, fd)'
<1>t. TypeOK /\ Types /\ CallInv /\ TimerInv /\ Others(f)
  BY TypeDef, FiberCalls DEF CoreInv
<1>0. file'[fd] = file[fd] /\ file[fd] # 0 /\ (HasContext(fd) \/ \E c \in Ctxs : Made(fd, c))
  BY FileBefore
<1>1. CASE \E c \in Ctxs : Made(fd, c)
  BY <1>0, <1>1 DEF Made
<1>2. CASE HasContext(fd)
  <2>2. CASE IoctlContext(f) /\ call[f].fd = fd
    <3>1. call[f].op = "fionbio"
      BY <2>2 DEF IoctlContext
    <3>2. table[fd] \in Ctxs /\ ctx[table[fd]].snb /\ ctx[table[fd]].socket
      BY <1>2, <2>2, <3>1, SettingEntry
    <3>3. Restored(fd)
      BY <1>0, <3>2, ConstantsAssumption DEF Restored
    <3> QED
      BY <2>2, <3>3, <1>t DEF IoctlContext, Types
  <2>3. CASE IoctlKernel(f) /\ call[f].fd = fd
    <3>1. pc'[f] = "context" /\ call' = call /\ call[f].op = "fionbio"
      BY <2>3, <1>t DEF IoctlKernel, Goto, Types, At, CallInv, CallOf, PcOps
    <3>2. Between(f, fd)'
      BY <2>3, <3>1 DEF Between
    <3> QED
      BY <3>2
  <2>4. CASE FcntlKernel(f) /\ call[f].fd = fd
    <3>1. call[f].ctx # None /\ ctx[call[f].ctx].snb
      BY <1>2, <2>4, ConstantsAssumption DEF FlagInv, FcntlKernel, At
    <3> QED
      BY <1>0, <2>4, <3>1, <1>t DEF FcntlKernel, Types
  <2>5. CASE /\ ~(IoctlContext(f) /\ call[f].fd = fd)
             /\ ~(IoctlKernel(f) /\ call[f].fd = fd)
             /\ ~(FcntlKernel(f) /\ call[f].fd = fd)
    <3>1. knb[fd] => knb'[fd]
      <4>1. CASE Begin(f)
        <5>1. PICK op \in Calls, k \in Fds :
                 /\ op = "socket" <=> file[k] = 0
                 /\ op # "socket" => UNCHANGED knb
                 /\ \A d \in Fds : d # k => knb'[d] = knb[d]
          BY <4>1, <1>t, BeginStep
        <5> QED
          BY <5>1, <1>0
      <4>2. CASE GetCtx(f) \/ SocketContext(f)
        <5>1. PICK c \in Ctxs, u \in BOOLEAN \cup {None} : GetContext(call[f].fd, c, u)
          BY <4>2, <1>t DEF GetCtx, SocketContext, Types, CallRec
        <5>2. call[f].fd \in Fds
          BY <4>2, <1>t DEF GetCtx, SocketContext, At, CallInv, CallOf
        <5> QED
          BY <5>1, <5>2, <1>0, <1>t, GetContextStep DEF Made
      <4>3. CASE CloseFile(f)
        <5>1. call[f].fd # fd
          BY <4>3, <1>0, <1>t DEF CloseFile, Types
        <5> QED
          BY <4>3, <5>1, <1>t DEF CloseFile, Types
      <4>4. CASE IoctlContext(f) \/ IoctlKernel(f) \/ FcntlKernel(f)
        BY <4>4, <2>5, <1>t DEF IoctlContext, IoctlKernel, FcntlKernel, Types
      <4> QED
        BY <4>1, <4>2, <4>3, <4>4, FlagsSame
    <3>2. ASSUME NEW g \in Fibers, Between(g, fd) PROVE Between(g, fd)'
      <4>1. CASE g # f
        BY <4>1, <3>2, <1>t DEF Others, Between
      <4>2. CASE g = f
        <5>1. ~Step(f)
          BY <3>2, <4>2, <2>5 DEF Step, Between, At,
             DoIo, Close, Settings, GetCtx, CheckClosed, SystemCall, ArmTimer, AddEvent, Hold,
             Woken, MarkClosed, CloseCancels, DelContext, CloseFile, SocketContext, SetTimeout,
             FcntlContext, FcntlKernel, IoctlKernel, IoctlContext
        <5> QED
          BY <5>1, <3>2, <4>2 DEF Between, FiberStep, Resume, Begin, Yield, Finish, At, Expire,
             TimerCallback, SleepOver
      <4> QED
        BY <4>1, <4>2
    <3> QED
      BY <3>1, <3>2, <1>2 DEF FlagInv
  <2> QED
    BY <2>2, <2>3, <2>4, <2>5
<1> QED
  BY <1>0, <1>1, <1>2

KernelInv == FileInv /\ CtxInv /\ TableInv /\ EntryInv /\ FlagInv

LEMMA InitKernel == Init => KernelInv
<1> SUFFICES ASSUME Init PROVE KernelInv
  OBVIOUS
<1>1. FileInv
  BY NoCallType, ConstantsAssumption DEF Init, FileInv, InUse
<1>2. CtxInv
  <2>1. NoCtx.snb = FALSE /\ NoCtx.socket = FALSE /\ NoCtx.file = 0
    BY DEF NoCtx
  <2>2. ASSUME NEW c \in Ctxs PROVE CtxOf(c)
    <3>1. ctx[c] = NoCtx /\ files = 0
      BY DEF Init
    <3>2. ctx[c].snb = FALSE /\ ctx[c].socket = FALSE /\ ctx[c].file = 0
      BY <2>1, <3>1
    <3>3. (ctx[c].file # 0) = FALSE
      BY <3>2
    <3>4. ctx[c].file <= files
      BY <3>1, <3>2
    <3> QED
      BY <3>2, <3>3, <3>4 DEF CtxOf
  <2> QED
    BY <2>2 DEF CtxInv
<1>3. TableInv
  BY DEF Init, TableInv
<1>4. EntryInv
  BY DEF Init, EntryInv, HasContext
<1>5. FlagInv
  BY DEF Init, FlagInv, HasContext
<1> QED
  BY <1>1, <1>2, <1>3, <1>4, <1>5 DEF KernelInv

LEMMA KernelStep == CoreInv /\ KernelInv /\ [Next]_vars => KernelInv'
<1> SUFFICES ASSUME CoreInv, KernelInv, [Next]_vars PROVE KernelInv'
  OBVIOUS
<1>1. CASE UNCHANGED <<file, files, knb, table, ctx, pc, call>>
  BY <1>1 DEF KernelInv, FileInv, InUse, CtxInv, CtxOf, TableInv, EntryInv, FlagInv, HasContext,
     Between
<1>2. ASSUME NEW f \in Fibers, FiberStep(f)
      PROVE  KernelInv'
  <2>1. FileInv /\ CtxInv /\ TableInv /\ EntryInv /\ FlagInv
    BY DEF KernelInv
  <2>2. Kept /\ TypeOK' /\ CallInv'
    BY <1>2, NextSteps, TypeStep, CallStep DEF CoreInv
  <2>3. FileInv' /\ files' >= files
    BY <1>2, <2>1, FileStep
  <2>4. files' \in Nat
    BY <2>2, ConstantsAssumption DEF TypeOK
  <2>5. CtxInv'
    BY <2>1, <2>2, <2>3, <2>4, CtxStep
  <2>6. TableInv'
    BY <1>2, <2>1, TableStep
  <2>7. EntryInv'
    BY <1>2, <2>1, <2>2, EntryInvStep
  <2>8. \A fd \in Fds : HasContext(fd)' => knb'[fd] \/ \E g \in Fibers : Between(g, fd)'
    BY <1>2, <2>1, <2>2, KnbStep
  <2>9. \A fd \in Fds, g \in Fibers :
          pc'[g] = "fcntl" /\ call'[g].fd = fd /\ HasContext(fd)'
            => call'[g].ctx \in Ctxs /\ ctx'[call'[g].ctx].snb
    BY <1>2, <2>1, <2>2, FcntlStep
  <2> QED
    BY <2>3, <2>5, <2>6, <2>7, <2>8, <2>9 DEF KernelInv, FlagInv
<1>3. CASE Environment
  BY <1>1, <1>3, EnvironmentCalls
<1>4. CASE UNCHANGED vars
  BY <1>1, <1>4 DEF vars, kernelVars, fdVars
<1> QED
  BY <1>2, <1>3, <1>4, NextSteps

\* NonblockKept: FdCtx::init() makes the file of a socket non-blocking, and
\* whatever fcntl() and ioctl() are asked for, from any number of fibers and
\* with close() and socket() on the same number around them, the kernel's flag
\* is set again once they have returned.  The invariant speaks of the file, not
\* of the context: every file that some context was ever made for has the flag,
\* whether the context is the number's entry or only held by a call.
THEOREM SocketsStayNonblocking == Spec => []NonblockKept
<1>1. CoreInv /\ KernelInv => NonblockKept
  <2> SUFFICES ASSUME CoreInv, KernelInv, NEW f \in Fibers, pc[f] = "call",
                      file[call[f].fd] # 0, ~knb[call[f].fd], ~Stale(f)
               PROVE  Changing(call[f].fd)
    BY DEF NonblockKept
  <2>1. call[f].fd \in Fds /\ call[f].ctx \in Ctxs
    BY DEF CoreInv, CallInv, CallOf, PcOps, Waiting
  <2>2. HasContext(call[f].fd)
    BY <2>1 DEF HasContext, Stale
  <2>3. PICK g \in Fibers : Between(g, call[f].fd)
    BY <2>1, <2>2 DEF KernelInv, FlagInv
  <2> QED
    BY <2>3 DEF Changing, Between
<1> QED
  BY <1>1, InitCore, CoreStep, InitKernel, KernelStep, PTL DEF Spec
=============================================================================
