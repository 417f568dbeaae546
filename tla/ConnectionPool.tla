---------------------------- MODULE ConnectionPool ----------------------------
(***************************************************************************)
(* droplet::http::HttpConnectionPool: leases of persistent connections to  *)
(* one origin.  A lease is a shared_ptr whose deleter hands the connection *)
(* back through a weak_ptr to the pool, so it may outlive the pool.        *)
(*                                                                         *)
(* mutex_ guards the idle deque; total_ is an atomic that also changes     *)
(* without it.  Deleting a connection and counting it down is one step: no *)
(* other thread can reach a connection that is being deleted.              *)
(***************************************************************************)
EXTENDS Integers, Sequences, FiniteSets

CONSTANTS
    Threads,      \* threads that send requests
    Conns,        \* HttpConnection objects
    None,
    MaxSize,      \* max_size_
    MaxAlive,     \* max_alive_time_ms_, 0 for no limit
    MaxRequests,  \* max_requests_, 0 for no limit
    MaxTime,      \* bound of the clock
    MaxUses,      \* bound: requests per connection
    Word          \* 2^32 for total_, 2^64 for the clock

ASSUME ConstantsAssumption ==
    /\ IsFiniteSet(Threads) /\ IsFiniteSet(Conns)
    /\ None \notin Conns
    /\ MaxSize \in Nat \ {0} /\ MaxAlive \in Nat /\ MaxRequests \in Nat
    /\ MaxTime \in Nat /\ MaxUses \in Nat
    /\ Word \in Nat /\ Cardinality(Conns) + Cardinality(Threads) + MaxTime < Word

VARIABLES
    now,        \* steady_clock
    alive,      \* the pool exists
    idle,       \* idle_connections_
    total,      \* total_
    alloc,      \* connections created and not yet deleted
    connected,  \* isConnected()
    reusable,   \* reusable_
    created,    \* created_at_ms_
    count,      \* request_count_
    awaiting,   \* history: a request was sent and its response not yet read
    pc,         \* where a thread is
    clk,        \* getConnection()'s local now
    invalid,    \* getConnection()'s local invalid
    reserved,   \* threads whose local reserved_slot is true
    lease       \* the connection a thread has taken, or None

connVars   == <<connected, reusable, created, count, awaiting>>
threadVars == <<pc, clk, invalid, reserved, lease>>
vars == <<now, alive, idle, total, alloc, connVars, threadVars>>

Idle == {idle[i] : i \in DOMAIN idle}

TypeOK ==
    /\ now \in 0..MaxTime /\ alive \in BOOLEAN
    /\ idle \in Seq(Conns)
    /\ total \in 0..Word - 1
    /\ alloc \subseteq Conns /\ connected \subseteq Conns /\ reusable \subseteq Conns
    /\ created \in [Conns -> 0..MaxTime]
    /\ count \in [Conns -> 0..MaxUses]
    /\ awaiting \subseteq Conns
    /\ pc \in [Threads -> {"out", "lock", "drop", "connect", "leased", "sent", "push"}]
    /\ clk \in [Threads -> 0..MaxTime]
    /\ invalid \in [Threads -> SUBSET Conns]
    /\ reserved \subseteq Threads
    /\ lease \in [Threads -> Conns \cup {None}]

Init ==
    /\ now = 0 /\ alive = TRUE
    /\ idle = <<>> /\ total = 0
    /\ alloc = {} /\ connected = {} /\ reusable = {} /\ awaiting = {}
    /\ created = [c \in Conns |-> 0]
    /\ count = [c \in Conns |-> 0]
    /\ pc = [t \in Threads |-> "out"]
    /\ clk = [t \in Threads |-> 0]
    /\ invalid = [t \in Threads |-> {}]
    /\ reserved = {}
    /\ lease = [t \in Threads |-> None]

Go(t, where) == pc' = [pc EXCEPT ![t] = where]

\* fetch_sub on total_
Less(n) == (total - n) % Word

-----------------------------------------------------------------------------

\* isExpired(): the subtraction is unsigned.
IsExpired(c, at) ==
    \/ MaxAlive # 0 /\ (at - created[c]) % Word >= MaxAlive
    \/ MaxRequests # 0 /\ count[c] >= MaxRequests

\* A connection that is deleted instead of reused.
Bad(c, at) == c \notin connected \/ c \notin reusable \/ IsExpired(c, at)

\* getConnection(): the clock is read before the lock is taken.
GetBegin(t) ==
    /\ pc[t] = "out" /\ alive
    /\ clk' = [clk EXCEPT ![t] = now]
    /\ Go(t, "lock")
    /\ UNCHANGED <<now, alive, idle, total, alloc, connVars, invalid, reserved, lease>>

\* Mutant: the slot is granted at the limit.
HasSlotInclusive(gone) == Less(Cardinality(gone)) <= MaxSize

\* after_invalid < max_size_
HasSlot(gone) == Less(Cardinality(gone)) < MaxSize

\* Mutant: the connection stays in the deque.
RemainingKept(k) == SubSeq(idle, k + 1, Len(idle))

\* What pop_front() leaves behind k bad candidates and a good one.
Remaining(k) == SubSeq(idle, k + 2, Len(idle))

\* The critical section: bad candidates at the front are set aside, the first
\* good one is taken; if there is none a slot is reserved.
GetLocked(t) ==
    /\ pc[t] = "lock"
    /\ \E k \in 0..Len(idle) :
          LET gone == {idle[i] : i \in 1..k} IN
          /\ \A i \in 1..k : Bad(idle[i], clk[t])
          /\ invalid' = [invalid EXCEPT ![t] = gone]
          /\ \/ /\ k < Len(idle) /\ ~Bad(idle[k + 1], clk[t])
                /\ lease' = [lease EXCEPT ![t] = idle[k + 1]]
                /\ idle' = Remaining(k)
                /\ UNCHANGED <<total, reserved>>
             \/ /\ k = Len(idle) /\ HasSlot(gone)
                /\ total' = (total + 1) % Word
                /\ reserved' = reserved \cup {t}
                /\ idle' = <<>>
                /\ UNCHANGED lease
             \/ /\ k = Len(idle) /\ ~HasSlot(gone)
                /\ idle' = <<>>
                /\ UNCHANGED <<total, reserved, lease>>
    /\ Go(t, "drop")
    /\ UNCHANGED <<now, alive, alloc, connVars, clk>>

CountOff(gone) == Less(Cardinality(gone))

\* The bad ones are deleted and counted off.
GetDrop(t) ==
    /\ pc[t] = "drop"
    /\ alloc' = alloc \ invalid[t]
    /\ total' = CountOff(invalid[t])
    /\ invalid' = [invalid EXCEPT ![t] = {}]
    /\ Go(t, IF t \in reserved THEN "connect"
             ELSE IF lease[t] # None THEN "leased" ELSE "out")
    /\ UNCHANGED <<now, alive, idle, connVars, clk, reserved, lease>>

\* connect() succeeds: a connection in the reserved slot.
ConnectOk(t) ==
    /\ pc[t] = "connect"
    /\ \E c \in Conns \ alloc :
          /\ alloc' = alloc \cup {c}
          /\ connected' = connected \cup {c}
          /\ reusable' = reusable \cup {c}
          /\ awaiting' = awaiting \ {c}
          /\ created' = [created EXCEPT ![c] = now]
          /\ count' = [count EXCEPT ![c] = 0]
          /\ lease' = [lease EXCEPT ![t] = c]
    /\ reserved' = reserved \ {t}
    /\ Go(t, "leased")
    /\ UNCHANGED <<now, alive, idle, total, clk, invalid>>

\* Mutant: the slot of a failed connect() is not given back.
SlotKept == total

SlotBack == Less(1)

\* The address lookup, the socket or connect() fails: nullptr.
ConnectFails(t) ==
    /\ pc[t] = "connect"
    /\ total' = SlotBack
    /\ reserved' = reserved \ {t}
    /\ Go(t, "out")
    /\ UNCHANGED <<now, alive, idle, alloc, connVars, clk, invalid, lease>>

-----------------------------------------------------------------------------
(* A request on the leased connection. *)

\* Mutant: the flag is left to recvResponse().
SendingKeepsFlag(c) == reusable

Sending(c) == reusable \ {c}

\* sendRequest(): no longer reusable until the response has been read; closed
\* if the write fails.
SendRequest(t) ==
    LET c == lease[t] IN
    /\ pc[t] = "leased" /\ c \in connected /\ count[c] < MaxUses
    /\ reusable' = Sending(c)
    /\ \/ awaiting' = awaiting \cup {c} /\ Go(t, "sent") /\ UNCHANGED connected
       \/ connected' = connected \ {c} /\ UNCHANGED <<pc, awaiting>>
    /\ UNCHANGED <<now, alive, idle, total, alloc, created, count, clk, invalid, reserved,
                   lease>>

\* recvResponse(): a response that allows reuse, one that does not, one that
\* ends with the connection, or an error, which closes it.
RecvResponse(t) ==
    LET c == lease[t] IN
    /\ pc[t] = "sent"
    /\ \/ /\ count' = [count EXCEPT ![c] = @ + 1]
          /\ reusable' \in {reusable, reusable \cup {c}}
          /\ awaiting' = awaiting \ {c}
          /\ UNCHANGED connected
       \/ /\ count' = [count EXCEPT ![c] = @ + 1]
          /\ connected' = connected \ {c}
          /\ awaiting' = awaiting \ {c}
          /\ UNCHANGED reusable
       \/ connected' = connected \ {c} /\ UNCHANGED <<count, reusable, awaiting>>
    /\ Go(t, "leased")
    /\ UNCHANGED <<now, alive, idle, total, alloc, created, clk, invalid, reserved, lease>>

-----------------------------------------------------------------------------
(* The lease ends, at any time. *)

Held(t) == pc[t] \in {"leased", "sent"}

\* The deleter, when the pool is gone.
ReleaseOrphan(t) ==
    /\ Held(t) /\ ~alive
    /\ alloc' = alloc \ {lease[t]}
    /\ lease' = [lease EXCEPT ![t] = None]
    /\ Go(t, "out")
    /\ UNCHANGED <<now, alive, idle, total, connVars, clk, invalid, reserved>>

\* releaseConnection() of a bad connection.
ReleaseBad(t) ==
    /\ Held(t) /\ alive /\ Bad(lease[t], now)
    /\ alloc' = alloc \ {lease[t]}
    /\ total' = Less(1)
    /\ lease' = [lease EXCEPT ![t] = None]
    /\ Go(t, "out")
    /\ UNCHANGED <<now, alive, idle, connVars, clk, invalid, reserved>>

\* releaseConnection() of a good one, up to the lock.
ReleaseGood(t) ==
    /\ Held(t) /\ alive /\ ~Bad(lease[t], now)
    /\ Go(t, "push")
    /\ UNCHANGED <<now, alive, idle, total, alloc, connVars, clk, invalid, reserved, lease>>

Pushed(t) == Append(idle, lease[t])

\* idle_connections_.push_back() under the lock.
ReleasePush(t) ==
    /\ pc[t] = "push"
    /\ idle' = Pushed(t)
    /\ lease' = [lease EXCEPT ![t] = None]
    /\ Go(t, "out")
    /\ UNCHANGED <<now, alive, total, alloc, connVars, clk, invalid, reserved>>

\* ~HttpConnectionPool(): nobody is in a member function, leases may be out.
DestroyPool ==
    /\ alive
    /\ \A t \in Threads : pc[t] \in {"out", "leased", "sent"}
    /\ alive' = FALSE
    /\ idle' = <<>>
    /\ alloc' = alloc \ Idle
    /\ total' = Less(Len(idle))
    /\ UNCHANGED <<now, connVars, threadVars>>

Tick ==
    /\ now < MaxTime
    /\ now' = now + 1
    /\ UNCHANGED <<alive, idle, total, alloc, connVars, threadVars>>

Next ==
    \/ Tick \/ DestroyPool
    \/ \E t \in Threads :
          \/ GetBegin(t) \/ GetLocked(t) \/ GetDrop(t) \/ ConnectOk(t) \/ ConnectFails(t)
          \/ SendRequest(t) \/ RecvResponse(t)
          \/ ReleaseOrphan(t) \/ ReleaseBad(t) \/ ReleaseGood(t) \/ ReleasePush(t)

Spec == Init /\ [][Next]_vars

-----------------------------------------------------------------------------
(* Properties. *)

\* Every connection is in one place, and where it is it has not been deleted:
\* the deque holds it once, at most one thread leases it, nobody deletes it
\* while another still has it.
ExclusiveLease ==
    /\ \A i, j \in DOMAIN idle : idle[i] = idle[j] => i = j
    /\ Idle \subseteq alloc
    /\ \A t \in Threads :
          /\ lease[t] # None => lease[t] \in alloc \ Idle
          /\ invalid[t] \subseteq alloc \ Idle
    /\ \A t, u \in Threads :
          /\ lease[t] # None => lease[t] \notin invalid[u]
          /\ t # u /\ lease[t] # None => lease[t] # lease[u]
          /\ t # u => invalid[t] \cap invalid[u] = {}

\* total_ counts exactly the connections that exist and the slots reserved for
\* connections in the making, however getConnection() and releaseConnection()
\* interleave; no slot leaks and the unsigned counter never wraps.
Accounting == alive => total = Cardinality(alloc) + Cardinality(reserved)

\* Connections that are not being deleted.
Live == alloc \ UNION {invalid[t] : t \in Threads}

\* The pool never has more than max_size_ connections in use, idle or in the
\* making, although a slot is granted before the bad ones are counted off.
Capacity == alive => Cardinality(Live) + Cardinality(reserved) <= MaxSize

\* A connection that waits for reuse owes nobody a response: the next request
\* on it reads its own answer, never that of an abandoned one.
CleanReuse == Idle \cap awaiting = {}
=============================================================================
