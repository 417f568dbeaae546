------------------------------- MODULE Config -------------------------------
(***************************************************************************)
(* The table of configuration variables and its users: Lookup() that       *)
(* creates a variable on first use, setValue() and the listeners it        *)
(* notifies outside the locks, and LoadFromConfDir() over a file that      *)
(* changes meanwhile.  Errors are logged through Logger; a failed          *)
(* assertion logs a FATAL record and aborts a debug build.                 *)
(***************************************************************************)
EXTENDS Logger, FiniteSets, SequencesExt

CONSTANTS
    Loaders,        \* the threads that call LoadFromConfDir()
    Names, BadNames,    \* names of variables; those that are not valid
    Types,
    Values,         \* the values a variable takes, all of any type
    Default,        \* the value a variable is created with
    Bad,            \* a YAML node that does not convert to the type
    Broken,         \* the content of a file that is no YAML
    Contents,       \* what is written to the file: names to values, or Broken
    Listeners, Throwing,    \* listeners, and those that throw
    MaxCalls,       \* bound: calls, of all threads
    MaxWrites       \* bound: times the file is written

ASSUME ConfigAssumption ==
    /\ Loaders \subseteq Threads /\ BadNames \subseteq Names /\ Throwing \subseteq Listeners
    /\ IsFiniteSet(Threads)
    /\ \A y \in Contents : \/ y = Broken
                          \/ /\ DOMAIN y \subseteq Names
                             /\ \A n \in DOMAIN y : y[n] \in Values \cup {Bad}
    /\ Default \in Values /\ MaxCalls \in Nat /\ MaxWrites \in Nat

VARIABLES
    vars_,          \* every ConfigVar created
    datas,          \* s_datas: the variable of each name, 0 if there is none
    calls,          \* calls made
    at,             \* where each thread is in its call, with its locals
    holds,          \* the variables each thread has got from Lookup()
    net,            \* history: times a value was reported as new, less as old
    file, applied, mark     \* the file, what was loaded of it, its recorded time

conf == <<vars_, datas, calls, at, holds, net, file, applied, mark>>
vars == <<logVars, conf>>

Idle == [pc |-> "idle", name |-> "", type |-> "", var |-> 0, old |-> Default, new |-> Default,
         todo |-> <<>>, time |-> -1, yaml |-> {}]

Init ==
    /\ LoggerInit
    /\ vars_ = <<>> /\ datas = [n \in Names |-> 0]
    /\ calls = 0 /\ at = [t \in Threads |-> Idle]
    /\ holds = [t \in Threads |-> {}] /\ net = <<>>
    /\ file = [time |-> 0, yaml |-> [n \in Names \ BadNames |-> Default]]
    /\ applied = -1 /\ mark = -1

\* A thread runs when it is not inside a log call.
Free(t) == ~down /\ ~Logging(t)

Call(t) == Free(t) /\ at[t].pc = "idle" /\ calls < MaxCalls /\ calls' = calls + 1

LogRecord(t, l, n) ==
    /\ logged < MaxRecords /\ Log(t, l, n)
    /\ UNCHANGED <<appenders, level, buffer, disk, took, tuning, down>>

\* ReportConfigError()
Report(t) == LogRecord(t, "system", ERROR)

Goto(t, s) == at' = [at EXCEPT ![t] = s]

\* Where a call goes on after an assertion or after the listeners: it returns,
\* or a load takes the next member.
Resume(s) == [Idle EXCEPT !.pc = IF s.time >= 0 THEN "apply" ELSE "idle",
                          !.time = s.time, !.yaml = s.yaml]

-----------------------------------------------------------------------------
(* Lookup() *)

\* CheckType(): the variable is handed out if its type is the one asked for;
\* otherwise the error is reported and the assertion fails.
Check(t, v) ==
    IF v.type = at[t].type
    THEN /\ holds' = [holds EXCEPT ![t] = @ \cup {v.var}]
         /\ Goto(t, Idle) /\ UNCHANGED logVars
    ELSE Report(t) /\ Goto(t, [Idle EXCEPT !.pc = "assert"]) /\ UNCHANGED holds

\* NormalizeName(), IsValidName()
IsValidName(n) == n \notin BadNames

\* LookupOrCreate(): the name is checked, then looked up under the shared lock.
Lookup(t) ==
    /\ Call(t)
    /\ \E n \in Names, ty \in Types :
          IF ~IsValidName(n) THEN Report(t) /\ Goto(t, Idle)
          ELSE /\ Goto(t, [Idle EXCEPT !.pc = "find", !.name = n, !.type = ty])
               /\ UNCHANGED logVars
    /\ UNCHANGED <<vars_, datas, holds, net, file, applied, mark>>

\* Lookup() without a default: LookupBase(), and nothing if the type differs.
LookupBase(t) ==
    /\ Call(t)
    /\ \E n \in Names, ty \in Types :
          LET o == datas[n]
          IN holds' = [holds EXCEPT ![t] = IF o # 0 /\ vars_[o].type = ty THEN @ \cup {o} ELSE @]
    /\ UNCHANGED <<logVars, vars_, datas, at, net, file, applied, mark>>

\* The constructor of ConfigVar.
NewVar(n, ty) == [name |-> n, type |-> ty, value |-> Default, listeners |-> <<>>]

Find(t) ==
    LET o == datas[at[t].name] IN
    /\ Free(t) /\ at[t].pc = "find"
    /\ IF o # 0 THEN Check(t, [var |-> o, type |-> vars_[o].type]) /\ UNCHANGED <<vars_, net>>
       ELSE /\ vars_' = Append(vars_, NewVar(at[t].name, at[t].type))
            /\ net' = Append(net, [v \in Values |-> 0])
            /\ Goto(t, [at[t] EXCEPT !.pc = "emplace", !.var = Len(vars_) + 1])
            /\ UNCHANGED <<logVars, holds>>
    /\ UNCHANGED <<datas, calls, file, applied, mark>>

\* Mutant: the caller gets the variable it created.
StoredOwn(old, new) == new

\* emplace() keeps what is there, and the caller gets what is stored.
Stored(old, new) == IF old = 0 THEN new ELSE old

Emplace(t) ==
    LET n == at[t].name
        o == Stored(datas[n], at[t].var)
    IN
    /\ Free(t) /\ at[t].pc = "emplace"
    /\ datas' = [datas EXCEPT ![n] = IF @ = 0 THEN at[t].var ELSE @]
    /\ Check(t, [var |-> o, type |-> vars_[o].type])
    /\ UNCHANGED <<vars_, calls, net, file, applied, mark>>

\* DROPLET_ASSERT(): a FATAL record through the root logger, then abort() in a
\* debug build.
AssertLogs(t) ==
    /\ Free(t) /\ at[t].pc = "assert"
    /\ Goto(t, [at[t] EXCEPT !.pc = "abort"])
    /\ LogRecord(t, "root", FATAL)
    /\ UNCHANGED <<vars_, datas, calls, holds, net, file, applied, mark>>

AssertEnds(t) ==
    /\ Free(t) /\ at[t].pc = "abort"
    /\ Goto(t, Resume(at[t]))
    /\ Crash \/ UNCHANGED logVars
    /\ UNCHANGED <<vars_, datas, calls, holds, net, file, applied, mark>>

-----------------------------------------------------------------------------
(* ConfigVar *)

\* setValue() under writeMutex_: an equal value changes nothing, another one is
\* stored and then reported.
Swap(t, o, v, s) ==
    /\ vars_' = [vars_ EXCEPT ![o].value = v]
    /\ Goto(t, IF vars_[o].value = v THEN s
               ELSE [s EXCEPT !.pc = "notify", !.var = o, !.old = vars_[o].value, !.new = v])

SetValue(t) ==
    /\ Call(t)
    /\ \E o \in holds[t], v \in Values : Swap(t, o, v, Idle)
    /\ UNCHANGED <<logVars, datas, holds, net, file, applied, mark>>

\* ConfigConvert::FromNode() has a value for the node.
Converts(v) == v # Bad

\* fromNode(): a node that does not convert is reported.
FromNode(t, o, v, s) ==
    \/ Converts(v) /\ Swap(t, o, v, s) /\ UNCHANGED logVars
    \/ ~Converts(v) /\ Report(t) /\ Goto(t, s) /\ UNCHANGED vars_

\* fromString(); text that is no YAML is reported in the same way.
FromString(t) ==
    /\ Call(t)
    /\ \E o \in holds[t], v \in Values \cup {Bad} : FromNode(t, o, v, Idle)
    /\ UNCHANGED <<datas, holds, net, file, applied, mark>>

\* Mutant: the value is read again when the change is reported.
ReportedAgain(t) == vars_[at[t].var].value

\* The value reported is the one that was stored.
Reported(t) == at[t].new

\* notify(): the listeners are copied under their lock.  The change counts as
\* reported from here.
Notify(t) ==
    /\ Free(t) /\ at[t].pc = "notify"
    /\ Goto(t, IF vars_[at[t].var].listeners = <<>> THEN Resume(at[t])
               ELSE [at[t] EXCEPT !.pc = "listen", !.todo = vars_[at[t].var].listeners])
    /\ net' = [net EXCEPT ![at[t].var] = [v \in Values |->
                  @[v] + (IF v = Reported(t) THEN 1 ELSE 0) - (IF v = at[t].old THEN 1 ELSE 0)]]
    /\ UNCHANGED <<logVars, vars_, datas, calls, holds, file, applied, mark>>

\* The next listener; an exception is reported and the others still run.
Listen(t) ==
    LET rest == Tail(at[t].todo) IN
    /\ Free(t) /\ at[t].pc = "listen"
    /\ Goto(t, IF rest = <<>> THEN Resume(at[t]) ELSE [at[t] EXCEPT !.todo = rest])
    /\ IF Head(at[t].todo) \in Throwing THEN Report(t) ELSE UNCHANGED logVars
    /\ UNCHANGED <<vars_, datas, calls, holds, net, file, applied, mark>>

\* addListener(), removeListener(), clearListeners()
ChangeListeners(t) ==
    /\ Call(t)
    /\ \E o \in holds[t] :
          LET ls == vars_[o].listeners IN
          \/ \E h \in Listeners : /\ \A i \in DOMAIN ls : ls[i] # h
                                  /\ vars_' = [vars_ EXCEPT ![o].listeners = Append(ls, h)]
          \/ \E i \in DOMAIN ls : vars_' = [vars_ EXCEPT ![o].listeners = RemoveAt(ls, i)]
          \/ vars_' = [vars_ EXCEPT ![o].listeners = <<>>]
    /\ UNCHANGED <<logVars, datas, at, holds, net, file, applied, mark>>

\* ClearAllListeners(): every variable of a copy of the table.
ClearAllListeners(t) ==
    /\ Call(t)
    /\ vars_' = [o \in DOMAIN vars_ |-> IF \E n \in Names : datas[n] = o
                                        THEN [vars_[o] EXCEPT !.listeners = <<>>] ELSE vars_[o]]
    /\ UNCHANGED <<logVars, datas, at, holds, net, file, applied, mark>>

-----------------------------------------------------------------------------
(* LoadFromConfDir() *)

\* last_write_time(), and the file is skipped if it has not changed since.
LoadFromConfDir(t) ==
    /\ Call(t) /\ t \in Loaders
    /\ \E force \in BOOLEAN :
          Goto(t, IF ~force /\ mark = file.time THEN Idle
                  ELSE [Idle EXCEPT !.pc = "load", !.time = file.time])
    /\ UNCHANGED <<logVars, vars_, datas, holds, net, file, applied, mark>>

\* YAML::LoadFile(): a file that is no YAML is reported and not recorded.
\* CollectMembers(): a key that is no valid name is skipped, with a report and a
\* failed assertion.
LoadFile(t) ==
    /\ Free(t) /\ at[t].pc = "load"
    /\ \/ file.yaml = Broken /\ Report(t) /\ Goto(t, Idle) /\ UNCHANGED applied
       \/ LET keys == DOMAIN file.yaml
              s == [at[t] EXCEPT !.yaml = {<<n, file.yaml[n]>> : n \in keys \ BadNames}]
          IN /\ file.yaml # Broken /\ applied' = file.time
             /\ IF keys \cap BadNames # {} THEN Report(t) /\ Goto(t, [s EXCEPT !.pc = "assert"])
                ELSE UNCHANGED logVars /\ Goto(t, [s EXCEPT !.pc = "apply"])
    /\ UNCHANGED <<vars_, datas, calls, holds, net, file, mark>>

\* Mutant: the time is read when the file has been loaded.
MarkTimeLate(t) == file.time

\* The time that is recorded is the one read before the file.
MarkTime(t) == at[t].time

\* LoadFromYaml(): the next member that has a variable, MarkFileLoaded() after
\* the last.
Apply(t) ==
    /\ Free(t) /\ at[t].pc = "apply"
    /\ \/ /\ at[t].yaml = {} /\ mark' = MarkTime(t) /\ Goto(t, Idle)
          /\ UNCHANGED <<logVars, vars_>>
       \/ \E m \in at[t].yaml :
             LET s == [at[t] EXCEPT !.yaml = @ \ {m}]
                 o == datas[m[1]]
             IN /\ UNCHANGED mark
                /\ IF o = 0 THEN Goto(t, s) /\ UNCHANGED <<logVars, vars_>>
                   ELSE FromNode(t, o, m[2], s)
    /\ UNCHANGED <<datas, calls, holds, net, file, applied>>

\* Somebody writes the file, at a later time than before.
WriteFile ==
    /\ file.time < MaxWrites
    /\ \E y \in Contents : file' = [time |-> file.time + 1, yaml |-> y]
    /\ UNCHANGED <<logVars, vars_, datas, calls, at, holds, net, applied, mark>>

-----------------------------------------------------------------------------

Step(t) ==
    \/ Lookup(t) \/ Find(t) \/ Emplace(t) \/ AssertLogs(t) \/ AssertEnds(t) \/ LookupBase(t)
    \/ SetValue(t) \/ FromString(t) \/ Notify(t) \/ Listen(t)
    \/ ChangeListeners(t) \/ ClearAllListeners(t)
    \/ LoadFromConfDir(t) \/ LoadFile(t) \/ Apply(t)

Next ==
    ~down /\ \/ \E t \in Threads : Step(t) \/ (LoggerStep(t) /\ UNCHANGED conf)
             \/ (Tuning \/ Crash) /\ UNCHANGED conf
             \/ WriteFile

Spec == Init /\ [][Next]_vars

-----------------------------------------------------------------------------
(* Properties. *)

TypeOK ==
    /\ LoggerTypeOK
    /\ \A n \in Names : datas[n] \in 0..Len(vars_)
    /\ calls \in 0..MaxCalls
    /\ \A t \in Threads : at[t].var \in 0..Len(vars_)

\* All users of a name share one variable, however their first lookups
\* interleave: "Lookup() of the same name returns the same instance".
OneVarPerName ==
    \A t \in Threads : \A o \in holds[t] : datas[vars_[o].name] = o

\* Listeners are told of every change once and with the values it really had:
\* when nobody is changing a variable, the reports lead from its default to its
\* value, in whatever order they came.
ReportsAddUp ==
    \A o \in DOMAIN vars_ :
        (\A t \in Threads : at[t].pc = "notify" => at[t].var # o) =>
            \A v \in Values : net[o][v] = (IF v = vars_[o].value THEN 1 ELSE 0)
                                              - (IF v = Default THEN 1 ELSE 0)

\* A file whose recorded time is its own has been read since it was written
\* last: a write during a load is never skipped by the loads that follow.
FileApplied == mark = file.time => applied = file.time
=============================================================================
