------------------------------ MODULE Logger ------------------------------
(***************************************************************************)
(* Loggers, the root logger they fall back to, and their appenders: a      *)
(* record goes through shouldLog() and submit() in the thread that logs    *)
(* it, into the buffer of each appender and from there to the system.      *)
(***************************************************************************)
EXTENDS Integers, Sequences

CONSTANTS
    Threads,
    Appenders,
    MaxRecords,     \* bound: records logged
    MaxTuning       \* bound: changes of levels, appenders, flushes

ASSUME LoggerAssumption == MaxRecords \in Nat /\ MaxTuning \in Nat

Loggers == {"system", "root"}
ERROR == 3
FATAL == 4
OFF == 5
Levels == {ERROR, FATAL, OFF}

VARIABLES
    appenders,      \* appenders_ of each logger
    level,          \* level_ of each logger and appender
    buffer,         \* what an appender has written and not flushed
    disk,           \* what it has handed to the system
    line,           \* the record each thread is logging
    logged,         \* history: records logged
    took,           \* history: the records an appender has accepted
    tuning, down

logVars == <<appenders, level, buffer, disk, line, logged, took, tuning, down>>

NoLine == [pc |-> "none", logger |-> "system", rec |-> <<0, 0>>, i |-> 0]

LoggerInit ==
    /\ appenders \in [Loggers -> {<<>>} \cup {<<a>> : a \in Appenders}]
    /\ level = [x \in Loggers \cup Appenders |-> 0]
    /\ buffer = [a \in Appenders |-> <<>>] /\ disk = [a \in Appenders |-> <<>>]
    /\ line = [t \in Threads |-> NoLine] /\ logged = 0
    /\ took = [a \in Appenders |-> <<>>] /\ tuning = 0 /\ down = FALSE

\* A record is its number and its level.
LevelOf(rec) == rec[2]

\* DROPLET_LOG_LEVEL(): the line is created when shouldLog() of the logger, or
\* of the root it falls back to, says so.
ShouldLog(l, n) ==
    /\ n >= level[l]
    /\ appenders[l] # <<>> \/ (l # "root" /\ n >= level["root"] /\ appenders["root"] # <<>>)

\* The thread starts to log a record.
Log(t, l, n) ==
    /\ line' = [line EXCEPT ![t] = IF ShouldLog(l, n)
                                   THEN [pc |-> "submit", logger |-> l, rec |-> <<logged, n>>, i |-> 1]
                                   ELSE NoLine]
    /\ logged' = logged + 1

Logging(t) == line[t].pc # "none"

\* submit(): the level again, then the appenders under the shared lock, or the
\* root logger if there are none.
Submit(t) ==
    LET l == line[t].logger IN
    /\ line[t].pc = "submit"
    /\ line' = [line EXCEPT ![t] =
          IF LevelOf(@.rec) < level[l] THEN NoLine
          ELSE IF appenders[l] # <<>> THEN [@ EXCEPT !.pc = "append"]
          ELSE IF l = "root" THEN NoLine
          ELSE [@ EXCEPT !.logger = "root"]]
    /\ UNCHANGED <<appenders, level, buffer, disk, logged, took, tuning, down>>

\* FileAppenderImpl: what is written stays in the buffer of the FILE until it is
\* flushed.
Flushed(a, unwritten) == [disk |-> disk[a] \o unwritten, buffer |-> <<>>]

\* Mutant: the flush comes before the write.
FlushedEarly(a, rec) ==
    IF LevelOf(rec) = FATAL
    THEN [disk |-> disk[a] \o buffer[a], buffer |-> <<rec>>]
    ELSE [disk |-> disk[a], buffer |-> Append(buffer[a], rec)]

\* Appender::Impl::append() under the appender's lock: a FATAL record is
\* flushed with everything before it.
Written(a, rec) ==
    IF LevelOf(rec) = FATAL
    THEN Flushed(a, Append(buffer[a], rec))
    ELSE [disk |-> disk[a], buffer |-> Append(buffer[a], rec)]

\* The next appender of the loop; after the last one the call returns.
AppendOne(t) ==
    LET l == line[t].logger
        a == appenders[l][line[t].i]
        rec == line[t].rec
        taken == LevelOf(rec) >= level[a]
    IN
    /\ line[t].pc = "append"
    /\ IF taken
       THEN /\ disk' = [disk EXCEPT ![a] = Written(a, rec).disk]
            /\ buffer' = [buffer EXCEPT ![a] = Written(a, rec).buffer]
            /\ took' = [took EXCEPT ![a] = Append(@, rec)]
       ELSE UNCHANGED <<disk, buffer, took>>
    /\ line' = [line EXCEPT ![t] = IF line[t].i = Len(appenders[l]) THEN NoLine
                                   ELSE [line[t] EXCEPT !.i = line[t].i + 1]]
    /\ UNCHANGED <<appenders, level, logged, tuning, down>>

-----------------------------------------------------------------------------
(* The other operations.  Changing the appenders needs the lock alone. *)

Tune == tuning < MaxTuning /\ tuning' = tuning + 1

Unlocked(l) == \A t \in Threads : line[t].pc = "append" => line[t].logger # l

ChangeAppenders ==
    /\ Tune
    /\ \E l \in Loggers :
          /\ Unlocked(l)
          /\ \/ \E a \in Appenders : appenders' = [appenders EXCEPT ![l] = Append(@, a)]
             \/ \E a \in Appenders : appenders' = [appenders EXCEPT
                    ![l] = SelectSeq(@, LAMBDA b : b # a)]
             \/ appenders' = [appenders EXCEPT ![l] = <<>>]
    /\ UNCHANGED <<level, buffer, disk, line, logged, took, down>>

SetLevel ==
    /\ Tune
    /\ \E l \in Loggers, n \in Levels : level' = [level EXCEPT ![l] = n]
    /\ UNCHANGED <<appenders, buffer, disk, line, logged, took, down>>

\* The level of an appender.
SetAppenderLevel ==
    /\ Tune
    /\ \E a \in Appenders, n \in Levels : level' = [level EXCEPT ![a] = n]
    /\ UNCHANGED <<appenders, buffer, disk, line, logged, took, down>>

FlushAll(A) ==
    /\ disk' = [a \in Appenders |-> IF a \in A THEN Flushed(a, buffer[a]).disk ELSE disk[a]]
    /\ buffer' = [a \in Appenders |-> IF a \in A THEN <<>> ELSE buffer[a]]

\* flush(), sync() of a logger: its appenders, or the root's.
Flush ==
    /\ Tune
    /\ \E l \in Loggers :
          LET own == IF appenders[l] # <<>> THEN appenders[l] ELSE appenders["root"]
          IN FlushAll({own[i] : i \in DOMAIN own})
    /\ UNCHANGED <<appenders, level, line, logged, took, down>>

\* flush(), sync() of an appender.
FlushAppender ==
    /\ Tune
    /\ \E a \in Appenders : FlushAll({a})
    /\ UNCHANGED <<appenders, level, line, logged, took, down>>

\* The process dies: what was not flushed is gone.
Crash ==
    /\ down' = TRUE /\ buffer' = [a \in Appenders |-> <<>>]
    /\ UNCHANGED <<appenders, level, disk, line, logged, took, tuning>>

LoggerStep(t) == Submit(t) \/ AppendOne(t)
Tuning == ChangeAppenders \/ SetLevel \/ SetAppenderLevel \/ Flush \/ FlushAppender

-----------------------------------------------------------------------------

LoggerTypeOK ==
    /\ appenders \in [Loggers -> Seq(Appenders)]
    /\ \A t \in Threads : line[t].pc = "append" => line[t].i \in DOMAIN appenders[line[t].logger]

\* A FATAL record that an appender has accepted reaches the disk with every
\* record accepted before it, in that order, whatever other threads write to the
\* same appender and whenever the process dies: a failed assertion logs one and
\* aborts.
FatalSurvives ==
    \A a \in Appenders : \A k \in DOMAIN took[a] :
        LevelOf(took[a][k]) = FATAL =>
            Len(disk[a]) >= k /\ SubSeq(disk[a], 1, k) = SubSeq(took[a], 1, k)
=============================================================================
