---------------------------- MODULE ByteBuffer ----------------------------
(***************************************************************************)
(* What ByteArray promises: one flat sequence of bytes and a position at   *)
(* which everything is read and written.                                   *)
(***************************************************************************)
EXTENDS Integers, Sequences

CONSTANTS Byte, MaxLen

VARIABLES
    bytes,    \* the valid data, [0, size)
    pos,      \* the position
    given,    \* what the last operation was given to write: a head and a body
    out       \* the bytes it handed out

vars == <<bytes, pos, given, out>>

Init == bytes = <<>> /\ pos = 0 /\ given = <<>> /\ out = <<>>

\* s replaces what is at the position, and extends the data past its end.
Overwrite(s) ==
    [i \in 1..(IF pos + Len(s) > Len(bytes) THEN pos + Len(s) ELSE Len(bytes)) |->
        IF i \in (pos + 1)..(pos + Len(s)) THEN s[i - pos] ELSE bytes[i]]

\* All of what is given is written, or nothing, or the head without the body:
\* the length of a string for which there is no room.  The head of anything
\* but a string is empty.
Put == /\ given' \in Seq(Byte) \X Seq(Byte) /\ out' = <<>>
       /\ \E s \in {given'[1] \o given'[2], given'[1], <<>>} :
             Len(s) <= MaxLen - pos /\ bytes' = Overwrite(s) /\ pos' = pos + Len(s)

\* Bytes are handed out from any place of the data; a read at the position
\* moves it by what it handed out, or by less if the operation failed.
Get == \E from \in 0..Len(bytes), n \in 0..Len(bytes) :
          /\ from + n <= Len(bytes) /\ out' = SubSeq(bytes, from + 1, from + n)
          /\ pos' = pos \/ (from = pos /\ pos' = pos + n)
          /\ given' = <<>> /\ UNCHANGED bytes

\* Moving past the end makes the bytes in between valid: they are whatever the
\* storage happens to hold.
Seek == \E p \in 0..MaxLen :
          /\ pos' = p /\ given' = <<>> /\ out' = <<>>
          /\ IF p <= Len(bytes) THEN UNCHANGED bytes
             ELSE /\ bytes' \in [1..p -> Byte]
                  /\ \A i \in DOMAIN bytes : bytes'[i] = bytes[i]

Clear == bytes' = <<>> /\ pos' = 0 /\ given' = <<>> /\ out' = <<>>

\* An operation that fails or only reserves storage.
Nothing == given' = <<>> /\ out' = <<>> /\ UNCHANGED <<bytes, pos>>

Next == Put \/ Get \/ Seek \/ Clear \/ Nothing

Spec == Init /\ [][Next]_vars
=============================================================================
