----------------------------- MODULE ByteArray -----------------------------
(***************************************************************************)
(* ByteArray: a chain of blocks of one size, a position and a size; the    *)
(* encodings of numbers and strings on top of it, and the scatter/gather   *)
(* reads and writes of SocketStream.  It implements ByteBuffer.            *)
(*                                                                         *)
(* A byte has Bits bits, which is 8 in the code: the widths of the numbers *)
(* and the limits of the variable-length ones follow from it.              *)
(***************************************************************************)
EXTENDS Integers, Sequences, FiniteSetsExt

CONSTANTS
    Bits,       \* bits of a byte
    BaseSize,   \* base_size_
    SizeMax,    \* the largest size_t
    Numbers,    \* the numbers written: [type, width, v]
    Strings,    \* the strings written
    Garbage,    \* bytes a new block may hold
    MaxOps      \* bound: operations

\* What a shift by k bits multiplies or divides by.
Shift[k \in Nat] == IF k = 0 THEN 1 ELSE 2 * Shift[k - 1]

Byte == 0..(Shift[Bits] - 1)
Half == Shift[Bits - 1]        \* 0x80

\* Unsigned numbers are taken modulo 2^(8 * sizeof(T)).
Modulus(width) == Shift[Bits * width]

\* The types and widths there are functions for.
NumberKinds == ({"fixed", "signed"} \X {1, 2, 4, 8}) \cup ({"uint", "int"} \X {4, 8})
Kinds == NumberKinds \cup ({"string"} \X {0, 2, 4, 8})

\* The values of a number's C++ type.
InRange(type, width, v) ==
    IF type \in {"fixed", "uint"} THEN v \in 0..(Modulus(width) - 1)
    ELSE 2 * v \in -Modulus(width)..(Modulus(width) - 1)

ASSUME ByteArrayAssumption ==
    /\ Bits \in Nat \ {0, 1} /\ BaseSize \in Nat \ {0} /\ SizeMax \in Nat /\ BaseSize <= SizeMax
    /\ Garbage \subseteq Byte /\ Garbage # {} /\ MaxOps \in Nat

\* A size_t fits in a u64, and the values handed in are of their types.
ASSUME ValuesAssumption ==
    /\ SizeMax < Modulus(8)
    /\ \A x \in Numbers : /\ <<x.type, x.width>> \in NumberKinds
                          /\ x.v \in Int /\ InRange(x.type, x.width, x.v)
    /\ \A s \in Strings : s \in Seq(Byte) /\ Len(s) <= SizeMax

VARIABLES
    nodes,      \* the chain from root_ to tail_
    capacity, position, size, little_endian,
    given,      \* history: what the last operation was given to write, in two parts
    out,        \* history: the bytes it handed out
    last,       \* history: the last number or string written and where
    ops

vars == <<nodes, capacity, position, size, little_endian, given, out, last, ops>>

Block == [0..(BaseSize - 1) -> Byte]
NewBlocks(n) == [1..n -> [0..(BaseSize - 1) -> Garbage]]
NoItem == [type |-> "none", width |-> 0, v |-> 0, at |-> 0, end |-> 0]

Init ==
    /\ nodes \in NewBlocks(1) /\ capacity = BaseSize /\ position = 0 /\ size = 0
    /\ little_endian = FALSE /\ given = <<>> /\ out = <<>> /\ last = NoItem /\ ops = 0

-----------------------------------------------------------------------------
(* The encodings. *)

\* writeFixed(), readFixed(): the shift of the i-th byte.
Place(width, little, i) == Shift[Bits * (IF little THEN i - 1 ELSE width - i)]

Fixed(width, v, little) ==
    [i \in 1..width |-> ((v % Modulus(width)) \div Place(width, little, i)) % Shift[Bits]]

\* The loops of the read functions: digit by digit, each shifted to its place.
Compose(digits, places) ==
    LET sum[i \in 0..Len(digits)] ==
            IF i = 0 THEN 0 ELSE sum[i - 1] + digits[i] * places[i]
    IN sum[Len(digits)]

FromFixed(s, little) == Compose(s, [i \in DOMAIN s |-> Place(Len(s), little, i)])

\* Mutant: the sign is lost.
EncodeZigzagUnsigned(v, width) == (2 * (v % Modulus(width))) % Modulus(width)

EncodeZigzag(v, width) ==
    LET shifted == (2 * (v % Modulus(width))) % Modulus(width)
    IN IF v < 0 THEN Modulus(width) - 1 - shifted ELSE shifted

\* The bits of a number as a signed one.
Signed(bits, width) == IF 2 * bits >= Modulus(width) THEN bits - Modulus(width) ELSE bits

DecodeZigzag(u, width) ==
    LET half == u \div 2
    IN Signed(IF u % 2 = 1 THEN Modulus(width) - 1 - half ELSE half, width)

\* The most bytes a number can take (5 and 10), and the last of them (0x0f and
\* 0x01).
Groups(width) == (Bits * width + Bits - 2) \div (Bits - 1)
LastGroup(width) == Shift[Bits * width - (Bits - 1) * (Groups(width) - 1)] - 1

\* The shift of the i-th group of a variable-length number.
GroupPlace(i) == Shift[(Bits - 1) * (i - 1)]

\* The loop of writeUint32() and writeUint64() ends with the first group above
\* which nothing is left.
GroupCount(v) == Min({n \in 1..Groups(8) : v < GroupPlace(n + 1)})

\* All groups but the last carry the 0x80 bit.
Varint(v) ==
    LET n == GroupCount(v)
    IN [i \in 1..n |-> ((v \div GroupPlace(i)) % Half) + (IF i < n THEN Half ELSE 0)]

\* A read that failed has consumed bytes all the same.
Bad(used) == [ok |-> FALSE, v |-> 0, used |-> used]
Good(v, used) == [ok |-> TRUE, v |-> v, used |-> used]

\* readUint32(), readUint64() of what is left, one byte at a time.
FromVarint(s, width) ==
    LET G == Groups(width)
        Stop == {i \in DOMAIN s : i <= G /\ (s[i] < Half \/ i = G)}
        i == Min(Stop)
    IN IF Stop = {} THEN Bad(Len(s))
       ELSE IF i = G /\ s[i] > LastGroup(width) THEN Bad(G)
       ELSE Good(Compose([j \in 1..i |-> s[j] % Half], [j \in 1..i |-> GroupPlace(j)]), i)

\* The prefix of a string has width 0 when it is a varint.
LengthPrefix(width, n, little) == IF width = 0 THEN Varint(n) ELSE Fixed(width, n, little)

\* What each write function hands to write(): the length of a string in a call
\* of its own, then the bytes.
Encode(item, little) ==
    [prefix |-> IF item.type = "string" THEN LengthPrefix(item.width, Len(item.v), little) ELSE <<>>,
     body   |-> CASE item.type \in {"fixed", "signed"} -> Fixed(item.width, item.v, little)
                  [] item.type = "uint" -> Varint(item.v)
                  [] item.type = "int"  -> Varint(EncodeZigzag(item.v, item.width))
                  [] item.type \in {"raw", "string"} -> item.v]

ReadFixed(s, width, little) ==
    IF Len(s) < width THEN Bad(0) ELSE Good(FromFixed(SubSeq(s, 1, width), little), width)

\* A length the data cannot satisfy is refused, but the prefix is consumed.
ReadString(s, width, little) ==
    LET n == IF width = 0 THEN FromVarint(s, 8) ELSE ReadFixed(s, width, little)
    IN IF ~n.ok THEN n
       ELSE IF n.v > Len(s) - n.used THEN Bad(n.used)
       ELSE Good(SubSeq(s, n.used + 1, n.used + n.v), n.used + n.v)

\* What each read function makes of the bytes s that can be read.
Decode(type, width, s, little) ==
    CASE type = "fixed"  -> ReadFixed(s, width, little)
      [] type = "signed" -> LET u == ReadFixed(s, width, little)
                            IN IF u.ok THEN Good(Signed(u.v, width), u.used) ELSE u
      [] type = "uint"   -> FromVarint(s, width)
      [] type = "int"    -> LET u == FromVarint(s, width)
                            IN IF u.ok THEN Good(DecodeZigzag(u.v, width), u.used) ELSE u
      [] type = "string" -> ReadString(s, width, little)

-----------------------------------------------------------------------------
(* The chain. *)

\* nodeAt(): the block that holds a position, one past the last if none does.
NodeAt(p) == p \div BaseSize + 1
OffsetAt(p) == p % BaseSize

\* Mutant: the offset into the first block is used in the others too.
SpansSlip(blocks, p, n) ==
    LET done(k) == (k - NodeAt(p)) * (BaseSize - OffsetAt(p))
    IN {[node |-> k, at |-> OffsetAt(p), from |-> done(k),
         len |-> Min({n - done(k), BaseSize - OffsetAt(p)})] :
            k \in {k \in NodeAt(p)..Len(blocks) : done(k) < n}}

\* The loop of read(), write(), getReadBuffers() and getWriteBuffers(): the
\* pieces of n bytes from position p, one for each block it visits, with the
\* bytes done before it.
Spans(blocks, p, n) ==
    LET off(k)  == IF k = NodeAt(p) THEN OffsetAt(p) ELSE 0
        done(k) == IF k = NodeAt(p) THEN 0 ELSE (k - NodeAt(p)) * BaseSize - OffsetAt(p)
    IN {[node |-> k, at |-> off(k), from |-> done(k),
         len |-> Min({n - done(k), BaseSize - off(k)})] :
            k \in {k \in NodeAt(p)..Len(blocks) : done(k) < n}}

\* The i-th byte of a transfer lies in this piece.
Holds(x, i) == i - 1 \in x.from..(x.from + x.len - 1)

\* n bytes from the pieces in order.
Load(blocks, spans, n) ==
    [i \in 1..n |-> LET x == CHOOSE x \in spans : Holds(x, i)
                    IN blocks[x.node][x.at + (i - 1 - x.from)]]

\* The bytes s fill the pieces in order, as far as they go.
Store(blocks, spans, s) ==
    [k \in DOMAIN blocks |-> [o \in 0..(BaseSize - 1) |->
        LET i(x) == x.from + (o - x.at) + 1
            Here == {x \in spans : x.node = k /\ i(x) \in DOMAIN s /\ Holds(x, i(x))}
        IN IF Here = {} THEN blocks[k][o] ELSE s[i(CHOOSE x \in Here : TRUE)]]]

\* addCapacity(): the blocks that are missing, or a length_error.
Missing(p, cap, n) == IF n <= cap - p THEN 0 ELSE (n - (cap - p) + (BaseSize - 1)) \div BaseSize

CanGrow(p, cap, n) == Missing(p, cap, n) <= (SizeMax - cap) \div BaseSize

\* size_ = max(size_, position_)
SizeAt(p) == IF p > size THEN p ELSE size

\* What can be read from p, up to n bytes.
Readable(p, n) == LET m == Min({n, size - p}) IN Load(nodes, Spans(nodes, p, m), m)

\* getWriteBuffers(): where n bytes from the position go.
Writable(blocks, n) == Spans(blocks, position, n)

-----------------------------------------------------------------------------
(* The operations. *)

Step == ops < MaxOps /\ ops' = ops + 1

\* n bytes fit behind p: neither the position nor the capacity overflows.
Fits(p, cap, n) == n <= SizeMax - p /\ CanGrow(p, cap, n)

\* write() of s, after addCapacity() has added blocks.
WriteBytes(s) ==
    \E new \in NewBlocks(Missing(position, capacity, Len(s))) :
        LET blocks == nodes \o new
        IN /\ nodes' = Store(blocks, Spans(blocks, position, Len(s)), s)
           /\ capacity' = capacity + Len(new) * BaseSize
           /\ position' = position + Len(s)
           /\ size' = SizeAt(position + Len(s))

\* The write functions.  When a later write() of the same call throws, what
\* the earlier ones wrote stays.
WriteItem(item) ==
    LET call  == Encode(item, little_endian)
        all   == call.prefix \o call.body
        whole == Fits(position, capacity, Len(all))
        s     == IF whole THEN all
                 ELSE IF Fits(position, capacity, Len(call.prefix)) THEN call.prefix
                 ELSE <<>>
    IN /\ Step /\ WriteBytes(s)
       /\ given' = <<call.prefix, call.body>> /\ out' = <<>> /\ UNCHANGED little_endian
       /\ last' = IF whole /\ item.type # "raw"
                  THEN [type |-> item.type, width |-> item.width, v |-> item.v,
                        at |-> position, end |-> position + Len(all)]
                  ELSE NoItem

WriteNumber == \E x \in Numbers : WriteItem(x)
\* A string that is too long for its prefix is refused.
WriteString ==
    \E s \in Strings, width \in {0, 2, 4, 8} :
        /\ width # 0 => Len(s) < Modulus(width)
        /\ WriteItem([type |-> "string", width |-> width, v |-> s])

\* write(), writeStringWithoutLength(), readFromFile()
WriteRaw == \E s \in Strings : WriteItem([type |-> "raw", width |-> 0, v |-> s])

\* The read functions.
ReadItem ==
    LET s == Readable(position, SizeMax) IN
    /\ Step /\ given' = <<>>
    /\ \E k \in Kinds :
          LET r == Decode(k[1], k[2], s, little_endian)
          IN position' = position + r.used /\ out' = SubSeq(s, 1, r.used)
    /\ UNCHANGED <<nodes, capacity, size, little_endian, last>>

\* read(): all of it or an exception.
ReadRaw ==
    /\ Step /\ given' = <<>>
    /\ \E n \in 0..SizeMax :
          IF n <= size - position
          THEN out' = Readable(position, n) /\ position' = position + n
          ELSE out' = <<>> /\ UNCHANGED position
    /\ UNCHANGED <<nodes, capacity, size, little_endian, last>>

\* read() from another position, which stays; an exception reads nothing.
ReadAt ==
    /\ Step /\ given' = <<>>
    /\ \E p \in 0..size : \E n \in 0..(size - p) : out' = Readable(p, n)
    /\ UNCHANGED <<nodes, capacity, position, size, little_endian, last>>

\* toString() and toHexString()
AsString ==
    /\ Step /\ given' = <<>>
    /\ out' = Readable(position, size - position)
    /\ UNCHANGED <<nodes, capacity, position, size, little_endian, last>>

\* writeToFile() of what can be read: all of it, or as far as the file takes it.
WriteToFile ==
    LET s == Readable(position, SizeMax) IN
    /\ Step /\ given' = <<>>
    /\ \E k \in 0..Len(s) : out' = SubSeq(s, 1, k)
    /\ UNCHANGED <<nodes, capacity, position, size, little_endian, last>>

\* setPosition(): an exception past the capacity.
SetPosition ==
    /\ Step /\ given' = <<>>
    /\ \E p \in 0..capacity : position' = p /\ size' = SizeAt(p)
    /\ out' = <<>>
    /\ UNCHANGED <<nodes, capacity, little_endian, last>>

\* clear(): the first block keeps its bytes.
Clear ==
    /\ Step /\ given' = <<>>
    /\ nodes' = SubSeq(nodes, 1, 1) /\ capacity' = BaseSize /\ position' = 0 /\ size' = 0
    /\ out' = <<>> /\ last' = NoItem /\ UNCHANGED little_endian

SetIsLittleEndian ==
    /\ Step /\ given' = <<>>
    /\ little_endian' = ~little_endian /\ last' = NoItem /\ out' = <<>>
    /\ UNCHANGED <<nodes, capacity, position, size>>

-----------------------------------------------------------------------------
(* SocketStream over the buffers of the chain. *)

\* read(): getWriteBuffers() of the length, k bytes received into them, and the
\* position moves by k.  Nothing received leaves the new blocks in place.
SocketRead ==
    /\ Step
    /\ \E n \in 1..SizeMax, s \in Strings \cup {<<>>} :
          /\ CanGrow(position, capacity, n) /\ Len(s) <= n
          /\ \E new \in NewBlocks(Missing(position, capacity, n)) :
                LET blocks == nodes \o new
                IN /\ nodes' = Store(blocks, Writable(blocks, n), s)
                   /\ capacity' = capacity + Len(new) * BaseSize
          /\ given' = <<<<>>, s>>
          /\ position' = position + Len(s) /\ size' = SizeAt(position + Len(s))
          /\ last' = IF s = <<>> THEN last ELSE NoItem
    /\ out' = <<>> /\ UNCHANGED little_endian

\* write(): getReadBuffers(), of which k bytes are sent.
SocketWrite ==
    /\ Step /\ given' = <<>>
    /\ \E n \in 1..SizeMax :
          LET s == Readable(position, n)
          IN \E k \in 0..Len(s) : /\ out' = SubSeq(s, 1, k)
                                  /\ position' = position + k /\ size' = SizeAt(position + k)
    /\ UNCHANGED <<nodes, capacity, little_endian, last>>

-----------------------------------------------------------------------------

Next ==
    \/ WriteNumber \/ WriteString \/ WriteRaw
    \/ ReadItem \/ ReadRaw \/ ReadAt \/ AsString \/ WriteToFile
    \/ SetPosition \/ Clear \/ SetIsLittleEndian
    \/ SocketRead \/ SocketWrite

Spec == Init /\ [][Next]_vars

-----------------------------------------------------------------------------
(* Properties. *)

TypeOK ==
    /\ nodes \in Seq(Block) /\ capacity = Len(nodes) * BaseSize /\ capacity \in BaseSize..SizeMax
    /\ position \in 0..size /\ size \in 0..capacity /\ little_endian \in BOOLEAN
    /\ ops \in 0..MaxOps

\* The number or string written last is read back from where it was written,
\* in full and nothing more, across the blocks and at the limits of its width.
ReadsBack ==
    last.type # "none" =>
        LET r == Decode(last.type, last.width, Readable(last.at, SizeMax), little_endian)
        IN r = Good(last.v, last.end - last.at)

\* ByteArray is a flat buffer: no operation loses, moves or invents a byte at a
\* block boundary.  A write is whole or changes nothing, but for a string,
\* whose length may stay without its bytes; a failed read moves at most the
\* position.
Flat == [i \in 1..size |-> nodes[(i - 1) \div BaseSize + 1][(i - 1) % BaseSize]]

Buffer == INSTANCE ByteBuffer WITH bytes <- Flat, pos <- position, MaxLen <- SizeMax

Implements == Buffer!Spec
=============================================================================
