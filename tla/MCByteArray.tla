---------------------------- MODULE MCByteArray ----------------------------
(* Small instances of ByteArray for TLC. *)
EXTENDS ByteArray
Number(type, width, v) == [type |-> type, width |-> width, v |-> v]
\* The ends of the ranges, and the first number that takes two bytes.
MCNumbers == {Number("fixed", 1, 5), Number("fixed", 2, 34), Number("signed", 2, -1),
              Number("uint", 4, Half - 1), Number("uint", 4, Half), Number("uint", 4, Modulus(4) - 1),
              Number("int", 4, -(Modulus(4) \div 2)), Number("int", 8, 1)}
MCStrings == {<<>>, <<6>>, <<1, 7>>}
=============================================================================
