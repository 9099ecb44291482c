------------------------------- MODULE Bytes -------------------------------
(***************************************************************************)
(* Byte strings as the codecs use them: sequences of 0..255, with the      *)
(* offsets of the code, which count from zero.  An Option is a set with at *)
(* most one element.                                                       *)
(***************************************************************************)
EXTENDS Integers, Sequences

At(b, i) == b[i + 1]
Slice(b, from, to) == SubSeq(b, from + 1, to)
From(b, i) == Slice(b, i, Len(b))

Be16(n) == <<(n \div 256) % 256, n % 256>>
FromBe16(b, i) == 256 * At(b, i) + At(b, i + 1)

\* The bit with the value v.
HasBit(byte, v) == (byte \div v) % 2 = 1

Zeros(n) == [i \in 1..n |-> 0]
=============================================================================
