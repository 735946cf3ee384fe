----------------------------- MODULE BitPatcher -----------------------------
(***************************************************************************)
(* A 32-bit instruction word and the fields the encoders patch into it     *)
(* (BitPatcher.cpp).  A word is the set of the positions of its one bits,  *)
(* so that all 32 bits are kept without an integer wider than TLC's.       *)
(***************************************************************************)
EXTENDS Integers, FiniteSets, FiniteSetsExt

\* The one bits of the low n bits of v, two's complement, moved up by start.
BitOf(v, j) == IF j >= 31 THEN v < 0 ELSE (v \div 2^j) % 2 = 1
BitsAt(v, start, n) == {start + i : i \in {j \in 0..(n-1) : BitOf(v, j)}}

\* A base opcode, given by the two halves of its hexadecimal constant.
Word(hi, lo) == BitsAt(hi, 16, 16) \cup BitsAt(lo, 0, 16)

\* The value that the n bits of w from start hold, unsigned and signed.
Field(w, start, n) == MapThenSumSet(LAMBDA i : 2^(i - start), w \cap (start..(start+n-1)))
SignedField(w, start, n) ==
    Field(w, start, n) - (IF start + n - 1 \in w THEN 2^n ELSE 0)

\* patch: the field is cleared, and the value, masked to the field, is or-ed
\* in.  A bad field throws; no encoder passes one.
patch(w, value, start, num) ==
    (w \ (start..(start+num-1))) \cup BitsAt(value, start, num)
=============================================================================
