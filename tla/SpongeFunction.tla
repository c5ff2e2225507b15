--------------------------- MODULE SpongeFunction ---------------------------
(***************************************************************************)
(* The sponge function as the one-shot call Sponge() of KeccakSponge.inc   *)
(* computes it, and the symbolic permutation state it is computed on.      *)
(*                                                                         *)
(* A message byte is its number in the message.  The permutation is a free *)
(* function: its state is the number of permutations applied so far and    *)
(* the set of marks XORed in, a mark <<e, p, s>> standing for symbol s     *)
(* added to byte p of the state between permutations e and e + 1.  XORing  *)
(* a mark twice removes it.  An output byte <<e, p>> is byte p of the      *)
(* state after e permutations.                                             *)
(***************************************************************************)
EXTENDS Integers

Xor(A, B) == (A \ B) \cup (B \ A)

\* The bits of a byte that matter to the padding: its top bit and the rest.
ByteSymbols(v) ==
  {<<"low", b>> : b \in {v % 128} \ {0}} \cup {<<"top", b>> : b \in {v \div 128} \ {0}}

\* SnP_AddByte(state, v, p) after e permutations.
AddByte(e, v, p) == {<<e, p, s>> : s \in ByteSymbols(v)}

-----------------------------------------------------------------------------
(* rb is the rate in bytes, n the length of the message, d the suffix with *)
(* its delimiter bit.                                                      *)

\* Whole blocks, then what remains of the message.
MessageMarks(rb, n) == {<<i \div rb, i % rb, <<"msg", i>>>> : i \in 0 .. n - 1}

\* The permutations applied when the second padding bit is added: one more if
\* the first padding bit is already at the last bit of the block.
PaddingEpoch(rb, n, d) ==
  IF d >= 128 /\ n % rb = rb - 1 THEN n \div rb + 1 ELSE n \div rb

OneShotMarks(rb, n, d) ==
  Xor(Xor(MessageMarks(rb, n), AddByte(n \div rb, d, n % rb)),
      AddByte(PaddingEpoch(rb, n, d), 128, rb - 1))

\* Byte k (from 0) of the output.
OneShotByte(rb, n, d, k) == <<PaddingEpoch(rb, n, d) + 1 + k \div rb, k % rb>>

=============================================================================
