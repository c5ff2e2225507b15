--------------------------- MODULE SymbolicOutput ----------------------------
(***************************************************************************)
(* What a keyed permutation or a deck function gives, as symbols.  A unit  *)
(* of data (a byte, or a bit) is the set of the terms added up in it       *)
(* modulo 2, so that adding is the symmetric difference and a unit added   *)
(* twice is gone.  A term is a unit of input, <<n>>, or the unit at place  *)
(* i of the output from state s, <<s, i>>: outputs from different states,  *)
(* or at different places, are different and have nothing in common.       *)
(***************************************************************************)
EXTENDS Integers, SequencesExt

\* The units of input, as terms.
InputTerms == [1 .. 1 -> Nat]

Zero == {}
One == {<<1>>}

Xor(a, b) == (a \ b) \cup (b \ a)

XorAll(x, y) == [i \in DOMAIN x |-> Xor(x[i], y[i])]

\* n units of the output from state s, from place o on.
OutputFrom(s, o, n) == [i \in 1 .. n |-> {<<s, o + i - 1>>}]

\* Output of an earlier state, or of this one, as the place where it comes from.
Backward(s, t) == IF Len(t) = 2 /\ IsPrefix(t[1], s) THEN <<Len(t[1]), t[2], 0>> ELSE t

\* A state is the sequence of what it has absorbed.  Output of an earlier state
\* is absorbed as the place where it comes from, to keep the terms small.
Absorbed(s, x) == [i \in DOMAIN x |-> {Backward(s, t) : t \in x[i]}]

\* The states whose output is in unit x, with the place in it.
Places(x) == {t \in x : Len(t) = 2}

=============================================================================
