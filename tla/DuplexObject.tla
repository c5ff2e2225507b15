---------------------------- MODULE DuplexObject ----------------------------
(***************************************************************************)
(* The duplex object of KeccakDuplex.inc as a value: its fields, and what  *)
(* each function accepts and computes.  Duplex drives one from an          *)
(* arbitrary caller, SpongePRG builds a generator on top of one.           *)
(*                                                                         *)
(* A byte of the state is the set of the symbols XORed together in it:     *)
(* <<"out", e, p>>, byte p of what permutation e left, <<"in", i>>, input  *)
(* byte i of the caller, and <<"bit", k>>, bit k alone.  The zero byte is  *)
(* the empty set, and byte p of the initial state is <<"out", 0, p>>.      *)
(* A function that returns 1 leaves the object alone: its guard below is   *)
(* false.                                                                  *)
(***************************************************************************)
EXTENDS Integers, Sequences

CONSTANT Width    \* SnP_width, in bits

ASSUME DuplexWidth == Width \in Nat /\ Width % 8 = 0

Offsets == 0 .. Width \div 8 - 1

Xor(A, B) == (A \ B) \cup (B \ A)

LesserOf(a, b) == IF a <= b THEN a ELSE b

\* The positions of the bits that are set in the byte v.
BitsOf(v) == {k \in 0 .. 7 : (v \div 2^k) % 2 = 1}

Zeroes(n) == [i \in 1 .. n |-> {}]

\* The state permutation e leaves.
Permuted(e) == [p \in Offsets |-> {<<"out", e, p>>}]

-----------------------------------------------------------------------------
ValidRate(r, c) == r + c = Width /\ r > 2 /\ r <= Width

\* No further output can be taken before a first call to Duplexing().
NewDuplex(r) ==
  [rate |-> r, byteInputIndex |-> 0, byteOutputIndex |-> (r + 7) \div 8,
   perms |-> 0, state |-> Permuted(0)]

RhoMax(D) == D.rate - 2

\* The rate rounded up to a byte.
RateBytes(D) == (D.rate + 7) \div 8

\* Whether n more input bytes can be queued.
Fits(D, n) ==
  /\ n <= RhoMax(D) \div 8
  /\ 8 * (D.byteInputIndex + n) <= RhoMax(D)

\* Mutant: writes at the start of the state, whatever is queued there.
AddInputFromStart(D, data) ==
  [D EXCEPT
     !.state = [p \in Offsets |->
        IF p \in 0 .. Len(data) - 1 THEN Xor(@[p], data[p + 1]) ELSE @[p]],
     !.byteInputIndex = @ + Len(data)]

\* data is bytes to be XORed, or to be written, from byteInputIndex on.
AddInput(D, data) ==
  [D EXCEPT
     !.state = [p \in Offsets |->
        IF p - D.byteInputIndex \in 0 .. Len(data) - 1
          THEN Xor(@[p], data[p - D.byteInputIndex + 1]) ELSE @[p]],
     !.byteInputIndex = @ + Len(data)]

OverwriteInput(D, data) ==
  [D EXCEPT
     !.state = [p \in Offsets |->
        IF p - D.byteInputIndex \in 0 .. Len(data) - 1
          THEN data[p - D.byteInputIndex + 1] ELSE @[p]],
     !.byteInputIndex = @ + Len(data)]

\* DuplexingOverwriteWithZeroes starts from the first byte of the state.
CanOverwriteWithZeroes(D, n) == Fits(D, n) /\ D.byteInputIndex = 0

-----------------------------------------------------------------------------
\* The delimited last bits d leave room for the second bit of padding, as the
\* code counts it.
DelimiterFits(D, n, d) ==
  RhoMax(D) - 8 * n < 7 => d < 2^(RhoMax(D) - 8 * n + 1)

CanDuplex(D, n, z, d) ==
  /\ d # 0
  /\ Fits(D, n)
  /\ DelimiterFits(D, n, d)
  /\ z <= RateBytes(D)

\* The state Duplexing() permutes: what is queued, the delimited last bits and
\* the second bit of padding.
PaddedState(D, data, d) ==
  LET Q == AddInput(D, data)
      AddBits(s, p, B) == [s EXCEPT ![p] = Xor(@, {<<"bit", k>> : k \in B})]
  IN  AddBits(AddBits(Q.state, Q.byteInputIndex, BitsOf(d)),
              (D.rate - 1) \div 8, {(D.rate - 1) % 8})

\* Mutant: leaves the input index where the queued input ended.
AfterDuplexingNoReset(D, z) ==
  [D EXCEPT !.state = Permuted(D.perms + 1), !.perms = @ + 1, !.byteOutputIndex = z]

\* The object after Duplexing() has permuted it and given out z bytes.
AfterDuplexing(D, z) ==
  [D EXCEPT !.state = Permuted(D.perms + 1), !.perms = @ + 1,
            !.byteInputIndex = 0, !.byteOutputIndex = z]

-----------------------------------------------------------------------------
\* Mutant: gives out the whole byte that the end of the rate cuts.
WholeByte(D, p) == 8

\* How many bits of byte p are given out: the last byte is masked when the
\* rate is not a whole number of bytes.
BitsGiven(D, p) == IF 8 * (p + 1) > D.rate THEN D.rate % 8 ELSE 8

\* The n bytes of the state from byte offset "from" on, as they are given out.
Output(D, from, n) ==
  [i \in 1 .. n |-> [byte |-> D.state[from + i - 1], bits |-> BitsGiven(D, from + i - 1)]]

CanGetFurther(D, n) == n <= RateBytes(D) - D.byteOutputIndex

\* Mutant: does not remember what has been given out.
FurtherAgain(D, n) == D

AfterFurther(D, n) == [D EXCEPT !.byteOutputIndex = @ + n]

=============================================================================
