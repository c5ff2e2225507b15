------------------------------ MODULE GoKeccak -------------------------------
(***************************************************************************)
(* The batch hashing that Go programs call: go_keccak256x4 of go_wrapper.c *)
(* (and go_keccak256x8 of go_wrapper_avx512.c, which only has more lanes). *)
(* The states of all lanes are permuted by one call, so that the lanes can *)
(* only advance together, whatever the lengths of their inputs.            *)
(*                                                                         *)
(* A byte is the set of the terms added up in it.  A state is the sequence *)
(* of the blocks it had been given at each permutation.                    *)
(***************************************************************************)
EXTENDS SymbolicOutput

CONSTANTS
  Lanes,     \* the number of lanes
  Rate,      \* the block size in bytes: 136
  MaxBlocks, \* bound: whole blocks of an input
  SameBlocks \* the inputs of a batch have equally many whole blocks

ASSUME GoKeccakAssumption ==
  /\ Lanes \in Nat \ {0} /\ Rate \in Nat \ {0} /\ MaxBlocks \in Nat /\ SameBlocks \in BOOLEAN

VARIABLES
  inputs,  \* the slices
  outputs, \* the digests, each as the state it is taken from
  s,       \* the state of each lane: the blocks it was permuted with
  added,   \* the block added to each lane since
  blk,     \* the loop over the blocks: how many have been taken
  lane,    \* the loop over the lanes for the last block
  padded   \* the buffer for the last block

vars == <<inputs, outputs, s, added, blk, lane, padded>>

Lane == 0 .. Lanes - 1

\* The bits of the padding.
StartOfPad == {<<1>>}
EndOfPad == {<<128>>}

ZeroBlock == [k \in 1 .. Rate |-> Zero]

\* Bytes of one slice are like no other: byte k of slice i.
Slice(i, len) == [k \in 1 .. len |-> {<<2, i, k>>}]

Inputs ==
  {[i \in Lane |-> Slice(i, len[i])] : len \in [Lane -> 0 .. MaxBlocks * Rate + Rate - 1]}

\* Mutant: rounds up.
BlocksToo(x) == (Len(x) + Rate - 1) \div Rate

FullBlocks(x) == Len(x) \div Rate

max_full == CHOOSE m \in {FullBlocks(inputs[i]) : i \in Lane} :
              \A i \in Lane : FullBlocks(inputs[i]) <= m

Init ==
  /\ inputs \in Inputs
  /\ SameBlocks => \A i, j \in Lane : FullBlocks(inputs[i]) = FullBlocks(inputs[j])
  /\ outputs = <<>>
  /\ s = [i \in Lane |-> <<>>] /\ added = [i \in Lane |-> ZeroBlock]
  /\ blk = 0 /\ lane = 0 /\ padded = ZeroBlock

\* KeccakP1600times4_PermuteAll_24rounds: every lane, whatever was added to it.
PermuteAll(a) ==
  /\ s' = [i \in Lane |-> Append(s[i], a[i])]
  /\ added' = [i \in Lane |-> ZeroBlock]

\* Mutant: takes the last whole block of a slice for its tail.
HasBlockAfter(x, b) == Len(x) > (b + 1) * Rate

HasBlock(x, b) == Len(x) >= (b + 1) * Rate

\* One whole block of each lane that has one.
AbsorbBlock ==
  /\ blk < max_full
  /\ PermuteAll([i \in Lane |->
       IF HasBlock(inputs[i], blk)
         THEN XorAll(added[i], SubSeq(inputs[i], blk * Rate + 1, (blk + 1) * Rate))
         ELSE added[i]])
  /\ blk' = blk + 1
  /\ UNCHANGED <<inputs, outputs, lane, padded>>

TailOf(i) == Len(inputs[i]) - max_full * Rate

\* Mutant: the buffer is not cleared for the next lane.
NotCleared(p) == p

Cleared(p) == ZeroBlock

\* The last block of a lane.  With a tail below 0 the code writes outside the
\* buffer, and nothing can be said of what follows.
PadLane ==
  LET tail == TailOf(lane)
      p == [k \in 1 .. Rate |->
              IF k <= tail THEN inputs[lane][max_full * Rate + k] ELSE Cleared(padded)[k]]
      q == [[p EXCEPT ![tail + 1] = @ \cup StartOfPad] EXCEPT ![Rate] = @ \cup EndOfPad]
  IN  /\ blk = max_full /\ lane < Lanes /\ tail >= 0
      /\ padded' = q
      /\ added' = [added EXCEPT ![lane] = XorAll(@, q)]
      /\ lane' = lane + 1
      /\ UNCHANGED <<inputs, outputs, s, blk>>

\* The shared last permutation, and the digests.
Extract ==
  /\ lane = Lanes /\ outputs = <<>>
  /\ PermuteAll(added)
  /\ outputs' = [i \in Lane |-> s'[i]]
  /\ UNCHANGED <<inputs, blk, lane, padded>>

Next == AbsorbBlock \/ PadLane \/ Extract

Spec == Init /\ [][Next]_vars /\ WF_vars(Next)

-----------------------------------------------------------------------------
\* Keccak-256: block b, from 0, of the padded message.
KeccakBlock(x, b) ==
  [k \in 1 .. Rate |->
     LET j == b * Rate + k
     IN  (IF j <= Len(x) THEN x[j] ELSE {})
           \cup (IF j = Len(x) + 1 THEN StartOfPad ELSE {})
           \cup (IF j = (FullBlocks(x) + 1) * Rate THEN EndOfPad ELSE {})]

\* The first n blocks of it.
KeccakBlocks(x, n) == [b \in 1 .. n |-> KeccakBlock(x, b - 1)]

\* "all lanes stay in phase regardless of their individual lengths": when the last
\* block is padded, each lane has been permuted for its own blocks and no other.
LanesInPhase ==
  blk = max_full /\ outputs = <<>> =>
    \A i \in Lane : s[i] = KeccakBlocks(inputs[i], FullBlocks(inputs[i]))

\* Every digest is the digest of the slice in its own lane, whatever the others hold.
DigestIsKeccak ==
  outputs # <<>> =>
    \A i \in Lane : outputs[i] = KeccakBlocks(inputs[i], FullBlocks(inputs[i]) + 1)

\* The batch is hashed.
EveryBatchHashed == <>(outputs # <<>>)

=============================================================================
