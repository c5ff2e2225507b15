--------------------------- MODULE GoKeccakProofs ---------------------------
(***************************************************************************)
(* For every number of lanes and every rate: when the slices of a batch    *)
(* have equally many whole blocks, each digest is the Keccak digest of the *)
(* slice of its own lane.                                                  *)
(***************************************************************************)
EXTENDS GoKeccak, SequenceTheorems, TLAPS

\* What a batch is: a slice for each lane, and equally many whole blocks.
BatchInv ==
  /\ inputs \in Inputs
  /\ \A i \in Lane : FullBlocks(inputs[i]) = FullBlocks(inputs[0])

\* The loops.
LoopsInv ==
  /\ blk \in 0 .. FullBlocks(inputs[0]) /\ lane \in 0 .. Lanes
  /\ lane > 0 => blk = FullBlocks(inputs[0])
  /\ outputs # <<>> => lane = Lanes

\* Until the last permutation each lane has been permuted with the first blk
\* blocks of its own padded message, and nothing but its last block, once it
\* has been its turn, has been added since.
StatesInv ==
  outputs = <<>> =>
    /\ s = [i \in Lane |-> KeccakBlocks(inputs[i], blk)]
    /\ added = [i \in Lane |-> IF i < lane THEN KeccakBlock(inputs[i], blk) ELSE ZeroBlock]

IInv == BatchInv /\ LoopsInv /\ StatesInv /\ DigestIsKeccak

-----------------------------------------------------------------------------
(* Slices and their blocks.                                                *)

LEMMA Quotient ==
  ASSUME NEW n \in Nat, NEW r \in Nat \ {0}
  PROVE  n \div r \in Nat /\ (n \div r) * r <= n /\ n < (n \div r) * r + r
BY SMT

LEMMA BlockBounds ==
  ASSUME NEW q \in Nat, NEW b \in Nat, b < q, NEW r \in Nat \ {0}
  PROVE  b * r + r <= q * r /\ (b + 1) * r = b * r + r
BY SMT

LEMMA Slices ==
  ASSUME inputs \in Inputs, NEW i \in Lane
  PROVE  inputs[i] \in Seq({inputs[i][k] : k \in DOMAIN inputs[i]})
<1>1. PICK len \in [Lane -> 0 .. MaxBlocks * Rate + Rate - 1] :
           inputs = [j \in Lane |-> Slice(j, len[j])]
  BY DEF Inputs
<1>2. inputs[i] = [k \in 1 .. len[i] |-> {<<2, i, k>>}] /\ len[i] \in Nat
  BY <1>1, GoKeccakAssumption DEF Slice
<1> QED BY <1>2

\* Whether a lane has block b is a matter of how many whole blocks it has.
LEMMA HasBlockIff ==
  ASSUME NEW x, Len(x) \in Nat, NEW b \in Nat
  PROVE  HasBlock(x, b) <=> b < FullBlocks(x)
<1> DEFINE q == Len(x) \div Rate
<1>1. q \in Nat /\ q * Rate <= Len(x) /\ Len(x) < q * Rate + Rate
  BY Quotient, GoKeccakAssumption
<1> HIDE DEF q
<1>2. CASE b < q
  BY <1>1, <1>2, BlockBounds, GoKeccakAssumption DEF HasBlock, FullBlocks, q
<1>3. CASE ~(b < q)
  <2>1. q * Rate + Rate <= (b + 1) * Rate
    <3>1. CASE q = b
      BY <3>1, <1>1, GoKeccakAssumption
    <3>2. CASE q < b
      <4>1. q * Rate + Rate <= b * Rate
        BY <1>1, <3>2, BlockBounds, GoKeccakAssumption
      <4> QED BY <4>1, <1>1, GoKeccakAssumption
    <3> QED BY <1>1, <1>3, <3>1, <3>2
  <2> QED BY <1>1, <1>3, <2>1, GoKeccakAssumption DEF HasBlock, FullBlocks, q
<1> QED BY <1>2, <1>3

\* A whole block of a slice is that block of the padded message.
LEMMA WholeBlock ==
  ASSUME NEW S, NEW x \in Seq(S), NEW b \in Nat, b < FullBlocks(x)
  PROVE  XorAll(ZeroBlock, SubSeq(x, b * Rate + 1, (b + 1) * Rate)) = KeccakBlock(x, b)
<1> DEFINE q == FullBlocks(x)
<1>1. q \in Nat /\ q * Rate <= Len(x) /\ Len(x) < q * Rate + Rate /\ Rate \in Nat \ {0}
  BY Quotient, GoKeccakAssumption DEF FullBlocks
<1>2. b * Rate + Rate <= q * Rate /\ (b + 1) * Rate = b * Rate + Rate
      /\ (q + 1) * Rate = q * Rate + Rate /\ b * Rate \in Nat /\ q * Rate \in Nat
  BY <1>1, BlockBounds
<1> DEFINE o == b * Rate
           e == q * Rate
<1> HIDE DEF q, o, e
<1>3. ASSUME NEW k \in 1 .. Rate
      PROVE  SubSeq(x, o + 1, o + Rate)[k] = x[o + k] /\ o + k <= Len(x)
             /\ o + k # Len(x) + 1 /\ o + k # e + Rate
  BY <1>1, <1>2 DEF o, e
<1>4. SubSeq(x, b * Rate + 1, (b + 1) * Rate) = SubSeq(x, o + 1, o + Rate)
  BY <1>2 DEF o
<1>5. KeccakBlock(x, b) = [k \in 1 .. Rate |->
         (IF o + k <= Len(x) THEN x[o + k] ELSE {})
           \cup (IF o + k = Len(x) + 1 THEN StartOfPad ELSE {})
           \cup (IF o + k = e + Rate THEN EndOfPad ELSE {})]
  BY <1>2 DEF KeccakBlock, o, e, q
<1>6. KeccakBlock(x, b) = [k \in 1 .. Rate |-> x[o + k]]
  BY <1>3, <1>5
<1>7. XorAll(ZeroBlock, SubSeq(x, o + 1, o + Rate)) =
        [k \in 1 .. Rate |-> Xor({}, SubSeq(x, o + 1, o + Rate)[k])]
  BY DEF XorAll, ZeroBlock, Zero
<1>8. \A a : Xor({}, a) = a
  BY DEF Xor
<1>9. \A k \in 1 .. Rate : Xor({}, SubSeq(x, o + 1, o + Rate)[k]) = x[o + k]
  BY <1>3, <1>8
<1> QED BY <1>4, <1>6, <1>7, <1>9

\* The buffer of PadLane, for the slice x: the bytes left, then the padding.
TailLength(x) == Len(x) - FullBlocks(x) * Rate
TailBuffer(x) ==
  [k \in 1 .. Rate |-> IF k <= TailLength(x) THEN x[FullBlocks(x) * Rate + k] ELSE {}]
PaddedBuffer(x) ==
  [[TailBuffer(x) EXCEPT ![TailLength(x) + 1] = @ \cup StartOfPad]
     EXCEPT ![Rate] = @ \cup EndOfPad]

\* Added to a block of zeroes, it is the last block of the padded message.
LEMMA LastBlock ==
  ASSUME NEW S, NEW x \in Seq(S)
  PROVE  XorAll(ZeroBlock, PaddedBuffer(x)) = KeccakBlock(x, FullBlocks(x))
<1> DEFINE q == FullBlocks(x)
           e == q * Rate
           t == TailLength(x)
           p == TailBuffer(x)
           y == PaddedBuffer(x)
<1>1. q \in Nat /\ e <= Len(x) /\ Len(x) < e + Rate /\ Rate \in Nat \ {0}
  <2>1. Len(x) \in Nat
    OBVIOUS
  <2> QED BY ONLY <2>1, Quotient, GoKeccakAssumption DEF FullBlocks
<1>2. e \in Nat /\ (q + 1) * Rate = e + Rate
  BY <1>1
<1> HIDE DEF q, e, t, p, y
<1>3. t \in 0 .. Rate - 1 /\ Len(x) = e + t
  <2>1. t = Len(x) - e
    BY DEF q, e, t, TailLength
  <2>2. Len(x) \in Nat
    OBVIOUS
  <2> QED BY <1>1, <1>2, <2>1, <2>2
<1>4. p = [k \in 1 .. Rate |-> IF k <= t THEN x[e + k] ELSE {}]
  BY DEF q, e, t, p, TailBuffer, TailLength
<1>5. KeccakBlock(x, q) = [k \in 1 .. Rate |->
         (IF e + k <= Len(x) THEN x[e + k] ELSE {})
           \cup (IF e + k = Len(x) + 1 THEN StartOfPad ELSE {})
           \cup (IF e + k = e + Rate THEN EndOfPad ELSE {})]
  BY <1>2 DEF KeccakBlock, q, e
<1>6. y = [k \in 1 .. Rate |->
             p[k] \cup (IF k = t + 1 THEN StartOfPad ELSE {})
                  \cup (IF k = Rate THEN EndOfPad ELSE {})]
  <2>1. DOMAIN p = 1 .. Rate
    BY <1>4
  <2>2. [p EXCEPT ![t + 1] = @ \cup StartOfPad] =
          [k \in 1 .. Rate |-> p[k] \cup (IF k = t + 1 THEN StartOfPad ELSE {})]
    BY <1>3, <1>1, <2>1, <1>4
  <2>3. y = [[p EXCEPT ![t + 1] = @ \cup StartOfPad] EXCEPT ![Rate] = @ \cup EndOfPad]
    BY DEF y, t, p, PaddedBuffer
  <2> DEFINE g == [k \in 1 .. Rate |-> p[k] \cup (IF k = t + 1 THEN StartOfPad ELSE {})]
  <2>4. y = [g EXCEPT ![Rate] = @ \cup EndOfPad]
    BY <2>2, <2>3
  <2>5. Rate \in 1 .. Rate
    BY <1>1
  <2>6. [g EXCEPT ![Rate] = @ \cup EndOfPad]
          = [k \in 1 .. Rate |-> g[k] \cup (IF k = Rate THEN EndOfPad ELSE {})]
    BY <2>5
  <2> QED BY <2>4, <2>6
<1>7. \A k \in 1 .. Rate : /\ e + k <= Len(x) <=> k <= t
                           /\ e + k = Len(x) + 1 <=> k = t + 1
                           /\ e + k = e + Rate <=> k = Rate
  <2> TAKE k \in 1 .. Rate
  <2>1. e \in Nat /\ Rate \in Nat /\ k \in Nat /\ t \in Nat
    BY <1>1, <1>2, <1>3
  <2> QED BY ONLY <1>3, <2>1
<1>8. y = KeccakBlock(x, q)
  BY <1>4, <1>5, <1>6, <1>7
<1>9. \A a : Xor({}, a) = a
  BY DEF Xor
<1>10. XorAll(ZeroBlock, y) = [k \in 1 .. Rate |-> Xor({}, y[k])]
  BY DEF XorAll, ZeroBlock, Zero
<1>11. XorAll(ZeroBlock, y) = y
  BY ONLY <1>6, <1>9, <1>10
<1> QED BY <1>8, <1>11 DEF y, q

\* One more permutation, with the next block.
LEMMA NextKeccakBlock ==
  ASSUME NEW x, NEW n \in Nat
  PROVE  Append(KeccakBlocks(x, n), KeccakBlock(x, n)) = KeccakBlocks(x, n + 1)
<1> DEFINE old == KeccakBlocks(x, n)
           new == KeccakBlock(x, n)
<1>1. old = [b \in 1 .. n |-> KeccakBlock(x, b - 1)]
  BY DEF KeccakBlocks
<1>2. KeccakBlocks(x, n + 1) = [b \in 1 .. n + 1 |-> KeccakBlock(x, b - 1)]
  BY DEF KeccakBlocks
<1> DEFINE S == {KeccakBlock(x, b) : b \in Nat}
<1>3. old \in Seq(S) /\ Len(old) = n /\ new \in S
  <2>1. \A b \in 1 .. n : KeccakBlock(x, b - 1) \in S
    OBVIOUS
  <2> HIDE DEF S
  <2> QED BY <1>1, <2>1 DEF S
<1> HIDE DEF old, S
<1>4. Append(old, new) = [b \in 1 .. n + 1 |-> IF b = n + 1 THEN new ELSE old[b]]
  <2> DEFINE longer == Append(old, new)
  <2>1. longer \in Seq(S) /\ Len(longer) = n + 1 /\ longer[n + 1] = new
        /\ \A b \in 1 .. n : longer[b] = old[b]
    BY <1>3, AppendProperties
  <2> HIDE DEF longer
  <2>2. longer = [b \in 1 .. n + 1 |-> longer[b]]
    BY <2>1, LenProperties
  <2>3. \A b \in 1 .. n + 1 : longer[b] = IF b = n + 1 THEN new ELSE old[b]
    BY <2>1
  <2> QED BY <2>2, <2>3 DEF longer
<1>5. \A b \in 1 .. n + 1 : (IF b = n + 1 THEN new ELSE old[b]) = KeccakBlock(x, b - 1)
  <2> TAKE b \in 1 .. n + 1
  <2>1. CASE b = n + 1
    <3>1. b - 1 = n
      BY <2>1
    <3> QED BY <2>1, <3>1
  <2>2. CASE b # n + 1
    <3>1. b \in 1 .. n
      BY <2>2
    <3> QED BY <1>1, <2>2, <3>1
  <2> QED BY <2>1, <2>2
<1> QED BY <1>2, <1>4, <1>5 DEF old

\* The largest number of whole blocks is everyone's.
LEMMA MaxFull ==
  ASSUME BatchInv
  PROVE  max_full = FullBlocks(inputs[0]) /\ FullBlocks(inputs[0]) \in Nat
<1>1. 0 \in Lane
  BY GoKeccakAssumption DEF Lane
<1>2. FullBlocks(inputs[0]) \in Nat
  <2>1. inputs[0] \in Seq({inputs[0][k] : k \in DOMAIN inputs[0]})
    BY <1>1, Slices DEF BatchInv
  <2>2. Len(inputs[0]) \in Nat
    BY <2>1, LenProperties
  <2> QED BY <2>2, Quotient, GoKeccakAssumption DEF FullBlocks
<1>3. {FullBlocks(inputs[i]) : i \in Lane} = {FullBlocks(inputs[0])}
  BY <1>1 DEF BatchInv
<1> QED BY <1>2, <1>3 DEF max_full

-----------------------------------------------------------------------------
LEMMA InitIInv == SameBlocks /\ Init => IInv
<1> SUFFICES ASSUME SameBlocks, Init PROVE IInv
  OBVIOUS
<1>1. 0 \in Lane
  BY GoKeccakAssumption DEF Lane
<1>2. BatchInv
  BY <1>1 DEF Init, BatchInv
<1>3. LoopsInv
  BY <1>2, MaxFull, GoKeccakAssumption DEF Init, LoopsInv
<1>4. \A x : KeccakBlocks(x, 0) = <<>>
  BY DEF KeccakBlocks
<1>5. StatesInv
  BY <1>4 DEF Init, StatesInv, Lane
<1> QED BY <1>2, <1>3, <1>5 DEF Init, IInv, DigestIsKeccak

LEMMA NextIInv == IInv /\ [Next]_vars => IInv'
<1> SUFFICES ASSUME IInv, [Next]_vars PROVE IInv'
  OBVIOUS
<1> DEFINE F == FullBlocks(inputs[0])
<1>1. max_full = F /\ F \in Nat /\ blk \in 0 .. F /\ lane \in 0 .. Lanes
  BY MaxFull DEF IInv, LoopsInv
<1>2. \A i \in Lane : FullBlocks(inputs[i]) = F
  BY DEF IInv, BatchInv
<1>3. \A i \in Lane : inputs[i] \in Seq({inputs[i][k] : k \in DOMAIN inputs[i]})
  BY Slices DEF IInv, BatchInv
<1>4. Lanes \in Nat \ {0} /\ 0 \in Lane
  BY GoKeccakAssumption DEF Lane
<1>5. ASSUME inputs' = inputs PROVE BatchInv'
  BY <1>5 DEF IInv, BatchInv
<1> HIDE DEF F
<1>6. CASE AbsorbBlock
  <2>1. blk < F /\ blk' = blk + 1 /\ lane = 0 /\ outputs = <<>>
        /\ UNCHANGED <<inputs, outputs, lane>>
    BY <1>1, <1>4, <1>6 DEF AbsorbBlock, IInv, LoopsInv, F
  <2>2. LoopsInv'
    BY <1>1, <1>4, <2>1 DEF LoopsInv, F
  <2>3. ASSUME NEW i \in Lane PROVE HasBlock(inputs[i], blk)
    <3>1. Len(inputs[i]) \in Nat
      BY <1>3, LenProperties
    <3> QED BY <1>1, <1>2, <2>1, <3>1, HasBlockIff
  <2>4. added = [i \in Lane |-> ZeroBlock]
    BY <2>1 DEF IInv, StatesInv, Lane
  <2>5. ASSUME NEW i \in Lane
        PROVE  XorAll(added[i], SubSeq(inputs[i], blk * Rate + 1, (blk + 1) * Rate))
                 = KeccakBlock(inputs[i], blk)
    <3>1. inputs[i] \in Seq({inputs[i][k] : k \in DOMAIN inputs[i]})
          /\ blk \in Nat /\ blk < FullBlocks(inputs[i])
      BY <1>1, <1>2, <1>3, <2>1
    <3>2. added[i] = ZeroBlock
      BY <2>4
    <3> QED BY ONLY <3>1, <3>2, WholeBlock
  <2>6. s' = [i \in Lane |-> Append(s[i], KeccakBlock(inputs[i], blk))]
    BY <1>6, <2>3, <2>5 DEF AbsorbBlock, PermuteAll
  <2>7. s' = [i \in Lane |-> KeccakBlocks(inputs[i], blk + 1)]
    <3>1. ASSUME NEW i \in Lane
          PROVE  Append(s[i], KeccakBlock(inputs[i], blk)) = KeccakBlocks(inputs[i], blk + 1)
      <4>1. s[i] = KeccakBlocks(inputs[i], blk)
        BY <2>1 DEF IInv, StatesInv
      <4>2. blk \in Nat
        BY <1>1
      <4> QED BY ONLY <4>1, <4>2, NextKeccakBlock
    <3> QED BY <2>6, <3>1
  <2>8. added' = [i \in Lane |-> ZeroBlock]
    BY <1>6 DEF AbsorbBlock, PermuteAll
  <2>9. StatesInv'
    BY <2>1, <2>7, <2>8 DEF StatesInv, Lane
  <2> QED BY <1>5, <2>1, <2>2, <2>9 DEF IInv, DigestIsKeccak
<1>7. CASE PadLane
  <2> DEFINE x == inputs[lane]
  <2>1. blk = F /\ lane \in Lane /\ lane' = lane + 1 /\ outputs = <<>>
        /\ UNCHANGED <<inputs, outputs, s, blk>>
    BY <1>1, <1>4, <1>7 DEF PadLane, IInv, LoopsInv, Lane
  <2>2. TailOf(lane) = TailLength(x) /\ FullBlocks(x) = max_full
    BY <1>1, <1>2, <2>1 DEF TailOf, TailLength
  <2>3. added' = [added EXCEPT ![lane] = XorAll(@, PaddedBuffer(x))]
    <3>1. [k \in 1 .. Rate |-> IF k <= TailOf(lane) THEN inputs[lane][max_full * Rate + k]
                                ELSE Cleared(padded)[k]] = TailBuffer(x)
      BY <2>2 DEF TailBuffer, Cleared, ZeroBlock, Zero
    <3> HIDE DEF x
    <3> QED BY <1>7, <2>2, <3>1 DEF PadLane, PaddedBuffer
  <2>4. XorAll(ZeroBlock, PaddedBuffer(x)) = KeccakBlock(x, FullBlocks(x))
    <3>1. x \in Seq({x[k] : k \in DOMAIN x})
      BY <1>3, <2>1
    <3> HIDE DEF x
    <3> QED BY ONLY <3>1, LastBlock
  <2>5. LoopsInv'
    BY <1>1, <1>4, <2>1 DEF LoopsInv, F, Lane
  <2>6. added = [i \in Lane |-> IF i < lane THEN KeccakBlock(inputs[i], blk) ELSE ZeroBlock]
    BY <2>1 DEF IInv, StatesInv
  <2>7. added[lane] = ZeroBlock
    BY <1>1, <2>1, <2>6
  <2>8. added' = [i \in Lane |-> IF i < lane' THEN KeccakBlock(inputs[i], blk) ELSE ZeroBlock]
    <3>1. XorAll(added[lane], PaddedBuffer(x)) = KeccakBlock(inputs[lane], blk)
      BY <1>1, <1>2, <2>1, <2>4, <2>7
    <3>2. added' = [i \in Lane |-> IF i = lane THEN KeccakBlock(inputs[lane], blk) ELSE added[i]]
      BY <2>3, <2>6, <3>1
    <3>3. \A i \in Lane : i < lane' <=> i < lane \/ i = lane
      BY <2>1 DEF Lane
    <3> QED BY <2>6, <3>2, <3>3
  <2>9. StatesInv'
    BY <2>1, <2>8 DEF IInv, StatesInv
  <2> QED BY <1>5, <2>1, <2>5, <2>9 DEF IInv, DigestIsKeccak
<1>8. CASE Extract
  <2>1. lane = Lanes /\ blk = F /\ outputs = <<>> /\ outputs' = [i \in Lane |-> s'[i]]
        /\ UNCHANGED <<inputs, blk, lane>> /\ s' = [i \in Lane |-> Append(s[i], added[i])]
    BY <1>1, <1>4, <1>8 DEF Extract, PermuteAll, IInv, LoopsInv, F
  <2>2. outputs' # <<>>
    BY <1>4, <2>1
  <2>3. \A i \in Lane : added[i] = KeccakBlock(inputs[i], F)
                        /\ s[i] = KeccakBlocks(inputs[i], F)
    BY <1>4, <2>1 DEF IInv, StatesInv, Lane
  <2>4. \A i \in Lane : outputs'[i] = KeccakBlocks(inputs[i], F + 1)
    BY <1>1, <2>1, <2>3, NextKeccakBlock
  <2>5. DigestIsKeccak'
    BY <1>2, <2>1, <2>4 DEF DigestIsKeccak
  <2>6. LoopsInv' /\ StatesInv'
    BY <1>1, <1>4, <2>1, <2>2 DEF LoopsInv, StatesInv, F
  <2> QED BY <1>5, <2>1, <2>5, <2>6 DEF IInv
<1>9. CASE UNCHANGED vars
  <2>1. BatchInv'
    BY <1>5, <1>9 DEF vars
  <2>2. LoopsInv' /\ StatesInv' /\ DigestIsKeccak'
    BY <1>9 DEF vars, IInv, LoopsInv, StatesInv, DigestIsKeccak, ZeroBlock
  <2> QED BY <2>1, <2>2 DEF IInv
<1> QED BY <1>6, <1>7, <1>8, <1>9 DEF Next

LEMMA Invariance == SameBlocks /\ Spec => []IInv
<1>1. SameBlocks /\ Init => IInv
  BY InitIInv
<1> QED BY <1>1, NextIInv, PTL DEF Spec

-----------------------------------------------------------------------------
\* When the last blocks are padded each lane has been permuted for its own
\* whole blocks and no other, if the slices have equally many.
THEOREM LanesStayInPhase == SameBlocks /\ Spec => []LanesInPhase
<1>1. IInv => LanesInPhase
  <2> SUFFICES ASSUME IInv, blk = max_full, outputs = <<>>, NEW i \in Lane
               PROVE  s[i] = KeccakBlocks(inputs[i], FullBlocks(inputs[i]))
    BY DEF LanesInPhase
  <2>1. max_full = FullBlocks(inputs[i])
    BY MaxFull DEF IInv, BatchInv
  <2> QED BY <2>1 DEF IInv, StatesInv
<1> QED BY <1>1, Invariance, PTL

\* Every digest is the digest of the slice of its own lane.
THEOREM EveryDigestIsKeccak == SameBlocks /\ Spec => []DigestIsKeccak
<1>1. IInv => DigestIsKeccak
  BY DEF IInv
<1> QED BY <1>1, Invariance, PTL
=============================================================================
