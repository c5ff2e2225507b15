--------------------------- MODULE KeccakPlain64 ---------------------------
(***************************************************************************)
(* KeccakP-1600/plain-64bits: one state of 25 lanes of 64 bits, with the   *)
(* unrolled rounds of KeccakP-1600-64.macros.  The column parities of the  *)
(* next round are prepared while the lanes of this one are made, and the   *)
(* round reads the lanes in the order of pi (see KeccakRounds).            *)
(*                                                                         *)
(* With UseBebigokimisa the lanes be, bi, go, ki, mi and sa are kept       *)
(* complemented, in memory too, which saves most of the complements of     *)
(* chi: every access to a complemented lane must undo it.                  *)
(***************************************************************************)
EXTENDS KeccakRounds

CONSTANT UseBebigokimisa   \* KeccakP1600_plain64_useLaneComplementing

LOCAL Compl(a) == Not(64, a)

\* The lanes that the code names be, bi, go, ki, mi and sa.
Complemented == IF UseBebigokimisa THEN {1, 2, 8, 12, 17, 20} ELSE {}
Kept(l, lane) == IF l \in Complemented THEN Compl(lane) ELSE lane

\* chi of the rows b, g, k, m and s under the lane complementing pattern.
chiBebigokimisa(row, R) ==
    LET B0 == R[0] B1 == R[1] B2 == R[2] B3 == R[3] B4 == R[4]
        E == CASE row = 0 -> << Xor(B0, Or(B1, B2)), Xor(B1, Or(Compl(B2), B3)),
                                Xor(B2, And(B3, B4)), Xor(B3, Or(B4, B0)), Xor(B4, And(B0, B1)) >>
               [] row = 1 -> << Xor(B0, Or(B1, B2)), Xor(B1, And(B2, B3)),
                                Xor(B2, Or(B3, Compl(B4))), Xor(B3, Or(B4, B0)),
                                Xor(B4, And(B0, B1)) >>
               [] row = 2 -> << Xor(B0, Or(B1, B2)), Xor(B1, And(B2, B3)),
                                Xor(B2, And(Compl(B3), B4)), Xor(Compl(B3), Or(B4, B0)),
                                Xor(B4, And(B0, B1)) >>
               [] row = 3 -> << Xor(B0, And(B1, B2)), Xor(B1, Or(B2, B3)),
                                Xor(B2, Or(Compl(B3), B4)), Xor(Compl(B3), And(B4, B0)),
                                Xor(B4, Or(B0, B1)) >>
               [] row = 4 -> << Xor(B0, And(Compl(B1), B2)), Xor(Compl(B1), Or(B2, B3)),
                                Xor(B2, And(B3, B4)), Xor(B3, Or(B4, B0)),
                                Xor(B4, And(B0, B1)) >>
    IN  [x \in 0..4 |-> E[x + 1]]

Chi(row, R) == IF UseBebigokimisa THEN chiBebigokimisa(row, R) ELSE chi(row, R)

LOCAL RoundAndTheta(i, A, C) == thetaRhoPiChiIotaPrepareTheta(Chi, 1, i, A, C)
LOCAL Round(i, A, C)         == thetaRhoPiChiIota(Chi, 1, i, A, C)

Permute_Nrounds(A, nr) == roundsN(prepareTheta, RoundAndTheta, nr, A)
Permute_12rounds(A)    == rounds12(prepareTheta, RoundAndTheta, Round, A)
Permute_24rounds(A)    == rounds24(prepareTheta, RoundAndTheta, Round, A)

----------------------------------------------------------------------------
(***************************************************************************)
(* Access to the state.                                                    *)
(***************************************************************************)
Initialize == [l \in 0..24 |-> Kept(l, {})]

AddByte(A, byte, offset) == [A EXCEPT ![offset \div 8] = Xor(@, Shl(64, byte, 8 * (offset % 8)))]

AddBytesInLane(A, lanePosition, data, offset, length) ==
    [A EXCEPT ![lanePosition] = Xor(@, Shl(64, Word(data, 0, length), 8 * offset))]

AddLanes(A, data, laneCount) ==
    [l \in 0..24 |-> IF l < laneCount THEN Xor(A[l], Word(data, 8 * l, 8)) ELSE A[l]]

AddBytes(A, data, offset, length) ==
    SnP_PutBytes(A, data, offset, length, AddLanes, AddBytesInLane, 8)

\* n bytes of the lane, in memory, from byte offset.
LOCAL Patched(lane, word, offset, n) ==
    {b \in lane : b \div 8 \notin offset .. offset + n - 1} \cup Shl(64, word, 8 * offset)

OverwriteBytesInLane(A, lanePosition, data, offset, length) ==
    LET bytes == IF lanePosition \in Complemented
                 THEN [i \in 0 .. length - 1 |-> Not(8, data[i])] ELSE data
    IN  [A EXCEPT ![lanePosition] = Patched(@, Word(bytes, 0, length), offset, length)]

OverwriteLanes(A, data, laneCount) ==
    [l \in 0..24 |-> IF l < laneCount THEN Kept(l, Word(data, 8 * l, 8)) ELSE A[l]]

OverwriteBytes(A, data, offset, length) ==
    SnP_PutBytes(A, data, offset, length, OverwriteLanes, OverwriteBytesInLane, 8)

\* Mutant: whole lanes are zeroed in memory, whether they are complemented or not.
ZeroedInMemory(A, byteCount) ==
    [l \in 0..24 |-> {b \in A[l] : 8 * l + b \div 8 >= byteCount}]

OverwriteWithZeroes(A, byteCount) ==
    [l \in 0..24 |->
        IF l < byteCount \div 8 THEN Kept(l, {})
        ELSE IF l = byteCount \div 8 /\ byteCount % 8 # 0
             THEN LET n == byteCount % 8
                  IN  Patched(A[l], IF l \in Complemented THEN 0 .. 8 * n - 1 ELSE {}, 0, n)
             ELSE A[l]]

ExtractBytesInLane(A, lanePosition, data, offset, length) ==
    LET lane == Kept(lanePosition, A[lanePosition])
    IN  [i \in 0 .. length - 1 |-> ByteOf(lane, offset + i)]

ExtractLanes(A, laneCount) ==
    [i \in 0 .. 8 * laneCount - 1 |-> ByteOf(Kept(i \div 8, A[i \div 8]), i % 8)]

ExtractBytes(A, offset, length) ==
    SnP_GetBytes(Zeroes(length), offset, length,
                 LAMBDA data, n : ExtractLanes(A, n),
                 LAMBDA l, data, o, n : ExtractBytesInLane(A, l, data, o, n), 8)

ExtractAndAddBytesInLane(A, lanePosition, input, offset, length) ==
    LET lane == Kept(lanePosition, A[lanePosition])
    IN  [i \in 0 .. length - 1 |-> Xor(input[i], ByteOf(lane, offset + i))]

ExtractAndAddLanes(A, input, laneCount) ==
    [i \in 0 .. 8 * laneCount - 1 |->
        LET l == i \div 8 IN ByteOf(Kept(l, Xor(Word(input, 8 * l, 8), A[l])), i % 8)]

ExtractAndAddBytes(A, input, offset, length) ==
    SnP_GetBytes(input, offset, length,
                 LAMBDA data, n : ExtractAndAddLanes(A, data, n),
                 LAMBDA l, data, o, n : ExtractAndAddBytesInLane(A, l, data, o, n), 8)

----------------------------------------------------------------------------
(***************************************************************************)
(* Loops that keep the lanes in registers, with rounds24 or rounds12.      *)
(***************************************************************************)
LOCAL P(rounds, A) == IF rounds = 24 THEN Permute_24rounds(A) ELSE Permute_12rounds(A)

addInput(A, data, from, laneCount) ==
    [l \in 0..24 |-> IF l < laneCount THEN Xor(A[l], Word(data, from + 8 * l, 8)) ELSE A[l]]

FastLoop_Absorb(A, laneCount, data, dataByteLen, rounds) ==
    LET n == dataByteLen \div (8 * laneCount)
    IN  [state |-> Loop(LAMBDA S, k : P(rounds, addInput(S, data, 8 * laneCount * k, laneCount)), A, n),
         done  |-> 8 * laneCount * n]

\* One block: the lanes below laneCount are replaced, the trailer goes to the
\* next one.  mStateOver, mStateNoInput and mStateExtr know nothing of the
\* complemented lanes.
LOCAL Block(A, laneCount, input, trailenc) ==
    [l \in 0..24 |-> CASE l < laneCount -> input[l]
                       [] l = laneCount -> Xor(A[l], trailenc)
                       [] l > laneCount -> A[l]]

\* mStateOut: only the lanes from laneCount on go back to memory.
LOCAL InnerOf(A, new, laneCount) == [l \in 0..24 |-> IF l < laneCount THEN A[l] ELSE new[l]]

LOCAL Duplexed(A, laneCount, input, n, odataAdd, trailenc, rounds) ==
    LET R == 8 * laneCount
        Step(S, k) ==
          With(P(rounds, Block(S.lanes, laneCount, input[k], trailenc)), LAMBDA new :
               [lanes |-> new,
                out |-> Join(S.out, R * k,
                             [i \in 0 .. R - 1 |-> Xor(ByteOf(new[i \div 8], i % 8),
                                                       odataAdd[R * k + i])], R)])
    IN  With(Loop(Step, [lanes |-> A, out |-> Zeroes(0)], n), LAMBDA last :
             [state |-> InnerOf(A, last.lanes, laneCount), out |-> last.out, done |-> R * n])

ODDuplexingFastInOut(A, laneCount, idata, len, odataAdd, trailenc, rounds) ==
    LET n == len \div (8 * laneCount)
        input == [k \in 0 .. n - 1 |->
                    [l \in 0 .. laneCount - 1 |-> Word(idata, 8 * (laneCount * k + l), 8)]]
    IN  Duplexed(A, laneCount, input, n, odataAdd, trailenc, rounds)

ODDuplexingFastOut(A, laneCount, len, odataAdd, trailenc, rounds) ==
    LET n == len \div (8 * laneCount)
        noInput == [k \in 0 .. n - 1 |-> [l \in 0 .. laneCount - 1 |-> IF l = 0 THEN {0} ELSE {}]]
    IN  Duplexed(A, laneCount, noInput, n, odataAdd, trailenc, rounds)

\* while ( len > RHO ): a last whole block is left to the caller.
ODDuplexingFastIn(A, laneCount, idata, len, trailenc, rounds) ==
    LET R == 8 * laneCount
        n == (len - 1) \div R
        In(k) == [l \in 0 .. laneCount - 1 |-> Word(idata, R * k + 8 * l, 8)]
    IN  [state |-> Loop(LAMBDA S, k : P(rounds, Block(S, laneCount, In(k), trailenc)), A, n),
         done  |-> R * n]

----------------------------------------------------------------------------
(***************************************************************************)
(* The functions above, by the call (see PermutationStates): the state     *)
(* after it, and what it returns.                                          *)
(***************************************************************************)
Call(S, c) ==
    CASE c.op = "InitializeAll"       -> Done(Initialize)
      [] c.op = "AddByte"             -> Done(AddByte(S, c.byte, c.offset))
      [] c.op = "AddBytes"            -> Done(AddBytes(S, c.data, c.offset, c.length))
      [] c.op = "OverwriteBytes"      -> Done(OverwriteBytes(S, c.data, c.offset, c.length))
      [] c.op = "OverwriteWithZeroes" -> Done(OverwriteWithZeroes(S, c.length))
      [] c.op = "ExtractBytes"        -> Got(S, ExtractBytes(S, c.offset, c.length))
      [] c.op = "ExtractAndAddBytes"  -> Got(S, ExtractAndAddBytes(S, c.data, c.offset, c.length))
      [] c.op = "Permute" -> Done(IF c.rounds \in {12, 24} THEN P(c.rounds, S) ELSE Permute_Nrounds(S, c.rounds))
      [] c.op = "FastLoop_Absorb" ->
           LET r == Fixed(FastLoop_Absorb(S, c.laneCount, c.data, c.length, c.rounds))
           IN  Got(r.state, r.done)
      [] c.op = "ODDuplexingFastInOut" ->
           LET r == Fixed(ODDuplexingFastInOut(S, c.laneCount, c.data, c.length, c.data2, c.trailenc, c.rounds))
           IN  Got(r.state, r.out)
      [] c.op = "ODDuplexingFastOut" ->
           LET r == Fixed(ODDuplexingFastOut(S, c.laneCount, c.length, c.data2, c.trailenc, c.rounds))
           IN  Got(r.state, r.out)
      [] c.op = "ODDuplexingFastIn" ->
           LET r == Fixed(ODDuplexingFastIn(S, c.laneCount, c.data, c.length, c.trailenc, c.rounds))
           IN  Got(r.state, r.done)
=============================================================================
