---------------------------- MODULE KeccakTimes4 ----------------------------
(***************************************************************************)
(* KeccakP-1600-times4: four states, lane by lane in 25 registers of four  *)
(* words, for AVX2 and for AVX512.                                         *)
(***************************************************************************)
EXTENDS KeccakRounds, ParallelStates

CONSTANT chunkSize(_)   \* of the leaves, by the rate in bytes: 8192 for both in the code

InitializeAll == [l \in 0..24 |-> {}]

LOCAL V256(a, b, c, d) ==
    UNION {a, AtLane(64, b, 1), AtLane(64, c, 2), AtLane(64, d, 3)}
LOCAL W(r, i) == Lane(64, r, i)

----------------------------------------------------------------------------
(***************************************************************************)
(* AVX2.  Lanes are handled by four where there are enough of them:        *)
(* INTLEAVE turns four consecutive lanes of each instance into the         *)
(* registers of these lanes, and UNINTLEAVE turns them back.               *)
(***************************************************************************)
AVX2_InitializeAll == InitializeAll
AVX2_AddByte(S, i, byte, offset)  == InstanceAddByte(64, S, i, byte, offset)
AVX2_AddBytes(S, i, data, offset, length) == InstanceAddBytes(64, S, i, data, offset, length)
AVX2_OverwriteBytes(S, i, data, offset, length) ==
    InstanceOverwriteBytes(64, S, i, data, offset, length)
AVX2_OverwriteWithZeroes(S, i, byteCount) == InstanceOverwriteWithZeroes(64, S, i, byteCount)
AVX2_ExtractBytes(S, i, offset, length) == InstanceExtractBytes(64, S, i, offset, length)
AVX2_ExtractAndAddBytes(S, i, input, offset, length) ==
    InstanceExtractAndAddBytes(64, S, i, input, offset, length)

LOCAL UNPACKL(a, b) == V256(W(a, 0), W(b, 0), W(a, 2), W(b, 2))
LOCAL UNPACKH(a, b) == V256(W(a, 1), W(b, 1), W(a, 3), W(b, 3))
LOCAL PERM128_20(a, b) == V256(W(a, 0), W(a, 1), W(b, 0), W(b, 1))
LOCAL PERM128_31(a, b) == V256(W(a, 2), W(a, 3), W(b, 2), W(b, 3))
LOCAL SHUFFLE64_00(a, b) == UNPACKL(a, b)
LOCAL SHUFFLE64_0F(a, b) == UNPACKH(a, b)

\* Registers r[0] .. r[3]
UNINTLEAVE(r) ==
    LET L01 == UNPACKL(r[0], r[1])  H01 == UNPACKH(r[0], r[1])
        L23 == UNPACKL(r[2], r[3])  H23 == UNPACKH(r[2], r[3])
        lanes == << PERM128_20(L01, L23), PERM128_20(H01, H23),
                    PERM128_31(L01, L23), PERM128_31(H01, H23) >>
    IN  [i \in 0..3 |-> lanes[i + 1]]

INTLEAVE(r) ==
    LET L01 == PERM128_20(r[0], r[2])  H01 == PERM128_20(r[1], r[3])
        L23 == PERM128_31(r[0], r[2])  H23 == PERM128_31(r[1], r[3])
        lanes == << SHUFFLE64_00(L01, H01), SHUFFLE64_0F(L01, H01),
                    SHUFFLE64_00(L23, H23), SHUFFLE64_0F(L23, H23) >>
    IN  [i \in 0..3 |-> lanes[i + 1]]

\* What is loaded for lane l: a register of INTLEAVE, or four words.
LOCAL AVX2_Load(data, laneCount, laneOffset, l) ==
    IF l < Grouped(laneCount)
    THEN INTLEAVE([i \in 0..3 |-> Word(data, 8 * ((laneOffset * i) + l - (l % 4)), 32)])[l % 4]
    ELSE Gathered(64, 4, data, laneOffset, l)

\* Lane l of instance i: a word of UNINTLEAVE, or of the memory.
LOCAL AVX2_Stored(S, laneCount, i, l) ==
    IF l < Grouped(laneCount)
    THEN W(UNINTLEAVE([j \in 0..3 |-> S[l - (l % 4) + j]])[i], l % 4)
    ELSE At(64, S, i, l)

AVX2_AddLanesAll(S, data, laneCount, laneOffset) ==
    Lanewise(S, laneCount, LAMBDA l : Xor(S[l], AVX2_Load(data, laneCount, laneOffset, l)))
AVX2_OverwriteLanesAll(S, data, laneCount, laneOffset) ==
    Lanewise(S, laneCount, LAMBDA l : AVX2_Load(data, laneCount, laneOffset, l))
AVX2_ExtractLanesAll(S, data, laneCount, laneOffset) ==
    Scattered(64, 4, data, laneCount, laneOffset, LAMBDA i, l : AVX2_Stored(S, laneCount, i, l))
AVX2_ExtractAndAddLanesAll(S, input, output, laneCount, laneOffset) ==
    Scattered(64, 4, output, laneCount, laneOffset,
              LAMBDA i, l : Xor(DataWord(64, input, laneOffset, i, l),
                                AVX2_Stored(S, laneCount, i, l)))

AVX2_prepareTheta(A) == prepareTheta(A)
AVX2_thetaRhoPiChiIotaPrepareTheta(i, A, C) == thetaRhoPiChiIotaPrepareTheta(chi, 4, i, A, C)
AVX2_thetaRhoPiChiIota(i, A, C)             == thetaRhoPiChiIota(chi, 4, i, A, C)

AVX2_PermuteAll_24rounds(S) ==
    rounds24(AVX2_prepareTheta, AVX2_thetaRhoPiChiIotaPrepareTheta, AVX2_thetaRhoPiChiIota, S)
AVX2_PermuteAll_12rounds(S) ==
    rounds12(AVX2_prepareTheta, AVX2_thetaRhoPiChiIotaPrepareTheta, AVX2_thetaRhoPiChiIota, S)
AVX2_PermuteAll_6rounds(S) ==
    rounds6(AVX2_prepareTheta, AVX2_thetaRhoPiChiIotaPrepareTheta, AVX2_thetaRhoPiChiIota, S)
AVX2_PermuteAll_4rounds(S) ==
    rounds4(AVX2_prepareTheta, AVX2_thetaRhoPiChiIotaPrepareTheta, AVX2_thetaRhoPiChiIota, S)

\* With blocks of 21 lanes, and of 17 lanes for 12 rounds, the states stay in
\* registers and a lane is loaded at a time.
LOCAL AVX2_XOR_In(S, data, laneCount, laneOffset, inRegisters) ==
    IF laneCount \in inRegisters
    THEN Lanewise(S, laneCount, LAMBDA l : Xor(S[l], Gathered(64, 4, data, laneOffset, l)))
    ELSE AVX2_AddLanesAll(S, data, laneCount, laneOffset)

AVX2_FastLoop_Absorb(S, laneCount, laneOffsetParallel, laneOffsetSerial, data, dataByteLen) ==
    AbsorbLoop(64, 4, S, laneCount, laneOffsetParallel, laneOffsetSerial, data, dataByteLen,
               LAMBDA T, rest : AVX2_XOR_In(T, rest, laneCount, laneOffsetParallel, {21}),
               AVX2_PermuteAll_24rounds)
AVX2_12rounds_FastLoop_Absorb(S, laneCount, laneOffsetParallel, laneOffsetSerial, data, dataByteLen) ==
    AbsorbLoop(64, 4, S, laneCount, laneOffsetParallel, laneOffsetSerial, data, dataByteLen,
               LAMBDA T, rest : AVX2_XOR_In(T, rest, laneCount, laneOffsetParallel, {17, 21}),
               AVX2_PermuteAll_12rounds)

----------------------------------------------------------------------------
(***************************************************************************)
(* Kravatte, four blocks of 200 bytes at a time.  The last 5 lanes of the  *)
(* mask, or the last 10 of the accumulator, are rolled once per block.     *)
(***************************************************************************)
\* The lanes 20 .. 24 of the masks of four blocks, and the registers
\* x0x1x2x3 and x1x2x3x4 for the next four.
AVX2_Kravatte_Rollc(x0x1x2x3, x1x2x3x4) ==
    LET a   == x1x2x3x4
        new == Xor(Xor(ROL(x0x1x2x3, 7), a), Srl(64, a, 3))
        Asu == V256(W(a, 3), W(new, 0), W(new, 1), W(new, 2))
    IN  [mask |-> << x0x1x2x3, a, V256(W(a, 1), W(a, 2), W(a, 3), W(new, 0)),
                     V256(W(a, 2), W(a, 3), W(new, 0), W(new, 1)), Asu >>,
         x0x1x2x3 |-> Asu, x1x2x3x4 |-> new]

\* AddOverWr4, LoadXOReq256: 100 lanes from lane from of the input.
LOCAL Masked(kRoll, roll, input, from) ==
    LET In4(l) == INTLEAVE([i \in 0..3 |-> Word(input, 8 * (from + 25 * i + l - (l % 4)), 32)])[l % 4]
        In(l)  == V256(Word(input, 8 * (from + l), 8), Word(input, 8 * (from + 25 + l), 8),
                       Word(input, 8 * (from + 50 + l), 8), Word(input, 8 * (from + 75 + l), 8))
    IN  [l \in 0..24 |-> IF l < 20 THEN Xor(In4(l), Set1(4, kRoll[l]))
                         ELSE Xor(In(l), roll.mask[l - 19])]

\* ExtrAccu4, ExtrAccu: the four states are added to the accumulator.
LOCAL ExtrAccu(xAccu, A) ==
    LET Sum(r) == Xor(Xor(r[0], r[1]), Xor(r[2], r[3]))
    IN  [l \in 0..24 |->
            Xor(xAccu[l], IF l < 24
                          THEN W(Sum(UNINTLEAVE([j \in 0..3 |-> A[l - (l % 4) + j]])), l % 4)
                          ELSE Sum([i \in 0..3 |-> W(A[24], i)]))]

AVX2_rounds6(A) ==
    rounds6(AVX2_prepareTheta, AVX2_thetaRhoPiChiIotaPrepareTheta, AVX2_thetaRhoPiChiIota, A)

\* do .. while(--nBlocks != 0), for at least one block.
AVX2_KravatteCompress(xAccu, kRoll, input, inputByteLen) ==
    LET n == inputByteLen \div 800
        Step(T, k) ==
          LET roll == Fixed(AVX2_Kravatte_Rollc(T.x0x1x2x3, T.x1x2x3x4))
          IN  [x0x1x2x3 |-> roll.x0x1x2x3, x1x2x3x4 |-> roll.x1x2x3x4,
               xAccu |-> ExtrAccu(T.xAccu, AVX2_rounds6(Masked(kRoll, roll, input, 100 * k)))]
        end == Loop(Step, [xAccu |-> xAccu, x0x1x2x3 |-> V256(kRoll[20], kRoll[21], kRoll[22], kRoll[23]),
                           x1x2x3x4 |-> V256(kRoll[21], kRoll[22], kRoll[23], kRoll[24])], n)
    IN  [xAccu |-> end.xAccu, done |-> 800 * n,
         kRoll |-> [l \in 0..24 |-> CASE l < 20 -> kRoll[l]
                                     [] l \in 20..23 -> W(end.x0x1x2x3, l - 20)
                                     [] l = 24 -> W(end.x1x2x3x4, 3)]]

\* The registers of lanes 15 .. 24 for four blocks, and the accumulator after.
AVX2_Rolle(y) ==
    LET V(l) == V256(y[l], y[l + 1], y[l + 2], y[l + 3])
        new  == Xor(Xor(ROL(V(15), 7), ROL(V(16), 18)), And(V(17), Srl(64, V(16), 1)))
        Ase  == V(21)
        Asi  == V256(W(Ase, 1), W(Ase, 2), W(Ase, 3), W(new, 0))
        Aso  == V256(W(Ase, 2), W(Ase, 3), W(new, 0), W(new, 1))
        Asu  == V256(W(Ase, 3), W(new, 0), W(new, 1), W(new, 2))
    IN  [A |-> [l \in 0..24 |-> CASE l < 15 -> Set1(4, y[l])
                                [] l \in 15..21 -> V(l)
                                [] l = 22 -> Asi [] l = 23 -> Aso [] l = 24 -> Asu],
         yAccu |-> [l \in 0..24 |-> CASE l < 15 -> y[l]
                                    [] l \in 15..18 -> W(V(19), l - 15)
                                    [] l \in 19..20 -> W(Aso, l - 19)
                                    [] l > 20 -> W(new, l - 21)]]

\* ExtrAddKey4, ExtrAddKey: the words of four blocks.
LOCAL ExtrAddKey(A, kRoll) ==
    LET K == Fixed([l \in 0..24 |-> Xor(A[l], Set1(4, kRoll[l]))])
    IN  [j \in 0..99 |->
            LET i == j \div 25
                l == j % 25
            IN  IF l < 24 THEN W(UNINTLEAVE([m \in 0..3 |-> K[l - (l % 4) + m]])[i], l % 4)
                ELSE W(K[24], i)]

AVX2_KravatteExpand(yAccu, kRoll, outputByteLen) ==
    LET n == outputByteLen \div 800
        Step(T, k) ==
          LET roll  == Fixed(AVX2_Rolle(T.yAccu))
              words == Fixed(ExtrAddKey(AVX2_rounds6(roll.A), kRoll))
          IN  [yAccu |-> roll.yAccu,
               out |-> Join(T.out, 800 * k, [b \in 0..799 |-> ByteOf(words[b \div 8], b % 8)], 800)]
        end == Loop(Step, [yAccu |-> yAccu, out |-> Zeroes(0)], n)
    IN  [yAccu |-> end.yAccu, out |-> end.out, done |-> 800 * n]

----------------------------------------------------------------------------
(***************************************************************************)
(* KT128 and KT256.  The first lanes of the leaves come out transposed.    *)
(***************************************************************************)
AVX2_rounds12(A) ==
    rounds12(AVX2_prepareTheta, AVX2_thetaRhoPiChiIotaPrepareTheta, AVX2_thetaRhoPiChiIota, A)

LOCAL Outputs(A, n) ==   \* n bytes of each
    [b \in 0 .. 4 * n - 1 |->
        LET l == (b % n) \div 8
        IN  ByteOf(W(UNINTLEAVE([m \in 0..3 |-> A[l - (l % 4) + m]])[b \div n], l % 4), b % 8)]

\* XORdata4, XORdata16, XORdata17, XORdata21
LOCAL AVX2_Leaves(input, size, p, n) ==
    [l \in 0 .. n - 1 |-> Gathered(64, 4, input, size \div 8, p + l)]

AVX2_KT128ProcessLeaves(input) ==
    Outputs(Fixed(ProcessLeaves(4, chunkSize(168), 21, LAMBDA p, n : AVX2_Leaves(input, chunkSize(168), p, n),
                                AVX2_rounds12)), 32)
AVX2_KT256ProcessLeaves(input) ==
    Outputs(Fixed(ProcessLeaves(4, chunkSize(136), 17, LAMBDA p, n : AVX2_Leaves(input, chunkSize(136), p, n),
                                AVX2_rounds12)), 64)

----------------------------------------------------------------------------
(***************************************************************************)
(* AVX512: two lanes of the four states are one register of 512 bits,      *)
(* gathered by index512 (see ParallelStates).                              *)
(***************************************************************************)
AVX512_InitializeAll == InitializeAll
AVX512_AddByte(S, i, byte, offset)  == InstanceAddByte(64, S, i, byte, offset)
AVX512_AddBytes(S, i, data, offset, length) == InstanceAddBytes(64, S, i, data, offset, length)
AVX512_OverwriteBytes(S, i, data, offset, length) ==
    InstanceOverwriteBytes(64, S, i, data, offset, length)
AVX512_OverwriteWithZeroes(S, i, byteCount) == InstanceOverwriteWithZeroes(64, S, i, byteCount)
AVX512_ExtractBytes(S, i, offset, length) == InstanceExtractBytes(64, S, i, offset, length)
AVX512_ExtractAndAddBytes(S, i, input, offset, length) ==
    InstanceExtractAndAddBytes(64, S, i, input, offset, length)

AVX512_AddLanesAll(S, data, laneCount, laneOffset) ==
    Lanewise(S, laneCount, LAMBDA l : Xor(S[l], GatheredBy512(4, data, laneCount, laneOffset, l)))
AVX512_OverwriteLanesAll(S, data, laneCount, laneOffset) ==
    Lanewise(S, laneCount, LAMBDA l : GatheredBy512(4, data, laneCount, laneOffset, l))
AVX512_ExtractLanesAll(S, data, laneCount, laneOffset) ==
    ScatteredBy512(4, data, laneCount, laneOffset, LAMBDA l : S[l])
AVX512_ExtractAndAddLanesAll(S, input, output, laneCount, laneOffset) ==
    ScatteredBy512(4, output, laneCount, laneOffset,
                   LAMBDA l : Xor(S[l], GatheredBy512(4, input, laneCount, laneOffset, l)))

AVX512_KeccakP_4rounds(A, i) == KeccakP_4rounds(4, A, i)
AVX512_KeccakP_2rounds(A, i) == KeccakP_2rounds(4, A, i)
AVX512_rounds24(A) == InPlace_rounds24(AVX512_KeccakP_4rounds, A)
AVX512_rounds12(A) == InPlace_rounds12(AVX512_KeccakP_4rounds, A)
AVX512_copyFromState2rounds(A) == copyFromState2rounds(A)

AVX512_PermuteAll_24rounds(S) == AVX512_rounds24(S)
AVX512_PermuteAll_12rounds(S) == AVX512_rounds12(S)
AVX512_PermuteAll_6rounds(S)  ==
    InPlace_rounds6(AVX512_KeccakP_4rounds, AVX512_KeccakP_2rounds, AVX512_copyFromState2rounds(S))
AVX512_PermuteAll_4rounds(S)  == InPlace_rounds4(AVX512_KeccakP_4rounds, S)

\* With blocks of 21 lanes the states stay in registers and a lane is
\* gathered at a time.
LOCAL AVX512_Add_In(S, data, laneCount, laneOffset) ==
    IF laneCount = 21
    THEN Lanewise(S, 21, LAMBDA l : Xor(S[l], Gathered(64, 4, data, laneOffset, l)))
    ELSE AVX512_AddLanesAll(S, data, laneCount, laneOffset)

AVX512_FastLoop_Absorb(S, laneCount, laneOffsetParallel, laneOffsetSerial, data, dataByteLen) ==
    AbsorbLoop(64, 4, S, laneCount, laneOffsetParallel, laneOffsetSerial, data, dataByteLen,
               LAMBDA T, rest : AVX512_Add_In(T, rest, laneCount, laneOffsetParallel),
               AVX512_PermuteAll_24rounds)
AVX512_12rounds_FastLoop_Absorb(S, laneCount, laneOffsetParallel, laneOffsetSerial, data, dataByteLen) ==
    AbsorbLoop(64, 4, S, laneCount, laneOffsetParallel, laneOffsetSerial, data, dataByteLen,
               LAMBDA T, rest : AVX512_Add_In(T, rest, laneCount, laneOffsetParallel),
               AVX512_PermuteAll_12rounds)

----------------------------------------------------------------------------
(***************************************************************************)
(* The functions above, by the call (see PermutationStates): the state     *)
(* after it, and what it returns.                                          *)
(***************************************************************************)
AVX2_Call(S, c) ==
    CASE c.op = "InitializeAll"       -> Done(AVX2_InitializeAll)
      [] c.op = "AddByte"             -> Done(AVX2_AddByte(S, c.i, c.byte, c.offset))
      [] c.op = "AddBytes"            -> Done(AVX2_AddBytes(S, c.i, c.data, c.offset, c.length))
      [] c.op = "OverwriteBytes"      -> Done(AVX2_OverwriteBytes(S, c.i, c.data, c.offset, c.length))
      [] c.op = "OverwriteWithZeroes" -> Done(AVX2_OverwriteWithZeroes(S, c.i, c.length))
      [] c.op = "ExtractBytes"        -> Got(S, AVX2_ExtractBytes(S, c.i, c.offset, c.length))
      [] c.op = "ExtractAndAddBytes"  ->
           Got(S, AVX2_ExtractAndAddBytes(S, c.i, c.data, c.offset, c.length))
      [] c.op = "AddLanesAll"         -> Done(AVX2_AddLanesAll(S, c.data, c.laneCount, c.laneOffset))
      [] c.op = "OverwriteLanesAll"   -> Done(AVX2_OverwriteLanesAll(S, c.data, c.laneCount, c.laneOffset))
      [] c.op = "ExtractLanesAll"     -> Got(S, AVX2_ExtractLanesAll(S, c.data, c.laneCount, c.laneOffset))
      [] c.op = "ExtractAndAddLanesAll" ->
           Got(S, AVX2_ExtractAndAddLanesAll(S, c.data, c.data2, c.laneCount, c.laneOffset))
      [] c.op = "Permute" -> Done(CASE c.rounds = 24 -> AVX2_PermuteAll_24rounds(S)
                                    [] c.rounds = 12 -> AVX2_PermuteAll_12rounds(S)
                                    [] c.rounds = 6  -> AVX2_PermuteAll_6rounds(S)
                                    [] c.rounds = 4  -> AVX2_PermuteAll_4rounds(S))
      [] c.op = "FastLoop_Absorb" ->
           LET r == Fixed(IF c.rounds = 24
                          THEN AVX2_FastLoop_Absorb(S, c.laneCount, c.laneOffsetParallel,
                                   c.laneOffsetSerial, c.data, c.length)
                          ELSE AVX2_12rounds_FastLoop_Absorb(S, c.laneCount, c.laneOffsetParallel,
                                   c.laneOffsetSerial, c.data, c.length))
           IN  Got(r.state, r.done)
      [] c.op = "ProcessLeaves" ->
           Got(S, IF c.rate = 168 THEN AVX2_KT128ProcessLeaves(c.data) ELSE AVX2_KT256ProcessLeaves(c.data))
      [] c.op = "KravatteCompress"    -> Got(S, AVX2_KravatteCompress(c.x, c.k, c.data, c.length))
      [] c.op = "KravatteExpand"      -> Got(S, AVX2_KravatteExpand(c.x, c.k, c.length))

AVX512_Call(S, c) ==
    CASE c.op = "InitializeAll"       -> Done(AVX512_InitializeAll)
      [] c.op = "AddByte"             -> Done(AVX512_AddByte(S, c.i, c.byte, c.offset))
      [] c.op = "AddBytes"            -> Done(AVX512_AddBytes(S, c.i, c.data, c.offset, c.length))
      [] c.op = "OverwriteBytes"      -> Done(AVX512_OverwriteBytes(S, c.i, c.data, c.offset, c.length))
      [] c.op = "OverwriteWithZeroes" -> Done(AVX512_OverwriteWithZeroes(S, c.i, c.length))
      [] c.op = "ExtractBytes"        -> Got(S, AVX512_ExtractBytes(S, c.i, c.offset, c.length))
      [] c.op = "ExtractAndAddBytes"  ->
           Got(S, AVX512_ExtractAndAddBytes(S, c.i, c.data, c.offset, c.length))
      [] c.op = "AddLanesAll"         -> Done(AVX512_AddLanesAll(S, c.data, c.laneCount, c.laneOffset))
      [] c.op = "OverwriteLanesAll"   -> Done(AVX512_OverwriteLanesAll(S, c.data, c.laneCount, c.laneOffset))
      [] c.op = "ExtractLanesAll"     -> Got(S, AVX512_ExtractLanesAll(S, c.data, c.laneCount, c.laneOffset))
      [] c.op = "ExtractAndAddLanesAll" ->
           Got(S, AVX512_ExtractAndAddLanesAll(S, c.data, c.data2, c.laneCount, c.laneOffset))
      [] c.op = "Permute" -> Done(CASE c.rounds = 24 -> AVX512_PermuteAll_24rounds(S)
                                    [] c.rounds = 12 -> AVX512_PermuteAll_12rounds(S)
                                    [] c.rounds = 6  -> AVX512_PermuteAll_6rounds(S)
                                    [] c.rounds = 4  -> AVX512_PermuteAll_4rounds(S))
      [] c.op = "FastLoop_Absorb" ->
           LET r == Fixed(IF c.rounds = 24
                          THEN AVX512_FastLoop_Absorb(S, c.laneCount, c.laneOffsetParallel,
                                   c.laneOffsetSerial, c.data, c.length)
                          ELSE AVX512_12rounds_FastLoop_Absorb(S, c.laneCount, c.laneOffsetParallel,
                                   c.laneOffsetSerial, c.data, c.length))
           IN  Got(r.state, r.done)
=============================================================================
