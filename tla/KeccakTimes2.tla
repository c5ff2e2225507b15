---------------------------- MODULE KeccakTimes2 ----------------------------
(***************************************************************************)
(* KeccakP-1600-times2: two states, lane by lane in 25 registers of two    *)
(* words.  The operators are named after the instruction set: SSSE3 for    *)
(* SIMD128 (also used for SSE2 and XOP), AVX512 for AVX512.                *)
(***************************************************************************)
EXTENDS KeccakRounds, ParallelStates

InitializeAll == [l \in 0..24 |-> {}]

----------------------------------------------------------------------------
(***************************************************************************)
(* SIMD128.                                                                *)
(***************************************************************************)
SSSE3_InitializeAll == InitializeAll
SSSE3_AddByte(S, i, byte, offset)  == InstanceAddByte(64, S, i, byte, offset)
SSSE3_AddBytes(S, i, data, offset, length) == InstanceAddBytes(64, S, i, data, offset, length)
SSSE3_OverwriteBytes(S, i, data, offset, length) ==
    InstanceOverwriteBytes(64, S, i, data, offset, length)
SSSE3_OverwriteWithZeroes(S, i, byteCount) == InstanceOverwriteWithZeroes(64, S, i, byteCount)
SSSE3_ExtractBytes(S, i, offset, length) == InstanceExtractBytes(64, S, i, offset, length)
SSSE3_ExtractAndAddBytes(S, i, input, offset, length) ==
    InstanceExtractAndAddBytes(64, S, i, input, offset, length)

SSSE3_AddLanesAll(S, data, laneCount, laneOffset) ==
    Lanewise(S, laneCount, LAMBDA l : Xor(S[l], Gathered(64, 2, data, laneOffset, l)))
SSSE3_OverwriteLanesAll(S, data, laneCount, laneOffset) ==
    Lanewise(S, laneCount, LAMBDA l : Gathered(64, 2, data, laneOffset, l))

\* UNPACKL and UNPACKH: two lanes of two instances become two words of each.
UNPACKL(a, b) == Register(64, 2, LAMBDA i : IF i = 0 THEN Lane(64, a, 0) ELSE Lane(64, b, 0))
UNPACKH(a, b) == Register(64, 2, LAMBDA i : IF i = 0 THEN Lane(64, a, 1) ELSE Lane(64, b, 1))

SSSE3_ExtractLanesAll(S, data, laneCount, laneOffset) ==
    LET Extr2(i, l) == LET g == l - (l % 2)
                       IN  Lane(64, IF i = 0 THEN UNPACKL(S[g], S[g+1]) ELSE UNPACKH(S[g], S[g+1]),
                                l % 2)
    IN  Scattered(64, 2, data, laneCount, laneOffset,
                  LAMBDA i, l : IF l < Grouped(laneCount) THEN Extr2(i, l) ELSE At(64, S, i, l))

SSSE3_ExtractAndAddLanesAll(S, input, output, laneCount, laneOffset) ==
    Scattered(64, 2, output, laneCount, laneOffset,
              LAMBDA i, l : Xor(DataWord(64, input, laneOffset, i, l), At(64, S, i, l)))

SSSE3_prepareTheta(A) == prepareTheta(A)
SSSE3_thetaRhoPiChiIotaPrepareTheta(i, A, C) == thetaRhoPiChiIotaPrepareTheta(chi, 2, i, A, C)
SSSE3_thetaRhoPiChiIota(i, A, C)             == thetaRhoPiChiIota(chi, 2, i, A, C)

SSSE3_PermuteAll_24rounds(S) ==
    rounds24(SSSE3_prepareTheta, SSSE3_thetaRhoPiChiIotaPrepareTheta, SSSE3_thetaRhoPiChiIota, S)
SSSE3_PermuteAll_12rounds(S) ==
    rounds12(SSSE3_prepareTheta, SSSE3_thetaRhoPiChiIotaPrepareTheta, SSSE3_thetaRhoPiChiIota, S)
SSSE3_PermuteAll_6rounds(S) ==
    rounds6(SSSE3_prepareTheta, SSSE3_thetaRhoPiChiIotaPrepareTheta, SSSE3_thetaRhoPiChiIota, S)
SSSE3_PermuteAll_4rounds(S) ==
    rounds4(SSSE3_prepareTheta, SSSE3_thetaRhoPiChiIotaPrepareTheta, SSSE3_thetaRhoPiChiIota, S)

SSSE3_FastLoop_Absorb(S, laneCount, laneOffsetParallel, laneOffsetSerial, data, dataByteLen) ==
    AbsorbLoop(64, 2, S, laneCount, laneOffsetParallel, laneOffsetSerial, data, dataByteLen,
               LAMBDA T, rest : SSSE3_AddLanesAll(T, rest, laneCount, laneOffsetParallel),
               SSSE3_PermuteAll_24rounds)
SSSE3_12rounds_FastLoop_Absorb(S, laneCount, laneOffsetParallel, laneOffsetSerial, data, dataByteLen) ==
    AbsorbLoop(64, 2, S, laneCount, laneOffsetParallel, laneOffsetSerial, data, dataByteLen,
               LAMBDA T, rest : SSSE3_AddLanesAll(T, rest, laneCount, laneOffsetParallel),
               SSSE3_PermuteAll_12rounds)

----------------------------------------------------------------------------
(***************************************************************************)
(* AVX512: four lanes of the two states are one register of 512 bits,      *)
(* gathered by index512 (see ParallelStates).                              *)
(***************************************************************************)
AVX512_InitializeAll == InitializeAll
AVX512_AddByte(S, i, byte, offset)  == InstanceAddByte(64, S, i, byte, offset)
AVX512_AddBytes(S, i, data, offset, length) == InstanceAddBytes(64, S, i, data, offset, length)
AVX512_OverwriteBytes(S, i, data, offset, length) ==
    InstanceOverwriteBytes(64, S, i, data, offset, length)
AVX512_OverwriteWithZeroes(S, i, byteCount) == InstanceOverwriteWithZeroes(64, S, i, byteCount)
AVX512_ExtractBytes(S, i, offset, length) == InstanceExtractBytes(64, S, i, offset, length)
AVX512_ExtractAndAddBytes(S, i, input, offset, length) ==
    InstanceExtractAndAddBytes(64, S, i, input, offset, length)

AVX512_AddLanesAll(S, data, laneCount, laneOffset) ==
    Lanewise(S, laneCount, LAMBDA l : Xor(S[l], GatheredBy512(2, data, laneCount, laneOffset, l)))
AVX512_OverwriteLanesAll(S, data, laneCount, laneOffset) ==
    Lanewise(S, laneCount, LAMBDA l : GatheredBy512(2, data, laneCount, laneOffset, l))
AVX512_ExtractLanesAll(S, data, laneCount, laneOffset) ==
    ScatteredBy512(2, data, laneCount, laneOffset, LAMBDA l : S[l])
AVX512_ExtractAndAddLanesAll(S, input, output, laneCount, laneOffset) ==
    ScatteredBy512(2, output, laneCount, laneOffset,
                   LAMBDA l : Xor(S[l], GatheredBy512(2, input, laneCount, laneOffset, l)))

AVX512_KeccakP_4rounds(A, i) == KeccakP_4rounds(2, A, i)
AVX512_KeccakP_2rounds(A, i) == KeccakP_2rounds(2, A, i)
AVX512_rounds24(A) == InPlace_rounds24(AVX512_KeccakP_4rounds, A)
AVX512_rounds12(A) == InPlace_rounds12(AVX512_KeccakP_4rounds, A)
AVX512_copyFromState2rounds(A) == copyFromState2rounds(A)

AVX512_PermuteAll_24rounds(S) == AVX512_rounds24(S)
AVX512_PermuteAll_12rounds(S) == AVX512_rounds12(S)
AVX512_PermuteAll_6rounds(S)  ==
    InPlace_rounds6(AVX512_KeccakP_4rounds, AVX512_KeccakP_2rounds, AVX512_copyFromState2rounds(S))
AVX512_PermuteAll_4rounds(S)  == InPlace_rounds4(AVX512_KeccakP_4rounds, S)

\* With blocks of 21 lanes the states stay in registers and a lane is
\* gathered at a time.
LOCAL AVX512_Add_In(S, data, laneCount, laneOffset) ==
    IF laneCount = 21
    THEN Lanewise(S, 21, LAMBDA l : Xor(S[l], Gathered(64, 2, data, laneOffset, l)))
    ELSE AVX512_AddLanesAll(S, data, laneCount, laneOffset)

AVX512_FastLoop_Absorb(S, laneCount, laneOffsetParallel, laneOffsetSerial, data, dataByteLen) ==
    AbsorbLoop(64, 2, S, laneCount, laneOffsetParallel, laneOffsetSerial, data, dataByteLen,
               LAMBDA T, rest : AVX512_Add_In(T, rest, laneCount, laneOffsetParallel),
               AVX512_PermuteAll_24rounds)
AVX512_12rounds_FastLoop_Absorb(S, laneCount, laneOffsetParallel, laneOffsetSerial, data, dataByteLen) ==
    AbsorbLoop(64, 2, S, laneCount, laneOffsetParallel, laneOffsetSerial, data, dataByteLen,
               LAMBDA T, rest : AVX512_Add_In(T, rest, laneCount, laneOffsetParallel),
               AVX512_PermuteAll_12rounds)

----------------------------------------------------------------------------
(***************************************************************************)
(* The functions above, by the call (see PermutationStates): the state     *)
(* after it, and what it returns.                                          *)
(***************************************************************************)
SSSE3_Call(S, c) ==
    CASE c.op = "InitializeAll"       -> Done(SSSE3_InitializeAll)
      [] c.op = "AddByte"             -> Done(SSSE3_AddByte(S, c.i, c.byte, c.offset))
      [] c.op = "AddBytes"            -> Done(SSSE3_AddBytes(S, c.i, c.data, c.offset, c.length))
      [] c.op = "OverwriteBytes"      -> Done(SSSE3_OverwriteBytes(S, c.i, c.data, c.offset, c.length))
      [] c.op = "OverwriteWithZeroes" -> Done(SSSE3_OverwriteWithZeroes(S, c.i, c.length))
      [] c.op = "ExtractBytes"        -> Got(S, SSSE3_ExtractBytes(S, c.i, c.offset, c.length))
      [] c.op = "ExtractAndAddBytes"  ->
           Got(S, SSSE3_ExtractAndAddBytes(S, c.i, c.data, c.offset, c.length))
      [] c.op = "AddLanesAll"         -> Done(SSSE3_AddLanesAll(S, c.data, c.laneCount, c.laneOffset))
      [] c.op = "OverwriteLanesAll"   -> Done(SSSE3_OverwriteLanesAll(S, c.data, c.laneCount, c.laneOffset))
      [] c.op = "ExtractLanesAll"     -> Got(S, SSSE3_ExtractLanesAll(S, c.data, c.laneCount, c.laneOffset))
      [] c.op = "ExtractAndAddLanesAll" ->
           Got(S, SSSE3_ExtractAndAddLanesAll(S, c.data, c.data2, c.laneCount, c.laneOffset))
      [] c.op = "Permute" -> Done(CASE c.rounds = 24 -> SSSE3_PermuteAll_24rounds(S)
                                    [] c.rounds = 12 -> SSSE3_PermuteAll_12rounds(S)
                                    [] c.rounds = 6  -> SSSE3_PermuteAll_6rounds(S)
                                    [] c.rounds = 4  -> SSSE3_PermuteAll_4rounds(S))
      [] c.op = "FastLoop_Absorb" ->
           LET r == Fixed(IF c.rounds = 24
                          THEN SSSE3_FastLoop_Absorb(S, c.laneCount, c.laneOffsetParallel,
                                   c.laneOffsetSerial, c.data, c.length)
                          ELSE SSSE3_12rounds_FastLoop_Absorb(S, c.laneCount, c.laneOffsetParallel,
                                   c.laneOffsetSerial, c.data, c.length))
           IN  Got(r.state, r.done)

AVX512_Call(S, c) ==
    CASE c.op = "InitializeAll"       -> Done(AVX512_InitializeAll)
      [] c.op = "AddByte"             -> Done(AVX512_AddByte(S, c.i, c.byte, c.offset))
      [] c.op = "AddBytes"            -> Done(AVX512_AddBytes(S, c.i, c.data, c.offset, c.length))
      [] c.op = "OverwriteBytes"      -> Done(AVX512_OverwriteBytes(S, c.i, c.data, c.offset, c.length))
      [] c.op = "OverwriteWithZeroes" -> Done(AVX512_OverwriteWithZeroes(S, c.i, c.length))
      [] c.op = "ExtractBytes"        -> Got(S, AVX512_ExtractBytes(S, c.i, c.offset, c.length))
      [] c.op = "ExtractAndAddBytes"  ->
           Got(S, AVX512_ExtractAndAddBytes(S, c.i, c.data, c.offset, c.length))
      [] c.op = "AddLanesAll"         -> Done(AVX512_AddLanesAll(S, c.data, c.laneCount, c.laneOffset))
      [] c.op = "OverwriteLanesAll"   -> Done(AVX512_OverwriteLanesAll(S, c.data, c.laneCount, c.laneOffset))
      [] c.op = "ExtractLanesAll"     -> Got(S, AVX512_ExtractLanesAll(S, c.data, c.laneCount, c.laneOffset))
      [] c.op = "ExtractAndAddLanesAll" ->
           Got(S, AVX512_ExtractAndAddLanesAll(S, c.data, c.data2, c.laneCount, c.laneOffset))
      [] c.op = "Permute" -> Done(CASE c.rounds = 24 -> AVX512_PermuteAll_24rounds(S)
                                    [] c.rounds = 12 -> AVX512_PermuteAll_12rounds(S)
                                    [] c.rounds = 6  -> AVX512_PermuteAll_6rounds(S)
                                    [] c.rounds = 4  -> AVX512_PermuteAll_4rounds(S))
      [] c.op = "FastLoop_Absorb" ->
           LET r == Fixed(IF c.rounds = 24
                          THEN AVX512_FastLoop_Absorb(S, c.laneCount, c.laneOffsetParallel,
                                   c.laneOffsetSerial, c.data, c.length)
                          ELSE AVX512_12rounds_FastLoop_Absorb(S, c.laneCount, c.laneOffsetParallel,
                                   c.laneOffsetSerial, c.data, c.length))
           IN  Got(r.state, r.done)
=============================================================================
