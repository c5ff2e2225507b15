---------------------------- MODULE KeccakTimes8 ----------------------------
(***************************************************************************)
(* KeccakP-1600-times8: eight states, lane by lane in 25 registers of 512  *)
(* bits, for AVX512.  A register is gathered from the data in one          *)
(* instruction, and scattered to it in one.                                *)
(***************************************************************************)
EXTENDS KeccakRounds, ParallelStates

CONSTANT chunkSize(_)   \* of the leaves, by the rate in bytes: 8192 for both in the code

InitializeAll == [l \in 0..24 |-> {}]
AddByte(S, i, byte, offset)  == InstanceAddByte(64, S, i, byte, offset)
AddBytes(S, i, data, offset, length) == InstanceAddBytes(64, S, i, data, offset, length)
OverwriteBytes(S, i, data, offset, length) == InstanceOverwriteBytes(64, S, i, data, offset, length)
OverwriteWithZeroes(S, i, byteCount) == InstanceOverwriteWithZeroes(64, S, i, byteCount)
ExtractBytes(S, i, offset, length) == InstanceExtractBytes(64, S, i, offset, length)
ExtractAndAddBytes(S, i, input, offset, length) ==
    InstanceExtractAndAddBytes(64, S, i, input, offset, length)

AddLanesAll(S, data, laneCount, laneOffset) ==
    Lanewise(S, laneCount, LAMBDA l : Xor(S[l], Gathered(64, 8, data, laneOffset, l)))
OverwriteLanesAll(S, data, laneCount, laneOffset) ==
    Lanewise(S, laneCount, LAMBDA l : Gathered(64, 8, data, laneOffset, l))
ExtractLanesAll(S, data, laneCount, laneOffset) ==
    Scattered(64, 8, data, laneCount, laneOffset, LAMBDA i, l : At(64, S, i, l))
ExtractAndAddLanesAll(S, input, output, laneCount, laneOffset) ==
    Scattered(64, 8, output, laneCount, laneOffset,
              LAMBDA i, l : Lane(64, Xor(S[l], Gathered(64, 8, input, laneOffset, l)), i))

FourRounds(A, i) == KeccakP_4rounds(8, A, i)
TwoRounds(A, i)  == KeccakP_2rounds(8, A, i)
PermuteAll_24rounds(S) == InPlace_rounds24(FourRounds, S)
PermuteAll_12rounds(S) == InPlace_rounds12(FourRounds, S)
PermuteAll_6rounds(S)  == InPlace_rounds6(FourRounds, TwoRounds, copyFromState2rounds(S))
PermuteAll_4rounds(S)  == InPlace_rounds4(FourRounds, S)

FastLoop_Absorb(S, laneCount, laneOffsetParallel, laneOffsetSerial, data, dataByteLen) ==
    AbsorbLoop(64, 8, S, laneCount, laneOffsetParallel, laneOffsetSerial, data, dataByteLen,
               LAMBDA T, rest : AddLanesAll(T, rest, laneCount, laneOffsetParallel),
               PermuteAll_24rounds)
FastLoop_Absorb_12rounds(S, laneCount, laneOffsetParallel, laneOffsetSerial, data, dataByteLen) ==
    AbsorbLoop(64, 8, S, laneCount, laneOffsetParallel, laneOffsetSerial, data, dataByteLen,
               LAMBDA T, rest : AddLanesAll(T, rest, laneCount, laneOffsetParallel),
               PermuteAll_12rounds)

----------------------------------------------------------------------------
(***************************************************************************)
(* KT128 and KT256.  Eight lanes of the eight leaves are transposed at     *)
(* once; the lanes that are left over are gathered.                        *)
(***************************************************************************)
LOCAL V512(w) == Register(64, 8, LAMBDA j : w[j + 1])
LOCAL W(r, j) == Lane(64, r, j)

unpacklo(a, b) == V512(<<W(a,0), W(b,0), W(a,2), W(b,2), W(a,4), W(b,4), W(a,6), W(b,6)>>)
unpackhi(a, b) == V512(<<W(a,1), W(b,1), W(a,3), W(b,3), W(a,5), W(b,5), W(a,7), W(b,7)>>)
\* _mm512_shuffle_i32x4 by 0x88 and by 0xdd: the even and the odd quarters
shuffle88(a, b) == V512(<<W(a,0), W(a,1), W(a,4), W(a,5), W(b,0), W(b,1), W(b,4), W(b,5)>>)
shuffleDD(a, b) == V512(<<W(a,2), W(a,3), W(a,6), W(a,7), W(b,2), W(b,3), W(b,6), W(b,7)>>)

LOCAL Values8(s) == With(s, LAMBDA v : [j \in 0..7 |-> v[j + 1]])

LoadAndTranspose8(data, size, offset) ==
    LET load == [j \in 1..8 |-> Word(data, (8 * offset) + ((j - 1) * size), 64)]
        Pairs(w) == << unpacklo(w[0], w[1]), unpackhi(w[0], w[1]),
                       unpacklo(w[2], w[3]), unpackhi(w[2], w[3]),
                       unpacklo(w[4], w[5]), unpackhi(w[4], w[5]),
                       unpacklo(w[6], w[7]), unpackhi(w[6], w[7]) >>
        Fours(r) == << shuffle88(r[0], r[2]), shuffle88(r[1], r[3]), shuffleDD(r[0], r[2]),
                       shuffleDD(r[1], r[3]), shuffle88(r[4], r[6]), shuffle88(r[5], r[7]),
                       shuffleDD(r[4], r[6]), shuffleDD(r[5], r[7]) >>
        Eights(t) == << shuffle88(t[0], t[4]), shuffle88(t[1], t[5]), shuffle88(t[2], t[6]),
                        shuffle88(t[3], t[7]), shuffleDD(t[0], t[4]), shuffleDD(t[1], t[5]),
                        shuffleDD(t[2], t[6]), shuffleDD(t[3], t[7]) >>
    IN  Values8(With(Values8(With(Values8(With(Values8(load), Pairs)), Fours)), Eights))

\* XORdata4, XORdata16, XORdata17, XORdata21: lanes 0 .. 15 by transposition
LOCAL Leaves(input, size, p, n) ==
    LET low  == Fixed(IF n >= 16 THEN LoadAndTranspose8(input, size, p) ELSE << >>)
        high == Fixed(IF n >= 16 THEN LoadAndTranspose8(input, size, p + 8) ELSE << >>)
    IN  [l \in 0 .. n - 1 |-> IF n >= 16 /\ l < 8 THEN low[l]
                              ELSE IF n >= 16 /\ l < 16 THEN high[l - 8]
                              ELSE Gathered(64, 8, input, size \div 8, p + l)]

LOCAL Outputs(A, n) ==   \* n bytes of each
    [b \in 0 .. 8 * n - 1 |-> ByteOf(At(64, A, b \div n, (b % n) \div 8), b % 8)]

KT128ProcessLeaves(input) ==
    Outputs(Fixed(ProcessLeaves(8, chunkSize(168), 21, LAMBDA p, n : Leaves(input, chunkSize(168), p, n),
                                PermuteAll_12rounds)), 32)
KT256ProcessLeaves(input) ==
    Outputs(Fixed(ProcessLeaves(8, chunkSize(136), 17, LAMBDA p, n : Leaves(input, chunkSize(136), p, n),
                                PermuteAll_12rounds)), 64)

----------------------------------------------------------------------------
(***************************************************************************)
(* Kravatte, eight blocks of 200 bytes at a time.  The registers hold the  *)
(* lanes where the last two of four rounds find them.                      *)
(***************************************************************************)
\* _mm512_permutex2var_epi64: words 0 .. 7 of a and 8 .. 15 of b by their index.
permutex2var(a, idx, b) ==
    V512([j \in 1..8 |-> IF idx[j] < 8 THEN W(a, idx[j]) ELSE W(b, idx[j] - 8)])

o01234_012 == <<0, 1, 2, 3, 4, 8, 9, 10>>
o1234_0123 == <<1, 2, 3, 4, 8, 9, 10, 11>>
o1234567_3 == <<1, 2, 3, 4, 5, 6, 7, 11>>
o1234567_4 == <<1, 2, 3, 4, 5, 6, 7, 12>>
o234567_45 == <<2, 3, 4, 5, 6, 7, 12, 13>>
o34567_456 == <<3, 4, 5, 6, 7, 12, 13, 14>>

LOCAL Words(kRoll, l, n) == UNION {AtLane(64, kRoll[l + j], j) : j \in 0 .. n - 1}
LOCAL Rolled(a, b) == Xor(Xor(ROL(a, 7), b), Srl(64, b, 3))

\* x01234567 and x12345678 before the first block.
PrepareRollc(kRoll) ==
    LET be == Fixed(Rolled(Words(kRoll, 20, 5), Words(kRoll, 21, 4)))
        x  == Fixed(permutex2var(Words(kRoll, 20, 5), o01234_012, be))
    IN  [x01234567 |-> x, x12345678 |-> permutex2var(x, o1234_0123, be)]

\* The masks of lanes 20 .. 24 for eight blocks, and the same for the next.
Rollc(x01234567, x12345678) ==
    LET new == Fixed(Rolled(x01234567, x12345678))
        Ise == Fixed(permutex2var(x01234567, o1234567_3, new))
        Isi == permutex2var(Ise, o1234567_4, new)
        Iso == Fixed(permutex2var(Ise, o234567_45, new))
        Isu == Fixed(permutex2var(Ise, o34567_456, new))
        x   == Fixed(Rolled(Iso, Isu))
    IN  [mask |-> <<x01234567, Ise, Isi, Iso, Isu>>,
         x01234567 |-> x, x12345678 |-> permutex2var(x, o1234567_4, x)]

\* rounds6 on registers named by Iba .. Isu.
LOCAL SixRounds(I) == PermuteAll_6rounds(I)

\* Xba .. Xsu are added horizontally at the end.
LOCAL Horizontally(X) ==
    LET low256 == <<0, 1, 2, 3, 8, 9, 10, 11>>   high256 == <<4, 5, 6, 7, 12, 13, 14, 15>>
        low128 == <<0, 1, 8, 9, 4, 5, 12, 13>>   high128 == <<2, 3, 10, 11, 6, 7, 14, 15>>
        low64  == <<0, 8, 2, 10, 4, 12, 6, 14>>  high64  == <<1, 9, 3, 11, 5, 13, 7, 15>>
        Sum(a, b, low, high) == Fixed(Xor(permutex2var(a, low, b), permutex2var(a, high, b)))
        By4(l) == Sum(X[l], X[l + 4], low256, high256)
        By2(l) == Sum(By4(l), By4(l + 2), low128, high128)
        By1(l) == Sum(By2(l), By2(l + 1), low64, high64)
        rows   == Fixed([g \in 0..2 |-> By1(8 * g)])
    IN  [l \in 0..24 |-> IF l < 24 THEN W(rows[l \div 8], l % 8)
                         ELSE Loop(LAMBDA s, j : Xor(s, W(X[24], j)), {}, 8)]

\* do .. while(--nBlocks != 0), for at least one block.
KravatteCompress(xAccu, kRoll, input, inputByteLen) ==
    LET n == inputByteLen \div 1600
        In(k, l) == Gathered(64, 8, input, 25, (200 * k) + l)
        Step(T, k) ==
          LET roll == Fixed(Rollc(T.x01234567, T.x12345678))
              I == Fixed([l \in 0..24 |-> Xor(In(k, l), IF l < 20 THEN Set1(8, kRoll[l])
                                                        ELSE roll.mask[l - 19])])
              P == Fixed(SixRounds(I))
          IN  [X |-> Fixed([l \in 0..24 |-> Xor(T.X[l], P[l])]),
               x01234567 |-> roll.x01234567, x12345678 |-> roll.x12345678]
        first == PrepareRollc(kRoll)
        end == Loop(Step, [X |-> [l \in 0..24 |-> {}], x01234567 |-> first.x01234567,
                           x12345678 |-> first.x12345678], n)
        sum == Fixed(Horizontally(end.X))
    IN  [xAccu |-> [l \in 0..24 |-> Xor(xAccu[l], sum[l])], done |-> 1600 * n,
         kRoll |-> [l \in 0..24 |-> IF l < 20 THEN kRoll[l] ELSE W(end.x01234567, l - 20)]]

\* Lanes 15 .. 24 of eight blocks: words j .. of x23456789, then of the new one.
Rolle(x01234567, x23456789) ==
    LET Ma == x01234567
        Me == Fixed(permutex2var(x01234567, <<1, 2, 3, 4, 5, 6, 7, 14>>, x23456789))
        Mi == x23456789
        new == Fixed(Xor(Xor(ROL(Ma, 7), ROL(Me, 18)), And(Mi, Srl(64, Me, 1))))
        From(j) == permutex2var(Mi, [m \in 1..8 |-> m - 1 + j], new)
    IN  [I |-> [l \in 15..24 |-> CASE l = 15 -> Ma [] l = 16 -> Me [] l = 17 -> Mi
                                   [] l > 17 -> From(l - 17)],
         x01234567 |-> From(6), x23456789 |-> new]

KravatteExpand(yAccu, kRoll, outputByteLen) ==
    LET n == outputByteLen \div 1600
        Step(T, k) ==
          LET roll == Fixed(Rolle(T.x01234567, T.x23456789))
              I == Fixed([l \in 0..24 |-> IF l < 15 THEN Set1(8, yAccu[l]) ELSE roll.I[l]])
              P == Fixed(SixRounds(I))
              K == Fixed([l \in 0..24 |-> Xor(P[l], Set1(8, kRoll[l]))])
          IN  [x01234567 |-> roll.x01234567, x23456789 |-> roll.x23456789,
               out |-> Join(T.out, 1600 * k, Scattered(64, 8, Zeroes(1600), 25, 25,
                                                       LAMBDA i, l : W(K[l], i)), 1600)]
        end == Loop(Step, [x01234567 |-> Words(yAccu, 15, 8), x23456789 |-> Words(yAccu, 17, 8),
                           out |-> Zeroes(0)], n)
    IN  [yAccu |-> [l \in 0..24 |-> CASE l < 15 -> yAccu[l]
                                     [] l \in 15..22 -> W(end.x01234567, l - 15)
                                     [] l > 22 -> W(end.x23456789, l - 17)],
         out |-> end.out, done |-> 1600 * n]

----------------------------------------------------------------------------
(***************************************************************************)
(* The functions above, by the call (see PermutationStates): the state     *)
(* after it, and what it returns.                                          *)
(***************************************************************************)
Call(S, c) ==
    CASE c.op = "InitializeAll"       -> Done(InitializeAll)
      [] c.op = "AddByte"             -> Done(AddByte(S, c.i, c.byte, c.offset))
      [] c.op = "AddBytes"            -> Done(AddBytes(S, c.i, c.data, c.offset, c.length))
      [] c.op = "OverwriteBytes"      -> Done(OverwriteBytes(S, c.i, c.data, c.offset, c.length))
      [] c.op = "OverwriteWithZeroes" -> Done(OverwriteWithZeroes(S, c.i, c.length))
      [] c.op = "ExtractBytes"        -> Got(S, ExtractBytes(S, c.i, c.offset, c.length))
      [] c.op = "ExtractAndAddBytes"  ->
           Got(S, ExtractAndAddBytes(S, c.i, c.data, c.offset, c.length))
      [] c.op = "AddLanesAll"         -> Done(AddLanesAll(S, c.data, c.laneCount, c.laneOffset))
      [] c.op = "OverwriteLanesAll"   -> Done(OverwriteLanesAll(S, c.data, c.laneCount, c.laneOffset))
      [] c.op = "ExtractLanesAll"     -> Got(S, ExtractLanesAll(S, c.data, c.laneCount, c.laneOffset))
      [] c.op = "ExtractAndAddLanesAll" ->
           Got(S, ExtractAndAddLanesAll(S, c.data, c.data2, c.laneCount, c.laneOffset))
      [] c.op = "Permute" -> Done(CASE c.rounds = 24 -> PermuteAll_24rounds(S)
                                    [] c.rounds = 12 -> PermuteAll_12rounds(S)
                                    [] c.rounds = 6  -> PermuteAll_6rounds(S)
                                    [] c.rounds = 4  -> PermuteAll_4rounds(S))
      [] c.op = "FastLoop_Absorb" ->
           LET r == Fixed(IF c.rounds = 24
                          THEN FastLoop_Absorb(S, c.laneCount, c.laneOffsetParallel,
                                   c.laneOffsetSerial, c.data, c.length)
                          ELSE FastLoop_Absorb_12rounds(S, c.laneCount, c.laneOffsetParallel,
                                   c.laneOffsetSerial, c.data, c.length))
           IN  Got(r.state, r.done)
      [] c.op = "ProcessLeaves" ->
           Got(S, IF c.rate = 168 THEN KT128ProcessLeaves(c.data) ELSE KT256ProcessLeaves(c.data))
      [] c.op = "KravatteCompress"    -> Got(S, KravatteCompress(c.x, c.k, c.data, c.length))
      [] c.op = "KravatteExpand"      -> Got(S, KravatteExpand(c.x, c.k, c.length))
=============================================================================
