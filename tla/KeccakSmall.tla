----------------------------- MODULE KeccakSmall -----------------------------
(***************************************************************************)
(* The implementations of Keccak-p[1600] for small processors:             *)
(* KeccakP-1600/compact (64-bit lanes, compact code, here compact_...),    *)
(* ref-32bits (a reference with bit-interleaved lanes, ref32_...) and      *)
(* plain-32bits-inplace (optimized, bit-interleaved, in place,             *)
(* inplace_...).                                                           *)
(*                                                                         *)
(* A bit-interleaved lane is two words of 32 bits: the bits at even        *)
(* positions and those at odd ones.  The state is then 50 half lanes, half *)
(* z of lane l being word 2 * l + z.                                       *)
(***************************************************************************)
EXTENDS ReferencePermutations

LOCAL LaneOf(low, high) == low \cup Shl(64, high, 32)
LOCAL Low(lane)  == lane \cap (0..31)
LOCAL High(lane) == Shr(lane, 32)

LOCAL LaneBytes(lane, offset, n) == [i \in 0 .. n - 1 |-> ByteOf(lane, offset + i)]
LOCAL XorOf(input, bytes, n) == XorBytes(input, bytes, n)

----------------------------------------------------------------------------
(***************************************************************************)
(* compact64: lanes in memory, little-endian.                              *)
(***************************************************************************)
compact_Initialize == [l \in 0..24 |-> {}]

compact_AddByte(A, byte, offset) ==
    [A EXCEPT ![offset \div 8] = Xor(@, Shl(64, byte, 8 * (offset % 8)))]

compact_AddBytesInLane(A, l, data, offset, length) ==
    [A EXCEPT ![l] = Xor(@, Shl(64, Word(data, 0, length), 8 * offset))]

compact_AddLanes(A, data, laneCount) ==
    [l \in 0..24 |-> IF l < laneCount THEN Xor(A[l], Word(data, 8 * l, 8)) ELSE A[l]]

compact_AddBytes(A, data, offset, length) ==
    SnP_PutBytes(A, data, offset, length, compact_AddLanes, compact_AddBytesInLane, 8)

LOCAL Replaced(lane, word, offset, n) ==
    {b \in lane : b \div 8 \notin offset .. offset + n - 1} \cup Shl(64, word, 8 * offset)

compact_OverwriteBytesInLane(A, l, data, offset, length) ==
    [A EXCEPT ![l] = Replaced(@, Word(data, 0, length), offset, length)]

compact_OverwriteLanes(A, data, laneCount) ==
    [l \in 0..24 |-> IF l < laneCount THEN Word(data, 8 * l, 8) ELSE A[l]]

compact_OverwriteBytes(A, data, offset, length) ==
    SnP_PutBytes(A, data, offset, length, compact_OverwriteLanes, compact_OverwriteBytesInLane, 8)

compact_OverwriteWithZeroes(A, byteCount) ==
    [l \in 0..24 |-> {b \in A[l] : (8 * l) + (b \div 8) >= byteCount}]

compact_ExtractBytesInLane(A, l, offset, length) == LaneBytes(A[l], offset, length)

compact_ExtractLanes(A, laneCount) == FromWordsToBytes(A, laneCount, 8)

compact_ExtractBytes(A, offset, length) ==
    SnP_GetBytes(Zeroes(length), offset, length,
                 LAMBDA data, n : compact_ExtractLanes(A, n),
                 LAMBDA l, data, o, n : compact_ExtractBytesInLane(A, l, o, n), 8)

compact_ExtractAndAddBytesInLane(A, l, input, offset, length) ==
    XorOf(input, LaneBytes(A[l], offset, length), length)

compact_ExtractAndAddLanes(A, input, laneCount) ==
    XorOf(input, FromWordsToBytes(A, laneCount, 8), 8 * laneCount)

compact_ExtractAndAddBytes(A, input, offset, length) ==
    SnP_GetBytes(input, offset, length,
                 LAMBDA data, n : compact_ExtractAndAddLanes(A, data, n),
                 LAMBDA l, data, o, n : compact_ExtractAndAddBytesInLane(A, l, data, o, n), 8)

KeccakP1600_RotationConstants ==
  << 1, 3, 6, 10, 15, 21, 28, 36, 45, 55, 2, 14, 27, 41, 56, 8, 25, 43, 62, 18, 39, 61, 20, 44 >>
KeccakP1600_PiLane ==
  << 10, 7, 11, 17, 18, 3, 5, 16, 8, 21, 24, 4, 15, 23, 19, 13, 12, 2, 20, 14, 22, 9, 6, 1 >>

\* Bit 2^j - 1 is set when the bit that leaves the register at step j is.
KeccakF1600_GetNextRoundConstant(LFSR) ==
    Loop(LAMBDA s, j : [LFSR |-> LFSR86540(s.LFSR),
                        rc |-> IF 0 \in s.LFSR THEN s.rc \cup {2 ^ j - 1} ELSE s.rc],
         [LFSR |-> LFSR, rc |-> {}], 7)

\* One round: the lanes move along the cycle of pi, one at a time.
LOCAL CompactRound(A, rc) ==
    LET BC == Fixed([x \in 0..4 |-> Xor(A[x], Xor(A[5+x], Xor(A[10+x], Xor(A[15+x], A[20+x]))))])
        T == Fixed([l \in 0..24 |-> Xor(A[l], Xor(BC[((l % 5) + 4) % 5],
                                                  ROL64(BC[((l % 5) + 1) % 5], 1)))])
        Move(S, x) == LET to == KeccakP1600_PiLane[x + 1]
                      IN  [A |-> [S.A EXCEPT ![to] = ROL64(S.temp, KeccakP1600_RotationConstants[x + 1])],
                           temp |-> S.A[to]]
        R == Loop(Move, [A |-> T, temp |-> T[1]], 24).A
    IN  [l \in 0..24 |->
            LET y == l - (l % 5)
                chi_ == Xor(R[l], R[y + ((l + 2) % 5)] \ R[y + ((l + 1) % 5)])
            IN  IF l = 0 THEN Xor(chi_, rc) ELSE chi_]

compact_Permute_NroundsLFSR(A, rounds, LFSRinitialState) ==
    Loop(LAMBDA S, k : LET next == KeccakF1600_GetNextRoundConstant(S.LFSR)
                       IN  [A |-> CompactRound(S.A, next.rc), LFSR |-> next.LFSR],
         [A |-> A, LFSR |-> LFSRinitialState], rounds).A

compact_Permute_Nrounds(A, nrounds) ==
    compact_Permute_NroundsLFSR(A, nrounds,
        Loop(LAMBDA s, k : KeccakF1600_GetNextRoundConstant(s).LFSR, {0}, 24 - nrounds))
compact_Permute_12rounds(A) == compact_Permute_NroundsLFSR(A, 12, {0, 2, 4, 6, 7})
compact_Permute_24rounds(A) == compact_Permute_NroundsLFSR(A, 24, {0})

----------------------------------------------------------------------------
(***************************************************************************)
(* ref-32bits: interleaving, bit by bit.                                   *)
(***************************************************************************)
ref32_toBitInterleaving(lane)  == [z \in 0..1 |-> {(b - z) \div 2 : b \in {c \in lane : c % 2 = z}}]
ref32_fromBitInterleaving(even, odd) == {2 * b : b \in even} \cup {(2 * b) + 1 : b \in odd}

LOCAL ref32_Lane(A, l) == ref32_fromBitInterleaving(A[2 * l], A[2 * l + 1])
LOCAL ref32_SetLane(A, l, lane) ==
    LET in == ref32_toBitInterleaving(lane) IN [A EXCEPT ![2 * l] = in[0], ![2 * l + 1] = in[1]]

ref32_Initialize == [h \in 0..49 |-> {}]

ref32_AddBytesInLane(A, l, data, offset, length) ==
    LET in == ref32_toBitInterleaving(Shl(64, Word(data, 0, length), 8 * offset))
    IN  [A EXCEPT ![2 * l] = Xor(@, in[0]), ![2 * l + 1] = Xor(@, in[1])]

ref32_AddBytes(A, data, offset, length) ==
    PutPieces(A, data, offset, length, ref32_AddBytesInLane, 8)

ref32_AddByte(A, byte, offset) == ref32_AddBytes(A, [i \in {0} |-> byte], offset, 1)

ref32_OverwriteBytesInLane(A, l, data, offset, length) ==
    ref32_SetLane(A, l, Replaced(ref32_Lane(A, l), Word(data, 0, length), offset, length))

ref32_OverwriteBytes(A, data, offset, length) ==
    PutPieces(A, data, offset, length, ref32_OverwriteBytesInLane, 8)

\* The whole lanes, then the bytes of the last one.
ref32_OverwriteWithZeroes(A, byteCount) ==
    LET B == [h \in 0..49 |-> IF h \div 2 < byteCount \div 8 THEN {} ELSE A[h]]
        n == byteCount % 8
    IN  IF n = 0 THEN B ELSE ref32_OverwriteBytesInLane(B, byteCount \div 8, Zeroes(n), 0, n)

ref32_ExtractBytesInLane(A, l, offset, length) == LaneBytes(ref32_Lane(A, l), offset, length)

ref32_ExtractBytes(A, offset, length) ==
    GetPieces(Zeroes(length), offset, length,
              LAMBDA l, data, o, n : ref32_ExtractBytesInLane(A, l, o, n), 8)

ref32_ExtractAndAddBytesInLane(A, l, input, offset, length) ==
    XorOf(input, ref32_ExtractBytesInLane(A, l, offset, length), length)

ref32_ExtractAndAddBytes(A, input, offset, length) ==
    GetPieces(input, offset, length,
              LAMBDA l, data, o, n : ref32_ExtractAndAddBytesInLane(A, l, data, o, n), 8)

ROL32(a, offset) == Rol(32, a, offset)

\* ROL64 of the two halves: by an odd offset they change places.
ref32_ROL64(h, offset) ==
    [z \in 0..1 |-> IF offset % 2 = 0 THEN ROL32(h[z], offset \div 2)
                    ELSE IF z = 0 THEN ROL32(h[1], (offset + 1) \div 2)
                    ELSE ROL32(h[0], (offset - 1) \div 2)]

LOCAL Halves(A, l) == [z \in 0..1 |-> A[2 * l + z]]
LOCAL PerHalf(F(_, _)) == [h \in 0..49 |-> F(h \div 2, h % 2)]

ref32_theta(A) ==
    LET C == Fixed([x \in 0..4 |-> [z \in 0..1 |->
                Xor(A[2*x+z], Xor(A[2*(x+5)+z], Xor(A[2*(x+10)+z], Xor(A[2*(x+15)+z], A[2*(x+20)+z]))))]])
        D == Fixed([x \in 0..4 |-> LET r == ref32_ROL64(C[(x + 1) % 5], 1)
                                   IN  [z \in 0..1 |-> Xor(r[z], C[(x + 4) % 5][z])]])
    IN  PerHalf(LAMBDA l, z : Xor(A[2 * l + z], D[l % 5][z]))
ref32_rho(A) == PerHalf(LAMBDA l, z : ref32_ROL64(Halves(A, l), KeccakRhoOffsets[l])[z])
ref32_pi(A)  == PerHalf(LAMBDA l, z : LET x == l % 5 y == l \div 5
                                      IN  A[2 * (((x + 3 * y) % 5) + 5 * x) + z])
ref32_chi(A) ==
    PerHalf(LAMBDA l, z : LET x == l % 5 y == l - x
                          IN  Xor(A[2 * l + z], And(Not(32, A[2 * (((x + 1) % 5) + y) + z]),
                                                    A[2 * (((x + 2) % 5) + y) + z])))
ref32_iota(A, i) ==
    LET rc == ref32_toBitInterleaving(KeccakRoundConstants[i])
    IN  [A EXCEPT ![0] = Xor(@, rc[0]), ![1] = Xor(@, rc[1])]

ref32_Permute_Nrounds(A, nrounds) ==
    Loop(LAMBDA S, k : ref32_iota(ref32_chi(ref32_pi(ref32_rho(ref32_theta(S)))), 24 - nrounds + k),
         A, nrounds)

----------------------------------------------------------------------------
(***************************************************************************)
(* plain-32bits-inplace: interleaving by exchanges of groups of bits.      *)
(***************************************************************************)
LOCAL Exchange(t, n, mask) == LET temp == And(Xor(t, Shr(t, n)), mask)
                              IN  Xor(Xor(t, temp), Shl(32, temp, n))
LOCAL Mask(n) == CASE n = 1 -> {b \in 0..31 : b % 4 = 1}
                   [] n = 2 -> {b \in 0..31 : b % 8 \in {2, 3}}
                   [] n = 4 -> {b \in 0..31 : b % 16 \in 4..7}
                   [] n = 8 -> 8..15

prepareToBitInterleaving(word) ==
    Exchange(Exchange(Exchange(Exchange(word, 1, Mask(1)), 2, Mask(2)), 4, Mask(4)), 8, Mask(8))

inplace_toBitInterleaving(lane) ==
    LET t0 == prepareToBitInterleaving(Low(lane))
        t1 == prepareToBitInterleaving(High(lane))
    IN  [z \in 0..1 |-> IF z = 0 THEN Or(t0 \cap (0..15), Shl(32, t1, 16))
                        ELSE Or(Shr(t0, 16), t1 \ (0..15))]

inplace_fromBitInterleaving(even, odd) ==
    LET t0 == Or(even \cap (0..15), Shl(32, odd, 16))
        t1 == Or(Shr(even, 16), odd \ (0..15))
        Back(t) == Exchange(Exchange(Exchange(Exchange(t, 8, Mask(8)), 4, Mask(4)), 2, Mask(2)), 1, Mask(1))
    IN  LaneOf(Back(t0), Back(t1))

LOCAL inplace_Lane(A, l) == inplace_fromBitInterleaving(A[2 * l], A[2 * l + 1])

inplace_Initialize == [h \in 0..49 |-> {}]

inplace_SetBytesInLaneToZero(A, l, offset, length) ==
    LET keep == inplace_toBitInterleaving({b \in 0..63 : b \div 8 \notin offset .. offset + length - 1})
    IN  [A EXCEPT ![2 * l] = And(@, keep[0]), ![2 * l + 1] = And(@, keep[1])]

inplace_AddLane(A, l, lane) ==   \* toBitInterleavingAndXOR
    LET in == inplace_toBitInterleaving(lane)
    IN  [A EXCEPT ![2 * l] = Xor(@, in[0]), ![2 * l + 1] = Xor(@, in[1])]

inplace_AddByte(A, byte, offset) ==
    inplace_AddLane(A, offset \div 8, Shl(64, byte, 8 * (offset % 8)))
inplace_AddBytesInLane(A, l, data, offset, length) ==
    inplace_AddLane(A, l, Shl(64, Word(data, 0, length), 8 * offset))
inplace_AddLanes(A, data, laneCount) ==
    Loop(LAMBDA S, l : inplace_AddLane(S, l, Word(data, 8 * l, 8)), A, laneCount)
inplace_AddBytes(A, data, offset, length) ==
    SnP_PutBytes(A, data, offset, length, inplace_AddLanes, inplace_AddBytesInLane, 8)

inplace_OverwriteBytesInLane(A, l, data, offset, length) ==
    inplace_AddBytesInLane(inplace_SetBytesInLaneToZero(A, l, offset, length), l, data, offset, length)
inplace_OverwriteLanes(A, data, laneCount) ==
    Loop(LAMBDA S, l : LET in == inplace_toBitInterleaving(Word(data, 8 * l, 8))
                       IN  [S EXCEPT ![2 * l] = in[0], ![2 * l + 1] = in[1]], A, laneCount)
inplace_OverwriteBytes(A, data, offset, length) ==
    SnP_PutBytes(A, data, offset, length, inplace_OverwriteLanes, inplace_OverwriteBytesInLane, 8)
inplace_OverwriteWithZeroes(A, byteCount) ==
    LET B == [h \in 0..49 |-> IF h \div 2 < byteCount \div 8 THEN {} ELSE A[h]]
    IN  IF byteCount % 8 = 0 THEN B
        ELSE inplace_SetBytesInLaneToZero(B, byteCount \div 8, 0, byteCount % 8)

inplace_ExtractBytesInLane(A, l, offset, length) == LaneBytes(inplace_Lane(A, l), offset, length)
inplace_ExtractLanes(A, laneCount) ==
    FromWordsToBytes([l \in 0 .. laneCount - 1 |-> inplace_Lane(A, l)], laneCount, 8)
inplace_ExtractBytes(A, offset, length) ==
    SnP_GetBytes(Zeroes(length), offset, length,
                 LAMBDA data, n : inplace_ExtractLanes(A, n),
                 LAMBDA l, data, o, n : inplace_ExtractBytesInLane(A, l, o, n), 8)
inplace_ExtractAndAddBytesInLane(A, l, input, offset, length) ==
    XorOf(input, LaneBytes(inplace_Lane(A, l), offset, length), length)
inplace_ExtractAndAddLanes(A, input, laneCount) ==
    XorOf(input, inplace_ExtractLanes(A, laneCount), 8 * laneCount)
inplace_ExtractAndAddBytes(A, input, offset, length) ==
    SnP_GetBytes(input, offset, length,
                 LAMBDA data, n : inplace_ExtractAndAddLanes(A, data, n),
                 LAMBDA l, data, o, n : inplace_ExtractAndAddBytesInLane(A, l, data, o, n), 8)

(***************************************************************************)
(* KeccakRound0 .. KeccakRound3.  The rows b, g, k, m and s of the result, *)
(* even half then odd half: the half lanes they are made from, Ba .. Bu.   *)
(* The result of column x goes to the one of them that lies in column x.   *)
(***************************************************************************)
KeccakRound0 ==
  << <<0, 12, 25, 37, 48>>, <<1, 13, 24, 36, 49>>,
     <<6, 18, 21, 33, 45>>, <<7, 19, 20, 32, 44>>,
     <<3, 14, 27, 38, 40>>, <<2, 15, 26, 39, 41>>,
     <<9, 10, 22, 35, 46>>, <<8, 11, 23, 34, 47>>,
     <<4, 17, 29, 31, 42>>, <<5, 16, 28, 30, 43>> >>
KeccakRound1 ==
  << <<0, 33, 15, 47, 29>>, <<1, 32, 14, 46, 28>>,
     <<37, 18, 41, 23, 5>>, <<36, 19, 40, 22, 4>>,
     <<13, 45, 26, 9, 31>>, <<12, 44, 27, 8, 30>>,
     <<49, 21, 3, 34, 17>>, <<48, 20, 2, 35, 16>>,
     <<25, 7, 39, 11, 42>>, <<24, 6, 38, 10, 43>> >>
KeccakRound2 ==
  << <<0, 23, 44, 16, 39>>, <<1, 22, 45, 17, 38>>,
     <<47, 18, 30, 2, 24>>, <<46, 19, 31, 3, 25>>,
     <<32, 5, 27, 49, 11>>, <<33, 4, 26, 48, 10>>,
     <<28, 41, 13, 35, 7>>, <<29, 40, 12, 34, 6>>,
     <<15, 36, 8, 20, 42>>, <<14, 37, 9, 21, 43>> >>
KeccakRound3 ==
  << <<0, 2, 4, 6, 8>>, <<1, 3, 5, 7, 9>>,
     <<16, 18, 10, 12, 14>>, <<17, 19, 11, 13, 15>>,
     <<22, 24, 26, 28, 20>>, <<23, 25, 27, 29, 21>>,
     <<38, 30, 32, 34, 36>>, <<39, 31, 33, 35, 37>>,
     <<44, 46, 48, 40, 42>>, <<45, 47, 49, 41, 43>> >>

LOCAL KeccakRounds == << KeccakRound0, KeccakRound1, KeccakRound2, KeccakRound3 >>
LOCAL Column(h) == (h \div 2) % 5

\* Where round k leaves half z of lane (x, y).
LOCAL Holds(k, x, y, z) ==
    LET row == KeccakRounds[k + 1][2 * y + z + 1]
    IN  row[CHOOSE j \in 1..5 : Column(row[j]) = x]

\* Ba .. Bu of the rows: the column of D, and the rotation of the whole lane.
LOCAL From == << <<0, 1, 2, 3, 4>>, <<3, 4, 0, 1, 2>>, <<1, 2, 3, 4, 0>>, <<4, 0, 1, 2, 3>>,
                 <<2, 3, 4, 0, 1>> >>
LOCAL By   == << <<0, 44, 43, 21, 14>>, <<28, 20, 3, 45, 61>>, <<1, 6, 25, 8, 18>>,
                 <<27, 36, 10, 15, 56>>, <<62, 55, 39, 41, 2>> >>

inplace_Round(A, k, rc) ==
    LET before == (k + 3) % 4
        C == Fixed([x \in 0..4 |-> [z \in 0..1 |->
                Loop(LAMBDA s, y : Xor(s, A[Holds(before, x, y, z)]), {}, 5)]])
        D == Fixed([x \in 0..4 |-> [z \in 0..1 |->
                Xor(C[(x + 4) % 5][z], IF z = 0 THEN ROL32(C[(x + 1) % 5][1], 1)
                                       ELSE C[(x + 1) % 5][0])]])
        Row(S, r) ==
          LET y == r \div 2
              z == r % 2
              in == KeccakRounds[k + 1][r + 1]
              Rolled(x) == LET by == By[y + 1][x + 1]
                               from == IF by % 2 = 0 THEN z ELSE 1 - z
                           IN  ROL32(Xor(S[in[x + 1]], D[From[y + 1][x + 1]][from]),
                                     IF z = 0 THEN (by + 1) \div 2 ELSE by \div 2)
              B == Fixed([x \in 0..4 |-> Rolled(x)])
              New(x) == Xor(Xor(B[x], B[(x + 2) % 5] \ B[(x + 1) % 5]),
                            IF x = 0 /\ y = 0 THEN rc[z] ELSE {})
          IN  [h \in 0..49 |-> IF \E j \in 1..5 : in[j] = h THEN New(Column(h)) ELSE S[h]]
    IN  Loop(Row, A, 10)

\* The lanes are first put where the first round finds them, a half h of lane
\* to coming from half h xor eo of lane from.
LOCAL Shuffled(A, moves) ==
    LET Move(h) == {m \in moves : m[1] = h \div 2}
    IN  [h \in 0..49 |-> IF Move(h) = {} THEN A[h]
                         ELSE LET m == CHOOSE n \in Move(h) : n = n
                                  z == IF m[3] = 0 THEN h % 2 ELSE 1 - (h % 2)
                              IN  A[2 * m[2] + z]]
SwapPI13(in0, in1, in2, in3, eo0, eo1, eo2, eo3) ==
    {<<in0, in1, eo0>>, <<in1, in2, eo1>>, <<in2, in3, eo2>>, <<in3, in0, eo3>>}
SwapPI2(in0, in1, in2, in3) == {<<in0, in1, 1>>, <<in1, in0, 1>>, <<in2, in3, 1>>, <<in3, in2, 1>>}
SwapEO(lane) == {<<lane, lane, 1>>}

inplace_Shuffle(A, nRounds) ==
    CASE nRounds = 0 -> A
      [] nRounds = 1 -> Shuffled(A, UNION {
            SwapPI13(5, 10, 20, 15, 1, 0, 1, 0), SwapPI13(1, 6, 16, 11, 0, 1, 0, 1),
            SwapPI13(2, 12, 7, 22, 1, 0, 1, 0), SwapEO(17),
            SwapPI13(3, 18, 23, 8, 1, 0, 1, 0), SwapEO(13), SwapPI13(4, 24, 14, 19, 0, 1, 0, 1)})
      [] nRounds = 2 -> Shuffled(A, UNION {
            SwapPI2(5, 20, 10, 15), SwapPI2(1, 16, 6, 11), SwapPI2(2, 7, 12, 22),
            SwapPI2(3, 23, 8, 18), SwapPI2(4, 14, 19, 24)})
      [] nRounds = 3 -> Shuffled(A, UNION {
            SwapPI13(5, 15, 20, 10, 0, 1, 0, 1), SwapPI13(1, 11, 16, 6, 1, 0, 1, 0),
            SwapPI13(2, 22, 7, 12, 0, 1, 0, 1), SwapEO(17),
            SwapPI13(3, 8, 23, 18, 0, 1, 0, 1), SwapEO(13), SwapPI13(4, 19, 14, 24, 1, 0, 1, 0)})

\* switch ( nRounds ), falling through to KeccakRound3, until the constants end.
inplace_Permute_Nrounds(A, nRounds) ==
    LET first == (4 - (nRounds % 4)) % 4
        Round(S, j) == inplace_Round(S, (first + j) % 4,
                                     ref32_toBitInterleaving(KeccakRoundConstants[24 - nRounds + j]))
    IN  Loop(Round, inplace_Shuffle(A, nRounds % 4), nRounds)

----------------------------------------------------------------------------
(***************************************************************************)
(* The functions above, by the call (see PermutationStates): the state     *)
(* after it, and what it returns.                                          *)
(***************************************************************************)
compact_Call(S, c) ==
    CASE c.op = "InitializeAll"       -> Done(compact_Initialize)
      [] c.op = "AddByte"             -> Done(compact_AddByte(S, c.byte, c.offset))
      [] c.op = "AddBytes"            -> Done(compact_AddBytes(S, c.data, c.offset, c.length))
      [] c.op = "OverwriteBytes"      -> Done(compact_OverwriteBytes(S, c.data, c.offset, c.length))
      [] c.op = "OverwriteWithZeroes" -> Done(compact_OverwriteWithZeroes(S, c.length))
      [] c.op = "ExtractBytes"        -> Got(S, compact_ExtractBytes(S, c.offset, c.length))
      [] c.op = "ExtractAndAddBytes"  -> Got(S, compact_ExtractAndAddBytes(S, c.data, c.offset, c.length))
      [] c.op = "Permute" -> Done(CASE c.rounds = 24 -> compact_Permute_24rounds(S)
                                    [] c.rounds = 12 -> compact_Permute_12rounds(S)
                                    [] c.rounds \notin {12, 24} -> compact_Permute_Nrounds(S, c.rounds))

ref32_Call(S, c) ==
    CASE c.op = "InitializeAll"       -> Done(ref32_Initialize)
      [] c.op = "AddByte"             -> Done(ref32_AddByte(S, c.byte, c.offset))
      [] c.op = "AddBytes"            -> Done(ref32_AddBytes(S, c.data, c.offset, c.length))
      [] c.op = "OverwriteBytes"      -> Done(ref32_OverwriteBytes(S, c.data, c.offset, c.length))
      [] c.op = "OverwriteWithZeroes" -> Done(ref32_OverwriteWithZeroes(S, c.length))
      [] c.op = "ExtractBytes"        -> Got(S, ref32_ExtractBytes(S, c.offset, c.length))
      [] c.op = "ExtractAndAddBytes"  -> Got(S, ref32_ExtractAndAddBytes(S, c.data, c.offset, c.length))
      [] c.op = "Permute"             -> Done(ref32_Permute_Nrounds(S, c.rounds))

inplace_Call(S, c) ==
    CASE c.op = "InitializeAll"       -> Done(inplace_Initialize)
      [] c.op = "AddByte"             -> Done(inplace_AddByte(S, c.byte, c.offset))
      [] c.op = "AddBytes"            -> Done(inplace_AddBytes(S, c.data, c.offset, c.length))
      [] c.op = "OverwriteBytes"      -> Done(inplace_OverwriteBytes(S, c.data, c.offset, c.length))
      [] c.op = "OverwriteWithZeroes" -> Done(inplace_OverwriteWithZeroes(S, c.length))
      [] c.op = "ExtractBytes"        -> Got(S, inplace_ExtractBytes(S, c.offset, c.length))
      [] c.op = "ExtractAndAddBytes"  -> Got(S, inplace_ExtractAndAddBytes(S, c.data, c.offset, c.length))
      [] c.op = "Permute"             -> Done(inplace_Permute_Nrounds(S, c.rounds))
=============================================================================
