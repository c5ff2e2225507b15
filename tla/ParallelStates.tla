--------------------------- MODULE ParallelStates ---------------------------
(***************************************************************************)
(* N states in parallel, as every vector implementation of lib/low keeps   *)
(* them: register l holds lane l of all of them, so that lane l of         *)
(* instance i is word l * N + i of the memory.  The operators below are    *)
(* what the implementations share; w is the width of a lane in bits.       *)
(***************************************************************************)
EXTENDS Lanes

At(w, S, i, l) == Lane(w, S[l], i)
PutLane(w, S, i, l, lane) ==
    [S EXCEPT ![l] = {b \in @ : b \div w # i} \cup AtLane(w, lane, i)]

\* The bytes offset .. offset + n - 1 of a lane, in memory, replaced by word.
Patched(w, lane, word, offset, n) ==
    {b \in lane : b \div 8 \notin offset .. offset + n - 1} \cup Shl(w, word, 8 * offset)

----------------------------------------------------------------------------
(***************************************************************************)
(* One instance: the part of a lane at each end of the range by memcpy(),  *)
(* the lanes between by assignment of a word.                              *)
(***************************************************************************)
InstanceAddByte(w, S, i, byte, offset) ==
    LET L == w \div 8
    IN  PutLane(w, S, i, offset \div L,
                Xor(At(w, S, i, offset \div L), Shl(w, byte, 8 * (offset % L))))

InstanceAddBytes(w, S, i, data, offset, length) ==
    PutPieces(S, data, offset, length,
              LAMBDA T, l, part, o, n :
                  PutLane(w, T, i, l, Xor(At(w, T, i, l), Shl(w, Word(part, 0, n), 8 * o))),
              w \div 8)

InstanceOverwriteBytes(w, S, i, data, offset, length) ==
    PutPieces(S, data, offset, length,
              LAMBDA T, l, part, o, n :
                  PutLane(w, T, i, l, Patched(w, At(w, T, i, l), Word(part, 0, n), o, n)),
              w \div 8)

InstanceOverwriteWithZeroes(w, S, i, byteCount) ==
    InstanceOverwriteBytes(w, S, i, Zeroes(byteCount), 0, byteCount)

InstanceExtractBytes(w, S, i, offset, length) ==
    GetPieces(Zeroes(length), offset, length,
              LAMBDA l, part, o, n : [k \in 0 .. n - 1 |-> ByteOf(At(w, S, i, l), o + k)],
              w \div 8)

InstanceExtractAndAddBytes(w, S, i, input, offset, length) ==
    GetPieces(input, offset, length,
              LAMBDA l, part, o, n :
                  [k \in 0 .. n - 1 |-> Xor(part[k], ByteOf(At(w, S, i, l), o + k))],
              w \div 8)

----------------------------------------------------------------------------
(***************************************************************************)
(* All instances: lane l of instance i is word laneOffset * i + l of the   *)
(* data.  An implementation gathers the words of one register (LOAD2_64,   *)
(* LOAD4_64, the gathers of AVX-512) or transposes some registers at once. *)
(***************************************************************************)
DataWord(w, data, laneOffset, i, l) ==
    LET L == w \div 8 IN Word(data, L * (laneOffset * i + l), L)

Gathered(w, N, data, laneOffset, l) ==
    Register(w, N, LAMBDA i : DataWord(w, data, laneOffset, i, l))

\* The lanes below laneCount become New(l).
Lanewise(S, laneCount, New(_)) == [l \in DOMAIN S |-> IF l < laneCount THEN New(l) ELSE S[l]]

\* The buffer data with New(i, l) where lane l of instance i goes.  What lies
\* between the instances stays.
Scattered(w, N, data, laneCount, laneOffset, New(_, _)) ==
    LET L == w \div 8
    IN  [k \in DOMAIN data |->
            LET i == k \div (L * laneOffset)
                l == (k % (L * laneOffset)) \div L
            IN  IF i < N /\ l < laneCount THEN ByteOf(New(i, l), k % L) ELSE data[k]]

(***************************************************************************)
(* How many of the first lanes go in groups of two or four.                *)
(***************************************************************************)
Grouped(laneCount) == IF laneCount >= 20 THEN 20 ELSE IF laneCount >= 16 THEN 16 ELSE 0

(***************************************************************************)
(* AVX-512 with fewer than 8 states of 64-bit lanes: a register of 512     *)
(* bits is 8 \div N lanes of the N states, and word j of it is, in the     *)
(* data, at index512 from the first lane.                                  *)
(***************************************************************************)
index512(N, laneOffset, j) == (laneOffset * (j % N)) + (j \div N)

LOCAL Gather8(N, data, laneOffset, lane) ==
    Register(64, 8, LAMBDA j : Word(data, 8 * (lane + index512(N, laneOffset, j)), 8))

GatheredBy512(N, data, laneCount, laneOffset, l) ==
    LET G == 8 \div N
    IN  IF l < Grouped(laneCount)
        THEN Lane(64 * N, Gather8(N, data, laneOffset, l - (l % G)), l % G)
        ELSE Gathered(64, N, data, laneOffset, l)

\* Scattered over data, when Reg(l) is the register of lane l.
ScatteredBy512(N, data, laneCount, laneOffset, Reg(_)) ==
    LET G    == 8 \div N
        Index(i, l) == CHOOSE j \in 0..7 : \* where lane l of instance i is in its group
                          index512(N, laneOffset, j) = (laneOffset * i) + (l % G)
        V512(l) == Register(64 * N, G, LAMBDA g : Reg((l - (l % G)) + g))
    IN  Scattered(64, N, data, laneCount, laneOffset,
                  LAMBDA i, l : IF l < Grouped(laneCount)
                                THEN Lane(64, V512(l), Index(i, l))
                                ELSE Lane(64, Reg(l), i))

(***************************************************************************)
(* The loops that absorb blocks in all instances: as long as a block of    *)
(* the last instance is within the data.                                   *)
(***************************************************************************)
AbsorbLoop(w, N, S, laneCount, laneOffsetParallel, laneOffsetSerial, data, dataByteLen,
           AddLanesAll(_, _), P(_)) ==
    LET L    == w \div 8
        need == (laneOffsetParallel * (N - 1) + laneCount) * L
        n    == IF dataByteLen < need THEN 0
                ELSE ((dataByteLen - need) \div (L * laneOffsetSerial)) + 1
        Rest(k) == LET p == L * laneOffsetSerial * k IN Slice(data, p, dataByteLen - p)
    IN  [state |-> Loop(LAMBDA T, k : P(AddLanesAll(T, Rest(k))), S, n),
         done  |-> L * laneOffsetSerial * n]

(***************************************************************************)
(* KT128 and KT256, N leaves of chunkSize bytes at once: blocks of rate    *)
(* lanes, of which the last is not full, with the suffix 0x0B after it and *)
(* the last bit of the padding at the end of the block.  In(p, n) are the  *)
(* registers of n lanes from lane p of the leaves.                         *)
(***************************************************************************)
ProcessLeaves(N, chunkSize, rate, In(_, _), P(_)) ==
    LET n    == (chunkSize - 1) \div (8 * rate)   \* for(j = 0; j < chunkSize - rateInBytes; ..
        last == (chunkSize \div 8) - (n * rate)
        XORdata(S, p, count) ==
            With(In(p, count), LAMBDA in : Lanewise(S, count, LAMBDA l : Xor(S[l], in[l])))
        S    == XORdata(Loop(LAMBDA T, k : P(XORdata(T, rate * k, rate)), [l \in 0..24 |-> {}], n),
                        rate * n, last)
    IN  P([S EXCEPT ![last]     = Xor(@, Register(64, N, LAMBDA i : {0, 1, 3})),
                    ![rate - 1] = Xor(@, Register(64, N, LAMBDA i : {63}))])
=============================================================================
