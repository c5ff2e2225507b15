------------------------------ MODULE Farfalle ------------------------------
(***************************************************************************)
(* The deck function Kravatte (Kravatte.c; Xoofff.c has the same           *)
(* functions on Xoodoo) and the wide block cipher on it (KravatteModes.c). *)
(*                                                                         *)
(* Buffers are sequences of bits.  A bit is the set of what is XORed to    *)
(* make it: the constant 1, bits of the caller (<<source, i>>, with a      *)
(* negative source) and bits of output blocks (<<number, i>>).  A          *)
(* key is a sequence of bits and its mask rolled n times is <<key, n>>.    *)
(* The accumulator is the set of what was XORed to it: a mask with the     *)
(* block that was added to it and then permuted.  Output blocks are        *)
(* numbered as they are first made, in the field made of an instance;      *)
(* two blocks are the same if and only if they are made of the same        *)
(* accumulator, rolled as often, and the same mask.                        *)
(***************************************************************************)
EXTENDS Integers, SequencesExt

CONSTANTS byte,           \* bits of a byte
          width,          \* bits of a block, whole bytes
          Parallelism,    \* numbers of blocks handled at once: 8, 4 and 2
          WBCAE_t         \* bits of redundancy, whole bytes

ASSUME FarfalleAssumption == byte \in Nat \ {0} /\ width \in Nat \ {0} /\ width % byte = 0

one == {<<0, 0>>}
zero == {}
Xor(a, b) == (a \ b) \cup (b \ a)
Zeroes(n) == [i \in 1..n |-> zero]
From(s, i) == SubSeq(s, i + 1, Len(s))       \* s + i
First(s, n) == SubSeq(s, 1, n)
LOCAL Min2(a, b) == IF a < b THEN a ELSE b
\* memcpy(t + offset, s, Len(s))
Copied(t, offset, s) ==
    [i \in DOMAIN t |-> IF i - offset \in DOMAIN s THEN s[i - offset] ELSE t[i]]

Result(kv, ret) == [kv |-> kv, ret |-> ret]

\* The most blocks at once first, and one by one in the end.
AtOnce == SetToSortSeq(Parallelism \cup {1}, >)

----------------------------------------------------------------------------
(***************************************************************************)
(* Compression.                                                            *)
(***************************************************************************)
Padded(s) == s \o <<one>> \o Zeroes(width - 1 - Len(s))

Kravatte_MaskDerivation(kv, Key) ==
    IF Len(Key) >= width THEN Result(kv, 1)
    ELSE Result([kv EXCEPT !.k = Padded(Key), !.kRoll = 0, !.xAccu = {},
                           !.phase = "COMPRESSING", !.queueOffset = 0], 0)

\* ParallelCompressLoopFast(N), ParallelCompressLoopPlSnP(N) or, for one, the last
\* loop: the masks of the N blocks are rolled one after the other.
CompressLoop(S, N) ==
    LET n == N * (Len(S.message) \div (N * width))
        Block(i) == SubSeq(S.message, (i * width) + 1, (i + 1) * width)
    IN  [kRoll |-> S.kRoll + n,
         xAccu |-> Xor(S.xAccu, {[mask |-> <<S.k, S.kRoll + i>>, block |-> Block(i)] : i \in 0 .. n - 1}),
         message |-> From(S.message, n * width), k |-> S.k]

\* The last block, padded; the mask is rolled once more after it.
LastBlock(S) == [S EXCEPT !.kRoll = @ + 2, !.message = << >>,
                          !.xAccu = Xor(@, {[mask |-> <<S.k, S.kRoll>>, block |-> Padded(S.message)]})]

\* The instance, and what is left of the message.
Compressed(kv, S) == [kv |-> [kv EXCEPT !.kRoll = S.kRoll, !.xAccu = S.xAccu], message |-> S.message]
Kra_Compress(kv, message, lastFlag) ==
    LET Loops(S) == FoldLeft(CompressLoop, S, AtOnce)
        Final(S) == IF lastFlag THEN LastBlock(S) ELSE S
    IN  Compressed(kv, Final(Loops([kRoll |-> kv.kRoll, xAccu |-> kv.xAccu, message |-> message, k |-> kv.k])))

\* if ( (flags & KRAVATTE_FLAG_INIT) != 0 )
Initialized(kv, flags) ==
    IF "INIT" \in flags THEN [kv EXCEPT !.kRoll = 0, !.xAccu = {}, !.queueOffset = 0] ELSE kv

\* Data is queued already: n bits are added.  The instance, what is left of the input,
\* and whether the string has ended in the queue.
Enqueued(kv, s) == [kv EXCEPT !.queue = Copied(@, kv.queueOffset, s), !.queueOffset = @ + Len(s)]
QueueCompressed(kv, lastFlag) ==
    [Kra_Compress(kv, First(kv.queue, kv.queueOffset), lastFlag).kv EXCEPT !.queueOffset = 0]
Queued(kv, rest, final) ==
    IF kv.queueOffset = width THEN [kv |-> QueueCompressed(kv, FALSE), input |-> rest, ended |-> FALSE]
    ELSE IF final THEN [kv |-> QueueCompressed(kv, TRUE), input |-> << >>, ended |-> TRUE]
    ELSE [kv |-> kv, input |-> rest, ended |-> FALSE]

\* Mutant: the output left in the queue is not dropped.
FromQueueKept(kv, input, final) ==
    IF kv.phase = "COMPRESSING" /\ kv.queueOffset # 0
    THEN Queued(Enqueued(kv, First(input, Min2(Len(input), width - kv.queueOffset))),
                From(input, Min2(Len(input), width - kv.queueOffset)), final)
    ELSE [kv |-> [kv EXCEPT !.phase = "COMPRESSING"], input |-> input, ended |-> FALSE]

FromQueue(kv, input, final) ==
    IF kv.phase = "COMPRESSING" /\ kv.queueOffset # 0
    THEN Queued(Enqueued(kv, First(input, Min2(Len(input), width - kv.queueOffset))),
                From(input, Min2(Len(input), width - kv.queueOffset)), final)
    ELSE [kv |-> [kv EXCEPT !.phase = "COMPRESSING", !.queueOffset = 0], input |-> input, ended |-> FALSE]

BlocksCompressed(T, final) ==
    IF ~T.ended /\ (Len(T.input) >= width \/ final)
    THEN Kra_Compress(T.kv, T.input, final) ELSE [kv |-> T.kv, message |-> T.input]

\* Queue eventual residual message bytes.
ResidueQueued(U) ==
    IF U.message = << >> THEN U.kv
    ELSE [U.kv EXCEPT !.queue = Copied(@, 0, U.message), !.queueOffset = Len(U.message)]

Kra(kv, input, flags) ==
    LET final == "LAST_PART" \in flags
    IN  IF ~final /\ Len(input) % byte # 0 THEN Result(kv, 1)
        ELSE Result(ResidueQueued(BlocksCompressed(
                        FromQueue(Initialized(kv, flags), input, final), final)), 0)

----------------------------------------------------------------------------
(***************************************************************************)
(* Expansion.                                                              *)
(***************************************************************************)
\* Entering the expansion from the compression.
Expanding(kv, flags) ==
    IF kv.phase = "COMPRESSING"
    THEN [kv EXCEPT !.yAccu = [x |-> kv.xAccu, permuted |-> "SHORT" \notin flags, rolled |-> 0],
                    !.phase = "EXPANDING"]
    ELSE kv

\* The next output block, P(yAccu) with the mask, to the output of T.
Made(made, block) == IF block \in ToSet(made) THEN made ELSE Append(made, block)
NextBlock(T) ==
    [T EXCEPT !.kv.made = Made(@, <<T.kv.yAccu, T.kv.k, T.kv.kRoll>>), !.kv.yAccu.rolled = @ + 1]
Numbered(T, input) ==
    LET j == SelectInSeq(T.kv.made, LAMBDA block : block = input)
    IN  [T EXCEPT !.block = [i \in 1 .. width |-> {<<j, i>>}]]
WithBlock(T) == Numbered(NextBlock(T), <<T.kv.yAccu, T.kv.k, T.kv.kRoll>>)
Output(T, n) == [T EXCEPT !.output = @ \o First(T.block, n), !.left = @ - n]

\* N blocks at a time, as CompressLoop.
ExpandLoop(S, N) ==
    FoldLeft(LAMBDA T, i : Output(WithBlock(T), width), S, [i \in 1 .. N * (S.left \div (N * width)) |-> i])

\* Mutant: the rest is queued from the start.
RestQueuedFirst(T, offset) ==
    [T EXCEPT !.kv.queue = Copied(@, 0, From(T.block, offset)), !.kv.queueOffset = offset]

\* The last part of a block; the rest, from the next byte, is queued unless the output
\* ends there.
RestQueued(T, offset) ==
    [T EXCEPT !.kv.queue = Copied(@, offset, From(T.block, offset)), !.kv.queueOffset = offset]
LastPart(T, final) ==
    IF T.left = 0 THEN T
    ELSE IF final THEN Output(WithBlock(T), T.left)
    ELSE RestQueued(Output(WithBlock(T), T.left), T.left)

\* Data for output is in stock: n bits of it.
Stock(T, n) ==
    [T EXCEPT !.output = SubSeq(T.kv.queue, T.kv.queueOffset + 1, T.kv.queueOffset + n), !.left = @ - n,
              !.kv.queueOffset = IF @ + n = width THEN 0 ELSE @ + n]
FromStock(T) ==
    IF T.kv.queueOffset = 0 THEN T ELSE Stock(T, Min2(T.left, width - T.kv.queueOffset))

Ended(T, final) ==
    [kv |-> IF final THEN [T.kv EXCEPT !.phase = "EXPANDED"] ELSE T.kv, ret |-> 0, output |-> T.output]

Vatte(kv, outputBitLen, flags) ==
    LET final == "LAST_PART" \in flags
        Blocks(T) == FoldLeft(ExpandLoop, T, AtOnce)
    IN  IF \/ ~final /\ outputBitLen % byte # 0
           \/ kv.phase = "COMPRESSING" /\ kv.queueOffset # 0
           \/ kv.phase \notin {"COMPRESSING", "EXPANDING"}
        THEN [kv |-> kv, ret |-> 1, output |-> << >>]
        ELSE Ended(LastPart(Blocks(FromStock([kv |-> Expanding(kv, flags), output |-> << >>,
                                              block |-> << >>, left |-> outputBitLen])), final), final)

AfterKra(S, outputBitLen, flags) ==
    IF S.ret # 0 THEN [kv |-> S.kv, ret |-> 1, output |-> << >>]
    ELSE Vatte(S.kv, outputBitLen, flags)
Kravatte(kv, input, outputBitLen, flags) ==
    AfterKra(Kra(kv, input, flags \cup {"LAST_PART"}), outputBitLen, flags \cup {"LAST_PART"})

----------------------------------------------------------------------------
(***************************************************************************)
(* The wide block cipher.  The two halves are the fields L and R of a      *)
(* record; ret adds up what the calls return.                              *)
(***************************************************************************)
WBC_l == byte
WBC_b == width

\* The length of the left half of n bits.
WBC_Split(n) ==
    IF n <= 2 * WBC_b - (WBC_l + 2) THEN WBC_l * ((n + WBC_l) \div (2 * WBC_l))
    ELSE LET q == (n + WBC_l + 2 + (WBC_b - 1)) \div WBC_b
             x == (CHOOSE y \in 1 .. q : 2^y >= q /\ \A z \in 1 .. y - 1 : 2^z < q) - 1
         IN  (q - 2^x) * WBC_b - WBC_l

WholeBytes(s) == First(s, Len(s) - (Len(s) % byte))
\* The bits of an incomplete last byte, and a bit 1.
lastByte(s) == From(s, Len(s) - (Len(s) % byte)) \o <<one>>
FirstBlock(s) == First(s, Min2(width, Len(s)))
memxoris(t, s) == [i \in DOMAIN t |-> IF i \in DOMAIN s THEN Xor(t[i], s[i]) ELSE t[i]]

AddToL(S, H) == [S EXCEPT !.kv = H.kv, !.ret = @ + H.ret, !.L = memxoris(@, H.output)]
AddToR(S, H) == [S EXCEPT !.kv = H.kv, !.ret = @ + H.ret, !.R = memxoris(@, H.output)]

\* Short output on s || last, from an empty history, and output on the parts || last
\* after W.
Hk(kv, s, last, n) == Kravatte(Kra(kv, s, {"INIT"}).kv, last, n, {"SHORT"})
Fk(kv, parts, last, n) ==
    Kravatte(FoldLeft(LAMBDA t, part : Kra(t, part, {}).kv, kv, parts), last, n, {})

CompressW(S, W) ==
    LET H == Kra(S.kv, W, {"INIT", "LAST_PART"})
    IN  [S EXCEPT !.kv = H.kv, !.HkW = H.kv.xAccu, !.kRollAfterHkW = H.kv.kRoll]

\* Mutant: the mask is not rolled back.
RestoreAccumulator(S) == [S EXCEPT !.kv.xAccu = S.HkW]

RestoreW(S) == [S EXCEPT !.kv.xAccu = S.HkW, !.kv.kRoll = S.kRollAfterHkW]

\* R0 = R0 + Hk(L || 0); L0 = L0 + Hk(R || 1)
R0AddHkL(S) == AddToR(S, Hk(S.kv, S.L, <<zero>>, Min2(width, Len(S.R))))
L0AddHkR(S) == AddToL(S, Hk(S.kv, WholeBytes(S.R), lastByte(S.R), Min2(width, Len(S.L))))
\* L = L + Fk(R || 1 . W); R = R + Fk(L || 0 . W); the half that has a block in a
\* buffer of its own is compressed in two calls.
Whole(s) == <<s>>
BlockAndRest(s) == <<FirstBlock(s), From(s, Min2(width, Len(s)))>>
LAddFkR(S, Parts(_)) == AddToL(S, Fk(S.kv, Parts(WholeBytes(S.R)), lastByte(S.R), Len(S.L)))
RAddFkL(S, Parts(_)) == AddToR(S, Fk(S.kv, Parts(S.L), <<zero>>, Len(S.R)))

Halves(kv, text) ==
    [kv |-> kv, ret |-> 0, HkW |-> {}, kRollAfterHkW |-> 0,
     L |-> First(text, WBC_Split(Len(text))), R |-> From(text, WBC_Split(Len(text)))]
Joined(S) == [kv |-> S.kv, ret |-> S.ret, output |-> S.L \o S.R]

WBC_Encipher(kv, plaintext, W) ==
    Joined(L0AddHkR(RAddFkL(RestoreW(
        LAddFkR(CompressW(R0AddHkL(Halves(kv, plaintext)), W), BlockAndRest)), Whole)))

WBC_Decipher(kv, ciphertext, W) ==
    Joined(R0AddHkL(LAddFkR(RestoreW(
        RAddFkL(CompressW(L0AddHkR(Halves(kv, ciphertext)), W), BlockAndRest)), Whole)))

WBCAE_Encipher(kv, plaintext, AD) == WBC_Encipher(kv, plaintext \o Zeroes(WBCAE_t), AD)

\* Mutant: the text that is refused is left there.
WBCAE_Refused(D, dataBitLen) ==
    IF D.ret = 0 /\ \A i \in dataBitLen + 1 .. Len(D.output) : D.output[i] = zero THEN D
    ELSE [D EXCEPT !.ret = 1]

\* The redundancy is checked; if it is not zero the plaintext is wiped.
WBCAE_Checked(D, dataBitLen) ==
    IF D.ret = 0 /\ \A i \in dataBitLen + 1 .. Len(D.output) : D.output[i] = zero THEN D
    ELSE [D EXCEPT !.ret = 1, !.output = Zeroes(Len(D.output))]
WBCAE_Decipher(kv, ciphertext, AD) ==
    WBCAE_Checked(WBC_Decipher(kv, ciphertext, AD), Len(ciphertext) - WBCAE_t)
=============================================================================
