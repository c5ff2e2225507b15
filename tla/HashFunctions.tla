---------------------------- MODULE HashFunctions ---------------------------
(***************************************************************************)
(* The hash functions of FIPS202/KeccakHash.c, and cSHAKE, KMAC, TupleHash *)
(* and ParallelHash of SP800-185/SP800-185.inc, for one security level:    *)
(* instances as records, and each function as the condition under which it *)
(* accepts a call and the instance it leaves.                              *)
(*                                                                         *)
(* A string given by a caller is [bytes, n]: n bits in the bytes, the last *)
(* of which may have more.  A sponge is what it has absorbed, the byte     *)
(* that ended it (0 while it absorbs) and how many bytes it has given out, *)
(* which Sponge shows that it is.  An absorbed byte b is <<b>>, byte i of  *)
(* the chaining value of a node is <<node, i>>.                            *)
(***************************************************************************)
EXTENDS Integers, SequencesExt

CONSTANTS
  rateInBytes, capacityInBytes,  \* bytes of a block and of a chaining value: 168 and 32, or 136 and 64
  laneSize,     \* bytes of a lane: 8
  Parallelism   \* leaves that may be hashed at once, in the order they are tried: 8, 4, 2

ASSUME HashFunctionsAssumption ==
  /\ {rateInBytes, capacityInBytes, laneSize} \subseteq Nat \ {0}
  /\ rateInBytes % laneSize = 0 /\ capacityInBytes % laneSize = 0
  /\ Parallelism \in Seq(Nat \ {0, 1})

Smaller(a, b) == IF a <= b THEN a ELSE b
Prefix(s, n) == SubSeq(s, 1, n)
Suffix(s, n) == SubSeq(s, n + 1, Len(s))

Whole(bytes) == [bytes |-> bytes, n |-> 8 * Len(bytes)]
IsWhole(string) == string.n % 8 = 0
WholeBytes(string) == Prefix(string.bytes, string.n \div 8)

-----------------------------------------------------------------------------
(* The sponge.                                                             *)

NewSponge == [absorbed |-> <<>>, last |-> 0, squeezed |-> 0]
CanAbsorb(sponge) == sponge.last = 0
Absorb(sponge, bytes) == [sponge EXCEPT !.absorbed = @ \o [i \in 1 .. Len(bytes) |-> <<bytes[i]>>]]
AbsorbLastFewBits(sponge, delimitedData) == [sponge EXCEPT !.last = delimitedData]

\* Squeezing ends the input by itself if nothing else has.
Squeeze(sponge, n) == [sponge EXCEPT !.last = IF @ = 0 THEN 1 ELSE @, !.squeezed = @ + n]

\* Mutant: the bits that do not fit in the byte are dropped.
WithLastBitsInOneByte(sponge, delimitedLastBytes) ==
  [sponge |-> sponge, suffix |-> delimitedLastBytes % 256]

\* The last bits of input with those of the suffix: one byte, or two of which
\* one is absorbed.  What is left ends the input.
WithLastBits(sponge, delimitedLastBytes) ==
  IF delimitedLastBytes < 256
    THEN [sponge |-> sponge, suffix |-> delimitedLastBytes]
    ELSE [sponge |-> Absorb(sponge, <<delimitedLastBytes % 256>>), suffix |-> delimitedLastBytes \div 256]

\* The value of those bits of the last byte that count.
LastBits(string) == string.bytes[string.n \div 8 + 1] % 2 ^ (string.n % 8)

-----------------------------------------------------------------------------
(* KeccakHash.c                                                            *)

HashInitialize(hashbitlen, delimitedSuffix) ==
  [sponge |-> NewSponge, fixedOutputLength |-> hashbitlen, delimitedSuffix |-> delimitedSuffix]

CanHashUpdate(hash) == CanAbsorb(hash.sponge)

HashUpdate(hash, data) ==
  LET absorbed == Absorb(hash.sponge, WholeBytes(data))
      joined == WithLastBits(absorbed, LastBits(data) + hash.delimitedSuffix * 2 ^ (data.n % 8))
  IN  IF IsWhole(data)
        THEN [hash EXCEPT !.sponge = absorbed]
        ELSE [hash EXCEPT !.sponge = joined.sponge, !.delimitedSuffix = joined.suffix]

HashFinal(hash) ==
  [hash EXCEPT !.sponge =
     Squeeze(AbsorbLastFewBits(@, hash.delimitedSuffix), hash.fixedOutputLength \div 8)]

HashSqueeze(hash, databitlen) == [hash EXCEPT !.sponge = Squeeze(@, databitlen \div 8)]

-----------------------------------------------------------------------------
(* Encodings, SP800-185.c                                                  *)

\* The digits of value, the most significant first: at least one.
Digits(value) ==
  LET n == CHOOSE k \in 1 .. 8 : value \div 256 ^ (k - 1) < 256
  IN  [i \in 1 .. n |-> (value \div 256 ^ (n - i)) % 256]

left_encode(value) == <<Len(Digits(value))>> \o Digits(value)
right_encode(value) == Digits(value) \o <<Len(Digits(value))>>

\* A string with its length in bits in front.
encode_string(string) == left_encode(string.n) \o string.bytes

\* Zeroes up to the end of a block, if it has begun: byteIOIndex is moved to its
\* last byte, and that is absorbed.
ZeroPadding(length) == [i \in 1 .. (0 - length) % rateInBytes |-> 0]
ZeroPadded(sponge) == Absorb(sponge, ZeroPadding(Len(sponge.absorbed)))

-----------------------------------------------------------------------------
(* cSHAKE                                                                  *)

CanInitialize(name) == IsWhole(name)

cSHAKE_Initialize(outputBitLen, name, customization) ==
  LET emptyNameCustom == name.n = 0 /\ customization.n = 0
      prefix == left_encode(rateInBytes) \o encode_string(name) \o encode_string(customization)
  IN  [sponge |-> IF emptyNameCustom THEN NewSponge ELSE ZeroPadded(Absorb(NewSponge, prefix)),
       fixedOutputLength |-> outputBitLen, lastByteBitLen |-> 0, lastByteValue |-> 0,
       emptyNameCustom |-> emptyNameCustom, phase |-> "ABSORBING"]

CanUpdate(csk) == csk.phase = "ABSORBING" /\ csk.lastByteBitLen = 0

cSHAKE_Update(csk, input) ==
  [csk EXCEPT !.lastByteBitLen = input.n % 8,
              !.lastByteValue = IF IsWhole(input) THEN @ ELSE LastBits(input),
              !.sponge = Absorb(@, WholeBytes(input))]

CanFinish(csk) == csk.phase = "ABSORBING"
CanSqueeze(csk) == csk.phase = "SQUEEZING"

\* An incomplete last byte ends the output.
cSHAKE_Squeeze(csk, outputBitLen) ==
  [csk EXCEPT !.sponge = Squeeze(@, (outputBitLen + 7) \div 8),
              !.phase = IF outputBitLen % 8 # 0 THEN "FINAL" ELSE @]

cSHAKE_Final(csk) ==
  LET suffix == IF csk.emptyNameCustom THEN 31 ELSE 4
      joined == WithLastBits(csk.sponge, csk.lastByteValue + suffix * 2 ^ csk.lastByteBitLen)
      squeezing == [csk EXCEPT !.sponge = AbsorbLastFewBits(joined.sponge, joined.suffix),
                               !.phase = "SQUEEZING"]
  IN  IF csk.fixedOutputLength = 0
        THEN squeezing
        ELSE [cSHAKE_Squeeze(squeezing, csk.fixedOutputLength) EXCEPT !.phase = "FINAL"]

-----------------------------------------------------------------------------
(* KMAC                                                                    *)

NameKMAC == Whole(<<75, 77, 65, 67>>)

KMAC_Initialize(key, outputBitLen, customization) ==
  LET encoded == left_encode(rateInBytes) \o encode_string(key)
      csk == cSHAKE_Initialize(outputBitLen, NameKMAC, customization)
  IN  [csi |-> cSHAKE_Update(csk, Whole(encoded \o ZeroPadding(Len(encoded)))),
       outputBitLen |-> outputBitLen]

CanKMAC_Update(km, input) == IsWhole(input) /\ CanUpdate(km.csi)
KMAC_Update(km, input) == [km EXCEPT !.csi = cSHAKE_Update(@, input)]

\* Also TupleHash_Final, which has the same text.
CanKMAC_Final(km) == CanUpdate(km.csi)
KMAC_Final(km) ==
  [km EXCEPT !.csi = cSHAKE_Final(cSHAKE_Update(@, Whole(right_encode(km.outputBitLen))))]

KMAC_Squeeze(km, outputBitLen) == [km EXCEPT !.csi = cSHAKE_Squeeze(@, outputBitLen)]

-----------------------------------------------------------------------------
(* TupleHash                                                               *)

NameTupleHash == Whole(<<84, 117, 112, 108, 101, 72, 97, 115, 104>>)

TupleHash_Initialize(outputBitLen, customization) ==
  [csi |-> cSHAKE_Initialize(outputBitLen, NameTupleHash, customization),
   outputBitLen |-> outputBitLen]

\* The elements that are absorbed: those before the first that is not whole bytes,
\* at which the call fails.
AbsorbedElements(tuple) ==
  Prefix(tuple, CHOOSE k \in 0 .. Len(tuple) :
                  /\ \A i \in 1 .. k : IsWhole(tuple[i])
                  /\ k < Len(tuple) => ~IsWhole(tuple[k + 1]))

\* Each element is absorbed by two calls, its length and its bytes.
TupleHash_Update(thi, tuple) ==
  [thi EXCEPT !.csi =
     FoldLeft(LAMBDA csk, element : cSHAKE_Update(csk, Whole(encode_string(element))), @, AbsorbedElements(tuple))]

-----------------------------------------------------------------------------
(* ParallelHash                                                            *)

NameParallelHash == Whole(<<80, 97, 114, 97, 108, 108, 101, 108, 72, 97, 115, 104>>)

\* A block is a power of two, not less than a lane.
CanParallelHash_Initialize(blockByteLen) ==
  /\ blockByteLen >= laneSize
  /\ \A d \in 2 .. blockByteLen : blockByteLen % d = 0 => d % 2 = 0

ParallelHash_Initialize(blockByteLen, outputBitLen, customization) ==
  LET prefix == left_encode(rateInBytes) \o encode_string(NameParallelHash) \o encode_string(customization)
  IN  [queueNode |-> NewSponge,
       finalNode |-> Absorb(ZeroPadded(Absorb(NewSponge, prefix)), left_encode(blockByteLen)),
       fixedOutputLength |-> outputBitLen, blockLen |-> blockByteLen,
       queueAbsorbedLen |-> 0, totalInputSize |-> 0, phase |-> "ABSORBING"]

suffix == 31

\* A leaf that has ended and given its chaining value, and the final node after leaves.
Ended(node) == Squeeze(AbsorbLastFewBits(node, suffix), capacityInBytes)
WithLeaves(sponge, leaves) ==
  [sponge EXCEPT !.absorbed =
     @ \o [k \in 1 .. Len(leaves) * capacityInBytes |->
             <<Ended(leaves[(k - 1) \div capacityInBytes + 1]), ((k - 1) % capacityInBytes) + 1>>]]

CanParallelHash_Update(phi, input) == phi.phase = "ABSORBING" /\ IsWhole(input)

\* The queue takes what it has room for, if it has begun; its leaf ends with the block.
IntoQueue(phi, input) ==
  LET len == IF phi.queueAbsorbedLen = 0 THEN 0 ELSE Smaller(Len(input), phi.blockLen - phi.queueAbsorbedLen)
      node == Absorb(phi.queueNode, Prefix(input, len))
      rest == Suffix(input, len)
  IN  IF phi.queueAbsorbedLen + len < phi.blockLen
        THEN [phi |-> [phi EXCEPT !.queueNode = node, !.queueAbsorbedLen = @ + len], input |-> rest]
        ELSE [phi |-> [phi EXCEPT !.queueNode = Ended(node), !.queueAbsorbedLen = 0,
                                  !.finalNode = WithLeaves(@, <<node>>)],
              input |-> rest]

\* Leaf i of those hashed at once: whole blocks of the sponge by lanes, a block of input
\* apart, then the bytes that are left.
LeafAtOnce(input, blockLen, i) ==
  LET whole == (blockLen \div rateInBytes) * rateInBytes
      apart == (blockLen \div laneSize) * laneSize
  IN  Absorb(NewSponge, [j \in 1 .. blockLen |-> input[j + i * (IF j <= whole THEN apart ELSE blockLen)]])

\* While there is input for P leaves, they are hashed at once.
AtOnce(work, P) ==
  LET blockLen == work.phi.blockLen
      groups == Len(work.input) \div (P * blockLen)
      leaves == [k \in 1 .. groups * P |->
                   LeafAtOnce(Suffix(work.input, ((k - 1) \div P) * P * blockLen), blockLen, (k - 1) % P)]
  IN  [phi   |-> [work.phi EXCEPT !.finalNode = WithLeaves(@, leaves)],
       input |-> Suffix(work.input, groups * P * blockLen)]

\* The rest, one leaf after another in the queue, where the last one may stay.
OneByOne(phi, input) ==
  LET n == Len(input) \div phi.blockLen
      leaves == [k \in 1 .. n |-> Absorb(NewSponge, SubSeq(input, (k - 1) * phi.blockLen + 1, k * phi.blockLen))]
      rest == Suffix(input, n * phi.blockLen)
  IN  IF input = <<>>
        THEN phi
        ELSE [phi EXCEPT !.finalNode = WithLeaves(@, leaves), !.queueAbsorbedLen = Len(rest),
                         !.queueNode = IF rest = <<>> THEN Ended(leaves[n]) ELSE Absorb(NewSponge, rest)]

\* The processor has code for the numbers of leaves in "has".
ParallelHash_Update(phi, input, has) ==
  LET queued == IntoQueue([phi EXCEPT !.totalInputSize = @ + input.n], input.bytes)
      left == FoldLeft(LAMBDA work, P : IF P \in has THEN AtOnce(work, P) ELSE work, queued, Parallelism)
  IN  OneByOne(left.phi, left.input)

\* Output is that of the final node, with the phases of cSHAKE.
ParallelHash_Squeeze(phi, outputBitLen) ==
  [phi EXCEPT !.finalNode = Squeeze(@, (outputBitLen + 7) \div 8),
              !.phase = IF outputBitLen % 8 # 0 THEN "FINAL" ELSE @]

ParallelHash_Final(phi) ==
  LET queued == IF phi.queueAbsorbedLen = 0 THEN phi.finalNode
                ELSE WithLeaves(phi.finalNode, <<phi.queueNode>>)
      nBlocks == (phi.totalInputSize \div 8 + phi.blockLen - 1) \div phi.blockLen
      node == Absorb(queued, right_encode(nBlocks) \o right_encode(phi.fixedOutputLength))
      squeezing == [phi EXCEPT !.finalNode = AbsorbLastFewBits(node, 4), !.phase = "SQUEEZING",
                               !.queueNode = IF phi.queueAbsorbedLen = 0 THEN @ ELSE Ended(@)]
  IN  IF phi.fixedOutputLength = 0
        THEN squeezing
        ELSE [ParallelHash_Squeeze(squeezing, phi.fixedOutputLength) EXCEPT !.phase = "FINAL"]
=============================================================================
