-------------------------- MODULE PermutationStates --------------------------
(***************************************************************************)
(* What the layer SnP and PlSnP of lib/low promises, whatever the          *)
(* implementation: states of 200 bytes, accessed and permuted as the       *)
(* reference implementation (KeccakP-1600/ref-64bits) does, those of a     *)
(* parallel object one after the other.  The functions that an             *)
(* implementation may add for speed, announced by its features, do what    *)
(* their callers do without them.                                          *)
(*                                                                         *)
(* A call is a record: its operation op, the instance i, and parameters    *)
(* named after those of the function.  Data(seed, n) is a buffer of n      *)
(* bytes, for a few seeds.                                                 *)
(***************************************************************************)
EXTENDS ReferencePermutations, FiniteSets

CONSTANT Data(_, _),
         chunkSize(_)     \* of KangarooTwelve's leaves, by the rate

VARIABLES states,         \* by instance, the bytes of a state
          call,           \* the last call
          out             \* what it returned

contract == <<states, call, out>>

Width == 200              \* SnP_widthInBytes
nothing == << >>
Each(New(_, _)) == \E s \in {states} : states' = [i \in DOMAIN s |-> New(i, s[i])]
OneState(New(_)) == \E s \in {states} : states' = [s EXCEPT ![call'.i] = New(@)]
Unchanged == states' = states

Init ==
    /\ \E N \in {1, 2, 4, 8} : states = [i \in 0 .. N - 1 |-> Zeroes(Width)]
    /\ call.op = "none" /\ out = nothing

----------------------------------------------------------------------------
(***************************************************************************)
(* The bytes of one state.                                                 *)
(***************************************************************************)
ref_AddBytes(A, data, offset, length) ==
    [b \in DOMAIN A |-> IF b \in offset .. offset + length - 1 THEN Xor(A[b], data[b - offset])
                        ELSE A[b]]
ref_AddByte(A, byte, offset) == [A EXCEPT ![offset] = Xor(@, byte)]
ref_OverwriteBytes(A, data, offset, length) ==
    [b \in DOMAIN A |-> IF b \in offset .. offset + length - 1 THEN data[b - offset] ELSE A[b]]
ref_OverwriteWithZeroes(A, byteCount) == [b \in DOMAIN A |-> IF b < byteCount THEN {} ELSE A[b]]
ref_ExtractBytes(A, offset, length) == Slice(A, offset, length)
ref_ExtractAndAddBytes(A, input, offset, length) ==
    [b \in 0 .. length - 1 |-> Xor(input[b], A[offset + b])]
P(A, rounds) == KeccakP1600_Permute_Nrounds(A, rounds)

InitializeAll ==
    /\ call'.op = "InitializeAll"
    /\ Each(LAMBDA i, A : Zeroes(Width))
    /\ out' = nothing

AddByte ==
    /\ call'.op = "AddByte"
    /\ OneState(LAMBDA A : ref_AddByte(A, Data(call'.seed, 1)[0], call'.offset))
    /\ out' = nothing

AddBytes ==
    /\ call'.op = "AddBytes"
    /\ OneState(LAMBDA A : ref_AddBytes(A, Data(call'.seed, call'.length), call'.offset, call'.length))
    /\ out' = nothing

OverwriteBytes ==
    /\ call'.op = "OverwriteBytes"
    /\ OneState(LAMBDA A : ref_OverwriteBytes(A, Data(call'.seed, call'.length),
                                              call'.offset, call'.length))
    /\ out' = nothing

OverwriteWithZeroes ==
    /\ call'.op = "OverwriteWithZeroes"
    /\ OneState(LAMBDA A : ref_OverwriteWithZeroes(A, call'.length))
    /\ out' = nothing

ExtractBytes ==
    /\ call'.op = "ExtractBytes"
    /\ Unchanged
    /\ out' = ref_ExtractBytes(states[call'.i], call'.offset, call'.length)

ExtractAndAddBytes ==
    /\ call'.op = "ExtractAndAddBytes"
    /\ Unchanged
    /\ out' = ref_ExtractAndAddBytes(states[call'.i], Data(call'.seed, call'.length),
                                     call'.offset, call'.length)

Permute ==
    /\ call'.op = "Permute"
    /\ Each(LAMBDA i, A : P(A, call'.rounds))
    /\ out' = nothing

----------------------------------------------------------------------------
(***************************************************************************)
(* All instances: the lanes of instance i are laneOffset lanes after those *)
(* of instance i - 1.                                                      *)
(***************************************************************************)
Lanes(i, data) == Slice(data, 8 * i * call'.laneOffset, 8 * call'.laneCount)
DataSize == 8 * (((Cardinality(DOMAIN states) - 1) * call'.laneOffset) + call'.laneCount)

AddLanesAll ==
    /\ call'.op = "AddLanesAll"
    /\ \E data \in {Data(call'.seed, DataSize)} :
         Each(LAMBDA i, A : ref_AddBytes(A, Lanes(i, data), 0, 8 * call'.laneCount))
    /\ out' = nothing

OverwriteLanesAll ==
    /\ call'.op = "OverwriteLanesAll"
    /\ \E data \in {Data(call'.seed, DataSize)} :
         Each(LAMBDA i, A : ref_OverwriteBytes(A, Lanes(i, data), 0, 8 * call'.laneCount))
    /\ out' = nothing

\* Byte b of the output goes to, or comes from, byte b % (8 * laneOffset) of an
\* instance; the bytes between the lanes of two instances stay as they were.
Placed(s, data, New(_, _)) ==
    [b \in DOMAIN data |->
        LET i == b \div (8 * call'.laneOffset)
            o == b % (8 * call'.laneOffset)
        IN  IF o < 8 * call'.laneCount THEN New(b, s[i][o]) ELSE data[b]]

ExtractLanesAll ==
    /\ call'.op = "ExtractLanesAll"
    /\ Unchanged
    /\ \E s \in {states}, data \in {Data(call'.seed, DataSize)} :
         out' = Placed(s, data, LAMBDA b, byte : byte)

ExtractAndAddLanesAll ==
    /\ call'.op = "ExtractAndAddLanesAll"
    /\ Unchanged
    /\ \E s \in {states},
          input \in {Data(call'.seed, DataSize)}, data \in {Data(call'.seed + 1, DataSize)} :
         out' = Placed(s, data, LAMBDA b, byte : Xor(input[b], byte))

----------------------------------------------------------------------------
(***************************************************************************)
(* The loops: each is the loop of its caller, over all the blocks.         *)
(***************************************************************************)
\* "until not enough data are available": blocks 0 .. n-1 of the last instance
\* are within the data.
Blocks(length, parallel, serial, count) ==
    Cardinality({k \in 0 .. length : 8 * (parallel * (Cardinality(DOMAIN states) - 1)
                                          + (serial * k) + count) <= length})

FastLoop_Absorb ==
    /\ call'.op = "FastLoop_Absorb"
    /\ \E n \in {Blocks(call'.length, call'.laneOffsetParallel, call'.laneOffsetSerial,
                        call'.laneCount)},
          data \in {Data(call'.seed, call'.length)} :
         LET Block(i, k) == Slice(data, 8 * (call'.laneOffsetParallel * i + call'.laneOffsetSerial * k),
                                  8 * call'.laneCount)
         IN  /\ Each(LAMBDA i, A :
                       Loop(LAMBDA B, k : P(ref_AddBytes(B, Block(i, k), 0, 8 * call'.laneCount),
                                            call'.rounds), A, n))
             /\ out' = 8 * call'.laneOffsetSerial * n

\* The overwrite duplex, block after block: overwritten by what is absorbed, a
\* trailer added after it.
Duplexed(A, block) ==
    LET r == 8 * call'.laneCount
        trailer == [b \in 0..7 |-> ByteOf(call'.trailenc, b)]
    IN  P(ref_AddBytes(ref_OverwriteBytes(A, block, 0, r), trailer, r, 8), call'.rounds)

\* Only the part that the next block does not overwrite is kept.
SameInner(A, r) == \E s \in {states'} : \A b \in r .. Width - 1 : s[0][b] = A[b]

ODDuplexed(Block(_), n, odataAdd) ==
    LET r == 8 * call'.laneCount
        Step(S, k) ==
          With(Duplexed(S.A, Block(k)), LAMBDA A :
               [A |-> A, out |-> Join(S.out, r * k,
                             ref_ExtractAndAddBytes(A, Slice(odataAdd, r * k, r), 0, r), r)])
    IN  Loop(Step, [A |-> states[0], out |-> Zeroes(0)], n)

ODDuplexingFastInOut ==
    /\ call'.op = "ODDuplexingFastInOut"
    /\ LET r == 8 * call'.laneCount
           idata == Data(call'.seed, call'.length)
       IN  \E S \in {ODDuplexed(LAMBDA k : Slice(idata, r * k, r), call'.length \div r,
                                Data(call'.seed + 1, call'.length))} :
             SameInner(S.A, r) /\ out' = S.out

ODDuplexingFastOut ==
    /\ call'.op = "ODDuplexingFastOut"
    /\ LET r == 8 * call'.laneCount
       IN  \E S \in {ODDuplexed(LAMBDA k : [b \in 0 .. r - 1 |-> IF b = 0 THEN {0} ELSE {}],
                                call'.length \div r, Data(call'.seed + 1, call'.length))} :
             SameInner(S.A, r) /\ out' = S.out

\* while ( len > od->rho )
ODDuplexingFastIn ==
    /\ call'.op = "ODDuplexingFastIn"
    /\ LET r == 8 * call'.laneCount
           n == Cardinality({k \in 1 .. call'.length : call'.length > r * k})
           idata == Data(call'.seed, call'.length)
       IN  /\ Each(LAMBDA i, A :
                     Loop(LAMBDA B, k : Duplexed(B, Slice(idata, r * k, r)), A, n))
           /\ out' = r * n

----------------------------------------------------------------------------
(***************************************************************************)
(* KangarooTwelve: a leaf of chunkSize bytes for every instance, each      *)
(* absorbed by a sponge of its own with the suffix of a leaf.              *)
(***************************************************************************)
suffixLeaf == {0, 1, 3}   \* 0x0B

Leaf(data, rate) ==
    LET n    == chunkSize(rate) \div rate
        rest == chunkSize(rate) % rate
        Absorbed == Loop(LAMBDA A, k : P(ref_AddBytes(A, Slice(data, rate * k, rate), 0, rate), 12),
                         Zeroes(Width), n)
        Padded == ref_AddByte(ref_AddByte(
                      ref_AddBytes(Absorbed, Slice(data, rate * n, rest), 0, rest),
                      suffixLeaf, rest), {7}, rate - 1)
    IN  ref_ExtractBytes(Fixed(P(Padded, 12)), 0, Width - rate)

ProcessLeaves ==
    /\ call'.op = "ProcessLeaves"
    /\ Unchanged
    /\ \E N \in {Cardinality(DOMAIN states)} :
       \E size \in {chunkSize(call'.rate)} :
       \E data \in {Data(call'.seed, N * size)} :
       \E leaf \in {[i \in 0 .. N - 1 |-> Leaf(Slice(data, i * size, size), call'.rate)]} :
         LET c == Width - call'.rate
         IN  out' = [b \in 0 .. N * c - 1 |-> leaf[b \div c][b % c]]

----------------------------------------------------------------------------
(***************************************************************************)
(* Kravatte: blocks one by one, as Kra_Compress and Vatte handle those     *)
(* that are left after the parallel ones.  The mask k, the accumulators    *)
(* x and y are arrays of 25 lanes.                                         *)
(***************************************************************************)
Mask(seed) == FromBytesToWords(Data(seed, Width), 25, 8)

Kravatte_Rollc(k) ==
    [l \in 0..24 |-> CASE l < 20 -> k[l]
                      [] l \in 20..23 -> k[l + 1]
                      [] l = 24 -> Xor(Xor(ROL64(k[20], 7), k[21]), Shr(k[21], 3))]

Kravatte_Rolle(y) ==
    [l \in 0..24 |-> CASE l < 15 -> y[l]
                      [] l \in 15..23 -> y[l + 1]
                      [] l = 24 -> Xor(Xor(ROL64(y[15], 7), ROL64(y[16], 18)),
                                       And(y[17], Shr(y[16], 1)))]

AddLanes(A, B) == [l \in 0..24 |-> Xor(A[l], B[l])]
P6(A) == KeccakP1600OnWords(A, 6)

KravatteCompress ==
    /\ call'.op = "KravatteCompress"
    /\ Unchanged
    /\ \E n \in {Cardinality(DOMAIN states) * (call'.length \div (Width * Cardinality(DOMAIN states)))},
          message \in {Data(call'.seed, call'.length)} :
         LET Block(j) == FromBytesToWords(Slice(message, Width * j, Width), 25, 8)
             Step(S, j) == [x |-> Fixed(AddLanes(S.x, P6(AddLanes(S.k, Block(j))))),
                            k |-> Fixed(Kravatte_Rollc(S.k))]
             end == Loop(Step, [x |-> Mask(call'.seed + 1), k |-> Mask(call'.seed + 2)], n)
         IN  out' = [xAccu |-> end.x, kRoll |-> end.k, done |-> Width * n]

KravatteExpand ==
    /\ call'.op = "KravatteExpand"
    /\ Unchanged
    /\ \E n \in {Cardinality(DOMAIN states) * (call'.length \div (Width * Cardinality(DOMAIN states)))},
          k \in {Mask(call'.seed + 2)} :
         LET Step(S, j) ==
                [y |-> Fixed(Kravatte_Rolle(S.y)),
                 out |-> Join(S.out, Width * j,
                              FromWordsToBytes(Fixed(AddLanes(k, P6(S.y))), 25, 8), Width)]
             end == Loop(Step, [y |-> Mask(call'.seed + 1), out |-> Zeroes(0)], n)
         IN  out' = [yAccu |-> end.y, out |-> end.out, done |-> Width * n]

----------------------------------------------------------------------------
Next ==
    \/ InitializeAll \/ AddByte \/ AddBytes \/ OverwriteBytes \/ OverwriteWithZeroes
    \/ ExtractBytes \/ ExtractAndAddBytes \/ Permute
    \/ AddLanesAll \/ OverwriteLanesAll \/ ExtractLanesAll \/ ExtractAndAddLanesAll
    \/ FastLoop_Absorb \/ ODDuplexingFastInOut \/ ODDuplexingFastOut \/ ODDuplexingFastIn
    \/ ProcessLeaves \/ KravatteCompress \/ KravatteExpand

Spec == Init /\ [][Next]_contract
=============================================================================
