--------------------------- MODULE Implementations ---------------------------
(***************************************************************************)
(* The implementations of Keccak-p[1600] by their names, what they         *)
(* announce, how the states they keep are read as bytes, and the fallback  *)
(* of lib/low/common/PlSnP-Fallback.inc that makes an object of several    *)
(* states from a serial implementation.                                    *)
(***************************************************************************)
EXTENDS Lanes

CONSTANT chunkSize(_)   \* of KangarooTwelve's leaves

plain64   == INSTANCE KeccakPlain64 WITH UseBebigokimisa <- FALSE
plain64lc == INSTANCE KeccakPlain64 WITH UseBebigokimisa <- TRUE
small     == INSTANCE KeccakSmall
times2    == INSTANCE KeccakTimes2
times4    == INSTANCE KeccakTimes4
times8    == INSTANCE KeccakTimes8

Serial == {"plain64", "plain64lc", "compact", "ref32", "inplace"}
Parallelism(im) ==
    CASE im \in Serial -> 1
      [] im \in {"times2_SSSE3", "times2_AVX512", "KeccakP1600times2"} -> 2
      [] im \in {"times4_AVX2", "times4_AVX512", "times4_on1", "KeccakP1600times4"} -> 4
      [] im \in {"times8_AVX512", "KeccakP1600times8"} -> 8

\* GetFeatures() of the headers.
Features(im) ==
    CASE im \in {"plain64", "plain64lc"} -> {"Main", "SpongeAbsorb", "OD"}
      [] im \in {"compact", "ref32", "inplace", "times4_on1"} -> {"Main"}
      [] im \in {"times2_SSSE3", "times2_AVX512", "times4_AVX512"} -> {"Main", "SpongeAbsorb"}
      [] im \in {"times4_AVX2", "times8_AVX512"} ->
            {"Main", "SpongeAbsorb", "Farfalle", "KangarooTwelve"}
      [] im \in {"KeccakP1600_AVX512", "KeccakP1600_AVX2"} -> {"Main", "SpongeAbsorb"}
      [] im = "Xoodoo_AVX512" -> {"Main", "Cyclist", "Farfalle"}
      [] im \in {"Xoodoo_SSSE3", "Xoodoo_plain"} -> {"Main", "Cyclist"}
      [] im \in {"Xoodootimes4_AVX512", "Xoodootimes8_AVX512", "Xoodootimes8_AVX2",
                 "Xoodootimes16_AVX512"} -> {"Main", "Farfalle"}
      [] im = "Xoodootimes4_SSSE3" -> {"Main"}
      [] im = "none" -> {}

SerialCall(im, S, c) ==
    CASE im = "plain64"   -> plain64!Call(S, c)
      [] im = "plain64lc" -> plain64lc!Call(S, c)
      [] im = "compact"   -> small!compact_Call(S, c)
      [] im = "ref32"     -> small!ref32_Call(S, c)
      [] im = "inplace"   -> small!inplace_Call(S, c)

----------------------------------------------------------------------------
(***************************************************************************)
(* PlSnP-Fallback.inc, over one state of implementation base per instance. *)
(***************************************************************************)
LOCAL PlSnP_factor == 4   \* the only object built this way, on plain64

\* The call of the base for instance i: data += laneOffset * SnP_laneLengthInBytes
\* after each.
LOCAL ofBytes == [AddLanesAll |-> "AddBytes", OverwriteLanesAll |-> "OverwriteBytes",
                  ExtractLanesAll |-> "ExtractBytes", ExtractAndAddLanesAll |-> "ExtractAndAddBytes"]
LOCAL BaseCall(c, i) ==
    IF c.op \in DOMAIN ofBytes
    THEN [op |-> ofBytes[c.op], data |-> Slice(c.data, 8 * c.laneOffset * i, 8 * c.laneCount),
          offset |-> 0, length |-> 8 * c.laneCount]
    ELSE c
LOCAL Stored(c, data, bytes) ==
    [b \in DOMAIN data |->
        LET i == b \div (8 * c.laneOffset)
            o == b % (8 * c.laneOffset)
        IN  IF o < 8 * c.laneCount THEN bytes[i].out[o] ELSE data[b]]

FallbackCall(S, c) ==
    LET all == c.op \in DOMAIN ofBytes \cup {"InitializeAll", "Permute"}
        instances == IF all THEN 0 .. PlSnP_factor - 1 ELSE {c.i}
        Out(r) == CASE c.op = "ExtractLanesAll" -> Stored(c, c.data, r)
                    [] c.op = "ExtractAndAddLanesAll" -> Stored(c, c.data2, r)
                    [] c.op \in {"ExtractBytes", "ExtractAndAddBytes"} -> r[c.i].out
                    [] c.op \notin {"ExtractLanesAll", "ExtractAndAddLanesAll", "ExtractBytes",
                                    "ExtractAndAddBytes"} -> << >>
    IN  With([i \in instances |-> plain64!Call(S[i], BaseCall(c, i))], LAMBDA r :
             Got([i \in DOMAIN S |-> IF i \in instances THEN r[i].state ELSE S[i]], Out(r)))

----------------------------------------------------------------------------
Implementation_Call(im, S, c) ==
    CASE im \in Serial        -> SerialCall(im, S, c)
      [] im = "times4_on1"    -> FallbackCall(S, c)
      [] im = "times2_SSSE3"  -> times2!SSSE3_Call(S, c)
      [] im = "times2_AVX512" -> times2!AVX512_Call(S, c)
      [] im = "times4_AVX2"   -> times4!AVX2_Call(S, c)
      [] im = "times4_AVX512" -> times4!AVX512_Call(S, c)
      [] im = "times8_AVX512" -> times8!Call(S, c)

\* The 200 bytes of every instance.  All the parallel implementations but the
\* fallback keep lane l of instance i in word i of register l.
LOCAL BytesOfLanes(lane(_)) == [b \in 0..199 |-> ByteOf(lane(b \div 8), b % 8)]
LOCAL BytesOfState(im, A) ==
    CASE im = "plain64"   -> BytesOfLanes(LAMBDA l : A[l])
      [] im = "plain64lc" -> BytesOfLanes(LAMBDA l : IF l \in plain64lc!Complemented
                                                     THEN Not(64, A[l]) ELSE A[l])
      [] im = "compact"   -> BytesOfLanes(LAMBDA l : A[l])
      [] im \in {"ref32", "inplace"} ->   \* even bits, then odd bits
            BytesOfLanes(LAMBDA l : {2 * b : b \in A[2 * l]} \cup {(2 * b) + 1 : b \in A[2 * l + 1]})

Meaning(im, S) ==
    LET N == Parallelism(im)
    IN  CASE im \in Serial -> [i \in {0} |-> BytesOfState(im, S)]
          [] im = "times4_on1" -> [i \in 0..3 |-> BytesOfState("plain64", S[i])]
          [] im \notin Serial \cup {"times4_on1"} ->
                [i \in 0 .. N - 1 |-> With([l \in 0..24 |-> Lane(64, S[l], i)],
                                           LAMBDA A : BytesOfLanes(LAMBDA l : A[l]))]

\* The memory of a state that was initialized.
Initial(im) ==
    CASE im = "plain64"   -> plain64!Initialize
      [] im = "plain64lc" -> plain64lc!Initialize
      [] im = "compact"   -> small!compact_Initialize
      [] im \in {"ref32", "inplace"} -> small!ref32_Initialize
      [] im = "times4_on1" -> [i \in 0..3 |-> plain64!Initialize]
      [] im \notin Serial \cup {"times4_on1"} -> [l \in 0..24 |-> {}]
=============================================================================
