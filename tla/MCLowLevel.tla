----------------------------- MODULE MCLowLevel -----------------------------
(***************************************************************************)
(* TLC instance of LowLevel, at the real sizes.                            *)
(***************************************************************************)
EXTENDS LowLevel

\* Two blocks and the rest.
MCchunkSize(rate) == (2 * rate) + (8192 % rate)

\* Bytes without a pattern that a permutation would keep.
MCData(seed, n) ==
    [i \in 0 .. n - 1 |->
        {b \in 0..7 : ((i * 7) + (seed * 13) + (b * b * 5) + ((i * i) \div 3)) % 11 < 5}]

\* Ranges of bytes: all, none, a lane, and cut at either end.
Ranges == {<<0, 200>>, <<0, 0>>, <<0, 13>>, <<8, 16>>, <<3, 2>>, <<3, 50>>, <<199, 1>>}

ByteCalls(i) ==
    [op : {"AddByte"}, i : {i}, seed : {2}, offset : {0, 13, 199}]
    \cup {[op |-> op, i |-> i, seed |-> 2, offset |-> r[1], length |-> r[2]] :
            op \in {"AddBytes", "OverwriteBytes", "ExtractBytes", "ExtractAndAddBytes"}, r \in Ranges}
    \cup [op : {"OverwriteWithZeroes"}, i : {i}, seed : {0}, length : {0, 7, 8, 100, 200}]
    \cup [op : {"InitializeAll"}, seed : {0}]

Permutations_(rounds) == [op : {"Permute"}, seed : {0}, rounds : rounds]

\* Two blocks and a part of a third.
SerialLoops ==
    {[op |-> "FastLoop_Absorb", seed |-> 2, rounds |-> rounds, laneCount |-> n,
      laneOffsetParallel |-> 0, laneOffsetSerial |-> n, length |-> 350] :
        rounds \in {12, 24}, n \in {17, 21}}
ODLoops ==
    [op : {"ODDuplexingFastInOut", "ODDuplexingFastOut", "ODDuplexingFastIn"}, seed : {2},
     rounds : {12, 24}, laneCount : {16, 20}, length : {320, 330}, trailenc : {{0, 3, 63}}]

\* As few lanes as are loaded one by one, in groups, and all.  The data of the
\* instances are adjacent, or apart.
LanesCalls ==
    {c \in [op : {"AddLanesAll", "OverwriteLanesAll", "ExtractLanesAll", "ExtractAndAddLanesAll"},
            seed : {2}, laneCount : {4, 17, 21, 25}, laneOffset : {4, 17, 25, 30}] :
        c.laneOffset \in {c.laneCount, 30}}
    \cup [op : {"OverwriteLanesAll"}, seed : {2}, laneCount : {20}, laneOffset : {0}]

ParallelLoops(n) ==
    [op : {"FastLoop_Absorb"}, seed : {2}, rounds : {12, 24}, laneCount : {17, 21},
     laneOffsetParallel : {45}, laneOffsetSerial : {21}, length : {8 * (45 * n + 5)}]
Farfalle(n) ==
    [op : {"KravatteCompress", "KravatteExpand"}, seed : {2}, length : {200 * n, 400 * n + 200}]
    \cup [op : {"ProcessLeaves"}, seed : {2}, rate : {136, 168}]

\* All the calls of each object.
MCCalls(ob, n) ==
    LET N == Parallelism(ob)
    IN  CASE n = 0 /\ N = 1 ->
                {[op |-> "OverwriteBytes", i |-> 0, seed |-> 1, offset |-> 0, length |-> 200]}
          [] n = 0 /\ N > 1 ->
                {[op |-> "OverwriteLanesAll", seed |-> 1, laneCount |-> 25, laneOffset |-> 25]}
          [] n = 1 /\ N = 1 ->
                ByteCalls(0) \cup Permutations_({5, 6, 7, 12, 24}) \cup SerialLoops \cup ODLoops
          [] n = 1 /\ N > 1 /\ ob \notin Dispatched ->
                ByteCalls(N - 1) \cup Permutations_({4, 6, 12, 24}) \cup LanesCalls
                \cup ParallelLoops(N) \cup Farfalle(N)
          [] n = 1 /\ ob \in Dispatched ->
                {c \in LanesCalls : c.laneCount = 17 /\ c.laneOffset = 17 /\ c.op = "AddLanesAll"}
                \cup Permutations_({4})
                \cup {[op |-> "KravatteCompress", seed |-> 2, length |-> 200 * N]}
          [] n > 1 -> {}
=============================================================================
