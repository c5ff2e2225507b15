---------------------------- MODULE KangarooTwelve ---------------------------
(***************************************************************************)
(* KangarooTwelve.c: one instance driven by one caller, which cuts the     *)
(* message in pieces of any size.  A chunk that is not complete stays in   *)
(* the queue node; complete ones are hashed one by one, or as many at once *)
(* as the processor's instructions allow, which every call of Update asks  *)
(* anew.  Every iteration of a loop of Update is a step.                   *)
(*                                                                         *)
(* The two nodes are TurboSHAKE objects.  Sponge shows that such an object *)
(* is the sequence of bytes it has absorbed and the byte that ended it.    *)
(***************************************************************************)
EXTENDS Integers, Sequences

CONSTANTS
  ChunkSize, LaneSize, Radix,  \* 8192 bytes, 8 bytes, 256
  Width,        \* bytes of the permutation: 200
  Levels,       \* the security levels, in bytes: 16 and 32
  Parallelism,  \* how many leaves can be hashed at once: 2, 4 and 8
  MaxMessage, MaxCustom, MaxOutput  \* bounds: bytes given to and by an instance

ASSUME KangarooTwelveAssumption ==
  /\ ChunkSize \in Nat \ {0} /\ LaneSize \in Nat \ {0} /\ Radix \in Nat \ {0, 1}
  /\ ChunkSize % LaneSize = 0 /\ Width \in Nat /\ Parallelism \subseteq Nat \ {0, 1}
  /\ \A l \in Levels :
       LET rate == Width - 2 * l
       IN  /\ l \in Nat \ {0} /\ rate \in Nat \ {0}
           /\ (2 * l) % LaneSize = 0 /\ rate % LaneSize = 0
           /\ (ChunkSize % rate) + LaneSize < rate
  /\ MaxMessage \in Nat /\ MaxCustom \in Nat /\ MaxOutput \in Nat

VARIABLES
  finalNode, queueNode, fixedOutputLength, blockNumber, queueAbsorbedLen,
  phase, securityLevel,  \* the fields of KangarooTwelve_Instance
  call,     \* the call in progress, the bytes left to take and the leaves at once
  error,    \* a call on a node has been refused
  input,    \* history: the bytes given to Update
  message,  \* history: the bytes of message among them
  custom,   \* history: the length of the customization string
  given     \* history: the bytes of output given out

nodes == <<finalNode, queueNode>>
instance == <<nodes, fixedOutputLength, blockNumber, queueAbsorbedLen, phase, securityLevel>>
history == <<input, message, custom, given>>
vars == <<instance, call, error, history>>

Idle == [in |-> "none", at |-> "done", left |-> <<>>, atOnce |-> {}]

capacityInBytes == 2 * securityLevel
rateInBytes == Width - capacityInBytes

\* What the final node must be in the end.
Tree == INSTANCE TreeHash WITH
  level  <- IF phase = "NOT_INITIALIZED" THEN 0 ELSE capacityInBytes,
  limit  <- fixedOutputLength,
  result <- IF phase \in {"FINAL", "SQUEEZING"} THEN finalNode ELSE [bytes |-> <<>>, suffix |-> 0]


-----------------------------------------------------------------------------
(* The nodes.                                                              *)

NewNode == [bytes |-> <<>>, suffix |-> 0]
CanAbsorb(node) == node.suffix = 0
Absorb(node, bytes) == [node EXCEPT !.bytes = @ \o bytes]
End(node, suffix) == [node EXCEPT !.suffix = suffix]

\* Mutant: the lane is not completed.
NoZeroPadding(node) == <<>>

\* Zero padding up to a multiple of a lane in the block: byteIOIndex is moved.
ZeroPadding(node) ==
  LET byteIOIndex == Len(node.bytes) % rateInBytes
  IN  [i \in 1 .. (0 - byteIOIndex) % LaneSize |-> Tree!Fixed(0)]

ChainingValue(node) == Tree!Squeezed(End(node, Tree!SuffixLeaf), capacityInBytes)

Prefix(s, n) == SubSeq(s, 1, n)
Suffix(s, n) == SubSeq(s, n + 1, Len(s))
Smaller(a, b) == IF a <= b THEN a ELSE b

\* A call on a node is refused and ends the call.  None is ever refused
\* (NeverRefused), so nothing follows from here.
Refuse == error' = TRUE /\ call' = Idle /\ UNCHANGED <<instance, history>>

-----------------------------------------------------------------------------
Init ==
  /\ finalNode = NewNode /\ queueNode = NewNode /\ fixedOutputLength = 0
  /\ blockNumber = 0 /\ queueAbsorbedLen = 0
  /\ phase = "NOT_INITIALIZED" /\ securityLevel = 0
  /\ call = Idle /\ error = FALSE
  /\ input = <<>> /\ message = 0 /\ custom = 0 /\ given = 0

KangarooTwelve_Initialize(level, outputByteLen) ==
  /\ call = Idle /\ ~error
  /\ fixedOutputLength' = outputByteLen
  /\ queueAbsorbedLen' = 0 /\ blockNumber' = 0
  /\ phase' = "ABSORBING" /\ securityLevel' = level
  /\ finalNode' = NewNode
  /\ input' = <<>> /\ message' = 0 /\ custom' = 0 /\ given' = 0
  /\ UNCHANGED <<queueNode, call, error>>

-----------------------------------------------------------------------------
(* KangarooTwelve_Update, also called by KangarooTwelve_Final.             *)

\* Where Update begins: there is nothing to complete first when the last leaf
\* is complete.
Update(in, bytes) ==
  \E atOnce \in SUBSET Parallelism :
    call' = [in |-> in, left |-> bytes, atOnce |-> atOnce,
             at |-> IF blockNumber # 0 /\ queueAbsorbedLen = 0 THEN "leaves" ELSE "queue"]

KangarooTwelve_Update(n) ==
  /\ phase = "ABSORBING" /\ call = Idle /\ ~error
  /\ message + n <= MaxMessage
  /\ message' = message + n
  /\ input' = input \o Suffix(Tree!Message(message + n), message)
  /\ Update("update", Suffix(Tree!Message(message + n), message))
  /\ UNCHANGED <<instance, error, custom, given>>

\* Mutant: stays where it is.
TakeAgain(n, at) == call' = [call EXCEPT !.left = Suffix(@, n)]

\* The next n bytes are taken, and Update goes on at its loops.
Take(n, at) == call' = [call EXCEPT !.left = Suffix(@, n), !.at = at]

\* Mutant: closes the first chunk although nothing follows it.
ClosedAtOnce(n) == queueAbsorbedLen + n = ChunkSize

\* First block complete and more input data available.
FirstChunkCloses(n) == queueAbsorbedLen + n = ChunkSize /\ n < Len(call.left)

\* First block, absorb in final node.
FillFirstChunk ==
  LET n == Smaller(Len(call.left), ChunkSize - queueAbsorbedLen)
      node == Absorb(finalNode, Prefix(call.left, n))
      padded == Absorb(node, <<Tree!Fixed(3)>>)
  IN  /\ call.at = "queue" /\ blockNumber = 0
      /\ IF CanAbsorb(finalNode)
           THEN /\ IF FirstChunkCloses(n)
                     THEN /\ queueAbsorbedLen' = 0 /\ blockNumber' = 1
                          /\ finalNode' = Absorb(padded, ZeroPadding(padded))
                     ELSE /\ queueAbsorbedLen' = queueAbsorbedLen + n
                          /\ finalNode' = node
                          /\ UNCHANGED blockNumber
                /\ Take(n, "leaves")
                /\ UNCHANGED <<queueNode, fixedOutputLength, phase, securityLevel, error, history>>
           ELSE Refuse

\* The queue is empty once its chunk is complete.
LengthAfter(n) == IF n = ChunkSize THEN 0 ELSE n

\* The queue node takes bytes, and gives its chaining value when its chunk,
\* which then has n bytes, is complete.
Queue(node, bytes, n) ==
  /\ queueAbsorbedLen' = LengthAfter(n)
  /\ IF n = ChunkSize
       THEN /\ blockNumber' = blockNumber + 1
            /\ queueNode' = End(Absorb(node, bytes), Tree!SuffixLeaf)
            /\ finalNode' = Absorb(finalNode, ChainingValue(Absorb(node, bytes)))
       ELSE /\ queueNode' = Absorb(node, bytes)
            /\ UNCHANGED <<blockNumber, finalNode>>

\* There is data in the queue, absorb further in queue until block complete.
FillQueue ==
  LET n == Smaller(Len(call.left), ChunkSize - queueAbsorbedLen)
  IN  /\ call.at = "queue" /\ blockNumber # 0
      /\ IF CanAbsorb(queueNode) /\ CanAbsorb(finalNode)
           THEN /\ Queue(queueNode, Prefix(call.left, n), queueAbsorbedLen + n)
                /\ Take(n, "leaves")
                /\ UNCHANGED <<fixedOutputLength, phase, securityLevel, error, history>>
           ELSE Refuse

\* The leaves that are hashed at once: as many as possible.
CanHash(p) == p \in call.atOnce /\ Len(call.left) >= p * ChunkSize

\* Mutant: counts a single leaf.
LeavesUncounted(p) == 1

LeavesCounted(p) == p

\* ParallelSpongeLoop, ParallelSpongeFastLoop and ProcessLeavesKT128/KT256.
HashLeaves(p) ==
  LET leaf(i) == Absorb(NewNode, Tree!Chunk(call.left, i))
      values == [k \in 1 .. p * capacityInBytes |->
                   ChainingValue(leaf((k - 1) \div capacityInBytes))[((k - 1) % capacityInBytes) + 1]]
  IN  /\ call.at = "leaves" /\ CanHash(p)
      /\ \A q \in Parallelism : CanHash(q) => q <= p
      /\ IF CanAbsorb(finalNode)
           THEN /\ finalNode' = Absorb(finalNode, values)
                /\ blockNumber' = blockNumber + LeavesCounted(p)
                /\ Take(p * ChunkSize, "leaves")
                /\ UNCHANGED <<queueNode, fixedOutputLength, queueAbsorbedLen, phase,
                               securityLevel, error, history>>
           ELSE Refuse

\* Mutant: goes on with the node of the leaf before.
LeafContinued == queueNode

\* TurboSHAKE_Initialize(&ktInstance->queueNode, ...)
LeafStart == NewNode

\* One more leaf, or the beginning of one.  There is more to take only once the
\* queue is empty.
HashLeaf ==
  LET n == Smaller(Len(call.left), ChunkSize)
  IN  /\ call.at = "leaves" /\ call.left # <<>>
      /\ ~ \E p \in Parallelism : CanHash(p)
      /\ IF CanAbsorb(LeafStart) /\ CanAbsorb(finalNode)
           THEN /\ Queue(LeafStart, Prefix(call.left, n), n)
                /\ Take(n, "leaves")
                /\ UNCHANGED <<fixedOutputLength, phase, securityLevel, error, history>>
           ELSE Refuse

UpdateReturns ==
  /\ call.in = "update" /\ call.at = "leaves" /\ call.left = <<>>
  /\ call' = Idle
  /\ UNCHANGED <<instance, error, history>>

-----------------------------------------------------------------------------
(* KangarooTwelve_Final, which calls Update twice, and Squeeze.            *)

KangarooTwelve_Final(c) ==
  LET bytes == IF c = 0 THEN Tree!RightEncode(0) ELSE Tree!Custom(c)
  IN  /\ phase = "ABSORBING" /\ call = Idle /\ ~error
      /\ custom' = c
      /\ input' = input \o bytes
      /\ Update(IF c = 0 THEN "encoding" ELSE "custom", bytes)
      /\ UNCHANGED <<instance, error, message, given>>

\* The customization string is in; its length is next.
CustomTaken ==
  /\ call.in = "custom" /\ call.at = "leaves" /\ call.left = <<>>
  /\ input' = input \o Tree!RightEncode(custom)
  /\ Update("encoding", Tree!RightEncode(custom))
  /\ UNCHANGED <<instance, error, message, custom, given>>

\* Mutant: the leaf in the queue is left out.
QueueForgotten == FALSE

\* There is data in the queue node.
QueueHoldsLeaf == queueAbsorbedLen # 0

\* The rest of Final: the last leaf, the number of leaves, the end of the final
\* node, and the output if its length was fixed.
Finish ==
  LET last == IF QueueHoldsLeaf THEN ChainingValue(queueNode) ELSE <<>>
      leaves == IF QueueHoldsLeaf THEN blockNumber ELSE blockNumber - 1
      tail == last \o Tree!RightEncode(leaves) \o <<Tree!Fixed(255), Tree!Fixed(255)>>
  IN  /\ call.in = "encoding" /\ call.at = "leaves" /\ call.left = <<>>
      /\ IF CanAbsorb(finalNode) /\ (blockNumber # 0 /\ QueueHoldsLeaf => CanAbsorb(queueNode))
           THEN /\ IF blockNumber = 0
                     THEN /\ finalNode' = End(finalNode, 7)
                          /\ UNCHANGED <<queueNode, blockNumber>>
                     ELSE /\ finalNode' = End(Absorb(finalNode, tail), 6)
                          /\ queueNode' = IF QueueHoldsLeaf THEN End(queueNode, Tree!SuffixLeaf)
                                                           ELSE queueNode
                          /\ blockNumber' = leaves
                /\ phase' = IF fixedOutputLength # 0 THEN "FINAL" ELSE "SQUEEZING"
                /\ given' = fixedOutputLength
                /\ call' = Idle
                /\ UNCHANGED <<fixedOutputLength, queueAbsorbedLen, securityLevel, error,
                               input, message, custom>>
           ELSE Refuse

KangarooTwelve_Squeeze(n) ==
  /\ phase = "SQUEEZING" /\ call = Idle /\ ~error
  /\ given + n <= MaxOutput
  /\ given' = given + n
  /\ UNCHANGED <<instance, call, error, input, message, custom>>

Step ==
  FillFirstChunk \/ FillQueue \/ (\E p \in Parallelism : HashLeaves(p)) \/ HashLeaf
    \/ UpdateReturns \/ CustomTaken \/ Finish

Next ==
  \/ \E l \in Levels, n \in 0 .. MaxOutput : KangarooTwelve_Initialize(l, n)
  \/ \E n \in 0 .. MaxMessage : KangarooTwelve_Update(n)
  \/ \E c \in 0 .. MaxCustom : KangarooTwelve_Final(c)
  \/ \E n \in 1 .. MaxOutput : KangarooTwelve_Squeeze(n)
  \/ Step

\* A call that has started runs on: its loops wait for nothing.
Spec == Init /\ [][Next]_vars /\ WF_vars(Step)

-----------------------------------------------------------------------------
\* No call on a node is refused: a node that has given its chaining value is
\* not absorbed into again (KangarooTwelve.c 193-205 and 262-279).
NeverRefused == ~error

\* The bytes taken so far.
Taken == Prefix(input, Len(input) - Len(call.left))

\* Between any two iterations of the loops, every byte taken is in the node it
\* belongs in: the first chunk and the chaining values of the complete leaves,
\* in order, in the final node, the rest in the queue node.
ChunksInNodes ==
  phase = "ABSORBING" =>
    IF blockNumber = 0
      THEN /\ finalNode = Tree!Node(Taken, 0)
           /\ queueAbsorbedLen = Len(Taken)
      ELSE /\ finalNode = Tree!Node(Tree!FirstChunk(Taken)
                \o Tree!ChainingValues(Taken, blockNumber - 1, capacityInBytes), 0)
           /\ Len(Taken) = blockNumber * ChunkSize + queueAbsorbedLen
           /\ queueAbsorbedLen # 0 => queueNode = Tree!Node(Tree!Chunk(Taken, blockNumber), 0)

\* Whatever the pieces and the leaves hashed at once, the instance gives out
\* the output of the tree of the whole input, as many bytes as were asked for.
ImplementsTreeHash == Tree!Spec

\* Every call returns.
EveryCallReturns == call # Idle ~> call = Idle

=============================================================================
