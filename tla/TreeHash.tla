------------------------------ MODULE TreeHash ------------------------------
(***************************************************************************)
(* What KangarooTwelve promises: the input, a message, a customization     *)
(* string and the encoding of its length, is cut in chunks; the first is   *)
(* kept and every other one is hashed by a leaf to a chaining value, so    *)
(* that a final node absorbs them all.  An object takes the message in     *)
(* pieces, is told once where it ends, and gives out the final node's      *)
(* output.  There is no queue, no parallelism and no loop here.            *)
(***************************************************************************)
EXTENDS Integers, Sequences, FiniteSets

CONSTANTS
  ChunkSize,  \* bytes of a chunk: 8192
  LaneSize,   \* bytes of a lane: 8
  Radix,      \* values of a byte in the encoding of a length: 256
  MaxCustom   \* bound: bytes of a customization string

\* A byte of the message, of the customization string, or with a fixed value.
Message(n) == [i \in 1 .. n |-> <<"message", i>>]
Custom(n)  == [i \in 1 .. n |-> <<"custom", i>>]
Fixed(v)   == <<"fixed", v>>

\* How many digits v has, as many as powers of the radix are not above it: none
\* for 0.
Digits(v) == Cardinality({m \in 0 .. v : Radix ^ m <= v})

\* The digits of v, the most significant first, and how many they are.
RightEncode(v) ==
  [i \in 1 .. Digits(v) |-> Fixed((v \div Radix ^ (Digits(v) - i)) % Radix)]
    \o <<Fixed(Digits(v))>>

\* The input of a message of m bytes and a customization string of c bytes.
Input(m, c) == Message(m) \o Custom(c) \o RightEncode(c)

Smaller(a, b) == IF a <= b THEN a ELSE b

\* Chunk number i, counted from 0, and how many there are.
Chunk(s, i) == SubSeq(s, i * ChunkSize + 1, Smaller((i + 1) * ChunkSize, Len(s)))
Chunks(s) == (Len(s) + ChunkSize - 1) \div ChunkSize

\* What a node has absorbed, and the byte that ended it: 0 while it is open.
Node(bytes, suffix) == [bytes |-> bytes, suffix |-> suffix]

SuffixLeaf == 11

\* The first n bytes of output of a node that has ended.
Squeezed(node, n) == [i \in 1 .. n |-> <<"cv", node, i>>]

\* The chaining values of chunks 1 to n, each c bytes long.
ChainingValues(s, n, c) ==
  [k \in 1 .. n * c |->
     Squeezed(Node(Chunk(s, (k - 1) \div c + 1), SuffixLeaf), c)[((k - 1) % c) + 1]]

\* The first chunk in a lane of its own, the end of which is padding.
FirstChunk(s) == Chunk(s, 0) \o <<Fixed(3)>> \o [i \in 1 .. LaneSize - 1 |-> Fixed(0)]

\* The final node for the input s, with chaining values of c bytes.
FinalNode(s, c) ==
  LET n == Chunks(s) - 1
  IN  IF n = 0
        THEN Node(s, 7)
        ELSE Node(FirstChunk(s) \o ChainingValues(s, n, c)
                    \o RightEncode(n) \o <<Fixed(255), Fixed(255)>>, 6)

-----------------------------------------------------------------------------
VARIABLES
  level,    \* bytes of a chaining value; 0 until the object is opened
  limit,    \* bytes of output asked for when it was opened, 0 for any number
  message,  \* bytes of message received
  result,   \* the final node, once the message has ended
  given     \* bytes of its output given out

hash == <<level, limit, message, result, given>>

NoResult == Node(<<>>, 0)

Init == level = 0 /\ limit = 0 /\ message = 0 /\ result = NoResult /\ given = 0

Open ==
  /\ level' \in Nat \ {0} /\ limit' \in Nat
  /\ message' = 0 /\ result' = NoResult /\ given' = 0

Receive ==
  /\ level # 0 /\ result = NoResult
  /\ message' > message
  /\ UNCHANGED <<level, limit, result, given>>

Finish(c) ==
  /\ level # 0 /\ result = NoResult
  /\ result' = FinalNode(Input(message, c), level)
  /\ given' = limit
  /\ UNCHANGED <<level, limit, message>>

Give ==
  /\ result # NoResult /\ limit = 0
  /\ given' > given
  /\ UNCHANGED <<level, limit, message, result>>

Next == Open \/ Receive \/ (\E c \in 0 .. MaxCustom : Finish(c)) \/ Give

Spec == Init /\ [][Next]_hash

=============================================================================
