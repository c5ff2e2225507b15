------------------------- MODULE KangarooTwelveProofs -------------------------
(***************************************************************************)
(* For every size of a chunk, of a lane and of the capacity, any number of *)
(* leaves hashed at once and every way to cut the input in pieces, no call *)
(* on a node is refused, every byte taken is in the node it belongs in,    *)
(* and the instance gives the output of the tree of the whole input.       *)
(***************************************************************************)
EXTENDS KangarooTwelve, SequenceTheorems, FiniteSetTheorems, TLAPS

\* What the nodes absorb: bytes of the input, and bytes of chaining values.
InputByte ==
  {<<"message", i>> : i \in Nat} \cup {<<"custom", i>> : i \in Nat}
    \cup {<<"fixed", v>> : v \in Nat}
    \cup {<<"fixed", (v \div Radix ^ j) % Radix>> : v \in Nat, j \in Nat}
Leaf(x) == [bytes |-> x, suffix |-> 11]
NodeByte ==
  InputByte \cup {<<"cv", Leaf(x), j>> : x \in Seq(InputByte), j \in Nat}

\* A chunk that is complete, and the first one with its padding.
Piece(s, i) == SubSeq(s, i * ChunkSize + 1, (i + 1) * ChunkSize)
Opening(x) == x \o <<Tree!Fixed(3)>> \o [i \in 1 .. LaneSize - 1 |-> Tree!Fixed(0)]

\* The chaining values of leaves f[1] to f[n], of c bytes each.
Values(f, n, c) ==
  [k \in 1 .. n * c |-> <<"cv", Leaf(f[(k - 1) \div c + 1]), ((k - 1) % c) + 1>>]

\* The leaves 1 to n of the input s.
Leaves(s, n) == [i \in 1 .. n |-> Piece(s, i)]

\* The first t bytes of s are in the nodes they belong in: b chunks are
\* complete, or none is closed, and q bytes are in the chunk that follows.
Placed(fin, que, b, q, s, c, t) ==
  IF b = 0
    THEN fin = Tree!Node(SubSeq(s, 1, t), 0) /\ q = t
    ELSE /\ fin = Tree!Node(Opening(Piece(s, 0)) \o Values(Leaves(s, b - 1), b - 1, c), 0)
         /\ t = b * ChunkSize + q
         /\ q # 0 => que = Tree!Node(SubSeq(s, b * ChunkSize + 1, t), 0)

InNodes(t) ==
  Placed(finalNode, queueNode, blockNumber, queueAbsorbedLen, input, capacityInBytes, t)

AlreadyTaken == Len(input) - Len(call.left)

\* The call in progress takes the end of the input. Once its loops over leaves
\* have begun the queue is empty, or there is nothing left to take.
CallInv ==
  \/ call = Idle
  \/ /\ call = [in |-> call.in, at |-> call.at, left |-> call.left, atOnce |-> call.atOnce]
     /\ call.in \in {"update", "custom", "encoding"} /\ call.at \in {"queue", "leaves"}
     /\ phase = "ABSORBING"
     /\ AlreadyTaken \in 0 .. Len(input)
     /\ call.left = SubSeq(input, AlreadyTaken + 1, Len(input))
     /\ call.at = "queue" => blockNumber = 0 \/ queueAbsorbedLen # 0
     /\ call.at = "leaves" /\ call.left # <<>> => blockNumber # 0 /\ queueAbsorbedLen = 0

\* The input is the message, then the customization string and its length.
InputIs ==
  input = CASE call.in = "custom" -> Tree!Message(message) \o Tree!Custom(custom)
            [] call.in = "encoding" -> Tree!Input(message, custom)
            [] OTHER -> Tree!Message(message)

IInv ==
  /\ phase \in {"NOT_INITIALIZED", "ABSORBING", "FINAL", "SQUEEZING"}
  /\ phase # "NOT_INITIALIZED" => securityLevel \in Levels
  /\ fixedOutputLength \in Nat /\ (phase = "SQUEEZING" => fixedOutputLength = 0)
  /\ phase \in {"FINAL", "SQUEEZING"} => finalNode.suffix \in {6, 7}
  /\ blockNumber \in Nat /\ queueAbsorbedLen \in 0 .. ChunkSize
  /\ blockNumber # 0 => queueAbsorbedLen # ChunkSize
  /\ input \in Seq(InputByte) /\ message \in Nat /\ custom \in 0 .. MaxCustom /\ given \in Nat
  /\ CallInv
  /\ phase = "ABSORBING" => InputIs /\ InNodes(AlreadyTaken)
  /\ ~error

-----------------------------------------------------------------------------
(* Pieces of sequences.                                                    *)

LEMMA ChunkType == ChunkSize \in Nat \ {0} /\ LaneSize \in Nat \ {0}
BY KangarooTwelveAssumption

\* Sequences of bytes of a node, put together.
LEMMA NodeBytesJoin == \A x, y \in Seq(NodeByte) : x \o y \in Seq(NodeByte)
BY ConcatProperties

Associate(x, y, z) == (x \o y) \o z = x \o (y \o z)

LEMMA NodeBytesAssociate == \A x, y, z \in Seq(NodeByte) : Associate(x, y, z)
<1> TAKE x, y, z \in Seq(NodeByte)
<1> QED BY ConcatAssociative, SMTT(30) DEF Associate

\* Part of a sequence.
LEMMA PartType ==
  ASSUME NEW S, NEW s \in Seq(S), NEW a \in Nat, NEW b \in a .. Len(s)
  PROVE  SubSeq(s, a + 1, b) \in Seq(S) /\ Len(SubSeq(s, a + 1, b)) = b - a
<1>1. Len(s) \in Nat
  OBVIOUS
<1>2. \A i \in a + 1 .. b : s[i] \in S
  <2> TAKE i \in a + 1 .. b
  <2>1. i \in 1 .. Len(s)
    BY <1>1
  <2> QED BY <2>1, ElementOfSeq
<1> DEFINE m == a + 1
<1>3. m \in Int /\ b \in Int /\ (m <= b \/ b - a = 0) /\ b - m + 1 = b - a
  BY <1>1
<1>4. \A i \in m .. b : s[i] \in S
  BY <1>2
<1> HIDE DEF m
<1>5. SubSeq(s, m, b) \in Seq(S) /\ Len(SubSeq(s, m, b)) = IF m <= b THEN b - m + 1 ELSE 0
  BY <1>3, <1>4, SubSeqProperties
<1>6. m <= b \/ b - m + 1 <= 0
  BY <1>3
<1> QED BY <1>1, <1>3, <1>5 DEF m

\* Part of a part.
LEMMA PartOfPart ==
  ASSUME NEW S, NEW s \in Seq(S), NEW a \in Nat, NEW b \in a .. Len(s),
         NEW m \in Nat, NEW n \in m .. b - a
  PROVE  SubSeq(SubSeq(s, a + 1, b), m + 1, n) = SubSeq(s, a + m + 1, a + n)
<1>1. Len(s) \in Nat /\ a + m \in Nat /\ a + n \in a + m .. Len(s)
  OBVIOUS
<1>2. CASE m = n
  <2>1. m + 1 \in Int /\ n \in Int /\ n < m + 1 /\ a + m + 1 \in Int /\ a + n \in Int
        /\ a + n < a + m + 1
    BY <1>2
  <2> QED BY <2>1, SubSeqEmpty
<1>3. CASE m # n
  <2>1. a + 1 \in 1 .. Len(s) /\ b \in 1 .. Len(s) /\ m + 1 \in 1 .. b - (a + 1) + 1
        /\ n \in 1 .. b - (a + 1) + 1
        /\ a + 1 + (m + 1) - 1 = a + m + 1 /\ a + 1 + n - 1 = a + n
    BY <1>1, <1>3
  <2>2. \A i, j \in 1 .. Len(s) : \A p, q \in 1 .. j - i + 1 :
          SubSeq(SubSeq(s, i, j), p, q) = SubSeq(s, i + p - 1, i + q - 1)
    BY SubSeqOfSubSeq
  <2>3. SubSeq(SubSeq(s, a + 1, b), m + 1, n) = SubSeq(s, a + 1 + (m + 1) - 1, a + 1 + n - 1)
    BY <2>1, <2>2
  <2> QED BY <2>1, <2>3
<1> QED BY <1>2, <1>3

\* Two parts that follow one another.
LEMMA PartsJoin ==
  ASSUME NEW S, NEW s \in Seq(S), NEW a \in Nat, NEW b \in a .. Len(s), NEW e \in b .. Len(s)
  PROVE  SubSeq(s, a + 1, b) \o SubSeq(s, b + 1, e) = SubSeq(s, a + 1, e)
<1>1. Len(s) \in Nat
  OBVIOUS
<1>2. a + 1 \in 1 .. Len(s) + 1 /\ b \in a + 1 - 1 .. Len(s) /\ e \in b .. Len(s)
  BY <1>1
<1> QED BY <1>2, ConcatAdjacentSubSeq

\* What is appended to a sequence leaves its parts as they are.
LEMMA PartStays ==
  ASSUME NEW S, NEW s \in Seq(S), NEW t \in Seq(S), NEW a \in Nat, NEW b \in a .. Len(s)
  PROVE  SubSeq(s \o t, a + 1, b) = SubSeq(s, a + 1, b)
<1>1. CASE a = b
  <2>1. a + 1 \in Int /\ b \in Int /\ b < a + 1
    BY <1>1
  <2> QED BY <2>1, SubSeqEmpty
<1>2. CASE a # b
  <2>1. a + 1 \in 1 .. Len(s) /\ b \in 1 .. Len(s)
    BY <1>2
  <2> QED BY <2>1, SubSeqOfConcat1
<1> QED BY <1>1, <1>2

\* Chunk i lies within the first n, if i is one of them.
LEMMA ChunkBounds ==
  ASSUME NEW n \in Nat, NEW i \in Nat, i < n
  PROVE  /\ i * ChunkSize \in Nat /\ n * ChunkSize \in Nat
         /\ (i + 1) * ChunkSize = i * ChunkSize + ChunkSize
         /\ (i + 1) * ChunkSize <= n * ChunkSize
<1>1. i * ChunkSize \in Nat /\ n * ChunkSize \in Nat
      /\ (i + 1) * ChunkSize = i * ChunkSize + ChunkSize
  BY ChunkType
<1>2. PICK m \in Nat : n = i + 1 + m
  <2>1. n - i - 1 \in Nat /\ n = i + 1 + (n - i - 1)
    OBVIOUS
  <2> QED BY <2>1
<1> DEFINE b == (i + 1) * ChunkSize
           e == m * ChunkSize
           g == n * ChunkSize
<1>3. g = b + e /\ b \in Nat /\ e \in Nat
  BY <1>2, ChunkType
<1> HIDE DEF b, e, g
<1>4. b <= g
  BY <1>3
<1> QED BY <1>1, <1>4 DEF b, g

LEMMA PieceType ==
  ASSUME NEW s \in Seq(InputByte), NEW i \in Nat, (i + 1) * ChunkSize <= Len(s)
  PROVE  Piece(s, i) \in Seq(InputByte) /\ Len(Piece(s, i)) = ChunkSize
<1> DEFINE a == i * ChunkSize
           b == (i + 1) * ChunkSize
<1>1. a \in Nat /\ b = a + ChunkSize
  BY ChunkType
<1>2. Len(s) \in Nat /\ b <= Len(s)
  OBVIOUS
<1> HIDE DEF a, b
<1>3. b \in a .. Len(s) /\ b - a = ChunkSize
  BY <1>1, <1>2, ChunkType
<1>4. SubSeq(s, a + 1, b) \in Seq(InputByte) /\ Len(SubSeq(s, a + 1, b)) = b - a
  BY <1>1, <1>3, PartType
<1> QED BY <1>3, <1>4 DEF Piece, a, b

-----------------------------------------------------------------------------
(* Chaining values.                                                        *)

LEMMA Quotients ==
  ASSUME NEW r \in Nat \ {0}, NEW i \in Nat
  PROVE  i \div r \in Nat /\ i % r \in 0 .. r - 1 /\ i = (i \div r) * r + (i % r)
BY SMT

LEMMA DivModUnique ==
  ASSUME NEW r \in Nat \ {0}, NEW q \in Int, NEW p \in 0 .. r - 1
  PROVE  (q * r + p) \div r = q /\ (q * r + p) % r = p
BY SMT

\* The byte k of n leaves is a byte of one of them.
LEMMA LeafOfByte ==
  ASSUME NEW c \in Nat \ {0}, NEW n \in Nat, NEW k \in 1 .. n * c
  PROVE  (k - 1) \div c + 1 \in 1 .. n /\ ((k - 1) % c) + 1 \in 1 .. c
<1> DEFINE i == k - 1
           q == i \div c
           m == n * c
<1>1. m \in Nat
  OBVIOUS
<1>2. i \in Nat /\ i < m
  BY <1>1
<1> HIDE DEF i
<1>3. q \in Nat /\ i % c \in 0 .. c - 1 /\ i = q * c + (i % c)
  BY <1>2, Quotients
<1>4. q < n
  <2> SUFFICES ASSUME q >= n PROVE FALSE
    BY <1>3
  <2>1. PICK a \in Nat : q = n + a
    <3>1. q - n \in Nat /\ q = n + (q - n)
      BY <1>3
    <3> QED BY <3>1
  <2> HIDE DEF q
  <2>2. q * c = m + a * c /\ a * c \in Nat
    BY <2>1
  <2> DEFINE e == a * c
             f == q * c
  <2>3. f = m + e /\ e \in Nat /\ i = f + (i % c)
    BY <1>3, <2>2
  <2> HIDE DEF e, f, m
  <2> QED BY <1>1, <1>2, <1>3, <2>3
<1> HIDE DEF q
<1>5. q + 1 \in 1 .. n /\ (i % c) + 1 \in 1 .. c
  BY <1>3, <1>4
<1> QED BY <1>5 DEF q, i

LEMMA ValuesType ==
  ASSUME NEW c \in Nat \ {0}, NEW n \in Nat, NEW f, \A i \in 1 .. n : f[i] \in Seq(InputByte)
  PROVE  /\ Values(f, n, c) \in Seq(NodeByte) /\ Len(Values(f, n, c)) = n * c
         /\ \A k \in 1 .. n * c :
              Values(f, n, c)[k] = <<"cv", Leaf(f[(k - 1) \div c + 1]), ((k - 1) % c) + 1>>
<1> DEFINE e(k) == <<"cv", Leaf(f[(k - 1) \div c + 1]), ((k - 1) % c) + 1>>
           m == n * c
           g == [k \in 1 .. m |-> e(k)]
<1>1. g = Values(f, n, c) /\ m \in Nat
  BY DEF Values
<1>2. ASSUME NEW k \in 1 .. m PROVE e(k) \in NodeByte
  <2>1. (k - 1) \div c + 1 \in 1 .. n /\ ((k - 1) % c) + 1 \in Nat
    BY LeafOfByte
  <2>2. f[(k - 1) \div c + 1] \in Seq(InputByte)
    BY <2>1
  <2> QED BY <2>1, <2>2 DEF NodeByte
<1>3. \A k \in 1 .. m : g[k] = e(k)
  OBVIOUS
<1> HIDE DEF e, m
<1>4. g \in [1 .. m -> NodeByte]
  BY <1>2
<1> HIDE DEF g
<1>5. g \in Seq(NodeByte) /\ Len(g) = m
  BY <1>1, <1>4
<1> QED BY <1>1, <1>3, <1>5 DEF e, m

\* The same leaves have the same chaining values.
LEMMA ValuesEqual ==
  ASSUME NEW c \in Nat \ {0}, NEW n \in Nat, NEW f, NEW g, \A i \in 1 .. n : f[i] = g[i]
  PROVE  Values(f, n, c) = Values(g, n, c)
<1>1. ASSUME NEW k \in 1 .. n * c
      PROVE  f[(k - 1) \div c + 1] = g[(k - 1) \div c + 1]
  BY LeafOfByte
<1> QED BY <1>1 DEF Values

\* The n leaves of f and the p leaves of g after them are the leaves of h.
Together(f, n, g, p, h) ==
  /\ \A i \in 1 .. n + p : h[i] \in Seq(InputByte)
  /\ \A i \in 1 .. n : f[i] = h[i]
  /\ \A i \in 1 .. p : g[i] = h[n + i]

\* The chaining values of n leaves, then those of p more.
LEMMA ValuesJoin ==
  ASSUME NEW c \in Nat \ {0}, NEW n \in Nat, NEW p \in Nat, NEW f, NEW g, NEW h,
         Together(f, n, g, p, h)
  PROVE  Values(f, n, c) \o Values(g, p, c) = Values(h, n + p, c)
<1>0. /\ \A i \in 1 .. n + p : h[i] \in Seq(InputByte)
      /\ \A i \in 1 .. n : f[i] = h[i]
      /\ \A i \in 1 .. p : g[i] = h[n + i]
  BY DEF Together
<1>1. /\ \A i \in 1 .. n : f[i] \in Seq(InputByte)
      /\ \A i \in 1 .. p : g[i] \in Seq(InputByte)
  <2>1. \A i \in 1 .. n : i \in 1 .. n + p
    OBVIOUS
  <2>2. \A i \in 1 .. p : n + i \in 1 .. n + p
    OBVIOUS
  <2> QED BY <1>0, <2>1, <2>2
<1> DEFINE x == Values(f, n, c)
           y == Values(g, p, c)
           z == Values(h, n + p, c)
           a == n * c
           b == p * c
           m == (n + p) * c
<1>2. a \in Nat /\ b \in Nat /\ m = a + b
  OBVIOUS
<1>3. x \in Seq(NodeByte) /\ Len(x) = a
      /\ \A k \in 1 .. a : x[k] = <<"cv", Leaf(f[(k - 1) \div c + 1]), ((k - 1) % c) + 1>>
  BY <1>1, ValuesType
<1>4. y \in Seq(NodeByte) /\ Len(y) = b
      /\ \A k \in 1 .. b : y[k] = <<"cv", Leaf(g[(k - 1) \div c + 1]), ((k - 1) % c) + 1>>
  BY <1>1, ValuesType
<1>5. z \in Seq(NodeByte) /\ Len(z) = m
      /\ \A k \in 1 .. m : z[k] = <<"cv", Leaf(h[(k - 1) \div c + 1]), ((k - 1) % c) + 1>>
  <2>1. n + p \in Nat
    OBVIOUS
  <2> QED BY <1>0, <2>1, ValuesType
<1>6. ASSUME NEW k \in 1 .. a PROVE x[k] = z[k]
  <2>1. (k - 1) \div c + 1 \in 1 .. n
    BY LeafOfByte
  <2>2. k \in 1 .. m
    <3> HIDE DEF a, b, m
    <3> QED BY <1>2
  <2> QED BY <1>0, <1>3, <1>5, <2>1, <2>2
<1>7. ASSUME NEW k \in a + 1 .. m PROVE y[k - a] = z[k]
  <2> DEFINE i == k - a - 1
             q == i \div c
  <2>1. k - a \in 1 .. b /\ k \in 1 .. m /\ i \in Nat /\ k - 1 = a + i
    <3> HIDE DEF a, b, m
    <3> QED BY <1>2, <1>7
  <2>2. q + 1 \in 1 .. p
    BY <2>1, LeafOfByte
  <2>3. q \in Nat /\ i % c \in 0 .. c - 1 /\ i = q * c + (i % c)
    <3> HIDE DEF i
    <3> QED BY <2>1, Quotients
  <2>4. (k - 1) \div c = n + q /\ (k - 1) % c = i % c
    <3> HIDE DEF i, q
    <3>1. k - 1 = (n + q) * c + (i % c)
      <4>1. (n + q) * c = a + q * c
        BY <2>3
      <4> DEFINE e == q * c
                 d == (n + q) * c
      <4>2. d = a + e /\ i = e + (i % c) /\ e \in Nat
        BY <2>3, <4>1
      <4> HIDE DEF e, d, a
      <4> QED BY <1>2, <2>1, <2>3, <4>2 DEF d
    <3>2. n + q \in Int
      BY <2>3
    <3> QED BY <2>3, <3>1, <3>2, DivModUnique
  <2>5. y[k - a] = <<"cv", Leaf(g[q + 1]), (i % c) + 1>>
    BY <1>4, <2>1
  <2>6. z[k] = <<"cv", Leaf(h[n + (q + 1)]), (i % c) + 1>>
    <3> HIDE DEF i, q
    <3>1. (n + q) + 1 = n + (q + 1)
      BY <2>3
    <3> QED BY <1>5, <2>1, <2>4, <3>1
  <2> QED BY <1>0, <2>2, <2>5, <2>6
<1> HIDE DEF x, y, z, a, b, m
<1>8. x \o y \in Seq(NodeByte) /\ Len(x \o y) = a + b
      /\ \A k \in 1 .. a + b : (x \o y)[k] = IF k <= a THEN x[k] ELSE y[k - a]
  BY <1>3, <1>4, ConcatProperties, ZenonT(40)
<1>9. \A k \in 1 .. m : (x \o y)[k] = z[k]
  <2> TAKE k \in 1 .. m
  <2>1. CASE k <= a
    BY <1>2, <1>6, <1>8, <2>1
  <2>2. CASE ~(k <= a)
    BY <1>2, <1>7, <1>8, <2>2
  <2> QED BY <2>1, <2>2
<1>10. x \o y = z
  BY <1>2, <1>5, <1>8, <1>9, SeqEqual
<1> QED BY <1>10 DEF x, y, z


\* A leaf that ends gives the chaining value of what it has absorbed.
LEMMA ChainingValueIs ==
  ASSUME NEW c \in Nat \ {0}, c = capacityInBytes, NEW x, NEW f, f[1] = x
  PROVE  ChainingValue(Tree!Node(x, 0)) = Values(f, 1, c)
<1>1. ASSUME NEW k \in 1 .. c PROVE (k - 1) \div c = 0 /\ (k - 1) % c = k - 1
  <2> DEFINE i == k - 1
  <2>1. i \in 0 .. c - 1 /\ i = 0 * c + i
    OBVIOUS
  <2> HIDE DEF i
  <2>2. i \div c = 0 /\ i % c = i
    BY <2>1, DivModUnique
  <2> QED BY <2>2 DEF i
<1>2. End(Tree!Node(x, 0), Tree!SuffixLeaf) = Leaf(x)
  BY DEF End, Tree!Node, Tree!SuffixLeaf, Leaf
<1>3. ChainingValue(Tree!Node(x, 0)) = [k \in 1 .. c |-> <<"cv", Leaf(x), k>>]
  BY <1>2 DEF ChainingValue, Tree!Squeezed
<1>4. 1 * c = c
  OBVIOUS
<1>5. Values(f, 1, c) = [k \in 1 .. c |-> <<"cv", Leaf(f[(k - 1) \div c + 1]), ((k - 1) % c) + 1>>]
  BY <1>4 DEF Values
<1>6. ASSUME NEW k \in 1 .. c
      PROVE  <<"cv", Leaf(f[(k - 1) \div c + 1]), ((k - 1) % c) + 1>> = <<"cv", Leaf(x), k>>
  <2>1. 0 + 1 = 1 /\ k - 1 + 1 = k
    OBVIOUS
  <2> QED BY <1>1, <2>1
<1> DEFINE y(k) == <<"cv", Leaf(f[(k - 1) \div c + 1]), ((k - 1) % c) + 1>>
           z(k) == <<"cv", Leaf(x), k>>
<1>7. \A k \in 1 .. c : y(k) = z(k)
  BY <1>6
<1> HIDE DEF y, z
<1>8. [k \in 1 .. c |-> y(k)] = [k \in 1 .. c |-> z(k)]
  BY <1>7
<1> QED BY <1>3, <1>5, <1>8 DEF y, z

-----------------------------------------------------------------------------
(* The first chunk, and the encoding of a length.                          *)

LEMMA NodesAre ==
  /\ NewNode = Tree!Node(<<>>, 0)
  /\ \A b, s, x : Absorb(Tree!Node(b, s), x) = Tree!Node(b \o x, s)
  /\ \A b, s, e : End(Tree!Node(b, s), e) = Tree!Node(b, e)
  /\ \A b : CanAbsorb(Tree!Node(b, 0))
  /\ \A b, s : Tree!Node(b, s).bytes = b /\ Tree!Node(b, s).suffix = s
<1>1. \A b, s, x : Absorb(Tree!Node(b, s), x) = Tree!Node(b \o x, s)
  <2> TAKE b, s, x
  <2> DEFINE y == b \o x
  <2>1. Absorb(Tree!Node(b, s), x) = [[bytes |-> b, suffix |-> s] EXCEPT !.bytes = y]
    BY DEF Absorb, Tree!Node
  <2> HIDE DEF y
  <2>2. [[bytes |-> b, suffix |-> s] EXCEPT !.bytes = y] = [bytes |-> y, suffix |-> s]
    OBVIOUS
  <2> QED BY <2>1, <2>2 DEF y, Tree!Node
<1>2. \A b, s, e : End(Tree!Node(b, s), e) = Tree!Node(b, e)
  BY DEF End, Tree!Node
<1>3. /\ \A b : CanAbsorb(Tree!Node(b, 0))
      /\ \A b, s : Tree!Node(b, s).bytes = b /\ Tree!Node(b, s).suffix = s
  BY DEF CanAbsorb, Tree!Node
<1>4. NewNode = Tree!Node(<<>>, 0)
  BY DEF NewNode, Tree!Node
<1> QED BY ONLY <1>1, <1>2, <1>3, <1>4

\* Padding to a lane after the byte that follows a chunk.
LEMMA PaddingOfChunk ==
  ASSUME NEW r \in Nat \ {0}, NEW l \in Nat \ {0}, NEW n \in Nat, r % l = 0, n % l = 0,
         (n % r) + l < r
  PROVE  (0 - ((n + 1) % r)) % l = l - 1
<1> DEFINE p == n % r
           a == n \div r
<1>1. a \in Nat /\ p \in 0 .. r - 1 /\ n = a * r + p
  BY Quotients
<1>2. (n + 1) % r = p + 1
  <2>0. p + l < r /\ p + 1 \in 0 .. r - 1
    <3>1. p + l < r
      OBVIOUS
    <3> HIDE DEF p, a
    <3> QED BY <1>1, <3>1
  <2> HIDE DEF p, a
  <2> DEFINE e == a * r
  <2>1. e \in Nat /\ n = e + p
    BY <1>1
  <2> HIDE DEF e
  <2>2. p + 1 \in 0 .. r - 1 /\ n + 1 = e + (p + 1)
    BY <1>1, <2>0, <2>1
  <2>3. (e + (p + 1)) % r = p + 1
    <3>1. a \in Int
      BY <1>1
    <3> DEFINE b == p + 1
    <3>2. b \in 0 .. r - 1
      BY <2>2
    <3> HIDE DEF b
    <3>3. (a * r + b) % r = b
      BY <3>1, <3>2, DivModUnique
    <3> QED BY <3>3 DEF b, e
  <2> QED BY <2>2, <2>3
<1>3. r \div l \in Nat /\ n \div l \in Nat /\ r = (r \div l) * l /\ n = (n \div l) * l
  <2>1. r = (r \div l) * l + (r % l) /\ n = (n \div l) * l + (n % l)
        /\ r \div l \in Nat /\ n \div l \in Nat
    BY Quotients
  <2> DEFINE u == (r \div l) * l
             v == (n \div l) * l
  <2>2. u \in Nat /\ v \in Nat
    BY <2>1
  <2>3. r = u + (r % l) /\ n = v + (n % l)
    BY <2>1
  <2> HIDE DEF u, v
  <2>4. r = u /\ n = v
    BY <2>2, <2>3
  <2> QED BY <2>1, <2>4 DEF u, v
<1> DEFINE u == r \div l
           v == n \div l
           w == v - a * u
<1>4. w \in Int /\ p = w * l
  <2> HIDE DEF u, v, a, p
  <2>1. a * u \in Nat /\ u \in Nat /\ v \in Nat /\ r = u * l /\ n = v * l
    BY <1>1, <1>3 DEF u, v
  <2>2. a * r = (a * u) * l
    BY <1>1, <2>1
  <2>3. (v - a * u) * l = v * l - (a * u) * l
    <3> DEFINE x == a * u
    <3> HIDE DEF x
    <3>1. x \in Nat
      BY <2>1 DEF x
    <3>2. (v - x) * l = v * l - x * l
      BY <2>1, <3>1
    <3> QED BY <3>2 DEF x
  <2> DEFINE e == a * r
  <2>4. n - e = w * l /\ e \in Nat
    BY <1>1, <2>1, <2>2, <2>3
  <2> HIDE DEF e, w
  <2>5. n = e + p
    BY <1>1 DEF e
  <2>6. p = n - e
    BY <1>1, <2>4, <2>5
  <2> QED BY <2>1, <2>4, <2>6 DEF w
<1> HIDE DEF w, p
<1>5. 0 - (p + 1) = (0 - w - 1) * l + (l - 1) /\ l - 1 \in 0 .. l - 1 /\ 0 - w - 1 \in Int
  <2>1. (0 - w - 1) * l = 0 - w * l - l
    BY <1>4
  <2> DEFINE e == w * l
             g == (0 - w - 1) * l
  <2>2. g = 0 - e - l /\ p = e /\ e \in Int
    BY <1>4, <2>1
  <2> HIDE DEF e, g
  <2>3. 0 - (p + 1) = g + (l - 1) /\ l - 1 \in 0 .. l - 1
    BY <2>2
  <2> QED BY <1>4, <2>3 DEF g
<1>6. (0 - (p + 1)) % l = l - 1
  BY <1>5, DivModUnique
<1> QED BY <1>2, <1>6

LEMMA FixedType ==
  /\ \A v \in Nat : Tree!Fixed(v) \in InputByte /\ <<Tree!Fixed(v)>> \in Seq(InputByte)
  /\ InputByte \subseteq NodeByte /\ \A s \in Seq(InputByte) : s \in Seq(NodeByte)
<1>1. \A v \in Nat : Tree!Fixed(v) \in InputByte
  BY DEF Tree!Fixed, InputByte
<1> DEFINE I == InputByte
<1>2. \A v \in I : <<v>> \in Seq(I)
  OBVIOUS
<1>3. I \subseteq NodeByte
  BY DEF NodeByte
<1>4. \A s \in Seq(I) : s \in Seq(NodeByte)
  BY <1>3, SeqMonotonic
<1> QED BY <1>1, <1>2, <1>3, <1>4

LEMMA OpeningType ==
  ASSUME NEW x \in Seq(InputByte)
  PROVE  /\ Opening(x) \in Seq(NodeByte)
         /\ [i \in 1 .. LaneSize - 1 |-> Tree!Fixed(0)] \in Seq(InputByte)
         /\ x \o <<Tree!Fixed(3)>> \in Seq(InputByte) /\ Len(x \o <<Tree!Fixed(3)>>) = Len(x) + 1
<1> DEFINE I == InputByte
           z == Tree!Fixed(0)
           n == LaneSize - 1
           y == <<Tree!Fixed(3)>>
<1>1. z \in I /\ y \in Seq(I) /\ Len(y) = 1 /\ n \in Nat
  BY FixedType, ChunkType
<1>2. [i \in 1 .. n |-> z] \in Seq(I)
  <2> HIDE DEF z, n, I
  <2>1. [i \in 1 .. n |-> z] \in [1 .. n -> I]
    BY <1>1
  <2> QED BY <1>1, <2>1
<1> HIDE DEF y, z, n, I
<1>3. x \in Seq(I)
  BY DEF I
<1>4. x \o y \in Seq(I) /\ Len(x \o y) = Len(x) + 1
  BY <1>1, <1>3, ConcatProperties
<1>5. (x \o y) \o [i \in 1 .. n |-> z] \in Seq(I)
  BY <1>2, <1>4, ConcatProperties
<1> QED BY <1>2, <1>4, <1>5, FixedType DEF Opening, I, y, z, n

\* The zero padding ends the lane of the byte after the first chunk.
LEMMA OpeningPadded ==
  ASSUME securityLevel \in Levels, NEW x \in Seq(InputByte), Len(x) = ChunkSize,
         NEW node, node = Tree!Node(x \o <<Tree!Fixed(3)>>, 0)
  PROVE  Absorb(node, ZeroPadding(node)) = Tree!Node(Opening(x), 0)
<1>1. /\ rateInBytes \in Nat \ {0} /\ rateInBytes % LaneSize = 0 /\ ChunkSize % LaneSize = 0
      /\ (ChunkSize % rateInBytes) + LaneSize < rateInBytes
  BY KangarooTwelveAssumption DEF rateInBytes, capacityInBytes
<1>2. Len(node.bytes) = ChunkSize + 1
  BY NodesAre, OpeningType
<1>3. (0 - ((ChunkSize + 1) % rateInBytes)) % LaneSize = LaneSize - 1
  <2> DEFINE r == rateInBytes
  <2>1. r \in Nat \ {0} /\ r % LaneSize = 0 /\ ChunkSize % LaneSize = 0 /\ (ChunkSize % r) + LaneSize < r
    BY <1>1
  <2> HIDE DEF r
  <2>2. (0 - ((ChunkSize + 1) % r)) % LaneSize = LaneSize - 1
    BY <2>1, ChunkType, PaddingOfChunk
  <2> QED BY <2>2 DEF r
<1>4. ZeroPadding(node) = [i \in 1 .. LaneSize - 1 |-> Tree!Fixed(0)]
  BY <1>2, <1>3 DEF ZeroPadding
<1>5. Absorb(node, ZeroPadding(node)) = Tree!Node((x \o <<Tree!Fixed(3)>>) \o ZeroPadding(node), 0)
  BY NodesAre
<1> QED BY <1>4, <1>5 DEF Opening

LEMMA RightEncodeType ==
  ASSUME NEW v \in Nat
  PROVE  Tree!RightEncode(v) \in Seq(InputByte) /\ Len(Tree!RightEncode(v)) \in Nat \ {0}
<1> DEFINE n == Tree!Digits(v)
           e(i) == Tree!Fixed((v \div Radix ^ (n - i)) % Radix)
           g == [i \in 1 .. n |-> e(i)]
           I == InputByte
<1>1. n \in Nat
  <2> DEFINE M == {m \in 0 .. v : Radix ^ m <= v}
  <2>1. IsFiniteSet(0 .. v)
    BY FS_Interval
  <2>2. IsFiniteSet(M)
    BY <2>1, FS_Subset
  <2>3. Cardinality(M) \in Nat
    BY <2>2, FS_CardinalityType
  <2>4. Tree!Cardinality(M) = Cardinality(M)
    BY DEF Tree!Cardinality, Cardinality
  <2> QED BY <2>3, <2>4 DEF Tree!Digits
<1>2. ASSUME NEW i \in 1 .. n PROVE e(i) \in I
  <2>1. n - i \in Nat
    BY <1>1
  <2> QED BY <2>1 DEF InputByte, Tree!Fixed
<1>3. Tree!RightEncode(v) = g \o <<Tree!Fixed(n)>>
  BY DEF Tree!RightEncode
<1>4. <<Tree!Fixed(n)>> \in Seq(I)
  BY <1>1, FixedType
<1> DEFINE y == <<Tree!Fixed(n)>>
<1>5. Len(y) = 1
  OBVIOUS
<1> HIDE DEF e, n, I
<1>6. g \in [1 .. n -> I]
  BY <1>2
<1> HIDE DEF g, y
<1>7. g \in Seq(I)
  BY <1>1, <1>6
<1>8. g \o y \in Seq(I) /\ Len(g \o y) = Len(g) + 1
  BY <1>4, <1>5, <1>7, ConcatProperties DEF y
<1> QED BY <1>3, <1>7, <1>8 DEF I, y


-----------------------------------------------------------------------------
(* What the nodes have after some more bytes.                              *)

\* The first chunk grows.
LEMMA FirstGrows ==
  ASSUME NEW s \in Seq(InputByte), NEW t \in Nat, NEW n \in Nat, t + n <= Len(s)
  PROVE  SubSeq(s, 1, t) \o SubSeq(s, t + 1, t + n) = SubSeq(s, 1, t + n)
<1>1. Len(s) \in Nat
  OBVIOUS
<1>2. 0 + 1 = 1 /\ t \in 0 .. Len(s) /\ t + n \in t .. Len(s) /\ 0 \in Nat
  BY <1>1
<1>3. SubSeq(s, 0 + 1, t) \o SubSeq(s, t + 1, t + n) = SubSeq(s, 0 + 1, t + n)
  BY <1>2, PartsJoin
<1> QED BY <1>2, <1>3

LEMMA LeafType ==
  ASSUME NEW s \in Seq(InputByte), NEW n \in Nat, (n + 1) * ChunkSize <= Len(s)
  PROVE  \A i \in 0 .. n : Piece(s, i) \in Seq(InputByte) /\ Len(Piece(s, i)) = ChunkSize
<1> TAKE i \in 0 .. n
<1>1. (i + 1) * ChunkSize <= (n + 1) * ChunkSize /\ i \in Nat
  <2>1. n + 1 \in Nat /\ i \in Nat /\ i < n + 1
    OBVIOUS
  <2> QED BY <2>1, ChunkBounds
<1>2. (i + 1) * ChunkSize <= Len(s)
  <2> DEFINE a == (i + 1) * ChunkSize
             b == (n + 1) * ChunkSize
  <2>1. a <= b /\ b <= Len(s) /\ a \in Nat /\ b \in Nat /\ Len(s) \in Nat
    BY <1>1, ChunkType
  <2> HIDE DEF a, b
  <2>2. a <= Len(s)
    BY <2>1
  <2> QED BY <2>2 DEF a
<1> QED BY <1>1, <1>2, PieceType

\* p leaves more are complete.
LEMMA LeavesPlaced ==
  ASSUME NEW s \in Seq(InputByte), NEW c \in Nat \ {0}, NEW b \in Nat \ {0}, NEW p \in Nat,
         (b + p) * ChunkSize <= Len(s), NEW g, \A i \in 1 .. p : g[i] = Piece(s, b - 1 + i),
         NEW que, NEW fin,
         fin = Tree!Node(Opening(Piece(s, 0)) \o Values(Leaves(s, b - 1), b - 1, c), 0)
  PROVE  Placed(Absorb(fin, Values(g, p, c)), que, b + p, 0, s, c, (b + p) * ChunkSize)
<1> DEFINE n == b - 1
           x == Opening(Piece(s, 0))
           y == Values(Leaves(s, n), n, c)
           z == Values(g, p, c)
           w == Values(Leaves(s, n + p), n + p, c)
<1>1. n \in Nat /\ n + p \in Nat /\ n + p + 1 = b + p /\ b + p # 0
  OBVIOUS
<1>2. \A i \in 0 .. n + p : Piece(s, i) \in Seq(InputByte) /\ Len(Piece(s, i)) = ChunkSize
  <2> DEFINE m == n + p
  <2>1. m \in Nat /\ (m + 1) * ChunkSize <= Len(s)
    BY <1>1
  <2> HIDE DEF m
  <2>2. \A i \in 0 .. m : Piece(s, i) \in Seq(InputByte) /\ Len(Piece(s, i)) = ChunkSize
    BY <2>1, LeafType
  <2> QED BY <2>2 DEF m
<1>3. x \in Seq(NodeByte)
  <2>1. 0 \in 0 .. n + p
    BY <1>1
  <2> QED BY <1>2, <2>1, OpeningType
<1> HIDE DEF n
<1>4. /\ \A i \in 1 .. n + p : Leaves(s, n + p)[i] = Piece(s, i) /\ Piece(s, i) \in Seq(InputByte)
      /\ \A i \in 1 .. n : Leaves(s, n)[i] = Piece(s, i) /\ i \in 1 .. n + p
      /\ \A i \in 1 .. p : g[i] = Piece(s, n + i) /\ n + i \in 1 .. n + p
  BY <1>1, <1>2 DEF Leaves, n
<1>5. y \in Seq(NodeByte) /\ z \in Seq(NodeByte)
  <2>1. \A i \in 1 .. n : Leaves(s, n)[i] \in Seq(InputByte)
    BY <1>4
  <2>2. \A i \in 1 .. p : g[i] \in Seq(InputByte)
    BY <1>4
  <2> QED BY <1>1, <2>1, <2>2, ValuesType
<1>6. y \o z = w
  <2> DEFINE f == Leaves(s, n)
             h == Leaves(s, n + p)
  <2>1. Together(f, n, g, p, h)
    BY <1>4 DEF Together
  <2> HIDE DEF f, h
  <2>2. Values(f, n, c) \o Values(g, p, c) = Values(h, n + p, c)
    BY ONLY <1>1, <2>1, c \in Nat \ {0}, p \in Nat, ValuesJoin
  <2> QED BY <2>2 DEF f, h
<1> HIDE DEF x, y, z, w
<1>7. (x \o y) \o z = x \o (y \o z)
  <2>1. Associate(x, y, z)
    BY ONLY <1>3, <1>5, NodeBytesAssociate
  <2> QED BY ONLY <2>1 DEF Associate
<1>8. Absorb(fin, z) = Tree!Node(x \o w, 0)
  <2>1. fin = Tree!Node(x \o y, 0)
    BY DEF x, y, n
  <2>2. Absorb(Tree!Node(x \o y, 0), z) = Tree!Node((x \o y) \o z, 0)
    BY NodesAre
  <2> QED BY ONLY <1>6, <1>7, <2>1, <2>2
<1>9. b + p - 1 = n + p
  BY <1>1
<1>10. Absorb(fin, z) = Tree!Node(x \o Values(Leaves(s, b + p - 1), b + p - 1, c), 0)
  BY <1>8, <1>9 DEF w
<1>11. (b + p) * ChunkSize = (b + p) * ChunkSize + 0
  BY ChunkType
<1> QED BY <1>1, <1>10, <1>11 DEF Placed, x, z

\* The first chunk is closed.
LEMMA FirstPlaced ==
  ASSUME securityLevel \in Levels, NEW s \in Seq(InputByte), ChunkSize <= Len(s), NEW c \in Nat \ {0},
         NEW que, NEW node, node = Tree!Node(SubSeq(s, 1, ChunkSize) \o <<Tree!Fixed(3)>>, 0)
  PROVE  Placed(Absorb(node, ZeroPadding(node)), que, 1, 0, s, c, ChunkSize)
<1> DEFINE x == SubSeq(s, 1, ChunkSize)
<1>1. Piece(s, 0) = x
  <2>1. 0 * ChunkSize + 1 = 1 /\ (0 + 1) * ChunkSize = ChunkSize
    BY ChunkType
  <2> QED BY <2>1 DEF Piece
<1>2. x \in Seq(InputByte) /\ Len(x) = ChunkSize
  <2>1. (0 + 1) * ChunkSize <= Len(s) /\ 0 \in Nat
    BY ChunkType
  <2> QED BY <1>1, <2>1, PieceType
<1>3. Absorb(node, ZeroPadding(node)) = Tree!Node(Opening(x), 0)
  <2> HIDE DEF x
  <2>1. node = Tree!Node(x \o <<Tree!Fixed(3)>>, 0)
    BY DEF x
  <2> QED BY <1>2, <2>1, OpeningPadded
<1>4. Opening(x) \o Values(Leaves(s, 0), 0, c) = Opening(x)
  <2>1. Values(Leaves(s, 0), 0, c) = <<>>
    <3>1. 0 * c = 0
      OBVIOUS
    <3> QED BY <3>1 DEF Values
  <2>2. Opening(x) \in Seq(NodeByte)
    BY <1>2, OpeningType
  <2> QED BY <2>1, <2>2, ConcatEmptySeq
<1>5. 1 - 1 = 0 /\ ChunkSize = 1 * ChunkSize + 0
  BY ChunkType
<1> HIDE DEF x
<1>6. Absorb(node, ZeroPadding(node)) =
        Tree!Node(Opening(Piece(s, 0)) \o Values(Leaves(s, 1 - 1), 1 - 1, c), 0)
  BY <1>1, <1>3, <1>4, <1>5
<1> QED BY <1>5, <1>6 DEF Placed


-----------------------------------------------------------------------------
(* The loops of Update.                                                    *)

LEMMA CapacityType ==
  ASSUME securityLevel \in Levels
  PROVE  capacityInBytes \in Nat \ {0}
<1>1. securityLevel \in Nat \ {0}
  BY KangarooTwelveAssumption
<1> QED BY <1>1 DEF capacityInBytes

\* What each step of a call begins with.
LEMMA Running ==
  ASSUME IInv, call # Idle
  PROVE  /\ call = [in |-> call.in, at |-> call.at, left |-> call.left, atOnce |-> call.atOnce]
         /\ call.in \in {"update", "custom", "encoding"} /\ phase = "ABSORBING"
         /\ securityLevel \in Levels /\ capacityInBytes \in Nat \ {0}
         /\ input \in Seq(InputByte) /\ Len(input) \in Nat /\ call.left \in Seq(InputByte)
         /\ AlreadyTaken \in Nat /\ Len(call.left) \in Nat
         /\ AlreadyTaken + Len(call.left) = Len(input)
         /\ call.left = SubSeq(input, AlreadyTaken + 1, Len(input))
         /\ blockNumber \in Nat /\ queueAbsorbedLen \in 0 .. ChunkSize
         /\ blockNumber # 0 => queueAbsorbedLen # ChunkSize
         /\ InputIs /\ InNodes(AlreadyTaken)
<1> DEFINE t == AlreadyTaken
<1>1. /\ call = [in |-> call.in, at |-> call.at, left |-> call.left, atOnce |-> call.atOnce]
      /\ call.in \in {"update", "custom", "encoding"} /\ phase = "ABSORBING"
      /\ t \in 0 .. Len(input)
      /\ call.left = SubSeq(input, t + 1, Len(input))
  BY DEF IInv, CallInv
<1>2. /\ securityLevel \in Levels /\ input \in Seq(InputByte)
      /\ InputIs /\ InNodes(t)
      /\ blockNumber \in Nat /\ queueAbsorbedLen \in 0 .. ChunkSize
      /\ blockNumber # 0 => queueAbsorbedLen # ChunkSize
  BY <1>1 DEF IInv
<1>3. Len(input) \in Nat /\ input \in Seq(InputByte) /\ securityLevel \in Levels
  BY <1>2
<1>4. t \in Nat /\ Len(input) \in t .. Len(input)
  <2> HIDE DEF t
  <2> QED BY <1>1, <1>3
<1>5. call.left \in Seq(InputByte) /\ Len(call.left) = Len(input) - t
  <2> HIDE DEF t
  <2> DEFINE e == Len(input)
  <2>1. e \in t .. Len(input)
    BY <1>4
  <2> HIDE DEF e
  <2>2. SubSeq(input, t + 1, e) \in Seq(InputByte) /\ Len(SubSeq(input, t + 1, e)) = e - t
    BY ONLY <1>3, <1>4, <2>1, PartType
  <2> QED BY ONLY <1>1, <2>2 DEF e
<1>6. Len(call.left) \in Nat /\ t + Len(call.left) = Len(input)
  <2> HIDE DEF t
  <2> QED BY ONLY <1>3, <1>4, <1>5
<1>7. capacityInBytes \in Nat \ {0}
  BY ONLY <1>3, CapacityType
<1> HIDE DEF t
<1> QED BY ONLY <1>1, <1>2, <1>3, <1>4, <1>5, <1>6, <1>7 DEF t

\* The next n bytes, and those after them.
LEMMA NextBytes ==
  ASSUME IInv, call # Idle, NEW n \in 0 .. Len(call.left)
  PROVE  /\ Prefix(call.left, n) = SubSeq(input, AlreadyTaken + 1, AlreadyTaken + n)
         /\ Suffix(call.left, n) = SubSeq(input, AlreadyTaken + n + 1, Len(input))
         /\ Len(Suffix(call.left, n)) = Len(call.left) - n
         /\ AlreadyTaken + n \in 0 .. Len(input)
<1> DEFINE t == AlreadyTaken
           l == call.left
           e == Len(input)
<1>1. /\ input \in Seq(InputByte) /\ e \in Nat /\ t \in Nat /\ Len(l) \in Nat
      /\ t + Len(l) = e /\ l = SubSeq(input, t + 1, e) /\ l \in Seq(InputByte)
  BY Running
<1> HIDE DEF t, l, e
<1>2. n \in Nat /\ n \in 0 .. Len(l) /\ Len(l) \in n .. Len(l) /\ e \in t .. e /\ n \in 0 .. e - t
      /\ Len(l) \in n .. e - t
  BY <1>1 DEF l
<1>3. SubSeq(l, n + 1, Len(l)) = SubSeq(input, t + n + 1, t + Len(l))
  BY <1>1, <1>2, PartOfPart DEF e
<1>4. SubSeq(l, 0 + 1, n) = SubSeq(input, t + 0 + 1, t + n)
  BY <1>1, <1>2, PartOfPart DEF e
<1>5. Len(SubSeq(l, n + 1, Len(l))) = Len(l) - n
  BY <1>1, <1>2, PartType
<1>6. 0 + 1 = 1 /\ t + 0 + 1 = t + 1 /\ t + n \in 0 .. e
  BY <1>1, <1>2
<1> QED BY <1>1, <1>3, <1>4, <1>5, <1>6 DEF Prefix, Suffix, t, l, e

LEMMA TakeIInv ==
  ASSUME IInv, call # Idle, NEW n \in 0 .. Len(call.left), NEW fin, NEW que,
         NEW b \in Nat, NEW q \in 0 .. ChunkSize, b # 0 => q # ChunkSize,
         n # Len(call.left) => b # 0 /\ q = 0,
         Placed(fin, que, b, q, input, capacityInBytes, AlreadyTaken + n),
         finalNode' = fin, queueNode' = que, blockNumber' = b, queueAbsorbedLen' = q,
         Take(n, "leaves"),
         UNCHANGED <<fixedOutputLength, phase, securityLevel, error, history>>
  PROVE  IInv'
<1> DEFINE t == AlreadyTaken
           l == call.left
           m == Suffix(l, n)
<1>1. /\ call = [in |-> call.in, at |-> call.at, left |-> l, atOnce |-> call.atOnce]
      /\ call.in \in {"update", "custom", "encoding"} /\ phase = "ABSORBING"
      /\ input \in Seq(InputByte) /\ Len(input) \in Nat /\ t \in Nat /\ Len(l) \in Nat
      /\ t + Len(l) = Len(input) /\ InputIs
  BY Running
<1>2. m = SubSeq(input, t + n + 1, Len(input)) /\ Len(m) = Len(l) - n /\ t + n \in 0 .. Len(input)
  BY NextBytes
<1>3. call' = [in |-> call.in, at |-> "leaves", left |-> m, atOnce |-> call.atOnce]
  <2>1. call' = [[call EXCEPT !.left = m] EXCEPT !.at = "leaves"]
    BY <1>1 DEF Take
  <2> HIDE DEF m
  <2>2. [call EXCEPT !.left = m] =
          [in |-> call.in, at |-> call.at, left |-> m, atOnce |-> call.atOnce]
    BY <1>1
  <2>3. [[in |-> call.in, at |-> call.at, left |-> m, atOnce |-> call.atOnce] EXCEPT !.at = "leaves"]
          = [in |-> call.in, at |-> "leaves", left |-> m, atOnce |-> call.atOnce]
    OBVIOUS
  <2> QED BY ONLY <2>1, <2>2, <2>3
<1>4. /\ input' = input /\ message' = message /\ custom' = custom /\ given' = given
      /\ phase' = phase /\ securityLevel' = securityLevel /\ error' = error
      /\ fixedOutputLength' = fixedOutputLength
  BY DEF history
<1> HIDE DEF m
<1>5. call'.in = call.in /\ call'.at = "leaves" /\ call'.left = m
      /\ call' = [in |-> call'.in, at |-> call'.at, left |-> call'.left, atOnce |-> call'.atOnce]
  BY ONLY <1>3
<1>6. AlreadyTaken' = t + n
  <2>0. n \in Nat
    BY <1>1
  <2>1. AlreadyTaken' = Len(input) - Len(m)
    BY <1>4, <1>5 DEF AlreadyTaken
  <2> HIDE DEF t, l
  <2>2. Len(input) - Len(m) = t + n
    <3>1. t \in Nat /\ Len(l) \in Nat /\ t + Len(l) = Len(input)
      BY ONLY <1>1
    <3>2. Len(m) = Len(l) - n
      BY ONLY <1>2
    <3> QED BY ONLY <2>0, <3>1, <3>2
  <2> QED BY <2>1, <2>2
<1>7. CallInv'
  <2>1. m # <<>> => b # 0 /\ q = 0
    <3> SUFFICES ASSUME n = Len(l) PROVE m = <<>>
      OBVIOUS
    <3>1. t + n + 1 \in Int /\ Len(input) < t + n + 1 /\ Len(input) \in Int
      <4> HIDE DEF t, l
      <4> QED BY <1>1
    <3> QED BY <1>2, <3>1, SubSeqEmpty
  <2>2. /\ call'.in \in {"update", "custom", "encoding"} /\ call'.at \in {"queue", "leaves"}
        /\ phase' = "ABSORBING"
    BY <1>1, <1>4, <1>5
  <2>3. AlreadyTaken' \in 0 .. Len(input')
    BY <1>2, <1>4, <1>6
  <2>4. call'.left = SubSeq(input', AlreadyTaken' + 1, Len(input'))
    BY <1>2, <1>4, <1>5, <1>6
  <2>5. /\ call'.at = "queue" => blockNumber' = 0 \/ queueAbsorbedLen' # 0
        /\ call'.at = "leaves" /\ call'.left # <<>> => blockNumber' # 0 /\ queueAbsorbedLen' = 0
    BY <1>5, <2>1
  <2> QED BY ONLY <1>5, <2>2, <2>3, <2>4, <2>5 DEF CallInv
<1>8. InputIs'
  BY <1>1, <1>4, <1>5 DEF InputIs
<1>9. InNodes(AlreadyTaken)'
  <2>1. capacityInBytes' = capacityInBytes
    BY <1>4 DEF capacityInBytes
  <2>2. Placed(fin, que, b, q, input, capacityInBytes, t + n)
    OBVIOUS
  <2>3. Placed(finalNode', queueNode', blockNumber', queueAbsorbedLen', input', capacityInBytes',
               AlreadyTaken')
    BY ONLY <1>4, <1>6, <2>1, <2>2, finalNode' = fin, queueNode' = que, blockNumber' = b,
            queueAbsorbedLen' = q
  <2> QED BY <2>3 DEF InNodes
<1>10. /\ phase' \in {"NOT_INITIALIZED", "ABSORBING", "FINAL", "SQUEEZING"}
       /\ phase' # "NOT_INITIALIZED" => securityLevel' \in Levels
       /\ fixedOutputLength' \in Nat /\ (phase' = "SQUEEZING" => fixedOutputLength' = 0)
       /\ phase' \in {"FINAL", "SQUEEZING"} => finalNode'.suffix \in {6, 7}
       /\ blockNumber' \in Nat /\ queueAbsorbedLen' \in 0 .. ChunkSize
       /\ blockNumber' # 0 => queueAbsorbedLen' # ChunkSize
       /\ input' \in Seq(InputByte) /\ message' \in Nat /\ custom' \in 0 .. MaxCustom /\ given' \in Nat
       /\ ~error'
  BY <1>1, <1>4 DEF IInv
<1> QED BY ONLY <1>7, <1>8, <1>9, <1>10 DEF IInv


LEMMA FillFirstChunkIInv ==
  ASSUME IInv, FillFirstChunk
  PROVE  IInv'
<1> DEFINE t == AlreadyTaken
           q == queueAbsorbedLen
           l == Len(call.left)
           n == Smaller(l, ChunkSize - q)
           node == Absorb(finalNode, Prefix(call.left, n))
           padded == Absorb(node, <<Tree!Fixed(3)>>)
<1>1. call # Idle /\ blockNumber = 0
  BY DEF FillFirstChunk, Idle
<1>2. /\ securityLevel \in Levels /\ capacityInBytes \in Nat \ {0}
      /\ input \in Seq(InputByte) /\ Len(input) \in Nat /\ t \in Nat /\ l \in Nat
      /\ t + l = Len(input) /\ q \in 0 .. ChunkSize
  BY <1>1, Running
<1>3. finalNode = Tree!Node(SubSeq(input, 1, t), 0) /\ q = t
  BY <1>1, Running DEF InNodes, Placed
<1>4. n \in 0 .. l /\ q + n \in 0 .. ChunkSize /\ (n # l => q + n = ChunkSize)
  <2> HIDE DEF l, q
  <2> QED BY <1>2, ChunkType DEF Smaller
<1>5. Prefix(call.left, n) = SubSeq(input, t + 1, t + n) /\ t + n \in 0 .. Len(input)
  <2> HIDE DEF n
  <2> QED BY <1>1, <1>4, NextBytes
<1>6. node = Tree!Node(SubSeq(input, 1, t + n), 0)
  <2> HIDE DEF n, t
  <2>1. SubSeq(input, 1, t) \o SubSeq(input, t + 1, t + n) = SubSeq(input, 1, t + n)
    <3>1. n \in Nat /\ t + n <= Len(input)
      BY <1>2, <1>4, <1>5
    <3> QED BY <1>2, <3>1, FirstGrows
  <2>2. Absorb(Tree!Node(SubSeq(input, 1, t), 0), SubSeq(input, t + 1, t + n)) =
          Tree!Node(SubSeq(input, 1, t) \o SubSeq(input, t + 1, t + n), 0)
    BY NodesAre
  <2> QED BY ONLY <1>3, <1>5, <2>1, <2>2
<1>7. padded = Tree!Node(SubSeq(input, 1, t + n) \o <<Tree!Fixed(3)>>, 0)
  <2>1. Absorb(Tree!Node(SubSeq(input, 1, t + n), 0), <<Tree!Fixed(3)>>) =
          Tree!Node(SubSeq(input, 1, t + n) \o <<Tree!Fixed(3)>>, 0)
    BY NodesAre
  <2> HIDE DEF t, n, node
  <2> QED BY ONLY <1>6, <2>1
<1>8. CanAbsorb(finalNode)
  BY <1>3, NodesAre
<1>9. CASE FirstChunkCloses(n)
  <2>1. /\ queueAbsorbedLen' = 0 /\ blockNumber' = 1
        /\ finalNode' = Absorb(padded, ZeroPadding(padded))
        /\ Take(n, "leaves") /\ queueNode' = queueNode
        /\ UNCHANGED <<fixedOutputLength, phase, securityLevel, error, history>>
    BY <1>1, <1>8, <1>9 DEF FillFirstChunk
  <2> HIDE DEF padded, n, t
  <2>2. t + n = ChunkSize
    BY <1>3, <1>9 DEF FirstChunkCloses
  <2>3. ChunkSize <= Len(input)
    BY <1>2, <1>5, <2>2
  <2>4. padded = Tree!Node(SubSeq(input, 1, ChunkSize) \o <<Tree!Fixed(3)>>, 0)
    BY ONLY <1>7, <2>2
  <2>5. Placed(Absorb(padded, ZeroPadding(padded)), queueNode, 1, 0, input, capacityInBytes, ChunkSize)
    BY ONLY <1>2, <2>3, <2>4, FirstPlaced
  <2>6. Placed(Absorb(padded, ZeroPadding(padded)), queueNode, 1, 0, input, capacityInBytes, t + n)
    BY ONLY <2>2, <2>5
  <2>7. 1 \in Nat /\ 0 \in 0 .. ChunkSize /\ 0 # ChunkSize
    BY ChunkType
  <2> QED BY ONLY IInv, <1>1, <1>4, <2>1, <2>6, <2>7, TakeIInv DEF t
<1>10. CASE ~FirstChunkCloses(n)
  <2>1. /\ queueAbsorbedLen' = q + n /\ blockNumber' = blockNumber
        /\ finalNode' = node
        /\ Take(n, "leaves") /\ queueNode' = queueNode
        /\ UNCHANGED <<fixedOutputLength, phase, securityLevel, error, history>>
    BY <1>1, <1>8, <1>10 DEF FillFirstChunk
  <2>2. n = l
    <3> HIDE DEF n, l
    <3> QED BY <1>2, <1>4, <1>10 DEF FirstChunkCloses, l
  <2> HIDE DEF node, n, t
  <2>3. Placed(node, queueNode, 0, q + n, input, capacityInBytes, t + n)
    BY <1>3, <1>6 DEF Placed
  <2>4. blockNumber' = 0 /\ 0 \in Nat
    BY <1>1, <2>1
  <2> QED BY ONLY IInv, <1>1, <1>4, <2>1, <2>2, <2>3, <2>4, TakeIInv DEF t
<1> QED BY <1>9, <1>10

\* The queue node takes n bytes after the q it has, and its leaf may end.
LEMMA QueueIInv ==
  ASSUME IInv, call # Idle, blockNumber # 0, NEW n \in 0 .. Len(call.left),
         queueAbsorbedLen + n <= ChunkSize,
         n # Len(call.left) => queueAbsorbedLen + n = ChunkSize,
         NEW node,
         node = Tree!Node(SubSeq(input, blockNumber * ChunkSize + 1, AlreadyTaken), 0),
         Queue(node, Prefix(call.left, n), queueAbsorbedLen + n), Take(n, "leaves"),
         UNCHANGED <<fixedOutputLength, phase, securityLevel, error, history>>
  PROVE  IInv'
<1> DEFINE t == AlreadyTaken
           q == queueAbsorbedLen
           b == blockNumber
           a == b * ChunkSize
           c == capacityInBytes
           fin == finalNode
           l == Len(call.left)
           s == input
           x == SubSeq(s, a + 1, t + n)
<1>1. /\ securityLevel \in Levels /\ c \in Nat \ {0}
      /\ s \in Seq(InputByte) /\ Len(s) \in Nat /\ t \in Nat /\ l \in Nat
      /\ t + l = Len(s) /\ q \in 0 .. ChunkSize /\ b \in Nat /\ q # ChunkSize
  BY Running
<1>2. /\ fin = Tree!Node(Opening(Piece(s, 0)) \o Values(Leaves(s, b - 1), b - 1, c), 0)
      /\ t = a + q
  BY Running DEF InNodes, Placed
<1>3. a \in Nat /\ (b + 1) * ChunkSize = a + ChunkSize
  BY <1>1, ChunkType
<1>4. Prefix(call.left, n) = SubSeq(s, t + 1, t + n) /\ t + n \in 0 .. Len(s)
  BY NextBytes
<1>5. Absorb(node, Prefix(call.left, n)) = Tree!Node(x, 0)
  <2> HIDE DEF a, t
  <2>1. t \in a .. Len(s) /\ t + n \in t .. Len(s)
    BY <1>1, <1>2, <1>3, <1>4
  <2>2. SubSeq(s, a + 1, t) \o SubSeq(s, t + 1, t + n) = SubSeq(s, a + 1, t + n)
    BY ONLY <1>1, <1>3, <2>1, PartsJoin
  <2>3. Absorb(Tree!Node(SubSeq(s, a + 1, t), 0), SubSeq(s, t + 1, t + n)) =
          Tree!Node(SubSeq(s, a + 1, t) \o SubSeq(s, t + 1, t + n), 0)
    BY NodesAre
  <2>4. node = Tree!Node(SubSeq(s, a + 1, t), 0)
    BY DEF a, t
  <2> QED BY ONLY <1>4, <2>2, <2>3, <2>4
<1>6. CASE q + n = ChunkSize
  <2> DEFINE g == <<x>>
  <2>1. /\ queueAbsorbedLen' = 0 /\ blockNumber' = b + 1
        /\ queueNode' = End(Absorb(node, Prefix(call.left, n)), Tree!SuffixLeaf)
        /\ finalNode' = Absorb(fin, ChainingValue(Absorb(node, Prefix(call.left, n))))
    BY <1>6 DEF Queue, LengthAfter
  <2>2. ChainingValue(Tree!Node(x, 0)) = Values(g, 1, c)
    <3> HIDE DEF c, x
    <3>1. g[1] = x
      OBVIOUS
    <3> QED BY <1>1, <3>1, ChainingValueIs DEF c
  <2>3. finalNode' = Absorb(fin, Values(g, 1, c))
    BY ONLY <1>5, <2>1, <2>2
  <2>4. t + n = a + ChunkSize /\ a + ChunkSize <= Len(s)
    <3> HIDE DEF a, t
    <3> QED BY <1>1, <1>2, <1>3, <1>4, <1>6, ChunkType
  <2>5. x = Piece(s, b)
    BY <1>3, <2>4 DEF Piece
  <2>6. \A i \in 1 .. 1 : g[i] = Piece(s, b - 1 + i)
    <3>1. b - 1 + 1 = b
      BY <1>1
    <3> HIDE DEF x
    <3> QED BY <2>5, <3>1
  <2>7. Placed(Absorb(fin, Values(g, 1, c)), queueNode', b + 1, 0, s, c, (b + 1) * ChunkSize)
    <3>1. (b + 1) * ChunkSize <= Len(s) /\ b \in Nat \ {0} /\ 1 \in Nat
      BY <1>1, <1>3, <2>4
    <3> HIDE DEF g, a, c, b
    <3> QED BY ONLY <1>1, <1>2, <2>6, <3>1, LeavesPlaced
  <2>8. Placed(Absorb(fin, Values(g, 1, c)), queueNode', b + 1, 0, s, c, t + n)
    BY ONLY <1>3, <2>4, <2>7
  <2>9. b + 1 \in Nat /\ 0 \in 0 .. ChunkSize /\ 0 # ChunkSize /\ b + 1 # 0
    BY <1>1, ChunkType
  <2> HIDE DEF g
  <2> QED BY ONLY IInv, call # Idle, n \in 0 .. Len(call.left), <2>1, <2>3, <2>8, <2>9,
                  Take(n, "leaves"),
                  UNCHANGED <<fixedOutputLength, phase, securityLevel, error, history>>, TakeIInv
<1>7. CASE q + n # ChunkSize
  <2>1. queueAbsorbedLen' = q + n /\ blockNumber' = b
        /\ queueNode' = Absorb(node, Prefix(call.left, n)) /\ finalNode' = fin
    BY <1>7 DEF Queue, LengthAfter
  <2>2. q + n \in 0 .. ChunkSize
    BY <1>1, ChunkType
  <2>3. Placed(fin, Tree!Node(x, 0), b, q + n, s, c, t + n)
    <3>1. t + n = a + (q + n)
      <4> HIDE DEF a, t
      <4> QED BY <1>1, <1>2, <1>3
    <3> QED BY <1>2, <3>1 DEF Placed
  <2>4. queueNode' = Tree!Node(x, 0)
    BY ONLY <1>5, <2>1
  <2> HIDE DEF x
  <2> QED BY ONLY IInv, call # Idle, blockNumber # 0, n \in 0 .. Len(call.left), <1>1, <1>7, <2>1,
                  <2>2, <2>3, <2>4, n # Len(call.left) => queueAbsorbedLen + n = ChunkSize,
                  Take(n, "leaves"),
                  UNCHANGED <<fixedOutputLength, phase, securityLevel, error, history>>, TakeIInv
<1> QED BY <1>6, <1>7

LEMMA SmallerOf ==
  ASSUME NEW l \in Nat, NEW m \in Nat
  PROVE  Smaller(l, m) \in 0 .. l /\ Smaller(l, m) <= m /\ (Smaller(l, m) # l => Smaller(l, m) = m)
BY DEF Smaller

LEMMA FillQueueIInv ==
  ASSUME IInv, FillQueue
  PROVE  IInv'
<1> DEFINE q == queueAbsorbedLen
           l == Len(call.left)
           m == ChunkSize - q
           n == Smaller(l, m)
           node == Tree!Node(SubSeq(input, blockNumber * ChunkSize + 1, AlreadyTaken), 0)
<1>1. call # Idle /\ blockNumber # 0 /\ call.at = "queue"
  BY DEF FillQueue, Idle
<1>2. q # 0
  BY <1>1 DEF IInv, CallInv
<1>3. queueNode = node
      /\ finalNode = Tree!Node(Opening(Piece(input, 0))
            \o Values(Leaves(input, blockNumber - 1), blockNumber - 1, capacityInBytes), 0)
  BY <1>1, <1>2, Running DEF InNodes, Placed
<1>4. CanAbsorb(queueNode) /\ CanAbsorb(finalNode)
  BY ONLY <1>3, NodesAre
<1>5. l \in Nat /\ q \in 0 .. ChunkSize
  BY <1>1, Running
<1> HIDE DEF node
<1>6. /\ Queue(node, Prefix(call.left, n), q + n) /\ Take(n, "leaves")
      /\ UNCHANGED <<fixedOutputLength, phase, securityLevel, error, history>>
  BY <1>3, <1>4 DEF FillQueue
<1>7. n \in 0 .. l /\ q + n <= ChunkSize /\ (n # l => q + n = ChunkSize)
  <2> HIDE DEF l, q
  <2>1. m \in Nat /\ m = ChunkSize - q
    BY <1>5, ChunkType
  <2> HIDE DEF m
  <2>2. n \in 0 .. l /\ n <= m /\ (n # l => n = m)
    BY <1>5, <2>1, SmallerOf
  <2> HIDE DEF n
  <2> QED BY <1>5, <2>1, <2>2, ChunkType
<1> HIDE DEF n
<1> QED BY ONLY IInv, <1>1, <1>6, <1>7, QueueIInv DEF node, q, l

LEMMA HashLeafIInv ==
  ASSUME IInv, HashLeaf
  PROVE  IInv'
<1> DEFINE l == Len(call.left)
           n == Smaller(l, ChunkSize)
           t == AlreadyTaken
           node == Tree!Node(SubSeq(input, blockNumber * ChunkSize + 1, t), 0)
<1>1. call # Idle /\ call.at = "leaves" /\ call.left # <<>>
  BY DEF HashLeaf, Idle
<1>2. blockNumber # 0 /\ queueAbsorbedLen = 0
  BY <1>1 DEF IInv, CallInv
<1>3. /\ l \in Nat /\ t \in Nat /\ blockNumber \in Nat /\ InNodes(t)
  BY <1>1, Running
<1>4. /\ finalNode = Tree!Node(Opening(Piece(input, 0))
            \o Values(Leaves(input, blockNumber - 1), blockNumber - 1, capacityInBytes), 0)
      /\ t = blockNumber * ChunkSize
  <2>1. blockNumber * ChunkSize + 0 = blockNumber * ChunkSize
    BY <1>3, ChunkType
  <2> QED BY <1>2, <1>3, <2>1 DEF InNodes, Placed
<1>5. LeafStart = node
  <2> HIDE DEF t
  <2>1. t + 1 \in Int /\ t \in Int /\ t < t + 1
    BY <1>3
  <2>2. SubSeq(input, t + 1, t) = <<>>
    BY <2>1, SubSeqEmpty
  <2> QED BY <1>4, <2>2, NodesAre DEF LeafStart
<1>6. CanAbsorb(LeafStart) /\ CanAbsorb(finalNode)
  BY ONLY <1>4, <1>5, NodesAre
<1> HIDE DEF node
<1>7. n \in 0 .. l /\ n <= ChunkSize /\ (n # l => n = ChunkSize)
  BY <1>3, SmallerOf, ChunkType
<1>8. /\ Queue(node, Prefix(call.left, n), n) /\ Take(n, "leaves")
      /\ UNCHANGED <<fixedOutputLength, phase, securityLevel, error, history>>
  BY <1>5, <1>6 DEF HashLeaf
<1> HIDE DEF n
<1>9. queueAbsorbedLen + n = n
  BY <1>2, <1>3, <1>7
<1> QED BY ONLY IInv, <1>1, <1>2, <1>7, <1>8, <1>9, QueueIInv DEF node, t, l

LEMMA ChainingValueByte ==
  ASSUME NEW c \in Nat \ {0}, c = capacityInBytes, NEW x, NEW j \in 1 .. c
  PROVE  ChainingValue(Tree!Node(x, 0))[j] = <<"cv", Leaf(x), j>>
<1>1. End(Tree!Node(x, 0), Tree!SuffixLeaf) = Leaf(x)
  BY DEF End, Tree!Node, Tree!SuffixLeaf, Leaf
<1>2. ChainingValue(Tree!Node(x, 0)) = [k \in 1 .. c |-> <<"cv", Leaf(x), k>>]
  BY <1>1 DEF ChainingValue, Tree!Squeezed
<1> QED BY <1>2

\* The bytes after the first b chunks.
After(s, b) == SubSeq(s, b * ChunkSize + 1, Len(s))

\* A chunk of the bytes after the first b chunks is a chunk of the input.
LEMMA ChunkFrom ==
  ASSUME NEW s \in Seq(InputByte), NEW b \in Nat, NEW p \in Nat, NEW i \in Nat, i < p,
         (b + p) * ChunkSize <= Len(s)
  PROVE  Tree!Chunk(After(s, b), i) = Piece(s, b + i) /\ Piece(s, b + i) \in Seq(InputByte)
<1> DEFINE a == b * ChunkSize
           d == i * ChunkSize
           e == (i + 1) * ChunkSize
           f == p * ChunkSize
           z == (b + p) * ChunkSize
           n == Len(s)
           l == After(s, b)
<1>1. /\ a \in Nat /\ d \in Nat /\ e = d + ChunkSize /\ e <= f /\ f \in Nat /\ n \in Nat
      /\ z = a + f /\ z <= n
  <2>1. d \in Nat /\ e = d + ChunkSize /\ e <= f /\ f \in Nat
    BY ChunkBounds
  <2>2. a \in Nat /\ z = a + f /\ z <= n /\ n \in Nat
    BY ChunkType
  <2> QED BY <2>1, <2>2
<1>2. (b + i) * ChunkSize = a + d /\ (b + i + 1) * ChunkSize = a + e
  BY ChunkType
<1> HIDE DEF a, d, e, f, z, n, l
<1>3. n \in a .. n /\ d \in Nat /\ e \in d .. n - a
  BY <1>1, ChunkType
<1>4. SubSeq(SubSeq(s, a + 1, n), d + 1, e) = SubSeq(s, a + d + 1, a + e)
  <2>1. n \in a .. Len(s) /\ s \in Seq(InputByte) /\ a \in Nat
    BY <1>1, <1>3 DEF n
  <2> QED BY ONLY <1>3, <2>1, PartOfPart
<1>5. Len(SubSeq(s, a + 1, n)) = n - a
  BY <1>1, <1>3, PartType DEF n
<1>6. Tree!Smaller(e, Len(l)) = e
  <2>1. l = SubSeq(s, a + 1, n)
    BY DEF a, n, l, After
  <2>2. Len(l) = n - a
    BY ONLY <1>5, <2>1
  <2>3. e \in Int /\ n - a \in Int /\ e <= n - a
    BY ONLY <1>1, <1>3
  <2> QED BY ONLY <2>2, <2>3 DEF Tree!Smaller
<1>7. Tree!Chunk(l, i) = SubSeq(SubSeq(s, a + 1, n), d + 1, e)
  BY <1>6 DEF Tree!Chunk, After, a, d, e, n, l
<1>8. Tree!Chunk(l, i) = Piece(s, b + i)
  BY <1>2, <1>4, <1>7 DEF Piece
<1> USE DEF l
<1>9. b + i \in Nat /\ (b + i + 1) * ChunkSize <= Len(s)
  <2>1. a + e <= n
    BY <1>1, <1>3
  <2> QED BY <1>2, <2>1 DEF n
<1> QED BY <1>8, <1>9, PieceType

LEMMA HashLeavesIInv ==
  ASSUME IInv, NEW p \in Parallelism, HashLeaves(p)
  PROVE  IInv'
<1> DEFINE l == Len(call.left)
           t == AlreadyTaken
           b == blockNumber
           s == input
           c == capacityInBytes
           f == p * ChunkSize
           leaf(i) == Absorb(NewNode, Tree!Chunk(call.left, i))
           values == [k \in 1 .. p * c |->
                        ChainingValue(leaf((k - 1) \div c))[((k - 1) % c) + 1]]
           g == [i \in 1 .. p |-> Piece(s, b - 1 + i)]
<1>1. call # Idle /\ call.at = "leaves" /\ l >= f
  BY DEF HashLeaves, Idle, CanHash
<1>2. p \in Nat \ {0}
  BY KangarooTwelveAssumption
<1>3. /\ l \in Nat /\ t \in Nat /\ b \in Nat /\ InNodes(t) /\ c \in Nat \ {0}
      /\ s \in Seq(InputByte) /\ Len(s) \in Nat /\ t + l = Len(s)
      /\ call.left = SubSeq(s, t + 1, Len(s))
  BY <1>1, Running
<1>4. f \in Nat /\ f # 0
  <2> DEFINE d == (0 + 1) * ChunkSize
  <2>1. d <= f /\ d = ChunkSize /\ f \in Nat
    <3>1. 0 \in Nat /\ p \in Nat /\ 0 < p
      BY <1>2
    <3>2. d <= f
      BY ONLY <3>1, ChunkBounds
    <3> QED BY <1>2, <3>2, ChunkType
  <2> HIDE DEF f, d
  <2> QED BY <2>1, ChunkType
<1>5. call.left # <<>>
  <2> SUFFICES ASSUME call.left = <<>> PROVE FALSE
    OBVIOUS
  <2>1. l = 0
    BY Len(<<>>) = 0
  <2> HIDE DEF f, l
  <2> QED BY <1>1, <1>4, <2>1
<1>6. b # 0 /\ queueAbsorbedLen = 0
  BY <1>1, <1>5 DEF IInv, CallInv
<1>7. /\ finalNode = Tree!Node(Opening(Piece(s, 0)) \o Values(Leaves(s, b - 1), b - 1, c), 0)
      /\ t = b * ChunkSize
  <2>1. b * ChunkSize + 0 = b * ChunkSize
    BY <1>3, ChunkType
  <2> QED BY <1>3, <1>6, <2>1 DEF InNodes, Placed
<1>8. (b + p) * ChunkSize = t + f /\ t + f <= Len(s)
  <2>1. (b + p) * ChunkSize = b * ChunkSize + f
    BY <1>2, <1>3, ChunkType
  <2>2. (b + p) * ChunkSize = t + f
    BY ONLY <1>7, <2>1
  <2> HIDE DEF f, t, l
  <2> QED BY <1>1, <1>3, <1>4, <2>2
<1>9. values = Values(g, p, c)
  <2>1. ASSUME NEW k \in 1 .. p * c
        PROVE  ChainingValue(leaf((k - 1) \div c))[((k - 1) % c) + 1] =
                 <<"cv", Leaf(g[(k - 1) \div c + 1]), ((k - 1) % c) + 1>>
    <3> DEFINE i == (k - 1) \div c
               j == ((k - 1) % c) + 1
    <3>1. i + 1 \in 1 .. p /\ j \in 1 .. c
      BY <1>2, <1>3, LeafOfByte
    <3>2. i \in Int
      <4>1. k - 1 \in Nat
        <5>1. p * c \in Nat
          BY <1>2, <1>3
        <5> QED BY <5>1
      <4> DEFINE m == k - 1
      <4>2. m \in Nat
        BY <4>1
      <4> HIDE DEF m
      <4>3. m \div c \in Nat
        BY <1>3, <4>2, Quotients
      <4> QED BY <4>3 DEF m
    <3> HIDE DEF i, j
    <3>3. i \in Nat /\ i < p /\ b - 1 + (i + 1) = b + i
      BY <1>2, <1>3, <3>1, <3>2
    <3>4. Tree!Chunk(call.left, i) = Piece(s, b + i) /\ Piece(s, b + i) \in Seq(InputByte)
      <4>1. (b + p) * ChunkSize <= Len(s)
        BY ONLY <1>8
      <4>2. call.left = SubSeq(s, b * ChunkSize + 1, Len(s))
        BY ONLY <1>3, <1>7
      <4>3. s \in Seq(InputByte) /\ b \in Nat /\ p \in Nat /\ i \in Nat /\ i < p
        BY ONLY <1>2, <1>3, <3>3
      <4>4. call.left = After(s, b)
        BY ONLY <4>2 DEF After
      <4> HIDE DEF b, s
      <4>5. Tree!Chunk(After(s, b), i) = Piece(s, b + i) /\ Piece(s, b + i) \in Seq(InputByte)
        BY ONLY <4>1, <4>3, ChunkFrom
      <4> QED BY ONLY <4>4, <4>5
    <3>5. leaf(i) = Tree!Node(Piece(s, b + i), 0)
      <4>1. <<>> \o Piece(s, b + i) = Piece(s, b + i)
        BY <3>4, ConcatEmptySeq
      <4>2. Absorb(Tree!Node(<<>>, 0), Piece(s, b + i)) = Tree!Node(<<>> \o Piece(s, b + i), 0)
        BY NodesAre
      <4> QED BY ONLY <3>4, <4>1, <4>2, NodesAre
    <3>6. g[i + 1] = Piece(s, b + i)
      BY ONLY <3>1, <3>3
    <3>7. ChainingValue(Tree!Node(Piece(s, b + i), 0))[j] = <<"cv", Leaf(Piece(s, b + i)), j>>
      <4> HIDE DEF c
      <4> QED BY <1>3, <3>1, ChainingValueByte DEF c
    <3>8. ChainingValue(leaf(i))[j] = <<"cv", Leaf(g[i + 1]), j>>
      <4> HIDE DEF leaf, g
      <4> QED BY ONLY <3>5, <3>6, <3>7
    <3> QED BY <3>8 DEF i, j
  <2> DEFINE y(k) == ChainingValue(leaf((k - 1) \div c))[((k - 1) % c) + 1]
             z(k) == <<"cv", Leaf(g[(k - 1) \div c + 1]), ((k - 1) % c) + 1>>
             m == p * c
  <2>2. \A k \in 1 .. m : y(k) = z(k)
    BY <2>1
  <2>3. values = [k \in 1 .. m |-> y(k)] /\ Values(g, p, c) = [k \in 1 .. m |-> z(k)]
    BY DEF Values
  <2> HIDE DEF y, z, m, values
  <2>4. [k \in 1 .. m |-> y(k)] = [k \in 1 .. m |-> z(k)]
    BY <2>2
  <2> QED BY ONLY <2>3, <2>4
<1>10. \A i \in 1 .. p : g[i] = Piece(s, b - 1 + i)
  OBVIOUS
<1>11. CanAbsorb(finalNode)
  BY ONLY <1>7, NodesAre
<1>12. /\ finalNode' = Absorb(finalNode, values)
       /\ blockNumber' = b + p /\ Take(f, "leaves")
       /\ UNCHANGED <<queueNode, fixedOutputLength, queueAbsorbedLen, phase,
                      securityLevel, error, history>>
  BY <1>11 DEF HashLeaves, LeavesCounted
<1> HIDE DEF g, values
<1>13. Placed(Absorb(finalNode, Values(g, p, c)), queueNode, b + p, 0, s, c, (b + p) * ChunkSize)
  <2>1. b \in Nat \ {0} /\ p \in Nat /\ (b + p) * ChunkSize <= Len(s)
    BY <1>2, <1>3, <1>6, <1>8
  <2> HIDE DEF b, s, c
  <2> QED BY ONLY <1>3, <1>7, <1>10, <2>1, LeavesPlaced
<1>14. Placed(Absorb(finalNode, values), queueNode, b + p, 0, s, c, t + f)
  BY ONLY <1>8, <1>9, <1>13
<1>15. f \in 0 .. l /\ b + p \in Nat /\ b + p # 0 /\ 0 \in 0 .. ChunkSize /\ 0 # ChunkSize
  <2> HIDE DEF f, l
  <2> QED BY <1>1, <1>2, <1>3, <1>4, ChunkType
<1>16. queueNode' = queueNode /\ queueAbsorbedLen' = 0
       /\ UNCHANGED <<fixedOutputLength, phase, securityLevel, error, history>>
  BY <1>6, <1>12
<1> HIDE DEF f
<1> QED BY ONLY IInv, <1>1, <1>12, <1>14, <1>15, <1>16, TakeIInv DEF l, t

-----------------------------------------------------------------------------
(* More input.                                                             *)

\* A complete chunk stays as it is when the input grows.
LEMMA PieceStays ==
  ASSUME NEW s \in Seq(InputByte), NEW more \in Seq(InputByte), NEW i \in Nat,
         (i + 1) * ChunkSize <= Len(s)
  PROVE  Piece(s \o more, i) = Piece(s, i)
<1> DEFINE a == i * ChunkSize
           b == (i + 1) * ChunkSize
<1>1. a \in Nat /\ b = a + ChunkSize /\ b <= Len(s) /\ Len(s) \in Nat
  BY ChunkType
<1> HIDE DEF a, b
<1>2. a \in Nat /\ b \in a .. Len(s)
  BY <1>1, ChunkType
<1>3. SubSeq(s \o more, a + 1, b) = SubSeq(s, a + 1, b)
  BY <1>2, PartStays
<1> QED BY <1>3 DEF a, b, Piece

LEMMA PlacedStays ==
  ASSUME NEW s \in Seq(InputByte), NEW more \in Seq(InputByte), NEW c \in Nat \ {0},
         NEW b \in Nat, NEW q \in Nat, NEW t \in 0 .. Len(s), NEW fin, NEW que,
         Placed(fin, que, b, q, s, c, t)
  PROVE  Placed(fin, que, b, q, s \o more, c, t)
<1>1. CASE b = 0
  <2>1. 0 + 1 = 1 /\ 0 \in Nat /\ t \in 0 .. Len(s)
    OBVIOUS
  <2>2. SubSeq(s \o more, 0 + 1, t) = SubSeq(s, 0 + 1, t)
    BY <2>1, PartStays
  <2> QED BY <1>1, <2>1, <2>2 DEF Placed
<1>2. CASE b # 0
  <2> DEFINE n == b - 1
             a == b * ChunkSize
             f == Leaves(s, n)
             g == Leaves(s \o more, n)
  <2>1. /\ fin = Tree!Node(Opening(Piece(s, 0)) \o Values(f, n, c), 0)
        /\ t = a + q
        /\ q # 0 => que = Tree!Node(SubSeq(s, a + 1, t), 0)
    BY <1>2 DEF Placed
  <2>2. n \in Nat /\ n + 1 = b /\ a \in Nat /\ Len(s) \in Nat /\ t \in Nat /\ t <= Len(s)
    BY <1>2, ChunkType
  <2>3. a <= Len(s) /\ t \in a .. Len(s)
    <3> HIDE DEF a
    <3> QED BY <2>1, <2>2
  <2>4. ASSUME NEW i \in 0 .. n PROVE Piece(s \o more, i) = Piece(s, i)
    <3>1. i \in Nat /\ i < b /\ b \in Nat
      BY <2>2
    <3> DEFINE e == (i + 1) * ChunkSize
    <3>2. e <= a
      BY ONLY <3>1, ChunkBounds
    <3>3. e \in Nat
      BY <3>1, ChunkType
    <3> HIDE DEF a, e
    <3>4. e <= Len(s)
      BY ONLY <2>2, <2>3, <3>2, <3>3
    <3> QED BY <3>1, <3>4, PieceStays DEF e
  <2>5. \A i \in 1 .. n : f[i] = g[i]
    <3> TAKE i \in 1 .. n
    <3>1. i \in 0 .. n
      BY <2>2
    <3> QED BY <2>4, <3>1 DEF Leaves
  <2>6. Piece(s \o more, 0) = Piece(s, 0)
    <3>1. 0 \in 0 .. n
      BY <2>2
    <3> QED BY <2>4, <3>1
  <2> HIDE DEF f, g, n
  <2>7. Values(f, n, c) = Values(g, n, c)
    BY <2>2, <2>5, ValuesEqual
  <2>8. SubSeq(s \o more, a + 1, t) = SubSeq(s, a + 1, t)
    <3> HIDE DEF a
    <3> QED BY <2>2, <2>3, PartStays
  <2>9. fin = Tree!Node(Opening(Piece(s \o more, 0)) \o Values(g, n, c), 0)
    BY ONLY <2>1, <2>6, <2>7
  <2> QED BY <1>2, <2>1, <2>8, <2>9 DEF Placed, g, n
<1> QED BY <1>1, <1>2

\* Where the caller, or Final, gives Update more input.
LEMMA UpdateIInv ==
  ASSUME IInv, phase = "ABSORBING", call.left = <<>>, NEW more \in Seq(InputByte),
         NEW in \in {"update", "custom", "encoding"}, Update(in, more),
         input' = input \o more,
         message' \in Nat, custom' \in 0 .. MaxCustom, InputIs',
         UNCHANGED <<instance, error, given>>
  PROVE  IInv'
<1> DEFINE s == input
           t == Len(input)
           e == Len(input \o more)
<1>1. /\ s \in Seq(InputByte) /\ t \in Nat /\ AlreadyTaken = t /\ InNodes(t)
      /\ blockNumber \in Nat /\ queueAbsorbedLen \in 0 .. ChunkSize /\ queueAbsorbedLen \in Nat
      /\ capacityInBytes \in Nat \ {0} /\ securityLevel \in Levels
  <2>1. s \in Seq(InputByte) /\ securityLevel \in Levels /\ InNodes(AlreadyTaken)
        /\ blockNumber \in Nat /\ queueAbsorbedLen \in 0 .. ChunkSize
    BY DEF IInv
  <2>2. t \in Nat /\ t - 0 = t /\ Len(<<>>) = 0
    BY <2>1
  <2>3. AlreadyTaken = t
    BY <2>2 DEF AlreadyTaken
  <2>4. queueAbsorbedLen \in Nat
    BY <2>1, ChunkType
  <2>5. capacityInBytes \in Nat \ {0}
    BY <2>1, CapacityType
  <2>6. InNodes(t)
    BY ONLY <2>1, <2>3
  <2> QED BY ONLY <2>1, <2>2, <2>3, <2>4, <2>5, <2>6
<1>2. s \o more \in Seq(InputByte) /\ e = t + Len(more) /\ Len(more) \in Nat
  <2> DEFINE I == InputByte
  <2>1. s \in Seq(I) /\ more \in Seq(I)
    BY <1>1
  <2> HIDE DEF I, s
  <2>2. s \o more \in Seq(I) /\ Len(s \o more) = Len(s) + Len(more)
    BY <2>1, ConcatProperties
  <2> QED BY <2>1, <2>2 DEF I, s
<1>3. PICK atOnce \in SUBSET Parallelism :
        call' = [in |-> in, left |-> more, atOnce |-> atOnce,
                 at |-> IF blockNumber # 0 /\ queueAbsorbedLen = 0 THEN "leaves" ELSE "queue"]
  BY DEF Update
<1>4. /\ call'.in = in /\ call'.left = more
      /\ call'.at = IF blockNumber # 0 /\ queueAbsorbedLen = 0 THEN "leaves" ELSE "queue"
      /\ call' = [in |-> call'.in, at |-> call'.at, left |-> call'.left, atOnce |-> call'.atOnce]
  BY ONLY <1>3
<1>5. /\ phase' = phase /\ securityLevel' = securityLevel /\ blockNumber' = blockNumber
      /\ queueAbsorbedLen' = queueAbsorbedLen /\ finalNode' = finalNode /\ queueNode' = queueNode
      /\ fixedOutputLength' = fixedOutputLength /\ error' = error /\ given' = given
      /\ capacityInBytes' = capacityInBytes
  BY DEF instance, nodes, capacityInBytes
<1>6. AlreadyTaken' = t /\ t \in 0 .. Len(input')
  <2>1. AlreadyTaken' = e - Len(more) /\ Len(input') = e
    BY <1>4 DEF AlreadyTaken
  <2> HIDE DEF e, t
  <2> QED BY <1>1, <1>2, <2>1
<1>7. more = SubSeq(s \o more, t + 1, e)
  <2>1. s \in Seq(InputByte) /\ more \in Seq(InputByte)
    BY <1>1
  <2> HIDE DEF s
  <2>2. SubSeq(s \o more, Len(s) + 1, Len(s) + Len(more)) = more
    BY ONLY <2>1, SubSeqOfConcat2
  <2> QED BY <1>2, <2>2 DEF s
<1>8. CallInv'
  <2>1. /\ call'.in \in {"update", "custom", "encoding"} /\ call'.at \in {"queue", "leaves"}
        /\ phase' = "ABSORBING"
    BY <1>4, <1>5
  <2>2. call'.left = SubSeq(input', AlreadyTaken' + 1, Len(input'))
    BY <1>4, <1>6, <1>7
  <2>3. /\ call'.at = "queue" => blockNumber' = 0 \/ queueAbsorbedLen' # 0
        /\ call'.at = "leaves" /\ call'.left # <<>> => blockNumber' # 0 /\ queueAbsorbedLen' = 0
    BY ONLY <1>4, <1>5
  <2>4. AlreadyTaken' \in 0 .. Len(input')
    BY ONLY <1>6
  <2> QED BY ONLY <1>4, <2>1, <2>2, <2>3, <2>4 DEF CallInv
<1>9. InNodes(AlreadyTaken)'
  <2>1. t \in 0 .. Len(s)
    BY <1>1
  <2>2. Placed(finalNode, queueNode, blockNumber, queueAbsorbedLen, s, capacityInBytes, t)
    BY <1>1 DEF InNodes
  <2>3. Placed(finalNode, queueNode, blockNumber, queueAbsorbedLen, s \o more, capacityInBytes, t)
    BY ONLY <1>1, <2>1, <2>2, more \in Seq(InputByte), PlacedStays
  <2>4. Placed(finalNode', queueNode', blockNumber', queueAbsorbedLen', input', capacityInBytes',
               AlreadyTaken')
    BY ONLY <1>5, <1>6, <2>3, input' = input \o more
  <2> QED BY <2>4 DEF InNodes
<1>10. /\ phase' \in {"NOT_INITIALIZED", "ABSORBING", "FINAL", "SQUEEZING"}
       /\ phase' # "NOT_INITIALIZED" => securityLevel' \in Levels
       /\ fixedOutputLength' \in Nat /\ (phase' = "SQUEEZING" => fixedOutputLength' = 0)
       /\ phase' \in {"FINAL", "SQUEEZING"} => finalNode'.suffix \in {6, 7}
       /\ blockNumber' \in Nat /\ queueAbsorbedLen' \in 0 .. ChunkSize
       /\ blockNumber' # 0 => queueAbsorbedLen' # ChunkSize
       /\ input' \in Seq(InputByte) /\ message' \in Nat /\ custom' \in 0 .. MaxCustom /\ given' \in Nat
       /\ ~error'
  BY <1>1, <1>2, <1>5 DEF IInv
<1> QED BY ONLY <1>8, <1>9, <1>10, InputIs' DEF IInv

LEMMA MessageType ==
  ASSUME NEW n \in Nat
  PROVE  /\ Tree!Message(n) \in Seq(InputByte) /\ Len(Tree!Message(n)) = n
         /\ Tree!Custom(n) \in Seq(InputByte) /\ Len(Tree!Custom(n)) = n
<1>1. ASSUME NEW i \in 1 .. n
      PROVE  <<"message", i>> \in InputByte /\ <<"custom", i>> \in InputByte
  <2>1. i \in Nat
    OBVIOUS
  <2> QED BY <2>1 DEF InputByte
<1> DEFINE I == InputByte
           e(i) == <<"message", i>>
           f(i) == <<"custom", i>>
           g == [i \in 1 .. n |-> e(i)]
           h == [i \in 1 .. n |-> f(i)]
<1> HIDE DEF e, f, I
<1>2. g \in [1 .. n -> I] /\ h \in [1 .. n -> I]
  BY <1>1 DEF e, f, I
<1> HIDE DEF g, h
<1>3. g \in Seq(I) /\ Len(g) = n /\ h \in Seq(I) /\ Len(h) = n
  BY <1>2
<1> QED BY <1>3 DEF g, h, e, f, I, Tree!Message, Tree!Custom

\* The message goes on where it was.
LEMMA MessageGrows ==
  ASSUME NEW m \in Nat, NEW n \in Nat
  PROVE  /\ Tree!Message(m) \o Suffix(Tree!Message(m + n), m) = Tree!Message(m + n)
         /\ Suffix(Tree!Message(m + n), m) \in Seq(InputByte)
<1> DEFINE s == Tree!Message(m + n)
<1>1. s \in Seq(InputByte) /\ Len(s) = m + n
  <2>1. m + n \in Nat
    OBVIOUS
  <2> QED BY <2>1, MessageType
<1>2. Tree!Message(m) = SubSeq(s, 1, m)
  <2> DEFINE u == Tree!Message(m)
             v == SubSeq(s, 1, m)
             N == InputByte
  <2>1. u \in Seq(N) /\ Len(u) = m
    BY MessageType
  <2>2. 0 + 1 = 1 /\ 0 \in Nat /\ m \in 0 .. Len(s) /\ m - 0 = m
    BY <1>1
  <2>3. v \in Seq(N) /\ Len(v) = m
    <3> HIDE DEF s
    <3> QED BY <1>1, <2>2, PartType
  <2>4. \A i \in 1 .. m : u[i] = v[i]
    <3> TAKE i \in 1 .. m
    <3>1. i \in 1 .. m + n
      OBVIOUS
    <3>2. u[i] = <<"message", i>>
      BY DEF Tree!Message
    <3>3. s[i] = <<"message", i>>
      BY <3>1 DEF Tree!Message
    <3> HIDE DEF s
    <3>4. v[i] = s[i]
      BY <1>1, <2>2
    <3> QED BY <3>2, <3>3, <3>4
  <2> HIDE DEF u, v, N
  <2>5. u = v
    BY <2>1, <2>3, <2>4, SeqEqual
  <2> QED BY <2>5 DEF u, v
<1> HIDE DEF s
<1>3. m + n <= Len(s) /\ m + n \in m .. Len(s)
  BY <1>1
<1>4. SubSeq(s, 1, m) \o SubSeq(s, m + 1, m + n) = SubSeq(s, 1, m + n)
  BY <1>1, <1>3, FirstGrows
<1>5. SubSeq(s, 1, m + n) = s
  <2>1. SubSeq(s, 1, Len(s)) = s
    BY <1>1, SubSeqFull
  <2> QED BY <1>1, <2>1
<1>6. SubSeq(s, m + 1, m + n) \in Seq(InputByte)
  BY <1>1, <1>3, PartType
<1>7. Suffix(s, m) = SubSeq(s, m + 1, m + n)
  BY <1>1 DEF Suffix
<1>8. Tree!Message(m) \o Suffix(s, m) = s /\ Suffix(s, m) \in Seq(InputByte)
  BY ONLY <1>2, <1>4, <1>5, <1>6, <1>7
<1> QED BY <1>8 DEF s

LEMMA UpdateCallIInv ==
  ASSUME IInv, NEW n \in Nat, KangarooTwelve_Update(n)
  PROVE  IInv'
<1> DEFINE more == Suffix(Tree!Message(message + n), message)
<1>1. /\ phase = "ABSORBING" /\ call = Idle /\ message' = message + n
      /\ input' = input \o more /\ Update("update", more)
      /\ UNCHANGED <<instance, error, custom, given>>
  BY DEF KangarooTwelve_Update
<1>2. message \in Nat /\ custom \in 0 .. MaxCustom /\ InputIs
  BY <1>1 DEF IInv
<1>3. message' \in Nat /\ custom' \in 0 .. MaxCustom /\ UNCHANGED <<instance, error, given>>
  BY <1>1, <1>2
<1>4. more \in Seq(InputByte) /\ Tree!Message(message) \o more = Tree!Message(message + n)
  BY <1>2, MessageGrows
<1> HIDE DEF more
<1>5. input = Tree!Message(message)
  BY <1>1, <1>2 DEF InputIs, Idle
<1>6. call'.in = "update"
  BY <1>1 DEF Update
<1>7. InputIs'
  <2>1. input' = Tree!Message(message')
    BY ONLY <1>1, <1>4, <1>5
  <2> QED BY ONLY <1>6, <2>1 DEF InputIs
<1>8. call.left = <<>>
  BY <1>1 DEF Idle
<1>9. "update" \in {"update", "custom", "encoding"}
  OBVIOUS
<1> QED BY ONLY IInv, <1>1, <1>3, <1>4, <1>7, <1>8, <1>9, UpdateIInv

LEMMA FinalIInv ==
  ASSUME IInv, NEW c \in 0 .. MaxCustom, KangarooTwelve_Final(c)
  PROVE  IInv'
<1> DEFINE bytes == IF c = 0 THEN Tree!RightEncode(0) ELSE Tree!Custom(c)
           in == IF c = 0 THEN "encoding" ELSE "custom"
<1>1. /\ phase = "ABSORBING" /\ call = Idle /\ custom' = c
      /\ input' = input \o bytes /\ Update(in, bytes)
      /\ UNCHANGED <<instance, error, message, given>>
  BY DEF KangarooTwelve_Final
<1>2. message \in Nat /\ InputIs
  BY <1>1 DEF IInv
<1>3. message' \in Nat /\ custom' \in 0 .. MaxCustom /\ UNCHANGED <<instance, error, given>>
      /\ message' = message
  BY <1>1, <1>2
<1>4. bytes \in Seq(InputByte)
  <2>1. 0 \in Nat /\ c \in Nat
    BY KangarooTwelveAssumption
  <2> QED BY <2>1, RightEncodeType, MessageType
<1>5. input = Tree!Message(message)
  BY <1>1, <1>2 DEF InputIs, Idle
<1>6. call'.in = in
  <2> HIDE DEF in, bytes
  <2> QED BY <1>1 DEF Update
<1>7. InputIs'
  <2>1. CASE c = 0
    <3>1. Tree!Message(message) \o Tree!Custom(0) = Tree!Message(message)
      <4>1. Tree!Custom(0) = <<>>
        BY DEF Tree!Custom
      <4>2. Tree!Message(message) \in Seq(InputByte)
        BY <1>2, MessageType
      <4> QED BY ONLY <4>1, <4>2, ConcatEmptySeq
    <3>2. input' = Tree!Input(message', custom')
      BY <1>1, <1>3, <1>5, <2>1, <3>1 DEF Tree!Input
    <3>3. call'.in = "encoding"
      BY <1>6, <2>1
    <3> QED BY ONLY <3>2, <3>3 DEF InputIs
  <2>2. CASE c # 0
    <3>1. input' = Tree!Message(message') \o Tree!Custom(custom')
      BY <1>1, <1>3, <1>5, <2>2
    <3>2. call'.in = "custom"
      BY <1>6, <2>2
    <3> QED BY ONLY <3>1, <3>2 DEF InputIs
  <2> QED BY <2>1, <2>2
<1>8. call.left = <<>>
  BY <1>1 DEF Idle
<1>9. in \in {"update", "custom", "encoding"}
  OBVIOUS
<1> HIDE DEF in, bytes
<1> QED BY ONLY IInv, <1>1, <1>3, <1>4, <1>7, <1>8, <1>9, UpdateIInv

LEMMA CustomTakenIInv ==
  ASSUME IInv, CustomTaken
  PROVE  IInv'
<1> DEFINE bytes == Tree!RightEncode(custom)
<1>1. /\ call.in = "custom" /\ call.left = <<>>
      /\ input' = input \o bytes /\ Update("encoding", bytes)
      /\ UNCHANGED <<instance, error, message, custom, given>>
  BY DEF CustomTaken
<1>2. call # Idle
  BY <1>1 DEF Idle
<1>3. /\ phase = "ABSORBING" /\ InputIs
  BY <1>2, Running
<1>4. message \in Nat /\ custom \in 0 .. MaxCustom /\ custom \in Nat
  BY KangarooTwelveAssumption DEF IInv
<1>5. message' \in Nat /\ custom' \in 0 .. MaxCustom /\ UNCHANGED <<instance, error, given>>
      /\ message' = message /\ custom' = custom
  BY <1>1, <1>4
<1>6. bytes \in Seq(InputByte)
  BY <1>4, RightEncodeType
<1>7. input = Tree!Message(message) \o Tree!Custom(custom)
  BY <1>1, <1>3 DEF InputIs
<1>8. input' = Tree!Input(message', custom')
  BY <1>1, <1>5, <1>7 DEF Tree!Input
<1> HIDE DEF bytes
<1>9. call'.in = "encoding"
  BY <1>1 DEF Update
<1>10. InputIs'
  BY ONLY <1>8, <1>9 DEF InputIs
<1>11. "encoding" \in {"update", "custom", "encoding"}
  OBVIOUS
<1> QED BY ONLY IInv, <1>1, <1>3, <1>5, <1>6, <1>10, <1>11, UpdateIInv

-----------------------------------------------------------------------------
(* The other operations.                                                   *)

\* When a call is over everything is taken.
LEMMA AllTaken ==
  ASSUME IInv, call.left = <<>>
  PROVE  AlreadyTaken = Len(input) /\ Len(input) \in Nat
<1>1. Len(input) \in Nat /\ Len(input) - 0 = Len(input) /\ Len(<<>>) = 0
  BY DEF IInv
<1> QED BY <1>1 DEF AlreadyTaken

LEMMA InitIInv ==
  ASSUME Init
  PROVE  IInv
<1>1. blockNumber \in Nat /\ queueAbsorbedLen \in 0 .. ChunkSize /\ fixedOutputLength \in Nat
      /\ custom \in 0 .. MaxCustom /\ message \in Nat /\ given \in Nat
  BY ChunkType, KangarooTwelveAssumption DEF Init
<1>2. input \in Seq(InputByte)
  BY DEF Init
<1>3. CallInv
  BY DEF Init, CallInv
<1>4. phase = "NOT_INITIALIZED" /\ ~error /\ blockNumber = 0
  BY DEF Init
<1> QED BY ONLY <1>1, <1>2, <1>3, <1>4 DEF IInv

LEMMA InitializeIInv ==
  ASSUME IInv, NEW l \in Levels, NEW n \in Nat, KangarooTwelve_Initialize(l, n)
  PROVE  IInv'
<1>1. /\ call = Idle /\ call' = Idle /\ ~error' /\ fixedOutputLength' = n
      /\ queueAbsorbedLen' = 0 /\ blockNumber' = 0 /\ phase' = "ABSORBING" /\ securityLevel' = l
      /\ finalNode' = NewNode
      /\ input' = <<>> /\ message' = 0 /\ custom' = 0 /\ given' = 0
  BY DEF KangarooTwelve_Initialize, IInv
<1>2. CallInv'
  BY <1>1 DEF CallInv, Idle
<1>3. InputIs'
  <2>1. Tree!Message(0) = <<>>
    BY DEF Tree!Message
  <2> QED BY <1>1, <2>1 DEF InputIs, Idle
<1>4. InNodes(AlreadyTaken)'
  <2>1. AlreadyTaken' = 0
    <3>1. call'.left = <<>>
      BY <1>1 DEF Idle
    <3>2. Len(<<>>) = 0 /\ 0 - 0 = 0
      OBVIOUS
    <3> QED BY ONLY <1>1, <3>1, <3>2 DEF AlreadyTaken
  <2>2. SubSeq(input', 1, 0) = <<>>
    BY <1>1
  <2>3. finalNode' = Tree!Node(SubSeq(input', 1, 0), 0)
    BY <1>1, <2>2, NodesAre
  <2>4. Placed(finalNode', queueNode', blockNumber', queueAbsorbedLen', input', capacityInBytes',
               AlreadyTaken')
    BY ONLY <1>1, <2>1, <2>3 DEF Placed
  <2> QED BY ONLY <2>4 DEF InNodes
<1>5. 0 \in 0 .. ChunkSize /\ 0 \in 0 .. MaxCustom /\ 0 \in Nat /\ <<>> \in Seq(InputByte)
  BY ChunkType, KangarooTwelveAssumption
<1> QED BY ONLY l \in Levels, n \in Nat, <1>1, <1>2, <1>3, <1>4, <1>5 DEF IInv

LEMMA UpdateReturnsIInv ==
  ASSUME IInv, UpdateReturns
  PROVE  IInv'
<1>1. /\ call.in = "update" /\ call.left = <<>> /\ call' = Idle
      /\ UNCHANGED <<instance, error, history>>
  BY DEF UpdateReturns
<1>2. call # Idle
  BY <1>1 DEF Idle
<1>3. phase = "ABSORBING" /\ InputIs /\ InNodes(AlreadyTaken) /\ AlreadyTaken = Len(input)
  BY <1>1, <1>2, Running, AllTaken
<1>4. /\ phase' = phase /\ securityLevel' = securityLevel /\ blockNumber' = blockNumber
      /\ queueAbsorbedLen' = queueAbsorbedLen /\ finalNode' = finalNode /\ queueNode' = queueNode
      /\ fixedOutputLength' = fixedOutputLength /\ error' = error /\ given' = given
      /\ input' = input /\ message' = message /\ custom' = custom
      /\ capacityInBytes' = capacityInBytes
  BY <1>1 DEF instance, nodes, history, capacityInBytes
<1>5. AlreadyTaken' = AlreadyTaken
  <2>1. call'.left = <<>>
    BY <1>1 DEF Idle
  <2> QED BY ONLY <1>1, <1>4, <2>1 DEF AlreadyTaken
<1>6. InputIs'
  <2>1. call'.in = "none"
    BY <1>1 DEF Idle
  <2>2. input = Tree!Message(message)
    BY <1>1, <1>3 DEF InputIs
  <2> QED BY ONLY <1>4, <2>1, <2>2 DEF InputIs
<1>7. InNodes(AlreadyTaken)'
  BY ONLY <1>3, <1>4, <1>5 DEF InNodes
<1>8. CallInv'
  BY <1>1 DEF CallInv, Idle
<1> QED BY <1>4, <1>6, <1>7, <1>8 DEF IInv

LEMMA SqueezeIInv ==
  ASSUME IInv, NEW n \in Nat, KangarooTwelve_Squeeze(n)
  PROVE  IInv'
<1>1. /\ phase = "SQUEEZING" /\ call = Idle /\ given' = given + n
      /\ UNCHANGED <<instance, call, error, input, message, custom>>
  BY DEF KangarooTwelve_Squeeze
<1>2. /\ phase' = phase /\ securityLevel' = securityLevel /\ blockNumber' = blockNumber
      /\ queueAbsorbedLen' = queueAbsorbedLen /\ finalNode' = finalNode
      /\ fixedOutputLength' = fixedOutputLength /\ error' = error
      /\ input' = input /\ message' = message /\ custom' = custom /\ call' = call
  BY <1>1 DEF instance, nodes
<1>3. CallInv' /\ given' \in Nat
  BY <1>1, <1>2 DEF CallInv, IInv
<1> QED BY <1>1, <1>2, <1>3 DEF IInv

\* Nothing refuses the end of the tree.
LEMMA FinishTakes ==
  ASSUME IInv, Finish
  PROVE  /\ call # Idle /\ CanAbsorb(finalNode)
         /\ blockNumber # 0 /\ QueueHoldsLeaf => CanAbsorb(queueNode)
<1>1. call # Idle
  BY DEF Finish, Idle
<1>2. InNodes(AlreadyTaken)
  BY <1>1, Running
<1>3. CASE blockNumber = 0
  <2>1. finalNode = Tree!Node(SubSeq(input, 1, AlreadyTaken), 0)
    BY <1>2, <1>3 DEF InNodes, Placed
  <2>2. CanAbsorb(finalNode)
    BY ONLY <2>1, NodesAre
  <2> QED BY <1>1, <1>3, <2>2
<1>4. CASE blockNumber # 0
  <2> DEFINE x == Opening(Piece(input, 0))
                    \o Values(Leaves(input, blockNumber - 1), blockNumber - 1, capacityInBytes)
             y == SubSeq(input, blockNumber * ChunkSize + 1, AlreadyTaken)
  <2>1. finalNode = Tree!Node(x, 0) /\ (queueAbsorbedLen # 0 => queueNode = Tree!Node(y, 0))
    BY <1>2, <1>4 DEF InNodes, Placed
  <2> HIDE DEF x, y
  <2>2. CanAbsorb(finalNode) /\ (queueAbsorbedLen # 0 => CanAbsorb(queueNode))
    BY ONLY <2>1, NodesAre
  <2> QED BY <1>1, <2>2 DEF QueueHoldsLeaf
<1> QED BY <1>3, <1>4

LEMMA FinishIInv ==
  ASSUME IInv, Finish
  PROVE  IInv'
<1>1. /\ call # Idle /\ CanAbsorb(finalNode)
      /\ blockNumber # 0 /\ QueueHoldsLeaf => CanAbsorb(queueNode)
  BY FinishTakes
<1>2. /\ phase' = IF fixedOutputLength # 0 THEN "FINAL" ELSE "SQUEEZING"
      /\ given' = fixedOutputLength /\ call' = Idle
      /\ UNCHANGED <<fixedOutputLength, queueAbsorbedLen, securityLevel, error,
                     input, message, custom>>
  BY <1>1 DEF Finish
<1>3. securityLevel \in Levels /\ blockNumber \in Nat /\ queueAbsorbedLen \in 0 .. ChunkSize
      /\ (blockNumber # 0 => queueAbsorbedLen # ChunkSize)
  BY <1>1, Running
<1>4. finalNode'.suffix \in {6, 7} /\ blockNumber' \in Nat
      /\ (blockNumber' # 0 => blockNumber # 0)
  <2> DEFINE last == IF QueueHoldsLeaf THEN ChainingValue(queueNode) ELSE <<>>
             leaves == IF QueueHoldsLeaf THEN blockNumber ELSE blockNumber - 1
             rest == last \o Tree!RightEncode(leaves) \o <<Tree!Fixed(255), Tree!Fixed(255)>>
  <2>1. CASE blockNumber = 0
    <3>1. finalNode' = End(finalNode, 7) /\ blockNumber' = blockNumber
      BY <1>1, <2>1 DEF Finish
    <3>2. finalNode = Tree!Node(SubSeq(input, 1, AlreadyTaken), 0)
      BY <1>1, <2>1, Running DEF InNodes, Placed
    <3>3. finalNode' = Tree!Node(SubSeq(input, 1, AlreadyTaken), 7)
      BY ONLY <3>1, <3>2, NodesAre
    <3>4. finalNode'.suffix = 7
      BY ONLY <3>3, NodesAre
    <3> QED BY <1>3, <2>1, <3>1, <3>4
  <2>2. CASE blockNumber # 0
    <3>1. finalNode' = End(Absorb(finalNode, rest), 6) /\ blockNumber' = leaves
      BY <1>1, <2>2 DEF Finish
    <3> DEFINE x == Opening(Piece(input, 0))
                      \o Values(Leaves(input, blockNumber - 1), blockNumber - 1, capacityInBytes)
    <3>2. finalNode = Tree!Node(x, 0)
      BY <1>1, <2>2, Running DEF InNodes, Placed
    <3>3. leaves \in Nat
      BY <1>3, <2>2
    <3> HIDE DEF rest, x, leaves
    <3>4. finalNode' = Tree!Node(x \o rest, 6)
      BY ONLY <3>1, <3>2, NodesAre
    <3>5. finalNode'.suffix = 6
      BY ONLY <3>4, NodesAre
    <3> QED BY <2>2, <3>1, <3>3, <3>5
  <2> QED BY <2>1, <2>2
<1>5. CallInv'
  BY <1>2 DEF CallInv
<1>6. /\ phase' \in {"FINAL", "SQUEEZING"} /\ given' \in Nat /\ fixedOutputLength' \in Nat
      /\ (phase' = "SQUEEZING" => fixedOutputLength' = 0)
      /\ input' \in Seq(InputByte) /\ message' \in Nat /\ custom' \in 0 .. MaxCustom /\ ~error'
  BY <1>2 DEF IInv
<1> QED BY ONLY <1>2, <1>3, <1>4, <1>5, <1>6 DEF IInv

LEMMA StutterIInv ==
  ASSUME IInv, UNCHANGED vars
  PROVE  IInv'
<1>1. /\ phase' = phase /\ securityLevel' = securityLevel /\ blockNumber' = blockNumber
      /\ queueAbsorbedLen' = queueAbsorbedLen /\ finalNode' = finalNode /\ queueNode' = queueNode
      /\ fixedOutputLength' = fixedOutputLength /\ error' = error /\ given' = given
      /\ input' = input /\ message' = message /\ custom' = custom /\ call' = call
  BY DEF vars, instance, nodes, history
<1>2. capacityInBytes' = capacityInBytes /\ AlreadyTaken' = AlreadyTaken
  BY <1>1 DEF capacityInBytes, AlreadyTaken
<1>3. (InputIs' <=> InputIs) /\ (InNodes(AlreadyTaken)' <=> InNodes(AlreadyTaken))
  <2>1. InputIs' <=> InputIs
    BY ONLY <1>1 DEF InputIs
  <2>2. InNodes(AlreadyTaken)' <=> InNodes(AlreadyTaken)
    BY ONLY <1>1, <1>2 DEF InNodes
  <2> QED BY ONLY <2>1, <2>2
<1>4. CallInv' <=> CallInv
  BY ONLY <1>1, <1>2 DEF CallInv
<1> QED BY ONLY IInv, <1>1, <1>3, <1>4 DEF IInv

LEMMA NextIInv ==
  ASSUME IInv, [Next]_vars
  PROVE  IInv'
<1>1. ASSUME NEW l \in Levels, NEW n \in 0 .. MaxOutput, KangarooTwelve_Initialize(l, n)
      PROVE  IInv'
  <2>1. n \in Nat
    BY KangarooTwelveAssumption
  <2> QED BY ONLY IInv, <1>1, <2>1, InitializeIInv
<1>2. ASSUME NEW n \in 0 .. MaxMessage, KangarooTwelve_Update(n)
      PROVE  IInv'
  <2>1. n \in Nat
    BY KangarooTwelveAssumption
  <2> QED BY ONLY IInv, <1>2, <2>1, UpdateCallIInv
<1>3. ASSUME NEW c \in 0 .. MaxCustom, KangarooTwelve_Final(c)
      PROVE  IInv'
  BY ONLY IInv, <1>3, FinalIInv
<1>4. ASSUME NEW n \in 1 .. MaxOutput, KangarooTwelve_Squeeze(n)
      PROVE  IInv'
  <2>1. n \in Nat
    BY KangarooTwelveAssumption
  <2> QED BY ONLY IInv, <1>4, <2>1, SqueezeIInv
<1>5. ASSUME Step
      PROVE  IInv'
  BY ONLY IInv, <1>5, FillFirstChunkIInv, FillQueueIInv, HashLeavesIInv, HashLeafIInv,
          UpdateReturnsIInv, CustomTakenIInv, FinishIInv DEF Step
<1>6. CASE UNCHANGED vars
  BY ONLY IInv, <1>6, StutterIInv
<1> QED BY ONLY <1>1, <1>2, <1>3, <1>4, <1>5, <1>6, [Next]_vars DEF Next

\* Between any two iterations of KangarooTwelve_Update's loops the instance
\* accounts for the input: what each node has absorbed, the number of complete
\* chunks, the length of the queue, and what is left of the call in progress.
THEOREM Invariant == Spec => []IInv
<1>1. Init => IInv
  BY InitIInv
<1>2. IInv /\ [Next]_vars => IInv'
  BY NextIInv
<1> QED BY <1>1, <1>2, PTL DEF Spec

\* No call that KangarooTwelve.c makes on one of its two nodes is refused, for
\* every chunk size, parallelism and way to cut the message in pieces.
THEOREM NodesNeverRefuse == Spec => []NeverRefused
<1>1. IInv => NeverRefused
  BY DEF IInv, NeverRefused
<1> QED BY <1>1, Invariant, PTL

-----------------------------------------------------------------------------
(* The chunks of the tree.                                                 *)

\* Complete chunks are pieces.
LEMMA CompleteChunks ==
  ASSUME NEW s \in Seq(InputByte), NEW b \in Nat, b * ChunkSize <= Len(s), NEW i \in Nat, i < b
  PROVE  Tree!Chunk(s, i) = Piece(s, i)
<1> DEFINE e == (i + 1) * ChunkSize
           f == b * ChunkSize
<1>1. e <= f
  BY ChunkBounds
<1>2. e \in Nat /\ f \in Nat /\ Len(s) \in Nat /\ f <= Len(s)
  BY ChunkType
<1> HIDE DEF e, f
<1>3. Tree!Smaller(e, Len(s)) = e
  <2>1. e <= Len(s)
    BY <1>1, <1>2
  <2> QED BY <2>1 DEF Tree!Smaller
<1> QED BY <1>3 DEF Tree!Chunk, Piece, e

\* The chaining values of complete chunks.
LEMMA CompleteValues ==
  ASSUME NEW s \in Seq(InputByte), NEW n \in Nat, (n + 1) * ChunkSize <= Len(s), NEW c \in Nat \ {0}
  PROVE  Tree!ChainingValues(s, n, c) = Values(Leaves(s, n), n, c)
<1> DEFINE i(k) == (k - 1) \div c + 1
           j(k) == ((k - 1) % c) + 1
           f == Leaves(s, n)
           y(k) == Tree!Squeezed(Tree!Node(Tree!Chunk(s, i(k)), Tree!SuffixLeaf), c)[j(k)]
           z(k) == <<"cv", Leaf(f[i(k)]), j(k)>>
           m == n * c
<1>1. ASSUME NEW k \in 1 .. m
      PROVE  y(k) = z(k)
  <2>1. i(k) \in 1 .. n /\ j(k) \in 1 .. c
    BY LeafOfByte
  <2> HIDE DEF i, j
  <2>2. i(k) \in Nat /\ i(k) < n + 1 /\ n + 1 \in Nat
    BY <2>1
  <2>3. Tree!Chunk(s, i(k)) = Piece(s, i(k))
    <3> DEFINE b == n + 1
    <3>1. b \in Nat /\ b * ChunkSize <= Len(s) /\ i(k) < b
      BY <2>2
    <3> HIDE DEF b
    <3> QED BY <2>2, <3>1, CompleteChunks
  <2>4. f[i(k)] = Piece(s, i(k))
    BY ONLY <2>1 DEF Leaves
  <2>5. Tree!Node(Piece(s, i(k)), Tree!SuffixLeaf) = Leaf(Piece(s, i(k)))
    BY DEF Tree!Node, Tree!SuffixLeaf, Leaf
  <2>6. y(k) = <<"cv", Leaf(Piece(s, i(k))), j(k)>>
    BY ONLY <2>1, <2>3, <2>5 DEF Tree!Squeezed
  <2> HIDE DEF f, y
  <2> QED BY ONLY <2>4, <2>6
<1>2. Tree!ChainingValues(s, n, c) = [k \in 1 .. m |-> y(k)]
  BY DEF Tree!ChainingValues
<1>3. Values(f, n, c) = [k \in 1 .. m |-> z(k)]
  BY DEF Values
<1> HIDE DEF y, z, m, f
<1>4. [k \in 1 .. m |-> y(k)] = [k \in 1 .. m |-> z(k)]
  BY <1>1
<1> QED BY ONLY <1>2, <1>3, <1>4 DEF f

\* What ChunksInNodes says of the first t bytes s.
Accounted(fin, que, b, q, s, c) ==
  IF b = 0
    THEN fin = Tree!Node(s, 0) /\ q = Len(s)
    ELSE /\ fin = Tree!Node(Tree!FirstChunk(s) \o Tree!ChainingValues(s, b - 1, c), 0)
         /\ Len(s) = b * ChunkSize + q
         /\ q # 0 => que = Tree!Node(Tree!Chunk(s, b), 0)

LEMMA PlacedIsAccounted ==
  ASSUME NEW s \in Seq(InputByte), NEW c \in Nat \ {0}, NEW b \in Nat, NEW q \in 0 .. ChunkSize,
         NEW t \in 0 .. Len(s), NEW fin, NEW que, Placed(fin, que, b, q, s, c, t)
  PROVE  Accounted(fin, que, b, q, SubSeq(s, 1, t), c)
<1> DEFINE w == SubSeq(s, 1, t)
           r == SubSeq(s, t + 1, Len(s))
<1>1. w \in Seq(InputByte) /\ Len(w) = t /\ r \in Seq(InputByte) /\ s = w \o r /\ t \in Nat
      /\ Len(s) \in Nat
  <2>1. 0 + 1 = 1 /\ 0 \in Nat /\ t \in 0 .. Len(s) /\ Len(s) \in t .. Len(s) /\ t - 0 = t
        /\ t \in Nat /\ Len(s) \in Nat
    OBVIOUS
  <2>2. SubSeq(s, 0 + 1, t) \in Seq(InputByte) /\ Len(SubSeq(s, 0 + 1, t)) = t - 0
    BY ONLY <2>1, s \in Seq(InputByte), PartType
  <2>3. SubSeq(s, t + 1, Len(s)) \in Seq(InputByte)
    BY ONLY <2>1, s \in Seq(InputByte), PartType
  <2>4. SubSeq(s, 0 + 1, t) \o SubSeq(s, t + 1, Len(s)) = SubSeq(s, 0 + 1, Len(s))
    BY ONLY <2>1, s \in Seq(InputByte), PartsJoin
  <2>5. SubSeq(s, 1, Len(s)) = s
    BY SubSeqFull
  <2> QED BY ONLY <2>1, <2>2, <2>3, <2>4, <2>5, Zenon
<1>2. CASE b = 0
  BY <1>1, <1>2 DEF Accounted, Placed
<1>3. CASE b # 0
  <2> DEFINE n == b - 1
             a == b * ChunkSize
  <2>1. /\ fin = Tree!Node(Opening(Piece(s, 0)) \o Values(Leaves(s, n), n, c), 0)
        /\ t = a + q
        /\ q # 0 => que = Tree!Node(SubSeq(s, a + 1, t), 0)
    BY <1>3 DEF Placed
  <2>2. n \in Nat /\ n + 1 = b /\ a \in Nat /\ q \in Nat
    BY <1>3, ChunkType
  <2>3. a <= Len(w) /\ a <= t
    <3> HIDE DEF a, w, r
    <3> QED BY <1>1, <2>1, <2>2
  <2> HIDE DEF w, r
  <2>4. ASSUME NEW i \in 0 .. n
        PROVE  Piece(s, i) = Piece(w, i) /\ Tree!Chunk(w, i) = Piece(w, i)
    <3>1. i \in Nat /\ i < b /\ b \in Nat
      BY <2>2
    <3> DEFINE e == (i + 1) * ChunkSize
    <3>2. e <= a
      BY ONLY <3>1, ChunkBounds
    <3>3. e \in Nat
      BY <3>1, ChunkType
    <3>4. e <= Len(w)
      <4> HIDE DEF a, e
      <4> QED BY ONLY <1>1, <2>2, <2>3, <3>2, <3>3
    <3>5. Piece(w \o r, i) = Piece(w, i)
      BY ONLY <1>1, <3>1, <3>4, PieceStays
    <3>6. Tree!Chunk(w, i) = Piece(w, i)
      BY ONLY <1>1, <2>3, <3>1, CompleteChunks
    <3> QED BY ONLY <1>1, <3>5, <3>6
  <2>5. Piece(s, 0) = Tree!Chunk(w, 0)
    <3>1. 0 \in 0 .. n
      BY <2>2
    <3>2. Piece(s, 0) = Piece(w, 0) /\ Tree!Chunk(w, 0) = Piece(w, 0)
      BY ONLY <2>4, <3>1
    <3> QED BY ONLY <3>2
  <2>6. Opening(Piece(s, 0)) = Tree!FirstChunk(w)
    BY ONLY <2>5 DEF Opening, Tree!FirstChunk
  <2>7. Values(Leaves(s, n), n, c) = Tree!ChainingValues(w, n, c)
    <3> DEFINE f == Leaves(s, n)
               g == Leaves(w, n)
    <3>1. \A i \in 1 .. n : f[i] = g[i]
      <4> TAKE i \in 1 .. n
      <4>1. i \in 0 .. n
        BY <2>2
      <4> QED BY <2>4, <4>1 DEF Leaves
    <3> HIDE DEF f, g, n
    <3>2. Values(f, n, c) = Values(g, n, c)
      BY <2>2, <3>1, ValuesEqual
    <3>3. Tree!ChainingValues(w, n, c) = Values(g, n, c)
      <4>1. (n + 1) * ChunkSize <= Len(w)
        BY ONLY <2>2, <2>3
      <4> QED BY ONLY <1>1, <2>2, <4>1, c \in Nat \ {0}, CompleteValues DEF g
    <3> QED BY ONLY <3>2, <3>3 DEF f
  <2>8. q # 0 => SubSeq(s, a + 1, t) = Tree!Chunk(w, b)
    <3> DEFINE e == (b + 1) * ChunkSize
    <3>1. e = a + ChunkSize
      BY ChunkType
    <3> HIDE DEF a, e
    <3>2. t <= e /\ t \in a .. t /\ e \in Int
      BY <1>1, <2>1, <2>2, <2>3, <3>1, ChunkType
    <3>3. Tree!Smaller(e, Len(w)) = t
      BY ONLY <1>1, <3>2 DEF Tree!Smaller
    <3>4. Tree!Chunk(w, b) = SubSeq(w, a + 1, t)
      BY ONLY <3>3 DEF Tree!Chunk, a, e
    <3>5. SubSeq(w \o r, a + 1, t) = SubSeq(w, a + 1, t)
      <4>1. a \in Nat /\ t \in a .. Len(w)
        BY ONLY <1>1, <2>2, <3>2
      <4> QED BY ONLY <1>1, <4>1, PartStays
    <3> QED BY ONLY <1>1, <3>4, <3>5
  <2>9. fin = Tree!Node(Tree!FirstChunk(w) \o Tree!ChainingValues(w, b - 1, c), 0)
    BY ONLY <2>1, <2>6, <2>7
  <2>10. Len(w) = b * ChunkSize + q
    BY ONLY <1>1, <2>1
  <2>11. q # 0 => que = Tree!Node(Tree!Chunk(w, b), 0)
    BY ONLY <2>1, <2>8
  <2>12. Accounted(fin, que, b, q, w, c)
    BY ONLY <1>3, <2>9, <2>10, <2>11 DEF Accounted
  <2> QED BY ONLY <2>12 DEF w
<1> QED BY ONLY <1>2, <1>3

LEMMA TakenIsAccounted ==
  ASSUME IInv, phase = "ABSORBING"
  PROVE  /\ Accounted(finalNode, queueNode, blockNumber, queueAbsorbedLen, Taken, capacityInBytes)
         /\ AlreadyTaken \in 0 .. Len(input)
<1>1. /\ input \in Seq(InputByte) /\ InNodes(AlreadyTaken) /\ securityLevel \in Levels
      /\ blockNumber \in Nat /\ queueAbsorbedLen \in 0 .. ChunkSize
  BY DEF IInv
<1>2. capacityInBytes \in Nat \ {0}
  BY <1>1, CapacityType
<1>3. AlreadyTaken \in 0 .. Len(input)
  <2>1. CASE call = Idle
    <3>1. call.left = <<>>
      BY <2>1 DEF Idle
    <3>2. AlreadyTaken = Len(input) /\ Len(input) \in Nat
      BY <3>1, AllTaken
    <3> QED BY ONLY <3>2
  <2>2. CASE call # Idle
    BY <2>2 DEF IInv, CallInv
  <2> QED BY <2>1, <2>2
<1>4. Taken = SubSeq(input, 1, AlreadyTaken)
  BY DEF Taken, Prefix, AlreadyTaken
<1>5. Placed(finalNode, queueNode, blockNumber, queueAbsorbedLen, input, capacityInBytes, AlreadyTaken)
  BY <1>1 DEF InNodes
<1>6. Accounted(finalNode, queueNode, blockNumber, queueAbsorbedLen, SubSeq(input, 1, AlreadyTaken),
                capacityInBytes)
  BY ONLY <1>1, <1>2, <1>3, <1>5, PlacedIsAccounted
<1> QED BY ONLY <1>3, <1>4, <1>6

\* Between any two iterations of the loops of KangarooTwelve_Update, every byte
\* taken so far is in the node it belongs in, and in no other: the first chunk
\* and the chaining values of complete leaves, in order, in the final node, the
\* rest in the queue node.
THEOREM EveryByteInItsNode == Spec => []ChunksInNodes
<1>1. IInv => ChunksInNodes
  BY TakenIsAccounted DEF ChunksInNodes, Accounted
<1> QED BY <1>1, Invariant, PTL

-----------------------------------------------------------------------------
(* The tree of the whole input.                                            *)

\* The first chunk is closed only when more input follows it.
MoreThanAChunk == phase = "ABSORBING" /\ blockNumber # 0 => Len(input) > ChunkSize

LEMMA InputGrows ==
  ASSUME IInv, NEW more \in Seq(InputByte)
  PROVE  Len(input) \in Nat /\ Len(input \o more) \in Nat /\ Len(input \o more) >= Len(input)
<1> DEFINE I == InputByte
           s == input
<1>1. s \in Seq(I) /\ more \in Seq(I)
  BY DEF IInv
<1> HIDE DEF I, s
<1>2. Len(s \o more) = Len(s) + Len(more) /\ Len(s) \in Nat /\ Len(more) \in Nat
  BY <1>1, ConcatProperties
<1>3. Len(s) \in Nat /\ Len(s \o more) \in Nat /\ Len(s \o more) >= Len(s)
  BY <1>2
<1> QED BY <1>3 DEF s

LEMMA MoreThanAChunkStep ==
  ASSUME IInv, MoreThanAChunk, [Next]_vars
  PROVE  MoreThanAChunk'
<1>1. ASSUME UNCHANGED <<phase, blockNumber, input>>
      PROVE  MoreThanAChunk'
  BY <1>1 DEF MoreThanAChunk
<1>2. ASSUME NEW more \in Seq(InputByte), input' = input \o more, UNCHANGED <<phase, blockNumber>>
      PROVE  MoreThanAChunk'
  <2> DEFINE a == Len(input)
             b == Len(input \o more)
  <2>1. a \in Nat /\ b \in Nat /\ b >= a /\ ChunkSize \in Nat
    BY InputGrows, ChunkType
  <2>2. phase' = "ABSORBING" /\ blockNumber' # 0 => a > ChunkSize
    BY <1>2 DEF MoreThanAChunk
  <2>3. Len(input') = b
    BY <1>2
  <2> HIDE DEF a, b
  <2> QED BY ONLY <2>1, <2>2, <2>3 DEF MoreThanAChunk
<1>3. ASSUME NEW l \in Levels, NEW n \in 0 .. MaxOutput, KangarooTwelve_Initialize(l, n)
      PROVE  MoreThanAChunk'
  BY <1>3 DEF KangarooTwelve_Initialize, MoreThanAChunk
<1>4. ASSUME NEW n \in 0 .. MaxMessage, KangarooTwelve_Update(n)
      PROVE  MoreThanAChunk'
  <2>1. n \in Nat /\ message \in Nat
    BY KangarooTwelveAssumption DEF IInv
  <2>2. Suffix(Tree!Message(message + n), message) \in Seq(InputByte)
    BY ONLY <2>1, MessageGrows
  <2>3. input' = input \o Suffix(Tree!Message(message + n), message) /\ UNCHANGED <<phase, blockNumber>>
    BY <1>4 DEF KangarooTwelve_Update, instance
  <2> QED BY ONLY <1>2, <2>2, <2>3
<1>5. ASSUME NEW c \in 0 .. MaxCustom, KangarooTwelve_Final(c)
      PROVE  MoreThanAChunk'
  <2> DEFINE bytes == IF c = 0 THEN Tree!RightEncode(0) ELSE Tree!Custom(c)
  <2>1. bytes \in Seq(InputByte)
    <3>1. 0 \in Nat /\ c \in Nat
      BY KangarooTwelveAssumption
    <3> QED BY <3>1, RightEncodeType, MessageType
  <2>2. input' = input \o bytes /\ UNCHANGED <<phase, blockNumber>>
    BY <1>5 DEF KangarooTwelve_Final, instance
  <2> HIDE DEF bytes
  <2> QED BY ONLY <1>2, <2>1, <2>2
<1>6. ASSUME NEW n \in 1 .. MaxOutput, KangarooTwelve_Squeeze(n)
      PROVE  MoreThanAChunk'
  BY <1>1, <1>6 DEF KangarooTwelve_Squeeze, instance
<1>7. CASE FillFirstChunk
  <2> DEFINE n == Smaller(Len(call.left), ChunkSize - queueAbsorbedLen)
  <2>1. call # Idle /\ blockNumber = 0
    BY <1>7 DEF FillFirstChunk, Idle
  <2>2. input' = input /\ (blockNumber' # 0 => blockNumber' = blockNumber \/ FirstChunkCloses(n))
    <3>1. CanAbsorb(finalNode)
      <4>1. finalNode = Tree!Node(SubSeq(input, 1, AlreadyTaken), 0)
        BY <2>1, Running DEF InNodes, Placed
      <4> QED BY ONLY <4>1, NodesAre
    <3> QED BY <1>7, <3>1 DEF FillFirstChunk, history
  <2>3. ASSUME FirstChunkCloses(n) PROVE Len(input) > ChunkSize
    <3>1. queueAbsorbedLen = AlreadyTaken
      BY <2>1, Running DEF InNodes, Placed
    <3>2. AlreadyTaken \in Nat /\ Len(call.left) \in Nat /\ AlreadyTaken + Len(call.left) = Len(input)
          /\ Len(input) \in Nat
      BY <2>1, Running
    <3>3. queueAbsorbedLen + n = ChunkSize /\ n < Len(call.left)
      BY <2>3 DEF FirstChunkCloses
    <3>4. n \in Int
      <4>1. n = Len(call.left) \/ n = ChunkSize - queueAbsorbedLen
        BY DEF Smaller
      <4> HIDE DEF n
      <4> QED BY <3>1, <3>2, <4>1, ChunkType
    <3> HIDE DEF n
    <3> QED BY ONLY <3>1, <3>2, <3>3, <3>4, ChunkType
  <2> HIDE DEF n
  <2> QED BY ONLY <2>1, <2>2, <2>3 DEF MoreThanAChunk
<1>8. ASSUME blockNumber # 0, call # Idle, UNCHANGED <<input>>
      PROVE  MoreThanAChunk'
  <2>1. phase = "ABSORBING"
    BY <1>8, Running
  <2> QED BY <1>8, <2>1 DEF MoreThanAChunk
<1>9. CASE FillQueue
  <2>1. blockNumber # 0 /\ call # Idle /\ UNCHANGED <<input>>
    BY <1>9 DEF FillQueue, Idle, history, Refuse
  <2> QED BY <1>8, <2>1
<1>10. ASSUME call.at = "leaves", call.left # <<>>, UNCHANGED <<input>>
       PROVE  MoreThanAChunk'
  <2>1. call # Idle
    BY <1>10 DEF Idle
  <2>2. blockNumber # 0
    BY <1>10, <2>1 DEF IInv, CallInv
  <2> QED BY <1>8, <1>10, <2>1, <2>2
<1>11. ASSUME NEW p \in Parallelism, HashLeaves(p)
       PROVE  MoreThanAChunk'
  <2> DEFINE l == Len(call.left)
             f == p * ChunkSize
             d == (0 + 1) * ChunkSize
  <2>1. call.at = "leaves" /\ call # Idle /\ l >= f /\ UNCHANGED <<input>>
    BY <1>11 DEF HashLeaves, Idle, CanHash, history, Refuse
  <2>2. 0 \in Nat /\ p \in Nat /\ 0 < p
    BY KangarooTwelveAssumption
  <2>3. d <= f
    BY ONLY <2>2, ChunkBounds
  <2>4. d = ChunkSize /\ f \in Nat /\ l \in Nat
    BY <2>1, <2>2, ChunkType, Running
  <2>5. call.left # <<>>
    <3> SUFFICES ASSUME call.left = <<>> PROVE FALSE
      OBVIOUS
    <3>1. l = 0
      BY Len(<<>>) = 0
    <3> HIDE DEF f, l, d
    <3> QED BY <2>1, <2>3, <2>4, <3>1, ChunkType
  <2> QED BY ONLY <1>10, <2>1, <2>5
<1>12. CASE HashLeaf
  <2>1. call.at = "leaves" /\ call.left # <<>> /\ UNCHANGED <<input>>
    BY <1>12 DEF HashLeaf, history, Refuse
  <2> QED BY ONLY <1>10, <2>1
<1>13. CASE UpdateReturns
  BY <1>1, <1>13 DEF UpdateReturns, instance, history
<1>14. CASE CustomTaken
  <2>1. custom \in Nat
    BY KangarooTwelveAssumption DEF IInv
  <2>2. Tree!RightEncode(custom) \in Seq(InputByte)
    BY ONLY <2>1, RightEncodeType
  <2>3. input' = input \o Tree!RightEncode(custom) /\ UNCHANGED <<phase, blockNumber>>
    BY <1>14 DEF CustomTaken, instance
  <2> QED BY ONLY <1>2, <2>2, <2>3
<1>15. CASE Finish
  <2>1. phase' # "ABSORBING"
    BY <1>15, FinishTakes DEF Finish
  <2> QED BY ONLY <2>1 DEF MoreThanAChunk
<1>16. CASE UNCHANGED vars
  BY <1>1, <1>16 DEF vars, instance, history
<1> QED BY ONLY <1>3, <1>4, <1>5, <1>6, <1>7, <1>9, <1>11, <1>12, <1>13, <1>14, <1>15, <1>16,
                [Next]_vars DEF Next, Step

\* The first chunk is closed only when more than a chunk has been given, so that
\* a message that fits in one chunk has no tree.
THEOREM FirstChunkIsFollowed == Spec => []MoreThanAChunk
<1>1. Init => MoreThanAChunk
  BY DEF Init, MoreThanAChunk
<1>2. IInv /\ MoreThanAChunk /\ [Next]_vars => MoreThanAChunk'
  BY MoreThanAChunkStep
<1> QED BY <1>1, <1>2, Invariant, PTL DEF Spec

\* How many chunks there are.
LEMMA ChunksOf ==
  ASSUME NEW s \in Seq(InputByte), NEW b \in Nat, NEW q \in 1 .. ChunkSize,
         Len(s) = b * ChunkSize + q
  PROVE  Tree!Chunks(s) = b + 1
<1> DEFINE a == b * ChunkSize
           l == Len(s)
           d == (b + 1) * ChunkSize
<1>1. a \in Nat /\ d = a + ChunkSize /\ l = a + q
  BY ChunkType
<1> HIDE DEF a, d, l
<1>2. l + ChunkSize - 1 = d + (q - 1) /\ q - 1 \in 0 .. ChunkSize - 1
  BY <1>1, ChunkType
<1>3. (d + (q - 1)) \div ChunkSize = b + 1
  <2>1. b + 1 \in Int
    OBVIOUS
  <2> DEFINE m == b + 1
             p == q - 1
  <2>2. m \in Int /\ p \in 0 .. ChunkSize - 1
    BY <1>2, <2>1
  <2> HIDE DEF m, p
  <2>3. (m * ChunkSize + p) \div ChunkSize = m
    BY ONLY <2>2, ChunkType, DivModUnique
  <2> QED BY <2>3 DEF m, p, d
<1> QED BY ONLY <1>2, <1>3 DEF Tree!Chunks, l

\* The leaves of the tree.
TreeLeaves(s, n) == [i \in 1 .. n |-> Tree!Chunk(s, i)]

LEMMA TreeValues ==
  ASSUME NEW s, NEW n \in Nat, NEW c \in Nat \ {0}
  PROVE  Tree!ChainingValues(s, n, c) = Values(TreeLeaves(s, n), n, c)
<1> DEFINE i(k) == (k - 1) \div c + 1
           j(k) == ((k - 1) % c) + 1
           f == TreeLeaves(s, n)
           y(k) == Tree!Squeezed(Tree!Node(Tree!Chunk(s, i(k)), Tree!SuffixLeaf), c)[j(k)]
           z(k) == <<"cv", Leaf(f[i(k)]), j(k)>>
           m == n * c
<1>1. ASSUME NEW k \in 1 .. m
      PROVE  y(k) = z(k)
  <2>1. i(k) \in 1 .. n /\ j(k) \in 1 .. c
    BY LeafOfByte
  <2> DEFINE x == Tree!Chunk(s, i(k))
  <2> HIDE DEF i, j
  <2>2. f[i(k)] = x
    BY ONLY <2>1 DEF TreeLeaves
  <2> HIDE DEF x
  <2>3. Tree!Node(x, Tree!SuffixLeaf) = Leaf(x)
    BY DEF Tree!Node, Tree!SuffixLeaf, Leaf
  <2>4. Tree!Squeezed(Tree!Node(x, Tree!SuffixLeaf), c)[j(k)] = <<"cv", Leaf(x), j(k)>>
    BY ONLY <2>1, <2>3 DEF Tree!Squeezed
  <2>5. y(k) = <<"cv", Leaf(x), j(k)>>
    BY ONLY <2>4 DEF x
  <2> HIDE DEF f, y
  <2> QED BY ONLY <2>2, <2>5
<1>2. Tree!ChainingValues(s, n, c) = [k \in 1 .. m |-> y(k)]
  BY DEF Tree!ChainingValues
<1>3. Values(f, n, c) = [k \in 1 .. m |-> z(k)]
  BY DEF Values
<1> HIDE DEF y, z, m, f
<1>4. [k \in 1 .. m |-> y(k)] = [k \in 1 .. m |-> z(k)]
  BY <1>1
<1> QED BY ONLY <1>2, <1>3, <1>4 DEF f

\* The chunks of an input of b chunks and q bytes.
LEMMA TreeLeavesType ==
  ASSUME NEW s \in Seq(InputByte), NEW b \in Nat, NEW q \in 0 .. ChunkSize,
         Len(s) = b * ChunkSize + q
  PROVE  \A i \in 0 .. b : Tree!Chunk(s, i) \in Seq(InputByte)
<1> TAKE i \in 0 .. b
<1> DEFINE a == b * ChunkSize
<1>1. a \in Nat /\ Len(s) = a + q /\ Len(s) \in Nat /\ q \in Nat /\ a <= Len(s)
  <2>1. a \in Nat /\ Len(s) = a + q /\ Len(s) \in Nat /\ q \in Nat
    BY ChunkType
  <2> HIDE DEF a
  <2> QED BY <2>1
<1>2. CASE i # b
  <2>1. i \in Nat /\ i < b
    BY <1>2
  <2>2. Tree!Chunk(s, i) = Piece(s, i)
    BY ONLY <1>1, <2>1, s \in Seq(InputByte), b \in Nat, CompleteChunks
  <2> DEFINE e == (i + 1) * ChunkSize
  <2>3. e <= a
    BY ONLY <2>1, b \in Nat, ChunkBounds
  <2>4. e \in Nat
    BY <2>1, ChunkType
  <2>5. e <= Len(s)
    <3> HIDE DEF a, e
    <3> QED BY ONLY <1>1, <2>3, <2>4
  <2>6. Piece(s, i) \in Seq(InputByte)
    BY ONLY <2>1, <2>5, s \in Seq(InputByte), PieceType
  <2> QED BY ONLY <2>2, <2>6
<1>3. CASE i = b
  <2> DEFINE e == (b + 1) * ChunkSize
  <2>1. e = a + ChunkSize
    BY ChunkType
  <2> HIDE DEF a, e
  <2>2. Len(s) <= e /\ e \in Int
    BY <1>1, <2>1, ChunkType
  <2>3. Tree!Smaller(e, Len(s)) = Len(s)
    BY ONLY <1>1, <2>2 DEF Tree!Smaller
  <2>4. Tree!Chunk(s, b) = SubSeq(s, a + 1, Len(s))
    BY ONLY <2>3 DEF Tree!Chunk, a, e
  <2>5. Len(s) \in a .. Len(s)
    BY ONLY <1>1
  <2>6. SubSeq(s, a + 1, Len(s)) \in Seq(InputByte)
    BY ONLY <1>1, <2>5, s \in Seq(InputByte), PartType
  <2> QED BY ONLY <1>3, <2>4, <2>6
<1> QED BY <1>2, <1>3

\* The last leaf, which is not complete.
LEMMA LastLeaf ==
  ASSUME NEW s \in Seq(InputByte), NEW b \in Nat \ {0}, NEW q \in 0 .. ChunkSize,
         Len(s) = b * ChunkSize + q, NEW c \in Nat \ {0}, c = capacityInBytes
  PROVE  /\ Tree!ChainingValues(s, b - 1, c) \o ChainingValue(Tree!Node(Tree!Chunk(s, b), 0))
              = Tree!ChainingValues(s, b, c)
         /\ Tree!ChainingValues(s, b - 1, c) \in Seq(NodeByte)
         /\ Tree!ChainingValues(s, b, c) \in Seq(NodeByte)
         /\ ChainingValue(Tree!Node(Tree!Chunk(s, b), 0)) \in Seq(NodeByte)
         /\ Tree!FirstChunk(s) \in Seq(NodeByte)
<1> DEFINE n == b - 1
           x == Tree!Chunk(s, b)
           f == TreeLeaves(s, n)
           g == <<x>>
           h == TreeLeaves(s, b)
<1>0. n \in Nat /\ n + 1 = b /\ b \in Nat /\ 1 \in Nat
  OBVIOUS
<1>1. \A i \in 0 .. b : Tree!Chunk(s, i) \in Seq(InputByte)
  BY ONLY <1>0, s \in Seq(InputByte), q \in 0 .. ChunkSize, Len(s) = b * ChunkSize + q, TreeLeavesType
<1> HIDE DEF n
<1>2. /\ \A i \in 1 .. b : h[i] = Tree!Chunk(s, i) /\ i \in 0 .. b
      /\ \A i \in 1 .. n : f[i] = Tree!Chunk(s, i) /\ i \in 1 .. b
      /\ \A i \in 1 .. 1 : g[i] = Tree!Chunk(s, n + i) /\ n + i \in 1 .. b
      /\ g[1] = x
  BY <1>0 DEF TreeLeaves
<1> HIDE DEF f, g, h, x
<1>3. /\ \A i \in 1 .. b : h[i] \in Seq(InputByte)
      /\ \A i \in 1 .. n : f[i] \in Seq(InputByte)
      /\ \A i \in 1 .. 1 : g[i] \in Seq(InputByte)
  <2>1. \A i \in 1 .. b : h[i] \in Seq(InputByte)
    BY <1>1, <1>2
  <2>2. \A i \in 1 .. n : f[i] \in Seq(InputByte)
    BY <1>1, <1>2
  <2>3. \A i \in 1 .. 1 : g[i] \in Seq(InputByte)
    BY <1>1, <1>2
  <2> QED BY ONLY <2>1, <2>2, <2>3
<1>4. Together(f, n, g, 1, h)
  BY ONLY <1>0, <1>2, <1>3 DEF Together
<1>5. Values(f, n, c) \o Values(g, 1, c) = Values(h, n + 1, c)
  BY ONLY <1>0, <1>4, c \in Nat \ {0}, ValuesJoin, SMTT(30)
<1>6. ChainingValue(Tree!Node(x, 0)) = Values(g, 1, c)
  BY <1>2, ChainingValueIs
<1>7. Tree!ChainingValues(s, n, c) = Values(f, n, c) /\ Tree!ChainingValues(s, b, c) = Values(h, b, c)
  BY ONLY <1>0, c \in Nat \ {0}, TreeValues DEF f, h
<1>8. /\ Values(f, n, c) \in Seq(NodeByte) /\ Values(g, 1, c) \in Seq(NodeByte)
      /\ Values(h, b, c) \in Seq(NodeByte)
  BY ONLY <1>0, <1>3, c \in Nat \ {0}, ValuesType
<1>9. Tree!FirstChunk(s) \in Seq(NodeByte)
  <2> DEFINE y == Tree!Chunk(s, 0)
  <2>1. y \in Seq(InputByte)
    <3>1. 0 \in 0 .. b
      BY <1>0
    <3> QED BY <1>1, <3>1
  <2>2. Tree!FirstChunk(s) = Opening(y)
    BY DEF Tree!FirstChunk, Opening
  <2> HIDE DEF y
  <2> QED BY ONLY <2>1, <2>2, OpeningType
<1>10. /\ Tree!ChainingValues(s, n, c) \o ChainingValue(Tree!Node(x, 0)) = Tree!ChainingValues(s, b, c)
       /\ Tree!ChainingValues(s, n, c) \in Seq(NodeByte)
       /\ Tree!ChainingValues(s, b, c) \in Seq(NodeByte)
       /\ ChainingValue(Tree!Node(x, 0)) \in Seq(NodeByte)
  BY ONLY <1>0, <1>5, <1>6, <1>7, <1>8
<1> QED BY ONLY <1>9, <1>10 DEF n, x

\* What ends the final node.
LEMMA EndingType ==
  ASSUME NEW n \in Nat
  PROVE  /\ Tree!RightEncode(n) \in Seq(NodeByte)
         /\ <<Tree!Fixed(255), Tree!Fixed(255)>> \in Seq(NodeByte)
<1>1. Tree!RightEncode(n) \in Seq(NodeByte)
  BY RightEncodeType, FixedType
<1> DEFINE v == Tree!Fixed(255)
           N == NodeByte
<1>2. v \in N
  BY FixedType
<1> HIDE DEF v, N
<1>3. <<v, v>> \in Seq(N)
  BY <1>2
<1> QED BY ONLY <1>1, <1>3 DEF v, N

\* The rest of KangarooTwelve_Final makes the final node that of the tree.
LEMMA FinishMakesTheTree ==
  ASSUME IInv, MoreThanAChunk, Finish
  PROVE  /\ finalNode' = Tree!FinalNode(Tree!Input(message, custom), capacityInBytes)
         /\ finalNode'.suffix \in {6, 7}
<1> DEFINE s == input
           b == blockNumber
           q == queueAbsorbedLen
           c == capacityInBytes
           ends == <<Tree!Fixed(255), Tree!Fixed(255)>>
<1>1. call # Idle /\ call.in = "encoding" /\ call.left = <<>> /\ CanAbsorb(finalNode)
      /\ (b # 0 /\ QueueHoldsLeaf => CanAbsorb(queueNode))
  BY FinishTakes DEF Finish
<1>2. /\ phase = "ABSORBING" /\ c \in Nat \ {0} /\ s \in Seq(InputByte) /\ Len(s) \in Nat
      /\ b \in Nat /\ q \in 0 .. ChunkSize /\ InputIs /\ (b # 0 => q # ChunkSize)
  BY <1>1, Running
<1>3. Tree!Input(message, custom) = s
  BY ONLY <1>1, <1>2 DEF InputIs
<1>4. Taken = s
  <2>1. AlreadyTaken = Len(s)
    BY <1>1, AllTaken
  <2>2. Taken = SubSeq(s, 1, Len(s))
    BY ONLY <2>1 DEF Taken, AlreadyTaken, Prefix
  <2> HIDE DEF s
  <2>3. SubSeq(s, 1, Len(s)) = s
    BY <1>2, SubSeqFull
  <2> QED BY ONLY <2>2, <2>3
<1>5. Accounted(finalNode, queueNode, b, q, s, c)
  <2>1. Accounted(finalNode, queueNode, b, q, Taken, c)
    BY <1>2, TakenIsAccounted
  <2> QED BY ONLY <1>4, <2>1
<1>6. CASE b = 0
  <2>1. finalNode' = End(finalNode, 7)
    BY <1>1, <1>6 DEF Finish
  <2>2. finalNode = Tree!Node(s, 0) /\ q = Len(s)
    BY ONLY <1>5, <1>6 DEF Accounted
  <2>3. q # 0
    <3>1. message \in Nat /\ custom \in Nat
      BY KangarooTwelveAssumption DEF IInv
    <3> DEFINE u == Tree!Message(message) \o Tree!Custom(custom)
               v == Tree!RightEncode(custom)
               I == InputByte
    <3>2. Tree!Message(message) \in Seq(InputByte) /\ Tree!Custom(custom) \in Seq(InputByte)
      BY ONLY <3>1, MessageType
    <3>3. u \in Seq(InputByte)
      BY ONLY <3>2, ConcatProperties
    <3>4. v \in Seq(InputByte) /\ Len(v) \in Nat \ {0}
      BY ONLY <3>1, RightEncodeType
    <3>5. s = u \o v
      BY ONLY <1>3 DEF Tree!Input
    <3> HIDE DEF u, v, s
    <3>6. Len(u \o v) = Len(u) + Len(v) /\ Len(u) \in Nat
      BY ONLY <3>3, <3>4, ConcatProperties
    <3> QED BY ONLY <2>2, <3>4, <3>5, <3>6
  <2>4. Tree!Chunks(s) = 1
    <3>1. 0 \in Nat /\ q \in 1 .. ChunkSize /\ Len(s) = 0 * ChunkSize + q /\ 0 + 1 = 1
      BY <1>2, <2>2, <2>3, ChunkType
    <3> HIDE DEF s, q
    <3> QED BY ONLY <1>2, <3>1, ChunksOf
  <2>5. finalNode' = Tree!Node(s, 7)
    BY ONLY <2>1, <2>2, NodesAre
  <2>6. Tree!FinalNode(s, c) = Tree!Node(s, 7)
    <3>1. Tree!Chunks(s) - 1 = 0
      BY ONLY <2>4
    <3> HIDE DEF s, c
    <3> QED BY ONLY <3>1 DEF Tree!FinalNode
  <2>7. finalNode'.suffix = 7
    BY ONLY <2>5, NodesAre
  <2> QED BY ONLY <1>3, <2>5, <2>6, <2>7
<1>7. ASSUME b # 0, NEW last \in Seq(NodeByte), NEW n \in Nat \ {0},
             Tree!Chunks(s) = n + 1,
             finalNode' = End(Absorb(finalNode, last \o Tree!RightEncode(n) \o ends), 6),
             Tree!ChainingValues(s, b - 1, c) \o last = Tree!ChainingValues(s, n, c)
      PROVE  /\ finalNode' = Tree!FinalNode(s, c)
             /\ finalNode'.suffix \in {6, 7}
  <2> DEFINE u == Tree!FirstChunk(s)
             v == Tree!ChainingValues(s, b - 1, c)
             w == Tree!ChainingValues(s, n, c)
             r == Tree!RightEncode(n)
             k == last \o r \o ends
  <2>1. finalNode = Tree!Node(u \o v, 0) /\ Len(s) = b * ChunkSize + q
    BY ONLY <1>5, <1>7 DEF Accounted
  <2>2. u \in Seq(NodeByte) /\ v \in Seq(NodeByte)
    <3>1. b \in Nat \ {0}
      BY <1>2, <1>7
    <3> HIDE DEF s, b, q, c
    <3>2. c = capacityInBytes
      BY DEF c
    <3> QED BY ONLY <1>2, <2>1, <3>1, <3>2, LastLeaf
  <2>3. r \in Seq(NodeByte) /\ ends \in Seq(NodeByte)
    BY EndingType
  <2>4. finalNode' = Tree!Node((u \o v) \o k, 6)
    <3> HIDE DEF u, v, k
    <3>1. finalNode' = End(Absorb(Tree!Node(u \o v, 0), k), 6)
      BY ONLY <1>7, <2>1 DEF k
    <3> QED BY ONLY <3>1, NodesAre
  <2> HIDE DEF u, v, w, r, ends
  <2>5. (u \o v) \o k = ((u \o w) \o r) \o ends
    <3>1. u \o v \in Seq(NodeByte)
      BY ONLY <2>2, NodeBytesJoin
    <3>2. (u \o v) \o (last \o r \o ends) = ((u \o v) \o last) \o r \o ends
      <4> DEFINE y == u \o v
      <4>1. y \in Seq(NodeByte) /\ last \in Seq(NodeByte) /\ r \in Seq(NodeByte) /\ ends \in Seq(NodeByte)
        BY ONLY <1>7, <2>3, <3>1
      <4> HIDE DEF y, r, ends
      <4>2. y \o (last \o r \o ends) = (y \o last) \o r \o ends
        <5>1. last \o r \in Seq(NodeByte)
          BY ONLY <4>1, NodeBytesJoin
        <5>2. Associate(y, last, r)
          BY ONLY <4>1, NodeBytesAssociate
        <5>3. Associate(y, last \o r, ends)
          BY ONLY <4>1, <5>1, NodeBytesAssociate
        <5> QED BY ONLY <5>2, <5>3 DEF Associate
      <4> QED BY ONLY <4>2 DEF y
    <3>3. (u \o v) \o last = u \o (v \o last)
      <4>1. Associate(u, v, last)
        BY ONLY <2>2, last \in Seq(NodeByte), NodeBytesAssociate
      <4> QED BY ONLY <4>1 DEF Associate
    <3>4. v \o last = w
      BY ONLY <1>7 DEF v, w
    <3> QED BY ONLY <3>2, <3>3, <3>4
  <2>6. Tree!FinalNode(s, c) = Tree!Node(((u \o w) \o r) \o ends, 6)
    <3>1. Tree!Chunks(s) - 1 = n /\ n # 0
      BY ONLY <1>7
    <3> HIDE DEF s, c
    <3> QED BY ONLY <3>1 DEF Tree!FinalNode, u, w, r, ends
  <2>7. finalNode'.suffix = 6
    BY ONLY <2>4, NodesAre
  <2> QED BY ONLY <2>4, <2>5, <2>6, <2>7
<1>8. CASE b # 0 /\ q = 0
  <2>1. Len(s) = b * ChunkSize + q
    BY ONLY <1>5, <1>8 DEF Accounted
  <2>2. Len(s) > ChunkSize
    BY <1>2, <1>8 DEF MoreThanAChunk
  <2>3. b - 1 \in Nat \ {0}
    <3> SUFFICES ASSUME b = 1 PROVE FALSE
      BY <1>2, <1>8
    <3>1. 1 * ChunkSize + 0 = ChunkSize
      BY ChunkType
    <3> HIDE DEF s, b, q
    <3> QED BY ONLY <1>2, <1>8, <2>1, <2>2, <3>1, b = 1, ChunkType
  <2>4. Tree!Chunks(s) = (b - 1) + 1
    <3>1. ChunkSize \in 1 .. ChunkSize /\ b - 1 \in Nat
      BY ChunkType, <2>3
    <3>2. b * ChunkSize + q = (b - 1) * ChunkSize + ChunkSize
      BY <1>2, <1>8, ChunkType
    <3>3. Len(s) = (b - 1) * ChunkSize + ChunkSize
      BY ONLY <2>1, <3>2
    <3> DEFINE m == b - 1
    <3>4. m \in Nat /\ Len(s) = m * ChunkSize + ChunkSize
      BY ONLY <3>1, <3>3
    <3> HIDE DEF s, m
    <3>5. Tree!Chunks(s) = m + 1
      BY ONLY <1>2, <3>1, <3>4, ChunksOf
    <3> QED BY ONLY <3>5 DEF m
  <2>5. finalNode' = End(Absorb(finalNode, <<>> \o Tree!RightEncode(b - 1) \o ends), 6)
    <3>1. ~QueueHoldsLeaf
      BY <1>8 DEF QueueHoldsLeaf
    <3> QED BY <1>1, <1>8, <3>1 DEF Finish
  <2>6. Tree!ChainingValues(s, b - 1, c) \o <<>> = Tree!ChainingValues(s, b - 1, c)
    <3>1. b \in Nat \ {0}
      BY <1>2, <1>8
    <3>2. Tree!ChainingValues(s, b - 1, c) \in Seq(NodeByte)
      <4> HIDE DEF s, b, q, c
      <4>1. c = capacityInBytes
        BY DEF c
      <4> QED BY ONLY <1>2, <2>1, <3>1, <4>1, LastLeaf
    <3> HIDE DEF s, b, c
    <3> QED BY ONLY <3>2, ConcatEmptySeq
  <2>7. <<>> \in Seq(NodeByte)
    OBVIOUS
  <2> HIDE DEF s, c, b, q, ends
  <2> QED BY ONLY <1>3, <1>7, <1>8, <2>3, <2>4, <2>5, <2>6, <2>7 DEF c
<1>9. CASE b # 0 /\ q # 0
  <2> DEFINE last == ChainingValue(Tree!Node(Tree!Chunk(s, b), 0))
  <2>1. Len(s) = b * ChunkSize + q /\ queueNode = Tree!Node(Tree!Chunk(s, b), 0)
    BY ONLY <1>5, <1>9 DEF Accounted
  <2>2. b \in Nat \ {0} /\ q \in 1 .. ChunkSize
    BY <1>2, <1>9, ChunkType
  <2>3. Tree!Chunks(s) = b + 1
    <3> HIDE DEF s, b, q
    <3> QED BY ONLY <1>2, <2>1, <2>2, ChunksOf
  <2>4. finalNode' = End(Absorb(finalNode, last \o Tree!RightEncode(b) \o ends), 6)
    <3>1. QueueHoldsLeaf
      BY <1>9 DEF QueueHoldsLeaf
    <3>2. finalNode' = End(Absorb(finalNode, ChainingValue(queueNode) \o Tree!RightEncode(b) \o ends), 6)
      BY <1>1, <1>9, <3>1 DEF Finish
    <3> HIDE DEF ends
    <3> QED BY ONLY <2>1, <3>2
  <2>5. last \in Seq(NodeByte) /\ Tree!ChainingValues(s, b - 1, c) \o last = Tree!ChainingValues(s, b, c)
    <3> HIDE DEF s, b, q, c
    <3>1. c = capacityInBytes
      BY DEF c
    <3> QED BY ONLY <1>2, <2>1, <2>2, <3>1, LastLeaf
  <2> HIDE DEF s, c, b, q, ends, last
  <2> QED BY ONLY <1>3, <1>7, <1>9, <2>2, <2>3, <2>4, <2>5 DEF c
<1> QED BY ONLY <1>6, <1>8, <1>9

-----------------------------------------------------------------------------
(* Every step is a step of the tree, or none.                              *)

\* What the instance is to TreeHash.
Level == IF phase = "NOT_INITIALIZED" THEN 0 ELSE capacityInBytes
Result == IF phase \in {"FINAL", "SQUEEZING"} THEN finalNode ELSE [bytes |-> <<>>, suffix |-> 0]

\* A call in progress, or one that begins, changes nothing of it.
LEMMA Stutters ==
  ASSUME phase = "ABSORBING" \/ finalNode' = finalNode,
         UNCHANGED <<phase, securityLevel, fixedOutputLength, message, given>>
  PROVE  UNCHANGED Tree!hash
<1>1. UNCHANGED <<Level, fixedOutputLength, message, Result, given>>
  BY DEF Level, Result, capacityInBytes
<1> QED BY <1>1 DEF Tree!hash, Level, Result

LEMMA InitializeOpens ==
  ASSUME NEW l \in Levels, NEW n \in Nat, KangarooTwelve_Initialize(l, n)
  PROVE  Tree!Open
<1>1. /\ phase' = "ABSORBING" /\ securityLevel' = l /\ fixedOutputLength' = n
      /\ message' = 0 /\ given' = 0
  BY DEF KangarooTwelve_Initialize
<1>2. 2 * l \in Nat \ {0}
  <2>1. l \in Nat \ {0}
    BY KangarooTwelveAssumption
  <2> QED BY <2>1
<1>3. Level' = 2 * l /\ Result' = [bytes |-> <<>>, suffix |-> 0]
  BY <1>1 DEF Level, Result, capacityInBytes
<1>4. Level' \in Nat \ {0} /\ fixedOutputLength' \in Nat /\ message' = 0
      /\ Result' = [bytes |-> <<>>, suffix |-> 0] /\ given' = 0
  BY ONLY <1>1, <1>2, <1>3, n \in Nat
<1> QED BY <1>4 DEF Tree!Open, Tree!NoResult, Tree!Node, Level, Result

LEMMA UpdateReceives ==
  ASSUME IInv, NEW n \in Nat, KangarooTwelve_Update(n)
  PROVE  Tree!Receive \/ UNCHANGED Tree!hash
<1>1. /\ phase = "ABSORBING" /\ message' = message + n
      /\ UNCHANGED <<phase, securityLevel, fixedOutputLength, given, finalNode>>
  BY DEF KangarooTwelve_Update, instance, nodes
<1>2. message \in Nat /\ capacityInBytes \in Nat \ {0}
  BY <1>1, CapacityType DEF IInv
<1>3. CASE n = 0
  <2>1. message' = message
    BY <1>1, <1>2, <1>3
  <2> QED BY ONLY <1>1, <2>1, Stutters
<1>4. CASE n # 0
  <2>1. message' > message
    BY <1>1, <1>2, <1>4
  <2>2. Level # 0 /\ Result = [bytes |-> <<>>, suffix |-> 0] /\ UNCHANGED <<Level, Result>>
    BY <1>1, <1>2 DEF Level, Result, capacityInBytes
  <2>3. /\ Level # 0 /\ Result = [bytes |-> <<>>, suffix |-> 0] /\ message' > message
        /\ UNCHANGED <<Level, fixedOutputLength, Result, given>>
    BY ONLY <1>1, <2>1, <2>2
  <2> QED BY <2>3 DEF Tree!Receive, Tree!NoResult, Tree!Node, Level, Result
<1> QED BY <1>3, <1>4

LEMMA FinishFinishes ==
  ASSUME IInv, MoreThanAChunk, Finish
  PROVE  Tree!Finish(custom) /\ custom \in 0 .. MaxCustom
<1>1. call # Idle /\ CanAbsorb(finalNode)
      /\ (blockNumber # 0 /\ QueueHoldsLeaf => CanAbsorb(queueNode))
  BY FinishTakes
<1>2. phase = "ABSORBING" /\ capacityInBytes \in Nat \ {0} /\ custom \in 0 .. MaxCustom
  BY <1>1, Running DEF IInv
<1>3. /\ phase' \in {"FINAL", "SQUEEZING"} /\ given' = fixedOutputLength
      /\ UNCHANGED <<fixedOutputLength, securityLevel, message>>
  BY <1>1 DEF Finish
<1>4. finalNode' = Tree!FinalNode(Tree!Input(message, custom), capacityInBytes)
  BY FinishMakesTheTree
<1>5. Level = capacityInBytes /\ Level' = capacityInBytes /\ Result = [bytes |-> <<>>, suffix |-> 0]
      /\ Result' = finalNode'
  BY <1>2, <1>3 DEF Level, Result, capacityInBytes
<1>6. /\ Level # 0 /\ Result = [bytes |-> <<>>, suffix |-> 0]
      /\ Result' = Tree!FinalNode(Tree!Input(message, custom), Level)
      /\ given' = fixedOutputLength
      /\ UNCHANGED <<Level, fixedOutputLength, message>>
  <2>1. 0 \notin Nat \ {0}
    OBVIOUS
  <2> QED BY ONLY <1>2, <1>3, <1>4, <1>5, <2>1
<1>7. Tree!Finish(custom)
  <2>1. [bytes |-> <<>>, suffix |-> 0] = Tree!NoResult
    BY DEF Tree!NoResult, Tree!Node
  <2> QED BY ONLY <1>6, <2>1 DEF Tree!Finish, Level, Result
<1> QED BY <1>2, <1>7

LEMMA SqueezeGives ==
  ASSUME IInv, NEW n \in 1 .. MaxOutput, KangarooTwelve_Squeeze(n)
  PROVE  Tree!Give
<1>1. /\ phase = "SQUEEZING" /\ given' = given + n
      /\ UNCHANGED <<phase, finalNode, securityLevel, fixedOutputLength, message>>
  BY DEF KangarooTwelve_Squeeze, instance, nodes
<1>2. fixedOutputLength = 0 /\ given \in Nat /\ finalNode.suffix \in {6, 7}
  BY <1>1 DEF IInv
<1>3. given' > given
  <2>1. n \in Nat /\ n > 0
    BY KangarooTwelveAssumption
  <2> QED BY ONLY <1>1, <1>2, <2>1
<1>4. Result = finalNode /\ UNCHANGED <<Level, Result>>
  BY <1>1 DEF Level, Result, capacityInBytes
<1>5. Result # [bytes |-> <<>>, suffix |-> 0]
  BY <1>2, <1>4
<1>6. /\ Result # [bytes |-> <<>>, suffix |-> 0] /\ fixedOutputLength = 0 /\ given' > given
      /\ UNCHANGED <<Level, fixedOutputLength, message, Result>>
  BY ONLY <1>1, <1>2, <1>3, <1>4, <1>5
<1> QED BY <1>6 DEF Tree!Give, Tree!NoResult, Tree!Node, Level, Result

LEMMA StepImplements ==
  ASSUME IInv, MoreThanAChunk, [Next]_vars
  PROVE  [Tree!Next]_Tree!hash
<1>1. ASSUME NEW l \in Levels, NEW n \in 0 .. MaxOutput, KangarooTwelve_Initialize(l, n)
      PROVE  Tree!Next
  <2>1. n \in Nat
    BY KangarooTwelveAssumption
  <2>2. Tree!Open
    BY ONLY <1>1, <2>1, InitializeOpens
  <2> QED BY ONLY <2>2 DEF Tree!Next
<1>2. ASSUME NEW n \in 0 .. MaxMessage, KangarooTwelve_Update(n)
      PROVE  [Tree!Next]_Tree!hash
  <2>1. n \in Nat
    BY KangarooTwelveAssumption
  <2>2. Tree!Receive \/ UNCHANGED Tree!hash
    BY ONLY IInv, <1>2, <2>1, UpdateReceives
  <2> QED BY ONLY <2>2 DEF Tree!Next
<1>3. ASSUME NEW c \in 0 .. MaxCustom, KangarooTwelve_Final(c)
      PROVE  UNCHANGED Tree!hash
  <2>1. /\ phase = "ABSORBING"
        /\ UNCHANGED <<phase, securityLevel, fixedOutputLength, message, given>>
    BY <1>3 DEF KangarooTwelve_Final, instance
  <2> QED BY ONLY <2>1, Stutters
<1>4. ASSUME NEW n \in 1 .. MaxOutput, KangarooTwelve_Squeeze(n)
      PROVE  Tree!Next
  <2>1. Tree!Give
    BY ONLY IInv, <1>4, SqueezeGives
  <2> QED BY ONLY <2>1 DEF Tree!Next
<1>5. ASSUME call # Idle, UNCHANGED <<phase, securityLevel, fixedOutputLength, message, given>>
      PROVE  UNCHANGED Tree!hash
  <2>1. phase = "ABSORBING"
    BY <1>5, Running
  <2> QED BY ONLY <1>5, <2>1, Stutters
<1>6. CASE FillFirstChunk
  <2>1. call # Idle /\ UNCHANGED <<phase, securityLevel, fixedOutputLength, message, given>>
    BY <1>6 DEF FillFirstChunk, Refuse, Idle, instance, history
  <2> QED BY ONLY <1>5, <2>1
<1>7. CASE FillQueue
  <2>1. call # Idle /\ UNCHANGED <<phase, securityLevel, fixedOutputLength, message, given>>
    BY <1>7 DEF FillQueue, Refuse, Idle, instance, history
  <2> QED BY ONLY <1>5, <2>1
<1>8. ASSUME NEW p \in Parallelism, HashLeaves(p)
      PROVE  UNCHANGED Tree!hash
  <2>1. call # Idle /\ UNCHANGED <<phase, securityLevel, fixedOutputLength, message, given>>
    BY <1>8 DEF HashLeaves, Refuse, Idle, instance, history
  <2> QED BY ONLY <1>5, <2>1
<1>9. CASE HashLeaf
  <2>1. call # Idle /\ UNCHANGED <<phase, securityLevel, fixedOutputLength, message, given>>
    BY <1>9 DEF HashLeaf, Refuse, Idle, instance, history
  <2> QED BY ONLY <1>5, <2>1
<1>10. CASE UpdateReturns
  <2>1. call # Idle /\ UNCHANGED <<phase, securityLevel, fixedOutputLength, message, given>>
    BY <1>10 DEF UpdateReturns, Idle, instance, history
  <2> QED BY ONLY <1>5, <2>1
<1>11. CASE CustomTaken
  <2>1. call # Idle /\ UNCHANGED <<phase, securityLevel, fixedOutputLength, message, given>>
    BY <1>11 DEF CustomTaken, Idle, instance
  <2> QED BY ONLY <1>5, <2>1
<1>12. CASE Finish
  <2>1. Tree!Finish(custom) /\ custom \in 0 .. MaxCustom
    BY ONLY IInv, MoreThanAChunk, <1>12, FinishFinishes
  <2> QED BY ONLY <2>1 DEF Tree!Next
<1>13. CASE UNCHANGED vars
  <2>1. finalNode' = finalNode
        /\ UNCHANGED <<phase, securityLevel, fixedOutputLength, message, given>>
    BY <1>13 DEF vars, instance, history, nodes
  <2> QED BY ONLY <2>1, Stutters
<1> QED BY ONLY <1>1, <1>2, <1>3, <1>4, <1>6, <1>7, <1>8, <1>9, <1>10, <1>11, <1>12, <1>13,
                [Next]_vars DEF Next, Step

\* KangarooTwelve.c implements TreeHash: whatever the pieces the message comes
\* in and the leaves hashed at once, the final node is that of the tree of the
\* whole input, and only as many bytes of its output are given as were asked for.
THEOREM TreeHashIsImplemented == Spec => ImplementsTreeHash
<1>1. Init => Tree!Init
  BY DEF Init, Tree!Init, Tree!NoResult, Tree!Node
<1>2. IInv /\ MoreThanAChunk /\ [Next]_vars => [Tree!Next]_Tree!hash
  BY StepImplements
<1> QED BY <1>1, <1>2, Invariant, FirstChunkIsFollowed, PTL DEF Spec, Tree!Spec, ImplementsTreeHash

===============================================================================
