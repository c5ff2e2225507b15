--------------------------- MODULE UpperDeckProofs --------------------------
(***************************************************************************)
(* For every block size, key, string and way to cut the output in calls,   *)
(* one deck or many, and whatever the callers do: no assertion fails but   *)
(* the two that UpperDeck names, no remainder by 0 is taken, and the bytes *)
(* given out are the stream of the deck, in order and without a gap,       *)
(* unless the deck was cloned from one past the first block of its stream. *)
(***************************************************************************)
EXTENDS UpperDeck, SequenceTheorems, WellFoundedInduction, TLAPS

IsSeq(s) == \E S : s \in Seq(S)

\* An object with blocks of Rho bytes.
OD(o, s) == [rho |-> Rho, o |-> o, s |-> s]

\* The state that n empty blocks after state s lead to.
EmptyBlock == <<Padded(Rho, <<>>), OD_Concat(2, 0)>>
EmptyBlocks(n) == [i \in 1 .. n |-> EmptyBlock]
Onward(s, n) == s \o EmptyBlocks(n)

\* A deck that has been initialized.
Opened(u) ==
  /\ u = [D |-> OD(u.D.o, u.D.s), Dsqueeze |-> u.Dsqueeze, o |-> u.o]
  /\ u.D.o \in 0 .. Rho /\ IsSeq(u.D.s)

\* The stream has come to block k, counted from 0, which Dsqueeze gives; if it
\* is the first one, D has given all of it.
InBlock(u, k) ==
  /\ Rho <= u.o /\ k * Rho < u.o /\ u.o <= (k + 1) * Rho
  /\ u.Dsqueeze = OD(u.o - k * Rho, Onward(u.D.s, k))

\* The bytes given are those up to the offset o, the first Rho of them from D,
\* the others, also what a call has begun, from Dsqueeze.
Placed(u, n, begun) ==
  /\ u.o = n /\ n \in Nat
  /\ u.o <= Rho => u.D.o = u.o
  /\ u.o > Rho \/ begun => \E k \in Nat : InBlock(u, k)

InOrder(u, str) ==
  /\ IsSeq(str)
  /\ \A i \in 1 .. Len(str) : str[i].z = StreamByte(u.D, i - 1) /\ str[i].y = i - 1

\* A deck that was cloned past the first block has a Dsqueeze, the wrong one.
Strayed(u) ==
  /\ u.o \in Nat /\ u.o > Rho
  /\ u.Dsqueeze = OD(u.Dsqueeze.o, u.Dsqueeze.s)

Streaming(u, str) == InOrder(u, str) /\ (u.o = NoOffset \/ Placed(u, Len(str), FALSE))

DeckInv(d) ==
  \/ deck[d] = NoDeck /\ stream[d] = <<>> /\ d \notin astray
  \/ /\ Opened(deck[d])
     /\ d \in astray => Strayed(deck[d])
     /\ d \notin astray => Streaming(deck[d], stream[d])

\* A call that is running.
CallInv ==
  call # Idle =>
    /\ call = [in |-> call.in, left |-> call.left, add |-> call.add, begun |-> call.begun]
    /\ call.in \in Decks /\ call.left \in Nat \ {0} /\ call.begun \in BOOLEAN
    /\ Opened(deck[call.in])
    /\ call.in \notin astray =>
         /\ call.add \in {NoAdd, Len(stream[call.in])}
         /\ Placed(deck[call.in], Len(stream[call.in]), call.begun)

IInv ==
  /\ DOMAIN deck = Decks /\ DOMAIN stream = Decks
  /\ \A d \in Decks : DeckInv(d)
  /\ CallInv
  /\ OnlyKnownFailures

-----------------------------------------------------------------------------
(* Sequences of anything.                                                  *)

LEMMA Lengths ==
  ASSUME NEW s, IsSeq(s)
  PROVE  Len(s) \in Nat /\ DOMAIN s = 1 .. Len(s)
<1>1. PICK S : s \in Seq(S)
  BY DEF IsSeq
<1> QED BY <1>1, LenProperties

LEMMA Joined ==
  ASSUME NEW s, IsSeq(s), NEW t, IsSeq(t)
  PROVE  /\ IsSeq(s \o t) /\ Len(s \o t) = Len(s) + Len(t)
         /\ \A i \in 1 .. Len(s) + Len(t) :
              (s \o t)[i] = IF i <= Len(s) THEN s[i] ELSE t[i - Len(s)]
<1>1. PICK S : s \in Seq(S)
  BY DEF IsSeq
<1>2. PICK T : t \in Seq(T)
  BY DEF IsSeq
<1> DEFINE U == S \cup T
<1>3. s \in Seq(U) /\ t \in Seq(U)
  BY <1>1, <1>2, SeqMonotonic
<1> HIDE DEF U
<1> QED BY <1>3, ConcatProperties DEF IsSeq

LEMMA JoinedTwice ==
  ASSUME NEW s, IsSeq(s), NEW t, IsSeq(t), NEW u, IsSeq(u)
  PROVE  (s \o t) \o u = s \o (t \o u)
<1>1. PICK S : s \in Seq(S)
  BY DEF IsSeq
<1>2. PICK T : t \in Seq(T)
  BY DEF IsSeq
<1>3. PICK V : u \in Seq(V)
  BY DEF IsSeq
<1> DEFINE U == (S \cup T) \cup V
<1>4. s \in Seq(U) /\ t \in Seq(U) /\ u \in Seq(U)
  BY <1>1, <1>2, <1>3, SeqMonotonic
<1> HIDE DEF U
<1> QED BY <1>4, ConcatAssociative, SMTT(30)

LEMMA Extended ==
  ASSUME NEW s, IsSeq(s), NEW e
  PROVE  IsSeq(Append(s, e)) /\ Append(s, e) = s \o <<e>> /\ IsSeq(<<e>>)
<1>1. PICK S : s \in Seq(S)
  BY DEF IsSeq
<1> DEFINE U == S \cup {e}
<1>2. s \in Seq(U) /\ e \in U /\ <<e>> \in Seq(U)
  BY <1>1, SeqMonotonic
<1> HIDE DEF U
<1> QED BY <1>2, AppendProperties, AppendIsConcat DEF IsSeq

-----------------------------------------------------------------------------
(* Blocks of the stream.                                                   *)

LEMMA RhoType == Rho \in Nat \ {0}
BY UpperDeckAssumption

LEMMA EmptyBlocksAre ==
  ASSUME NEW n \in Nat
  PROVE  IsSeq(EmptyBlocks(n)) /\ Len(EmptyBlocks(n)) = n
         /\ \A i \in 1 .. n : EmptyBlocks(n)[i] = EmptyBlock
<1> DEFINE b == EmptyBlock
<1> HIDE DEF b
<1>1. [i \in 1 .. n |-> b] \in [1 .. n -> {b}]
  OBVIOUS
<1>2. [i \in 1 .. n |-> b] \in Seq({b}) /\ Len([i \in 1 .. n |-> b]) = n
  BY <1>1
<1> QED BY <1>2 DEF EmptyBlocks, IsSeq, b

LEMMA OnwardIs ==
  ASSUME NEW s, IsSeq(s), NEW n \in Nat
  PROVE  IsSeq(Onward(s, n))
BY EmptyBlocksAre, Joined DEF Onward

LEMMA OnwardNowhere ==
  ASSUME NEW s, IsSeq(s)
  PROVE  Onward(s, 0) = s
<1>1. EmptyBlocks(0) = <<>>
  BY DEF EmptyBlocks
<1>2. PICK S : s \in Seq(S)
  BY DEF IsSeq
<1> QED BY <1>1, <1>2, ConcatEmptySeq DEF Onward

\* A blocks and b blocks more are a + b blocks.
LEMMA OnwardTwice ==
  ASSUME NEW s, IsSeq(s), NEW a \in Nat, NEW b \in Nat
  PROVE  Onward(Onward(s, a), b) = Onward(s, a + b)
<1>1. /\ IsSeq(EmptyBlocks(a)) /\ Len(EmptyBlocks(a)) = a
      /\ IsSeq(EmptyBlocks(b)) /\ Len(EmptyBlocks(b)) = b
  BY EmptyBlocksAre
<1>2. EmptyBlocks(a) \o EmptyBlocks(b) = EmptyBlocks(a + b)
  <2> DEFINE t == EmptyBlocks(a) \o EmptyBlocks(b)
             v == EmptyBlocks(a + b)
             c == EmptyBlock
  <2>1. /\ IsSeq(t) /\ Len(t) = a + b
        /\ \A i \in 1 .. a + b :
             t[i] = IF i <= a THEN EmptyBlocks(a)[i] ELSE EmptyBlocks(b)[i - a]
    BY ONLY <1>1, Joined, ZenonT(40)
  <2>2. IsSeq(v) /\ Len(v) = a + b /\ \A i \in 1 .. a + b : v[i] = c
    BY EmptyBlocksAre
  <2>0. /\ \A i \in 1 .. a : EmptyBlocks(a)[i] = c
        /\ \A i \in 1 .. b : EmptyBlocks(b)[i] = c
    BY EmptyBlocksAre
  <2> HIDE DEF t, v, c
  <2>3. \A i \in 1 .. a + b : t[i] = c
    <3> TAKE i \in 1 .. a + b
    <3>1. CASE i <= a
      <4>1. i \in 1 .. a
        BY <3>1
      <4> QED BY <2>0, <2>1, <4>1
    <3>2. CASE ~(i <= a)
      <4>1. i - a \in 1 .. b
        BY <3>2
      <4> QED BY <2>0, <2>1, <3>2, <4>1
    <3> QED BY <3>1, <3>2
  <2>4. PICK S : t \in Seq(S)
    BY <2>1 DEF IsSeq
  <2>5. PICK T : v \in Seq(T)
    BY <2>2 DEF IsSeq
  <2>6. t \in Seq(S \cup T) /\ v \in Seq(S \cup T)
    BY <2>4, <2>5, SeqMonotonic
  <2>7. t = v
    BY <2>1, <2>2, <2>3, <2>6, SeqEqual
  <2> QED BY <2>7 DEF t, v
<1>3. (s \o EmptyBlocks(a)) \o EmptyBlocks(b) = s \o (EmptyBlocks(a) \o EmptyBlocks(b))
  BY ONLY <1>1, IsSeq(s), JoinedTwice, SMTT(30)
<1> QED BY <1>2, <1>3 DEF Onward

\* Padding is not output of an earlier state.
LEMMA PaddingAbsorbed ==
  ASSUME NEW s
  PROVE  Absorbed(s, Padded(Rho, <<>>)) = Padded(Rho, <<>>)
<1> DEFINE x == Padded(Rho, <<>>)
           f(t) == Backward(s, t)
<1>1. DOMAIN x = 1 .. Rho /\ x = [i \in 1 .. Rho |-> x[i]]
  BY DEF Padded
<1>2. \A i \in 1 .. Rho : x[i] = One \/ x[i] = Zero
  BY RhoType DEF Padded
<1>3. Len(<<1>>) = 1
  OBVIOUS
<1>4. ASSUME NEW i \in 1 .. Rho PROVE {f(t) : t \in x[i]} = x[i]
  <2>1. f(<<1>>) = <<1>>
    BY <1>3 DEF Backward
  <2> HIDE DEF f
  <2> QED BY <1>2, <2>1 DEF One, Zero
<1>5. Absorbed(s, x) = [i \in DOMAIN x |-> {f(t) : t \in x[i]}]
  BY DEF Absorbed
<1> HIDE DEF x, f
<1>6. Absorbed(s, x) = x
  BY <1>1, <1>4, <1>5
<1> QED BY <1>6 DEF x

LEMMA EmptyAfter ==
  ASSUME NEW s, IsSeq(s), NEW o
  PROVE  After(OD(o, s), <<>>, 2) = Onward(s, 1)
<1>1. Len(<<>>) # Rho
  BY RhoType
<1>2. After(OD(o, s), <<>>, 2) = Append(s, EmptyBlock)
  BY <1>1, PaddingAbsorbed DEF After, OD, EmptyBlock
<1> DEFINE b == EmptyBlock
<1>3. [i \in 1 .. 1 |-> b] = <<b>>
  OBVIOUS
<1>4. Onward(s, 1) = s \o <<b>>
  BY <1>3 DEF Onward, EmptyBlocks
<1> HIDE DEF b
<1>5. Append(s, b) = s \o <<b>>
  BY Extended
<1> QED BY <1>2, <1>4, <1>5 DEF b

LEMMA BlocksGiven ==
  ASSUME NEW s, IsSeq(s), NEW o, NEW n \in Nat
  PROVE  OD_DuplexingFastOnlyOut(OD(o, s), 2, n) = OD(IF n = 0 THEN o ELSE Rho, Onward(s, n))
<1>1. CASE n = 0
  BY <1>1, OnwardNowhere DEF OD_DuplexingFastOnlyOut
<1>2. CASE n # 0
  BY <1>2 DEF OD_DuplexingFastOnlyOut, OD, Onward, EmptyBlocks, EmptyBlock
<1> QED BY <1>1, <1>2

LEMMA ODFields ==
  \A o, s : OD(o, s).rho = Rho /\ OD(o, s).o = o /\ OD(o, s).s = s
BY DEF OD

LEMMA DivModUnique ==
  ASSUME NEW r \in Nat \ {0}, NEW q \in Nat, NEW p \in 0 .. r - 1
  PROVE  (q * r + p) \div r = q /\ (q * r + p) % r = p
BY SMT

LEMMA DivMod ==
  ASSUME NEW r \in Nat \ {0}, NEW k \in Nat, NEW i \in Nat, k * r <= i, i < (k + 1) * r
  PROVE  i \div r = k /\ i % r = i - k * r
<1> DEFINE p == i - k * r
<1>1. k * r \in Nat /\ (k + 1) * r = k * r + r
  BY SMT
<1>2. p \in 0 .. r - 1 /\ i = k * r + p
  BY <1>1
<1> HIDE DEF p
<1>3. i \div r = k /\ i % r = p
  BY <1>2, DivModUnique
<1> QED BY <1>3 DEF p

LEMMA Quotients ==
  ASSUME NEW r \in Nat \ {0}, NEW i \in Nat
  PROVE  /\ i \div r \in Nat /\ i % r \in 0 .. r - 1 /\ i = (i \div r) * r + (i % r)
BY SMT

LEMMA StreamByteIs ==
  ASSUME NEW s, IsSeq(s), NEW o, NEW k \in Nat, NEW i \in Nat, k * Rho <= i, i < (k + 1) * Rho
  PROVE  StreamByte(OD(o, s), i) = {<<Onward(s, k), i - k * Rho>>}
<1>1. i \div Rho = k /\ i % Rho = i - k * Rho
  BY RhoType, DivMod
<1>2. OD_DuplexingFastOnlyOut(OD(o, s), 2, k).s = Onward(s, k)
  BY BlocksGiven, ODFields
<1>3. OD(o, s).rho = Rho
  BY ODFields
<1> QED BY <1>1, <1>2, <1>3 DEF StreamByte

LEMMA StreamByteStays ==
  ASSUME NEW s, IsSeq(s), NEW o, NEW p, NEW i \in Nat
  PROVE  StreamByte(OD(o, s), i) = StreamByte(OD(p, s), i)
<1>1. i \div Rho \in Nat
  BY RhoType, Quotients
<1>2. /\ OD_DuplexingFastOnlyOut(OD(o, s), 2, i \div Rho).s = Onward(s, i \div Rho)
      /\ OD_DuplexingFastOnlyOut(OD(p, s), 2, i \div Rho).s = Onward(s, i \div Rho)
  BY <1>1, BlocksGiven, ODFields
<1>3. OD(o, s).rho = Rho /\ OD(p, s).rho = Rho
  BY ODFields
<1> QED BY <1>2, <1>3 DEF StreamByte

-----------------------------------------------------------------------------
(* Strings and their trailers.                                             *)

LEMMA TrailerFits ==
  ASSUME NEW E \in 1 .. 31
  PROVE  OD_Concat(E, 1) \in 1 .. 63
<1>0. 2^0 = 1 /\ 2^1 = 2 /\ 2^2 = 4 /\ 2^3 = 8 /\ 2^4 = 16 /\ 2^5 = 32 /\ 2^6 = 64 /\ 2^7 = 128
  BY SMT
<1> DEFINE P == {2 ^ i : i \in 0 .. 7}
<1>1. 1 \in P /\ 2 \in P /\ 4 \in P /\ 8 \in P /\ 16 \in P
  BY <1>0
<1>2. \A t \in P : t \in Nat /\ (t <= 31 => t <= 16)
  <2> TAKE t \in P
  <2>1. PICK i \in 0 .. 7 : t = 2 ^ i
    OBVIOUS
  <2>2. i = 0 \/ i = 1 \/ i = 2 \/ i = 3 \/ i = 4 \/ i = 5 \/ i = 6 \/ i = 7
    BY <2>1
  <2> QED BY <1>0, <2>1, <2>2
<1> HIDE DEF P
<1>3. \E t \in P : t <= E /\ E < 2 * t
  <2>1. CASE E < 2
    BY <1>1, <2>1
  <2>2. CASE E >= 2 /\ E < 4
    BY <1>1, <2>2
  <2>3. CASE E >= 4 /\ E < 8
    BY <1>1, <2>3
  <2>4. CASE E >= 8 /\ E < 16
    BY <1>1, <2>4
  <2>5. CASE E >= 16
    BY <1>1, <2>5
  <2> QED BY <2>1, <2>2, <2>3, <2>4, <2>5
<1>4. Top(E) \in P /\ Top(E) <= E
  BY <1>3 DEF Top, P
<1>5. OD_Concat(E, 1) = E + Top(E) * 2
  BY <1>0 DEF OD_Concat
<1>6. Top(E) \in Nat /\ Top(E) <= 16
  BY <1>2, <1>4
<1> QED BY <1>5, <1>6

\* The last block of a string is at most a block.
LEMMA LastBlockFits ==
  ASSUME NEW X, IsSeq(X), NEW o, NEW s
  PROVE  Len(LastBlock(OD(o, s), X)) <= Rho
<1>1. Len(X) \in Nat /\ OD(o, s).rho = Rho
  BY Lengths, ODFields
<1>2. CASE Len(X) > Rho
  <2> DEFINE n == (Len(X) - 1) \div Rho
  <2>1. n \in Nat /\ n * Rho <= Len(X) - 1 /\ Len(X) - 1 < n * Rho + Rho
    <3> DEFINE l == Len(X) - 1
    <3>1. l \in Nat
      BY <1>1, <1>2, RhoType
    <3> HIDE DEF l
    <3>2. l \div Rho \in Nat /\ l % Rho \in 0 .. Rho - 1 /\ l = (l \div Rho) * Rho + (l % Rho)
      BY <3>1, RhoType, Quotients
    <3> DEFINE q == l \div Rho
               p == q * Rho
    <3>3. q \in Nat /\ p \in Nat
      BY <3>2, RhoType
    <3> HIDE DEF q
    <3>4. l = p + (l % Rho)
      BY <3>2 DEF q
    <3> HIDE DEF p
    <3>5. p <= l /\ l < p + Rho
      BY <3>1, <3>2, <3>3, <3>4, RhoType
    <3> QED BY <3>3, <3>5 DEF p, q, l
  <2>2. LastBlock(OD(o, s), X) = SubSeq(X, n * Rho + 1, Len(X))
    BY <1>1, <1>2 DEF LastBlock, BlocksButLast
  <2> HIDE DEF n
  <2>3. n * Rho \in Nat
    BY <2>1, RhoType
  <2>4. PICK S : X \in Seq(S)
    BY DEF IsSeq
  <2> DEFINE m == n * Rho + 1
  <2>5. m \in Int /\ m >= 1 /\ m <= Len(X) /\ Len(X) - m + 1 <= Rho
    BY <1>1, <2>1, <2>3, RhoType
  <2> HIDE DEF m
  <2>6. \A i \in m .. Len(X) : X[i] \in S
    BY <1>1, <2>4, <2>5, ElementOfSeq
  <2>7. Len(SubSeq(X, m, Len(X))) = Len(X) - m + 1
    BY <1>1, <2>5, <2>6, SubSeqProperties
  <2> QED BY <2>2, <2>5, <2>7 DEF m
<1>3. CASE ~(Len(X) > Rho)
  BY <1>1, <1>3, RhoType DEF LastBlock
<1> QED BY <1>2, <1>3

LEMMA BlocksTaken ==
  ASSUME NEW X, IsSeq(X), NEW o, NEW s, IsSeq(s)
  PROVE  \E p, t : AfterFirstBlocks(OD(o, s), X) = OD(p, t) /\ IsSeq(t)
<1>1. CASE Len(X) > OD(o, s).rho
  <2> DEFINE n == BlocksButLast(OD(o, s), Len(X))
             b == [i \in 1 .. n |->
                     <<Absorbed(s, SubSeq(X, (i - 1) * Rho + 1, i * Rho)), OD_Concat(2, 1)>>]
  <2>1. AfterFirstBlocks(OD(o, s), X) = OD(0, s \o b)
    BY <1>1 DEF AfterFirstBlocks, OD_DuplexingFastOnlyIn, OD
  <2>2. n \in Nat
    <3>1. Len(X) - 1 \in Nat
      BY <1>1, Lengths, RhoType, ODFields
    <3>2. n = (Len(X) - 1) \div Rho
      BY ODFields DEF BlocksButLast
    <3> HIDE DEF n
    <3> QED BY <3>1, <3>2, RhoType, Quotients
  <2>3. IsSeq(b)
    <3> DEFINE e(i) == <<Absorbed(s, SubSeq(X, (i - 1) * Rho + 1, i * Rho)), OD_Concat(2, 1)>>
               S == {e(i) : i \in 1 .. n}
    <3> HIDE DEF n, e
    <3>1. [i \in 1 .. n |-> e(i)] \in [1 .. n -> S]
      OBVIOUS
    <3>2. [i \in 1 .. n |-> e(i)] \in Seq(S)
      BY <2>2, <3>1
    <3> QED BY <3>2 DEF IsSeq, e
  <2> QED BY <2>1, <2>3, Joined
<1>2. CASE ~(Len(X) > OD(o, s).rho)
  BY <1>2 DEF AfterFirstBlocks
<1> QED BY <1>1, <1>2

LEMMA Duplexed ==
  ASSUME NEW s, IsSeq(s), NEW o, NEW b, NEW E, NEW n
  PROVE  /\ OD_Duplexing(OD(o, s), b, E, n) = OD(n, After(OD(o, s), b, E))
         /\ IsSeq(After(OD(o, s), b, E))
<1> DEFINE x == <<Absorbed(s, Padded(Rho, b)), OD_Concat(E, IF Len(b) = Rho THEN 1 ELSE 0)>>
<1>1. After(OD(o, s), b, E) = Append(s, x)
  BY ODFields DEF After
<1> HIDE DEF x
<1>2. IsSeq(After(OD(o, s), b, E))
  BY <1>1, Extended
<1> DEFINE y == After(OD(o, s), b, E)
<1>3. OD_Duplexing(OD(o, s), b, E, n) = [OD(o, s) EXCEPT !.s = y, !.o = n]
  BY DEF OD_Duplexing
<1> HIDE DEF y
<1>4. [OD(o, s) EXCEPT !.s = y, !.o = n] = OD(n, y)
  <2>1. [OD(o, s) EXCEPT !.s = y] = OD(o, y)
    BY DEF OD
  <2>2. [OD(o, y) EXCEPT !.o = n] = OD(n, y)
    BY DEF OD
  <2> QED BY <2>1, <2>2
<1> QED BY <1>2, <1>3, <1>4 DEF y

-----------------------------------------------------------------------------
(* The bytes a step gives out continue the stream.                         *)

LEMMA DeckStays ==
  ASSUME NEW d \in Decks, DeckInv(d), deck'[d] = deck[d], stream'[d] = stream[d],
         d \in astray <=> d \in astray'
  PROVE  DeckInv(d)'
BY DEF DeckInv

LEMMA GivenIs ==
  ASSUME NEW bytes, IsSeq(bytes), NEW a
  PROVE  /\ IsSeq(Given(bytes, a)) /\ Len(Given(bytes, a)) = Len(bytes)
         /\ \A i \in 1 .. Len(bytes) : /\ Given(bytes, a)[i].z = bytes[i]
                                       /\ Given(bytes, a)[i].y = a + i - 1
<1>1. Len(bytes) \in Nat /\ DOMAIN bytes = 1 .. Len(bytes)
  BY Lengths
<1> DEFINE e(i) == [z |-> bytes[i], y |-> a + i - 1]
           n == Len(bytes)
           S == {e(i) : i \in 1 .. n}
           g == [i \in 1 .. n |-> e(i)]
<1>2. g = Given(bytes, a)
  BY <1>1 DEF Given
<1>3. \A i \in 1 .. n : g[i].z = bytes[i] /\ g[i].y = a + i - 1
  OBVIOUS
<1> HIDE DEF e, n
<1>4. g \in [1 .. n -> S]
  OBVIOUS
<1> HIDE DEF g
<1>5. g \in Seq(S) /\ Len(g) = n
  BY <1>1, <1>4 DEF n
<1> QED BY <1>2, <1>3, <1>5 DEF IsSeq, n

LEMMA GiveIInv ==
  ASSUME IInv, call # Idle, call.in \notin astray, ~aborted,
         NEW n \in 0 .. call.left, NEW bytes, IsSeq(bytes), Len(bytes) = n,
         NEW v, Opened(v), v.D.s = deck[call.in].D.s, v.o = deck[call.in].o + n,
         v.o <= Rho => v.D.o = v.o,
         v.o > Rho \/ call.left # n => \E k \in Nat : InBlock(v, k),
         \A i \in 1 .. n :
            bytes[i] = StreamByte(deck[call.in].D, deck[call.in].o + i - 1),
         deck' = [deck EXCEPT ![call.in] = v], Give(call.in, n, bytes)
  PROVE  IInv'
<1> DEFINE d == call.in
           u == deck[d]
           m == Len(stream[d])
           g == Given(bytes, m)
<1>1. /\ call = [in |-> d, left |-> call.left, add |-> call.add, begun |-> call.begun]
      /\ d \in Decks /\ call.left \in Nat \ {0} /\ call.add \in {NoAdd, m}
      /\ Opened(u) /\ u.o = m /\ m \in Nat
  BY DEF IInv, CallInv, Placed
<1>2. DOMAIN deck = Decks /\ DOMAIN stream = Decks
  BY DEF IInv
<1>3. n \in Nat /\ IsSeq(g) /\ Len(g) = n
      /\ \A i \in 1 .. n : g[i].z = bytes[i] /\ g[i].y = m + i - 1
  BY <1>1, GivenIs
<1>4. /\ stream' = [stream EXCEPT ![d] = stream[d] \o g]
      /\ call' = IF call.left = n THEN Idle
                 ELSE [call EXCEPT !.left = call.left - n, !.add = AddAfter(call.add, n),
                                   !.begun = TRUE]
      /\ UNCHANGED <<aborted, strings, astray>>
  BY <1>1 DEF Give
<1>5. /\ DOMAIN deck' = Decks /\ DOMAIN stream' = Decks
      /\ deck'[d] = v /\ stream'[d] = stream[d] \o g
      /\ \A e \in Decks : e # d => deck'[e] = deck[e] /\ stream'[e] = stream[e]
  BY <1>1, <1>2, <1>4
<1>6. IsSeq(stream[d]) /\ \A i \in 1 .. m : /\ stream[d][i].z = StreamByte(u.D, i - 1)
                                           /\ stream[d][i].y = i - 1
  <2>1. DeckInv(d)
    BY <1>1 DEF IInv
  <2>2. deck[d] # NoDeck
    BY <1>1, RhoType DEF Opened, NoDeck, NoOD, OD
  <2> QED BY <2>1, <2>2 DEF DeckInv, Streaming, InOrder
<1>7. /\ IsSeq(stream'[d]) /\ Len(stream'[d]) = m + n
      /\ \A i \in 1 .. m + n :
           stream'[d][i] = IF i <= m THEN stream[d][i] ELSE g[i - m]
  <2>1. /\ IsSeq(stream[d] \o g) /\ Len(stream[d] \o g) = m + Len(g)
        /\ \A i \in 1 .. m + Len(g) :
             (stream[d] \o g)[i] = IF i <= m THEN stream[d][i] ELSE g[i - m]
    BY ONLY <1>3, <1>6, Joined, ZenonT(40)
  <2>2. stream'[d] = stream[d] \o g /\ Len(g) = n
    BY <1>3, <1>5
  <2> QED BY ONLY <2>1, <2>2
<1>8. \A i \in Nat : StreamByte(v.D, i) = StreamByte(u.D, i)
  <2> TAKE i \in Nat
  <2>1. u.D = OD(u.D.o, u.D.s) /\ IsSeq(u.D.s) /\ v.D = OD(v.D.o, u.D.s)
    BY <1>1 DEF Opened
  <2> QED BY <2>1, StreamByteStays
<1>9. InOrder(v, stream'[d])
  <2>1. ASSUME NEW i \in 1 .. m + n
        PROVE  stream'[d][i].z = StreamByte(v.D, i - 1) /\ stream'[d][i].y = i - 1
    <3>1. StreamByte(v.D, i - 1) = StreamByte(u.D, i - 1)
      <4>1. i - 1 \in Nat
        BY <1>1, <1>3
      <4> QED BY <1>8, <4>1
    <3>2. CASE i <= m
      <4>1. i \in 1 .. m
        BY <3>2
      <4> QED BY <1>6, <1>7, <3>1, <3>2, <4>1
    <3>3. CASE ~(i <= m)
      <4>1. i - m \in 1 .. n /\ m + (i - m) - 1 = i - 1
        BY ONLY <1>1, <1>3, <3>3, i \in 1 .. m + n, SMTT(30)
      <4>2. g[i - m].z = bytes[i - m] /\ g[i - m].y = i - 1
        BY <1>3, <4>1
      <4>3. bytes[i - m] = StreamByte(u.D, i - 1)
        BY <1>1, <4>1
      <4> QED BY <1>7, <3>1, <3>3, <4>2, <4>3
    <3> QED BY <3>2, <3>3
  <2> QED BY <1>7, <2>1 DEF InOrder
<1>10. Placed(v, m + n, FALSE) /\ (call.left # n => Placed(v, m + n, TRUE))
  BY <1>1, <1>3 DEF Placed
<1>11. \A e \in Decks : DeckInv(e)'
  <2> TAKE e \in Decks
  <2>1. CASE e = d
    BY <1>4, <1>5, <1>7, <1>9, <1>10, <2>1 DEF DeckInv, Streaming
  <2>2. CASE e # d
    <3>1. DeckInv(e) /\ astray' = astray
      BY <1>4 DEF IInv
    <3> QED BY <1>5, <2>2, <3>1, DeckStays
  <2> QED BY <2>1, <2>2
<1>12. CallInv'
  <2>1. CASE call.left = n
    BY <1>4, <2>1 DEF CallInv
  <2>2. CASE call.left # n
    <3>1. call' = [in |-> d, left |-> call.left - n, add |-> AddAfter(call.add, n), begun |-> TRUE]
      BY <1>1, <1>4, <2>2
    <3>2. call.left - n \in Nat \ {0} /\ call.left - n <= call.left
      BY <1>1, <1>3, <2>2
    <3>3. AddAfter(call.add, n) \in {NoAdd, m + n}
      BY <1>1, <1>3 DEF AddAfter, NoAdd
    <3>5. call'.in = d /\ call'.left = call.left - n /\ call'.add = AddAfter(call.add, n)
          /\ call'.begun = TRUE
      BY <3>1
    <3>6. /\ call'.in \in Decks /\ call'.left \in Nat \ {0} /\ call'.begun \in BOOLEAN
          /\ call' = [in |-> call'.in, left |-> call'.left, add |-> call'.add, begun |-> call'.begun]
      BY <1>1, <3>1, <3>2, <3>5
    <3>7. call'.add \in {NoAdd, Len(stream'[call'.in])}
      BY <1>7, <3>3, <3>5
    <3>9. Opened(deck'[call'.in]) /\ Placed(deck'[call'.in], Len(stream'[call'.in]), call'.begun)
      <4>1. deck'[call'.in] = v /\ Len(stream'[call'.in]) = m + n /\ call'.begun = TRUE
        BY ONLY <1>5, <1>7, <3>5
      <4>2. Opened(v) /\ Placed(v, m + n, TRUE)
        BY <1>10, <2>2
      <4> QED BY ONLY <4>1, <4>2
    <3> QED BY <3>6, <3>7, <3>9 DEF CallInv
  <2> QED BY <2>1, <2>2
<1>13. OnlyKnownFailures'
  BY <1>4 DEF OnlyKnownFailures
<1> QED BY <1>5, <1>11, <1>12, <1>13 DEF IInv

-----------------------------------------------------------------------------
(* The loop of UpperDeck_Squeezing.                                        *)

\* What each of its steps begins with.
LEMMA Running ==
  ASSUME IInv, call # Idle, call.in \notin astray
  PROVE  LET u == deck[call.in] IN
         /\ call.in \in Decks /\ call.left \in Nat \ {0} /\ call.begun \in BOOLEAN
         /\ u = [D |-> OD(u.D.o, u.D.s), Dsqueeze |-> u.Dsqueeze, o |-> u.o]
         /\ u.D.o \in 0 .. Rho /\ IsSeq(u.D.s) /\ u.D.rho = Rho /\ u.o \in Nat
         /\ u.o <= Rho => u.D.o = u.o
         /\ u.o > Rho \/ call.begun => \E k \in Nat : InBlock(u, k)
<1> DEFINE u == deck[call.in]
<1>1. /\ call.in \in Decks /\ call.left \in Nat \ {0} /\ call.begun \in BOOLEAN
      /\ Opened(u) /\ Placed(u, Len(stream[call.in]), call.begun)
  BY DEF IInv, CallInv
<1>2. u.D = OD(u.D.o, u.D.s)
  BY <1>1 DEF Opened
<1>3. u.D.rho = Rho
  BY <1>2, ODFields
<1> QED BY <1>1, <1>3 DEF Opened, Placed

\* The bytes at places p .. p + n - 1 of a state.
LEMMA OutputBytes ==
  ASSUME NEW s, NEW o, NEW p \in Nat, NEW n \in Nat
  PROVE  /\ IsSeq(Output(OD(o, s), p, n)) /\ Len(Output(OD(o, s), p, n)) = n
         /\ \A i \in 1 .. n : Output(OD(o, s), p, n)[i] = {<<s, p + i - 1>>}
<1> DEFINE e(i) == {<<s, p + i - 1>>}
           S == {e(i) : i \in 1 .. n}
           g == [i \in 1 .. n |-> e(i)]
<1>1. Output(OD(o, s), p, n) = g /\ \A i \in 1 .. n : g[i] = {<<s, p + i - 1>>}
  BY ODFields DEF Output, OutputFrom
<1> HIDE DEF e
<1>2. g \in [1 .. n -> S]
  OBVIOUS
<1> HIDE DEF g, S
<1>3. g \in Seq(S) /\ Len(g) = n
  BY <1>2
<1> QED BY <1>1, <1>3 DEF IsSeq

LEMMA SqueezedOD ==
  ASSUME NEW s, NEW o \in Nat, NEW x \in Nat
  PROVE  OD_Squeezing(OD(o, s), x) = OD(o + x, s) /\ OD_CloneCompact(OD(o, s)) = OD(Rho, s)
BY SMTT(30) DEF OD_Squeezing, OD_CloneCompact, OD

LEMMA FromDIInv ==
  ASSUME IInv, FromD, call.in \notin astray
  PROVE  IInv'
<1> DEFINE d == call.in
           u == deck[d]
           o == u.o
           s == u.D.s
           x == LesserOf(u.D.rho - o, call.left)
           b == Output(u.D, u.D.o, x)
           q == IF GoesOn(u) THEN OD_CloneCompact(u.D) ELSE u.Dsqueeze
           v == [D |-> OD_Squeezing(u.D, x), o |-> o + x, Dsqueeze |-> q]
<1>1. call # Idle /\ ~aborted /\ ~call.begun /\ o <= u.D.rho
  BY DEF FromD
<1>2. /\ d \in Decks /\ call.left \in Nat \ {0}
      /\ u.D = OD(o, s) /\ u.D.rho = Rho /\ o \in 0 .. Rho /\ u.D.o = o /\ IsSeq(s)
  <2>1. u.D.rho = Rho /\ o \in Nat /\ (o <= Rho => u.D.o = o) /\ u.D = OD(u.D.o, s)
        /\ d \in Decks /\ call.left \in Nat \ {0} /\ IsSeq(s)
    BY <1>1, Running
  <2> QED BY <1>1, <2>1, RhoType
<1>3. x \in 0 .. call.left /\ o + x <= Rho /\ (call.left # x => o + x = Rho)
      /\ (GoesOn(u) <=> call.left # x)
  BY <1>2, RhoType DEF LesserOf, GoesOn
<1>4. CanSqueeze(u.D, x)
  BY <1>2, <1>3, RhoType DEF CanSqueeze
<1>5. deck' = [deck EXCEPT ![d] = v] /\ Give(d, x, b)
  BY <1>4 DEF FromD
<1>6. /\ IsSeq(b) /\ Len(b) = x /\ \A i \in 1 .. x : b[i] = {<<s, o + i - 1>>}
  <2>1. b = Output(OD(o, s), o, x) /\ o \in Nat /\ x \in Nat
    BY <1>2, <1>3, RhoType
  <2> HIDE DEF b, x, u
  <2> QED BY <2>1, OutputBytes
<1>7. v.D = OD(o + x, s) /\ v.o = o + x /\ v.Dsqueeze = q
      /\ v = [D |-> v.D, Dsqueeze |-> v.Dsqueeze, o |-> v.o]
  BY <1>2, <1>3, SqueezedOD
<1>8. GoesOn(u) => q = OD(Rho, s)
  BY <1>2, SqueezedOD, SMTT(30)
<1>9. ASSUME NEW i \in 1 .. x PROVE b[i] = StreamByte(u.D, o + i - 1)
  <2>1. o + i - 1 \in Nat /\ 0 * Rho <= o + i - 1 /\ o + i - 1 < (0 + 1) * Rho
        /\ o + i - 1 - 0 * Rho = o + i - 1
    BY <1>2, <1>3, RhoType
  <2>2. StreamByte(OD(o, s), o + i - 1) = {<<Onward(s, 0), o + i - 1>>}
    <3> DEFINE j == o + i - 1
    <3> HIDE DEF j
    <3>1. StreamByte(OD(o, s), j) = {<<Onward(s, 0), j - 0 * Rho>>}
      <4>1. j \in Nat /\ 0 \in Nat /\ 0 * Rho <= j /\ j < (0 + 1) * Rho
        BY <2>1 DEF j
      <4> QED BY ONLY <1>2, <4>1, StreamByteIs
    <3>2. j - 0 * Rho = j
      BY <2>1, RhoType DEF j
    <3> QED BY <3>1, <3>2 DEF j
  <2> QED BY <1>2, <1>6, <2>2, OnwardNowhere
<1> HIDE DEF v, q, b, x
<1>10. Opened(v) /\ v.D.s = s /\ (v.o <= Rho => v.D.o = v.o)
  BY <1>2, <1>3, <1>7, ODFields DEF Opened
<1>11. v.o > Rho \/ call.left # x => \E k \in Nat : InBlock(v, k)
  <2> SUFFICES ASSUME v.o > Rho \/ call.left # x PROVE InBlock(v, 0)
    OBVIOUS
  <2>1. GoesOn(u) /\ v.o = Rho
    <3>1. call.left # x
      <4>1. v.o <= Rho
        BY ONLY <1>3, <1>7
      <4> QED BY <1>2, <1>3, <1>7, <4>1, RhoType
    <3> QED BY ONLY <1>3, <1>7, <3>1
  <2>2. Rho <= v.o /\ 0 * Rho < v.o /\ v.o <= (0 + 1) * Rho /\ v.o - 0 * Rho = Rho
    BY <2>1, RhoType
  <2>3. v.Dsqueeze = OD(Rho, Onward(s, 0))
    BY <1>2, <1>7, <1>8, <2>1, OnwardNowhere, SMTT(30)
  <2> QED BY <1>10, <2>2, <2>3 DEF InBlock
<1> QED BY <1>1, <1>2, <1>3, <1>5, <1>6, <1>7, <1>9, <1>10, <1>11, GiveIInv

\* Past the first block, Dsqueeze gives block k from its place w on.
LEMMA Looping ==
  ASSUME IInv, InLoop(deck[call.in]), call.in \notin astray
  PROVE  LET u == deck[call.in] IN
         /\ call # Idle /\ ~aborted /\ call.in \in Decks /\ call.left \in Nat \ {0}
         /\ u = [D |-> OD(u.D.o, u.D.s), Dsqueeze |-> u.Dsqueeze, o |-> u.o]
         /\ u.D.o \in 0 .. Rho /\ IsSeq(u.D.s) /\ u.D.rho = Rho /\ u.o \in Nat
         /\ Rho <= u.o /\ (u.o <= Rho => u.D.o = u.o)
         /\ \E k \in Nat, w \in 1 .. Rho :
              /\ u.o = k * Rho + w /\ u.Dsqueeze = OD(w, Onward(u.D.s, k)) /\ k * Rho \in Nat
              /\ (k + 1) * Rho = k * Rho + Rho
              /\ w = Rho => u.o % Rho = 0
              /\ w # Rho => u.o % Rho = w
<1> DEFINE u == deck[call.in]
<1>1. call # Idle /\ ~aborted /\ (call.begun \/ u.o > u.D.rho)
  BY DEF InLoop
<1>2. PICK k \in Nat : InBlock(u, k)
  BY <1>1, Running
<1>3. u.o \in Nat
  BY <1>1, Running
<1> DEFINE a == k * Rho
           w == u.o - a
<1>4. a \in Nat /\ (k + 1) * Rho = a + Rho
  BY RhoType
<1>5. Rho <= u.o /\ a < u.o /\ u.o <= a + Rho /\ u.Dsqueeze = OD(w, Onward(u.D.s, k))
  BY <1>2, <1>4 DEF InBlock
<1>6. w # Rho => u.o % Rho = w
  <2> SUFFICES ASSUME w # Rho PROVE u.o % Rho = w
    OBVIOUS
  <2>1. k * Rho <= u.o /\ u.o < (k + 1) * Rho
    <3> HIDE DEF u
    <3>1. a <= u.o /\ u.o < a + Rho
      BY <1>3, <1>4, <1>5, RhoType
    <3> QED BY <1>4, <3>1
  <2> HIDE DEF u
  <2> QED BY <1>3, <2>1, RhoType, DivMod
<1>7. w = Rho => u.o % Rho = 0
  <2> SUFFICES ASSUME w = Rho PROVE u.o % Rho = 0
    OBVIOUS
  <2> HIDE DEF u
  <2>1. (k + 1) * Rho <= u.o /\ u.o < (k + 1 + 1) * Rho /\ u.o - (k + 1) * Rho = 0
    <3>1. u.o = a + Rho /\ (k + 1 + 1) * Rho = a + Rho + Rho
      <4>1. (k + 1 + 1) * Rho = k * Rho + Rho + Rho
        BY RhoType
      <4> QED BY <1>3, <1>4, <4>1, RhoType
    <3> HIDE DEF a, w
    <3> QED BY <1>3, <1>4, <3>1, RhoType
  <2>2. k + 1 \in Nat
    OBVIOUS
  <2> QED BY ONLY <1>3, <2>1, <2>2, RhoType, DivMod
<1> HIDE DEF a
<1>8. w \in 1 .. Rho /\ u.o = a + w
  BY <1>3, <1>4, <1>5, RhoType
<1> QED BY <1>1, <1>4, <1>5, <1>6, <1>7, <1>8, Running DEF a

LEMMA FieldsChanged ==
  ASSUME NEW u, NEW D, NEW q, NEW o, u = [D |-> D, Dsqueeze |-> q, o |-> o], NEW p, NEW n
  PROVE  [[u EXCEPT !.Dsqueeze = p] EXCEPT !.o = n] = [D |-> u.D, Dsqueeze |-> p, o |-> n]
<1>1. [u EXCEPT !.Dsqueeze = p] = [D |-> D, Dsqueeze |-> p, o |-> o] /\ u.D = D
  OBVIOUS
<1>2. [[D |-> D, Dsqueeze |-> p, o |-> o] EXCEPT !.o = n] = [D |-> D, Dsqueeze |-> p, o |-> n]
  OBVIOUS
<1> QED BY ONLY <1>1, <1>2

LEMMA RestOfBlockIInv ==
  ASSUME IInv, RestOfBlock, call.in \notin astray
  PROVE  IInv'
<1> DEFINE d == call.in
           u == deck[d]
           o == u.o
           s == u.D.s
<1>1. InLoop(u) /\ o % u.Dsqueeze.rho # 0
  BY DEF RestOfBlock
<1>2. /\ call # Idle /\ ~aborted /\ d \in Decks /\ call.left \in Nat \ {0}
      /\ u = [D |-> OD(u.D.o, s), Dsqueeze |-> u.Dsqueeze, o |-> o]
      /\ u.D.o \in 0 .. Rho /\ IsSeq(s) /\ u.D.rho = Rho /\ o \in Nat
      /\ Rho <= o /\ (o <= Rho => u.D.o = o)
  BY <1>1, Looping, SMTT(30)
<1>3. PICK k \in Nat, w \in 1 .. Rho :
         /\ o = k * Rho + w /\ u.Dsqueeze = OD(w, Onward(s, k)) /\ k * Rho \in Nat
         /\ (k + 1) * Rho = k * Rho + Rho
         /\ w = Rho => o % Rho = 0
         /\ w # Rho => o % Rho = w
  BY <1>1, Looping
<1>4. u.Dsqueeze.rho = Rho /\ u.Dsqueeze.o = w
  BY <1>3, ODFields
<1>5. w # Rho /\ o % Rho = w
  BY <1>1, <1>3, <1>4
<1> DEFINE x == LesserOf(Rho - w, call.left)
           t == Onward(s, k)
           b == Output(OD(w, t), w, x)
           v == [D |-> u.D, o |-> o + x, Dsqueeze |-> OD(w + x, t)]
<1>6. x \in 0 .. call.left /\ w + x <= Rho /\ x <= Rho - w
  BY <1>2, RhoType DEF LesserOf
<1>7. x = LesserOf(u.Dsqueeze.rho - (o % u.Dsqueeze.rho), call.left)
  BY <1>4, <1>5
<1>8. CanSqueeze(u.Dsqueeze, x)
  BY ONLY <1>4, <1>6, RhoType, ODFields DEF CanSqueeze
<1> HIDE DEF x
<1>9. /\ deck' = [deck EXCEPT ![d].Dsqueeze = OD_Squeezing(@, x), ![d].o = @ + x]
      /\ Give(d, x, Output(u.Dsqueeze, u.Dsqueeze.o, x))
  BY <1>7, <1>8, Zenon DEF RestOfBlock
<1>10. deck' = [deck EXCEPT ![d] = v]
  <2>1. OD_Squeezing(u.Dsqueeze, x) = OD(w + x, t)
    BY <1>3, <1>6, RhoType, SqueezedOD
  <2>2. [[u EXCEPT !.Dsqueeze = OD(w + x, t)] EXCEPT !.o = o + x] = v
    <3> DEFINE p == OD(w + x, t)
               c == OD(u.D.o, s)
               n == o + x
    <3>1. u = [D |-> c, Dsqueeze |-> u.Dsqueeze, o |-> o]
      BY <1>2
    <3> HIDE DEF c, p, n
    <3>2. [[u EXCEPT !.Dsqueeze = p] EXCEPT !.o = n] = [D |-> u.D, Dsqueeze |-> p, o |-> n]
      BY ONLY <3>1, FieldsChanged
    <3> QED BY ONLY <3>2 DEF p, n
  <2>3. DOMAIN deck = Decks
    BY DEF IInv
  <2>4. deck' = [deck EXCEPT ![d] = [[u EXCEPT !.Dsqueeze = OD(w + x, t)] EXCEPT !.o = o + x]]
    BY <1>2, <1>9, <2>1, <2>3
  <2> QED BY <2>2, <2>4
<1>11. Give(d, x, b)
  BY <1>3, <1>4, <1>9
<1>12. /\ IsSeq(b) /\ Len(b) = x /\ \A i \in 1 .. x : b[i] = {<<t, w + i - 1>>}
  <2>1. w \in Nat /\ x \in Nat
    BY <1>6, RhoType
  <2> HIDE DEF t
  <2> QED BY <2>1, OutputBytes
<1>13. ASSUME NEW i \in 1 .. x PROVE b[i] = StreamByte(u.D, o + i - 1)
  <2> DEFINE j == o + i - 1
             a == k * Rho
  <2>1. j \in Nat /\ k * Rho <= j /\ j < (k + 1) * Rho /\ j - a = w + i - 1
    <3>1. a \in Nat /\ o = a + w /\ (k + 1) * Rho = a + Rho
      BY <1>3
    <3> HIDE DEF a, u
    <3>2. j \in Nat /\ a <= j /\ j < a + Rho /\ j - a = w + i - 1
      BY <1>2, <1>6, <3>1, RhoType
    <3> HIDE DEF j
    <3> QED BY <3>1, <3>2 DEF a
  <2> HIDE DEF j
  <2>2. StreamByte(OD(u.D.o, s), j) = {<<t, j - a>>}
    BY ONLY <1>2, <2>1, k \in Nat, StreamByteIs
  <2>3. u.D = OD(u.D.o, s)
    BY <1>2
  <2>4. StreamByte(u.D, j) = {<<t, w + i - 1>>}
    BY ONLY <2>1, <2>2, <2>3
  <2> QED BY <1>12, <2>4 DEF j
<1>14. v.D = u.D /\ v.o = o + x /\ v.Dsqueeze = OD(w + x, t)
       /\ v = [D |-> v.D, Dsqueeze |-> v.Dsqueeze, o |-> v.o]
  OBVIOUS
<1> HIDE DEF v, b
<1>15. Opened(v) /\ v.D.s = s /\ (v.o <= Rho => v.D.o = v.o)
  <2>1. v.o > Rho
    <3>1. Rho % Rho = 0
      BY RhoType, SMT
    <3>2. o # Rho
      BY <1>3, <1>5, <3>1, RhoType
    <3> QED BY <1>2, <1>6, <1>14, <3>2, RhoType
  <2>2. v.o <= Rho => v.D.o = v.o
    BY <1>2, <1>6, <1>14, <2>1, RhoType
  <2>3. v.D.o \in 0 .. Rho /\ v.D.s = s /\ IsSeq(v.D.s) /\ v.D = OD(v.D.o, v.D.s)
    <3>1. v.D.o = u.D.o /\ v.D.s = s
      BY ONLY <1>14
    <3>2. u.D = OD(u.D.o, s)
      BY <1>2
    <3> QED BY ONLY <1>2, <1>14, <3>1, <3>2
  <2>4. v = [D |-> OD(v.D.o, v.D.s), Dsqueeze |-> v.Dsqueeze, o |-> v.o]
    BY ONLY <1>14, <2>3
  <2> QED BY ONLY <2>2, <2>3, <2>4 DEF Opened
<1>16. InBlock(v, k)
  <2> DEFINE a == k * Rho
  <2>1. Rho <= v.o /\ a < v.o /\ v.o <= a + Rho /\ v.o - a = w + x
    <3>1. a \in Nat /\ o = a + w /\ Rho <= o /\ v.o = o + x
      BY <1>2, <1>3, <1>14
    <3> HIDE DEF a, u
    <3> QED BY ONLY <1>6, <3>1, w \in 1 .. Rho, <1>2, RhoType
  <2>2. (k + 1) * Rho = a + Rho
    BY <1>3
  <2>3. v.Dsqueeze = OD(v.o - a, Onward(v.D.s, k))
    BY <1>14, <1>15, <2>1
  <2> QED BY ONLY <2>1, <2>2, <2>3 DEF InBlock
<1> QED BY <1>2, <1>6, <1>10, <1>11, <1>12, <1>13, <1>14, <1>15, <1>16, GiveIInv

LEMMA ByteOfBlock ==
  ASSUME NEW s, IsSeq(s), NEW o, NEW k \in Nat, NEW p \in 0 .. Rho - 1
  PROVE  StreamByte(OD(o, s), k * Rho + p) = {<<Onward(s, k), p>>}
<1> DEFINE i == k * Rho + p
<1>1. i \div Rho = k /\ i % Rho = p
  BY RhoType, DivModUnique
<1> HIDE DEF i
<1>2. OD_DuplexingFastOnlyOut(OD(o, s), 2, k).s = Onward(s, k) /\ OD(o, s).rho = Rho
  BY BlocksGiven, ODFields
<1>3. StreamByte(OD(o, s), i) = {<<Onward(s, k), p>>}
  BY <1>1, <1>2 DEF StreamByte
<1> QED BY <1>3 DEF i

\* The bytes of n whole blocks.
LEMMA BlocksOutAre ==
  ASSUME NEW s, IsSeq(s), NEW o, NEW n \in Nat, n * Rho \in Nat
  PROVE  LET b == BlocksOut(OD(o, s), 2, n) IN
         /\ IsSeq(b) /\ Len(b) = n * Rho
         /\ \A j \in 1 .. n * Rho : b[j] = {<<Onward(s, (j - 1) \div Rho + 1), (j - 1) % Rho>>}
<1> DEFINE e(j) == {<<OD_DuplexingFastOnlyOut(OD(o, s), 2, (j - 1) \div Rho + 1).s, (j - 1) % Rho>>}
           m == n * Rho
           S == {e(j) : j \in 1 .. m}
           g == [j \in 1 .. m |-> e(j)]
<1>1. BlocksOut(OD(o, s), 2, n) = g
  BY ODFields DEF BlocksOut
<1>2. ASSUME NEW j \in 1 .. m
      PROVE  e(j) = {<<Onward(s, (j - 1) \div Rho + 1), (j - 1) % Rho>>}
  <2> DEFINE i == j - 1
  <2>1. i \in Nat
    BY <1>2
  <2> HIDE DEF i
  <2>2. i \div Rho + 1 \in Nat
    BY <2>1, RhoType, Quotients
  <2>3. OD_DuplexingFastOnlyOut(OD(o, s), 2, i \div Rho + 1).s = Onward(s, i \div Rho + 1)
    BY <2>2, BlocksGiven, ODFields
  <2> QED BY <2>3 DEF i
<1>3. m \in Nat
  OBVIOUS
<1> HIDE DEF e, m
<1>4. g \in [1 .. m -> S] /\ \A j \in 1 .. m : g[j] = e(j)
  OBVIOUS
<1> HIDE DEF g, S
<1>5. g \in Seq(S) /\ Len(g) = m
  BY <1>3, <1>4
<1> QED BY <1>1, <1>2, <1>4, <1>5 DEF IsSeq, m

\* All blocks but the last, if more than one is needed.
LEMMA BlocksNeeded ==
  ASSUME NEW l \in Nat \ {0}, NEW n, n = IF l > Rho THEN l \div Rho ELSE 0
  PROVE  /\ n \in Nat /\ n * Rho \in Nat /\ l - n * Rho \in 0 .. Rho
         /\ n # 0 => l > Rho
<1>1. CASE l > Rho
  <2>1. n \in Nat /\ l % Rho \in 0 .. Rho - 1 /\ l = n * Rho + (l % Rho)
    BY <1>1, RhoType, Quotients
  <2> DEFINE a == n * Rho
  <2>2. a \in Nat
    BY <2>1, RhoType
  <2>3. l = a + (l % Rho)
    BY <2>1
  <2> HIDE DEF a
  <2>4. l - a \in 0 .. Rho
    BY <2>1, <2>2, <2>3, RhoType
  <2> QED BY <1>1, <2>1, <2>2, <2>4 DEF a
<1>2. CASE ~(l > Rho)
  <2>1. n = 0 /\ n * Rho = 0
    BY <1>2, RhoType
  <2> QED BY <1>2, <2>1, RhoType
<1> QED BY <1>1, <1>2

\* The n bytes of the stream of D from its byte o on.
Follow(bytes, D, o, n) ==
  /\ IsSeq(bytes) /\ Len(bytes) = n
  /\ \A i \in 1 .. n : bytes[i] = StreamByte(D, o + i - 1)

\* The blocks of Dsqueeze, then a part of the next one.
LEMMA BytesOfNewBlocks ==
  ASSUME NEW s, IsSeq(s), NEW p, NEW w, NEW k \in Nat, NEW n \in Nat, NEW rest \in 0 .. Rho,
         NEW g, NEW z, z = Onward(s, k + n + 1) \/ rest = 0, k * Rho \in Nat, n * Rho \in Nat
  PROVE  Follow(BlocksOut(OD(w, Onward(s, k)), 2, n) \o Output(OD(g, z), 0, rest),
                OD(p, s), k * Rho + Rho, n * Rho + rest)
<1> DEFINE x == BlocksOut(OD(w, Onward(s, k)), 2, n)
           y == Output(OD(g, z), 0, rest)
           b == x \o y
           a == k * Rho
           c == n * Rho
<1>0. a = k * Rho /\ c = n * Rho /\ a \in Nat /\ c \in Nat
  OBVIOUS
<1>1. IsSeq(Onward(s, k))
  BY OnwardIs
<1>2. /\ IsSeq(x) /\ Len(x) = c
      /\ \A j \in 1 .. c : x[j] = {<<Onward(Onward(s, k), (j - 1) \div Rho + 1), (j - 1) % Rho>>}
  BY <1>1, BlocksOutAre
<1>3. IsSeq(y) /\ Len(y) = rest /\ \A i \in 1 .. rest : y[i] = {<<z, 0 + i - 1>>}
  <2>1. rest \in Nat /\ 0 \in Nat
    BY RhoType
  <2>2. y = Output(OD(g, z), 0, rest)
    OBVIOUS
  <2> HIDE DEF y
  <2> QED BY ONLY <2>1, <2>2, OutputBytes
<1> HIDE DEF x, y, a, c
<1>4. /\ IsSeq(b) /\ Len(b) = c + rest
      /\ \A j \in 1 .. c + rest : b[j] = IF j <= c THEN x[j] ELSE y[j - c]
  <2>1. /\ IsSeq(x \o y) /\ Len(x \o y) = Len(x) + Len(y)
        /\ \A j \in 1 .. Len(x) + Len(y) : (x \o y)[j] = IF j <= Len(x) THEN x[j] ELSE y[j - Len(x)]
    BY ONLY <1>2, <1>3, Joined
  <2> QED BY ONLY <1>2, <1>3, <2>1
<1>5. ASSUME NEW j \in 1 .. c
      PROVE  x[j] = StreamByte(OD(p, s), a + Rho + j - 1)
  <2> DEFINE i == j - 1
             m == i \div Rho
             e == i % Rho
             d == m * Rho
  <2>1. i \in Nat
    OBVIOUS
  <2>2. m \in Nat /\ e \in 0 .. Rho - 1 /\ i = d + e /\ d \in Nat
    <3> HIDE DEF i
    <3>1. m \in Nat /\ e \in 0 .. Rho - 1 /\ i = m * Rho + e
      BY ONLY <2>1, RhoType, Quotients
    <3> HIDE DEF m, e
    <3>2. m * Rho \in Nat
      BY <3>1, RhoType
    <3> QED BY <3>1, <3>2
  <2>3. x[j] = {<<Onward(Onward(s, k), m + 1), e>>}
    BY <1>2
  <2> HIDE DEF i, m, e
  <2>4. Onward(Onward(s, k), m + 1) = Onward(s, k + (m + 1))
    BY <2>2, OnwardTwice
  <2>5. StreamByte(OD(p, s), (k + (m + 1)) * Rho + e) = {<<Onward(s, k + (m + 1)), e>>}
    <3>1. k + (m + 1) \in Nat
      BY <2>2
    <3> QED BY ONLY <2>2, <3>1, IsSeq(s), ByteOfBlock
  <2>6. (k + (m + 1)) * Rho = a + d + Rho
    BY <1>0, <2>2, RhoType
  <2> HIDE DEF d
  <2>7. a + d + Rho + e = a + Rho + j - 1
    BY <1>0, <2>2, RhoType DEF i
  <2> QED BY ONLY <2>3, <2>4, <2>5, <2>6, <2>7
<1>6. ASSUME NEW j \in 1 .. c + rest, ~(j <= c)
      PROVE  y[j - c] = StreamByte(OD(p, s), a + Rho + j - 1)
  <2>1. j - c \in 1 .. rest /\ j - c - 1 \in 0 .. Rho - 1 /\ rest # 0 /\ 0 + (j - c) - 1 = j - c - 1
    BY <1>0, <1>6, RhoType
  <2>2. y[j - c] = {<<Onward(s, k + n + 1), j - c - 1>>}
    BY <1>3, <2>1
  <2>3. StreamByte(OD(p, s), (k + n + 1) * Rho + (j - c - 1)) = {<<Onward(s, k + n + 1), j - c - 1>>}
    <3>1. k + n + 1 \in Nat
      OBVIOUS
    <3> QED BY ONLY <2>1, <3>1, IsSeq(s), ByteOfBlock
  <2>4. (k + n + 1) * Rho = a + c + Rho
    BY <1>0, RhoType
  <2>5. a + c + Rho + (j - c - 1) = a + Rho + j - 1
    BY <1>0, <1>6, RhoType
  <2> QED BY ONLY <2>2, <2>3, <2>4, <2>5
<1>7. ASSUME NEW j \in 1 .. c + rest
      PROVE  b[j] = StreamByte(OD(p, s), a + Rho + j - 1)
  <2>1. CASE j <= c
    <3>1. j \in 1 .. c
      BY <2>1
    <3> QED BY ONLY <1>4, <1>5, <1>7, <2>1, <3>1
  <2>2. CASE ~(j <= c)
    BY ONLY <1>4, <1>6, <1>7, <2>2
  <2> QED BY <2>1, <2>2
<1> QED BY ONLY <1>4, <1>7 DEF Follow, a, c, b, x, y

\* A call that fails leaves the decks as they are.
LEMMA FailsIInv ==
  ASSUME IInv, Fails, call # Idle,
         call.in \in astray \/ (call.add = NoAdd /\ call.left > Rho)
  PROVE  IInv'
<1>1. \A d \in Decks : DeckInv(d)'
  BY DeckStays DEF IInv, Fails
<1>2. CallInv'
  BY DEF IInv, Fails, CallInv
<1> QED BY <1>1, <1>2 DEF IInv, Fails, OnlyKnownFailures

LEMMA NewBlocksIInv ==
  ASSUME IInv, NewBlocks, call.in \notin astray
  PROVE  IInv'
<1> DEFINE d == call.in
           u == deck[d]
           o == u.o
           s == u.D.s
           q == u.Dsqueeze
           l == call.left
<1>1. InLoop(u) /\ (q.rho # 0 => o % q.rho = 0)
  BY Zenon DEF NewBlocks
<1>2. /\ call # Idle /\ ~aborted /\ d \in Decks /\ l \in Nat \ {0}
      /\ u = [D |-> OD(u.D.o, s), Dsqueeze |-> q, o |-> o]
      /\ u.D.o \in 0 .. Rho /\ IsSeq(s) /\ u.D.rho = Rho /\ o \in Nat
  BY <1>1, Looping
<1>3. PICK k \in Nat, w \in 1 .. Rho :
         /\ o = k * Rho + w /\ q = OD(w, Onward(s, k)) /\ k * Rho \in Nat
         /\ w # Rho => o % Rho = w
  BY <1>1, Looping
<1>4. q.rho = Rho
  BY <1>3, ODFields
<1>5. w = Rho /\ q = OD(Rho, Onward(s, k)) /\ IsSeq(Onward(s, k))
  <2>1. o % Rho = 0
    BY <1>1, <1>4, RhoType
  <2> QED BY <1>2, <1>3, <2>1, RhoType, OnwardIs
<1> DEFINE n == IF l > q.rho THEN l \div q.rho ELSE 0
           r == IF n = 0 THEN q ELSE OD_DuplexingFastOnlyOut(q, 2, n)
           rest == l - n * q.rho
           t == IF rest = 0 THEN r ELSE OD_Duplexing(r, <<>>, 2, rest)
           b == BlocksOut(q, 2, n) \o Output(t, 0, rest)
           v == [D |-> u.D, Dsqueeze |-> t, o |-> o + l]
<1>6. n \in Nat /\ n * Rho \in Nat /\ l - n * Rho \in 0 .. Rho /\ (n # 0 => l > Rho)
      /\ rest = l - n * Rho
  <2>1. n = IF l > Rho THEN l \div Rho ELSE 0
    BY <1>4
  <2>2. rest = l - n * Rho
    BY <1>4
  <2> HIDE DEF n, l
  <2> QED BY <1>2, <2>1, <2>2, BlocksNeeded
<1>7. r = OD(Rho, Onward(s, k + n)) /\ IsSeq(Onward(s, k + n))
  <2> HIDE DEF n, q, u
  <2>1. OD_DuplexingFastOnlyOut(q, 2, n) = OD(IF n = 0 THEN Rho ELSE Rho, Onward(Onward(s, k), n))
    BY ONLY <1>5, <1>6, BlocksGiven
  <2>2. Onward(Onward(s, k), n) = Onward(s, k + n)
    BY ONLY <1>2, <1>3, <1>6, OnwardTwice
  <2>3. k + n = k \/ n # 0
    BY <1>6
  <2>4. k + n \in Nat
    BY <1>6, SMTT(30)
  <2> QED BY <1>2, <1>5, <2>1, <2>2, <2>3, <2>4, OnwardIs
<1>8. rest # 0 => t = OD(rest, Onward(s, k + n + 1))
  <2> SUFFICES ASSUME rest # 0 PROVE t = OD(rest, Onward(s, k + n + 1))
    BY ZenonT(40)
  <2> DEFINE z == Onward(s, k + n)
  <2>1. t = OD_Duplexing(OD(Rho, z), <<>>, 2, rest)
    BY <1>7, SMTT(30)
  <2>2. OD_Duplexing(OD(Rho, z), <<>>, 2, rest) = OD(rest, After(OD(Rho, z), <<>>, 2))
    <3> HIDE DEF z, rest
    <3> QED BY <1>7, Duplexed, SMTT(30) DEF z
  <2>3. After(OD(Rho, z), <<>>, 2) = Onward(z, 1)
    <3> HIDE DEF z
    <3> QED BY <1>7, EmptyAfter DEF z
  <2>4. Onward(z, 1) = Onward(s, k + n + 1)
    <3> HIDE DEF n
    <3>1. k + n \in Nat
      BY <1>6
    <3> QED BY <1>2, <3>1, OnwardTwice
  <2> QED BY ONLY <2>1, <2>2, <2>3, <2>4
<1>9. CASE n # 0 /\ call.add = NoAdd
  <2>1. ~CanGiveBlocks(q, call.left, call.add # NoAdd)
    BY ONLY <1>9 DEF CanGiveBlocks
  <2>2. Fails
    BY <1>9, <2>1, Zenon DEF NewBlocks
  <2>3. call.add = NoAdd /\ call.left > Rho
    <3> HIDE DEF n
    <3> QED BY <1>6, <1>9
  <2> QED BY ONLY IInv, <1>2, <2>2, <2>3, FailsIInv
<1>10. CASE ~(n # 0 /\ call.add = NoAdd)
  <2>1. n # 0 => CanGiveBlocks(q, call.left, call.add # NoAdd)
    <3> HIDE DEF n, q
    <3> QED BY <1>2, <1>4, <1>6, <1>10, RhoType DEF CanGiveBlocks
  <2>2. rest # 0 => rest <= u.D.rho /\ CanDuplex(r, <<>>, 2, rest)
    <3>1. rest \in 0 .. Rho
      BY ONLY <1>6, SMTT(30)
    <3> HIDE DEF rest, r
    <3>2. r.rho = Rho
      BY <1>7, ODFields
    <3> QED BY <1>2, <3>1, <3>2, RhoType DEF CanDuplex
  <2>3. /\ deck' = [deck EXCEPT ![d].Dsqueeze = t, ![d].o = @ + call.left]
        /\ Give(d, call.left, b)
    BY <1>4, <2>1, <2>2, RhoType DEF NewBlocks
  <2> HIDE DEF n, b
  <2>4. deck' = [deck EXCEPT ![d] = v]
    <3> DEFINE p == t
               c == OD(u.D.o, s)
               m == o + l
    <3>1. u = [D |-> c, Dsqueeze |-> q, o |-> o]
      BY <1>2
    <3>2. DOMAIN deck = Decks
      BY DEF IInv
    <3> HIDE DEF c, p
    <3>3. deck' = [deck EXCEPT ![d] = [[u EXCEPT !.Dsqueeze = p] EXCEPT !.o = m]]
      BY <1>2, <2>3, <3>2 DEF p
    <3> HIDE DEF m
    <3>4. [[u EXCEPT !.Dsqueeze = p] EXCEPT !.o = m] = [D |-> u.D, Dsqueeze |-> p, o |-> m]
      BY ONLY <3>1, FieldsChanged
    <3> QED BY ONLY <3>3, <3>4 DEF p, m
  <2>5. v.D = u.D /\ v.o = o + l /\ v.Dsqueeze = t
        /\ v = [D |-> v.D, Dsqueeze |-> v.Dsqueeze, o |-> v.o]
    OBVIOUS
  <2> DEFINE a == k * Rho
             c == n * Rho
  <2>6. a \in Nat /\ c \in Nat /\ l = c + rest /\ rest \in 0 .. Rho /\ o = a + Rho
    <3>1. a \in Nat /\ c \in Nat /\ rest = l - c /\ l - c \in 0 .. Rho /\ o = a + Rho
      BY <1>3, <1>5, <1>6
    <3> HIDE DEF a, c, rest, u
    <3> QED BY <1>2, <3>1, RhoType
  <2>7. (k + n) * Rho = a + c /\ (k + n + 1) * Rho = a + c + Rho
        /\ (k + n + 1 + 1) * Rho = a + c + Rho + Rho /\ k + n \in Nat /\ k + n + 1 \in Nat
    BY <1>6, RhoType
  <2>8. t = OD(IF rest = 0 THEN Rho ELSE rest, t.s)
    <3>1. CASE rest = 0
      <4>1. t = OD(Rho, Onward(s, k + n))
        BY <1>7, <3>1
      <4> HIDE DEF t
      <4> QED BY <3>1, <4>1, ODFields
    <3>2. CASE rest # 0
      <4> HIDE DEF t
      <4> QED BY <1>8, <3>2, ODFields
    <3> QED BY <3>1, <3>2
  <2>9. /\ IsSeq(b) /\ Len(b) = c + rest
        /\ \A j \in 1 .. c + rest : b[j] = StreamByte(OD(u.D.o, s), a + Rho + j - 1)
    <3> DEFINE g == IF rest = 0 THEN Rho ELSE rest
               z == t.s
               p == u.D.o
    <3>1. b = BlocksOut(OD(Rho, Onward(s, k)), 2, n) \o Output(OD(g, z), 0, rest)
      BY <1>5, <2>8, Zenon DEF b
    <3>2. z = Onward(s, k + n + 1) \/ rest = 0
      BY <1>8, ODFields
    <3> HIDE DEF t, rest, u, p, z, g, s, n
    <3>3. IsSeq(s) /\ n \in Nat /\ k \in Nat /\ rest \in 0 .. Rho /\ a \in Nat /\ c \in Nat
      BY ONLY <1>2, <1>6, <2>6, k \in Nat
    <3>4. Follow(BlocksOut(OD(Rho, Onward(s, k)), 2, n) \o Output(OD(g, z), 0, rest),
                 OD(p, s), k * Rho + Rho, n * Rho + rest)
      BY ONLY <3>2, <3>3, BytesOfNewBlocks
    <3>5. Follow(b, OD(p, s), a + Rho, c + rest)
      BY ONLY <3>1, <3>4
    <3> HIDE DEF a, c
    <3> QED BY ONLY <3>5, Zenon DEF Follow, p
  <2>10. \A j \in 1 .. l : b[j] = StreamByte(u.D, o + j - 1)
    <3>1. u.D = OD(u.D.o, s)
      BY <1>2
    <3> QED BY ONLY <2>6, <2>9, <3>1
  <2>11. \E i \in Nat : InBlock(v, i)
    <3> DEFINE i == IF rest = 0 THEN k + n ELSE k + n + 1
               g == IF rest = 0 THEN Rho ELSE rest
               e == i * Rho
    <3>1. i \in Nat /\ Rho <= v.o /\ e < v.o /\ v.o <= e + Rho /\ v.o - e = g
          /\ (i + 1) * Rho = e + Rho
      <4>1. e = IF rest = 0 THEN a + c ELSE a + c + Rho
        BY <2>7
      <4>2. (i + 1) * Rho = e + Rho /\ i \in Nat
        BY <2>7
      <4> HIDE DEF a, c, rest, e, i, v
      <4>3. v.o = a + Rho + c + rest
        BY ONLY <2>5, <2>6, RhoType
      <4> QED BY ONLY <2>6, <4>1, <4>2, <4>3, RhoType DEF g
    <3>2. v.D.s = s
      BY <2>5
    <3>3. t = OD(g, Onward(s, i))
      BY <1>7, <1>8
    <3> HIDE DEF i, e, g, t, v
    <3>4. v.Dsqueeze = OD(v.o - e, Onward(v.D.s, i))
      BY ONLY <2>5, <3>1, <3>2, <3>3
    <3> QED BY <3>1, <3>4 DEF InBlock, e
  <2> HIDE DEF v, t, rest, a, c
  <2>12. v.o > Rho
    BY ONLY <1>2, <2>5, <2>6, RhoType
  <2>13. Opened(v) /\ v.D.s = s /\ (v.o <= Rho => v.D.o = v.o)
    <3>1. v.D.o = u.D.o /\ v.D.s = s
      BY ONLY <2>5
    <3>2. u.D = OD(u.D.o, s)
      BY <1>2
    <3>3. v = [D |-> OD(v.D.o, v.D.s), Dsqueeze |-> v.Dsqueeze, o |-> v.o]
      BY ONLY <2>5, <3>1, <3>2
    <3>4. v.D.o \in 0 .. Rho /\ IsSeq(v.D.s)
      BY ONLY <1>2, <3>1
    <3>5. ~(v.o <= Rho)
      BY ONLY <1>2, <2>5, <2>12, RhoType
    <3> QED BY ONLY <3>1, <3>3, <3>4, <3>5 DEF Opened
  <2>14. Len(b) = l /\ l \in 0 .. call.left
    BY ONLY <1>2, <2>6, <2>9
  <2> QED BY ONLY IInv, call.in \notin astray, <1>2, <2>3, <2>4, <2>5, <2>9, <2>10, <2>11,
        <2>13, <2>14, GiveIInv
<1> QED BY ONLY <1>9, <1>10

-----------------------------------------------------------------------------
(* A clone gone astray gives bytes, not those of its stream.               *)

LEMMA StrayGives ==
  ASSUME IInv, call # Idle, ~aborted, call.in \in astray, NEW n \in 0 .. call.left,
         NEW p, NEW t, NEW bytes, Give(call.in, n, bytes),
         deck' = [deck EXCEPT ![call.in] = [D |-> deck[call.in].D, Dsqueeze |-> OD(p, t),
                                            o |-> deck[call.in].o + n]]
  PROVE  IInv'
<1> DEFINE d == call.in
           u == deck[d]
           v == [D |-> u.D, Dsqueeze |-> OD(p, t), o |-> u.o + n]
<1>1. /\ call = [in |-> d, left |-> call.left, add |-> call.add, begun |-> call.begun]
      /\ d \in Decks /\ call.left \in Nat \ {0} /\ n \in Nat /\ Opened(u)
  BY DEF IInv, CallInv
<1>2. Strayed(u)
  <2>1. DeckInv(d) /\ u # NoDeck
    BY <1>1, RhoType DEF IInv, Opened, NoDeck, NoOD, OD
  <2> QED BY <2>1 DEF DeckInv
<1>3. UNCHANGED <<aborted, astray>> /\ DOMAIN stream' = Decks
      /\ \A e \in Decks : e # d => stream'[e] = stream[e]
  BY DEF Give, IInv
<1>4. DOMAIN deck' = Decks /\ deck'[d] = v /\ \A e \in Decks : e # d => deck'[e] = deck[e]
  BY <1>1 DEF IInv
<1>5. v.D = u.D /\ v.o = u.o + n /\ v.Dsqueeze = OD(p, t)
      /\ v = [D |-> v.D, Dsqueeze |-> v.Dsqueeze, o |-> v.o]
  OBVIOUS
<1> HIDE DEF v
<1>6. Opened(v) /\ Strayed(v)
  <2>1. Opened(v)
    BY <1>1, <1>5 DEF Opened
  <2>2. v.o \in Nat /\ v.o > Rho
    BY <1>1, <1>2, <1>5, RhoType DEF Strayed
  <2>3. v.Dsqueeze = OD(v.Dsqueeze.o, v.Dsqueeze.s)
    BY <1>5, ODFields
  <2> QED BY <2>1, <2>2, <2>3 DEF Strayed
<1>7. \A e \in Decks : DeckInv(e)'
  <2> TAKE e \in Decks
  <2>1. CASE e = d
    BY <1>3, <1>4, <1>6, <2>1 DEF DeckInv
  <2>2. CASE e # d
    <3>1. DeckInv(e)
      BY DEF IInv
    <3> QED BY <1>3, <1>4, <2>2, <3>1, DeckStays
  <2> QED BY <2>1, <2>2
<1>8. CallInv'
  <2>1. CASE call.left = n
    BY <2>1 DEF CallInv, Give
  <2>2. CASE call.left # n
    <3> DEFINE c == AddAfter(call.add, n)
    <3> HIDE DEF c
    <3>1. call' = [in |-> d, left |-> call.left - n, add |-> c, begun |-> TRUE]
      BY <1>1, <2>2 DEF Give, c
    <3>2. call.left - n \in Nat \ {0}
      BY <1>1, <2>2
    <3>3. /\ call'.in = d /\ call'.left = call.left - n /\ call'.begun = TRUE
          /\ call' = [in |-> call'.in, left |-> call'.left, add |-> call'.add,
                      begun |-> call'.begun]
      BY <3>1
    <3>4. deck'[call'.in] = v /\ call'.in \in astray'
      BY <1>3, <1>4, <3>3
    <3> QED BY <1>1, <1>6, <3>2, <3>3, <3>4 DEF CallInv
  <2> QED BY <2>1, <2>2
<1>9. OnlyKnownFailures'
  BY <1>3 DEF OnlyKnownFailures
<1> QED BY <1>3, <1>4, <1>7, <1>8, <1>9 DEF IInv

\* The state of an object may change, its block size does not.
LEMMA StaysOD ==
  ASSUME NEW o, NEW s, NEW n
  PROVE  /\ \E p, t : OD_DuplexingFastOnlyOut(OD(o, s), 2, n) = OD(p, t)
         /\ \E p, t : OD_Duplexing(OD(o, s), <<>>, 2, n) = OD(p, t)
         /\ \E p, t : OD_Squeezing(OD(o, s), n) = OD(p, t)
<1>1. n # 0 => OD_DuplexingFastOnlyOut(OD(o, s), 2, n) = OD(Rho, Onward(s, n))
  BY DEF OD_DuplexingFastOnlyOut, OD, Onward, EmptyBlocks, EmptyBlock
<1>2. n = 0 => OD_DuplexingFastOnlyOut(OD(o, s), 2, n) = OD(o, s)
  BY DEF OD_DuplexingFastOnlyOut
<1> DEFINE y == After(OD(o, s), <<>>, 2)
<1>3. OD_Duplexing(OD(o, s), <<>>, 2, n) = OD(n, y)
  <2>1. OD_Duplexing(OD(o, s), <<>>, 2, n) = [OD(o, s) EXCEPT !.s = y, !.o = n]
    BY DEF OD_Duplexing
  <2> HIDE DEF y
  <2>2. [OD(o, s) EXCEPT !.s = y] = OD(o, y)
    BY DEF OD
  <2>3. [OD(o, y) EXCEPT !.o = n] = OD(n, y)
    BY DEF OD
  <2> QED BY <2>1, <2>2, <2>3
<1>4. OD_Squeezing(OD(o, s), n) = OD(o + n, s)
  BY DEF OD_Squeezing, OD
<1> QED BY <1>1, <1>2, <1>3, <1>4

LEMMA StrayIInv ==
  ASSUME IInv, Loop, call.in \in astray
  PROVE  IInv'
<1> DEFINE d == call.in
           u == deck[d]
           q == u.Dsqueeze
           l == call.left
<1>1. call # Idle /\ ~aborted
  BY DEF Loop, FromD, NewBlocks, RestOfBlock, InLoop
<1>2. /\ d \in Decks /\ l \in Nat \ {0} /\ Opened(u)
  BY <1>1 DEF IInv, CallInv
<1>3. Strayed(u)
  <2>1. DeckInv(d) /\ u # NoDeck
    BY <1>2, RhoType DEF IInv, Opened, NoDeck, NoOD, OD
  <2> QED BY <2>1 DEF DeckInv
<1>4. /\ u = [D |-> u.D, Dsqueeze |-> q, o |-> u.o] /\ u.D.rho = Rho
      /\ q = OD(q.o, q.s) /\ q.rho = Rho /\ u.o \in Nat /\ u.o > Rho
  BY <1>2, <1>3, ODFields DEF Opened, Strayed
<1>5. CASE Fails
  BY <1>1, <1>5, FailsIInv
<1>6. ASSUME NEW n \in 0 .. l, NEW r, NEW p, NEW t, r = OD(p, t), NEW bytes, Give(d, n, bytes),
             deck' = [deck EXCEPT ![d].Dsqueeze = r, ![d].o = @ + n]
      PROVE  IInv'
  <2>1. DOMAIN deck = Decks
    BY DEF IInv
  <2>2. deck' = [deck EXCEPT ![d] = [[u EXCEPT !.Dsqueeze = r] EXCEPT !.o = u.o + n]]
    BY <1>2, <1>4, <1>6, <2>1
  <2>3. [[u EXCEPT !.Dsqueeze = r] EXCEPT !.o = u.o + n]
        = [D |-> u.D, Dsqueeze |-> r, o |-> u.o + n]
    BY <1>4, FieldsChanged
  <2>4. deck' = [deck EXCEPT ![d] = [D |-> u.D, Dsqueeze |-> OD(p, t), o |-> u.o + n]]
    BY <1>6, <2>2, <2>3
  <2> QED BY <1>1, <1>6, <2>4, StrayGives
<1>7. ~FromD
  BY <1>4, RhoType DEF FromD
<1>8. CASE RestOfBlock /\ ~Fails
  <2> DEFINE x == LesserOf(Rho - (u.o % Rho), l)
  <2>1. x \in 0 .. l
    <3>1. u.o % Rho \in 0 .. Rho - 1
      BY <1>4, RhoType, Quotients
    <3> QED BY <1>2, <3>1, RhoType DEF LesserOf
  <2>2. PICK p, t : OD_Squeezing(q, x) = OD(p, t)
    BY <1>4, StaysOD
  <2> HIDE DEF x
  <2>3. /\ deck' = [deck EXCEPT ![d].Dsqueeze = OD_Squeezing(@, x), ![d].o = @ + x]
        /\ Give(d, x, Output(q, q.o, x))
    BY <1>4, <1>8, Zenon DEF RestOfBlock, x
  <2>4. deck' = [deck EXCEPT ![d].Dsqueeze = OD_Squeezing(q, x), ![d].o = @ + x]
    BY <1>2, <2>3 DEF IInv
  <2> QED BY <1>6, <2>1, <2>2, <2>3, <2>4
<1>9. CASE NewBlocks /\ ~Fails
  <2> DEFINE n == IF l > q.rho THEN l \div q.rho ELSE 0
             r == IF n = 0 THEN q ELSE OD_DuplexingFastOnlyOut(q, 2, n)
             rest == l - n * q.rho
             t == IF rest = 0 THEN r ELSE OD_Duplexing(r, <<>>, 2, rest)
             b == BlocksOut(q, 2, n) \o Output(t, 0, rest)
  <2>1. \E p, z : r = OD(p, z)
    <3> HIDE DEF n, q
    <3> QED BY <1>4, StaysOD
  <2>2. \E p, z : t = OD(p, z)
    <3> HIDE DEF r, rest
    <3> QED BY <2>1, StaysOD
  <2>3. /\ deck' = [deck EXCEPT ![d].Dsqueeze = t, ![d].o = @ + l]
        /\ Give(d, l, b)
    BY <1>9, Zenon DEF NewBlocks
  <2>4. l \in 0 .. l
    BY <1>2
  <2> HIDE DEF t, b
  <2> QED BY <1>6, <2>2, <2>3, <2>4
<1> QED BY <1>5, <1>7, <1>8, <1>9 DEF Loop

-----------------------------------------------------------------------------
(* The other operations, each on one deck.                                 *)

\* The stream of deck d becomes str, the others stay.
StreamBecomes(d, str) ==
  /\ DOMAIN stream' = Decks /\ stream'[d] = str
  /\ \A e \in Decks \ {d} : stream'[e] = stream[e]

LEMMA DeckChanges ==
  ASSUME IInv, NEW d \in Decks, NEW v, NEW str,
         deck' = [deck EXCEPT ![d] = v], StreamBecomes(d, str),
         astray \ {d} = astray' \ {d}, ~aborted, aborted' = aborted, Opened(v),
         d \in astray' => Strayed(v), d \notin astray' => Streaming(v, str), CallInv'
  PROVE  IInv'
<1>1. /\ DOMAIN deck' = Decks /\ DOMAIN stream' = Decks
      /\ deck'[d] = v /\ stream'[d] = str
      /\ \A e \in Decks : e # d => deck'[e] = deck[e] /\ stream'[e] = stream[e]
  BY DEF IInv, StreamBecomes
<1>2. \A e \in Decks : DeckInv(e)'
  <2> TAKE e \in Decks
  <2>1. CASE e = d
    BY <1>1, <2>1 DEF DeckInv
  <2>2. CASE e # d
    <3>1. DeckInv(e)
      BY DEF IInv
    <3> QED BY <1>1, <2>2, <3>1, DeckStays
  <2> QED BY <2>1, <2>2
<1>3. OnlyKnownFailures'
  BY DEF OnlyKnownFailures
<1> QED BY <1>1, <1>2, <1>3 DEF IInv

LEMMA NothingGiven ==
  ASSUME NEW u
  PROVE  Len(<<>>) = 0 /\ InOrder(u, <<>>)
<1>1. <<>> \in Seq({}) /\ Len(<<>>) = 0
  OBVIOUS
<1> QED BY <1>1 DEF InOrder, IsSeq

LEMMA OpenedIf ==
  ASSUME NEW o \in 0 .. Rho, NEW s, IsSeq(s), NEW q, NEW n
  PROVE  Opened([D |-> OD(o, s), Dsqueeze |-> q, o |-> n])
BY ODFields DEF Opened

LEMMA ReadyDeck ==
  ASSUME IInv, NEW d \in Decks, Ready(d)
  PROVE  /\ call = Idle /\ ~aborted /\ Opened(deck[d])
         /\ d \in astray => Strayed(deck[d])
         /\ d \notin astray => Streaming(deck[d], stream[d])
<1>1. DeckInv(d) /\ deck[d] # NoDeck /\ call = Idle
  BY DEF IInv, Ready, NoDeck, NoOD
<1> QED BY <1>1 DEF DeckInv, Ready

LEMMA InitIInv ==
  ASSUME Init
  PROVE  IInv
BY DEF Init, IInv, DeckInv, CallInv, OnlyKnownFailures

LEMMA InitializeIInv ==
  ASSUME IInv, NEW d \in Decks, UpperDeck_Initialize(d)
  PROVE  IInv'
<1> DEFINE s == After(OD(Rho, <<>>), Key, 1)
           v == [D |-> OD(0, s), Dsqueeze |-> NoOD, o |-> NoOffset]
<1>1. OD_Initialize(Rho, Key) = OD(0, s) /\ IsSeq(s)
  <2>1. IsSeq(<<>>) /\ [rho |-> Rho, o |-> Rho, s |-> <<>>] = OD(Rho, <<>>)
    BY NothingGiven DEF InOrder, OD
  <2> QED BY <2>1, Duplexed DEF OD_Initialize
<1>2. deck' = [deck EXCEPT ![d] = v] /\ call' = Idle /\ ~aborted
      /\ UNCHANGED <<aborted, stream, astray>>
  BY <1>1 DEF UpperDeck_Initialize
<1>3. stream[d] = <<>> /\ d \notin astray
  <2>1. deck[d] = NoDeck /\ DeckInv(d)
    BY DEF IInv, UpperDeck_Initialize
  <2>2. ~Opened(NoDeck)
    BY RhoType DEF Opened, NoDeck, NoOD, OD
  <2> QED BY <2>1, <2>2 DEF DeckInv
<1>4. StreamBecomes(d, <<>>)
  BY <1>2, <1>3 DEF IInv, StreamBecomes
<1>5. 0 \in 0 .. Rho
  BY RhoType
<1>6. Streaming(v, <<>>)
  BY NothingGiven DEF Streaming
<1>7. CallInv'
  BY <1>2 DEF CallInv
<1>8. Opened(v)
  BY <1>1, <1>5, OpenedIf
<1> HIDE DEF v
<1> QED BY ONLY IInv, d \in Decks, <1>2, <1>3, <1>4, <1>6, <1>7, <1>8, DeckChanges

LEMMA CloneIInv ==
  ASSUME IInv, NEW d \in Decks, NEW e \in Decks, UpperDeck_Clone(d, e)
  PROVE  IInv'
<1> DEFINE v == [o |-> deck[d].o, D |-> deck[d].D, Dsqueeze |-> deck[d].D]
           str == stream[d]
<1>1. /\ call = Idle /\ ~aborted /\ Opened(deck[d])
      /\ d \in astray => Strayed(deck[d])
      /\ d \notin astray => Streaming(deck[d], str)
  BY ReadyDeck DEF UpperDeck_Clone
<1>2. /\ deck' = [deck EXCEPT ![e] = v] /\ StreamBecomes(e, str)
      /\ call' = call /\ aborted' = aborted
      /\ astray' = IF PastFirst(d) THEN astray \cup {e} ELSE astray \ {e}
  BY DEF UpperDeck_Clone, IInv, StreamBecomes
<1>3. v.D = deck[d].D /\ v.o = deck[d].o /\ v.Dsqueeze = deck[d].D
      /\ v = [D |-> v.D, Dsqueeze |-> v.Dsqueeze, o |-> v.o]
  OBVIOUS
<1> HIDE DEF v, str
<1>4. deck[d].D = OD(deck[d].D.o, deck[d].D.s)
  BY <1>1 DEF Opened
<1>5. Opened(v)
  <2>1. v = [D |-> OD(v.D.o, v.D.s), Dsqueeze |-> v.Dsqueeze, o |-> v.o]
    BY ONLY <1>3, <1>4
  <2> QED BY <1>1, <1>3, <2>1 DEF Opened
<1>6. e \in astray' => Strayed(v)
  <2> SUFFICES ASSUME PastFirst(d) PROVE Strayed(v)
    BY <1>2
  <2>1. deck[d].o \in Nat /\ deck[d].o > Rho
    BY <1>1 DEF PastFirst, Strayed, Streaming, Placed
  <2> QED BY <1>3, <1>4, <2>1 DEF Strayed
<1>7. e \notin astray' => Streaming(v, str)
  <2> SUFFICES ASSUME ~PastFirst(d) PROVE Streaming(v, str)
    BY <1>2
  <2>1. InOrder(v, str)
    BY <1>1, <1>3 DEF PastFirst, Streaming, InOrder
  <2>2. v.o = NoOffset \/ Placed(v, Len(str), FALSE)
    BY <1>1, <1>3 DEF PastFirst, Streaming, Placed
  <2> QED BY <2>1, <2>2 DEF Streaming
<1>8. CallInv'
  BY <1>1, <1>2 DEF CallInv
<1>9. astray \ {e} = astray' \ {e}
  BY <1>2
<1> QED BY ONLY IInv, e \in Decks, <1>1, <1>2, <1>5, <1>6, <1>7, <1>8, <1>9, DeckChanges

LEMMA CloneCompactIInv ==
  ASSUME IInv, NEW d \in Decks, NEW e \in Decks, UpperDeck_CloneCompact(d, e)
  PROVE  IInv'
<1> DEFINE s == deck[d].D.s
           v == [D |-> OD(Rho, s), Dsqueeze |-> NoOD, o |-> NoOffset]
<1>1. call = Idle /\ ~aborted /\ Opened(deck[d])
  BY ReadyDeck DEF UpperDeck_CloneCompact
<1>2. IsSeq(s) /\ OD_CloneCompact(deck[d].D) = OD(Rho, s)
  <2>1. deck[d].D = OD(deck[d].D.o, s) /\ IsSeq(s) /\ deck[d].D.o \in Nat
    BY <1>1, RhoType DEF Opened
  <2> QED BY <2>1, SqueezedOD
<1>3. /\ deck' = [deck EXCEPT ![e] = v] /\ StreamBecomes(e, <<>>)
      /\ call' = call /\ aborted' = aborted /\ astray' = astray \ {e}
  BY <1>2 DEF UpperDeck_CloneCompact, IInv, StreamBecomes
<1>4. Streaming(v, <<>>)
  BY NothingGiven DEF Streaming
<1>5. Opened(v)
  <2>1. Rho \in 0 .. Rho
    BY RhoType
  <2> QED BY <1>2, <2>1, OpenedIf
<1>6. CallInv'
  BY <1>1, <1>3 DEF CallInv
<1> HIDE DEF v
<1>7. astray \ {e} = astray' \ {e} /\ e \notin astray'
  BY <1>3
<1> QED BY ONLY IInv, e \in Decks, <1>1, <1>3, <1>4, <1>5, <1>6, <1>7, DeckChanges

\* What the call that begins keeps to.
LEMMA CallBegins ==
  ASSUME NEW d \in Decks, NEW n \in Nat, NEW h \in BOOLEAN, Squeeze(d, n, h),
         Opened(deck'[d]), d \notin astray' => Placed(deck'[d], Len(stream'[d]), FALSE)
  PROVE  CallInv'
<1> DEFINE a == IF h THEN Len(stream'[d]) ELSE NoAdd
<1>1. CASE n = 0
  BY <1>1 DEF Squeeze, CallInv
<1>2. CASE n # 0
  <2>1. call' = [in |-> d, left |-> n, begun |-> FALSE, add |-> a]
    BY <1>2 DEF Squeeze
  <2>3. a \in {NoAdd, Len(stream'[d])}
    OBVIOUS
  <2> HIDE DEF a
  <2>4. call'.in = d /\ call'.left = n /\ call'.begun = FALSE /\ call'.add = a
        /\ call' = [in |-> call'.in, left |-> call'.left, add |-> call'.add, begun |-> call'.begun]
    BY <2>1
  <2>5. /\ Opened(deck'[call'.in])
        /\ call'.in \notin astray' =>
             Placed(deck'[call'.in], Len(stream'[call'.in]), call'.begun)
    BY ONLY <2>4, Opened(deck'[d]), d \notin astray' => Placed(deck'[d], Len(stream'[d]), FALSE)
  <2> QED BY <1>2, <2>3, <2>4, <2>5 DEF CallInv
<1> QED BY <1>1, <1>2

LEMMA DuplexingIInv ==
  ASSUME IInv, NEW d \in Decks, NEW X \in Strings, NEW E \in Trailers, NEW n \in Nat,
         NEW h \in BOOLEAN, UpperDeck_Duplexing(d, X, E, n, h)
  PROVE  IInv'
<1> DEFINE o == deck[d].D.o
           s == deck[d].D.s
           D == AfterFirstBlocks(deck[d].D, X)
           last == LastBlock(deck[d].D, X)
           F == OD_Concat(E, 1)
<1>1. deck[d].D = OD(o, s) /\ IsSeq(s) /\ IsSeq(X)
  <2>1. Opened(deck[d])
    BY ReadyDeck DEF UpperDeck_Duplexing
  <2> QED BY <2>1, UpperDeckAssumption DEF Opened, IsSeq
<1>2. PICK p, t : D = OD(p, t) /\ IsSeq(t)
  BY <1>1, BlocksTaken
<1>3. CanDuplex(D, last, F, 0)
  <2>1. Len(last) <= Rho
    BY <1>1, LastBlockFits
  <2>2. F \in 1 .. 63
    BY TrailerFits, UpperDeckAssumption
  <2>3. D.rho = Rho
    BY <1>2, ODFields
  <2> HIDE DEF D, last, F
  <2> QED BY <2>1, <2>2, <2>3, RhoType DEF CanDuplex
<1> DEFINE y == After(OD(p, t), last, F)
           v == [D |-> OD(0, y), Dsqueeze |-> NoOD, o |-> 0]
<1>4. OD_Duplexing(D, last, F, 0) = OD(0, y) /\ IsSeq(y)
  <2> HIDE DEF D, last, F
  <2> QED BY <1>2, Duplexed
<1>5. /\ deck' = [deck EXCEPT ![d] = v] /\ StreamBecomes(d, <<>>) /\ aborted' = aborted
      /\ Squeeze(d, n, h) /\ astray' = astray \ {d}
  BY <1>3, <1>4 DEF UpperDeck_Duplexing, IInv, StreamBecomes
<1>6. Opened(v) /\ v.o = 0 /\ v.D = OD(0, y)
  <2>1. 0 \in 0 .. Rho
    BY RhoType
  <2> QED BY <1>4, <2>1, OpenedIf
<1> HIDE DEF v, y
<1>7. Placed(v, Len(<<>>), FALSE)
  BY <1>6, RhoType, NothingGiven, ODFields DEF Placed
<1>8. CallInv'
  <2>1. deck'[d] = v /\ stream'[d] = <<>>
    BY <1>5 DEF IInv, StreamBecomes
  <2> QED BY <1>5, <1>6, <1>7, <2>1, CallBegins
<1>9. Streaming(v, <<>>)
  BY <1>7, NothingGiven DEF Streaming
<1>10. astray \ {d} = astray' \ {d} /\ d \notin astray'
  BY <1>5
<1>11. ~aborted
  BY DEF UpperDeck_Duplexing, Ready
<1> QED BY ONLY IInv, d \in Decks, <1>5, <1>6, <1>8, <1>9, <1>10, <1>11, DeckChanges

LEMMA SqueezingIInv ==
  ASSUME IInv, NEW d \in Decks, NEW n \in Nat, NEW h \in BOOLEAN, UpperDeck_Squeezing(d, n, h)
  PROVE  IInv'
<1>1. /\ Opened(deck[d]) /\ ~aborted
      /\ d \notin astray => Placed(deck[d], Len(stream[d]), FALSE)
  BY ReadyDeck DEF UpperDeck_Squeezing, Streaming
<1>2. UNCHANGED <<deck, stream, astray, aborted>>
  BY DEF UpperDeck_Squeezing
<1>3. CallInv'
  <2>1. Squeeze(d, n, h)
    BY DEF UpperDeck_Squeezing
  <2> QED BY <1>1, <1>2, <2>1, CallBegins
<1>4. \A e \in Decks : DeckInv(e)'
  BY <1>2, DeckStays DEF IInv
<1>5. OnlyKnownFailures'
  BY <1>1, <1>2 DEF OnlyKnownFailures
<1> QED BY <1>2, <1>3, <1>4, <1>5 DEF IInv

LEMMA NextIInv ==
  ASSUME IInv, [Next]_vars
  PROVE  IInv'
<1>1. ASSUME NEW d \in Decks, UpperDeck_Initialize(d) PROVE IInv'
  BY <1>1, InitializeIInv
<1>2. ASSUME NEW d \in Decks, NEW e \in Decks, UpperDeck_Clone(d, e) PROVE IInv'
  BY <1>2, CloneIInv
<1>3. ASSUME NEW d \in Decks, NEW e \in Decks, UpperDeck_CloneCompact(d, e) PROVE IInv'
  BY <1>3, CloneCompactIInv
<1>4. ASSUME NEW d \in Decks, NEW X \in Strings, NEW E \in Trailers, NEW h \in BOOLEAN,
             NEW n \in 0 .. MaxOutput[d], UpperDeck_Duplexing(d, X, E, n, h)
      PROVE  IInv'
  <2>1. n \in Nat
    BY UpperDeckAssumption
  <2> QED BY <1>4, <2>1, DuplexingIInv
<1>5. ASSUME NEW d \in Decks, NEW h \in BOOLEAN, NEW n \in 0 .. MaxOutput[d],
             UpperDeck_Squeezing(d, n, h)
      PROVE  IInv'
  <2>1. n \in Nat
    BY <1>5, UpperDeckAssumption
  <2> QED BY <1>5, <2>1, SqueezingIInv
<1>6. CASE Loop
  BY <1>6, FromDIInv, NewBlocksIInv, RestOfBlockIInv, StrayIInv DEF Loop
<1>7. CASE UNCHANGED vars
  <2>1. UNCHANGED <<deck, call, aborted, stream, astray>>
    BY <1>7 DEF vars
  <2>2. \A e \in Decks : DeckInv(e)'
    BY <2>1, DeckStays DEF IInv
  <2>3. CallInv'
    BY <2>1 DEF IInv, CallInv
  <2> QED BY <2>1, <2>2, <2>3 DEF IInv, OnlyKnownFailures
<1> QED BY <1>1, <1>2, <1>3, <1>4, <1>5, <1>6, <1>7 DEF Next

-----------------------------------------------------------------------------
(* What the state of a deck is made of, whatever the callers do.           *)

LEMMA Smallest ==
  ASSUME NEW T, T \subseteq Nat, T # {}
  PROVE  \E x \in T : \A y \in T : x <= y
<1> DEFINE R == OpToRel(<, Nat)
<1>1. \E x \in T : \A y \in T : ~ (<<y, x>> \in R)
  <2>1. IsWellFoundedOn(R, Nat)
    BY NatLessThanWellFounded
  <2> HIDE DEF R
  <2> QED BY <2>1, WFMin
<1>2. \A x, y \in Nat : y < x => <<y, x>> \in R
  BY DEF OpToRel
<1> HIDE DEF R
<1>3. PICK x \in T : \A y \in T : ~ (<<y, x>> \in R)
  BY <1>1
<1>4. \A y \in T : ~(y < x)
  BY <1>2, <1>3, Zenon
<1>5. \A y \in T : x <= y
  BY <1>4
<1> QED BY <1>5

\* What holds of 0 and with n of n + 1: the naturals it holds of are a set.
LEMMA Induction ==
  ASSUME NEW T, 0 \in T, \A n \in Nat : n \in T => n + 1 \in T
  PROVE  \A n \in Nat : n \in T
<1> SUFFICES ASSUME NEW m \in Nat, m \notin T PROVE FALSE
  OBVIOUS
<1> DEFINE U == Nat \ T
<1>1. PICK x \in U : \A y \in U : x <= y
  BY Smallest
<1>2. x # 0 /\ x - 1 \in Nat /\ x - 1 \notin U
  BY <1>1
<1> QED BY <1>2

-----------------------------------------------------------------------------
(* What a string leaves in the state.                                      *)

\* Input is absorbed as it is.
LEMMA InputAbsorbed ==
  ASSUME NEW s, NEW n, NEW x, x = [i \in 1 .. n |-> x[i]], \A i \in 1 .. n : x[i] \subseteq InputTerms
  PROVE  Absorbed(s, x) = x
<1>1. \A t \in InputTerms : Backward(s, t) = t
  <2> TAKE t \in InputTerms
  <2>1. Len(t) = 1
    BY DEF InputTerms
  <2> QED BY <2>1 DEF Backward
<1>2. \A i \in 1 .. n : {Backward(s, t) : t \in x[i]} = x[i]
  BY <1>1
<1>3. DOMAIN x = 1 .. n
  OBVIOUS
<1> QED BY <1>2, <1>3 DEF Absorbed

\* The blocks before the last one, and the last one.
Before(X) == IF Len(X) > Rho THEN (Len(X) - 1) \div Rho ELSE 0
LastOf(X) == IF Len(X) > Rho THEN SubSeq(X, Before(X) * Rho + 1, Len(X)) ELSE X
IsFull(X) == IF Len(LastOf(X)) = Rho THEN 1 ELSE 0
InnerBlock(X, j) == SubSeq(X, (j - 1) * Rho + 1, j * Rho)

\* Block j of string X with trailer E, as it is absorbed.
BlockOf(X, E, j) ==
  IF j <= Before(X) THEN <<InnerBlock(X, j), OD_Concat(2, 1)>>
  ELSE <<Padded(Rho, LastOf(X)), OD_Concat(OD_Concat(E, 1), IsFull(X))>>

IsString(X) == X \in Seq(SUBSET InputTerms)

LEMMA Cutting ==
  ASSUME NEW X, IsString(X)
  PROVE  /\ Before(X) \in Nat /\ Len(X) \in Nat
         /\ Before(X) * Rho \in Nat /\ Before(X) * Rho <= Len(X) /\ IsString(LastOf(X))
         /\ Len(LastOf(X)) = Len(X) - Before(X) * Rho /\ Len(LastOf(X)) <= Rho
         /\ \A i \in 1 .. Len(LastOf(X)) : LastOf(X)[i] = X[Before(X) * Rho + i]
<1> DEFINE n == Before(X)
           m == n * Rho
<1>1. Len(X) \in Nat
  BY LenProperties DEF IsString
<1>2. CASE Len(X) > Rho
  <2> DEFINE l == Len(X) - 1
  <2>1. l \in Nat /\ n = l \div Rho
    BY <1>1, <1>2, RhoType DEF Before
  <2> HIDE DEF l, n
  <2>2. n \in Nat /\ l % Rho \in 0 .. Rho - 1 /\ l = m + (l % Rho)
    BY <2>1, RhoType, Quotients
  <2>3. m \in Nat
    BY <2>2, RhoType
  <2> HIDE DEF m
  <2>4. m <= l /\ l < m + Rho
    BY <2>1, <2>2, <2>3, RhoType
  <2>5. LastOf(X) = SubSeq(X, m + 1, Len(X))
    BY <1>2 DEF LastOf, m, n
  <2>6. \A i \in m + 1 .. Len(X) : X[i] \in SUBSET InputTerms
    BY <1>1, <2>3, ElementOfSeq DEF IsString
  <2>7. /\ IsString(LastOf(X)) /\ Len(LastOf(X)) = Len(X) - m
        /\ \A i \in 1 .. Len(X) - m : LastOf(X)[i] = X[m + i]
    <3> DEFINE a == m + 1
    <3>1. a \in Int /\ a <= Len(X) /\ Len(X) - a + 1 = Len(X) - m
          /\ \A i \in 1 .. Len(X) - m : a + i - 1 = m + i
      BY <1>1, <2>1, <2>3, <2>4 DEF l
    <3> HIDE DEF a
    <3>2. \A i \in a .. Len(X) : X[i] \in SUBSET InputTerms
      BY <2>6 DEF a
    <3>3. /\ SubSeq(X, a, Len(X)) \in Seq(SUBSET InputTerms)
          /\ Len(SubSeq(X, a, Len(X))) = Len(X) - a + 1
          /\ \A i \in 1 .. Len(X) - a + 1 : SubSeq(X, a, Len(X))[i] = X[a + i - 1]
      BY <1>1, <3>1, <3>2, SubSeqProperties
    <3> QED BY <2>5, <3>1, <3>3 DEF a, IsString
  <2>8. m <= Len(X) /\ Len(X) - m <= Rho
    BY <1>1, <2>1, <2>3, <2>4, RhoType DEF l
  <2> QED BY <1>1, <2>2, <2>3, <2>7, <2>8 DEF m, n
<1>3. CASE ~(Len(X) > Rho)
  <2>1. n = 0 /\ m = 0 /\ LastOf(X) = X
    BY <1>3, RhoType DEF Before, LastOf
  <2> QED BY <1>1, <1>3, <2>1, RhoType
<1> QED BY <1>2, <1>3

LEMMA InnerBlockIs ==
  ASSUME NEW X, IsString(X), NEW j \in 1 .. Before(X)
  PROVE  /\ (j - 1) * Rho \in Nat /\ j * Rho = (j - 1) * Rho + Rho /\ j * Rho <= Before(X) * Rho
         /\ InnerBlock(X, j) \in Seq(SUBSET InputTerms) /\ Len(InnerBlock(X, j)) = Rho
         /\ \A i \in 1 .. Rho : InnerBlock(X, j)[i] = X[(j - 1) * Rho + i]
<1> DEFINE a == (j - 1) * Rho
           n == Before(X)
<1>1. n \in Nat /\ Len(X) \in Nat /\ n * Rho <= Len(X) /\ n * Rho \in Nat
  BY Cutting
<1> HIDE DEF n
<1>2. j \in 1 .. n
  BY DEF n
<1>3. a \in Nat /\ j * Rho = a + Rho
  BY <1>1, <1>2, RhoType
<1>4. j * Rho <= n * Rho
  <2>1. n - j \in Nat
    BY <1>1, <1>2
  <2>2. (n - j) * Rho \in Nat /\ n * Rho = j * Rho + (n - j) * Rho
    BY <1>1, <1>2, <2>1, RhoType
  <2> QED BY <1>3, <2>2, RhoType
<1> HIDE DEF a
<1>5. InnerBlock(X, j) = SubSeq(X, a + 1, a + Rho)
  BY <1>3 DEF InnerBlock, a
<1>6. a + Rho <= Len(X)
  BY <1>1, <1>3, <1>4, RhoType
<1> DEFINE b == a + 1
           c == a + Rho
<1>7. b \in Int /\ c \in Int /\ b <= c /\ c - b + 1 = Rho /\ \A i \in 1 .. Rho : b + i - 1 = a + i
  BY <1>3, RhoType
<1>8. \A i \in b .. c : X[i] \in SUBSET InputTerms
  <2> TAKE i \in b .. c
  <2>1. i \in 1 .. Len(X)
    BY <1>1, <1>3, <1>6, RhoType
  <2> QED BY <2>1, ElementOfSeq DEF IsString
<1> HIDE DEF b, c
<1>9. /\ SubSeq(X, b, c) \in Seq(SUBSET InputTerms) /\ Len(SubSeq(X, b, c)) = c - b + 1
      /\ \A i \in 1 .. c - b + 1 : SubSeq(X, b, c)[i] = X[b + i - 1]
  BY <1>7, <1>8, SubSeqProperties
<1>10. InnerBlock(X, j) = SubSeq(X, b, c)
  BY <1>5 DEF b, c
<1> QED BY <1>3, <1>4, <1>7, <1>9, <1>10 DEF a, n

LEMMA TopIs ==
  ASSUME NEW t \in {1, 2, 4, 8, 16, 32, 64, 128}, NEW E \in Nat, t <= E, E < 2 * t
  PROVE  Top(E) = t
<1>0. 2^0 = 1 /\ 2^1 = 2 /\ 2^2 = 4 /\ 2^3 = 8 /\ 2^4 = 16 /\ 2^5 = 32 /\ 2^6 = 64 /\ 2^7 = 128
  BY SMT
<1> DEFINE P == {2 ^ i : i \in 0 .. 7}
           Q == {1, 2, 4, 8, 16, 32, 64, 128}
<1>1. P = Q
  <2>1. 0 .. 7 = {0, 1, 2, 3, 4, 5, 6, 7}
    BY SMT
  <2>2. {2 ^ i : i \in {0, 1, 2, 3, 4, 5, 6, 7}} = {2^0, 2^1, 2^2, 2^3, 2^4, 2^5, 2^6, 2^7}
    BY Zenon
  <2> QED BY <1>0, <2>1, <2>2
<1> HIDE DEF P
<1>2. Top(E) = CHOOSE u \in Q : u <= E /\ E < 2 * u
  BY <1>1 DEF Top, P
<1>3. \A u \in Q : u <= E /\ E < 2 * u => u = t
  OBVIOUS
<1> DEFINE c == CHOOSE u \in Q : u <= E /\ E < 2 * u
<1>4. c \in Q /\ c <= E /\ E < 2 * c
  <2>1. \E u \in Q : u <= E /\ E < 2 * u
    OBVIOUS
  <2> HIDE DEF Q
  <2> QED BY <2>1, Zenon
<1> HIDE DEF c
<1>5. c = t
  BY <1>3, <1>4
<1> QED BY <1>2, <1>5 DEF c

\* The trailer of a last block, of a string with trailer E.
LastTrailer(E, full) == OD_Concat(OD_Concat(E, 1), full)

LEMMA LastTrailerIs ==
  ASSUME NEW E \in 1 .. 31
  PROVE  \E t \in {1, 2, 4, 8, 16} :
           /\ t <= E /\ E < 2 * t
           /\ LastTrailer(E, 0) = E + 4 * t /\ LastTrailer(E, 1) = E + 6 * t
<1>0. 2^0 = 1 /\ 2^1 = 2
  BY SMT
<1>1. \E t \in {1, 2, 4, 8, 16} : t <= E /\ E < 2 * t
  <2>1. CASE E < 2
    BY <2>1
  <2>2. CASE E >= 2 /\ E < 4
    BY <2>2
  <2>3. CASE E >= 4 /\ E < 8
    BY <2>3
  <2>4. CASE E >= 8 /\ E < 16
    BY <2>4
  <2>5. CASE E >= 16
    BY <2>5
  <2> QED BY <2>1, <2>2, <2>3, <2>4, <2>5
<1>2. PICK t \in {1, 2, 4, 8, 16} : t <= E /\ E < 2 * t
  BY <1>1
<1>3. OD_Concat(E, 1) = E + 2 * t
  <2>1. Top(E) = t
    BY <1>2, TopIs
  <2> QED BY <1>0, <2>1 DEF OD_Concat
<1>4. Top(E + 2 * t) = 2 * t
  <2>1. 2 * t \in {1, 2, 4, 8, 16, 32, 64, 128} /\ E + 2 * t \in Nat
        /\ 2 * t <= E + 2 * t /\ E + 2 * t < 2 * (2 * t)
    BY <1>2
  <2> QED BY <2>1, TopIs
<1>5. LastTrailer(E, 0) = E + 4 * t /\ LastTrailer(E, 1) = E + 6 * t
  <2>1. \A f : LastTrailer(E, f) = (E + 2 * t) + (2 * t) * 2^f
    BY <1>3, <1>4 DEF LastTrailer, OD_Concat
  <2>2. LastTrailer(E, 0) = (E + 2 * t) + (2 * t) * 1 /\ LastTrailer(E, 1) = (E + 2 * t) + (2 * t) * 2
    BY <1>0, <2>1
  <2> QED BY <2>2
<1> QED BY <1>2, <1>5

LEMMA InnerTrailer == OD_Concat(2, 1) = 6
<1>1. Top(2) = 2
  BY TopIs
<1>2. 2^1 = 2
  BY SMT
<1> QED BY <1>1, <1>2 DEF OD_Concat

\* A trailer tells whether its block is the last of a string, then with which
\* trailer the string came and whether the block is padded.
LEMMA TrailerTells ==
  ASSUME NEW E \in 1 .. 31, NEW f \in {0, 1}
  PROVE  /\ LastTrailer(E, f) # 6
         /\ \A F \in 1 .. 31, g \in {0, 1} : LastTrailer(E, f) = LastTrailer(F, g) => E = F /\ f = g
<1>1. PICK t \in {1, 2, 4, 8, 16} :
           t <= E /\ E < 2 * t /\ LastTrailer(E, 0) = E + 4 * t /\ LastTrailer(E, 1) = E + 6 * t
  BY LastTrailerIs
<1>2. LastTrailer(E, f) # 6
  <2>1. LastTrailer(E, f) = E + (IF f = 0 THEN 4 ELSE 6) * t
    BY <1>1
  <2> QED BY <1>1, <2>1
<1>3. ASSUME NEW F \in 1 .. 31, NEW g \in {0, 1}, LastTrailer(E, f) = LastTrailer(F, g)
      PROVE  E = F /\ f = g
  <2>1. PICK u \in {1, 2, 4, 8, 16} :
             u <= F /\ F < 2 * u /\ LastTrailer(F, 0) = F + 4 * u /\ LastTrailer(F, 1) = F + 6 * u
    BY LastTrailerIs
  <2> DEFINE a == IF f = 0 THEN 4 ELSE 6
             b == IF g = 0 THEN 4 ELSE 6
  <2>2. E + a * t = F + b * u /\ a \in {4, 6} /\ b \in {4, 6} /\ (a = b => f = g)
    BY <1>1, <1>3, <2>1
  <2> HIDE DEF a, b
  <2>3. t = u /\ a = b
    BY <1>1, <2>1, <2>2
  <2> QED BY <2>2, <2>3
<1> QED BY <1>2, <1>3

LEMMA LastBlockTells ==
  ASSUME NEW x, IsString(x), Len(x) <= Rho, NEW y, IsString(y), Len(y) <= Rho,
         Padded(Rho, x) = Padded(Rho, y), Len(x) = Rho <=> Len(y) = Rho
  PROVE  x = y
<1>1. Len(x) \in Nat /\ Len(y) \in Nat /\ Rho \in Nat \ {0}
  BY LenProperties, RhoType DEF IsString
<1>2. One # Zero
  BY DEF One, Zero
<1>3. \A i \in 1 .. Rho :
        (IF i <= Len(x) THEN x[i] ELSE IF i = Len(x) + 1 THEN One ELSE Zero)
          = IF i <= Len(y) THEN y[i] ELSE IF i = Len(y) + 1 THEN One ELSE Zero
  <2> TAKE i \in 1 .. Rho
  <2>1. Padded(Rho, x)[i] = Padded(Rho, y)[i]
    OBVIOUS
  <2> QED BY <2>1 DEF Padded
<1>4. Len(x) = Len(y)
  <2>1. CASE Len(x) < Len(y) /\ Len(y) < Rho
    <3>1. Len(y) + 1 \in 1 .. Rho /\ ~(Len(y) + 1 <= Len(x)) /\ Len(y) + 1 # Len(x) + 1
          /\ ~(Len(y) + 1 <= Len(y))
      BY <1>1, <2>1
    <3> QED BY <1>2, <1>3, <3>1
  <2>2. CASE Len(y) < Len(x) /\ Len(x) < Rho
    <3>1. Len(x) + 1 \in 1 .. Rho /\ ~(Len(x) + 1 <= Len(y)) /\ Len(x) + 1 # Len(y) + 1
          /\ ~(Len(x) + 1 <= Len(x))
      BY <1>1, <2>2
    <3> QED BY <1>2, <1>3, <3>1
  <2> QED BY <1>1, <2>1, <2>2
<1>5. \A i \in 1 .. Len(x) : x[i] = y[i]
  <2> TAKE i \in 1 .. Len(x)
  <2>1. i \in 1 .. Rho /\ i <= Len(x) /\ i <= Len(y)
    BY <1>1, <1>4
  <2> QED BY <1>3, <2>1
<1> QED BY <1>4, <1>5, SeqEqual DEF IsString

LEMMA TimesRho ==
  ASSUME NEW a \in Nat, NEW b \in Nat
  PROVE  (a + b) * Rho = a * Rho + b * Rho /\ b * Rho \in Nat
BY RhoType

\* The blocks of a string are those of no other one.
LEMMA BlocksTellString ==
  ASSUME NEW X, IsString(X), NEW Y, IsString(Y), NEW E \in 1 .. 31, NEW F \in 1 .. 31,
         Before(X) = Before(Y), \A j \in 1 .. Before(X) + 1 : BlockOf(X, E, j) = BlockOf(Y, F, j)
  PROVE  X = Y /\ E = F
<1> DEFINE n == Before(X)
           m == n * Rho
<1>1. /\ n \in Nat /\ m \in Nat /\ m <= Len(X) /\ m <= Len(Y) /\ Len(X) \in Nat /\ Len(Y) \in Nat
      /\ IsString(LastOf(X)) /\ IsString(LastOf(Y)) /\ Len(LastOf(X)) <= Rho /\ Len(LastOf(Y)) <= Rho
      /\ Len(LastOf(X)) = Len(X) - m /\ Len(LastOf(Y)) = Len(Y) - m
      /\ \A i \in 1 .. Len(LastOf(X)) : LastOf(X)[i] = X[m + i]
      /\ \A i \in 1 .. Len(LastOf(Y)) : LastOf(Y)[i] = Y[m + i]
  BY Cutting
<1>2. \A j \in 1 .. n : InnerBlock(X, j) = InnerBlock(Y, j)
  <2> TAKE j \in 1 .. n
  <2>1. j \in 1 .. n + 1 /\ j <= Before(X) /\ j <= Before(Y)
    BY <1>1
  <2>2. BlockOf(X, E, j) = BlockOf(Y, F, j)
    BY <2>1
  <2> QED BY <2>1, <2>2 DEF BlockOf
<1>3. /\ Padded(Rho, LastOf(X)) = Padded(Rho, LastOf(Y))
      /\ LastTrailer(E, IsFull(X)) = LastTrailer(F, IsFull(Y))
  <2>1. n + 1 \in 1 .. n + 1 /\ ~(n + 1 <= Before(X)) /\ ~(n + 1 <= Before(Y))
    BY <1>1
  <2>2. BlockOf(X, E, n + 1) = BlockOf(Y, F, n + 1)
    BY <2>1
  <2> QED BY <2>1, <2>2 DEF BlockOf, LastTrailer
<1>4. E = F /\ IsFull(X) = IsFull(Y)
  BY <1>3, TrailerTells DEF IsFull
<1>5. LastOf(X) = LastOf(Y)
  BY <1>1, <1>3, <1>4, LastBlockTells DEF IsFull
<1>6. Len(X) = Len(Y)
  BY <1>1, <1>5
<1>7. \A i \in 1 .. Len(X) : X[i] = Y[i]
  <2> TAKE i \in 1 .. Len(X)
  <2>1. CASE i <= m
    <3> DEFINE l == i - 1
               j == l \div Rho + 1
               p == (j - 1) * Rho
    <3>1. l \in Nat /\ l \div Rho \in Nat /\ l % Rho \in 0 .. Rho - 1
          /\ l = (l \div Rho) * Rho + (l % Rho)
      <4>1. l \in Nat
        BY <1>1
      <4> HIDE DEF l
      <4> QED BY <4>1, RhoType, Quotients
    <3>2. j \in Nat \ {0} /\ j - 1 = l \div Rho
      BY <3>1
    <3> HIDE DEF l, j
    <3>3. p \in Nat /\ l = p + (l % Rho)
      BY <3>1, <3>2, RhoType
    <3>4. j \in 1 .. n
      <4>1. SUFFICES ASSUME n < j PROVE FALSE
        BY <1>1, <3>2
      <4> DEFINE k == j - 1 - n
      <4>2. k \in Nat /\ j - 1 = n + k
        BY <1>1, <3>2, <4>1
      <4> HIDE DEF k
      <4>5. n \in Nat
        BY <1>1
      <4> HIDE DEF n
      <4>3. p = m + k * Rho /\ k * Rho \in Nat
        BY <4>2, <4>5, RhoType, TimesRho
      <4> HIDE DEF p, m
      <4>4. l = i - 1
        BY DEF l
      <4> QED BY <1>1, <2>1, <3>1, <3>3, <4>3, <4>4, SMTT(30)
    <3>5. i - p \in 1 .. Rho /\ p + (i - p) = i
      <4> HIDE DEF p
      <4> QED BY <3>1, <3>3, RhoType DEF l
    <3>6. InnerBlock(X, j)[i - p] = X[p + (i - p)] /\ InnerBlock(Y, j)[i - p] = Y[p + (i - p)]
      <4>1. j \in 1 .. Before(X) /\ j \in 1 .. Before(Y)
        BY <3>4
      <4> QED BY <3>5, <4>1, InnerBlockIs
    <3> QED BY <1>2, <3>4, <3>5, <3>6
  <2>2. CASE ~(i <= m)
    <3>1. i - m \in 1 .. Len(LastOf(X)) /\ m + (i - m) = i
      BY <1>1, <2>2
    <3> HIDE DEF m
    <3> QED BY <1>1, <1>5, <3>1
  <2> QED BY <2>1, <2>2
<1> QED BY <1>4, <1>6, <1>7, SeqEqual DEF IsString

LEMMA SeqAsFunction ==
  ASSUME NEW S, NEW x \in Seq(S)
  PROVE  x = [i \in 1 .. Len(x) |-> x[i]] /\ \A i \in 1 .. Len(x) : x[i] \in S
BY LenProperties, ElementOfSeq

LEMMA PaddedAbsorbed ==
  ASSUME NEW s, NEW x, IsString(x)
  PROVE  Absorbed(s, Padded(Rho, x)) = Padded(Rho, x)
<1> DEFINE y == Padded(Rho, x)
<1>1. y = [i \in 1 .. Rho |-> y[i]]
  BY DEF Padded
<1>2. One \subseteq InputTerms /\ Zero \subseteq InputTerms
  <2>1. <<1>> \in InputTerms
    BY DEF InputTerms
  <2> QED BY <2>1 DEF One, Zero
<1>3. \A i \in 1 .. Rho : y[i] \subseteq InputTerms
  <2> TAKE i \in 1 .. Rho
  <2>1. y[i] = IF i <= Len(x) THEN x[i] ELSE IF i = Len(x) + 1 THEN One ELSE Zero
    BY DEF Padded
  <2>2. i <= Len(x) => x[i] \subseteq InputTerms
    <3>1. Len(x) \in Nat
      BY LenProperties DEF IsString
    <3> QED BY <3>1, SeqAsFunction DEF IsString
  <2> HIDE DEF y
  <2> QED BY <1>2, <2>1, <2>2
<1> HIDE DEF y
<1>4. Absorbed(s, y) = y
  BY <1>1, <1>3, InputAbsorbed
<1> QED BY <1>4 DEF y

InnerBlocks(X) == [i \in 1 .. Before(X) |-> <<InnerBlock(X, i), OD_Concat(2, 1)>>]

LEMMA InnerBlocksAre ==
  ASSUME NEW X, IsString(X)
  PROVE  IsSeq(InnerBlocks(X)) /\ Len(InnerBlocks(X)) = Before(X)
<1> DEFINE n == Before(X)
           e(i) == <<InnerBlock(X, i), OD_Concat(2, 1)>>
           S == {e(i) : i \in 1 .. n}
<1>1. n \in Nat
  BY Cutting
<1> HIDE DEF n, e
<1>2. [i \in 1 .. n |-> e(i)] \in [1 .. n -> S]
  OBVIOUS
<1>3. [i \in 1 .. n |-> e(i)] \in Seq(S) /\ Len([i \in 1 .. n |-> e(i)]) = n
  BY <1>1, <1>2
<1> QED BY <1>3 DEF IsSeq, InnerBlocks, n, e

LEMMA FirstBlocksTaken ==
  ASSUME NEW s, IsSeq(s), NEW o, NEW X, IsString(X)
  PROVE  \E p : AfterFirstBlocks(OD(o, s), X) = OD(p, s \o InnerBlocks(X))
<1> DEFINE n == Before(X)
<1>1. CASE Len(X) > Rho
  <2>1. BlocksButLast(OD(o, s), Len(X)) = n
    BY <1>1, ODFields DEF BlocksButLast, Before
  <2>2. \A i \in 1 .. n : Absorbed(s, SubSeq(X, (i - 1) * Rho + 1, i * Rho)) = InnerBlock(X, i)
    <3> TAKE i \in 1 .. n
    <3> DEFINE b == InnerBlock(X, i)
    <3>1. b \in Seq(SUBSET InputTerms) /\ Len(b) = Rho
      BY InnerBlockIs
    <3> HIDE DEF b
    <3>2. Absorbed(s, b) = b
      BY <3>1, SeqAsFunction, InputAbsorbed
    <3> QED BY <3>2 DEF b, InnerBlock
  <2>3. [i \in 1 .. n |-> <<Absorbed(s, SubSeq(X, (i - 1) * Rho + 1, i * Rho)), OD_Concat(2, 1)>>]
          = InnerBlocks(X)
    BY <2>2 DEF InnerBlocks
  <2> DEFINE b == [i \in 1 .. BlocksButLast(OD(o, s), Len(X)) |->
                     <<Absorbed(s, SubSeq(X, (i - 1) * Rho + 1, i * Rho)), OD_Concat(2, 1)>>]
  <2>4. AfterFirstBlocks(OD(o, s), X) = OD(0, s \o b)
    BY <1>1, ODFields DEF AfterFirstBlocks, OD_DuplexingFastOnlyIn, OD
  <2> QED BY <2>1, <2>3, <2>4
<1>2. CASE ~(Len(X) > Rho)
  <2>1. AfterFirstBlocks(OD(o, s), X) = OD(o, s)
    BY <1>2, ODFields DEF AfterFirstBlocks
  <2>2. Before(X) = 0
    BY <1>2 DEF Before
  <2>3. InnerBlocks(X) = <<>>
    <3> DEFINE e(i) == <<InnerBlock(X, i), OD_Concat(2, 1)>>
    <3> HIDE DEF e
    <3>1. [i \in 1 .. 0 |-> e(i)] = <<>>
      OBVIOUS
    <3> QED BY <2>2, <3>1 DEF InnerBlocks, e
  <2>4. PICK S : s \in Seq(S)
    BY DEF IsSeq
  <2>5. s \o InnerBlocks(X) = s
    BY <2>3, <2>4, ConcatEmptySeq
  <2> QED BY <2>1, <2>5
<1> QED BY <1>1, <1>2

\* Taking string X with trailer E leads from state s to state t: the blocks of
\* the string after those of s.
Taken(s, o, X, E, t) ==
  /\ OD_Duplexing(AfterFirstBlocks(OD(o, s), X), LastBlock(OD(o, s), X), OD_Concat(E, 1), 0)
       = OD(0, t)
  /\ IsSeq(t) /\ Len(t) = Len(s) + Before(X) + 1
  /\ \A i \in 1 .. Len(s) : t[i] = s[i]
  /\ \A j \in 1 .. Before(X) + 1 : t[Len(s) + j] = BlockOf(X, E, j)

LEMMA StringTaken ==
  ASSUME NEW s, IsSeq(s), NEW o, NEW X, IsString(X), NEW E
  PROVE  \E t : Taken(s, o, X, E, t)
<1> DEFINE n == Before(X)
           b == InnerBlocks(X)
           r == s \o b
           last == <<Padded(Rho, LastOf(X)), OD_Concat(OD_Concat(E, 1), IsFull(X))>>
           t == Append(r, last)
<1>1. n \in Nat /\ Len(s) \in Nat
  BY Cutting, Lengths
<1>2. /\ IsSeq(r) /\ Len(r) = Len(s) + n
      /\ \A i \in 1 .. Len(s) + n : r[i] = IF i <= Len(s) THEN s[i] ELSE b[i - Len(s)]
  <2>1. IsSeq(b) /\ Len(b) = n
    BY InnerBlocksAre
  <2> HIDE DEF b, n
  <2> QED BY <2>1, Joined
<1>3. PICK p : AfterFirstBlocks(OD(o, s), X) = OD(p, r)
  BY FirstBlocksTaken
<1>4. LastBlock(OD(o, s), X) = LastOf(X)
  <2>1. Len(X) > Rho => BlocksButLast(OD(o, s), Len(X)) = n
    BY ODFields DEF BlocksButLast, Before
  <2> QED BY <2>1, ODFields DEF LastBlock, LastOf
<1>5. After(OD(p, r), LastOf(X), OD_Concat(E, 1)) = t
  <2>1. Absorbed(r, Padded(Rho, LastOf(X))) = Padded(Rho, LastOf(X))
    BY Cutting, PaddedAbsorbed
  <2> HIDE DEF r
  <2> QED BY <2>1, ODFields DEF After, IsFull
<1>6. OD_Duplexing(OD(p, r), LastOf(X), OD_Concat(E, 1), 0) = OD(0, t)
  <2> HIDE DEF r, t
  <2> QED BY <1>2, <1>5, Duplexed
<1>7. /\ IsSeq(t) /\ Len(t) = Len(r) + 1
      /\ \A i \in 1 .. Len(r) : t[i] = r[i]
      /\ t[Len(r) + 1] = last
  <2> HIDE DEF r, last
  <2>1. PICK S : r \in Seq(S)
    BY <1>2 DEF IsSeq
  <2>2. r \in Seq(S \cup {last}) /\ last \in S \cup {last}
    BY <2>1, SeqMonotonic
  <2> QED BY <2>2, AppendProperties DEF IsSeq
<1>8. \A i \in 1 .. Len(s) : t[i] = s[i]
  <2> HIDE DEF r, t, n
  <2> QED BY <1>1, <1>2, <1>7
<1>9. \A j \in 1 .. n + 1 : t[Len(s) + j] = BlockOf(X, E, j)
  <2> TAKE j \in 1 .. n + 1
  <2>1. CASE j <= n
    <3>1. b[j] = BlockOf(X, E, j)
      <4>1. j \in 1 .. Before(X)
        BY <1>1, <2>1
      <4> QED BY <4>1 DEF InnerBlocks, BlockOf
    <3> HIDE DEF b, r, t, n
    <3>2. Len(s) + j \in 1 .. Len(r) /\ ~(Len(s) + j <= Len(s)) /\ (Len(s) + j) - Len(s) = j
      BY <1>1, <1>2, <2>1
    <3>3. t[Len(s) + j] = r[Len(s) + j]
      BY <1>7, <3>2
    <3>4. r[Len(s) + j] = b[(Len(s) + j) - Len(s)]
      BY <1>2, <3>2
    <3> QED BY <3>1, <3>2, <3>3, <3>4
  <2>2. CASE ~(j <= n)
    <3>1. last = BlockOf(X, E, j)
      BY <2>2 DEF BlockOf
    <3> HIDE DEF b, r, t, n, last
    <3>2. Len(s) + j = Len(r) + 1
      BY <1>1, <1>2, <2>2
    <3> QED BY <1>7, <3>1, <3>2
  <2> QED BY <2>1, <2>2
<1>10. Len(t) = Len(s) + n + 1
  <2> HIDE DEF r, t, n
  <2> QED BY <1>1, <1>2, <1>7
<1> HIDE DEF t, r, n
<1>11. Taken(s, o, X, E, t)
  BY <1>3, <1>4, <1>6, <1>7, <1>8, <1>9, <1>10 DEF n, Taken
<1> QED BY <1>11

Told == Seq(Strings \X Trailers)

\* The blocks of s after a are those of string X with trailer E.
BlocksAt(s, a, X, E) == \A j \in 1 .. Before(X) + 1 : s[a + j] = BlockOf(X, E, j)

\* String k of strs is in the blocks of s after end[k - 1], up to end[k]; the
\* first block is that of the key.
CutAt(s, strs, end) ==
  /\ end[0] = 1 /\ end[Len(strs)] = Len(s)
  /\ \A k \in 0 .. Len(strs) : end[k] \in Nat
  /\ \A k \in 1 .. Len(strs) :
       /\ end[k] = end[k - 1] + Before(strs[k][1]) + 1
       /\ BlocksAt(s, end[k - 1], strs[k][1], strs[k][2])

LEMMA ToldStrings ==
  ASSUME NEW strs \in Told
  PROVE  /\ Len(strs) \in Nat
         /\ \A k \in 1 .. Len(strs) :
              /\ strs[k] = <<strs[k][1], strs[k][2]>>
              /\ strs[k][1] \in Strings /\ IsString(strs[k][1]) /\ strs[k][2] \in 1 .. 31
<1>1. Len(strs) \in Nat
  BY LenProperties DEF Told
<1>2. ASSUME NEW k \in 1 .. Len(strs)
      PROVE  /\ strs[k] = <<strs[k][1], strs[k][2]>>
             /\ strs[k][1] \in Strings /\ IsString(strs[k][1]) /\ strs[k][2] \in 1 .. 31
  <2>1. strs[k] \in Strings \X Trailers
    BY ElementOfSeq DEF Told
  <2>2. PICK X \in Strings, E \in Trailers : strs[k] = <<X, E>>
    BY <2>1
  <2>3. strs[k][1] = X /\ strs[k][2] = E
    BY <2>2
  <2> QED BY <2>2, <2>3, UpperDeckAssumption DEF IsString
<1> QED BY <1>1, <1>2

\* The next string is where the other one is: both have its last block.
LEMMA SameBefore ==
  ASSUME NEW s, NEW a, NEW X, IsString(X), NEW E \in 1 .. 31, NEW Y, IsString(Y), NEW F \in 1 .. 31,
         BlocksAt(s, a, X, E), BlocksAt(s, a, Y, F),
         Before(X) < Before(Y)
  PROVE  FALSE
<1> DEFINE j == Before(X) + 1
<1>1. Before(X) \in Nat /\ Before(Y) \in Nat
  BY Cutting
<1>2. j \in 1 .. Before(X) + 1 /\ j \in 1 .. Before(Y) + 1 /\ ~(j <= Before(X)) /\ j <= Before(Y)
  BY <1>1
<1>3. BlockOf(X, E, j) = BlockOf(Y, F, j)
  BY <1>2 DEF BlocksAt
<1> HIDE DEF j
<1>4. LastTrailer(E, IsFull(X)) = OD_Concat(2, 1)
  BY <1>2, <1>3 DEF BlockOf, LastTrailer
<1> QED BY <1>4, InnerTrailer, TrailerTells DEF IsFull

\* Two lists of strings have the same string up to the same place.
Agree(x, y, e, f, k) == x[k] = y[k] /\ e[k] = f[k]

LEMMA NextSame ==
  ASSUME NEW s, NEW x \in Told, NEW y \in Told, NEW e, NEW f, CutAt(s, x, e), CutAt(s, y, f),
         NEW k \in Nat, k + 1 <= Len(x), k + 1 <= Len(y), e[k] = f[k]
  PROVE  Agree(x, y, e, f, k + 1)
<1> DEFINE l == k + 1
           X == x[l][1]
           Y == y[l][1]
           E == x[l][2]
           F == y[l][2]
           a == e[k]
<1>1. Len(x) \in Nat /\ Len(y) \in Nat /\ l \in 1 .. Len(x) /\ l \in 1 .. Len(y) /\ l - 1 = k
  <2>1. Len(x) \in Nat /\ Len(y) \in Nat
    BY ToldStrings
  <2> QED BY <2>1
<1>2. /\ e[l] = a + Before(X) + 1 /\ f[l] = a + Before(Y) + 1
      /\ BlocksAt(s, a, X, E) /\ BlocksAt(s, a, Y, F)
  <2> HIDE DEF l
  <2> QED BY <1>1 DEF CutAt
<1>3. /\ IsString(X) /\ IsString(Y) /\ E \in 1 .. 31 /\ F \in 1 .. 31
      /\ x[l] = <<X, E>> /\ y[l] = <<Y, F>>
  BY <1>1, ToldStrings, SMTT(30)
<1> HIDE DEF X, Y, E, F, l, a
<1>4. Before(X) = Before(Y)
  <2>1. ~(Before(X) < Before(Y))
    BY ONLY <1>2, <1>3, SameBefore, SMTT(30)
  <2>2. ~(Before(Y) < Before(X))
    BY ONLY <1>2, <1>3, SameBefore
  <2>3. Before(X) \in Nat /\ Before(Y) \in Nat
    BY <1>3, Cutting
  <2> QED BY <2>1, <2>2, <2>3
<1>5. X = Y /\ E = F
  <2>1. \A j \in 1 .. Before(X) + 1 : BlockOf(X, E, j) = BlockOf(Y, F, j)
    BY ONLY <1>2, <1>4 DEF BlocksAt
  <2> QED BY ONLY <1>3, <1>4, <2>1, BlocksTellString
<1>6. e[l] = f[l] /\ x[l] = y[l]
  BY <1>2, <1>3, <1>5
<1> QED BY <1>6 DEF l, Agree

\* The ends of strings are farther and farther on.
LEMMA EndsGrow ==
  ASSUME NEW s, NEW x \in Told, NEW e, CutAt(s, x, e), NEW n \in Nat, n < Len(x)
  PROVE  e[n] < e[Len(x)]
<1>0. Len(x) \in Nat
  BY ToldStrings
<1> DEFINE T == {m \in Nat : n + m + 1 <= Len(x) => e[n] < e[n + m + 1]}
<1>1. ASSUME NEW m \in Nat, m + 1 <= Len(x)
      PROVE  e[m] < e[m + 1] /\ e[m] \in Nat /\ e[m + 1] \in Nat
  <2> DEFINE l == m + 1
  <2>1. l \in 1 .. Len(x) /\ l - 1 = m /\ m \in 0 .. Len(x) /\ l \in 0 .. Len(x)
    BY <1>0, <1>1
  <2> HIDE DEF l
  <2>2. e[l] = e[m] + Before(x[l][1]) + 1 /\ e[m] \in Nat /\ e[l] \in Nat
    BY <2>1 DEF CutAt
  <2>3. Before(x[l][1]) \in Nat
    BY <2>1, ToldStrings, Cutting
  <2>4. e[m] < e[l]
    BY <2>2, <2>3
  <2> QED BY <2>2, <2>4 DEF l
<1>2. 0 \in T
  <2>1. n + 0 + 1 = n + 1
    OBVIOUS
  <2> QED BY <1>0, <1>1, <2>1
<1>3. \A m \in Nat : m \in T => m + 1 \in T
  <2> SUFFICES ASSUME NEW m \in Nat, m \in T, n + (m + 1) + 1 <= Len(x)
               PROVE  e[n] < e[n + (m + 1) + 1]
    OBVIOUS
  <2> DEFINE a == n + m + 1
  <2>1. a \in Nat /\ a <= Len(x) /\ a + 1 <= Len(x) /\ n + (m + 1) + 1 = a + 1
    BY <1>0
  <2>2. e[n] < e[a]
    BY <2>1
  <2> HIDE DEF a
  <2>3. e[a] < e[a + 1] /\ e[a] \in Nat /\ e[a + 1] \in Nat /\ e[n] \in Nat
    BY <1>0, <1>1, <2>1
  <2>4. e[n] < e[a + 1]
    BY <2>2, <2>3
  <2> QED BY <2>1, <2>4
<1> HIDE DEF T
<1>4. \A m \in Nat : m \in T
  BY <1>2, <1>3, Induction
<1>5. Len(x) - n - 1 \in Nat /\ n + (Len(x) - n - 1) + 1 = Len(x)
  BY <1>0
<1>6. Len(x) - n - 1 \in T
  BY <1>4, <1>5
<1> QED BY <1>0, <1>5, <1>6 DEF T

\* A state is that of one list of strings only.
LEMMA OneReading ==
  ASSUME NEW s, NEW x \in Told, NEW y \in Told, NEW e, NEW f, CutAt(s, x, e), CutAt(s, y, f)
  PROVE  x = y
<1>0. Len(x) \in Nat /\ Len(y) \in Nat
  BY ToldStrings
<1> DEFINE T == {k \in Nat : k <= Len(x) /\ k <= Len(y) => e[k] = f[k]}
<1>1. 0 \in T
  BY DEF CutAt
<1>2. \A k \in Nat : k \in T => k + 1 \in T
  <2> SUFFICES ASSUME NEW k \in Nat, k \in T, k + 1 <= Len(x), k + 1 <= Len(y)
               PROVE  e[k + 1] = f[k + 1]
    OBVIOUS
  <2>1. e[k] = f[k]
    BY <1>0
  <2>2. Agree(x, y, e, f, k + 1)
    BY <2>1, NextSame
  <2> QED BY <2>2 DEF Agree
<1>3. \A k \in Nat : k \in T
  <2> HIDE DEF T
  <2> QED BY <1>1, <1>2, Induction
<1>4. \A l \in Nat : l + 1 <= Len(x) /\ l + 1 <= Len(y) => x[l + 1] = y[l + 1]
  <2> SUFFICES ASSUME NEW l \in Nat, l + 1 <= Len(x), l + 1 <= Len(y)
               PROVE  x[l + 1] = y[l + 1]
    OBVIOUS
  <2>1. e[l] = f[l]
    BY <1>0, <1>3
  <2>2. Agree(x, y, e, f, l + 1)
    BY <2>1, NextSame
  <2> QED BY <2>2 DEF Agree
<1>5. \A k \in 1 .. Len(x) : k <= Len(y) => x[k] = y[k]
  <2> SUFFICES ASSUME NEW k \in 1 .. Len(x), k <= Len(y) PROVE x[k] = y[k]
    OBVIOUS
  <2> DEFINE l == k - 1
  <2>1. l \in Nat /\ l + 1 = k /\ l + 1 <= Len(x) /\ l + 1 <= Len(y)
    BY <1>0
  <2> HIDE DEF l
  <2>2. x[l + 1] = y[l + 1]
    BY <1>4, <2>1
  <2> QED BY <2>1, <2>2
<1>6. Len(x) = Len(y)
  <2>1. e[Len(x)] = f[Len(y)]
    BY DEF CutAt
  <2>2. CASE Len(x) < Len(y)
    <3>1. f[Len(x)] < f[Len(y)]
      BY <1>0, <2>2, EndsGrow
    <3>3. f[Len(x)] \in Nat
      BY <1>0, <2>2 DEF CutAt
    <3>2. e[Len(x)] = f[Len(x)]
      BY <1>0, <1>3, <2>2
    <3> QED BY <2>1, <3>1, <3>2, <3>3
  <2>3. CASE Len(y) < Len(x)
    <3>1. e[Len(y)] < e[Len(x)]
      BY <1>0, <2>3, EndsGrow
    <3>3. e[Len(y)] \in Nat
      BY <1>0, <2>3 DEF CutAt
    <3>2. e[Len(y)] = f[Len(y)]
      BY <1>0, <1>3, <2>3
    <3> QED BY <2>1, <3>1, <3>2, <3>3
  <2> QED BY <1>0, <2>2, <2>3
<1> QED BY <1>5, <1>6, SeqEqual DEF Told

\* The state of deck u is what the strings strs have made of it.
Reads(u, strs) ==
  /\ u = [D |-> u.D, Dsqueeze |-> u.Dsqueeze, o |-> u.o]
  /\ \/ u.D = NoOD /\ strs = <<>>
     \/ /\ u.D = OD(u.D.o, u.D.s) /\ IsSeq(u.D.s) /\ strs \in Told
        /\ \E end : CutAt(u.D.s, strs, end)

HistoryInv ==
  /\ DOMAIN deck = Decks /\ strings = [d \in Decks |-> strings[d]]
  /\ \A d \in Decks : Reads(deck[d], strings[d])

\* A call in progress is one of a deck.
CallKept ==
  call # Idle =>
    /\ call = [in |-> call.in, left |-> call.left, add |-> call.add, begun |-> call.begun]
    /\ call.in \in Decks

LEMMA NoODRho == NoOD.rho = 0 /\ \A o, s : OD(o, s) # NoOD
BY RhoType DEF NoOD, OD

LEMMA HistoryOf ==
  ASSUME HistoryInv, NEW d \in Decks, deck[d].D.rho # 0
  PROVE  /\ deck[d].D = OD(deck[d].D.o, deck[d].D.s) /\ IsSeq(deck[d].D.s) /\ strings[d] \in Told
         /\ \E end : CutAt(deck[d].D.s, strings[d], end)
BY NoODRho DEF HistoryInv, Reads

LEMMA HistoryChanges ==
  ASSUME HistoryInv, NEW d \in Decks, NEW u, NEW strs, Reads(u, strs),
         deck' = [deck EXCEPT ![d] = u], strings' = [strings EXCEPT ![d] = strs]
  PROVE  HistoryInv'
<1>1. DOMAIN deck' = Decks /\ strings' = [e \in Decks |-> strings'[e]]
  BY DEF HistoryInv
<1>2. ASSUME NEW e \in Decks PROVE Reads(deck'[e], strings'[e])
  <2>1. CASE e = d
    BY <2>1 DEF HistoryInv
  <2>2. CASE e # d
    <3>1. deck'[e] = deck[e] /\ strings'[e] = strings[e]
      BY <2>2 DEF HistoryInv
    <3>2. Reads(deck[e], strings[e])
      BY DEF HistoryInv
    <3> QED BY <3>1, <3>2
  <2> QED BY <2>1, <2>2
<1> QED BY <1>1, <1>2 DEF HistoryInv

LEMMA HistoryStays ==
  ASSUME HistoryInv, UNCHANGED <<deck, strings>>
  PROVE  HistoryInv'
BY DEF HistoryInv

LEMMA NoStrings == <<>> \in Told /\ Len(<<>>) = 0
BY EmptySeq DEF Told

\* A string more: its blocks are cut from what was not there before.
LEMMA OneMore ==
  ASSUME NEW s, IsSeq(s), NEW strs \in Told, NEW end, CutAt(s, strs, end),
         NEW X \in Strings, NEW E \in Trailers,
         NEW t, IsSeq(t), Len(t) = Len(s) + Before(X) + 1,
         \A i \in 1 .. Len(s) : t[i] = s[i], BlocksAt(t, Len(s), X, E)
  PROVE  /\ Append(strs, <<X, E>>) \in Told
         /\ \E f : CutAt(t, Append(strs, <<X, E>>), f)
<1> DEFINE n == Len(strs)
           new == Append(strs, <<X, E>>)
           f == [k \in 0 .. n + 1 |-> IF k <= n THEN end[k] ELSE Len(t)]
<1>1. n \in Nat /\ Len(s) \in Nat /\ Before(X) \in Nat /\ Len(t) \in Nat
  <2>1. IsString(X)
    BY UpperDeckAssumption DEF IsString
  <2> QED BY <2>1, ToldStrings, Lengths, Cutting
<1>2. /\ new \in Told /\ Len(new) = n + 1
      /\ \A k \in 1 .. n : new[k] = strs[k]
      /\ new[n + 1] = <<X, E>>
  BY AppendProperties DEF Told
<1>3. /\ \A k \in 0 .. n : f[k] = end[k]
      /\ f[n + 1] = Len(t)
  <2>1. \A k \in 0 .. n + 1 : f[k] = IF k <= n THEN end[k] ELSE Len(t)
    OBVIOUS
  <2> HIDE DEF f, n
  <2> QED BY <1>1, <2>1
<1> HIDE DEF f, new
<1>4. f[0] = 1 /\ f[Len(new)] = Len(t)
  BY <1>1, <1>2, <1>3 DEF CutAt
<1>5. \A k \in 0 .. Len(new) : f[k] \in Nat
  <2> TAKE k \in 0 .. Len(new)
  <2>1. CASE k <= n
    BY <1>1, <1>2, <1>3, <2>1, SMTT(30) DEF CutAt
  <2>2. CASE ~(k <= n)
    <3>1. k = n + 1
      BY <1>1, <1>2, <2>2
    <3> QED BY <1>1, <1>3, <3>1
  <2> QED BY <2>1, <2>2
<1>6. \A k \in 1 .. Len(new) :
        /\ f[k] = f[k - 1] + Before(new[k][1]) + 1
        /\ BlocksAt(t, f[k - 1], new[k][1], new[k][2])
  <2> TAKE k \in 1 .. Len(new)
  <2>1. CASE k <= n
    <3> DEFINE Y == strs[k][1]
               F == strs[k][2]
               a == end[k - 1]
    <3>1. k \in 1 .. n /\ k \in 0 .. n /\ k - 1 \in 0 .. n
      BY <1>1, <1>2, <2>1
    <3>2. new[k] = strs[k] /\ f[k] = end[k] /\ f[k - 1] = a
      BY <1>2, <1>3, <3>1
    <3>3. end[k] = a + Before(Y) + 1 /\ BlocksAt(s, a, Y, F) /\ a \in Nat /\ end[k] \in Nat
      BY <3>1 DEF CutAt
    <3>4. end[k] <= Len(s)
      <4>1. CASE k = n
        BY <1>1, <4>1 DEF CutAt
      <4>2. CASE k # n
        <5>1. k \in Nat /\ k < n
          BY <1>1, <3>1, <4>2
        <5>2. end[k] < end[n]
          BY <5>1, EndsGrow
        <5>3. end[n] = Len(s)
          BY DEF CutAt
        <5> QED BY <1>1, <3>3, <5>2, <5>3
      <4> QED BY <4>1, <4>2
    <3>5. Before(Y) \in Nat
      BY <3>1, ToldStrings, Cutting
    <3> HIDE DEF a, Y, F
    <3>6. BlocksAt(t, a, Y, F)
      <4> SUFFICES ASSUME NEW j \in 1 .. Before(Y) + 1 PROVE t[a + j] = BlockOf(Y, F, j)
        BY DEF BlocksAt
      <4>1. a + j \in 1 .. Len(s)
        BY <1>1, <3>3, <3>4, <3>5, SMTT(30)
      <4> QED BY <3>3, <4>1 DEF BlocksAt
    <3> QED BY <3>2, <3>3, <3>6 DEF Y, F
  <2>2. CASE ~(k <= n)
    <3>1. k = n + 1 /\ k - 1 = n /\ n \in 0 .. n
      BY <1>1, <1>2, <2>2
    <3>2. f[k - 1] = Len(s) /\ f[k] = Len(t)
      BY <1>3, <3>1 DEF CutAt
    <3>3. new[k][1] = X /\ new[k][2] = E
      BY <1>2, <3>1
    <3> QED BY <3>2, <3>3
  <2> QED BY <2>1, <2>2
<1>7. CutAt(t, new, f)
  BY <1>4, <1>5, <1>6 DEF CutAt
<1> QED BY <1>2, <1>7 DEF new

LEMMA InitHistory ==
  ASSUME Init
  PROVE  HistoryInv
BY DEF Init, HistoryInv, Reads, NoDeck

LEMMA InitializeHistory ==
  ASSUME HistoryInv, NEW d \in Decks, UpperDeck_Initialize(d)
  PROVE  HistoryInv'
<1> DEFINE s == After(OD(Rho, <<>>), Key, 1)
           u == [D |-> OD(0, s), Dsqueeze |-> NoOD, o |-> NoOffset]
<1>0. IsSeq(<<>>)
  BY NothingGiven DEF InOrder
<1>1. OD_Initialize(Rho, Key) = OD(0, s) /\ IsSeq(s)
  <2>1. [rho |-> Rho, o |-> Rho, s |-> <<>>] = OD(Rho, <<>>)
    BY DEF OD
  <2> QED BY <1>0, <2>1, Duplexed DEF OD_Initialize
<1>2. strings[d] = <<>>
  <2>1. deck[d].D = NoOD /\ Reads(deck[d], strings[d])
    BY DEF UpperDeck_Initialize, HistoryInv, NoDeck
  <2> QED BY <2>1, NoODRho DEF Reads
<1>3. Len(s) = 1
  <2>1. \E x : s = Append(<<>>, x)
    BY ODFields DEF After
  <2> QED BY <2>1
<1>4. CutAt(s, <<>>, [k \in {0} |-> 1])
  BY <1>3, NoStrings DEF CutAt
<1>5. /\ deck' = [deck EXCEPT ![d] = u]
      /\ strings' = [strings EXCEPT ![d] = <<>>]
  <2>1. deck' = [deck EXCEPT ![d] = u] /\ strings' = strings
    BY <1>1 DEF UpperDeck_Initialize
  <2>2. strings = [strings EXCEPT ![d] = <<>>]
    BY <1>2 DEF HistoryInv
  <2> QED BY <2>1, <2>2
<1>6. Reads(u, <<>>)
  <2>1. u.D = OD(0, s) /\ u = [D |-> u.D, Dsqueeze |-> u.Dsqueeze, o |-> u.o]
    OBVIOUS
  <2> HIDE DEF u, s
  <2>2. u.D.s = s /\ u.D = OD(u.D.o, u.D.s)
    BY <2>1, ODFields
  <2> QED BY <1>1, <1>4, <2>1, <2>2, NoStrings DEF Reads
<1> HIDE DEF u
<1> QED BY <1>5, <1>6, HistoryChanges

LEMMA CloneHistory ==
  ASSUME HistoryInv, NEW d \in Decks, NEW e \in Decks,
         UpperDeck_Clone(d, e) \/ UpperDeck_CloneCompact(d, e)
  PROVE  HistoryInv'
<1>1. deck[d].D.rho # 0
  BY DEF UpperDeck_Clone, UpperDeck_CloneCompact, Ready
<1>2. PICK end : /\ deck[d].D = OD(deck[d].D.o, deck[d].D.s) /\ IsSeq(deck[d].D.s)
                 /\ strings[d] \in Told /\ CutAt(deck[d].D.s, strings[d], end)
  BY <1>1, HistoryOf
<1> DEFINE s == deck[d].D.s
<1>3. \A u : u = [D |-> u.D, Dsqueeze |-> u.Dsqueeze, o |-> u.o] /\ (\E o : u.D = OD(o, s))
              => Reads(u, strings[d])
  <2> SUFFICES ASSUME NEW u, u = [D |-> u.D, Dsqueeze |-> u.Dsqueeze, o |-> u.o],
                      NEW o, u.D = OD(o, s)
               PROVE  Reads(u, strings[d])
    OBVIOUS
  <2>1. u.D.o = o /\ u.D.s = s
    BY ODFields
  <2> QED BY <1>2, <2>1 DEF Reads
<1>4. CASE UpperDeck_Clone(d, e)
  <2> DEFINE u == [o |-> deck[d].o, D |-> deck[d].D, Dsqueeze |-> deck[d].D]
  <2>1. u.D = deck[d].D /\ u = [D |-> u.D, Dsqueeze |-> u.Dsqueeze, o |-> u.o]
    OBVIOUS
  <2>2. deck' = [deck EXCEPT ![e] = u] /\ strings' = [strings EXCEPT ![e] = strings[d]]
    BY <1>4 DEF UpperDeck_Clone
  <2> HIDE DEF u
  <2>3. Reads(u, strings[d])
    BY <1>2, <1>3, <2>1
  <2> QED BY <2>2, <2>3, HistoryChanges
<1>5. CASE UpperDeck_CloneCompact(d, e)
  <2> DEFINE u == [o |-> NoOffset, D |-> OD_CloneCompact(deck[d].D), Dsqueeze |-> NoOD]
  <2>1. u.D = OD_CloneCompact(deck[d].D) /\ u = [D |-> u.D, Dsqueeze |-> u.Dsqueeze, o |-> u.o]
    OBVIOUS
  <2>2. deck' = [deck EXCEPT ![e] = u] /\ strings' = [strings EXCEPT ![e] = strings[d]]
    BY <1>5 DEF UpperDeck_CloneCompact
  <2>3. \E o : OD_CloneCompact(deck[d].D) = OD(o, s)
    <3>1. \A o : OD_CloneCompact(OD(o, s)) = OD(Rho, s)
      BY DEF OD_CloneCompact, OD
    <3> QED BY <1>2, <3>1
  <2> HIDE DEF u, s
  <2>4. Reads(u, strings[d])
    BY <1>3, <2>1, <2>3
  <2> QED BY <2>2, <2>4, HistoryChanges
<1> QED BY <1>4, <1>5

LEMMA DuplexingHistory ==
  ASSUME HistoryInv, NEW d \in Decks, NEW X \in Strings, NEW E \in Trailers, NEW n, NEW h,
         UpperDeck_Duplexing(d, X, E, n, h)
  PROVE  HistoryInv'
<1> DEFINE o == deck[d].D.o
           s == deck[d].D.s
           D == AfterFirstBlocks(deck[d].D, X)
           last == LastBlock(deck[d].D, X)
           F == OD_Concat(E, 1)
<1>1. deck[d].D.rho # 0 /\ IsString(X) /\ E \in 1 .. 31
  BY UpperDeckAssumption DEF UpperDeck_Duplexing, Ready, IsString
<1>2. PICK end : /\ deck[d].D = OD(o, s) /\ IsSeq(s)
                 /\ strings[d] \in Told /\ CutAt(s, strings[d], end)
  BY <1>1, HistoryOf
<1>3. CanDuplex(D, last, F, 0)
  <2>0. IsSeq(X)
    BY <1>1 DEF IsString, IsSeq
  <2>1. Len(last) <= Rho
    BY <1>2, <2>0, LastBlockFits
  <2>2. F \in 1 .. 63
    BY <1>1, TrailerFits
  <2>3. D.rho = Rho
    <3>1. \E p, t : AfterFirstBlocks(OD(o, s), X) = OD(p, t) /\ IsSeq(t)
      BY <1>2, <2>0, BlocksTaken
    <3> QED BY <1>2, <3>1, ODFields
  <2> HIDE DEF D, last, F
  <2> QED BY <2>1, <2>2, <2>3, RhoType DEF CanDuplex
<1> HIDE DEF o, s
<1>4. PICK t : Taken(s, o, X, E, t)
  BY <1>1, <1>2, StringTaken
<1> DEFINE u == [D |-> OD(0, t), Dsqueeze |-> NoOD, o |-> 0]
           new == Append(strings[d], <<X, E>>)
<1>5. /\ deck' = [deck EXCEPT ![d] = u]
      /\ strings' = [strings EXCEPT ![d] = new]
  <2>1. OD_Duplexing(D, last, F, 0) = OD(0, t)
    BY <1>2, <1>4 DEF Taken
  <2> HIDE DEF D, last, F
  <2>2. deck' = [deck EXCEPT ![d] = [D |-> OD_Duplexing(D, last, F, 0), Dsqueeze |-> NoOD, o |-> 0]]
        /\ strings' = [strings EXCEPT ![d] = Append(@, <<X, E>>)]
    BY <1>3 DEF UpperDeck_Duplexing, D, last, F, o, s
  <2> QED BY <2>1, <2>2
<1>6. new \in Told /\ \E f : CutAt(t, new, f)
  <2>1. BlocksAt(t, Len(s), X, E)
    BY <1>4 DEF BlocksAt, Taken
  <2>2. IsSeq(t) /\ Len(t) = Len(s) + Before(X) + 1 /\ \A i \in 1 .. Len(s) : t[i] = s[i]
    BY <1>4 DEF Taken
  <2> QED BY <1>2, <2>1, <2>2, OneMore
<1>7. Reads(u, new)
  <2>1. u.D = OD(0, t) /\ u = [D |-> u.D, Dsqueeze |-> u.Dsqueeze, o |-> u.o]
    OBVIOUS
  <2> HIDE DEF u, new
  <2>2. u.D.s = t /\ u.D = OD(u.D.o, u.D.s)
    BY <2>1, ODFields
  <2>3. IsSeq(t)
    BY <1>4 DEF Taken
  <2> QED BY <1>6, <2>1, <2>2, <2>3 DEF Reads
<1> HIDE DEF u, new
<1> QED BY <1>5, <1>7, HistoryChanges

\* Output changes where an object is in its block, not what it has taken.
LEMMA LoopHistory ==
  ASSUME HistoryInv, Loop, call # Idle => call.in \in Decks
  PROVE  HistoryInv'
<1> DEFINE d == call.in
           u == deck[d]
<1>1. strings' = strings
  BY ZenonT(40) DEF Loop, FromD, NewBlocks, RestOfBlock, Give, Fails
<1>2. d \in Decks /\ Reads(u, strings[d])
  BY DEF Loop, FromD, NewBlocks, RestOfBlock, InLoop, HistoryInv
<1>3. strings' = [strings EXCEPT ![d] = strings[d]]
  BY <1>1, <1>2 DEF HistoryInv
<1>4. CASE deck' = deck
  BY <1>1, <1>4, HistoryStays
<1>5. ASSUME NEW p, NEW n, deck' = [deck EXCEPT ![d] = [[u EXCEPT !.Dsqueeze = p] EXCEPT !.o = n]]
      PROVE  HistoryInv'
  <2> DEFINE v == [D |-> u.D, Dsqueeze |-> p, o |-> n]
  <2>1. [[u EXCEPT !.Dsqueeze = p] EXCEPT !.o = n] = v
    BY <1>2, FieldsChanged, ZenonT(40) DEF Reads
  <2>2. v.D = u.D /\ v = [D |-> v.D, Dsqueeze |-> v.Dsqueeze, o |-> v.o]
    OBVIOUS
  <2> HIDE DEF v, u
  <2>3. Reads(v, strings[d])
    BY <1>2, <2>2 DEF Reads
  <2>4. deck' = [deck EXCEPT ![d] = v]
    BY <1>5, <2>1
  <2> QED BY <1>2, <1>3, <2>3, <2>4, HistoryChanges
<1>6. CASE FromD /\ deck' # deck
  <2> DEFINE x == LesserOf(u.D.rho - u.o, call.left)
             q == IF GoesOn(u) THEN OD_CloneCompact(u.D) ELSE u.Dsqueeze
             v == [D |-> OD_Squeezing(u.D, x), o |-> u.o + x, Dsqueeze |-> q]
  <2>1. deck' = [deck EXCEPT ![d] = v] /\ u.D.rho # 0
    BY <1>6 DEF FromD, Fails, CanSqueeze
  <2>2. PICK end : /\ u.D = OD(u.D.o, u.D.s) /\ IsSeq(u.D.s) /\ strings[d] \in Told
                   /\ CutAt(u.D.s, strings[d], end)
    BY <1>2, <2>1, NoODRho DEF Reads
  <2>3. v.D = OD_Squeezing(u.D, x) /\ v = [D |-> v.D, Dsqueeze |-> v.Dsqueeze, o |-> v.o]
    OBVIOUS
  <2> DEFINE s == u.D.s
             o == u.D.o
  <2>4. u.D = OD(o, s) /\ IsSeq(s) /\ CutAt(s, strings[d], end)
    BY <2>2
  <2> HIDE DEF v, u, x, s, o
  <2>5. OD_Squeezing(OD(o, s), x) = OD(o + x, s)
    BY DEF OD_Squeezing, OD
  <2>6. v.D = OD(o + x, s)
    BY <2>3, <2>4, <2>5
  <2>7. v.D.s = s /\ v.D = OD(v.D.o, v.D.s)
    BY <2>6, ODFields
  <2>8. Reads(v, strings[d])
    BY <2>2, <2>3, <2>4, <2>7 DEF Reads
  <2> QED BY <1>2, <1>3, <2>1, <2>8, HistoryChanges
<1>7. CASE NewBlocks
  <2> DEFINE q == u.Dsqueeze
             n == IF call.left > q.rho THEN call.left \div q.rho ELSE 0
             r == IF n = 0 THEN q ELSE OD_DuplexingFastOnlyOut(q, 2, n)
             rest == call.left - n * q.rho
             p == IF rest = 0 THEN r ELSE OD_Duplexing(r, <<>>, 2, rest)
  <2>1. \/ deck' = [deck EXCEPT ![d].Dsqueeze = p, ![d].o = @ + call.left]
        \/ deck' = deck
    BY <1>7 DEF NewBlocks, Fails
  <2> HIDE DEF p
  <2>2. \/ deck' = [deck EXCEPT ![d] = [[u EXCEPT !.Dsqueeze = p] EXCEPT !.o = u.o + call.left]]
        \/ deck' = deck
    BY <2>1, <1>2 DEF HistoryInv, Reads
  <2> HIDE DEF u
  <2> QED BY <1>4, <1>5, <2>2, ZenonT(40)
<1>8. CASE RestOfBlock
  <2> DEFINE x == LesserOf(u.Dsqueeze.rho - (u.o % u.Dsqueeze.rho), call.left)
             p == OD_Squeezing(u.Dsqueeze, x)
  <2>1. \/ deck' = [deck EXCEPT ![d].Dsqueeze = OD_Squeezing(@, x), ![d].o = @ + x]
        \/ deck' = deck
    BY <1>8 DEF RestOfBlock, Fails
  <2> HIDE DEF x
  <2>2. \/ deck' = [deck EXCEPT ![d] = [[u EXCEPT !.Dsqueeze = p] EXCEPT !.o = u.o + x]]
        \/ deck' = deck
    BY <2>1, <1>2 DEF HistoryInv, Reads
  <2> HIDE DEF p, u
  <2> QED BY <1>4, <1>5, <2>2
<1> QED BY <1>4, <1>6, <1>7, <1>8, SMTT(30) DEF Loop

LEMMA NextHistory ==
  ASSUME HistoryInv, CallKept, [Next]_vars
  PROVE  HistoryInv'
<1>1. ASSUME NEW d \in Decks, UpperDeck_Initialize(d) PROVE HistoryInv'
  BY <1>1, InitializeHistory
<1>2. ASSUME NEW d \in Decks, NEW e \in Decks,
             UpperDeck_Clone(d, e) \/ UpperDeck_CloneCompact(d, e)
      PROVE  HistoryInv'
  BY <1>2, CloneHistory
<1>3. ASSUME NEW d \in Decks, NEW X \in Strings, NEW E \in Trailers, NEW h, NEW n,
             UpperDeck_Duplexing(d, X, E, n, h)
      PROVE  HistoryInv'
  BY <1>3, DuplexingHistory
<1>4. ASSUME NEW d \in Decks, NEW h, NEW n, UpperDeck_Squeezing(d, n, h) PROVE HistoryInv'
  BY <1>4, HistoryStays DEF UpperDeck_Squeezing
<1>5. CASE Loop
  BY <1>5, LoopHistory DEF CallKept
<1>6. CASE UNCHANGED vars
  BY <1>6, HistoryStays DEF vars
<1> QED BY <1>1, <1>2, <1>3, <1>4, <1>5, <1>6 DEF Next

LEMMA NextCall ==
  ASSUME CallKept, [Next]_vars
  PROVE  CallKept'
<1>1. CASE call' = call
  BY <1>1 DEF CallKept
<1>2. CASE call' = Idle
  BY <1>2 DEF CallKept
<1>3. ASSUME NEW d \in Decks, NEW n, NEW h, Squeeze(d, n, h) PROVE CallKept'
  BY <1>3 DEF Squeeze, CallKept
<1>4. ASSUME NEW d, NEW n, NEW bytes, call # Idle, Give(d, n, bytes) PROVE CallKept'
  <2>1. \/ call' = Idle
        \/ call' = [call EXCEPT !.left = @ - n, !.add = AddAfter(@, n), !.begun = TRUE]
    BY <1>4 DEF Give
  <2> QED BY <1>2, <1>4, <2>1 DEF CallKept
<1>5. CASE FromD
  BY <1>1, <1>4, <1>5, SMTT(30) DEF FromD, Fails
<1>6. CASE NewBlocks
  BY <1>1, <1>4, <1>6 DEF NewBlocks, InLoop, Fails
<1>7. CASE RestOfBlock
  BY <1>1, <1>4, <1>7 DEF RestOfBlock, InLoop, Fails
<1>8. ASSUME NEW d \in Decks, UpperDeck_Initialize(d) PROVE CallKept'
  BY <1>1, <1>8 DEF UpperDeck_Initialize
<1>9. ASSUME NEW d \in Decks, NEW e \in Decks,
             UpperDeck_Clone(d, e) \/ UpperDeck_CloneCompact(d, e)
      PROVE  CallKept'
  BY <1>1, <1>9 DEF UpperDeck_Clone, UpperDeck_CloneCompact
<1>10. ASSUME NEW d \in Decks, NEW X, NEW E, NEW h, NEW n, UpperDeck_Duplexing(d, X, E, n, h)
       PROVE  CallKept'
  BY <1>1, <1>3, <1>10 DEF UpperDeck_Duplexing
<1>11. ASSUME NEW d \in Decks, NEW h, NEW n, UpperDeck_Squeezing(d, n, h) PROVE CallKept'
  BY <1>3, <1>11 DEF UpperDeck_Squeezing
<1> QED BY <1>1, <1>5, <1>6, <1>7, <1>8, <1>9, <1>10, <1>11 DEF Next, Loop, vars

-----------------------------------------------------------------------------
(* The theorems.                                                           *)

\* The invariant: every deck that has not gone astray is where its stream is,
\* between the calls and inside one.
THEOREM Invariant == Spec => []IInv
<1>1. Init => IInv
  BY InitIInv
<1>2. IInv /\ [Next]_vars => IInv'
  BY NextIInv
<1> QED BY <1>1, <1>2, PTL DEF Spec

\* However the strings are cut in blocks and their outputs in calls, no
\* assertion of OD_Duplexing, OD_DuplexingFastOnlyOut and OD_Squeezing fails and
\* no remainder by the block size of a cleared Dsqueeze is taken, but in a call
\* that has more than a block to go with Yadd the null pointer, or on a clone
\* made past the first block of the stream (ShakingUpAE.inc 270 and 223).
THEOREM NoOtherFailure == Spec => []OnlyKnownFailures
<1>1. IInv => OnlyKnownFailures
  BY DEF IInv
<1> QED BY <1>1, Invariant, PTL

\* The bytes that UpperDeck_Duplexing and UpperDeck_Squeezing give out after a
\* string are the stream of the deck, from the first byte on and without a gap,
\* and each is added to its own byte of Yadd, whatever the calls are; on every
\* deck but a clone made past the first block of the stream.
THEOREM OutputIsTheStream == Spec => []StreamIsContinuous
<1>1. IInv => StreamIsContinuous
  <2> SUFFICES ASSUME IInv, NEW d \in Decks \ astray, NEW i \in 1 .. Len(stream[d])
               PROVE  /\ stream[d][i].z = StreamByte(deck[d].D, i - 1)
                      /\ stream[d][i].y = i - 1
    BY DEF StreamIsContinuous
  <2>1. CASE stream[d] = <<>>
    <3>1. Len(stream[d]) = 0
      BY <2>1, NothingGiven
    <3> QED BY <3>1
  <2>2. CASE InOrder(deck[d], stream[d])
    BY <2>2 DEF InOrder
  <2> QED BY <2>1, <2>2 DEF IInv, DeckInv, Streaming
<1> QED BY <1>1, Invariant, PTL

\* In every reachable state, and whatever the callers do, the state of the
\* object D of a deck is the block of the key, then for each string of its
\* history its blocks: cut at multiples of the block size, the last one padded
\* and marked by the trailer (ShakingUpAE.inc, UpperDeck_Duplexing).
THEOREM StateIsTheStrings == Spec => [](HistoryInv /\ CallKept)
<1>1. Init => HistoryInv /\ CallKept
  BY InitHistory DEF Init, CallKept
<1>2. HistoryInv /\ CallKept /\ [Next]_vars => (HistoryInv /\ CallKept)'
  BY NextHistory, NextCall
<1> QED BY <1>1, <1>2, PTL DEF Spec

\* Two decks in the same state have been given the same strings, cut in the
\* same way and with the same trailers: the padding and the bits that mark the
\* last block of a string leave no doubt about where it ends, for every block
\* size, every string and every list of strings.
THEOREM NoTwoHistories == Spec => []StringsDetermineState
<1>1. HistoryInv => StringsDetermineState
  <2> SUFFICES ASSUME HistoryInv, NEW d \in Decks, NEW e \in Decks,
                      deck[d].D.rho # 0, deck[e].D.rho # 0, deck[d].D.s = deck[e].D.s
               PROVE  strings[d] = strings[e]
    BY DEF StringsDetermineState
  <2>1. strings[d] \in Told /\ \E end : CutAt(deck[d].D.s, strings[d], end)
    BY HistoryOf
  <2>2. strings[e] \in Told /\ \E end : CutAt(deck[e].D.s, strings[e], end)
    BY HistoryOf
  <2> QED BY <2>1, <2>2, OneReading
<1> QED BY <1>1, StateIsTheStrings, PTL

=============================================================================
