---------------------------- MODULE CyclistProofs ----------------------------
(***************************************************************************)
(* Proofs about CyclistSession: whatever the kernels, the rates, the       *)
(* strings and the order of the calls, what an instance has been told      *)
(* decides its output, deciphering undoes enciphering, no unit of output   *)
(* serves twice, a ratchet erases what it says, and the state tells all    *)
(* that the instance has been told.                                        *)
(*                                                                         *)
(* The loops over blocks are recursive functions.  What holds at every     *)
(* block is a set of naturals, and a set of naturals that misses one has a *)
(* smallest one that it misses: that is the induction here.                *)
(***************************************************************************)
EXTENDS CyclistSession, SequenceTheorems, WellFoundedInduction, FiniteSetTheorems, TLAPS

IsSeq(x) == \E S : x \in Seq(S)

-----------------------------------------------------------------------------
(* Induction, sequences and their blocks.                                  *)

LEMMA Smallest ==
  ASSUME NEW T, T \subseteq Nat, T # {}
  PROVE  \E x \in T : \A y \in T : x <= y
<1> DEFINE R == OpToRel(<, Nat)
<1>1. \E x \in T : \A y \in T : ~ (<<y, x>> \in R)
  <2>1. IsWellFoundedOn(R, Nat)
    BY NatLessThanWellFounded
  <2> HIDE DEF R
  <2> QED BY <2>1, WFMin
<1>2. \A x, y \in Nat : y < x => <<y, x>> \in R
  BY DEF OpToRel
<1> HIDE DEF R
<1>3. PICK x \in T : \A y \in T : ~ (<<y, x>> \in R)
  BY <1>1
<1>4. \A y \in T : ~(y < x)
  BY <1>2, <1>3, Zenon
<1>5. \A y \in T : x <= y
  BY <1>4
<1> QED BY <1>5

\* What holds of 0 and with n of n + 1: the naturals it holds of are a set.
LEMMA Induction ==
  ASSUME NEW T, 0 \in T, \A n \in Nat : n \in T => n + 1 \in T
  PROVE  \A n \in Nat : n \in T
<1> SUFFICES ASSUME NEW m \in Nat, m \notin T PROVE FALSE
  OBVIOUS
<1> DEFINE U == Nat \ T
<1>1. PICK x \in U : \A y \in U : x <= y
  BY Smallest
<1>2. x # 0 /\ x - 1 \in Nat /\ x - 1 \notin U
  BY <1>1
<1> QED BY <1>2

LEMMA SeqLength ==
  ASSUME NEW s, IsSeq(s)
  PROVE  Len(s) \in Nat /\ DOMAIN s = 1 .. Len(s)
<1>1. PICK S : s \in Seq(S)
  BY DEF IsSeq
<1> QED BY <1>1, LenProperties

LEMMA Joined ==
  ASSUME NEW s, IsSeq(s), NEW t, IsSeq(t)
  PROVE  /\ IsSeq(s \o t) /\ Len(s \o t) = Len(s) + Len(t)
         /\ \A i \in 1 .. Len(s) + Len(t) :
              (s \o t)[i] = IF i <= Len(s) THEN s[i] ELSE t[i - Len(s)]
<1>1. PICK S : s \in Seq(S)
  BY DEF IsSeq
<1>2. PICK T : t \in Seq(T)
  BY DEF IsSeq
<1> DEFINE U == S \cup T
<1>3. s \in Seq(U) /\ t \in Seq(U)
  BY <1>1, <1>2, SeqMonotonic
<1> HIDE DEF U
<1> QED BY <1>3, ConcatProperties DEF IsSeq

LEMMA Extended ==
  ASSUME NEW s, IsSeq(s), NEW e
  PROVE  /\ IsSeq(Append(s, e)) /\ Len(Append(s, e)) = Len(s) + 1
         /\ \A i \in 1 .. Len(s) : Append(s, e)[i] = s[i]
         /\ Append(s, e)[Len(s) + 1] = e
<1>1. PICK S : s \in Seq(S)
  BY DEF IsSeq
<1> DEFINE T == S \cup {e}
<1>2. s \in Seq(T) /\ e \in T
  BY <1>1, SeqMonotonic
<1> HIDE DEF T
<1> QED BY <1>2, AppendProperties DEF IsSeq

LEMMA EmptyIs == IsSeq(<<>>) /\ Len(<<>>) = 0
BY EmptySeq DEF IsSeq

LEMMA Divided ==
  ASSUME NEW r \in Nat \ {0}, NEW q \in Nat, NEW p \in 0 .. r - 1
  PROVE  (q * r + p) \div r = q /\ (q * r + p) % r = p
BY SMT

LEMMA Quotients ==
  ASSUME NEW r \in Nat \ {0}, NEW i \in Nat
  PROVE  /\ i \div r \in Nat /\ i % r \in 0 .. r - 1 /\ i = (i \div r) * r + (i % r)
BY SMT

\* The blocks of r units of n: whole ones, and a last one with what is left.
LEMMA LastBlock ==
  ASSUME NEW n \in Nat, NEW r \in Nat \ {0}
  PROVE  /\ Blocks(n, r) \in Nat \ {0}
         /\ (Blocks(n, r) - 1) * r \in Nat /\ (Blocks(n, r) - 1) * r <= n
         /\ n <= Blocks(n, r) * r /\ Blocks(n, r) * r = (Blocks(n, r) - 1) * r + r
<1> DEFINE b == Blocks(n, r)
<1>1. CASE n = 0
  <2>1. b = 1
    BY <1>1 DEF Blocks
  <2>2. (b - 1) * r = 0 /\ b * r = r
    BY <2>1
  <2> HIDE DEF b
  <2> QED BY <1>1, <2>1, <2>2 DEF b
<1>2. CASE n # 0
  <2> DEFINE m == n + r - 1
  <2>1. m \in Nat /\ b = m \div r
    BY <1>2 DEF Blocks
  <2> HIDE DEF m, b
  <2>2. b \in Nat /\ m % r \in 0 .. r - 1 /\ m = b * r + (m % r)
    BY <2>1, Quotients
  <2>3. b * r \in Nat /\ (b - 1) * r = b * r - r
    BY <2>2
  <2>4. m = n + r - 1
    BY DEF m
  <2>5. b * r <= m /\ m < b * r + r
    BY <2>2, <2>3
  <2>6. n <= b * r /\ b * r - r < n
    BY <2>3, <2>4, <2>5
  <2>7. b # 0
    <3>1. b = 0 => b * r = 0
      OBVIOUS
    <3> QED BY <1>2, <2>6, <3>1
  <2>8. (b - 1) * r \in Nat
    BY <2>2, <2>7
  <2> QED BY <2>2, <2>3, <2>6, <2>7, <2>8 DEF b
<1> QED BY <1>1, <1>2

LEMMA EarlierBlock ==
  ASSUME NEW n \in Nat, NEW r \in Nat \ {0}, NEW k \in 1 .. Blocks(n, r)
  PROVE  /\ k - 1 \in Nat /\ (k - 1) * r \in Nat /\ (k - 1) * r <= n /\ k * r = (k - 1) * r + r
         /\ SizeOf(n, r, k) \in 0 .. r /\ (k - 1) * r + SizeOf(n, r, k) <= n
         /\ k = Blocks(n, r) => (k - 1) * r + SizeOf(n, r, k) = n
         /\ k < Blocks(n, r) => SizeOf(n, r, k) = r /\ k * r <= n
<1> DEFINE b == Blocks(n, r)
<1>1. /\ b \in Nat \ {0} /\ (b - 1) * r \in Nat /\ (b - 1) * r <= n
      /\ n <= b * r /\ b * r = (b - 1) * r + r
  BY LastBlock
<1> HIDE DEF b
<1>2. k \in Nat /\ 1 <= k /\ k <= b
  BY <1>1 DEF b
<1> DEFINE a == (k - 1) * r
<1>3. a \in Nat /\ k * r = a + r
  BY <1>2
<1>4. a <= (b - 1) * r
  <2>1. b - k \in Nat
    BY <1>1, <1>2
  <2>2. (b - k) * r \in Nat /\ (b - 1) * r = a + (b - k) * r
    BY <1>1, <1>2, <2>1
  <2> QED BY <1>1, <1>3, <2>2
<1>5. k < b => a + r <= (b - 1) * r
  <2> SUFFICES ASSUME k < b PROVE a + r <= (b - 1) * r
    OBVIOUS
  <2>1. b - 1 - k \in Nat
    BY <1>1, <1>2
  <2>2. (b - 1 - k) * r \in Nat /\ (b - 1) * r = k * r + (b - 1 - k) * r
    BY <1>1, <1>2, <2>1
  <2> QED BY <1>1, <1>3, <2>2
<1>6. k = b => n <= a + r
  BY <1>1
<1> HIDE DEF a
<1>7. SizeOf(n, r, k) = IF n - a < r THEN n - a ELSE r
  BY DEF SizeOf, a
<1> QED BY <1>1, <1>2, <1>3, <1>4, <1>5, <1>6, <1>7 DEF a, b

LEMMA BlockIs ==
  ASSUME NEW X, IsSeq(X), NEW r \in Nat \ {0}, NEW k \in 1 .. Blocks(Len(X), r)
  PROVE  /\ IsSeq(Block(X, r, k)) /\ Len(Block(X, r, k)) = SizeOf(Len(X), r, k)
         /\ \A j \in 1 .. SizeOf(Len(X), r, k) : Block(X, r, k)[j] = X[(k - 1) * r + j]
<1> DEFINE n == Len(X)
           a == (k - 1) * r
           s == SizeOf(n, r, k)
<1>1. n \in Nat
  BY SeqLength
<1>2. a \in Nat /\ a <= n /\ k * r = a + r /\ s \in 0 .. r /\ a + s <= n
  BY <1>1, EarlierBlock
<1>3. (IF k * r < n THEN k * r ELSE n) = a + s
  <2>1. s = IF n - a < r THEN n - a ELSE r
    BY DEF SizeOf
  <2> HIDE DEF a, s, n
  <2> QED BY <1>1, <1>2, <2>1
<1> HIDE DEF a, s, n
<1>4. Block(X, r, k) = SubSeq(X, a + 1, a + s)
  BY <1>3 DEF Block, a, n
<1>5. PICK S : X \in Seq(S)
  BY DEF IsSeq
<1>6. \A i \in a + 1 .. a + s : X[i] \in S
  BY <1>1, <1>2, <1>5, ElementOfSeq DEF n
<1> DEFINE l == a + 1
           u == a + s
<1>7. l \in Int /\ u \in Int /\ u - l + 1 = s /\ (\A j \in 1 .. s : l + j - 1 = a + j) /\ l <= u + 1
  BY <1>1, <1>2
<1>8. \A i \in l .. u : X[i] \in S
  BY <1>6
<1> HIDE DEF l, u
<1>9. /\ SubSeq(X, l, u) \in Seq(S)
      /\ Len(SubSeq(X, l, u)) = IF l <= u THEN u - l + 1 ELSE 0
      /\ \A i \in 1 .. u - l + 1 : SubSeq(X, l, u)[i] = X[l + i - 1]
  BY <1>7, <1>8, SubSeqProperties, SMTT(30)
<1>10. (IF l <= u THEN u - l + 1 ELSE 0) = s
  BY <1>2, <1>7
<1>11. IsSeq(SubSeq(X, l, u))
  BY <1>9 DEF IsSeq
<1> QED BY <1>4, <1>7, <1>9, <1>10, <1>11 DEF l, u, a, n, s

\* Every place is in a block.
LEMMA PlaceInBlock ==
  ASSUME NEW n \in Nat, NEW r \in Nat \ {0}, NEW p \in 1 .. n
  PROVE  \E k \in 1 .. Blocks(n, r), j \in 1 .. r :
           p = (k - 1) * r + j /\ j <= SizeOf(n, r, k)
<1> DEFINE q == (p - 1) \div r
           m == (p - 1) % r
           k == q + 1
           j == m + 1
           b == Blocks(n, r)
<1>1. p - 1 \in Nat
  OBVIOUS
<1>2. q \in Nat /\ m \in 0 .. r - 1 /\ p - 1 = q * r + m
  BY <1>1, Quotients
<1> HIDE DEF q, m
<1>3. j \in 1 .. r /\ p = (k - 1) * r + j
  <2>1. k - 1 = q
    BY <1>2
  <2>2. q * r \in Nat
    BY <1>2
  <2> QED BY <1>2, <2>1, <2>2
<1>4. b \in Nat \ {0} /\ n <= b * r
  BY LastBlock
<1> HIDE DEF b
<1>5. k <= b
  <2> SUFFICES ASSUME ~(k <= b) PROVE FALSE
    OBVIOUS
  <2>1. q - b \in Nat
    BY <1>2, <1>4
  <2>2. (q - b) * r \in Nat /\ q * r = b * r + (q - b) * r /\ b * r \in Nat
    BY <1>2, <1>4, <2>1
  <2> QED BY <1>2, <1>4, <2>2
<1>6. k \in 1 .. b
  BY <1>2, <1>4, <1>5
<1> HIDE DEF k, j
<1>7. SizeOf(n, r, k) = (IF n - (k - 1) * r < r THEN n - (k - 1) * r ELSE r) /\ (k - 1) * r \in Nat
  <2>1. (k - 1) * r \in Nat
    BY <1>6, EarlierBlock DEF b
  <2> QED BY <2>1 DEF SizeOf
<1>8. j <= SizeOf(n, r, k)
  BY <1>3, <1>7
<1> QED BY <1>3, <1>6, <1>8 DEF b

\* What is put together block by block: O[k] are the first k blocks.
Assembled(O, B, n, r) ==
  /\ O[0] = <<>>
  /\ \A k \in 1 .. Blocks(n, r) :
       O[k] = O[k - 1] \o B[k] /\ IsSeq(B[k]) /\ Len(B[k]) = SizeOf(n, r, k)

\* x is n units, those of block k at its place.
MadeOf(x, B, n, r) ==
  /\ IsSeq(x) /\ Len(x) = n
  /\ \A k \in 1 .. Blocks(n, r) : \A j \in 1 .. SizeOf(n, r, k) : x[(k - 1) * r + j] = B[k][j]

LEMMA Assembling ==
  ASSUME NEW O, NEW B, NEW n \in Nat, NEW r \in Nat \ {0}, Assembled(O, B, n, r)
  PROVE  MadeOf(O[Blocks(n, r)], B, n, r)
<1> DEFINE b == Blocks(n, r)
           upTo(k) == IF k = 0 THEN 0 ELSE (k - 1) * r + SizeOf(n, r, k)
           Part(k) == /\ IsSeq(O[k]) /\ Len(O[k]) = upTo(k)
                      /\ \A i \in 1 .. k : \A j \in 1 .. SizeOf(n, r, i) :
                           O[k][(i - 1) * r + j] = B[i][j]
           T == {k \in Nat : k <= b => Part(k)}
<1>1. b \in Nat \ {0}
  BY LastBlock
<1> HIDE DEF b
<1>2. 0 \in T
  <2>1. IsSeq(O[0]) /\ Len(O[0]) = 0
    BY EmptyIs DEF Assembled
  <2> QED BY <2>1
<1>3. \A k \in Nat : k \in T => k + 1 \in T
  <2> HIDE DEF Part
  <2> SUFFICES ASSUME NEW k \in Nat, k \in T, k + 1 <= b PROVE Part(k + 1)
    OBVIOUS
  <2> DEFINE l == k + 1
             s == SizeOf(n, r, l)
  <2>0. Part(k)
    BY <1>1
  <2>1. /\ IsSeq(O[k]) /\ Len(O[k]) = upTo(k)
        /\ \A i \in 1 .. k : \A j \in 1 .. SizeOf(n, r, i) :
             O[k][(i - 1) * r + j] = B[i][j]
    BY <2>0 DEF Part
  <2>2. l \in 1 .. b /\ l - 1 = k
    BY <1>1
  <2>3. O[l] = O[k] \o B[l] /\ IsSeq(B[l]) /\ Len(B[l]) = s
    BY <2>2 DEF Assembled, b
  <2>4. s \in 0 .. r /\ k * r \in Nat
    BY <2>2, EarlierBlock DEF b
  <2>5. upTo(k) = k * r
    <3>1. CASE k = 0
      <4>1. 0 * r = 0
        OBVIOUS
      <4> QED BY <3>1, <4>1
    <3>2. CASE k # 0
      <4>1. k \in 1 .. b /\ k < b
        BY <1>1, <2>2, <3>2
      <4>2. SizeOf(n, r, k) = r /\ k * r = (k - 1) * r + r
        BY <4>1, EarlierBlock DEF b
      <4> QED BY <3>2, <4>2
    <3> QED BY <3>1, <3>2
  <2> HIDE DEF s, upTo
  <2>6. Len(O[k]) = k * r /\ IsSeq(O[k])
    BY <2>1, <2>5
  <2>7. /\ IsSeq(O[l]) /\ Len(O[l]) = k * r + s
        /\ \A i \in 1 .. k * r + s :
             O[l][i] = IF i <= k * r THEN O[k][i] ELSE B[l][i - k * r]
    <3> DEFINE a == k * r
    <3>1. Len(O[k]) = a
      BY <2>6
    <3> HIDE DEF a
    <3>2. /\ IsSeq(O[l]) /\ Len(O[l]) = a + s
          /\ \A i \in 1 .. a + s : O[l][i] = IF i <= a THEN O[k][i] ELSE B[l][i - a]
      <4> DEFINE x == O[k]
                 y == B[l]
      <4>1. IsSeq(x) /\ IsSeq(y) /\ Len(x) = a /\ Len(y) = s
        BY <2>3, <2>6, <3>1
      <4>2. O[l] = x \o y
        BY <2>3
      <4> HIDE DEF x, y, s
      <4>3. /\ IsSeq(x \o y) /\ Len(x \o y) = Len(x) + Len(y)
            /\ \A i \in 1 .. Len(x) + Len(y) :
                 (x \o y)[i] = IF i <= Len(x) THEN x[i] ELSE y[i - Len(x)]
        BY <4>1, Joined
      <4> QED BY <4>1, <4>2, <4>3 DEF x, y
    <3> QED BY <3>2 DEF a
  <2>8. upTo(l) = k * r + s
    BY <2>2 DEF upTo, s
  <2>9. ASSUME NEW i \in 1 .. l, NEW j \in 1 .. SizeOf(n, r, i)
        PROVE  O[l][(i - 1) * r + j] = B[i][j]
    <3> DEFINE a == (i - 1) * r
    <3>1. CASE i = l
      <4>1. a = k * r /\ j \in 1 .. s
        BY <2>2, <3>1 DEF s
      <4>2. a + j \in 1 .. k * r + s /\ ~(a + j <= k * r) /\ (a + j) - k * r = j
        BY <2>4, <4>1
      <4> QED BY <2>7, <3>1, <4>2
    <3>2. CASE i # l
      <4>1. i \in 1 .. k /\ i \in 1 .. b /\ i < b
        BY <1>1, <2>2, <3>2
      <4>2. SizeOf(n, r, i) = r /\ a \in Nat /\ i * r = a + r
        BY <4>1, EarlierBlock DEF b
      <4>3. i * r <= k * r
        <5>1. k - i \in Nat
          BY <4>1
        <5>2. (k - i) * r \in Nat /\ k * r = i * r + (k - i) * r
          BY <4>1, <5>1
        <5> QED BY <2>4, <4>2, <5>2
      <4>4. a + j \in 1 .. k * r + s /\ a + j <= k * r
        <5> HIDE DEF a
        <5> QED BY <2>4, <4>2, <4>3
      <4>5. O[k][a + j] = B[i][j]
        BY <2>1, <4>1
      <4> QED BY <2>7, <4>4, <4>5
    <3> QED BY <3>1, <3>2
  <2> QED BY <2>7, <2>8, <2>9 DEF Part
<1>4. \A k \in Nat : k \in T
  <2> HIDE DEF T
  <2> QED BY <1>2, <1>3, Induction
<1>5. Part(b)
  <2> HIDE DEF Part
  <2> QED BY <1>1, <1>4
<1>6. upTo(b) = n
  BY <1>1, EarlierBlock DEF b
<1> QED BY <1>5, <1>6 DEF MadeOf, b

\* It has those blocks.
LEMMA BlocksOfMade ==
  ASSUME NEW x, NEW B, NEW n \in Nat, NEW r \in Nat \ {0}, MadeOf(x, B, n, r),
         NEW k \in 1 .. Blocks(n, r), IsSeq(B[k]), Len(B[k]) = SizeOf(n, r, k)
  PROVE  Block(x, r, k) = B[k]
<1> DEFINE y == Block(x, r, k)
           z == B[k]
           s == SizeOf(n, r, k)
<1>1. /\ IsSeq(y) /\ Len(y) = s
      /\ \A j \in 1 .. s : y[j] = x[(k - 1) * r + j]
  BY BlockIs DEF MadeOf
<1>2. \A j \in 1 .. s : y[j] = z[j]
  BY <1>1 DEF MadeOf
<1> HIDE DEF y, z, s
<1>3. IsSeq(z) /\ Len(z) = s
  BY DEF z, s
<1>4. PICK S : y \in Seq(S)
  BY <1>1 DEF IsSeq
<1>5. PICK T : z \in Seq(T)
  BY <1>3 DEF IsSeq
<1>6. y \in Seq(S \cup T) /\ z \in Seq(S \cup T)
  BY <1>4, <1>5, SeqMonotonic
<1> QED BY <1>1, <1>2, <1>3, <1>6, SeqEqual DEF y, z

-----------------------------------------------------------------------------
(* The calls of the permutation, with and without the kernels.             *)

\* An instance with state s, what was added since, and its phase and mode.
Cyc(s, a, phase, mode, kernels) ==
  [s |-> s, added |-> a, phase |-> phase, mode |-> mode,
   Rabsorb |-> IF mode = "Keyed" THEN Rkin ELSE Rhash,
   Rsqueeze |-> IF mode = "Keyed" THEN Rkout ELSE Rhash, kernels |-> kernels]

\* What is added is units for all places.
Units(a) == a = [p \in 1 .. bPrime |-> a[p]]

IsCyc(c) ==
  /\ c = Cyc(c.s, c.added, c.phase, c.mode, c.kernels)
  /\ IsSeq(c.s) /\ Units(c.added) /\ c.kernels \in BOOLEAN

\* The changes of one field.
WithS(c, z) == [c EXCEPT !.s = z]
WithAdded(c, z) == [c EXCEPT !.added = z]
WithPhase(c, z) == [c EXCEPT !.phase = z]
WithKernels(c, z) == [c EXCEPT !.kernels = z]

\* The same instance on an implementation without the kernels.
Plain(c) == WithKernels(c, FALSE)

\* What the color Cu is added to before the permutation.
Colored(a, mode, Cu) == IF mode = "Hash" THEN a ELSE [a EXCEPT ![bPrime] = Xor(@, Byte(Cu))]

LEMMA Sizes ==
  /\ bPrime \in Nat \ {0} /\ Rhash \in Nat \ {0} /\ Rkin \in Nat \ {0} /\ Rkout \in Nat \ {0}
  /\ lRatchet \in Nat \ {0} /\ lRatchet <= Rkout /\ Rkout < Rkin /\ Rkin < bPrime - 1
  /\ Rhash # 1 /\ Rhash < Rkout
BY CyclistAssumption

LEMMA CycChanges ==
  \A s, a, ph, m, k, z :
    /\ WithS(Cyc(s, a, ph, m, k), z) = Cyc(z, a, ph, m, k)
    /\ WithAdded(Cyc(s, a, ph, m, k), z) = Cyc(s, z, ph, m, k)
    /\ WithPhase(Cyc(s, a, ph, m, k), z) = Cyc(s, a, z, m, k)
    /\ WithKernels(Cyc(s, a, ph, m, k), z) = Cyc(s, a, ph, m, z)
<1> TAKE s, a, ph, m, k, z
<1> DEFINE x == IF m = "Keyed" THEN Rkin ELSE Rhash
           y == IF m = "Keyed" THEN Rkout ELSE Rhash
           r(t, b, h, l) == [s |-> t, added |-> b, phase |-> h, mode |-> m,
                             Rabsorb |-> x, Rsqueeze |-> y, kernels |-> l]
<1>1. \A t, b, h, l : Cyc(t, b, h, m, l) = r(t, b, h, l)
  BY DEF Cyc
<1> HIDE DEF x, y
<1>2. WithS(r(s, a, ph, k), z) = r(z, a, ph, k)
  BY DEF WithS
<1>3. WithAdded(r(s, a, ph, k), z) = r(s, z, ph, k)
  BY DEF WithAdded
<1>4. WithPhase(r(s, a, ph, k), z) = r(s, a, z, k)
  BY DEF WithPhase
<1>5. WithKernels(r(s, a, ph, k), z) = r(s, a, ph, z)
  BY DEF WithKernels
<1> HIDE DEF r
<1> QED BY <1>1, <1>2, <1>3, <1>4, <1>5

LEMMA CycFields ==
  \A s, a, ph, m, k :
    /\ Cyc(s, a, ph, m, k).s = s /\ Cyc(s, a, ph, m, k).added = a
    /\ Cyc(s, a, ph, m, k).phase = ph /\ Cyc(s, a, ph, m, k).mode = m
    /\ Cyc(s, a, ph, m, k).kernels = k
    /\ Cyc(s, a, ph, m, k).Rabsorb = (IF m = "Keyed" THEN Rkin ELSE Rhash)
    /\ Cyc(s, a, ph, m, k).Rsqueeze = (IF m = "Keyed" THEN Rkout ELSE Rhash)
    /\ Plain(Cyc(s, a, ph, m, k)) = Cyc(s, a, ph, m, FALSE)
<1> TAKE s, a, ph, m, k
<1> DEFINE x == IF m = "Keyed" THEN Rkin ELSE Rhash
           y == IF m = "Keyed" THEN Rkout ELSE Rhash
<1>1. Cyc(s, a, ph, m, k) = [s |-> s, added |-> a, phase |-> ph, mode |-> m,
                             Rabsorb |-> x, Rsqueeze |-> y, kernels |-> k]
  BY DEF Cyc
<1>2. Plain(Cyc(s, a, ph, m, k)) = Cyc(s, a, ph, m, FALSE)
  <2>1. \A z : WithKernels(Cyc(s, a, ph, m, k), z) = Cyc(s, a, ph, m, z)
    BY CycChanges
  <2> QED BY <2>1, Zenon DEF Plain
<1> HIDE DEF x, y
<1>3. /\ Cyc(s, a, ph, m, k).s = s /\ Cyc(s, a, ph, m, k).added = a
      /\ Cyc(s, a, ph, m, k).phase = ph /\ Cyc(s, a, ph, m, k).mode = m
      /\ Cyc(s, a, ph, m, k).kernels = k
      /\ Cyc(s, a, ph, m, k).Rabsorb = x /\ Cyc(s, a, ph, m, k).Rsqueeze = y
  BY <1>1
<1> QED BY <1>2, <1>3 DEF x, y

LEMMA CycIs ==
  ASSUME NEW s, NEW a, NEW ph, NEW m, NEW k, IsSeq(s), Units(a), k \in BOOLEAN
  PROVE  IsCyc(Cyc(s, a, ph, m, k))
BY CycFields DEF IsCyc

LEMMA UnitsAdded ==
  /\ Units(Nothing)
  /\ \A X, Cd : Units(Padded(X, Cd)) /\ XorAll(Nothing, Padded(X, Cd)) = Padded(X, Cd)
  /\ \A a, x : Units(a) => Units(XorAll(a, x))
  /\ \A a, m, Cu : Units(a) => Units(Colored(a, m, Cu))
<1>1. Units(Nothing)
  BY DEF Units, Nothing
<1>2. ASSUME NEW X, NEW Cd
      PROVE  Units(Padded(X, Cd)) /\ XorAll(Nothing, Padded(X, Cd)) = Padded(X, Cd)
  <2> DEFINE y == Padded(X, Cd)
  <2>1. y = [p \in 1 .. bPrime |-> y[p]]
    BY DEF Padded
  <2> HIDE DEF y
  <2>2. DOMAIN Nothing = 1 .. bPrime /\ \A p \in 1 .. bPrime : Xor(Nothing[p], y[p]) = y[p]
    BY DEF Nothing, Xor, Zero
  <2>3. XorAll(Nothing, y) = [p \in 1 .. bPrime |-> y[p]]
    BY <2>2 DEF XorAll
  <2> QED BY <2>1, <2>3 DEF Units, y
<1>3. ASSUME NEW a, NEW x, Units(a) PROVE Units(XorAll(a, x))
  <2>1. DOMAIN a = 1 .. bPrime
    BY <1>3 DEF Units
  <2> QED BY <2>1 DEF Units, XorAll
<1>4. ASSUME NEW a, NEW m, NEW Cu, Units(a) PROVE Units(Colored(a, m, Cu))
  <2>1. DOMAIN a = 1 .. bPrime
    BY <1>4 DEF Units
  <2> DEFINE y == [a EXCEPT ![bPrime] = Xor(@, Byte(Cu))]
  <2>2. Units(y)
    BY <2>1 DEF Units
  <2> QED BY <1>4, <2>2 DEF Colored
<1> QED BY <1>1, <1>2, <1>3, <1>4

LEMMA NoColor ==
  /\ Byte(0) = {}
  /\ \A a, m : Units(a) => Colored(a, m, 0) = a
<1>1. \A i \in 0 .. 7 : (0 \div 2 ^ i) % 2 = 0
  <2>0. 2^0 = 1 /\ 2^1 = 2 /\ 2^2 = 4 /\ 2^3 = 8 /\ 2^4 = 16 /\ 2^5 = 32 /\ 2^6 = 64 /\ 2^7 = 128
    BY SMT
  <2>1. \A i \in 0 .. 7 :
          i = 0 \/ i = 1 \/ i = 2 \/ i = 3 \/ i = 4 \/ i = 5 \/ i = 6 \/ i = 7
    OBVIOUS
  <2>2. ASSUME NEW i \in 0 .. 7 PROVE 2 ^ i \in {1, 2, 4, 8, 16, 32, 64, 128}
    <3> DEFINE w == 2 ^ i
    <3>1. w = 2^0 \/ w = 2^1 \/ w = 2^2 \/ w = 2^3 \/ w = 2^4 \/ w = 2^5 \/ w = 2^6 \/ w = 2^7
      BY <2>1, Zenon
    <3> HIDE DEF w
    <3>2. w \in {1, 2, 4, 8, 16, 32, 64, 128}
      BY <2>0, <3>1, SMT
    <3> QED BY <3>2 DEF w
  <2>3. \A q \in {1, 2, 4, 8, 16, 32, 64, 128} : (0 \div q) % 2 = 0
    OBVIOUS
  <2> QED BY <2>2, <2>3
<1>2. Byte(0) = {}
  <2> SUFFICES ASSUME NEW x \in Byte(0) PROVE FALSE
    OBVIOUS
  <2> PICK b \in {i \in 0 .. 7 : (0 \div 2 ^ i) % 2 = 1} : x = <<2 ^ b>>
    BY DEF Byte
  <2> HIDE DEF Byte
  <2>1. (0 \div 2 ^ b) % 2 = 1 /\ b \in 0 .. 7
    OBVIOUS
  <2>2. (0 \div 2 ^ b) % 2 = 0
    BY <1>1, <2>1
  <2> QED BY <2>1, <2>2
<1>3. ASSUME NEW a, NEW m, Units(a) PROVE Colored(a, m, 0) = a
  <2>1. Xor(a[bPrime], Byte(0)) = a[bPrime]
    BY <1>2 DEF Xor
  <2>2. [a EXCEPT ![bPrime] = Xor(@, Byte(0))] = a
    BY <1>3, <2>1 DEF Units
  <2> QED BY <2>2 DEF Colored
<1> QED BY <1>2, <1>3

LEMMA PermutedIs ==
  \A s, a, ph, m, k :
    Permuted(Cyc(s, a, ph, m, k)) = Cyc(Append(s, Absorbed(s, a)), Nothing, ph, m, k)
<1> TAKE s, a, ph, m, k
<1> DEFINE c == Cyc(s, a, ph, m, k)
           t == Append(s, Absorbed(s, a))
<1>1. Permuted(c) = WithAdded(WithS(c, Append(c.s, Absorbed(c.s, c.added))), Nothing)
  <2> HIDE DEF c
  <2> QED BY DEF Permuted, WithAdded, WithS
<1>2. c.s = s /\ c.added = a
  BY CycFields
<1> HIDE DEF c
<1>3. Permuted(c) = WithAdded(WithS(c, t), Nothing)
  BY <1>1, <1>2
<1> QED BY <1>3, CycChanges DEF c

LEMMA DownIs ==
  \A s, a, ph, m, k, X, Cd :
    Down(Cyc(s, a, ph, m, k), X, Cd)
      = Cyc(s, XorAll(a, Padded(X, IF m = "Hash" THEN Cd % 2 ELSE Cd)), "Down", m, k)
<1> TAKE s, a, ph, m, k, X, Cd
<1> DEFINE c == Cyc(s, a, ph, m, k)
           b == XorAll(a, Padded(X, IF m = "Hash" THEN Cd % 2 ELSE Cd))
<1>1. c.added = a /\ c.mode = m
  BY CycFields
<1>2. Down(c, X, Cd) = WithPhase(WithAdded(c, b), "Down")
  <2> HIDE DEF c
  <2> QED BY <1>1 DEF Down, WithPhase, WithAdded
<1>3. WithPhase(WithAdded(c, b), "Down") = Cyc(s, b, "Down", m, k)
  <2> HIDE DEF b
  <2> QED BY CycChanges
<1> QED BY <1>2, <1>3

LEMMA UpIs ==
  \A s, a, ph, m, k, Cu :
    Up(Cyc(s, a, ph, m, k), Cu)
      = Cyc(Append(s, Absorbed(s, Colored(a, m, Cu))), Nothing, "Up", m, k)
<1> TAKE s, a, ph, m, k, Cu
<1> DEFINE c == Cyc(s, a, ph, m, k)
<1>1. ColorUp(c, Cu) = Cyc(s, Colored(a, m, Cu), ph, m, k)
  <2>1. c.mode = m /\ c.added = a
    BY CycFields
  <2> HIDE DEF c
  <2>2. CASE m = "Hash"
    BY <2>1, <2>2 DEF ColorUp, Colored, c
  <2>3. CASE m # "Hash"
    <3>1. ColorUp(c, Cu) = WithAdded(c, [a EXCEPT ![bPrime] = Xor(@, Byte(Cu))])
      BY <2>1, <2>3 DEF ColorUp, WithAdded
    <3> QED BY <2>3, <3>1, CycChanges DEF Colored, c
  <2> QED BY <2>2, <2>3
<1>2. \A t, b : WithPhase(Permuted(Cyc(t, b, ph, m, k)), "Up")
                  = Cyc(Append(t, Absorbed(t, b)), Nothing, "Up", m, k)
  BY PermutedIs, CycChanges
<1> HIDE DEF c
<1>3. Up(c, Cu) = WithPhase(Permuted(ColorUp(c, Cu)), "Up")
  BY DEF Up, WithPhase
<1> QED BY <1>1, <1>2, <1>3 DEF c

\* A permutation leaves a longer state.
LEMMA StateGrows ==
  ASSUME NEW s, IsSeq(s), NEW x
  PROVE  IsSeq(Append(s, x)) /\ Len(s) \in Nat /\ Len(Append(s, x)) = Len(s) + 1
BY SeqLength, Extended

LEMMA UpOf ==
  ASSUME NEW c, IsCyc(c), NEW Cu
  PROVE  /\ IsCyc(Up(c, Cu)) /\ Up(c, Cu).mode = c.mode /\ Up(c, Cu).phase = "Up"
         /\ Up(c, Cu).kernels = c.kernels /\ Up(c, Cu).added = Nothing
         /\ Len(Up(c, Cu).s) = Len(c.s) + 1 /\ Len(c.s) \in Nat
         /\ Up(Plain(c), Cu) = Plain(Up(c, Cu))
<1> DEFINE s == c.s
           a == c.added
           ph == c.phase
           m == c.mode
           k == c.kernels
           t == Append(s, Absorbed(s, Colored(a, m, Cu)))
           u == Cyc(t, Nothing, "Up", m, k)
<1>1. c = Cyc(s, a, ph, m, k) /\ IsSeq(s) /\ Units(a) /\ k \in BOOLEAN
  BY DEF IsCyc
<1> HIDE DEF s, a, ph, m, k
<1>2. Up(c, Cu) = u /\ Up(Plain(c), Cu) = Plain(u)
  <2>1. Plain(c) = Cyc(s, a, ph, m, FALSE)
    BY <1>1, CycFields
  <2>2. Up(Plain(c), Cu) = Cyc(t, Nothing, "Up", m, FALSE)
    <3>1. \A l : Up(Cyc(s, a, ph, m, l), Cu) = Cyc(t, Nothing, "Up", m, l)
      BY UpIs
    <3> HIDE DEF t
    <3> QED BY <2>1, <3>1, Zenon
  <2>3. Up(c, Cu) = u
    BY <1>1, UpIs
  <2>4. Plain(u) = Cyc(t, Nothing, "Up", m, FALSE)
    BY CycFields
  <2> QED BY <2>2, <2>3, <2>4
<1>3. IsSeq(t) /\ Len(t) = Len(s) + 1 /\ Len(s) \in Nat
  BY <1>1, StateGrows
<1> HIDE DEF t
<1>4. IsCyc(u)
  BY <1>1, <1>3, UnitsAdded, CycIs
<1> QED BY <1>2, <1>3, <1>4, CycFields DEF s, m, k

LEMMA DownOf ==
  ASSUME NEW c, IsCyc(c), NEW X, NEW Cd
  PROVE  /\ IsCyc(Down(c, X, Cd)) /\ Down(c, X, Cd).mode = c.mode
         /\ Down(c, X, Cd).phase = "Down" /\ Down(c, X, Cd).kernels = c.kernels
         /\ Down(c, X, Cd).s = c.s
         /\ Down(Plain(c), X, Cd) = Plain(Down(c, X, Cd))
<1> DEFINE s == c.s
           a == c.added
           ph == c.phase
           m == c.mode
           k == c.kernels
           b == XorAll(a, Padded(X, IF m = "Hash" THEN Cd % 2 ELSE Cd))
           u == Cyc(s, b, "Down", m, k)
<1>1. c = Cyc(s, a, ph, m, k) /\ IsSeq(s) /\ Units(a) /\ k \in BOOLEAN
  BY DEF IsCyc
<1> HIDE DEF s, a, ph, m, k
<1>2. Down(c, X, Cd) = u /\ Down(Plain(c), X, Cd) = Plain(u)
  <2>1. Plain(c) = Cyc(s, a, ph, m, FALSE)
    BY <1>1, CycFields
  <2>2. Down(Plain(c), X, Cd) = Cyc(s, b, "Down", m, FALSE)
    <3>1. \A l : Down(Cyc(s, a, ph, m, l), X, Cd) = Cyc(s, b, "Down", m, l)
      BY DownIs
    <3> HIDE DEF b
    <3> QED BY <2>1, <3>1, Zenon
  <2>3. Down(c, X, Cd) = u
    BY <1>1, DownIs
  <2>4. Plain(u) = Cyc(s, b, "Down", m, FALSE)
    BY CycFields
  <2> QED BY <2>2, <2>3, <2>4
<1>3. Units(b)
  BY <1>1, UnitsAdded
<1> HIDE DEF b
<1>4. IsCyc(u)
  BY <1>1, <1>3, CycIs
<1> QED BY <1>2, <1>4, CycFields DEF s, m, k

\* After a block in, the kernel does what the permutation and the next block do.
LEMMA KernelInIs ==
  ASSUME NEW c, IsCyc(c), c.phase = "Down", NEW B
  PROVE  KernelIn(c, B) = Down(Up(c, 0), B, 0)
<1> DEFINE s == c.s
           a == c.added
           m == c.mode
           k == c.kernels
           t == Append(s, Absorbed(s, a))
<1>1. c = Cyc(s, a, "Down", m, k) /\ IsSeq(s) /\ Units(a)
  BY DEF IsCyc
<1> HIDE DEF s, a, m, k
<1>2. Up(c, 0) = Cyc(t, Nothing, "Up", m, k)
  BY <1>1, UpIs, NoColor
<1>3. Permuted(c) = Cyc(t, Nothing, "Down", m, k)
  BY <1>1, PermutedIs
<1> HIDE DEF t
<1>4. KernelIn(c, B) = Cyc(t, Padded(B, 0), "Down", m, k)
  <2>1. KernelIn(c, B) = WithAdded(Permuted(c), Padded(B, 0))
    BY DEF KernelIn, WithAdded
  <2> QED BY <1>3, <2>1, CycChanges
<1>5. (IF m = "Hash" THEN 0 % 2 ELSE 0) = 0
  OBVIOUS
<1>6. Down(Up(c, 0), B, 0) = Cyc(t, Padded(B, 0), "Down", m, k)
  BY <1>2, <1>5, DownIs, UnitsAdded
<1> QED BY <1>4, <1>6

\* After a block out, likewise.
LEMMA KernelOutIs ==
  ASSUME NEW c, IsCyc(c), c.phase = "Up"
  PROVE  KernelOut(c) = Up(Down(c, <<>>, 0), 0)
<1> DEFINE s == c.s
           a == c.added
           m == c.mode
           k == c.kernels
           b == XorAll(a, Padded(<<>>, 0))
<1>1. c = Cyc(s, a, "Up", m, k) /\ IsSeq(s) /\ Units(a)
  BY DEF IsCyc
<1> HIDE DEF s, a, m, k
<1>2. (IF m = "Hash" THEN 0 % 2 ELSE 0) = 0
  OBVIOUS
<1>3. Down(c, <<>>, 0) = Cyc(s, b, "Down", m, k) /\ Units(b)
  BY <1>1, <1>2, DownIs, UnitsAdded
<1>4. WithAdded(c, XorAll(c.added, Padded(<<>>, 0))) = Cyc(s, b, "Up", m, k)
  <2>1. c.added = a
    BY <1>1, CycFields
  <2> QED BY <1>1, <2>1, CycChanges
<1> HIDE DEF b
<1>5. Up(Down(c, <<>>, 0), 0) = Cyc(Append(s, Absorbed(s, b)), Nothing, "Up", m, k)
  BY <1>3, UpIs, NoColor
<1>6. KernelOut(c) = Cyc(Append(s, Absorbed(s, b)), Nothing, "Up", m, k)
  <2>1. KernelOut(c) = Permuted(WithAdded(c, XorAll(c.added, Padded(<<>>, 0))))
    BY DEF KernelOut, WithAdded
  <2> QED BY <1>4, <2>1, PermutedIs
<1> QED BY <1>5, <1>6

\* The kernel that enciphers adds output and ciphertext, which is the plaintext.
LEMMA EncryptKernelIs ==
  ASSUME NEW c, IsCyc(c), c.phase = "Down", NEW B, IsSeq(B)
  PROVE  LET O == XorAll(B, Output(Up(c, 0), Len(B)))
         IN  EncryptKernel(c, B, O) = KernelIn(c, B)
<1> DEFINE s == c.s
           a == c.added
           m == c.mode
           k == c.kernels
           t == Append(s, Absorbed(s, a))
           z == OutputFrom(t, 1, Len(B))
           O == XorAll(B, z)
<1>1. c = Cyc(s, a, "Down", m, k) /\ IsSeq(s) /\ Units(a)
  BY DEF IsCyc
<1> HIDE DEF s, a, m, k
<1>2. Up(c, 0).s = t
  <2>1. Up(c, 0) = Cyc(t, Nothing, "Up", m, k)
    BY <1>1, UpIs, NoColor
  <2> HIDE DEF t
  <2> QED BY <2>1, CycFields
<1>3. Permuted(c) = Cyc(t, Nothing, "Down", m, k)
  BY <1>1, PermutedIs
<1>4. Permuted(c).s = t
  <2> HIDE DEF t
  <2> QED BY <1>3, CycFields
<1> HIDE DEF t
<1>5. DOMAIN B = 1 .. Len(B) /\ Len(B) \in Nat
  BY SeqLength
<1>6. XorAll(B, Output(Up(c, 0), Len(B))) = O
  BY <1>2 DEF Output
<1>7. Len(O) = Len(B) /\ DOMAIN O = 1 .. Len(B)
  <2>1. O = [i \in 1 .. Len(B) |-> Xor(B[i], z[i])]
    BY <1>5 DEF XorAll
  <2> QED BY <1>5, <2>1
<1>8. XorAll(O, z) = B
  <2>1. \A i \in 1 .. Len(B) : Xor(O[i], z[i]) = B[i]
    <3> TAKE i \in 1 .. Len(B)
    <3>1. O[i] = Xor(B[i], z[i])
      BY <1>5 DEF XorAll
    <3>2. \A x, y : Xor(Xor(x, y), y) = x
      BY DEF Xor
    <3> HIDE DEF O, z
    <3> QED BY <3>1, <3>2
  <2>2. B = [i \in 1 .. Len(B) |-> B[i]]
    BY <1>5 DEF IsSeq
  <2> HIDE DEF O, z
  <2> QED BY <1>7, <2>1, <2>2 DEF XorAll
<1> HIDE DEF O
<1>9. XorAll(O, Output(Permuted(c), Len(O))) = B
  BY <1>4, <1>7, <1>8 DEF Output
<1>10. EncryptKernel(c, B, O) = Cyc(t, Padded(B, 0), "Down", m, k)
  <2>1. EncryptKernel(c, B, O)
          = WithAdded(WithAdded(Permuted(c), Padded(<<>>, 0)),
                      Padded(XorAll(O, Output(Permuted(c), Len(O))), 0))
    BY DEF EncryptKernel, KernelIn, WithAdded
  <2> QED BY <1>3, <1>9, <2>1, CycChanges
<1>11. KernelIn(c, B) = Cyc(t, Padded(B, 0), "Down", m, k)
  <2>1. KernelIn(c, B) = WithAdded(Permuted(c), Padded(B, 0))
    BY DEF KernelIn, WithAdded
  <2> QED BY <1>3, <2>1, CycChanges
<1> QED BY <1>6, <1>10, <1>11

-----------------------------------------------------------------------------
(* The loops over blocks.                                                  *)

\* The instances between the blocks of AbsorbAny.
AbsorbRun(a, c, X, r, Cd, n) ==
  a = [k \in 0 .. n |-> IF k = 0 THEN c ELSE AbsorbBlock(a[k - 1], X, r, Cd, k)]

LEMMA AbsorbRuns ==
  ASSUME NEW c, NEW X, NEW r, NEW Cd
  PROVE  \A n \in Nat : \E a : AbsorbRun(a, c, X, r, Cd, n)
<1> DEFINE T == {n \in Nat : \E a : AbsorbRun(a, c, X, r, Cd, n)}
<1>1. 0 \in T
  <2> DEFINE b == c
             a == [k \in 0 .. 0 |-> b]
  <2>1. \A k \in 0 .. 0 : k = 0
    OBVIOUS
  <2>2. [k \in 0 .. 0 |-> IF k = 0 THEN b ELSE AbsorbBlock(a[k - 1], X, r, Cd, k)] = a
    BY <2>1, Zenon
  <2>3. AbsorbRun(a, c, X, r, Cd, 0)
    BY <2>2 DEF AbsorbRun
  <2> QED BY <2>3
<1>2. \A n \in Nat : n \in T => n + 1 \in T
  <2> SUFFICES ASSUME NEW n \in Nat, NEW a, AbsorbRun(a, c, X, r, Cd, n)
               PROVE  \E b : AbsorbRun(b, c, X, r, Cd, n + 1)
    OBVIOUS
  <2> DEFINE F(x, k) == AbsorbBlock(x, X, r, Cd, k)
             b == [k \in 0 .. n + 1 |-> IF k <= n THEN a[k] ELSE F(a[n], k)]
             z == c
  <2>1. \A k \in 0 .. n : a[k] = IF k = 0 THEN z ELSE F(a[k - 1], k)
    BY DEF AbsorbRun
  <2> HIDE DEF F, z
  <2>2. \A k \in 0 .. n + 1 : b[k] = IF k = 0 THEN z ELSE F(b[k - 1], k)
    <3> TAKE k \in 0 .. n + 1
    <3>1. b[k] = IF k <= n THEN a[k] ELSE F(a[n], k)
      OBVIOUS
    <3>2. k # 0 => k - 1 \in 0 .. n /\ b[k - 1] = a[k - 1]
      OBVIOUS
    <3> HIDE DEF b
    <3>3. CASE k <= n
      BY <2>1, <3>1, <3>2, <3>3
    <3>4. CASE ~(k <= n)
      <4>1. k = n + 1 /\ k - 1 = n /\ k # 0
        BY <3>4
      <4> QED BY <3>1, <3>2, <3>4, <4>1
    <3> QED BY <3>3, <3>4
  <2>3. b = [k \in 0 .. n + 1 |-> b[k]]
    OBVIOUS
  <2> HIDE DEF b
  <2>4. b = [k \in 0 .. n + 1 |-> IF k = 0 THEN z ELSE F(b[k - 1], k)]
    BY <2>2, <2>3
  <2>5. AbsorbRun(b, c, X, r, Cd, n + 1)
    BY <2>4 DEF AbsorbRun, F, z
  <2> QED BY <2>5
<1> HIDE DEF T
<1>3. \A n \in Nat : n \in T
  BY <1>1, <1>2, Induction
<1> QED BY <1>3 DEF T

LEMMA AbsorbAnyRuns ==
  ASSUME NEW c, NEW X, NEW r, NEW Cd, Blocks(Len(X), r) \in Nat
  PROVE  \E a : /\ AbsorbRun(a, c, X, r, Cd, Blocks(Len(X), r))
                /\ AbsorbAny(c, X, r, Cd) = a[Blocks(Len(X), r)]
<1> DEFINE a == CHOOSE a : AbsorbRun(a, c, X, r, Cd, Blocks(Len(X), r))
<1>1. AbsorbRun(a, c, X, r, Cd, Blocks(Len(X), r))
  <2>1. \E b : AbsorbRun(b, c, X, r, Cd, Blocks(Len(X), r))
    BY AbsorbRuns
  <2> QED BY <2>1, Zenon
<1>2. AbsorbAny(c, X, r, Cd) = a[Blocks(Len(X), r)]
  BY DEF AbsorbAny, AbsorbRun
<1> HIDE DEF a
<1> QED BY <1>1, <1>2

SqueezeStep(d, r, n, Cu, k) ==
  LET e == SqueezeBlock(d.c, n, Cu, k) IN [c |-> e, O |-> d.O \o Output(e, SizeOf(n, r, k))]

\* The instances between the blocks of SqueezeAny.
SqueezeRun(a, c, u, Cu, n) ==
  a = [k \in 0 .. n |-> IF k = 0 THEN [c |-> c, O |-> <<>>]
                                 ELSE SqueezeStep(a[k - 1], c.Rsqueeze, u, Cu, k)]

LEMMA SqueezeRuns ==
  ASSUME NEW c, NEW u, NEW Cu
  PROVE  \A n \in Nat : \E a : SqueezeRun(a, c, u, Cu, n)
<1> DEFINE T == {n \in Nat : \E a : SqueezeRun(a, c, u, Cu, n)}
<1>1. 0 \in T
  <2> DEFINE b == [c |-> c, O |-> <<>>]
             a == [k \in 0 .. 0 |-> b]
  <2>1. \A k \in 0 .. 0 : k = 0
    OBVIOUS
  <2>2. [k \in 0 .. 0 |-> IF k = 0 THEN b ELSE SqueezeStep(a[k - 1], c.Rsqueeze, u, Cu, k)] = a
    BY <2>1, Zenon
  <2>3. SqueezeRun(a, c, u, Cu, 0)
    BY <2>2 DEF SqueezeRun
  <2> QED BY <2>3
<1>2. \A n \in Nat : n \in T => n + 1 \in T
  <2> SUFFICES ASSUME NEW n \in Nat, NEW a, SqueezeRun(a, c, u, Cu, n)
               PROVE  \E b : SqueezeRun(b, c, u, Cu, n + 1)
    OBVIOUS
  <2> DEFINE F(x, k) == SqueezeStep(x, c.Rsqueeze, u, Cu, k)
             b == [k \in 0 .. n + 1 |-> IF k <= n THEN a[k] ELSE F(a[n], k)]
             z == [c |-> c, O |-> <<>>]
  <2>1. \A k \in 0 .. n : a[k] = IF k = 0 THEN z ELSE F(a[k - 1], k)
    BY DEF SqueezeRun
  <2> HIDE DEF F, z
  <2>2. \A k \in 0 .. n + 1 : b[k] = IF k = 0 THEN z ELSE F(b[k - 1], k)
    <3> TAKE k \in 0 .. n + 1
    <3>1. b[k] = IF k <= n THEN a[k] ELSE F(a[n], k)
      OBVIOUS
    <3>2. k # 0 => k - 1 \in 0 .. n /\ b[k - 1] = a[k - 1]
      OBVIOUS
    <3> HIDE DEF b
    <3>3. CASE k <= n
      BY <2>1, <3>1, <3>2, <3>3
    <3>4. CASE ~(k <= n)
      <4>1. k = n + 1 /\ k - 1 = n /\ k # 0
        BY <3>4
      <4> QED BY <3>1, <3>2, <3>4, <4>1
    <3> QED BY <3>3, <3>4
  <2>3. b = [k \in 0 .. n + 1 |-> b[k]]
    OBVIOUS
  <2> HIDE DEF b
  <2>4. b = [k \in 0 .. n + 1 |-> IF k = 0 THEN z ELSE F(b[k - 1], k)]
    BY <2>2, <2>3
  <2>5. SqueezeRun(b, c, u, Cu, n + 1)
    BY <2>4 DEF SqueezeRun, F, z
  <2> QED BY <2>5
<1> HIDE DEF T
<1>3. \A n \in Nat : n \in T
  BY <1>1, <1>2, Induction
<1> QED BY <1>3 DEF T

LEMMA SqueezeAnyRuns ==
  ASSUME NEW c, NEW u, NEW Cu, Blocks(u, c.Rsqueeze) \in Nat
  PROVE  \E a : /\ SqueezeRun(a, c, u, Cu, Blocks(u, c.Rsqueeze))
                /\ SqueezeAny(c, u, Cu) = a[Blocks(u, c.Rsqueeze)]
<1> DEFINE a == CHOOSE a : SqueezeRun(a, c, u, Cu, Blocks(u, c.Rsqueeze))
<1>1. SqueezeRun(a, c, u, Cu, Blocks(u, c.Rsqueeze))
  <2>1. \E b : SqueezeRun(b, c, u, Cu, Blocks(u, c.Rsqueeze))
    BY SqueezeRuns
  <2> QED BY <2>1, Zenon
<1>2. SqueezeAny(c, u, Cu) = a[Blocks(u, c.Rsqueeze)]
  BY DEF SqueezeAny, SqueezeRun, SqueezeStep
<1> HIDE DEF a
<1> QED BY <1>1, <1>2

CryptStep(d, I, decrypt, k) ==
  [c |-> CryptBlock(d.c, I, decrypt, k), O |-> d.O \o CryptOut(d.c, I, k)]

\* The instances between the blocks of Crypt.
CryptRun(a, c, I, decrypt, n) ==
  a = [k \in 0 .. n |-> IF k = 0 THEN [c |-> c, O |-> <<>>] ELSE CryptStep(a[k - 1], I, decrypt, k)]

LEMMA CryptRuns ==
  ASSUME NEW c, NEW I, NEW decrypt
  PROVE  \A n \in Nat : \E a : CryptRun(a, c, I, decrypt, n)
<1> DEFINE T == {n \in Nat : \E a : CryptRun(a, c, I, decrypt, n)}
<1>1. 0 \in T
  <2> DEFINE b == [c |-> c, O |-> <<>>]
             a == [k \in 0 .. 0 |-> b]
  <2>1. \A k \in 0 .. 0 : k = 0
    OBVIOUS
  <2>2. [k \in 0 .. 0 |-> IF k = 0 THEN b ELSE CryptStep(a[k - 1], I, decrypt, k)] = a
    BY <2>1, Zenon
  <2>3. CryptRun(a, c, I, decrypt, 0)
    BY <2>2 DEF CryptRun
  <2> QED BY <2>3
<1>2. \A n \in Nat : n \in T => n + 1 \in T
  <2> SUFFICES ASSUME NEW n \in Nat, NEW a, CryptRun(a, c, I, decrypt, n)
               PROVE  \E b : CryptRun(b, c, I, decrypt, n + 1)
    OBVIOUS
  <2> DEFINE F(x, k) == CryptStep(x, I, decrypt, k)
             b == [k \in 0 .. n + 1 |-> IF k <= n THEN a[k] ELSE F(a[n], k)]
             z == [c |-> c, O |-> <<>>]
  <2>1. \A k \in 0 .. n : a[k] = IF k = 0 THEN z ELSE F(a[k - 1], k)
    BY DEF CryptRun
  <2> HIDE DEF F, z
  <2>2. \A k \in 0 .. n + 1 : b[k] = IF k = 0 THEN z ELSE F(b[k - 1], k)
    <3> TAKE k \in 0 .. n + 1
    <3>1. b[k] = IF k <= n THEN a[k] ELSE F(a[n], k)
      OBVIOUS
    <3>2. k # 0 => k - 1 \in 0 .. n /\ b[k - 1] = a[k - 1]
      OBVIOUS
    <3> HIDE DEF b
    <3>3. CASE k <= n
      BY <2>1, <3>1, <3>2, <3>3
    <3>4. CASE ~(k <= n)
      <4>1. k = n + 1 /\ k - 1 = n /\ k # 0
        BY <3>4
      <4> QED BY <3>1, <3>2, <3>4, <4>1
    <3> QED BY <3>3, <3>4
  <2>3. b = [k \in 0 .. n + 1 |-> b[k]]
    OBVIOUS
  <2> HIDE DEF b
  <2>4. b = [k \in 0 .. n + 1 |-> IF k = 0 THEN z ELSE F(b[k - 1], k)]
    BY <2>2, <2>3
  <2>5. CryptRun(b, c, I, decrypt, n + 1)
    BY <2>4 DEF CryptRun, F, z
  <2> QED BY <2>5
<1> HIDE DEF T
<1>3. \A n \in Nat : n \in T
  BY <1>1, <1>2, Induction
<1> QED BY <1>3 DEF T

LEMMA CryptIsRun ==
  ASSUME NEW c, NEW I, NEW decrypt, Blocks(Len(I), Rkout) \in Nat
  PROVE  \E a : /\ CryptRun(a, c, I, decrypt, Blocks(Len(I), Rkout))
                /\ Crypt(c, I, decrypt) = a[Blocks(Len(I), Rkout)]
<1> DEFINE a == CHOOSE a : CryptRun(a, c, I, decrypt, Blocks(Len(I), Rkout))
<1>1. CryptRun(a, c, I, decrypt, Blocks(Len(I), Rkout))
  <2>1. \E b : CryptRun(b, c, I, decrypt, Blocks(Len(I), Rkout))
    BY CryptRuns
  <2> QED BY <2>1, Zenon
<1>2. Crypt(c, I, decrypt) = a[Blocks(Len(I), Rkout)]
  BY DEF Crypt, CryptRun, CryptStep
<1> HIDE DEF a
<1> QED BY <1>1, <1>2

-----------------------------------------------------------------------------
(* What the calls do, whatever runs the blocks.                            *)

\* Instance e comes from c: what a call never changes, and the state grows.
Follows(c, e) ==
  /\ IsCyc(e) /\ e.mode = c.mode /\ e.kernels = c.kernels
  /\ Len(c.s) \in Nat /\ Len(e.s) \in Nat /\ Len(c.s) <= Len(e.s)

LEMMA FollowsTwice ==
  ASSUME NEW c, NEW d, NEW e, Follows(c, d), Follows(d, e)
  PROVE  Follows(c, e)
BY DEF Follows

LEMMA FollowsItself ==
  ASSUME NEW c, IsCyc(c)
  PROVE  Follows(c, c)
BY SeqLength DEF Follows, IsCyc

LEMMA PlainIs ==
  ASSUME NEW c, IsCyc(c)
  PROVE  /\ IsCyc(Plain(c)) /\ Plain(c).s = c.s /\ Plain(c).added = c.added
         /\ Plain(c).phase = c.phase /\ Plain(c).mode = c.mode
         /\ Plain(c).Rabsorb = c.Rabsorb /\ Plain(c).Rsqueeze = c.Rsqueeze
         /\ ~Plain(c).kernels /\ Plain(Plain(c)) = Plain(c)
<1> DEFINE s == c.s
           a == c.added
           ph == c.phase
           m == c.mode
           k == c.kernels
<1>1. c = Cyc(s, a, ph, m, k) /\ IsSeq(s) /\ Units(a)
  BY DEF IsCyc
<1> HIDE DEF s, a, ph, m, k
<1>2. Plain(c) = Cyc(s, a, ph, m, FALSE)
  BY <1>1, CycFields
<1> DEFINE x == Plain(c)
<1>0. PICK l : l = FALSE /\ x = Cyc(s, a, ph, m, l)
  BY <1>2, Zenon
<1> HIDE DEF x
<1>3. x.s = s /\ x.added = a /\ x.phase = ph /\ x.mode = m
  BY <1>0, CycFields
<1>4. x.Rabsorb = c.Rabsorb /\ x.Rsqueeze = c.Rsqueeze
  BY <1>0, <1>1, CycFields
<1>5. ~x.kernels
  BY <1>0, CycFields
<1>6. IsCyc(x)
  BY <1>0, <1>1, CycIs
<1>7. Plain(x) = x
  <2>1. \A b : Plain(Cyc(s, a, ph, m, b)) = Cyc(s, a, ph, m, FALSE)
    BY CycFields
  <2> QED BY <1>2, <2>1, Zenon DEF x
<1> QED BY <1>1, <1>3, <1>4, <1>5, <1>6, <1>7, CycFields DEF x

\* A block of X as the loop absorbs it without the kernels.
InPlainly(d, X, r, Cd, k) ==
  Down(IF d.phase # "Up" THEN Up(d, 0) ELSE d, Block(X, r, k), ColorOf(Cd, k))

LEMMA BlockAbsorbed ==
  ASSUME NEW d, IsCyc(d), NEW X, NEW r, NEW Cd, NEW k \in Nat \ {0}, k > 1 => d.phase = "Down"
  PROVE  /\ AbsorbBlock(d, X, r, Cd, k) = InPlainly(d, X, r, Cd, k)
         /\ Follows(d, InPlainly(d, X, r, Cd, k))
         /\ InPlainly(d, X, r, Cd, k).phase = "Down"
         /\ InPlainly(Plain(d), X, r, Cd, k) = Plain(InPlainly(d, X, r, Cd, k))
<1> DEFINE B == Block(X, r, k)
           u == IF d.phase # "Up" THEN Up(d, 0) ELSE d
           e == Down(u, B, ColorOf(Cd, k))
<1>1. Follows(d, u)
  <2>1. Follows(d, d)
    BY FollowsItself
  <2>2. Follows(d, Up(d, 0))
    BY UpOf DEF Follows
  <2> QED BY <2>1, <2>2
<1>2. InPlainly(d, X, r, Cd, k) = e
  BY DEF InPlainly
<1>3. AbsorbBlock(d, X, r, Cd, k) = e
  <2>1. CASE d.kernels /\ k > 1 /\ r \in {Rkin, Rhash} /\ Len(B) = r
    <3>1. AbsorbBlock(d, X, r, Cd, k) = KernelIn(d, B)
      BY <2>1 DEF AbsorbBlock
    <3>2. u = Up(d, 0) /\ ColorOf(Cd, k) = 0
      BY <2>1 DEF ColorOf
    <3> HIDE DEF B, u
    <3> QED BY <2>1, <3>1, <3>2, KernelInIs
  <2>2. CASE ~(d.kernels /\ k > 1 /\ r \in {Rkin, Rhash} /\ Len(B) = r)
    BY <2>2 DEF AbsorbBlock
  <2> QED BY <2>1, <2>2
<1>4. InPlainly(Plain(d), X, r, Cd, k) = Down(Plain(u), B, ColorOf(Cd, k))
  <2>1. Plain(d).phase = d.phase
    BY PlainIs
  <2>2. Up(Plain(d), 0) = Plain(Up(d, 0))
    BY UpOf
  <2> QED BY <2>1, <2>2 DEF InPlainly
<1> HIDE DEF u
<1>5. Follows(u, e) /\ e.phase = "Down" /\ Down(Plain(u), B, ColorOf(Cd, k)) = Plain(e)
  BY <1>1, DownOf DEF Follows
<1> HIDE DEF e
<1> QED BY <1>1, <1>2, <1>3, <1>4, <1>5, FollowsTwice

\* The same on an implementation without the kernels.
LEMMA Absorbing ==
  ASSUME NEW c, IsCyc(c), NEW X, IsSeq(X), NEW r \in Nat \ {0}, NEW Cd
  PROVE  /\ Follows(c, AbsorbAny(c, X, r, Cd)) /\ AbsorbAny(c, X, r, Cd).phase = "Down"
         /\ AbsorbAny(Plain(c), X, r, Cd) = Plain(AbsorbAny(c, X, r, Cd))
<1> DEFINE n == Blocks(Len(X), r)
<1>1. n \in Nat \ {0}
  BY SeqLength, LastBlock
<1>2. PICK a : AbsorbRun(a, c, X, r, Cd, n) /\ AbsorbAny(c, X, r, Cd) = a[n]
  BY <1>1, AbsorbAnyRuns
<1>3. PICK b : AbsorbRun(b, Plain(c), X, r, Cd, n) /\ AbsorbAny(Plain(c), X, r, Cd) = b[n]
  BY <1>1, AbsorbAnyRuns
<1> HIDE DEF n
<1>4. /\ a[0] = c /\ b[0] = Plain(c)
      /\ \A k \in 1 .. n : /\ a[k] = AbsorbBlock(a[k - 1], X, r, Cd, k)
                           /\ b[k] = AbsorbBlock(b[k - 1], X, r, Cd, k)
  BY <1>1, <1>2, <1>3 DEF AbsorbRun
<1> DEFINE P(k) == Follows(c, a[k]) /\ b[k] = Plain(a[k]) /\ (k # 0 => a[k].phase = "Down")
           T == {k \in Nat : k <= n => P(k)}
<1>5. 0 \in T
  BY <1>4, FollowsItself
<1>6. \A k \in Nat : k \in T => k + 1 \in T
  <2> HIDE DEF P
  <2> SUFFICES ASSUME NEW k \in Nat, k \in T, k + 1 <= n PROVE P(k + 1)
    OBVIOUS
  <2> DEFINE l == k + 1
             d == a[k]
             e == InPlainly(d, X, r, Cd, l)
  <2>1. P(k)
    BY <1>1
  <2>2. Follows(c, d) /\ b[k] = Plain(d) /\ (k # 0 => d.phase = "Down")
    BY <2>1 DEF P
  <2>3. l \in 1 .. n /\ l - 1 = k /\ l \in Nat \ {0} /\ (l > 1 => k # 0)
    BY <1>1
  <2> HIDE DEF d, l
  <2>4. /\ AbsorbBlock(d, X, r, Cd, l) = e /\ Follows(d, e) /\ e.phase = "Down"
        /\ InPlainly(Plain(d), X, r, Cd, l) = Plain(e)
    <3>1. IsCyc(d)
      BY <2>2 DEF Follows
    <3> QED BY <2>2, <2>3, <3>1, BlockAbsorbed
  <2>5. AbsorbBlock(Plain(d), X, r, Cd, l) = InPlainly(Plain(d), X, r, Cd, l)
    <3>1. IsCyc(Plain(d)) /\ Plain(d).phase = d.phase
      BY <2>2, PlainIs DEF Follows
    <3> QED BY <2>2, <2>3, <3>1, BlockAbsorbed
  <2>6. a[l] = e /\ b[l] = Plain(e)
    BY <1>4, <2>2, <2>3, <2>4, <2>5 DEF d
  <2> HIDE DEF e
  <2>7. Follows(c, a[l]) /\ b[l] = Plain(a[l]) /\ a[l].phase = "Down"
    BY <2>2, <2>4, <2>6, FollowsTwice
  <2> QED BY <2>7 DEF P, l
<1>7. \A k \in Nat : k \in T
  <2> HIDE DEF T
  <2> QED BY <1>5, <1>6, Induction
<1>8. P(n)
  <2> HIDE DEF P
  <2> QED BY <1>1, <1>7
<1> QED BY <1>1, <1>2, <1>3, <1>8

\* Units of output that no state of at most l permutations has given, of states
\* of at most m, and all different.
Fresh(U, l, m) ==
  /\ \A p \in 1 .. Len(U) :
       \E s, j : U[p] = {<<s, j>>} /\ Len(s) \in Nat /\ l < Len(s) /\ Len(s) <= m
  /\ \A p, q \in 1 .. Len(U) : U[p] = U[q] => p = q

\* Block k of U is output of state st[k].
GivenBy(B, st, n, r) ==
  \A k \in 1 .. Blocks(n, r) : \A j \in 1 .. SizeOf(n, r, k) : B[k][j] = {<<st[k], j>>}

LEMMA FreshOutput ==
  ASSUME NEW n \in Nat, NEW r \in Nat \ {0}, NEW U, NEW B, MadeOf(U, B, n, r),
         NEW st, GivenBy(B, st, n, r), NEW l \in Nat,
         \A k \in 1 .. Blocks(n, r) : Len(st[k]) = l + k
  PROVE  Fresh(U, l, l + Blocks(n, r))
<1> DEFINE b == Blocks(n, r)
<1>1. ASSUME NEW p \in 1 .. n
      PROVE  \E k \in 1 .. b, j \in 1 .. r : p = (k - 1) * r + j /\ U[p] = {<<st[k], j>>}
  <2>1. PICK k \in 1 .. b, j \in 1 .. r : p = (k - 1) * r + j /\ j <= SizeOf(n, r, k)
    BY PlaceInBlock
  <2>2. j \in 1 .. SizeOf(n, r, k)
    <3>1. SizeOf(n, r, k) \in 0 .. r
      BY EarlierBlock
    <3> QED BY <2>1, <3>1
  <2>3. U[(k - 1) * r + j] = B[k][j]
    BY <2>2 DEF MadeOf
  <2>4. B[k][j] = {<<st[k], j>>}
    BY <2>2 DEF GivenBy
  <2> QED BY <2>1, <2>3, <2>4
<1>2. Len(U) = n /\ b \in Nat \ {0}
  BY LastBlock DEF MadeOf
<1> HIDE DEF b
<1>3. ASSUME NEW p \in 1 .. n
      PROVE  \E s, j : U[p] = {<<s, j>>} /\ Len(s) \in Nat /\ l < Len(s) /\ Len(s) <= l + b
  <2>1. PICK k \in 1 .. b, j \in 1 .. r : U[p] = {<<st[k], j>>}
    BY <1>1
  <2>2. Len(st[k]) = l + k
    BY DEF b
  <2>3. Len(st[k]) \in Nat /\ l < Len(st[k]) /\ Len(st[k]) <= l + b
    BY <1>2, <2>2
  <2> QED BY <2>1, <2>3
<1>4. ASSUME NEW p \in 1 .. n, NEW q \in 1 .. n, U[p] = U[q]
      PROVE  p = q
  <2>1. PICK k \in 1 .. b, j \in 1 .. r : p = (k - 1) * r + j /\ U[p] = {<<st[k], j>>}
    BY <1>1
  <2>2. PICK i \in 1 .. b, m \in 1 .. r : q = (i - 1) * r + m /\ U[q] = {<<st[i], m>>}
    BY <1>1
  <2>3. <<st[k], j>> = <<st[i], m>>
    BY <1>4, <2>1, <2>2
  <2>4. j = m /\ st[k] = st[i]
    BY <2>3
  <2>5. Len(st[k]) = l + k /\ Len(st[i]) = l + i
    BY DEF b
  <2>6. k = i
    BY <1>2, <2>4, <2>5
  <2> QED BY <2>1, <2>2, <2>4, <2>6
<1> QED BY <1>2, <1>3, <1>4 DEF Fresh, b

LEMMA OutputIs ==
  ASSUME NEW e, NEW n \in Nat
  PROVE  IsSeq(Output(e, n)) /\ Len(Output(e, n)) = n
         /\ \A j \in 1 .. n : Output(e, n)[j] = {<<e.s, j>>}
<1> DEFINE s == e.s
           y == [i \in 1 .. n |-> {<<s, 1 + i - 1>>}]
<1>1. Output(e, n) = y
  BY DEF Output, OutputFrom
<1> HIDE DEF s
<1>2. \A j \in 1 .. n : y[j] = {<<s, j>>}
  <2> TAKE j \in 1 .. n
  <2>1. 1 + j - 1 = j
    OBVIOUS
  <2> QED BY <2>1
<1> DEFINE unit(i) == {<<s, 1 + i - 1>>}
           S == {unit(i) : i \in 1 .. n}
<1>3. y \in Seq(S) /\ Len(y) = n
  <2> HIDE DEF unit
  <2>1. [i \in 1 .. n |-> unit(i)] \in [1 .. n -> S]
    OBVIOUS
  <2>2. [i \in 1 .. n |-> unit(i)] \in Seq(S) /\ Len([i \in 1 .. n |-> unit(i)]) = n
    BY <2>1
  <2> QED BY <2>2 DEF unit
<1> HIDE DEF y, S
<1>4. IsSeq(y)
  BY <1>3 DEF IsSeq
<1> QED BY <1>1, <1>2, <1>3, <1>4 DEF s

-----------------------------------------------------------------------------
(* Squeezing.                                                              *)

\* The instance that gives block k, without the kernels.
OutPlainly(d, Cu, k) == IF k = 1 THEN Up(d, Cu) ELSE Up(Down(d, <<>>, 0), 0)

LEMMA BlockSqueezed ==
  ASSUME NEW d, IsCyc(d), NEW Cu, NEW k \in Nat \ {0}, k > 1 => d.phase = "Up"
  PROVE  /\ \A n : SqueezeBlock(d, n, Cu, k) = OutPlainly(d, Cu, k)
         /\ Follows(d, OutPlainly(d, Cu, k)) /\ OutPlainly(d, Cu, k).phase = "Up"
         /\ OutPlainly(d, Cu, k).added = Nothing
         /\ Len(OutPlainly(d, Cu, k).s) = Len(d.s) + 1
         /\ OutPlainly(Plain(d), Cu, k) = Plain(OutPlainly(d, Cu, k))
<1> DEFINE D == Down(d, <<>>, 0)
<1>1. IsCyc(D) /\ D.mode = d.mode /\ D.kernels = d.kernels /\ D.s = d.s
      /\ Down(Plain(d), <<>>, 0) = Plain(D)
  BY DownOf
<1> HIDE DEF D
<1>2. CASE k = 1
  <2>1. (\A n : SqueezeBlock(d, n, Cu, k) = Up(d, Cu)) /\ OutPlainly(d, Cu, k) = Up(d, Cu)
        /\ OutPlainly(Plain(d), Cu, k) = Up(Plain(d), Cu)
    BY <1>2 DEF SqueezeBlock, OutPlainly, FirstUp
  <2> QED BY <2>1, UpOf DEF Follows
<1>3. CASE k # 1
  <2>1. OutPlainly(d, Cu, k) = Up(D, 0) /\ OutPlainly(Plain(d), Cu, k) = Up(Plain(D), 0)
    BY <1>1, <1>3 DEF OutPlainly, D
  <2>2. \A n : SqueezeBlock(d, n, Cu, k) = Up(D, 0)
    <3> TAKE n
    <3>1. KernelOut(d) = Up(D, 0)
      BY <1>3, KernelOutIs DEF D
    <3>2. SqueezeBlock(d, n, Cu, k) = KernelOut(d) \/ SqueezeBlock(d, n, Cu, k) = Up(D, 0)
      BY <1>3 DEF SqueezeBlock, D
    <3> QED BY <3>1, <3>2
  <2> QED BY <1>1, <2>1, <2>2, UpOf DEF Follows
<1> QED BY <1>2, <1>3

\* The instances from c on, m blocks long.
OutRun(f, c, Cu, m) ==
  f[0] = c /\ \A k \in 1 .. m : f[k] = OutPlainly(f[k - 1], Cu, k)

\* What they have in common with c.
OutState(f, c, k) ==
  /\ Follows(c, f[k]) /\ Len(f[k].s) = Len(c.s) + k
  /\ k # 0 => f[k].phase = "Up" /\ f[k].added = Nothing

LEMMA OutRunIs ==
  ASSUME NEW c, IsCyc(c), NEW Cu, NEW m \in Nat, NEW f, OutRun(f, c, Cu, m)
  PROVE  \A k \in 0 .. m : OutState(f, c, k)
<1> DEFINE T == {k \in Nat : k <= m => OutState(f, c, k)}
<1>1. 0 \in T
  BY FollowsItself DEF OutRun, OutState, Follows
<1>2. \A k \in Nat : k \in T => k + 1 \in T
  <2> SUFFICES ASSUME NEW k \in Nat, k \in T, k + 1 <= m PROVE OutState(f, c, k + 1)
    OBVIOUS
  <2> DEFINE l == k + 1
             d == f[k]
  <2>1. OutState(f, c, k)
    OBVIOUS
  <2>2. l \in 1 .. m /\ l - 1 = k /\ l \in Nat \ {0} /\ (l > 1 => k # 0) /\ l # 0
    OBVIOUS
  <2>3. f[l] = OutPlainly(d, Cu, l)
    BY <2>2 DEF OutRun
  <2>4. Follows(c, d) /\ IsCyc(d) /\ Len(d.s) = Len(c.s) + k /\ (k # 0 => d.phase = "Up")
        /\ Len(c.s) \in Nat
    BY <2>1 DEF OutState, Follows
  <2> HIDE DEF d, l
  <2>5. /\ Follows(d, f[l]) /\ f[l].phase = "Up" /\ f[l].added = Nothing
        /\ Len(f[l].s) = Len(d.s) + 1
    <3>1. l \in Nat \ {0} /\ (l > 1 => d.phase = "Up")
      BY <2>2, <2>4
    <3> DEFINE e == OutPlainly(d, Cu, l)
    <3>2. Follows(d, e) /\ e.phase = "Up" /\ e.added = Nothing /\ Len(e.s) = Len(d.s) + 1
      BY ONLY <2>4, <3>1, BlockSqueezed
    <3> HIDE DEF e
    <3> QED BY <2>3, <3>2 DEF e
  <2>6. Follows(c, f[l])
    BY ONLY <2>4, <2>5, FollowsTwice
  <2>7. Len(f[l].s) = Len(c.s) + l
    <3> DEFINE x == Len(c.s)
               y == Len(d.s)
               z == Len(f[l].s)
    <3>1. y = x + k /\ z = y + 1 /\ x \in Nat
      BY <2>4, <2>5
    <3>2. l = k + 1
      BY DEF l
    <3> HIDE DEF x, y, z
    <3>3. z = x + l
      BY <3>1, <3>2
    <3> QED BY <3>3 DEF x, z
  <2> QED BY <2>2, <2>5, <2>6, <2>7 DEF OutState, l
<1>3. \A k \in Nat : k \in T
  <2> HIDE DEF T
  <2> QED BY <1>1, <1>2, Induction
<1> QED BY <1>3

LEMMA OutRunPlain ==
  ASSUME NEW c, IsCyc(c), NEW Cu, NEW m \in Nat, NEW f, OutRun(f, c, Cu, m),
         NEW g, OutRun(g, Plain(c), Cu, m)
  PROVE  \A k \in 0 .. m : g[k] = Plain(f[k])
<1> DEFINE T == {k \in Nat : k <= m => g[k] = Plain(f[k])}
<1>1. 0 \in T
  BY DEF OutRun
<1>2. \A k \in Nat : k \in T => k + 1 \in T
  <2> SUFFICES ASSUME NEW k \in Nat, k \in T, k + 1 <= m PROVE g[k + 1] = Plain(f[k + 1])
    OBVIOUS
  <2> DEFINE l == k + 1
             d == f[k]
  <2>1. l \in 1 .. m /\ l - 1 = k /\ l \in Nat \ {0} /\ (l > 1 => k # 0)
    OBVIOUS
  <2>2. g[k] = Plain(d)
    OBVIOUS
  <2>3. IsCyc(d) /\ (k # 0 => d.phase = "Up")
    BY OutRunIs DEF OutState, Follows
  <2>4. f[l] = OutPlainly(d, Cu, l) /\ g[l] = OutPlainly(Plain(d), Cu, l)
    BY <2>1, <2>2 DEF OutRun
  <2> HIDE DEF d, l
  <2>5. g[l] = Plain(f[l])
    BY <2>1, <2>3, <2>4, BlockSqueezed
  <2> QED BY <2>5 DEF l
<1>3. \A k \in Nat : k \in T
  <2> HIDE DEF T
  <2> QED BY <1>1, <1>2, Induction
<1> QED BY <1>3

LEMMA OutRunSame ==
  ASSUME NEW c, NEW Cu, NEW m \in Nat, NEW f, OutRun(f, c, Cu, m), NEW g, OutRun(g, c, Cu, m)
  PROVE  \A k \in 0 .. m : g[k] = f[k]
<1> DEFINE T == {k \in Nat : k <= m => g[k] = f[k]}
<1>1. 0 \in T
  BY DEF OutRun
<1>2. \A k \in Nat : k \in T => k + 1 \in T
  <2> SUFFICES ASSUME NEW k \in Nat, k \in T, k + 1 <= m PROVE g[k + 1] = f[k + 1]
    OBVIOUS
  <2> DEFINE l == k + 1
  <2>1. l \in 1 .. m /\ l - 1 = k
    OBVIOUS
  <2> HIDE DEF l
  <2>2. g[l] = f[l]
    BY <2>1 DEF OutRun
  <2> QED BY <2>2 DEF l
<1>3. \A k \in Nat : k \in T
  <2> HIDE DEF T
  <2> QED BY <1>1, <1>2, Induction
<1> QED BY <1>3

\* Output q of n units is that of the instances f, from c on.
SqueezedBy(q, f, c, n, Cu) ==
  LET last == Blocks(n, c.Rsqueeze) IN
  /\ OutRun(f, c, Cu, last)
  /\ q = [c |-> f[last], O |-> q.O]
  /\ MadeOf(q.O, [k \in 1 .. last |-> Output(f[k], SizeOf(n, c.Rsqueeze, k))], n, c.Rsqueeze)

LEMMA RatesOf ==
  ASSUME NEW c, IsCyc(c)
  PROVE  /\ c.Rsqueeze \in Nat \ {0} /\ c.Rabsorb \in Nat \ {0}
         /\ c.mode = "Keyed" => c.Rsqueeze = Rkout /\ c.Rabsorb = Rkin
BY CycFields, Sizes DEF IsCyc

LEMMA SqueezeBy ==
  ASSUME NEW c, IsCyc(c), NEW n \in Nat, NEW Cu
  PROVE  \E f : SqueezedBy(SqueezeAny(c, n, Cu), f, c, n, Cu)
<1> DEFINE r == c.Rsqueeze
           last == Blocks(n, r)
<1>1. r \in Nat \ {0} /\ last \in Nat \ {0}
  BY RatesOf, LastBlock
<1>2. PICK a : SqueezeRun(a, c, n, Cu, last) /\ SqueezeAny(c, n, Cu) = a[last]
  BY <1>1, SqueezeAnyRuns
<1> HIDE DEF r, last
<1>3. /\ a[0] = [c |-> c, O |-> <<>>]
      /\ \A k \in 1 .. last : a[k] = SqueezeStep(a[k - 1], r, n, Cu, k)
  BY <1>1, <1>2 DEF SqueezeRun, r
<1> DEFINE f == [k \in 0 .. last |-> a[k].c]
           O == [k \in 0 .. last |-> a[k].O]
           B == [k \in 1 .. last |-> Output(f[k], SizeOf(n, r, k))]
<1>4. \A k \in 0 .. last : a[k] = [c |-> f[k], O |-> O[k]]
  <2>1. a[0] = [c |-> a[0].c, O |-> a[0].O]
    BY <1>3
  <2>2. ASSUME NEW k \in 1 .. last PROVE a[k] = [c |-> a[k].c, O |-> a[k].O]
    <3>1. a[k] = [c |-> SqueezeBlock(a[k - 1].c, n, Cu, k),
                  O |-> a[k - 1].O \o Output(SqueezeBlock(a[k - 1].c, n, Cu, k), SizeOf(n, r, k))]
      BY <1>3 DEF SqueezeStep
    <3> QED BY <3>1
  <2>3. ASSUME NEW k \in 0 .. last PROVE a[k] = [c |-> a[k].c, O |-> a[k].O]
    <3>1. k = 0 \/ k \in 1 .. last
      BY <1>1
    <3> QED BY <2>1, <2>2, <3>1
  <2> QED BY <2>3
<1>5. /\ f[0] = c /\ O[0] = <<>>
      /\ \A k \in 1 .. last :
           f[k] = SqueezeBlock(f[k - 1], n, Cu, k) /\ O[k] = O[k - 1] \o B[k]
  <2>1. f[0] = c /\ O[0] = <<>>
    BY <1>1, <1>3
  <2>2. ASSUME NEW k \in 1 .. last
        PROVE  f[k] = SqueezeBlock(f[k - 1], n, Cu, k) /\ O[k] = O[k - 1] \o B[k]
    <3>1. k \in 0 .. last /\ k - 1 \in 0 .. last
      BY <1>1
    <3>2. /\ f[k] = a[k].c /\ f[k - 1] = a[k - 1].c /\ O[k] = a[k].O /\ O[k - 1] = a[k - 1].O
          /\ B[k] = Output(f[k], SizeOf(n, r, k))
      BY <3>1
    <3> HIDE DEF f, O, B
    <3> DEFINE e == SqueezeBlock(f[k - 1], n, Cu, k)
               z == O[k - 1] \o Output(e, SizeOf(n, r, k))
    <3>3. a[k] = [c |-> e, O |-> z]
      BY <1>3, <3>2 DEF SqueezeStep
    <3> HIDE DEF e, z
    <3>4. f[k] = e /\ O[k] = z
      BY <3>2, <3>3
    <3> QED BY <3>2, <3>4 DEF e, z
  <2> QED BY <2>1, <2>2
<1> HIDE DEF f, O
<1>6. \A k \in 1 .. last : /\ IsCyc(f[k - 1]) /\ (k > 1 => f[k - 1].phase = "Up")
                           /\ f[k] = OutPlainly(f[k - 1], Cu, k)
  <2> DEFINE P(k) == IsCyc(f[k]) /\ (k # 0 => f[k].phase = "Up")
             T == {k \in Nat : k <= last => P(k)}
  <2>1. \A k \in Nat : k + 1 <= last /\ P(k)
          => P(k + 1) /\ f[k + 1] = OutPlainly(f[k], Cu, k + 1)
    <3> SUFFICES ASSUME NEW k \in Nat, k + 1 <= last, P(k)
                 PROVE  P(k + 1) /\ f[k + 1] = OutPlainly(f[k], Cu, k + 1)
      OBVIOUS
    <3> DEFINE l == k + 1
    <3>1. l \in 1 .. last /\ l - 1 = k /\ l \in Nat \ {0} /\ (l > 1 => k # 0)
      BY <1>1
    <3> HIDE DEF l
    <3>2. f[l] = SqueezeBlock(f[k], n, Cu, l)
      BY <1>5, <3>1
    <3> DEFINE d == f[k]
    <3>3. IsCyc(d) /\ (l > 1 => d.phase = "Up")
      BY <3>1
    <3> HIDE DEF d
    <3>4. f[l] = OutPlainly(d, Cu, l)
      BY <3>1, <3>2, <3>3, BlockSqueezed DEF d
    <3>5. IsCyc(f[l]) /\ f[l].phase = "Up"
      BY <3>1, <3>3, <3>4, BlockSqueezed DEF Follows
    <3> QED BY <3>4, <3>5 DEF l, d
  <2>2. 0 \in T
    BY <1>5
  <2>3. \A k \in Nat : k \in T => k + 1 \in T
    <3> HIDE DEF P
    <3> QED BY <1>1, <2>1
  <2> HIDE DEF T
  <2>4. \A k \in Nat : k \in T
    BY <2>2, <2>3, Induction
  <2> SUFFICES ASSUME NEW k \in 1 .. last
               PROVE  /\ IsCyc(f[k - 1]) /\ (k > 1 => f[k - 1].phase = "Up")
                      /\ f[k] = OutPlainly(f[k - 1], Cu, k)
    OBVIOUS
  <2> DEFINE i == k - 1
  <2>5. i \in Nat /\ i + 1 = k /\ i <= last /\ i + 1 <= last /\ (k > 1 => i # 0)
    BY <1>1
  <2> HIDE DEF i
  <2>6. P(i)
    BY <1>1, <2>4, <2>5 DEF T
  <2>7. f[i + 1] = OutPlainly(f[i], Cu, i + 1)
    BY <2>1, <2>5, <2>6
  <2> QED BY <2>5, <2>6, <2>7 DEF i
<1>7. OutRun(f, c, Cu, last)
  BY <1>5, <1>6 DEF OutRun
<1>8. Assembled(O, B, n, r)
  <2>1. ASSUME NEW k \in 1 .. last
        PROVE  O[k] = O[k - 1] \o B[k] /\ IsSeq(B[k]) /\ Len(B[k]) = SizeOf(n, r, k)
    <3>1. SizeOf(n, r, k) \in Nat
      BY <1>1, EarlierBlock DEF last
    <3>2. B[k] = Output(f[k], SizeOf(n, r, k))
      OBVIOUS
    <3>3. IsSeq(B[k]) /\ Len(B[k]) = SizeOf(n, r, k)
      BY <3>1, <3>2, OutputIs
    <3> QED BY <1>5, <3>3
  <2> HIDE DEF B
  <2> QED BY <1>5, <2>1 DEF Assembled, last
<1>9. MadeOf(O[last], B, n, r)
  <2> HIDE DEF B
  <2> QED BY <1>1, <1>8, Assembling DEF last
<1>10. a[last] = [c |-> f[last], O |-> O[last]]
  BY <1>1, <1>4
<1> DEFINE q == SqueezeAny(c, n, Cu)
<1>11. q = [c |-> f[last], O |-> O[last]]
  BY <1>2, <1>10
<1>12. q = [c |-> f[last], O |-> q.O] /\ q.O = O[last]
  BY <1>11
<1> HIDE DEF q
<1>13. SqueezedBy(q, f, c, n, Cu)
  BY <1>7, <1>9, <1>12 DEF SqueezedBy, r, last
<1> QED BY <1>13 DEF q

LEMMA SameUnits ==
  ASSUME NEW n \in Nat, NEW r \in Nat \ {0}, NEW x, NEW B, MadeOf(x, B, n, r),
         NEW y, NEW C, MadeOf(y, C, n, r),
         \A k \in 1 .. Blocks(n, r) : \A j \in 1 .. SizeOf(n, r, k) : B[k][j] = C[k][j]
  PROVE  x = y
<1>1. \A p \in 1 .. n : x[p] = y[p]
  <2> TAKE p \in 1 .. n
  <2>1. PICK k \in 1 .. Blocks(n, r), j \in 1 .. r :
               p = (k - 1) * r + j /\ j <= SizeOf(n, r, k)
    BY PlaceInBlock
  <2>2. j \in 1 .. SizeOf(n, r, k)
    <3>1. SizeOf(n, r, k) \in 0 .. r
      BY EarlierBlock
    <3> QED BY <2>1, <3>1
  <2>3. x[(k - 1) * r + j] = B[k][j] /\ y[(k - 1) * r + j] = C[k][j]
    BY <2>2 DEF MadeOf
  <2> QED BY <2>1, <2>2, <2>3
<1>2. PICK S : x \in Seq(S)
  BY DEF MadeOf, IsSeq
<1>3. PICK T : y \in Seq(T)
  BY DEF MadeOf, IsSeq
<1>4. x \in Seq(S \cup T) /\ y \in Seq(S \cup T)
  BY <1>2, <1>3, SeqMonotonic
<1>5. Len(x) = n /\ Len(y) = n
  BY DEF MadeOf
<1> QED BY <1>1, <1>4, <1>5, SeqEqual

LEMMA WholeBlocks ==
  ASSUME NEW b \in Nat \ {0}, NEW r \in Nat \ {0}
  PROVE  b * r \in Nat /\ Blocks(b * r, r) = b
<1> DEFINE m == b * r
           p == r - 1
<1>1. m \in Nat /\ m # 0
  <2>1. (b - 1) * r \in Nat /\ m = (b - 1) * r + r
    OBVIOUS
  <2> QED BY <2>1
<1>2. (m + p) \div r = b
  BY Divided
<1> HIDE DEF m
<1>3. m + r - 1 = m + p
  BY <1>1
<1>4. Blocks(m, r) = b
  BY <1>1, <1>2, <1>3 DEF Blocks
<1> QED BY <1>1, <1>4 DEF m

\* What a squeezing call of n units does to c.
Squeezed(q, c, n) ==
  /\ q = [c |-> q.c, O |-> q.O]
  /\ Follows(c, q.c) /\ q.c.phase = "Up" /\ q.c.added = Nothing
  /\ IsSeq(q.O) /\ Len(q.O) = n
  /\ Fresh(q.O, Len(c.s), Len(q.c.s))

LEMMA Squeezing ==
  ASSUME NEW c, IsCyc(c), NEW n \in Nat, NEW Cu
  PROVE  Squeezed(SqueezeAny(c, n, Cu), c, n)
<1> DEFINE q == SqueezeAny(c, n, Cu)
           r == c.Rsqueeze
           last == Blocks(n, r)
<1>1. r \in Nat \ {0} /\ last \in Nat \ {0}
  BY RatesOf, LastBlock
<1>2. PICK f : SqueezedBy(q, f, c, n, Cu)
  BY SqueezeBy
<1> HIDE DEF q, r, last
<1> DEFINE B == [k \in 1 .. last |-> Output(f[k], SizeOf(n, r, k))]
           st == [k \in 1 .. last |-> f[k].s]
           l == Len(c.s)
<1>3. OutRun(f, c, Cu, last) /\ q = [c |-> f[last], O |-> q.O] /\ MadeOf(q.O, B, n, r)
  BY <1>2 DEF SqueezedBy, r, last
<1>4. \A k \in 0 .. last : OutState(f, c, k)
  BY <1>1, <1>3, OutRunIs
<1>5. OutState(f, c, last) /\ last # 0
  BY <1>1, <1>4
<1>6. /\ Follows(c, q.c) /\ q.c.phase = "Up" /\ q.c.added = Nothing
      /\ Len(q.c.s) = l + last /\ l \in Nat
  <2>1. q.c = f[last]
    BY <1>3
  <2> QED BY <1>5, <2>1 DEF OutState, Follows
<1>7. GivenBy(B, st, n, r)
  <2> SUFFICES ASSUME NEW k \in 1 .. last, NEW j \in 1 .. SizeOf(n, r, k)
               PROVE  B[k][j] = {<<st[k], j>>}
    BY DEF GivenBy, last
  <2> DEFINE z == SizeOf(n, r, k)
  <2>1. z \in Nat
    BY <1>1, EarlierBlock DEF last
  <2>2. B[k] = Output(f[k], z) /\ st[k] = f[k].s
    OBVIOUS
  <2> HIDE DEF B, st
  <2>3. Output(f[k], z)[j] = {<<f[k].s, j>>}
    <3> HIDE DEF z
    <3>1. j \in 1 .. z
      BY DEF z
    <3> QED BY <2>1, <3>1, OutputIs
  <2> QED BY <2>2, <2>3
<1>8. \A k \in 1 .. last : Len(st[k]) = l + k
  <2> TAKE k \in 1 .. last
  <2>1. st[k] = f[k].s /\ k \in 0 .. last
    BY <1>1
  <2> QED BY <1>4, <2>1 DEF OutState
<1> HIDE DEF B, st
<1>9. Fresh(q.O, l, l + last)
  BY <1>1, <1>3, <1>6, <1>7, <1>8, FreshOutput DEF last
<1>10. q = [c |-> q.c, O |-> q.O] /\ IsSeq(q.O) /\ Len(q.O) = n
  BY <1>3 DEF MadeOf
<1> QED BY <1>6, <1>9, <1>10 DEF Squeezed, q

\* The same on an implementation without the kernels.
LEMMA SqueezingPlainly ==
  ASSUME NEW c, IsCyc(c), NEW n \in Nat, NEW Cu
  PROVE  SqueezeAny(Plain(c), n, Cu)
           = [c |-> Plain(SqueezeAny(c, n, Cu).c), O |-> SqueezeAny(c, n, Cu).O]
<1> DEFINE q == SqueezeAny(c, n, Cu)
           p == SqueezeAny(Plain(c), n, Cu)
           r == c.Rsqueeze
           last == Blocks(n, r)
<1>1. r \in Nat \ {0} /\ last \in Nat \ {0} /\ IsCyc(Plain(c)) /\ Plain(c).Rsqueeze = r
  BY RatesOf, LastBlock, PlainIs
<1>2. PICK f : SqueezedBy(q, f, c, n, Cu)
  BY SqueezeBy
<1>3. PICK g : SqueezedBy(p, g, Plain(c), n, Cu)
  BY <1>1, SqueezeBy
<1> HIDE DEF q, p, r, last
<1> DEFINE B == [k \in 1 .. last |-> Output(f[k], SizeOf(n, r, k))]
           C == [k \in 1 .. last |-> Output(g[k], SizeOf(n, r, k))]
<1>4. OutRun(f, c, Cu, last) /\ q = [c |-> f[last], O |-> q.O] /\ MadeOf(q.O, B, n, r)
  BY <1>2 DEF SqueezedBy, r, last
<1>5. OutRun(g, Plain(c), Cu, last) /\ p = [c |-> g[last], O |-> p.O] /\ MadeOf(p.O, C, n, r)
  BY <1>1, <1>3 DEF SqueezedBy, last
<1>6. \A k \in 0 .. last : g[k] = Plain(f[k])
  <2>1. last \in Nat /\ OutRun(f, c, Cu, last) /\ OutRun(g, Plain(c), Cu, last)
    BY <1>1, <1>4, <1>5
  <2> QED BY ONLY IsCyc(c), <2>1, OutRunPlain
<1>7. \A k \in 1 .. last : \A j \in 1 .. SizeOf(n, r, k) : B[k][j] = C[k][j]
  <2> SUFFICES ASSUME NEW k \in 1 .. last PROVE B[k] = C[k]
    OBVIOUS
  <2>1. k \in 0 .. last
    BY <1>1
  <2>2. IsCyc(f[k])
    BY <1>1, <1>4, <2>1, OutRunIs DEF OutState, Follows
  <2>3. g[k].s = f[k].s
    BY <1>6, <2>1, <2>2, PlainIs
  <2> QED BY <2>3 DEF Output
<1> HIDE DEF B, C
<1>8. p.O = q.O
  BY <1>1, <1>4, <1>5, <1>7, SameUnits DEF last
<1>9. p.c = Plain(q.c)
  <2>1. p.c = g[last] /\ q.c = f[last] /\ last \in 0 .. last
    BY <1>1, <1>4, <1>5
  <2> QED BY <1>6, <2>1
<1>10. p = [c |-> p.c, O |-> p.O]
  BY <1>5
<1> QED BY <1>8, <1>9, <1>10 DEF p, q

\* How much of its last block is asked for is nowhere in the state.
LEMMA SqueezedInBlocks ==
  ASSUME NEW c, IsCyc(c), NEW n \in Nat, NEW Cu
  PROVE  SqueezeAny(c, Blocks(n, c.Rsqueeze) * c.Rsqueeze, Cu).c = SqueezeAny(c, n, Cu).c
<1> DEFINE r == c.Rsqueeze
           last == Blocks(n, r)
           m == last * r
           q == SqueezeAny(c, n, Cu)
           p == SqueezeAny(c, m, Cu)
<1>1. r \in Nat \ {0} /\ last \in Nat \ {0}
  BY RatesOf, LastBlock
<1>2. m \in Nat /\ Blocks(m, r) = last
  BY <1>1, WholeBlocks
<1> HIDE DEF m
<1>3. PICK f : SqueezedBy(q, f, c, n, Cu)
  BY SqueezeBy
<1>4. PICK g : SqueezedBy(p, g, c, m, Cu)
  BY <1>2, SqueezeBy
<1> HIDE DEF q, p, r, last
<1>5. OutRun(f, c, Cu, last) /\ q.c = f[last]
  <2>1. OutRun(f, c, Cu, last) /\ q = [c |-> f[last], O |-> q.O]
    BY <1>3 DEF SqueezedBy, r, last
  <2> QED BY <2>1
<1>6. OutRun(g, c, Cu, last) /\ p.c = g[last]
  <2>1. OutRun(g, c, Cu, last) /\ p = [c |-> g[last], O |-> p.O]
    BY <1>2, <1>4 DEF SqueezedBy, r
  <2> QED BY <2>1
<1>7. last \in 0 .. last
  BY <1>1
<1>8. g[last] = f[last]
  <2>1. last \in Nat /\ OutRun(f, c, Cu, last) /\ OutRun(g, c, Cu, last)
    BY <1>1, <1>5, <1>6
  <2> QED BY ONLY <1>7, <2>1, OutRunSame
<1>9. p.c = q.c
  BY <1>5, <1>6, <1>8
<1> QED BY <1>9 DEF p, q, m, r, last

-----------------------------------------------------------------------------
(* Enciphering and deciphering.                                            *)

LEMMA XorIs ==
  ASSUME NEW x, IsSeq(x), NEW y
  PROVE  /\ IsSeq(XorAll(x, y)) /\ Len(XorAll(x, y)) = Len(x)
         /\ \A i \in 1 .. Len(x) : XorAll(x, y)[i] = Xor(x[i], y[i])
<1> DEFINE n == Len(x)
           u(i) == Xor(x[i], y[i])
           S == {u(i) : i \in 1 .. n}
<1>1. DOMAIN x = 1 .. n /\ n \in Nat
  BY SeqLength
<1>2. XorAll(x, y) = [i \in 1 .. n |-> u(i)]
  BY <1>1 DEF XorAll
<1> HIDE DEF n, u
<1>3. [i \in 1 .. n |-> u(i)] \in [1 .. n -> S]
  OBVIOUS
<1>4. [i \in 1 .. n |-> u(i)] \in Seq(S) /\ Len([i \in 1 .. n |-> u(i)]) = n
  BY <1>1, <1>3
<1>5. IsSeq([i \in 1 .. n |-> u(i)])
  BY <1>4 DEF IsSeq
<1>6. \A i \in 1 .. n : [j \in 1 .. n |-> u(j)][i] = u(i)
  OBVIOUS
<1> QED BY <1>2, <1>4, <1>5, <1>6 DEF n, u

LEMMA XorTwice == \A x, y : Xor(Xor(x, y), y) = x /\ Xor(x, Xor(x, y)) = y
BY DEF Xor

\* Block k without the kernels: the plaintext is added.
CryptPlainly(d, I, decrypt, k) ==
  Down(CryptUp(d, k), IF decrypt THEN CryptOut(d, I, k) ELSE Block(I, Rkout, k), 0)

\* O is block k of I and the output from state s.
OutUnits(O, I, k, s) ==
  \A j \in 1 .. SizeOf(Len(I), Rkout, k) : O[j] = Xor(I[(k - 1) * Rkout + j], {<<s, j>>})

LEMMA CryptOutIs ==
  ASSUME NEW d, NEW I, IsSeq(I), NEW k \in 1 .. Blocks(Len(I), Rkout)
  PROVE  /\ IsSeq(CryptOut(d, I, k)) /\ Len(CryptOut(d, I, k)) = SizeOf(Len(I), Rkout, k)
         /\ OutUnits(CryptOut(d, I, k), I, k, CryptUp(d, k).s)
<1> DEFINE n == Len(I)
           z == SizeOf(n, Rkout, k)
           B == Block(I, Rkout, k)
           up == CryptUp(d, k)
           y == Output(up, z)
<1>1. IsSeq(B) /\ Len(B) = z /\ \A j \in 1 .. z : B[j] = I[(k - 1) * Rkout + j]
  BY Sizes, BlockIs
<1>2. z \in Nat
  BY Sizes, SeqLength, EarlierBlock
<1>3. CryptOut(d, I, k) = XorAll(B, y)
  BY <1>1 DEF CryptOut
<1> HIDE DEF z, B, up
<1>4. \A j \in 1 .. z : y[j] = {<<up.s, j>>}
  BY <1>2, OutputIs
<1> HIDE DEF y
<1>5. /\ IsSeq(XorAll(B, y)) /\ Len(XorAll(B, y)) = z
      /\ \A j \in 1 .. z : XorAll(B, y)[j] = Xor(B[j], y[j])
  BY <1>1, XorIs
<1>6. \A j \in 1 .. z : CryptOut(d, I, k)[j] = Xor(I[(k - 1) * Rkout + j], {<<up.s, j>>})
  BY <1>1, <1>3, <1>4, <1>5
<1> QED BY <1>3, <1>5, <1>6 DEF z, up, OutUnits

LEMMA UpCrypting ==
  ASSUME NEW d, IsCyc(d), NEW k
  PROVE  /\ Follows(d, CryptUp(d, k)) /\ Len(CryptUp(d, k).s) = Len(d.s) + 1
         /\ CryptUp(Plain(d), k) = Plain(CryptUp(d, k)) /\ CryptUp(Plain(d), k).s = CryptUp(d, k).s
<1> DEFINE Cu == IF k = 1 THEN 128 ELSE 0
<1>1. CryptUp(d, k) = Up(d, Cu) /\ CryptUp(Plain(d), k) = Up(Plain(d), Cu)
  BY DEF CryptUp
<1> HIDE DEF Cu
<1>2. /\ Follows(d, Up(d, Cu)) /\ Len(Up(d, Cu).s) = Len(d.s) + 1
      /\ Up(Plain(d), Cu) = Plain(Up(d, Cu))
  BY UpOf DEF Follows
<1>3. Plain(Up(d, Cu)).s = Up(d, Cu).s
  BY UpOf, PlainIs
<1> QED BY <1>1, <1>2, <1>3

LEMMA BlockCrypted ==
  ASSUME NEW d, IsCyc(d), NEW I, IsSeq(I), NEW decrypt \in BOOLEAN,
         NEW k \in 1 .. Blocks(Len(I), Rkout), k > 1 => d.phase = "Down"
  PROVE  /\ CryptBlock(d, I, decrypt, k) = CryptPlainly(d, I, decrypt, k)
         /\ Follows(d, CryptPlainly(d, I, decrypt, k))
         /\ CryptPlainly(d, I, decrypt, k).phase = "Down"
         /\ CryptPlainly(d, I, decrypt, k).s = CryptUp(d, k).s
         /\ Len(CryptPlainly(d, I, decrypt, k).s) = Len(d.s) + 1
         /\ CryptPlainly(Plain(d), I, decrypt, k) = Plain(CryptPlainly(d, I, decrypt, k))
         /\ CryptOut(Plain(d), I, k) = CryptOut(d, I, k)
<1> DEFINE B == Block(I, Rkout, k)
           O == CryptOut(d, I, k)
           up == CryptUp(d, k)
           text == IF decrypt THEN O ELSE B
           e == Down(up, text, 0)
<1>1. CryptPlainly(d, I, decrypt, k) = e
  BY DEF CryptPlainly
<1>2. CryptOut(Plain(d), I, k) = O
  <2>1. CryptUp(Plain(d), k).s = up.s
    BY UpCrypting
  <2> QED BY <2>1 DEF CryptOut, Output
<1>3. CryptPlainly(Plain(d), I, decrypt, k) = Down(Plain(up), text, 0)
  BY <1>2, UpCrypting DEF CryptPlainly
<1>4. CryptBlock(d, I, decrypt, k) = e
  <2>1. CASE d.kernels /\ k > 1 /\ Len(B) = Rkout
    <3>1. up = Up(d, 0)
      BY <2>1 DEF CryptUp
    <3>2. KernelIn(d, O) = Down(up, O, 0) /\ KernelIn(d, B) = Down(up, B, 0)
      BY <2>1, <3>1, KernelInIs
    <3>3. EncryptKernel(d, B, O) = KernelIn(d, B)
      <4>1. IsSeq(B)
        BY Sizes, BlockIs
      <4>2. O = XorAll(B, Output(Up(d, 0), Len(B)))
        BY <3>1 DEF CryptOut
      <4> HIDE DEF B, O, up
      <4> QED BY <2>1, <4>1, <4>2, EncryptKernelIs
    <3>4. CASE decrypt
      BY <2>1, <3>2, <3>4 DEF CryptBlock, DecryptKernel
    <3>5. CASE ~decrypt
      BY <2>1, <3>2, <3>3, <3>5 DEF CryptBlock
    <3> QED BY <3>4, <3>5
  <2>2. CASE ~(d.kernels /\ k > 1 /\ Len(B) = Rkout)
    BY <2>2 DEF CryptBlock
  <2> QED BY <2>1, <2>2
<1> HIDE DEF up, text, O, B
<1>5. Follows(d, up) /\ Len(up.s) = Len(d.s) + 1
  BY UpCrypting DEF up
<1>6. /\ Follows(up, e) /\ e.phase = "Down" /\ e.s = up.s
      /\ Down(Plain(up), text, 0) = Plain(e)
  BY <1>5, DownOf DEF Follows
<1> HIDE DEF e
<1>7. Follows(d, e)
  BY <1>5, <1>6, FollowsTwice
<1> QED BY <1>1, <1>2, <1>3, <1>4, <1>5, <1>6, <1>7 DEF up, O

\* The instances from c on, block by block of I.
TextRun(f, c, I, decrypt, m) ==
  f[0] = c /\ \A k \in 1 .. m : f[k] = CryptPlainly(f[k - 1], I, decrypt, k)

TextState(f, c, k) ==
  /\ Follows(c, f[k]) /\ Len(f[k].s) = Len(c.s) + k
  /\ k # 0 => f[k].phase = "Down"

LEMMA TextRunIs ==
  ASSUME NEW c, IsCyc(c), NEW I, IsSeq(I), NEW decrypt \in BOOLEAN, NEW f,
         TextRun(f, c, I, decrypt, Blocks(Len(I), Rkout))
  PROVE  \A k \in 0 .. Blocks(Len(I), Rkout) : TextState(f, c, k)
<1> DEFINE m == Blocks(Len(I), Rkout)
           T == {k \in Nat : k <= m => TextState(f, c, k)}
<1>0. m \in Nat
  BY Sizes, SeqLength, LastBlock
<1> HIDE DEF m
<1>1. 0 \in T
  BY FollowsItself DEF TextRun, TextState, Follows
<1>2. \A k \in Nat : k \in T => k + 1 \in T
  <2> SUFFICES ASSUME NEW k \in Nat, k \in T, k + 1 <= m PROVE TextState(f, c, k + 1)
    OBVIOUS
  <2> DEFINE l == k + 1
             d == f[k]
  <2>1. TextState(f, c, k)
    BY <1>0
  <2>2. l \in 1 .. m /\ l - 1 = k /\ (l > 1 => k # 0) /\ l # 0
    BY <1>0
  <2>3. f[l] = CryptPlainly(d, I, decrypt, l)
    BY <2>2 DEF TextRun, m
  <2>4. Follows(c, d) /\ IsCyc(d) /\ Len(d.s) = Len(c.s) + k /\ (k # 0 => d.phase = "Down")
        /\ Len(c.s) \in Nat
    BY <2>1 DEF TextState, Follows
  <2> HIDE DEF d, l
  <2>5. Follows(d, f[l]) /\ f[l].phase = "Down" /\ Len(f[l].s) = Len(d.s) + 1
    <3>1. l \in 1 .. Blocks(Len(I), Rkout) /\ (l > 1 => d.phase = "Down")
      BY <2>2, <2>4 DEF m
    <3> DEFINE e == CryptPlainly(d, I, decrypt, l)
    <3>2. Follows(d, e) /\ e.phase = "Down" /\ Len(e.s) = Len(d.s) + 1
      BY ONLY IsSeq(I), decrypt \in BOOLEAN, <2>4, <3>1, BlockCrypted, ZenonT(60)
    <3> HIDE DEF e
    <3> QED BY <2>3, <3>2 DEF e
  <2>6. Follows(c, f[l])
    BY <2>4, <2>5, FollowsTwice
  <2>7. Len(f[l].s) = Len(c.s) + l
    <3> DEFINE x == Len(c.s)
               y == Len(d.s)
               z == Len(f[l].s)
    <3>1. y = x + k /\ z = y + 1 /\ x \in Nat
      BY <2>4, <2>5
    <3>2. l = k + 1
      BY DEF l
    <3> HIDE DEF x, y, z
    <3>3. z = x + l
      BY <3>1, <3>2
    <3> QED BY <3>3 DEF x, z
  <2> QED BY <2>2, <2>5, <2>6, <2>7 DEF TextState, l
<1>3. \A k \in Nat : k \in T
  <2> HIDE DEF T
  <2> QED BY <1>1, <1>2, Induction
<1> QED BY <1>3, <1>0 DEF m

\* Output q for the input I is that of the instances f, from c on.
CryptedBy(q, f, c, I, decrypt) ==
  LET last == Blocks(Len(I), Rkout) IN
  /\ TextRun(f, c, I, decrypt, last)
  /\ q = [c |-> f[last], O |-> q.O]
  /\ MadeOf(q.O, [k \in 1 .. last |-> CryptOut(f[k - 1], I, k)], Len(I), Rkout)

LEMMA CryptBy ==
  ASSUME NEW c, IsCyc(c), NEW I, IsSeq(I), NEW decrypt \in BOOLEAN
  PROVE  \E f : CryptedBy(Crypt(c, I, decrypt), f, c, I, decrypt)
<1> DEFINE n == Len(I)
           last == Blocks(n, Rkout)
<1>1. n \in Nat /\ last \in Nat \ {0}
  BY Sizes, SeqLength, LastBlock
<1>2. PICK a : CryptRun(a, c, I, decrypt, last) /\ Crypt(c, I, decrypt) = a[last]
  BY <1>1, CryptIsRun
<1> HIDE DEF n, last
<1>3. /\ a[0] = [c |-> c, O |-> <<>>]
      /\ \A k \in 1 .. last : a[k] = CryptStep(a[k - 1], I, decrypt, k)
  BY <1>1, <1>2 DEF CryptRun
<1> DEFINE f == [k \in 0 .. last |-> a[k].c]
           O == [k \in 0 .. last |-> a[k].O]
           B == [k \in 1 .. last |-> CryptOut(f[k - 1], I, k)]
<1>4. \A k \in 0 .. last : a[k] = [c |-> f[k], O |-> O[k]]
  <2>1. a[0] = [c |-> a[0].c, O |-> a[0].O]
    BY <1>3
  <2>2. ASSUME NEW k \in 1 .. last PROVE a[k] = [c |-> a[k].c, O |-> a[k].O]
    <3>1. a[k] = [c |-> CryptBlock(a[k - 1].c, I, decrypt, k),
                  O |-> a[k - 1].O \o CryptOut(a[k - 1].c, I, k)]
      BY <1>3 DEF CryptStep
    <3> QED BY <3>1
  <2>3. ASSUME NEW k \in 0 .. last PROVE a[k] = [c |-> a[k].c, O |-> a[k].O]
    <3>1. k = 0 \/ k \in 1 .. last
      BY <1>1
    <3> QED BY <2>1, <2>2, <3>1
  <2> QED BY <2>3
<1>5. /\ f[0] = c /\ O[0] = <<>>
      /\ \A k \in 1 .. last :
           f[k] = CryptBlock(f[k - 1], I, decrypt, k) /\ O[k] = O[k - 1] \o B[k]
  <2>1. f[0] = c /\ O[0] = <<>>
    BY <1>1, <1>3
  <2>2. ASSUME NEW k \in 1 .. last
        PROVE  f[k] = CryptBlock(f[k - 1], I, decrypt, k) /\ O[k] = O[k - 1] \o B[k]
    <3>1. k \in 0 .. last /\ k - 1 \in 0 .. last
      BY <1>1
    <3>2. /\ f[k] = a[k].c /\ f[k - 1] = a[k - 1].c /\ O[k] = a[k].O /\ O[k - 1] = a[k - 1].O
          /\ B[k] = CryptOut(f[k - 1], I, k)
      BY <3>1
    <3> HIDE DEF f, O, B
    <3> DEFINE e == CryptBlock(f[k - 1], I, decrypt, k)
               z == O[k - 1] \o CryptOut(f[k - 1], I, k)
    <3>3. a[k] = [c |-> e, O |-> z]
      BY <1>3, <3>2 DEF CryptStep
    <3> HIDE DEF e, z
    <3>4. f[k] = e /\ O[k] = z
      BY <3>2, <3>3
    <3> QED BY <3>2, <3>4 DEF e, z
  <2> QED BY <2>1, <2>2
<1> HIDE DEF f, O
<1>6. \A k \in 1 .. last : f[k] = CryptPlainly(f[k - 1], I, decrypt, k)
  <2> DEFINE P(k) == IsCyc(f[k]) /\ (k # 0 => f[k].phase = "Down")
             T == {k \in Nat : k <= last => P(k)}
  <2>1. \A k \in Nat : k + 1 <= last /\ P(k)
          => P(k + 1) /\ f[k + 1] = CryptPlainly(f[k], I, decrypt, k + 1)
    <3> SUFFICES ASSUME NEW k \in Nat, k + 1 <= last, P(k)
                 PROVE  P(k + 1) /\ f[k + 1] = CryptPlainly(f[k], I, decrypt, k + 1)
      OBVIOUS
    <3> DEFINE l == k + 1
               d == f[k]
    <3>1. l \in 1 .. last /\ l - 1 = k /\ (l > 1 => k # 0)
      BY <1>1
    <3>2. IsCyc(d) /\ (l > 1 => d.phase = "Down")
      BY <3>1
    <3> HIDE DEF l
    <3>3. f[l] = CryptBlock(d, I, decrypt, l)
      BY <1>5, <3>1
    <3> HIDE DEF d
    <3>4. f[l] = CryptPlainly(d, I, decrypt, l)
      BY <3>1, <3>2, <3>3, BlockCrypted DEF last, n
    <3>5. IsCyc(f[l]) /\ f[l].phase = "Down"
      BY <3>1, <3>2, <3>4, BlockCrypted DEF last, n, Follows
    <3> QED BY <3>4, <3>5 DEF l, d
  <2>2. 0 \in T
    BY <1>5
  <2>3. \A k \in Nat : k \in T => k + 1 \in T
    <3> HIDE DEF P
    <3> QED BY <1>1, <2>1
  <2> HIDE DEF T
  <2>4. \A k \in Nat : k \in T
    BY <2>2, <2>3, Induction
  <2> SUFFICES ASSUME NEW k \in 1 .. last PROVE f[k] = CryptPlainly(f[k - 1], I, decrypt, k)
    OBVIOUS
  <2> DEFINE i == k - 1
  <2>5. i \in Nat /\ i + 1 = k /\ i <= last /\ i + 1 <= last
    BY <1>1
  <2> HIDE DEF i
  <2>6. P(i)
    BY <1>1, <2>4, <2>5 DEF T
  <2>7. f[i + 1] = CryptPlainly(f[i], I, decrypt, i + 1)
    BY <2>1, <2>5, <2>6
  <2> QED BY <2>5, <2>7 DEF i
<1>7. TextRun(f, c, I, decrypt, last)
  BY <1>5, <1>6 DEF TextRun
<1>8. Assembled(O, B, n, Rkout)
  <2>1. ASSUME NEW k \in 1 .. last
        PROVE  O[k] = O[k - 1] \o B[k] /\ IsSeq(B[k]) /\ Len(B[k]) = SizeOf(n, Rkout, k)
    <3>1. B[k] = CryptOut(f[k - 1], I, k)
      OBVIOUS
    <3>2. IsSeq(B[k]) /\ Len(B[k]) = SizeOf(n, Rkout, k)
      BY <3>1, CryptOutIs DEF last, n
    <3> QED BY <1>5, <3>2
  <2> HIDE DEF B
  <2> QED BY <1>5, <2>1 DEF Assembled, last
<1>9. MadeOf(O[last], B, n, Rkout)
  <2> HIDE DEF B
  <2> QED BY <1>1, <1>8, Sizes, Assembling DEF last
<1>10. a[last] = [c |-> f[last], O |-> O[last]]
  BY <1>1, <1>4
<1> DEFINE q == Crypt(c, I, decrypt)
<1>11. q = [c |-> f[last], O |-> O[last]]
  BY <1>2, <1>10
<1>12. q = [c |-> f[last], O |-> q.O] /\ q.O = O[last]
  BY <1>11
<1> HIDE DEF q
<1>13. CryptedBy(q, f, c, I, decrypt)
  BY <1>7, <1>9, <1>12 DEF CryptedBy, last, n
<1> QED BY <1>13 DEF q

LEMMA SameSeq ==
  ASSUME NEW x, IsSeq(x), NEW y, IsSeq(y), Len(x) = Len(y), \A p \in 1 .. Len(x) : x[p] = y[p]
  PROVE  x = y
<1>1. PICK S : x \in Seq(S)
  BY DEF IsSeq
<1>2. PICK T : y \in Seq(T)
  BY DEF IsSeq
<1>3. x \in Seq(S \cup T) /\ y \in Seq(S \cup T)
  BY <1>1, <1>2, SeqMonotonic
<1> QED BY <1>3, SeqEqual

\* Unit by unit the output J is the input I and the key stream.
KeyStreamed(J, I, f) ==
  \A k \in 1 .. Blocks(Len(I), Rkout) : \A j \in 1 .. SizeOf(Len(I), Rkout, k) :
    J[(k - 1) * Rkout + j] = Xor(I[(k - 1) * Rkout + j], {<<f[k].s, j>>})

LEMMA CryptUnits ==
  ASSUME NEW c, IsCyc(c), NEW I, IsSeq(I), NEW decrypt \in BOOLEAN, NEW q, NEW f,
         CryptedBy(q, f, c, I, decrypt)
  PROVE  /\ \A k \in 0 .. Blocks(Len(I), Rkout) : TextState(f, c, k)
         /\ KeyStreamed(q.O, I, f)
<1> DEFINE n == Len(I)
           last == Blocks(n, Rkout)
           B == [k \in 1 .. last |-> CryptOut(f[k - 1], I, k)]
<1>1. n \in Nat /\ last \in Nat \ {0}
  BY Sizes, SeqLength, LastBlock
<1>2. TextRun(f, c, I, decrypt, last) /\ MadeOf(q.O, B, n, Rkout)
  BY DEF CryptedBy
<1>3. \A k \in 0 .. last : TextState(f, c, k)
  BY <1>2, TextRunIs
<1>4. ASSUME NEW k \in 1 .. last, NEW j \in 1 .. SizeOf(n, Rkout, k)
      PROVE  q.O[(k - 1) * Rkout + j] = Xor(I[(k - 1) * Rkout + j], {<<f[k].s, j>>})
  <2> DEFINE d == f[k - 1]
             e == f[k]
             p == (k - 1) * Rkout + j
  <2>1. IsCyc(d) /\ (k > 1 => d.phase = "Down")
    <3>1. k - 1 \in 0 .. last /\ (k > 1 => k - 1 # 0)
      BY <1>1
    <3> QED BY <1>3, <3>1 DEF TextState, Follows
  <2>2. e = CryptPlainly(d, I, decrypt, k)
    BY <1>2 DEF TextRun
  <2>3. q.O[p] = B[k][j]
    BY <1>2 DEF MadeOf
  <2>4. B[k] = CryptOut(d, I, k)
    OBVIOUS
  <2> HIDE DEF d, e, B
  <2>5. e.s = CryptUp(d, k).s
    BY ONLY IsSeq(I), decrypt \in BOOLEAN, k \in 1 .. Blocks(Len(I), Rkout),
            <2>1, <2>2, BlockCrypted
  <2>6. CryptOut(d, I, k)[j] = Xor(I[p], {<<CryptUp(d, k).s, j>>})
    <3>1. OutUnits(CryptOut(d, I, k), I, k, CryptUp(d, k).s)
      BY CryptOutIs
    <3> QED BY <3>1 DEF OutUnits
  <2> HIDE DEF p
  <2>7. q.O[p] = Xor(I[p], {<<e.s, j>>})
    BY <2>3, <2>4, <2>5, <2>6
  <2> QED BY <2>7 DEF p, e
<1> QED BY <1>3, <1>4 DEF KeyStreamed

\* What enciphering or deciphering I does to c.
Crypted(q, c, I) ==
  /\ q = [c |-> q.c, O |-> q.O]
  /\ Follows(c, q.c) /\ q.c.phase = "Down"
  /\ IsSeq(q.O) /\ Len(q.O) = Len(I)
  /\ Fresh(XorAll(I, q.O), Len(c.s), Len(q.c.s))

LEMMA Crypting ==
  ASSUME NEW c, IsCyc(c), NEW I, IsSeq(I), NEW decrypt \in BOOLEAN
  PROVE  Crypted(Crypt(c, I, decrypt), c, I)
<1> DEFINE q == Crypt(c, I, decrypt)
           n == Len(I)
           last == Blocks(n, Rkout)
           l == Len(c.s)
<1>1. n \in Nat /\ last \in Nat \ {0} /\ Rkout \in Nat \ {0}
  BY Sizes, SeqLength, LastBlock
<1>2. PICK f : CryptedBy(q, f, c, I, decrypt)
  BY CryptBy
<1> HIDE DEF q
<1>3. \A k \in 0 .. last : TextState(f, c, k)
  BY <1>2, CryptUnits
<1>4. \A k \in 1 .. last : \A j \in 1 .. SizeOf(n, Rkout, k) :
        q.O[(k - 1) * Rkout + j] = Xor(I[(k - 1) * Rkout + j], {<<f[k].s, j>>})
  <2>1. KeyStreamed(q.O, I, f)
    BY <1>2, CryptUnits
  <2> QED BY <2>1 DEF KeyStreamed
<1>5. q = [c |-> f[last], O |-> q.O] /\ IsSeq(q.O) /\ Len(q.O) = n
  BY <1>2 DEF CryptedBy, MadeOf
<1> HIDE DEF n, last, l
<1> DEFINE st == [k \in 1 .. last |-> f[k].s]
           Y == [k \in 1 .. last |-> [j \in 1 .. SizeOf(n, Rkout, k) |-> {<<st[k], j>>}]]
           U == XorAll(I, q.O)
<1>6. TextState(f, c, last) /\ last # 0
  BY <1>1, <1>3
<1>7. Follows(c, q.c) /\ q.c.phase = "Down" /\ Len(q.c.s) = l + last /\ l \in Nat
  <2>1. q.c = f[last]
    BY <1>5
  <2> QED BY <1>6, <2>1 DEF TextState, Follows, l
<1>8. GivenBy(Y, st, n, Rkout)
  BY DEF GivenBy, last
<1>9. \A k \in 1 .. last : Len(st[k]) = l + k
  <2> TAKE k \in 1 .. last
  <2>1. st[k] = f[k].s /\ k \in 0 .. last
    BY <1>1
  <2> QED BY <1>3, <2>1 DEF TextState, l
<1>10. MadeOf(U, Y, n, Rkout)
  <2>1. IsSeq(U) /\ Len(U) = n /\ \A i \in 1 .. n : U[i] = Xor(I[i], q.O[i])
    BY XorIs DEF n
  <2>2. ASSUME NEW k \in 1 .. last, NEW j \in 1 .. SizeOf(n, Rkout, k)
        PROVE  U[(k - 1) * Rkout + j] = Y[k][j]
    <3> DEFINE p == (k - 1) * Rkout + j
    <3>1. p \in 1 .. n
      <4> DEFINE a == (k - 1) * Rkout
                 z == SizeOf(n, Rkout, k)
      <4>1. a \in Nat /\ z \in Nat /\ a + z <= n
        BY <1>1, EarlierBlock DEF last
      <4>2. j \in 1 .. z
        OBVIOUS
      <4> HIDE DEF a, z
      <4>3. a + j \in 1 .. n
        BY <1>1, <4>1, <4>2
      <4> QED BY <4>3 DEF a
    <3>2. q.O[p] = Xor(I[p], {<<f[k].s, j>>})
      BY <1>4
    <3>3. Y[k][j] = {<<f[k].s, j>>}
      OBVIOUS
    <3> HIDE DEF p, Y, U
    <3>4. U[p] = Xor(I[p], Xor(I[p], Y[k][j]))
      BY <2>1, <3>1, <3>2, <3>3
    <3>5. U[p] = Y[k][j]
      BY <3>4, XorTwice
    <3> QED BY <3>5 DEF p
  <2> HIDE DEF Y, U
  <2> QED BY <2>1, <2>2 DEF MadeOf, last
<1> HIDE DEF st, Y
<1>11. Fresh(U, l, l + last)
  BY <1>1, <1>7, <1>8, <1>9, <1>10, FreshOutput DEF last
<1>12. q = [c |-> q.c, O |-> q.O]
  BY <1>5
<1> QED BY <1>5, <1>7, <1>11, <1>12 DEF Crypted, q, n, l

\* The same on an implementation without the kernels.
LEMMA CryptingPlainly ==
  ASSUME NEW c, IsCyc(c), NEW I, IsSeq(I), NEW decrypt \in BOOLEAN
  PROVE  Crypt(Plain(c), I, decrypt)
           = [c |-> Plain(Crypt(c, I, decrypt).c), O |-> Crypt(c, I, decrypt).O]
<1> DEFINE q == Crypt(c, I, decrypt)
           p == Crypt(Plain(c), I, decrypt)
           n == Len(I)
           last == Blocks(n, Rkout)
<1>1. n \in Nat /\ last \in Nat \ {0} /\ Rkout \in Nat \ {0} /\ IsCyc(Plain(c))
  BY Sizes, SeqLength, LastBlock, PlainIs
<1>2. PICK f : CryptedBy(q, f, c, I, decrypt)
  BY CryptBy
<1>3. PICK g : CryptedBy(p, g, Plain(c), I, decrypt)
  BY <1>1, CryptBy
<1> HIDE DEF q, p
<1> DEFINE B == [k \in 1 .. last |-> CryptOut(f[k - 1], I, k)]
           C == [k \in 1 .. last |-> CryptOut(g[k - 1], I, k)]
<1>4. TextRun(f, c, I, decrypt, last) /\ q = [c |-> f[last], O |-> q.O] /\ MadeOf(q.O, B, n, Rkout)
  BY <1>2 DEF CryptedBy
<1>5. TextRun(g, Plain(c), I, decrypt, last) /\ p = [c |-> g[last], O |-> p.O]
      /\ MadeOf(p.O, C, n, Rkout)
  BY <1>3 DEF CryptedBy
<1>6. \A k \in 0 .. last : TextState(f, c, k)
  BY <1>2, CryptUnits
<1> HIDE DEF n, last, B, C
<1>7. \A k \in 0 .. last : g[k] = Plain(f[k])
  <2> DEFINE T == {k \in Nat : k <= last => g[k] = Plain(f[k])}
  <2>1. 0 \in T
    BY <1>4, <1>5 DEF TextRun
  <2>2. \A k \in Nat : k \in T => k + 1 \in T
    <3> SUFFICES ASSUME NEW k \in Nat, k \in T, k + 1 <= last PROVE g[k + 1] = Plain(f[k + 1])
      OBVIOUS
    <3> DEFINE l == k + 1
               d == f[k]
    <3>1. l \in 1 .. last /\ l - 1 = k /\ (l > 1 => k # 0) /\ k \in 0 .. last
      BY <1>1
    <3>2. g[k] = Plain(d)
      BY <1>1
    <3>3. IsCyc(d) /\ (k # 0 => d.phase = "Down")
      BY <1>6, <3>1 DEF TextState, Follows
    <3>4. f[l] = CryptPlainly(d, I, decrypt, l) /\ g[l] = CryptPlainly(Plain(d), I, decrypt, l)
      BY <1>4, <1>5, <3>1, <3>2 DEF TextRun
    <3> HIDE DEF d, l
    <3>5. CryptPlainly(Plain(d), I, decrypt, l) = Plain(CryptPlainly(d, I, decrypt, l))
      <4>1. l \in 1 .. Blocks(Len(I), Rkout) /\ (l > 1 => d.phase = "Down")
        BY <3>1, <3>3 DEF last, n
      <4> QED BY ONLY IsSeq(I), decrypt \in BOOLEAN, <3>3, <4>1, BlockCrypted
    <3>6. g[l] = Plain(f[l])
      BY <3>4, <3>5
    <3> QED BY <3>6 DEF l
  <2>3. \A k \in Nat : k \in T
    <3> HIDE DEF T
    <3> QED BY <2>1, <2>2, Induction
  <2> QED BY <1>1, <2>3
<1>8. \A k \in 1 .. last : \A j \in 1 .. SizeOf(n, Rkout, k) : B[k][j] = C[k][j]
  <2> SUFFICES ASSUME NEW k \in 1 .. last PROVE B[k] = C[k]
    OBVIOUS
  <2> DEFINE d == f[k - 1]
  <2>1. k - 1 \in 0 .. last /\ (k > 1 => k - 1 # 0)
    BY <1>1
  <2>2. IsCyc(d) /\ (k > 1 => d.phase = "Down")
    BY <1>6, <2>1 DEF TextState, Follows
  <2>3. B[k] = CryptOut(d, I, k) /\ C[k] = CryptOut(Plain(d), I, k)
    BY <1>7, <2>1 DEF B, C
  <2> HIDE DEF d
  <2>4. CryptOut(Plain(d), I, k) = CryptOut(d, I, k)
    <3>1. k \in 1 .. Blocks(Len(I), Rkout)
      BY DEF last, n
    <3> QED BY ONLY IsSeq(I), decrypt \in BOOLEAN, <2>2, <3>1, BlockCrypted
  <2> QED BY <2>3, <2>4
<1>9. p.O = q.O
  BY <1>1, <1>4, <1>5, <1>8, SameUnits DEF last
<1>10. p.c = Plain(q.c)
  <2>1. p.c = g[last] /\ q.c = f[last] /\ last \in 0 .. last
    BY <1>1, <1>4, <1>5
  <2> QED BY <1>7, <2>1
<1>11. p = [c |-> p.c, O |-> p.O]
  BY <1>5
<1> QED BY <1>9, <1>10, <1>11 DEF p, q

\* What was enciphered is deciphered, and the other way round: with the same state after.
LEMMA CryptingBack ==
  ASSUME NEW c, IsCyc(c), NEW I, IsSeq(I), NEW decrypt \in BOOLEAN, NEW back \in BOOLEAN,
         back # decrypt
  PROVE  LET q == Crypt(c, I, decrypt) IN Crypt(c, q.O, back) = [c |-> q.c, O |-> I]
<1> DEFINE q == Crypt(c, I, decrypt)
           J == q.O
           p == Crypt(c, J, back)
           n == Len(I)
           last == Blocks(n, Rkout)
<1>1. n \in Nat /\ last \in Nat \ {0} /\ Rkout \in Nat \ {0}
  BY Sizes, SeqLength, LastBlock
<1>2. PICK f : CryptedBy(q, f, c, I, decrypt)
  BY CryptBy
<1>3. IsSeq(J) /\ Len(J) = n
  BY <1>2 DEF CryptedBy, MadeOf
<1>4. PICK g : CryptedBy(p, g, c, J, back)
  BY <1>3, CryptBy
<1> HIDE DEF p
<1> DEFINE B == [k \in 1 .. last |-> CryptOut(f[k - 1], I, k)]
<1>5. TextRun(f, c, I, decrypt, last) /\ MadeOf(J, B, n, Rkout) /\ q = [c |-> f[last], O |-> J]
  BY <1>2 DEF CryptedBy
<1> HIDE DEF q
<1>6. TextRun(g, c, J, back, last) /\ p = [c |-> g[last], O |-> p.O] /\ IsSeq(p.O) /\ Len(p.O) = n
  BY <1>3, <1>4 DEF CryptedBy, MadeOf
<1>7. /\ \A k \in 0 .. last : TextState(f, c, k)
      /\ \A k \in 1 .. last : \A j \in 1 .. SizeOf(n, Rkout, k) :
           J[(k - 1) * Rkout + j] = Xor(I[(k - 1) * Rkout + j], {<<f[k].s, j>>})
  <2>1. (\A k \in 0 .. last : TextState(f, c, k)) /\ KeyStreamed(J, I, f)
    BY <1>2, CryptUnits
  <2> QED BY <2>1 DEF KeyStreamed
<1>8. \A k \in 1 .. last : \A j \in 1 .. SizeOf(n, Rkout, k) :
        p.O[(k - 1) * Rkout + j] = Xor(J[(k - 1) * Rkout + j], {<<g[k].s, j>>})
  <2> HIDE DEF J
  <2>1. KeyStreamed(p.O, J, g)
    BY <1>3, <1>4, CryptUnits
  <2> QED BY <1>3, <2>1 DEF KeyStreamed
<1> HIDE DEF J, last, n, B
<1>9. ASSUME NEW k \in 1 .. last, NEW d, d = f[k - 1]
      PROVE  CryptPlainly(d, J, back, k) = CryptPlainly(d, I, decrypt, k)
  <2> DEFINE z == SizeOf(n, Rkout, k)
             P == Block(I, Rkout, k)
             O == CryptOut(d, I, k)
             U == CryptUp(d, k)
  <2>1. IsSeq(O) /\ Len(O) = z /\ \A j \in 1 .. z : O[j] = Xor(I[(k - 1) * Rkout + j], {<<U.s, j>>})
    <3>1. IsSeq(O) /\ Len(O) = z /\ OutUnits(O, I, k, U.s)
      BY CryptOutIs DEF n, last
    <3> QED BY <3>1 DEF OutUnits, n
  <2>2. IsSeq(P) /\ Len(P) = z /\ \A j \in 1 .. z : P[j] = I[(k - 1) * Rkout + j]
    BY <1>1, BlockIs DEF n, last
  <2>3. B[k] = O
    BY <1>9 DEF B
  <2>4. Block(J, Rkout, k) = O
    <3>1. IsSeq(B[k]) /\ Len(B[k]) = SizeOf(n, Rkout, k)
      BY <2>1, <2>3
    <3>2. Block(J, Rkout, k) = B[k]
      BY <1>1, <1>5, <3>1, BlocksOfMade DEF last
    <3> QED BY <2>3, <3>2
  <2>5. CryptOut(d, J, k) = P
    <3> DEFINE Q == CryptOut(d, J, k)
    <3>1. /\ IsSeq(Q) /\ Len(Q) = z
          /\ \A j \in 1 .. z : Q[j] = Xor(J[(k - 1) * Rkout + j], {<<U.s, j>>})
      <4>1. IsSeq(Q) /\ Len(Q) = z /\ OutUnits(Q, J, k, U.s)
        <5>1. k \in 1 .. Blocks(Len(J), Rkout) /\ z = SizeOf(Len(J), Rkout, k)
          BY <1>3 DEF last
        <5> HIDE DEF z
        <5> QED BY <1>3, <5>1, CryptOutIs
      <4> QED BY <1>3, <4>1 DEF OutUnits
    <3>2. \A j \in 1 .. z : J[(k - 1) * Rkout + j] = O[j]
      BY <1>5, <2>3 DEF MadeOf, last
    <3>3. ASSUME NEW j \in 1 .. z PROVE Q[j] = P[j]
      <4> DEFINE x == I[(k - 1) * Rkout + j]
                 y == {<<U.s, j>>}
      <4>1. Q[j] = Xor(O[j], y) /\ O[j] = Xor(x, y) /\ P[j] = x
        BY <2>1, <2>2, <3>1, <3>2
      <4> HIDE DEF x, y, Q, P, O
      <4> QED BY <4>1, XorTwice
    <3> HIDE DEF Q, P, z
    <3>4. Q = P
      BY <2>2, <3>1, <3>3, SameSeq
    <3> QED BY <3>4 DEF Q, P
  <2> DEFINE text == IF decrypt THEN O ELSE P
             other == IF back THEN P ELSE O
  <2>6. CryptPlainly(d, I, decrypt, k) = Down(U, text, 0)
    BY DEF CryptPlainly
  <2>7. CryptPlainly(d, J, back, k) = Down(U, other, 0)
    BY <2>4, <2>5 DEF CryptPlainly
  <2>8. text = other
    OBVIOUS
  <2> HIDE DEF text, other
  <2> QED BY <2>6, <2>7, <2>8
<1>10. \A k \in 0 .. last : g[k] = f[k]
  <2> DEFINE T == {k \in Nat : k <= last => g[k] = f[k]}
  <2>1. 0 \in T
    BY <1>5, <1>6 DEF TextRun
  <2>2. \A k \in Nat : k \in T => k + 1 \in T
    <3> SUFFICES ASSUME NEW k \in Nat, k \in T, k + 1 <= last PROVE g[k + 1] = f[k + 1]
      OBVIOUS
    <3> DEFINE l == k + 1
               d == f[k]
    <3>1. l \in 1 .. last /\ l - 1 = k
      BY <1>1
    <3>2. g[k] = d /\ d = f[l - 1]
      BY <1>1, <3>1
    <3>3. f[l] = CryptPlainly(d, I, decrypt, l) /\ g[l] = CryptPlainly(d, J, back, l)
      BY <1>5, <1>6, <3>1, <3>2 DEF TextRun
    <3> HIDE DEF l, d
    <3>4. g[l] = f[l]
      BY <1>9, <3>1, <3>2, <3>3
    <3> QED BY <3>4 DEF l
  <2>3. \A k \in Nat : k \in T
    <3> HIDE DEF T
    <3> QED BY <2>1, <2>2, Induction
  <2> QED BY <1>1, <2>3
<1>11. p.O = I
  <2>1. ASSUME NEW i \in 1 .. n PROVE p.O[i] = I[i]
    <3>1. PICK k \in 1 .. last, j \in 1 .. Rkout :
                 i = (k - 1) * Rkout + j /\ j <= SizeOf(n, Rkout, k)
      BY <1>1, PlaceInBlock DEF last
    <3>2. j \in 1 .. SizeOf(n, Rkout, k) /\ k \in 0 .. last
      <4>1. SizeOf(n, Rkout, k) \in 0 .. Rkout
        BY <1>1, EarlierBlock DEF last
      <4> QED BY <1>1, <3>1, <4>1
    <3> DEFINE y == {<<f[k].s, j>>}
    <3>3. p.O[i] = Xor(J[i], y) /\ J[i] = Xor(I[i], y)
      BY <1>7, <1>8, <1>10, <3>1, <3>2
    <3> HIDE DEF y
    <3> QED BY <3>3, XorTwice
  <2> QED BY <1>6, <2>1, SameSeq DEF n
<1>12. p.c = q.c
  <2>1. p.c = g[last] /\ q.c = f[last] /\ last \in 0 .. last
    BY <1>1, <1>5, <1>6
  <2> QED BY <1>10, <2>1
<1>13. p = [c |-> q.c, O |-> I]
  BY <1>6, <1>11, <1>12
<1> QED BY <1>13 DEF p, q, J

-----------------------------------------------------------------------------
(* Starting and ratcheting.                                                *)

LEMMA KeyedIs ==
  ASSUME NEW c, IsCyc(c)
  PROVE  /\ IsCyc(KeyedMode(c)) /\ KeyedMode(Plain(c)) = Plain(KeyedMode(c))
         /\ KeyedMode(c) = Cyc(c.s, c.added, c.phase, "Keyed", c.kernels)
<1> DEFINE s == c.s
           a == c.added
           ph == c.phase
           m == c.mode
           k == c.kernels
<1>1. c = Cyc(s, a, ph, m, k) /\ IsSeq(s) /\ Units(a) /\ k \in BOOLEAN
  BY DEF IsCyc
<1> HIDE DEF s, a, ph, m, k
<1>2. ASSUME NEW l PROVE KeyedMode(Cyc(s, a, ph, m, l)) = Cyc(s, a, ph, "Keyed", l)
  <2> DEFINE x == IF m = "Keyed" THEN Rkin ELSE Rhash
             y == IF m = "Keyed" THEN Rkout ELSE Rhash
             r(h, i, o) == [s |-> s, added |-> a, phase |-> ph, mode |-> h,
                            Rabsorb |-> i, Rsqueeze |-> o, kernels |-> l]
             d == Cyc(s, a, ph, m, l)
  <2>1. d = r(m, x, y) /\ Cyc(s, a, ph, "Keyed", l) = r("Keyed", Rkin, Rkout)
    BY DEF Cyc
  <2> HIDE DEF d, x, y
  <2>2. PICK key : key = "Keyed"
    OBVIOUS
  <2>3. KeyedMode(d) = [[[d EXCEPT !.mode = key] EXCEPT !.Rabsorb = Rkin] EXCEPT !.Rsqueeze = Rkout]
    BY <2>2 DEF KeyedMode
  <2>4. [r(m, x, y) EXCEPT !.mode = key] = r(key, x, y)
    OBVIOUS
  <2>5. [r(key, x, y) EXCEPT !.Rabsorb = Rkin] = r(key, Rkin, y)
    OBVIOUS
  <2>6. [r(key, Rkin, y) EXCEPT !.Rsqueeze = Rkout] = r(key, Rkin, Rkout)
    OBVIOUS
  <2> HIDE DEF r
  <2>7. KeyedMode(d) = r(key, Rkin, Rkout)
    BY <2>1, <2>3, <2>4, <2>5, <2>6
  <2> QED BY <2>1, <2>2, <2>7 DEF d
<1>3. KeyedMode(c) = Cyc(s, a, ph, "Keyed", k)
  BY <1>1, <1>2
<1>4. IsCyc(Cyc(s, a, ph, "Keyed", k))
  BY <1>1, CycIs
<1>5. KeyedMode(Plain(c)) = Plain(KeyedMode(c))
  <2>1. PICK no : no = FALSE
    OBVIOUS
  <2>2. /\ Plain(c) = Cyc(s, a, ph, m, no)
        /\ Plain(Cyc(s, a, ph, "Keyed", k)) = Cyc(s, a, ph, "Keyed", no)
    BY <1>1, <2>1, CycFields
  <2>3. KeyedMode(Cyc(s, a, ph, m, no)) = Cyc(s, a, ph, "Keyed", no)
    BY <1>2
  <2> QED BY <1>3, <2>2, <2>3
<1> QED BY <1>3, <1>4, <1>5 DEF s, a, ph, k

LEMMA UnkeyedIs ==
  \A kernels : Unkeyed(kernels) = Cyc(<<>>, Nothing, "Up", "Hash", kernels)
BY DEF Unkeyed, Cyc

LEMMA KeyAbsorbed ==
  ASSUME NEW c, IsCyc(c), NEW K, IsSeq(K), NEW ID, IsSeq(ID), NEW counter, IsSeq(counter)
  PROVE  /\ IsCyc(AbsorbKey(c, K, ID, counter))
         /\ AbsorbKey(Plain(c), K, ID, counter) = Plain(AbsorbKey(c, K, ID, counter))
<1> DEFINE X == K \o ID \o <<Byte(Len(ID))>>
           d == KeyedMode(c)
           e == AbsorbAny(d, X, Rkin, 2)
<1>1. IsSeq(X)
  <2>1. IsSeq(K \o ID)
    BY Joined
  <2>2. IsSeq(<<Byte(Len(ID))>>)
    <3> DEFINE b == Byte(Len(ID))
    <3> HIDE DEF b
    <3>1. <<b>> \in Seq({b})
      OBVIOUS
    <3>2. IsSeq(<<b>>)
      BY <3>1 DEF IsSeq
    <3> QED BY <3>2 DEF b
  <2> QED BY <2>1, <2>2, Joined
<1>2. IsCyc(d) /\ KeyedMode(Plain(c)) = Plain(d)
  BY KeyedIs
<1>3. AbsorbKey(c, K, ID, counter) = IF counter # <<>> THEN AbsorbAny(e, counter, 1, 0) ELSE e
  BY DEF AbsorbKey
<1>4. AbsorbKey(Plain(c), K, ID, counter)
        = IF counter # <<>> THEN AbsorbAny(AbsorbAny(Plain(d), X, Rkin, 2), counter, 1, 0)
                            ELSE AbsorbAny(Plain(d), X, Rkin, 2)
  BY <1>2 DEF AbsorbKey
<1> HIDE DEF d, X
<1>5. IsCyc(e) /\ AbsorbAny(Plain(d), X, Rkin, 2) = Plain(e)
  BY <1>1, <1>2, Sizes, Absorbing DEF Follows
<1> HIDE DEF e
<1>6. IsCyc(AbsorbAny(e, counter, 1, 0))
      /\ AbsorbAny(Plain(e), counter, 1, 0) = Plain(AbsorbAny(e, counter, 1, 0))
  BY <1>5, Absorbing DEF Follows
<1> QED BY <1>3, <1>4, <1>5, <1>6

\* The start without the kernels.
PlainStart(K, ID, counter) == Initialize(FALSE, K, ID, counter)

LEMMA Starting ==
  ASSUME NEW kernels \in BOOLEAN, NEW K, IsSeq(K), NEW ID, IsSeq(ID), NEW counter, IsSeq(counter)
  PROVE  /\ IsCyc(Initialize(kernels, K, ID, counter))
         /\ PlainStart(K, ID, counter) = Plain(Initialize(kernels, K, ID, counter))
<1> DEFINE c == Unkeyed(kernels)
<1>0. PICK no : no = FALSE
  OBVIOUS
<1>1. IsCyc(c)
  BY UnkeyedIs, EmptyIs, UnitsAdded, CycIs
<1>2. Unkeyed(no) = Plain(c)
  BY <1>0, UnkeyedIs, CycFields
<1>3. PlainStart(K, ID, counter)
        = IF K # <<>> THEN AbsorbKey(Plain(c), K, ID, counter) ELSE Plain(c)
  <2>1. PlainStart(K, ID, counter) = Initialize(no, K, ID, counter)
    BY <1>0, Zenon DEF PlainStart
  <2> QED BY <1>2, <2>1 DEF Initialize
<1>4. Initialize(kernels, K, ID, counter)
        = IF K # <<>> THEN AbsorbKey(c, K, ID, counter) ELSE c
  BY DEF Initialize
<1> HIDE DEF c
<1>5. /\ IsCyc(AbsorbKey(c, K, ID, counter))
      /\ AbsorbKey(Plain(c), K, ID, counter) = Plain(AbsorbKey(c, K, ID, counter))
  BY <1>1, KeyAbsorbed
<1> QED BY <1>1, <1>3, <1>4, <1>5

\* The first bytes of what was added are those of the output.
Overwritten(c) == \A p \in 1 .. lRatchet : c.added[p] = Output(c, lRatchet)[p]

LEMMA OneBlock ==
  ASSUME NEW n \in Nat \ {0}, NEW r \in Nat \ {0}, n <= r
  PROVE  Blocks(n, r) = 1 /\ SizeOf(n, r, 1) = n
<1>1. (n + r - 1) \div r = 1
  <2> DEFINE p == n - 1
  <2>1. p \in 0 .. r - 1 /\ n + r - 1 = 1 * r + p
    OBVIOUS
  <2> HIDE DEF p
  <2>2. (1 * r + p) \div r = 1
    BY <2>1, Divided
  <2> QED BY <2>1, <2>2
<1>2. Blocks(n, r) = 1
  BY <1>1 DEF Blocks
<1>3. SizeOf(n, r, 1) = n
  <2>1. (1 - 1) * r = 0
    OBVIOUS
  <2> QED BY <2>1 DEF SizeOf
<1> QED BY <1>2, <1>3

\* What a ratchet absorbs is output that was not given.
LEMMA RatchetSteps ==
  ASSUME NEW c, IsCyc(c), c.mode = "Keyed"
  PROVE  \E X : /\ Ratchet(c) = Down(Up(c, 16), X, 0)
                /\ IsSeq(X) /\ Len(X) = lRatchet
                /\ \A p \in 1 .. lRatchet : X[p] = {<<Up(c, 16).s, p>>}
<1> DEFINE q == SqueezeAny(c, lRatchet, 16)
           d == q.c
           O == q.O
           e == AbsorbAny(d, O, Rkin, 0)
           n == lRatchet
           X == Block(O, Rkin, 1)
<1>1. /\ n \in Nat \ {0} /\ Rkin \in Nat \ {0} /\ Rkout \in Nat \ {0} /\ n <= Rkout /\ n <= Rkin
      /\ Rkin < bPrime - 1 /\ bPrime \in Nat
  BY Sizes
<1>2. c.Rsqueeze = Rkout /\ c.Rabsorb = Rkin
  BY RatesOf
<1>3. Follows(c, d) /\ d.phase = "Up" /\ d.added = Nothing /\ IsSeq(O) /\ Len(O) = n
  <2>1. Squeezed(q, c, n)
    BY <1>1, Squeezing
  <2> QED BY <2>1 DEF Squeezed
<1>4. Ratchet(c) = e
  BY <1>2 DEF Ratchet
<1>5. d = Up(c, 16) /\ \A p \in 1 .. n : O[p] = {<<d.s, p>>}
  <2>1. PICK f : SqueezedBy(q, f, c, n, 16)
    BY <1>1, SqueezeBy
  <2>2. Blocks(n, Rkout) = 1 /\ SizeOf(n, Rkout, 1) = n
    BY <1>1, OneBlock
  <2> DEFINE B == [k \in 1 .. 1 |-> Output(f[k], SizeOf(n, Rkout, k))]
  <2> HIDE DEF q
  <2>3. q = [c |-> f[1], O |-> O] /\ MadeOf(O, B, n, Rkout) /\ OutRun(f, c, 16, 1)
    BY <1>2, <2>1, <2>2 DEF SqueezedBy
  <2>4. d = f[1] /\ B[1] = Output(f[1], n)
    BY <2>2, <2>3
  <2>5. d = Up(c, 16)
    <3>1. f[0] = c /\ f[1] = OutPlainly(f[1 - 1], 16, 1)
      BY <2>3 DEF OutRun
    <3>2. 1 - 1 = 0
      OBVIOUS
    <3> QED BY <2>4, <3>1, <3>2 DEF OutPlainly
  <2> HIDE DEF B, d, O
  <2>6. ASSUME NEW p \in 1 .. n PROVE O[p] = {<<d.s, p>>}
    <3>1. O[(1 - 1) * Rkout + p] = B[1][p]
      BY <2>2, <2>3 DEF MadeOf
    <3>2. (1 - 1) * Rkout + p = p
      BY <1>1
    <3>3. Output(d, n)[p] = {<<d.s, p>>}
      BY <1>1, OutputIs
    <3> QED BY <2>4, <3>1, <3>2, <3>3
  <2> QED BY <2>5, <2>6
<1> HIDE DEF d, O
<1>6. e = Down(d, X, 0)
  <2>1. Blocks(Len(O), Rkin) = 1
    BY <1>1, <1>3, OneBlock
  <2>2. PICK a : AbsorbRun(a, d, O, Rkin, 0, 1) /\ e = a[1]
    BY <2>1, AbsorbAnyRuns
  <2>3. a[0] = d /\ a[1] = AbsorbBlock(a[1 - 1], O, Rkin, 0, 1)
    BY <2>2 DEF AbsorbRun
  <2>4. 1 - 1 = 0
    OBVIOUS
  <2>5. e = AbsorbBlock(d, O, Rkin, 0, 1)
    BY <2>2, <2>3, <2>4
  <2>6. AbsorbBlock(d, O, Rkin, 0, 1) = Down(d, X, ColorOf(0, 1))
    BY <1>3 DEF AbsorbBlock
  <2>7. ColorOf(0, 1) = 0
    BY DEF ColorOf
  <2> QED BY <2>5, <2>6, <2>7
<1>7. IsSeq(X) /\ Len(X) = n /\ \A p \in 1 .. n : X[p] = O[p]
  <2>1. Blocks(Len(O), Rkin) = 1 /\ SizeOf(Len(O), Rkin, 1) = n
    BY <1>1, <1>3, OneBlock
  <2>2. IsSeq(X) /\ Len(X) = n /\ \A p \in 1 .. n : X[p] = O[(1 - 1) * Rkin + p]
    <3>1. 1 \in 1 .. Blocks(Len(O), Rkin)
      BY <2>1
    <3> QED BY <1>1, <1>3, <2>1, <3>1, BlockIs
  <2>3. \A p \in 1 .. n : (1 - 1) * Rkin + p = p
    BY <1>1
  <2> QED BY <2>2, <2>3
<1> HIDE DEF X
<1> QED BY <1>4, <1>5, <1>6, <1>7

LEMMA Ratcheting ==
  ASSUME NEW c, IsCyc(c), c.mode = "Keyed"
  PROVE  /\ Follows(c, Ratchet(c)) /\ Ratchet(Plain(c)) = Plain(Ratchet(c))
         /\ Overwritten(Ratchet(c))
<1> DEFINE q == SqueezeAny(c, lRatchet, 16)
           d == q.c
           O == q.O
           e == AbsorbAny(d, O, Rkin, 0)
           n == lRatchet
<1>1. n \in Nat \ {0} /\ Rkin \in Nat \ {0} /\ n <= Rkin /\ Rkin < bPrime - 1 /\ bPrime \in Nat
  BY Sizes
<1>2. c.Rabsorb = Rkin /\ Plain(c).Rabsorb = Rkin
  BY RatesOf, PlainIs
<1>3. Follows(c, d) /\ IsSeq(O)
  <2>1. Squeezed(q, c, n)
    BY <1>1, Squeezing
  <2> QED BY <2>1 DEF Squeezed
<1>4. Ratchet(c) = e
  BY <1>2 DEF Ratchet
<1>5. Ratchet(Plain(c)) = Plain(e)
  <2>1. SqueezeAny(Plain(c), n, 16) = [c |-> Plain(d), O |-> O]
    BY <1>1, SqueezingPlainly
  <2>2. Ratchet(Plain(c)) = AbsorbAny(Plain(d), O, Rkin, 0)
    BY <1>2, <2>1 DEF Ratchet
  <2> HIDE DEF d, O
  <2>3. AbsorbAny(Plain(d), O, Rkin, 0) = Plain(AbsorbAny(d, O, Rkin, 0))
    BY <1>1, <1>3, Absorbing DEF Follows
  <2> QED BY <2>2, <2>3
<1>6. Follows(c, e)
  <2> HIDE DEF d, O
  <2>1. Follows(d, e)
    BY <1>1, <1>3, Absorbing DEF Follows
  <2> QED BY <1>3, <2>1, FollowsTwice
<1> HIDE DEF d, O, e
<1> DEFINE u == Up(c, 16)
<1>7. PICK X : /\ Ratchet(c) = Down(u, X, 0) /\ Len(X) = n
               /\ \A p \in 1 .. n : X[p] = {<<u.s, p>>}
  BY RatchetSteps
<1>8. IsCyc(u) /\ u.added = Nothing
  BY UpOf
<1> HIDE DEF u
<1>9. e.s = u.s /\ \E Cd : e.added = Padded(X, Cd)
  <2> DEFINE s == u.s
             a == u.added
             ph == u.phase
             m == u.mode
             k == u.kernels
             z == IF m = "Hash" THEN 0 % 2 ELSE 0
  <2>1. u = Cyc(s, a, ph, m, k) /\ a = Nothing
    BY <1>8 DEF IsCyc
  <2>2. e = Down(u, X, 0)
    BY <1>4, <1>7
  <2> HIDE DEF s, a, ph, m, k
  <2>3. e = Cyc(s, XorAll(a, Padded(X, z)), "Down", m, k)
    BY <2>1, <2>2, DownIs
  <2> HIDE DEF z
  <2>4. e = Cyc(s, Padded(X, z), "Down", m, k)
    BY <2>1, <2>3, UnitsAdded
  <2>5. e.s = s /\ e.added = Padded(X, z)
    BY <2>4, CycFields
  <2> QED BY <2>5 DEF s
<1>10. Overwritten(e)
  <2> SUFFICES ASSUME NEW p \in 1 .. n PROVE e.added[p] = Output(e, n)[p]
    BY DEF Overwritten
  <2>1. Output(e, n)[p] = {<<e.s, p>>}
    BY <1>1, OutputIs
  <2>2. p \in 1 .. bPrime /\ p <= n
    BY <1>1
  <2>3. e.added[p] = X[p]
    BY <1>7, <1>9, <2>2 DEF Padded
  <2> QED BY <1>7, <1>9, <2>1, <2>3
<1> QED BY <1>4, <1>5, <1>6, <1>10

-----------------------------------------------------------------------------
(* What an instance has been told leads to its state.                      *)

\* The instance after an event, on an implementation without the kernels.
AfterEvent(c, e) ==
  IF e[1] = "absorb" THEN Absorb(c, e[2])
  ELSE IF e[1] = "crypt" THEN Encrypt(c, e[2]).c
  ELSE IF e[1] = "squeeze" THEN Squeeze(c, e[2] * c.Rsqueeze).c
  ELSE IF e[1] = "squeezeKey" THEN SqueezeKey(c, e[2] * c.Rsqueeze).c
  ELSE Ratchet(c)

StartedBy(e) == PlainStart(e[2].K, e[2].ID, e[2].counter)

\* The instances f lead from the first event of L, which starts it, to c.
Leads(f, L, c) ==
  /\ f[1] = StartedBy(L[1]) /\ f[Len(L)] = c
  /\ \A k \in 1 .. Len(L) - 1 : f[k + 1] = AfterEvent(f[k], L[k + 1])

Trace(L, c) == IsSeq(L) /\ Len(L) # 0 /\ \E f : Leads(f, L, c)

LEMMA TraceGrows ==
  ASSUME NEW L, NEW c, Trace(L, c), NEW e
  PROVE  Trace(Append(L, e), AfterEvent(c, e)) /\ Last(Append(L, e)) = e
<1> DEFINE n == Len(L)
           M == Append(L, e)
<1>1. /\ n \in Nat \ {0} /\ IsSeq(M) /\ Len(M) = n + 1
      /\ (\A i \in 1 .. n : M[i] = L[i]) /\ M[n + 1] = e
  BY SeqLength, Extended DEF Trace
<1>2. PICK f : Leads(f, L, c)
  BY DEF Trace
<1> DEFINE d == AfterEvent(c, e)
           g == [k \in 1 .. n + 1 |-> IF k = n + 1 THEN d ELSE f[k]]
<1> HIDE DEF n, M, d
<1>3. /\ f[1] = StartedBy(L[1]) /\ f[n] = c
      /\ \A k \in 1 .. n - 1 : f[k + 1] = AfterEvent(f[k], L[k + 1])
  BY <1>2 DEF Leads, n
<1>4. g[n + 1] = d /\ \A k \in 1 .. n : g[k] = f[k]
  BY <1>1
<1> HIDE DEF g
<1>5. g[1] = StartedBy(M[1])
  BY <1>1, <1>3, <1>4
<1>6. \A k \in 1 .. (n + 1) - 1 : g[k + 1] = AfterEvent(g[k], M[k + 1])
  <2> TAKE k \in 1 .. (n + 1) - 1
  <2> DEFINE l == k + 1
  <2>1. k \in 1 .. n /\ (k = n \/ (k \in 1 .. n - 1 /\ l \in 1 .. n))
    BY <1>1
  <2>2. CASE k = n
    <3>1. l = n + 1
      BY <2>2
    <3> HIDE DEF l
    <3>2. g[l] = d /\ g[k] = c /\ M[l] = e
      BY <1>1, <1>3, <1>4, <2>1, <2>2, <3>1
    <3>3. g[l] = AfterEvent(g[k], M[l])
      BY <3>2 DEF d
    <3> QED BY <3>3 DEF l
  <2>3. CASE k \in 1 .. n - 1 /\ l \in 1 .. n
    <3>1. f[l] = AfterEvent(f[k], L[l])
      BY <1>3, <2>3
    <3> HIDE DEF l
    <3>2. g[l] = f[l] /\ g[k] = f[k] /\ M[l] = L[l]
      BY <1>1, <1>4, <2>1, <2>3
    <3>3. g[l] = AfterEvent(g[k], M[l])
      BY <3>1, <3>2
    <3> QED BY <3>3 DEF l
  <2> QED BY <2>1, <2>2, <2>3
<1>7. Leads(g, M, d)
  BY <1>1, <1>4, <1>5, <1>6 DEF Leads
<1>8. Trace(M, d)
  BY <1>1, <1>7 DEF Trace
<1>9. Last(M) = e
  BY <1>1 DEF Last
<1> QED BY <1>8, <1>9 DEF M, d

LEMMA TraceOnce ==
  ASSUME NEW L, NEW c, Trace(L, c), NEW d, Trace(L, d)
  PROVE  c = d
<1> DEFINE n == Len(L)
<1>1. n \in Nat \ {0}
  BY SeqLength DEF Trace
<1>2. PICK f : Leads(f, L, c)
  BY DEF Trace
<1>3. PICK g : Leads(g, L, d)
  BY DEF Trace
<1> HIDE DEF n
<1> DEFINE T == {k \in Nat : k + 1 <= n => f[k + 1] = g[k + 1]}
<1>4. 0 \in T
  BY <1>2, <1>3 DEF Leads
<1>5. \A k \in Nat : k \in T => k + 1 \in T
  <2> SUFFICES ASSUME NEW k \in Nat, k \in T, (k + 1) + 1 <= n PROVE f[(k + 1) + 1] = g[(k + 1) + 1]
    OBVIOUS
  <2> DEFINE l == k + 1
  <2>1. l \in 1 .. n - 1
    BY <1>1
  <2>2. f[l] = g[l]
    BY <1>1
  <2> HIDE DEF l
  <2>3. f[l + 1] = AfterEvent(f[l], L[l + 1]) /\ g[l + 1] = AfterEvent(g[l], L[l + 1])
    BY <1>2, <1>3, <2>1 DEF Leads, n
  <2>4. f[l + 1] = g[l + 1]
    BY <2>2, <2>3
  <2> QED BY <2>4 DEF l
<1>6. \A k \in Nat : k \in T
  <2> HIDE DEF T
  <2> QED BY <1>4, <1>5, Induction
<1> DEFINE p == n - 1
<1>7. p \in Nat /\ p + 1 = n
  BY <1>1
<1>8. f[n] = g[n]
  <2> HIDE DEF p
  <2> QED BY <1>1, <1>6, <1>7
<1> QED BY <1>2, <1>3, <1>8 DEF Leads, n

LEMMA FreshJoined ==
  ASSUME NEW g, IsSeq(g), NEW U, IsSeq(U), NEW l \in Nat, NEW m \in Nat, NEW u \in Nat,
         l <= m, m <= u, Fresh(g, l, m), Fresh(U, m, u)
  PROVE  IsSeq(g \o U) /\ Fresh(g \o U, l, u)
<1> DEFINE a == Len(g)
           b == Len(U)
           x == g \o U
<1>1. /\ a \in Nat /\ b \in Nat /\ IsSeq(x) /\ Len(x) = a + b
      /\ \A i \in 1 .. a + b : x[i] = IF i <= a THEN g[i] ELSE U[i - a]
  BY SeqLength, Joined
<1>2. /\ \A p \in 1 .. a :
           \E s, j : g[p] = {<<s, j>>} /\ Len(s) \in Nat /\ l < Len(s) /\ Len(s) <= m
      /\ \A p, q \in 1 .. a : g[p] = g[q] => p = q
  BY DEF Fresh
<1>3. /\ \A p \in 1 .. b :
           \E s, j : U[p] = {<<s, j>>} /\ Len(s) \in Nat /\ m < Len(s) /\ Len(s) <= u
      /\ \A p, q \in 1 .. b : U[p] = U[q] => p = q
  BY DEF Fresh
<1> HIDE DEF a, b, x
<1>4. ASSUME NEW p \in 1 .. a + b
      PROVE  \E s, j : x[p] = {<<s, j>>} /\ Len(s) \in Nat /\ l < Len(s) /\ Len(s) <= u
  <2>1. CASE p <= a
    <3>1. x[p] = g[p] /\ p \in 1 .. a
      BY <1>1, <2>1
    <3>2. PICK s, j : g[p] = {<<s, j>>} /\ Len(s) \in Nat /\ l < Len(s) /\ Len(s) <= m
      BY <1>2, <3>1
    <3>3. Len(s) <= u
      BY <3>2
    <3> QED BY <3>1, <3>2, <3>3
  <2>2. CASE ~(p <= a)
    <3>1. x[p] = U[p - a] /\ p - a \in 1 .. b
      BY <1>1, <2>2
    <3>2. PICK s, j : U[p - a] = {<<s, j>>} /\ Len(s) \in Nat /\ m < Len(s) /\ Len(s) <= u
      BY <1>3, <3>1
    <3>3. l < Len(s)
      BY <3>2
    <3> QED BY <3>1, <3>2, <3>3
  <2> QED BY <2>1, <2>2
<1>5. ASSUME NEW p \in 1 .. a, NEW q \in 1 .. b
      PROVE  g[p] # U[q]
  <2>1. PICK s, j : g[p] = {<<s, j>>} /\ Len(s) \in Nat /\ Len(s) <= m
    BY <1>2
  <2>2. PICK t, i : U[q] = {<<t, i>>} /\ Len(t) \in Nat /\ m < Len(t)
    BY <1>3
  <2>3. ASSUME g[p] = U[q] PROVE s = t
    <3>1. <<s, j>> = <<t, i>>
      BY <2>1, <2>2, <2>3
    <3> QED BY <3>1
  <2>4. Len(s) # Len(t)
    BY <2>1, <2>2
  <2> QED BY <2>3, <2>4
<1>6. ASSUME NEW p \in 1 .. a + b, NEW q \in 1 .. a + b, x[p] = x[q]
      PROVE  p = q
  <2>1. CASE p <= a /\ q <= a
    <3>1. p \in 1 .. a /\ q \in 1 .. a /\ g[p] = g[q]
      BY <1>1, <1>6, <2>1
    <3> QED BY <1>2, <3>1
  <2>2. CASE p <= a /\ ~(q <= a)
    <3>1. p \in 1 .. a /\ q - a \in 1 .. b /\ g[p] = U[q - a]
      BY <1>1, <1>6, <2>2
    <3> QED BY <1>5, <3>1
  <2>3. CASE ~(p <= a) /\ q <= a
    <3>1. q \in 1 .. a /\ p - a \in 1 .. b /\ g[q] = U[p - a]
      BY <1>1, <1>6, <2>3
    <3> QED BY <1>5, <3>1
  <2>4. CASE ~(p <= a) /\ ~(q <= a)
    <3>1. q - a \in 1 .. b /\ p - a \in 1 .. b /\ U[p - a] = U[q - a]
      BY <1>1, <1>6, <2>4
    <3>2. p - a = q - a
      BY <1>3, <3>1
    <3> QED BY <1>1, <3>2
  <2> QED BY <2>1, <2>2, <2>3, <2>4
<1>7. Fresh(x, l, u)
  BY <1>1, <1>4, <1>6 DEF Fresh
<1> QED BY <1>1, <1>7 DEF x

LEMMA FreshStays ==
  ASSUME NEW g, NEW l \in Nat, NEW m \in Nat, NEW u \in Nat, m <= u, Fresh(g, l, m)
  PROVE  Fresh(g, l, u)
<1>1. ASSUME NEW p \in 1 .. Len(g)
      PROVE  \E s, j : g[p] = {<<s, j>>} /\ Len(s) \in Nat /\ l < Len(s) /\ Len(s) <= u
  <2>1. PICK s, j : g[p] = {<<s, j>>} /\ Len(s) \in Nat /\ l < Len(s) /\ Len(s) <= m
    BY DEF Fresh
  <2>2. Len(s) <= u
    BY <2>1
  <2> QED BY <2>1, <2>2
<1> QED BY <1>1 DEF Fresh

-----------------------------------------------------------------------------
(* The calls of the session.                                               *)

\* What call and event e do to the instance c, which becomes d.
Kept(c, d, e) ==
  /\ Follows(c, d) /\ Plain(d) = AfterEvent(Plain(c), e)
  /\ e[1] = "ratchet" => Overwritten(d)

\* The output O of instance c for the input I, as that without the kernels gives it.
Answers(c, op, I, O) ==
  \/ op = "encrypt" /\ IsSeq(I) /\ IsSeq(O) /\ O = Encrypt(c, I).O
  \/ op = "decrypt" /\ IsSeq(I) /\ O = Decrypt(c, I).O
  \/ op = "squeeze" /\ O = Squeeze(c, I).O
  \/ op = "squeezeKey" /\ O = SqueezeKey(c, I).O

\* Units of output given by the step from c to d.
Gave(c, d, U) == IsSeq(U) /\ Fresh(U, Len(c.s), Len(d.s))

LEMMA AbsorbTold ==
  ASSUME NEW c, IsCyc(c), NEW X, IsSeq(X)
  PROVE  Kept(c, Absorb(c, X), <<"absorb", X>>)
<1> DEFINE r == c.Rabsorb
           d == AbsorbAny(c, X, r, 3)
<1>1. r \in Nat \ {0} /\ Plain(c).Rabsorb = r
  BY RatesOf, PlainIs
<1>2. Absorb(c, X) = d /\ AfterEvent(Plain(c), <<"absorb", X>>) = AbsorbAny(Plain(c), X, r, 3)
  BY <1>1 DEF Absorb, AfterEvent
<1> HIDE DEF r
<1>3. Follows(c, d) /\ AbsorbAny(Plain(c), X, r, 3) = Plain(d)
  BY <1>1, Absorbing
<1> HIDE DEF d
<1>4. Kept(c, d, <<"absorb", X>>)
  BY <1>2, <1>3 DEF Kept
<1> QED BY <1>2, <1>4

LEMMA RatchetTold ==
  ASSUME NEW c, IsCyc(c), c.mode = "Keyed"
  PROVE  Kept(c, Ratchet(c), <<"ratchet">>)
<1>1. AfterEvent(Plain(c), <<"ratchet">>) = Ratchet(Plain(c))
  BY DEF AfterEvent
<1>2. Follows(c, Ratchet(c)) /\ Ratchet(Plain(c)) = Plain(Ratchet(c)) /\ Overwritten(Ratchet(c))
  BY Ratcheting
<1> QED BY <1>1, <1>2 DEF Kept

LEMMA CryptEvent ==
  \A c, P : AfterEvent(c, <<"crypt", P>>) = Encrypt(c, P).c
BY DEF AfterEvent

LEMMA SqueezeEvents ==
  \A c, b : /\ AfterEvent(c, <<"squeeze", b>>) = Squeeze(c, b * c.Rsqueeze).c
            /\ AfterEvent(c, <<"squeezeKey", b>>) = SqueezeKey(c, b * c.Rsqueeze).c
BY DEF AfterEvent

LEMMA EncryptTold ==
  ASSUME NEW c, IsCyc(c), NEW P, IsSeq(P)
  PROVE  LET q == Encrypt(c, P)
         IN  /\ Kept(c, q.c, <<"crypt", P>>)
             /\ Answers(Plain(c), "encrypt", P, q.O) /\ Gave(c, q.c, XorAll(P, q.O))
<1> DEFINE q == Encrypt(c, P)
<1>1. PICK no \in BOOLEAN : no = FALSE
  OBVIOUS
<1>2. \A d, I : Encrypt(d, I) = Crypt(d, I, no)
  BY <1>1, Zenon DEF Encrypt
<1>3. Crypted(q, c, P)
  BY <1>2, Crypting
<1>4. Encrypt(Plain(c), P) = [c |-> Plain(q.c), O |-> q.O]
  BY <1>2, CryptingPlainly
<1> HIDE DEF q
<1> DEFINE e == <<"crypt", P>>
<1>5. AfterEvent(Plain(c), e) = Plain(q.c)
  BY <1>4, CryptEvent
<1>6. e[1] # "ratchet"
  OBVIOUS
<1> HIDE DEF e
<1>7. Kept(c, q.c, e)
  BY <1>3, <1>5, <1>6 DEF Kept, Crypted
<1>8. Answers(Plain(c), "encrypt", P, q.O)
  BY <1>3, <1>4 DEF Answers, Crypted
<1>9. Gave(c, q.c, XorAll(P, q.O))
  BY <1>3, XorIs DEF Gave, Crypted
<1> QED BY <1>7, <1>8, <1>9 DEF q, e

LEMMA DecryptTold ==
  ASSUME NEW c, IsCyc(c), NEW C, IsSeq(C)
  PROVE  LET q == Decrypt(c, C)
         IN  /\ Kept(c, q.c, <<"crypt", q.O>>)
             /\ Answers(Plain(c), "decrypt", C, q.O) /\ Gave(c, q.c, XorAll(C, q.O))
<1> DEFINE q == Decrypt(c, C)
<1>1. PICK no \in BOOLEAN, yes \in BOOLEAN : no = FALSE /\ yes = TRUE /\ no # yes
  OBVIOUS
<1>2. \A d, I : Encrypt(d, I) = Crypt(d, I, no) /\ Decrypt(d, I) = Crypt(d, I, yes)
  BY <1>1, Zenon DEF Encrypt, Decrypt
<1>3. Crypted(q, c, C)
  BY <1>2, Crypting
<1>4. Decrypt(Plain(c), C) = [c |-> Plain(q.c), O |-> q.O]
  BY <1>2, CryptingPlainly
<1>5. Encrypt(Plain(c), q.O) = [c |-> Plain(q.c), O |-> C]
  <2> DEFINE p == Plain(c)
             u == Crypt(p, C, yes)
  <2>1. IsCyc(p)
    BY PlainIs
  <2>2. u = [c |-> Plain(q.c), O |-> q.O]
    BY <1>2, <1>4
  <2> HIDE DEF p, q
  <2>3. Crypt(p, u.O, no) = [c |-> u.c, O |-> C]
    BY <1>1, <2>1, CryptingBack
  <2> HIDE DEF u
  <2>4. u.O = q.O /\ u.c = Plain(q.c)
    BY <2>2
  <2>5. Encrypt(p, q.O) = [c |-> Plain(q.c), O |-> C]
    BY <1>2, <2>3, <2>4
  <2> QED BY <2>5 DEF p
<1> HIDE DEF q
<1> DEFINE e == <<"crypt", q.O>>
<1>6. AfterEvent(Plain(c), e) = Plain(q.c)
  BY <1>5, CryptEvent
<1>7. e[1] # "ratchet"
  OBVIOUS
<1> HIDE DEF e
<1>8. Kept(c, q.c, e)
  BY <1>3, <1>6, <1>7 DEF Kept, Crypted
<1>9. Answers(Plain(c), "decrypt", C, q.O)
  BY <1>4 DEF Answers
<1>10. Gave(c, q.c, XorAll(C, q.O))
  BY <1>3, XorIs DEF Gave, Crypted
<1> QED BY <1>8, <1>9, <1>10 DEF q, e

\* Squeezing with either color.
LEMMA SqueezeTold ==
  ASSUME NEW c, IsCyc(c), NEW n \in Nat, NEW Cu
  PROVE  LET q == SqueezeAny(c, n, Cu)
         IN  /\ Follows(c, q.c) /\ Gave(c, q.c, q.O)
             /\ SqueezeAny(Plain(c), n, Cu) = [c |-> Plain(q.c), O |-> q.O]
             /\ SqueezeAny(Plain(c), Blocks(n, c.Rsqueeze) * Plain(c).Rsqueeze, Cu).c = Plain(q.c)
<1> DEFINE q == SqueezeAny(c, n, Cu)
           p == Plain(c)
<1>1. Follows(c, q.c) /\ Gave(c, q.c, q.O)
  BY Squeezing DEF Squeezed, Gave
<1>2. SqueezeAny(p, n, Cu) = [c |-> Plain(q.c), O |-> q.O]
  BY SqueezingPlainly
<1>3. IsCyc(p) /\ p.Rsqueeze = c.Rsqueeze
  BY PlainIs
<1> HIDE DEF q, p
<1>4. SqueezeAny(p, Blocks(n, p.Rsqueeze) * p.Rsqueeze, Cu).c = SqueezeAny(p, n, Cu).c
  BY <1>3, SqueezedInBlocks
<1>5. SqueezeAny(p, n, Cu).c = Plain(q.c)
  BY <1>2
<1> QED BY <1>1, <1>2, <1>3, <1>4, <1>5 DEF q, p

\* Same state, same call, same output; and there and back again.
LEMMA AnswersOnce ==
  ASSUME NEW c, NEW op, NEW I, NEW O, Answers(c, op, I, O), NEW P, Answers(c, op, I, P)
  PROVE  O = P
BY DEF Answers

LEMMA AnswersBack ==
  ASSUME NEW c, IsCyc(c), NEW I, NEW O, Answers(c, "encrypt", I, O),
         NEW J, NEW P, Answers(c, "decrypt", J, P)
  PROVE  O = J <=> I = P
<1>1. IsSeq(I) /\ O = Encrypt(c, I).O /\ IsSeq(J) /\ P = Decrypt(c, J).O
  BY DEF Answers
<1>2. PICK no \in BOOLEAN, yes \in BOOLEAN : no = FALSE /\ yes = TRUE /\ no # yes
  OBVIOUS
<1>3. \A d, X : Encrypt(d, X) = Crypt(d, X, no) /\ Decrypt(d, X) = Crypt(d, X, yes)
  BY <1>2, Zenon DEF Encrypt, Decrypt
<1> DEFINE u == Crypt(c, I, no)
           v == Crypt(c, J, yes)
<1>4. O = u.O /\ P = v.O
  BY <1>1, <1>3
<1>5. Crypt(c, u.O, yes) = [c |-> u.c, O |-> I] /\ Crypt(c, v.O, no) = [c |-> v.c, O |-> J]
  BY <1>1, <1>2, CryptingBack
<1> HIDE DEF u, v
<1>6. ASSUME O = J PROVE I = P
  <2>1. v = [c |-> u.c, O |-> I]
    BY <1>4, <1>5, <1>6 DEF v
  <2> QED BY <1>4, <2>1
<1>7. ASSUME I = P PROVE O = J
  <2>1. u = [c |-> v.c, O |-> J]
    BY <1>4, <1>5, <1>7 DEF u
  <2> QED BY <1>4, <2>1
<1> QED BY <1>6, <1>7

-----------------------------------------------------------------------------
(* The invariant of the session.                                           *)

\* An instance c that has been told L and has given the units g.
InstanceInv(c, L, g) ==
  /\ IsCyc(c) /\ Trace(L, Plain(c))
  /\ IsSeq(g) /\ Fresh(g, 0, Len(c.s))
  /\ Last(L)[1] = "ratchet" => Overwritten(c)

\* A call with output is answered by the state that its log leads to.
CallInv(x) ==
  \E c : IsCyc(c) /\ Trace(x.log, c) /\ Answers(c, x.op, x.I, x.O)

Pairs(f) == f = [i \in 1 .. 2 |-> f[i]]

SessionInv ==
  /\ Pairs(inst) /\ Pairs(log) /\ Pairs(given)
  /\ \A i \in 1 .. 2 : InstanceInv(inst[i], log[i], given[i])
  /\ \A x \in done : CallInv(x)

LEMMA Started ==
  ASSUME NEW kernels \in BOOLEAN, NEW start \in [K : Data, ID : Data, counter : Data]
  PROVE  InstanceInv(Initialize(kernels, start.K, start.ID, start.counter),
                     <<<<"start", start>>>>, <<>>)
<1> DEFINE c == Initialize(kernels, start.K, start.ID, start.counter)
           e == <<"start", start>>
           L == <<e>>
<1>1. IsSeq(start.K) /\ IsSeq(start.ID) /\ IsSeq(start.counter)
  <2>1. start.K \in Data /\ start.ID \in Data /\ start.counter \in Data
    OBVIOUS
  <2> QED BY <2>1 DEF Data, IsSeq
<1>2. IsCyc(c) /\ PlainStart(start.K, start.ID, start.counter) = Plain(c)
  <2> DEFINE K == start.K
             ID == start.ID
             counter == start.counter
             d == Initialize(kernels, K, ID, counter)
  <2>1. IsSeq(K) /\ IsSeq(ID) /\ IsSeq(counter)
    BY <1>1
  <2> HIDE DEF K, ID, counter
  <2>2. IsCyc(d) /\ PlainStart(K, ID, counter) = Plain(d)
    BY <2>1, Starting
  <2> QED BY <2>2 DEF K, ID, counter
<1>4. StartedBy(e) = Plain(c)
  <2>1. e[2] = start
    OBVIOUS
  <2> HIDE DEF e, c
  <2> QED BY <1>2, <2>1 DEF StartedBy
<1>5. e[1] # "ratchet"
  OBVIOUS
<1> HIDE DEF c, e
<1>6. Len(L) = 1 /\ L[1] = e /\ Last(L) = e /\ IsSeq(L)
  <2>1. L \in Seq({e}) /\ Len(L) = 1 /\ L[1] = e
    OBVIOUS
  <2> QED BY <2>1 DEF IsSeq, Last
<1> HIDE DEF L
<1>7. Trace(L, Plain(c))
  <2> DEFINE f == [k \in 1 .. 1 |-> Plain(c)]
  <2>1. f[1] = Plain(c) /\ 1 .. 1 - 1 = {}
    OBVIOUS
  <2> HIDE DEF f
  <2>2. Leads(f, L, Plain(c))
    BY <1>4, <1>6, <2>1 DEF Leads
  <2> QED BY <1>6, <2>2 DEF Trace
<1>8. IsSeq(<<>>) /\ Fresh(<<>>, 0, Len(c.s))
  <2>1. Len(<<>>) = 0 /\ 1 .. 0 = {}
    BY EmptyIs
  <2> QED BY <2>1, EmptyIs DEF Fresh
<1>9. InstanceInv(c, L, <<>>)
  BY <1>2, <1>5, <1>6, <1>7, <1>8 DEF InstanceInv
<1> QED BY <1>9 DEF c, e, L

LEMMA InstanceKept ==
  ASSUME NEW c, NEW L, NEW g, InstanceInv(c, L, g), NEW d, NEW e, Kept(c, d, e)
  PROVE  /\ InstanceInv(d, Append(L, e), g)
         /\ \A U : Gave(c, d, U) => InstanceInv(d, Append(L, e), g \o U)
<1>1. IsCyc(d) /\ Len(c.s) \in Nat /\ Len(d.s) \in Nat /\ Len(c.s) <= Len(d.s)
  BY DEF Kept, Follows
<1>2. Trace(Append(L, e), Plain(d)) /\ Last(Append(L, e)) = e
  <2>1. Trace(L, Plain(c)) /\ Plain(d) = AfterEvent(Plain(c), e)
    BY DEF InstanceInv, Kept
  <2> QED BY <2>1, TraceGrows
<1>3. IsSeq(g) /\ Fresh(g, 0, Len(c.s)) /\ (e[1] = "ratchet" => Overwritten(d))
  BY DEF InstanceInv, Kept
<1>4. Fresh(g, 0, Len(d.s))
  BY <1>1, <1>3, FreshStays
<1>5. ASSUME NEW U, Gave(c, d, U) PROVE IsSeq(g \o U) /\ Fresh(g \o U, 0, Len(d.s))
  BY <1>1, <1>3, <1>5, FreshJoined DEF Gave
<1> QED BY <1>1, <1>2, <1>3, <1>4, <1>5 DEF InstanceInv

\* A call without output, and one with output.
LEMMA QuietStep ==
  ASSUME SessionInv, NEW i \in 1 .. 2, NEW d, NEW e, Kept(inst[i], d, e),
         Calls(i, d, e), UNCHANGED <<done, given>>
  PROVE  SessionInv'
<1>1. InstanceInv(d, Append(log[i], e), given[i])
  BY InstanceKept DEF SessionInv
<1>2. /\ inst'[i] = d /\ log'[i] = Append(log[i], e)
      /\ \A j \in 1 .. 2 : j # i => inst'[j] = inst[j] /\ log'[j] = log[j]
      /\ Pairs(inst') /\ Pairs(log')
  BY DEF Calls, SessionInv, Pairs
<1>3. given' = given /\ done' = done
  OBVIOUS
<1>4. \A j \in 1 .. 2 : InstanceInv(inst'[j], log'[j], given'[j])
  <2> TAKE j \in 1 .. 2
  <2>1. InstanceInv(inst[j], log[j], given[j])
    BY DEF SessionInv
  <2> QED BY <1>1, <1>2, <1>3, <2>1
<1>5. Pairs(given') /\ \A x \in done' : CallInv(x)
  BY <1>3 DEF SessionInv
<1> QED BY <1>2, <1>4, <1>5 DEF SessionInv

LEMMA GivingStep ==
  ASSUME SessionInv, NEW i \in 1 .. 2, NEW d, NEW e, Kept(inst[i], d, e), Calls(i, d, e),
         NEW op, NEW I, NEW O, Answers(Plain(inst[i]), op, I, O),
         NEW U, Gave(inst[i], d, U), Gives(i, op, I, O, U)
  PROVE  SessionInv'
<1> DEFINE c == inst[i]
<1>0. InstanceInv(c, log[i], given[i])
  BY DEF SessionInv
<1>1. InstanceInv(d, Append(log[i], e), given[i] \o U)
  BY <1>0, InstanceKept
<1>2. /\ inst'[i] = d /\ log'[i] = Append(log[i], e)
      /\ \A j \in 1 .. 2 : j # i => inst'[j] = inst[j] /\ log'[j] = log[j]
      /\ Pairs(inst') /\ Pairs(log')
  BY DEF Calls, SessionInv, Pairs
<1>3. /\ given'[i] = given[i] \o U /\ Pairs(given')
      /\ \A j \in 1 .. 2 : j # i => given'[j] = given[j]
  BY DEF Gives, SessionInv, Pairs
<1>4. \A j \in 1 .. 2 : InstanceInv(inst'[j], log'[j], given'[j])
  <2> TAKE j \in 1 .. 2
  <2>1. InstanceInv(inst[j], log[j], given[j])
    BY DEF SessionInv
  <2> QED BY <1>1, <1>2, <1>3, <2>1
<1>5. \A x \in done' : CallInv(x)
  <2> DEFINE y == [by |-> i, log |-> log[i], op |-> op, I |-> I, O |-> O]
  <2>1. done' = done \cup {y}
    BY DEF Gives
  <2>2. y.log = log[i] /\ y.op = op /\ y.I = I /\ y.O = O
    OBVIOUS
  <2>3. IsCyc(Plain(c)) /\ Trace(log[i], Plain(c))
    BY <1>0, PlainIs DEF InstanceInv
  <2> HIDE DEF y
  <2>4. CallInv(y)
    BY <2>2, <2>3 DEF CallInv
  <2> QED BY <2>1, <2>4 DEF SessionInv
<1> QED BY <1>2, <1>3, <1>4, <1>5 DEF SessionInv

LEMMA SessionInvInit == Init => SessionInv
<1> SUFFICES ASSUME NEW kernels \in Kernels, NEW start \in Starts,
                    inst = [i \in 1 .. 2 |->
                              Initialize(kernels[i], start[i].K, start[i].ID, start[i].counter)],
                    log = [i \in 1 .. 2 |-> <<<<"start", start[i]>>>>],
                    done = {}, given = <<<<>>, <<>>>>
             PROVE  SessionInv
  BY DEF Init
<1>1. ASSUME NEW i \in 1 .. 2
      PROVE  kernels[i] \in BOOLEAN /\ start[i] \in [K : Data, ID : Data, counter : Data]
  <2> DEFINE S == {st \in [K : Data, ID : Data, counter : Data] : Fits(st)}
  <2>1. kernels \in BOOLEAN \X BOOLEAN
    BY CyclistSessionAssumption
  <2>2. start \in S \X S
    BY CyclistSessionAssumption
  <2> HIDE DEF S
  <2>3. i = 1 \/ i = 2
    OBVIOUS
  <2>4. kernels[i] \in BOOLEAN
    BY <2>1, <2>3
  <2>5. start[i] \in S
    BY <2>2, <2>3
  <2> QED BY <2>4, <2>5 DEF S
<1>2. ASSUME NEW i \in 1 .. 2 PROVE InstanceInv(inst[i], log[i], given[i])
  <2>1. /\ inst[i] = Initialize(kernels[i], start[i].K, start[i].ID, start[i].counter)
        /\ log[i] = <<<<"start", start[i]>>>>
    OBVIOUS
  <2>2. given[i] = <<>>
    <3>1. i = 1 \/ i = 2
      OBVIOUS
    <3> QED BY <3>1
  <2> QED BY <1>1, <2>1, <2>2, Started
<1>3. Pairs(inst) /\ Pairs(log)
  BY DEF Pairs
<1>4. Pairs(given)
  BY DEF Pairs
<1> QED BY <1>2, <1>3, <1>4 DEF SessionInv

LEMMA SessionInvStep == SessionInv /\ [Next]_vars => SessionInv'
<1> SUFFICES ASSUME SessionInv, [Next]_vars PROVE SessionInv'
  OBVIOUS
<1>1. \A i \in 1 .. 2 : IsCyc(inst[i])
  BY DEF SessionInv, InstanceInv
<1>2. \A X \in Strings : IsSeq(X)
  BY CyclistSessionAssumption DEF Data, IsSeq
<1>3. ASSUME NEW i \in 1 .. 2, NEW X \in Strings, DoAbsorb(i, X) PROVE SessionInv'
  <2>1. Kept(inst[i], Absorb(inst[i], X), <<"absorb", X>>)
    BY <1>1, <1>2, AbsorbTold
  <2>2. Calls(i, Absorb(inst[i], X), <<"absorb", X>>) /\ UNCHANGED <<done, given>>
    BY <1>3 DEF DoAbsorb
  <2> QED BY <2>1, <2>2, QuietStep
<1>4. ASSUME NEW i \in 1 .. 2, NEW P \in Strings, DoEncrypt(i, P) PROVE SessionInv'
  <2> DEFINE q == Encrypt(inst[i], P)
             e == <<"crypt", P>>
  <2>1. /\ Kept(inst[i], q.c, e)
        /\ Answers(Plain(inst[i]), "encrypt", P, q.O) /\ Gave(inst[i], q.c, XorAll(P, q.O))
    BY <1>1, <1>2, EncryptTold
  <2>2. Calls(i, q.c, e) /\ Gives(i, "encrypt", P, q.O, XorAll(P, q.O))
    BY <1>4 DEF DoEncrypt
  <2> HIDE DEF q, e
  <2> QED BY <2>1, <2>2, GivingStep
<1>5. ASSUME NEW C \in Strings \cup Ciphertexts, DoDecrypt(2, C) PROVE SessionInv'
  <2> DEFINE i == 2
             q == Decrypt(inst[i], C)
             e == <<"crypt", q.O>>
  <2>1. IsSeq(C)
    <3>1. CASE C \in Strings
      BY <1>2, <3>1
    <3>2. CASE C \in Ciphertexts
      <4>1. PICK x \in done : x.op = "encrypt" /\ C = x.O
        BY <3>2 DEF Ciphertexts
      <4>2. PICK c : Answers(c, x.op, x.I, x.O)
        BY DEF SessionInv, CallInv
      <4> QED BY <4>1, <4>2 DEF Answers
    <3> QED BY <3>1, <3>2
  <2>2. /\ Kept(inst[i], q.c, e)
        /\ Answers(Plain(inst[i]), "decrypt", C, q.O) /\ Gave(inst[i], q.c, XorAll(C, q.O))
    BY <1>1, <2>1, DecryptTold
  <2>3. Calls(i, q.c, e) /\ Gives(i, "decrypt", C, q.O, XorAll(C, q.O)) /\ i \in 1 .. 2
    BY <1>5 DEF DoDecrypt
  <2> HIDE DEF q, e, i
  <2> QED BY <2>2, <2>3, GivingStep
<1>6. ASSUME NEW i \in 1 .. 2, NEW n \in Lengths, DoSqueeze(i, n) PROVE SessionInv'
  <2> DEFINE c == inst[i]
             q == SqueezeAny(c, n, 64)
             b == Blocks(n, c.Rsqueeze)
             e == <<"squeeze", b>>
  <2>0. n \in Nat
    BY CyclistSessionAssumption
  <2>1. /\ Follows(c, q.c) /\ Gave(c, q.c, q.O)
        /\ SqueezeAny(Plain(c), n, 64) = [c |-> Plain(q.c), O |-> q.O]
        /\ SqueezeAny(Plain(c), b * Plain(c).Rsqueeze, 64).c = Plain(q.c)
    BY <1>1, <2>0, SqueezeTold
  <2>2. Squeeze(c, n) = q /\ \A d, m : Squeeze(d, m) = SqueezeAny(d, m, 64)
    BY DEF Squeeze
  <2>3. Calls(i, q.c, e) /\ Gives(i, "squeeze", n, q.O, q.O)
    BY <1>6, <2>2 DEF DoSqueeze
  <2> HIDE DEF q, b
  <2>4. AfterEvent(Plain(c), e) = Plain(q.c) /\ e[1] # "ratchet"
    BY <2>1, <2>2, SqueezeEvents
  <2> HIDE DEF c, e
  <2>5. Kept(c, q.c, e)
    BY <2>1, <2>4 DEF Kept
  <2>6. Answers(Plain(c), "squeeze", n, q.O)
    BY <2>1, <2>2 DEF Answers
  <2> QED BY <2>1, <2>3, <2>5, <2>6, GivingStep DEF c
<1>7. ASSUME NEW i \in 1 .. 2, NEW n \in Lengths, DoSqueezeKey(i, n) PROVE SessionInv'
  <2> DEFINE c == inst[i]
             q == SqueezeAny(c, n, 32)
             b == Blocks(n, c.Rsqueeze)
             e == <<"squeezeKey", b>>
  <2>0. n \in Nat
    BY CyclistSessionAssumption
  <2>1. /\ Follows(c, q.c) /\ Gave(c, q.c, q.O)
        /\ SqueezeAny(Plain(c), n, 32) = [c |-> Plain(q.c), O |-> q.O]
        /\ SqueezeAny(Plain(c), b * Plain(c).Rsqueeze, 32).c = Plain(q.c)
    BY <1>1, <2>0, SqueezeTold
  <2>2. SqueezeKey(c, n) = q /\ \A d, m : SqueezeKey(d, m) = SqueezeAny(d, m, 32)
    BY DEF SqueezeKey
  <2>3. Calls(i, q.c, e) /\ Gives(i, "squeezeKey", n, q.O, q.O)
    BY <1>7, <2>2 DEF DoSqueezeKey
  <2> HIDE DEF q, b
  <2>4. AfterEvent(Plain(c), e) = Plain(q.c) /\ e[1] # "ratchet"
    BY <2>1, <2>2, SqueezeEvents
  <2> HIDE DEF c, e
  <2>5. Kept(c, q.c, e)
    BY <2>1, <2>4 DEF Kept
  <2>6. Answers(Plain(c), "squeezeKey", n, q.O)
    BY <2>1, <2>2 DEF Answers
  <2> QED BY <2>1, <2>3, <2>5, <2>6, GivingStep DEF c
<1>8. ASSUME NEW i \in 1 .. 2, DoRatchet(i) PROVE SessionInv'
  <2>1. inst[i].mode = "Keyed"
    BY <1>8 DEF DoRatchet, Keyed
  <2>2. Kept(inst[i], Ratchet(inst[i]), <<"ratchet">>)
    BY <1>1, <2>1, RatchetTold
  <2>3. Calls(i, Ratchet(inst[i]), <<"ratchet">>) /\ UNCHANGED <<done, given>>
    BY <1>8 DEF DoRatchet
  <2> QED BY <2>2, <2>3, QuietStep
<1>9. CASE UNCHANGED vars
  BY <1>9 DEF vars, SessionInv, Pairs, InstanceInv, CallInv
<1>10. CASE Next
  <2>1. PICK i \in 1 .. 2 :
          \/ \E X \in Strings : DoAbsorb(i, X) \/ DoEncrypt(i, X)
          \/ \E C \in Strings \cup Ciphertexts : i = 2 /\ DoDecrypt(i, C)
          \/ \E n \in Lengths : DoSqueeze(i, n) \/ DoSqueezeKey(i, n)
          \/ DoRatchet(i)
    BY <1>10 DEF Next
  <2> QED BY <1>3, <1>4, <1>5, <1>6, <1>7, <1>8, <2>1
<1> QED BY <1>9, <1>10

LEMMA SessionInvAlways == Spec => []SessionInv
BY SessionInvInit, SessionInvStep, PTL DEF Spec

-----------------------------------------------------------------------------
\* From the same history the same call gives the same output, and deciphering gives what
\* was enciphered: whatever implementations run on the two sides, whatever the kernels do
\* with whole blocks (Cyclist.inc:113-117, 161-170, 191-212), for all rates and strings.
THEOREM HistoryDecides == Spec => []SameEverywhere
<1>1. SessionInv => SameEverywhere
  <2> SUFFICES ASSUME SessionInv, NEW x \in done, NEW y \in done, x.log = y.log
               PROVE  /\ x.op = y.op /\ x.I = y.I => x.O = y.O
                      /\ x.op = "encrypt" /\ y.op = "decrypt" => (x.O = y.I <=> x.I = y.O)
    BY DEF SameEverywhere
  <2>1. PICK c : IsCyc(c) /\ Trace(x.log, c) /\ Answers(c, x.op, x.I, x.O)
    BY DEF SessionInv, CallInv
  <2>2. PICK d : Trace(y.log, d) /\ Answers(d, y.op, y.I, y.O)
    BY DEF SessionInv, CallInv
  <2>3. d = c
    BY <2>1, <2>2, TraceOnce
  <2>4. ASSUME x.op = y.op, x.I = y.I PROVE x.O = y.O
    BY <2>1, <2>2, <2>3, <2>4, AnswersOnce
  <2>5. ASSUME x.op = "encrypt", y.op = "decrypt" PROVE x.O = y.I <=> x.I = y.O
    BY <2>1, <2>2, <2>3, <2>5, AnswersBack
  <2> QED BY <2>4, <2>5
<1> QED BY <1>1, SessionInvAlways, PTL

\* No unit of output serves twice: every block is taken from a state that one more call
\* of the permutation has made, and the state before it is not returned to.
THEOREM KeystreamIsOneTime == Spec => []KeystreamOnce
<1>1. SessionInv => KeystreamOnce
  <2> SUFFICES ASSUME SessionInv, NEW i \in 1 .. 2,
                      NEW j \in DOMAIN given[i], NEW k \in DOMAIN given[i]
               PROVE  /\ Cardinality(Places(given[i][j])) = 1
                      /\ given[i][j] = given[i][k] => j = k
    BY DEF KeystreamOnce
  <2> DEFINE g == given[i]
  <2>1. IsSeq(g) /\ Fresh(g, 0, Len(inst[i].s)) /\ j \in 1 .. Len(g) /\ k \in 1 .. Len(g)
    BY SeqLength DEF SessionInv, InstanceInv
  <2> HIDE DEF g
  <2>2. g[j] = g[k] => j = k
    BY <2>1 DEF Fresh
  <2>3. PICK s, n : g[j] = {<<s, n>>}
    BY <2>1 DEF Fresh
  <2>4. Places(g[j]) = {<<s, n>>}
    <3>1. Len(<<s, n>>) = 2
      OBVIOUS
    <3> QED BY <2>3, <3>1 DEF Places
  <2>5. Cardinality(Places(g[j])) = 1
    BY <2>4, FS_Singleton
  <2> QED BY <2>2, <2>5 DEF g
<1> QED BY <1>1, SessionInvAlways, PTL

\* "Squeeze then absorb is the same as overwriting with zeros" (Cyclist.inc:287), for
\* every ratchet length and rate the code admits.
THEOREM RatchetErases == Spec => []RatchetOverwrites
<1>1. SessionInv => RatchetOverwrites
  BY DEF SessionInv, InstanceInv, RatchetOverwrites, Overwritten
<1> QED BY <1>1, SessionInvAlways, PTL

-----------------------------------------------------------------------------
(* A state has one reading.                                                *)

\* What can be in a unit: a unit of input, or the unit at a place of the output of a state.
Term(t) == (\E n : t = <<n>>) \/ \E s, p : t = <<s, p>> /\ IsSeq(s)

Terms(x) == \A t \in x : Term(t)

\* A state has one prefix of each length.
LEMMA PrefixLength ==
  ASSUME NEW s, IsSeq(s), NEW t, IsSeq(t), NEW u, IsSeq(u), Len(t) = Len(u),
         IsPrefix(t, s), IsPrefix(u, s)
  PROVE  t = u
<1>1. SubSeq(t, 1, Len(t)) = SubSeq(u, 1, Len(u))
  BY DEF IsPrefix
<1>2. ASSUME NEW v, IsSeq(v) PROVE SubSeq(v, 1, Len(v)) = v
  <2>1. PICK S : v \in Seq(S)
    BY <1>2 DEF IsSeq
  <2>2. v = [i \in 1 .. Len(v) |-> v[i]] /\ Len(v) \in Nat
    BY <2>1
  <2> QED BY <2>1, <2>2
<1> QED BY <1>1, <1>2

\* Written backward from the state, a term still tells what it was.
LEMMA BackwardTells ==
  ASSUME NEW s, IsSeq(s), NEW t, Term(t), NEW u, Term(u), Backward(s, t) = Backward(s, u)
  PROVE  t = u
<1>1. \A n : Len(<<n>>) = 1
  OBVIOUS
<1>2. \A q, p : Len(<<q, p>>) = 2 /\ <<q, p>>[1] = q /\ <<q, p>>[2] = p
  OBVIOUS
<1>3. \A q, p : Len(<<q, p, 0>>) = 3 /\ <<q, p, 0>>[1] = q /\ <<q, p, 0>>[2] = p
  OBVIOUS
<1>4. ASSUME NEW v, Term(v)
      PROVE  \/ Backward(s, v) = v /\ Len(v) \in {1, 2}
             \/ \E q, p : /\ v = <<q, p>> /\ IsSeq(q) /\ IsPrefix(q, s)
                          /\ Backward(s, v) = <<Len(q), p, 0>>
  <2>1. CASE \E n : v = <<n>>
    <3>1. Len(v) = 1
      BY <1>1, <2>1
    <3> QED BY <3>1 DEF Backward
  <2>2. CASE \E q, p : v = <<q, p>> /\ IsSeq(q)
    <3>1. PICK q, p : v = <<q, p>> /\ IsSeq(q)
      BY <2>2
    <3>2. Len(v) = 2 /\ v[1] = q /\ v[2] = p
      BY <1>2, <3>1
    <3>3. CASE IsPrefix(q, s)
      BY <3>1, <3>2, <3>3, Zenon DEF Backward
    <3>4. CASE ~IsPrefix(q, s)
      <4>1. Backward(s, v) = v
        BY <3>2, <3>4, Zenon DEF Backward
      <4> QED BY <3>2, <4>1
    <3> QED BY <3>3, <3>4
  <2> QED BY <1>4, <2>1, <2>2 DEF Term
<1> DEFINE b == Backward(s, t)
           c == Backward(s, u)
<1>5. CASE b = t /\ Len(t) \in {1, 2}
  <2>1. ASSUME NEW q, NEW p, c = <<Len(q), p, 0>> PROVE FALSE
    <3>1. Len(c) = 3
      BY <1>3, <2>1
    <3> QED BY <1>5, <3>1
  <2> QED BY <1>4, <1>5, <2>1
<1>6. CASE \E q, p : /\ t = <<q, p>> /\ IsSeq(q) /\ IsPrefix(q, s) /\ b = <<Len(q), p, 0>>
  <2>1. PICK q, p : t = <<q, p>> /\ IsSeq(q) /\ IsPrefix(q, s) /\ b = <<Len(q), p, 0>>
    BY <1>6
  <2>2. Len(b) = 3 /\ b[1] = Len(q) /\ b[2] = p
    BY <1>3, <2>1
  <2>3. CASE c = u /\ Len(u) \in {1, 2}
    BY <2>2, <2>3, SMTT(30)
  <2>4. CASE \E x, y : /\ u = <<x, y>> /\ IsSeq(x) /\ IsPrefix(x, s) /\ c = <<Len(x), y, 0>>
    <3>1. PICK x, y : u = <<x, y>> /\ IsSeq(x) /\ IsPrefix(x, s) /\ c = <<Len(x), y, 0>>
      BY <2>4
    <3>2. c[1] = Len(x) /\ c[2] = y
      BY <1>3, <3>1
    <3>3. Len(q) = Len(x) /\ p = y
      BY <2>2, <3>2
    <3>4. q = x
      BY <2>1, <3>1, <3>3, PrefixLength
    <3> QED BY <2>1, <3>1, <3>3, <3>4
  <2> QED BY <1>4, <2>3, <2>4
<1> QED BY <1>4, <1>5, <1>6

\* What is absorbed tells what was added.
Clean(a) == Units(a) /\ \A p \in 1 .. bPrime : Terms(a[p])

LEMMA AbsorbedIs ==
  ASSUME NEW s, NEW a, Units(a)
  PROVE  /\ DOMAIN Absorbed(s, a) = 1 .. bPrime
         /\ \A p \in 1 .. bPrime : Absorbed(s, a)[p] = {Backward(s, t) : t \in a[p]}
<1>1. DOMAIN a = 1 .. bPrime
  BY DEF Units
<1> QED BY <1>1 DEF Absorbed

\* What is added in reading form tells what was added.
LEMMA AbsorbedTells ==
  ASSUME NEW s, IsSeq(s), NEW a, Clean(a), NEW b, Clean(b), Absorbed(s, a) = Absorbed(s, b)
  PROVE  a = b
<1>1. \A x, y : Terms(x) /\ Terms(y) /\ {Backward(s, t) : t \in x} = {Backward(s, t) : t \in y}
                  => x \subseteq y
  <2> SUFFICES ASSUME NEW x, NEW y, Terms(x), Terms(y),
                      {Backward(s, t) : t \in x} = {Backward(s, t) : t \in y}, NEW t \in x
               PROVE  t \in y
    OBVIOUS
  <2>1. Backward(s, t) \in {Backward(s, u) : u \in y}
    OBVIOUS
  <2>2. PICK u \in y : Backward(s, t) = Backward(s, u)
    BY <2>1
  <2>3. t = u
    BY <2>2, BackwardTells DEF Terms
  <2> QED BY <2>2, <2>3
<1>2. ASSUME NEW p \in 1 .. bPrime PROVE a[p] = b[p]
  <2>1. {Backward(s, t) : t \in a[p]} = {Backward(s, t) : t \in b[p]}
    <3>1. Absorbed(s, a)[p] = {Backward(s, t) : t \in a[p]}
      BY AbsorbedIs DEF Clean
    <3>2. Absorbed(s, b)[p] = {Backward(s, t) : t \in b[p]}
      BY AbsorbedIs DEF Clean
    <3> QED BY <3>1, <3>2
  <2>2. Terms(a[p]) /\ Terms(b[p])
    BY DEF Clean
  <2>3. a[p] \subseteq b[p]
    BY <1>1, <2>1, <2>2
  <2>4. b[p] \subseteq a[p]
    BY <1>1, <2>1, <2>2
  <2> QED BY <2>3, <2>4
<1> QED BY <1>2 DEF Clean, Units

\* Units of input stay as they are.
LEMMA InputStays ==
  ASSUME NEW s, NEW x, \A t \in x : \E n : t = <<n>>
  PROVE  {Backward(s, t) : t \in x} = x
<1>1. \A n : Len(<<n>>) = 1
  OBVIOUS
<1>2. \A t \in x : Backward(s, t) = t
  BY <1>1 DEF Backward
<1> QED BY <1>2

-----------------------------------------------------------------------------
(* Bytes made of a value.                                                  *)

Weights == {1, 2, 4, 8, 16, 32, 64, 128}

\* The bits of a byte.
Has(x, w) == <<w>> \in x

LEMMA Powers == {2 ^ b : b \in 0 .. 7} = Weights
<1>0. 2^0 = 1 /\ 2^1 = 2 /\ 2^2 = 4 /\ 2^3 = 8 /\ 2^4 = 16 /\ 2^5 = 32 /\ 2^6 = 64 /\ 2^7 = 128
  BY SMT
<1>1. \A i \in 0 .. 7 :
        i = 0 \/ i = 1 \/ i = 2 \/ i = 3 \/ i = 4 \/ i = 5 \/ i = 6 \/ i = 7
  OBVIOUS
<1>2. ASSUME NEW i \in 0 .. 7 PROVE 2 ^ i \in Weights
  <2> DEFINE w == 2 ^ i
  <2>1. w = 2^0 \/ w = 2^1 \/ w = 2^2 \/ w = 2^3 \/ w = 2^4 \/ w = 2^5 \/ w = 2^6 \/ w = 2^7
    BY <1>1, Zenon
  <2> HIDE DEF w
  <2>2. w \in Weights
    BY <1>0, <2>1, SMT DEF Weights
  <2> QED BY <2>2 DEF w
<1>3. ASSUME NEW w \in Weights PROVE \E i \in 0 .. 7 : w = 2 ^ i
  <2>1. w = 2^0 \/ w = 2^1 \/ w = 2^2 \/ w = 2^3 \/ w = 2^4 \/ w = 2^5 \/ w = 2^6 \/ w = 2^7
    BY <1>0 DEF Weights
  <2>2. 0 \in 0 .. 7 /\ 1 \in 0 .. 7 /\ 2 \in 0 .. 7 /\ 3 \in 0 .. 7 /\ 4 \in 0 .. 7 /\ 5 \in 0 .. 7
        /\ 6 \in 0 .. 7 /\ 7 \in 0 .. 7
    OBVIOUS
  <2> QED BY <2>1, <2>2, Zenon
<1> QED BY <1>2, <1>3

\* A byte is made of the bits of its value.
LEMMA BitsOfByte ==
  \A n : /\ \A t \in Byte(n) : \E w \in Weights : t = <<w>>
         /\ \A w : Has(Byte(n), w) <=> w \in Weights /\ (n \div w) % 2 = 1
<1> TAKE n
<1> DEFINE I == {a \in 0 .. 7 : (n \div 2 ^ a) % 2 = 1}
<1>1. Byte(n) = {<<2 ^ b>> : b \in I}
  BY DEF Byte
<1>2. \A i \in 0 .. 7 : 2 ^ i \in Weights
  BY Powers, Zenon
<1>3. ASSUME NEW t \in Byte(n) PROVE \E w \in Weights : t = <<w>> /\ (n \div w) % 2 = 1
  <2> PICK i \in I : t = <<2 ^ i>>
    BY <1>1
  <2> DEFINE w == 2 ^ i
  <2>1. i \in 0 .. 7 /\ (n \div w) % 2 = 1 /\ t = <<w>>
    OBVIOUS
  <2>2. w \in Weights
    BY <1>2, <2>1
  <2> HIDE DEF w
  <2> QED BY <2>1, <2>2
<1>4. ASSUME NEW w \in Weights, (n \div w) % 2 = 1 PROVE <<w>> \in Byte(n)
  <2>1. w \in {2 ^ b : b \in 0 .. 7}
    BY Powers
  <2>2. PICK i \in 0 .. 7 : w = 2 ^ i
    BY <2>1
  <2>3. i \in I
    BY <1>4, <2>2, Zenon
  <2> QED BY <1>1, <2>2, <2>3, Zenon
<1>5. \A v, w : <<v>> = <<w>> => v = w
  OBVIOUS
<1> HIDE DEF I
<1>6. \A w : Has(Byte(n), w) <=> w \in Weights /\ (n \div w) % 2 = 1
  <2> TAKE w
  <2>1. ASSUME Has(Byte(n), w) PROVE w \in Weights /\ (n \div w) % 2 = 1
    <3>1. PICK v \in Weights : <<w>> = <<v>> /\ (n \div v) % 2 = 1
      BY <1>3, <2>1 DEF Has
    <3>2. v = w
      BY <1>5, <3>1
    <3> QED BY <3>1, <3>2
  <2> QED BY <1>4, <2>1 DEF Has
<1> QED BY <1>3, <1>6

\* A byte tells its value.
LEMMA ByteTells ==
  ASSUME NEW n \in 0 .. 255, NEW m \in 0 .. 255, Byte(n) = Byte(m)
  PROVE  n = m
<1>1. \A w \in Weights : (n \div w) % 2 = 1 <=> (m \div w) % 2 = 1
  BY BitsOfByte, Zenon
<1>2. /\ (n \div 1) % 2 = 1 <=> (m \div 1) % 2 = 1
      /\ (n \div 2) % 2 = 1 <=> (m \div 2) % 2 = 1
      /\ (n \div 4) % 2 = 1 <=> (m \div 4) % 2 = 1
      /\ (n \div 8) % 2 = 1 <=> (m \div 8) % 2 = 1
      /\ (n \div 16) % 2 = 1 <=> (m \div 16) % 2 = 1
      /\ (n \div 32) % 2 = 1 <=> (m \div 32) % 2 = 1
      /\ (n \div 64) % 2 = 1 <=> (m \div 64) % 2 = 1
      /\ (n \div 128) % 2 = 1 <=> (m \div 128) % 2 = 1
  <2>1. 1 \in Weights /\ 2 \in Weights /\ 4 \in Weights /\ 8 \in Weights /\ 16 \in Weights
        /\ 32 \in Weights /\ 64 \in Weights /\ 128 \in Weights
    BY DEF Weights
  <2> QED BY <1>1, <2>1, Zenon
<1>3. n \div 128 = m \div 128
  BY <1>2
<1>4. n \div 64 = m \div 64
  <2>1. \A x \in 0 .. 255 : x \div 64 = 2 * (x \div 128) + ((x \div 64) % 2)
                          /\ (x \div 64) % 2 \in {0, 1}
    OBVIOUS
  <2>2. (n \div 64) % 2 = 1 <=> (m \div 64) % 2 = 1
    BY <1>2, Zenon
  <2> DEFINE a == (n \div 64) % 2
             b == (m \div 64) % 2
  <2>3. /\ a \in {0, 1} /\ n \div 64 = 2 * (n \div 128) + a
        /\ b \in {0, 1} /\ m \div 64 = 2 * (m \div 128) + b
    BY <2>1
  <2>4. a = b
    BY <2>2, <2>3
  <2> HIDE DEF a, b
  <2> QED BY <1>3, <2>3, <2>4
<1>5. n \div 32 = m \div 32
  <2>1. \A x \in 0 .. 255 : x \div 32 = 2 * (x \div 64) + ((x \div 32) % 2)
                          /\ (x \div 32) % 2 \in {0, 1}
    OBVIOUS
  <2>2. (n \div 32) % 2 = 1 <=> (m \div 32) % 2 = 1
    BY <1>2, Zenon
  <2> DEFINE a == (n \div 32) % 2
             b == (m \div 32) % 2
  <2>3. /\ a \in {0, 1} /\ n \div 32 = 2 * (n \div 64) + a
        /\ b \in {0, 1} /\ m \div 32 = 2 * (m \div 64) + b
    BY <2>1
  <2>4. a = b
    BY <2>2, <2>3
  <2> HIDE DEF a, b
  <2> QED BY <1>4, <2>3, <2>4
<1>6. n \div 16 = m \div 16
  <2>1. \A x \in 0 .. 255 : x \div 16 = 2 * (x \div 32) + ((x \div 16) % 2)
                          /\ (x \div 16) % 2 \in {0, 1}
    OBVIOUS
  <2>2. (n \div 16) % 2 = 1 <=> (m \div 16) % 2 = 1
    BY <1>2, Zenon
  <2> DEFINE a == (n \div 16) % 2
             b == (m \div 16) % 2
  <2>3. /\ a \in {0, 1} /\ n \div 16 = 2 * (n \div 32) + a
        /\ b \in {0, 1} /\ m \div 16 = 2 * (m \div 32) + b
    BY <2>1
  <2>4. a = b
    BY <2>2, <2>3
  <2> HIDE DEF a, b
  <2> QED BY <1>5, <2>3, <2>4
<1>7. n \div 8 = m \div 8
  <2>1. \A x \in 0 .. 255 : x \div 8 = 2 * (x \div 16) + ((x \div 8) % 2)
                          /\ (x \div 8) % 2 \in {0, 1}
    OBVIOUS
  <2>2. (n \div 8) % 2 = 1 <=> (m \div 8) % 2 = 1
    BY <1>2, Zenon
  <2> DEFINE a == (n \div 8) % 2
             b == (m \div 8) % 2
  <2>3. /\ a \in {0, 1} /\ n \div 8 = 2 * (n \div 16) + a
        /\ b \in {0, 1} /\ m \div 8 = 2 * (m \div 16) + b
    BY <2>1
  <2>4. a = b
    BY <2>2, <2>3
  <2> HIDE DEF a, b
  <2> QED BY <1>6, <2>3, <2>4
<1>8. n \div 4 = m \div 4
  <2>1. \A x \in 0 .. 255 : x \div 4 = 2 * (x \div 8) + ((x \div 4) % 2)
                          /\ (x \div 4) % 2 \in {0, 1}
    OBVIOUS
  <2>2. (n \div 4) % 2 = 1 <=> (m \div 4) % 2 = 1
    BY <1>2, Zenon
  <2> DEFINE a == (n \div 4) % 2
             b == (m \div 4) % 2
  <2>3. /\ a \in {0, 1} /\ n \div 4 = 2 * (n \div 8) + a
        /\ b \in {0, 1} /\ m \div 4 = 2 * (m \div 8) + b
    BY <2>1
  <2>4. a = b
    BY <2>2, <2>3
  <2> HIDE DEF a, b
  <2> QED BY <1>7, <2>3, <2>4
<1>9. n \div 2 = m \div 2
  <2>1. \A x \in 0 .. 255 : x \div 2 = 2 * (x \div 4) + ((x \div 2) % 2)
                          /\ (x \div 2) % 2 \in {0, 1}
    OBVIOUS
  <2>2. (n \div 2) % 2 = 1 <=> (m \div 2) % 2 = 1
    BY <1>2, Zenon
  <2> DEFINE a == (n \div 2) % 2
             b == (m \div 2) % 2
  <2>3. /\ a \in {0, 1} /\ n \div 2 = 2 * (n \div 4) + a
        /\ b \in {0, 1} /\ m \div 2 = 2 * (m \div 4) + b
    BY <2>1
  <2>4. a = b
    BY <2>2, <2>3
  <2> HIDE DEF a, b
  <2> QED BY <1>8, <2>3, <2>4
<1> QED BY <1>2, <1>9

\* The colors of Down are in the low bits of the last unit, those of Up in the high ones.
LEMMA ColorsApart ==
  ASSUME NEW Cd \in 0 .. 3, NEW Cu \in {0, 16, 32, 64, 128}, NEW w \in {16, 32, 64, 128}
  PROVE  Has(Xor(Byte(Cd), Byte(Cu)), w) <=> w = Cu
<1>1. w \in Weights
  BY DEF Weights
<1>2. (Cd \div w) % 2 # 1
  <2>1. w = 16 \/ w = 32 \/ w = 64 \/ w = 128
    OBVIOUS
  <2>2. Cd \div 16 = 0 /\ Cd \div 32 = 0 /\ Cd \div 64 = 0 /\ Cd \div 128 = 0
    OBVIOUS
  <2>3. 0 % 2 # 1
    OBVIOUS
  <2> QED BY <2>1, <2>2, <2>3, Zenon
<1>3. (Cu \div w) % 2 = 1 <=> w = Cu
  <2>1. w = 16 \/ w = 32 \/ w = 64 \/ w = 128
    OBVIOUS
  <2>2. Cu = 0 \/ Cu = 16 \/ Cu = 32 \/ Cu = 64 \/ Cu = 128
    OBVIOUS
  <2>3. CASE w = 16
    BY <2>2, <2>3
  <2>4. CASE w = 32
    BY <2>2, <2>4
  <2>5. CASE w = 64
    BY <2>2, <2>5
  <2>6. CASE w = 128
    BY <2>2, <2>6
  <2> QED BY <2>1, <2>3, <2>4, <2>5, <2>6
<1>4. ~Has(Byte(Cd), w) /\ (Has(Byte(Cu), w) <=> w = Cu)
  BY <1>1, <1>2, <1>3, BitsOfByte
<1> QED BY <1>4 DEF Has, Xor

-----------------------------------------------------------------------------
(* Padding.                                                                *)

\* A string that fits in a block.
Short(B) == IsSeq(B) /\ Len(B) + 1 < bPrime /\ \A p \in 1 .. Len(B) : Terms(B[p])

\* What is at the places of a padded string.
LEMMA PaddedIs ==
  ASSUME NEW B, Short(B), NEW C
  PROVE  /\ Len(B) \in Nat /\ \A p \in 1 .. Len(B) : Padded(B, C)[p] = B[p]
         /\ Padded(B, C)[Len(B) + 1] = One /\ Padded(B, C)[bPrime] = Byte(C)
         /\ \A p \in Len(B) + 2 .. bPrime - 1 : Padded(B, C)[p] = Zero
         /\ Units(Padded(B, C)) /\ Len(B) + 1 \in 1 .. bPrime - 1 /\ bPrime - 1 \in Nat
<1> DEFINE n == Len(B)
           y == Padded(B, C)
<1>1. n \in Nat /\ bPrime \in Nat /\ n + 1 < bPrime
  BY SeqLength, Sizes DEF Short
<1>2. \A p \in 1 .. bPrime :
        y[p] = IF p <= n THEN B[p]
               ELSE IF p = n + 1 THEN One ELSE IF p = bPrime THEN Byte(C) ELSE Zero
  BY DEF Padded
<1>3. Units(y)
  BY UnitsAdded
<1> HIDE DEF n, y
<1>4. /\ \A p \in 1 .. n : p \in 1 .. bPrime /\ p <= n
      /\ n + 1 \in 1 .. bPrime /\ ~(n + 1 <= n)
      /\ bPrime \in 1 .. bPrime /\ ~(bPrime <= n) /\ bPrime # n + 1
      /\ \A p \in n + 2 .. bPrime - 1 : p \in 1 .. bPrime /\ ~(p <= n) /\ p # n + 1 /\ p # bPrime
      /\ n + 1 \in 1 .. bPrime - 1 /\ bPrime - 1 \in Nat
  BY <1>1
<1>5. \A p \in 1 .. n : y[p] = B[p]
  BY <1>2, <1>4
<1>6. y[n + 1] = One
  BY <1>2, <1>4
<1>7. y[bPrime] = Byte(C)
  BY <1>2, <1>4
<1>8. \A p \in n + 2 .. bPrime - 1 : y[p] = Zero
  BY <1>2, <1>4
<1> QED BY <1>1, <1>3, <1>4, <1>5, <1>6, <1>7, <1>8 DEF n, y

LEMMA OneIsNotZero == One # Zero
BY DEF One, Zero

\* Padding leaves one reading.
LEMMA PaddedTells ==
  ASSUME NEW B, NEW C \in 0 .. 255, NEW D, NEW E \in 0 .. 255, Short(B), Short(D),
         Padded(B, C) = Padded(D, E)
  PROVE  B = D /\ C = E
<1>1. ASSUME NEW X, Short(X), NEW Y, Short(Y), NEW F, NEW G, Padded(X, F) = Padded(Y, G),
             Len(X) < Len(Y)
      PROVE  FALSE
  <2> DEFINE q == Len(Y) + 1
  <2>1. q \in Len(X) + 2 .. bPrime - 1
    BY <1>1, PaddedIs
  <2>2. Padded(X, F)[q] = Zero
    <3> HIDE DEF q
    <3> QED BY <1>1, <2>1, PaddedIs
  <2>3. Padded(Y, G)[q] = One
    BY <1>1, PaddedIs
  <2> HIDE DEF q
  <2> QED BY <1>1, <2>2, <2>3, OneIsNotZero
<1>2. Len(B) \in Nat /\ Len(D) \in Nat
  BY PaddedIs
<1>3. Len(B) = Len(D)
  BY <1>1, <1>2
<1>4. \A p \in 1 .. Len(B) : B[p] = D[p]
  BY <1>3, PaddedIs, SMTT(30)
<1>5. B = D
  BY <1>3, <1>4, SameSeq DEF Short
<1>6. Byte(C) = Byte(E)
  BY PaddedIs
<1> QED BY <1>5, <1>6, ByteTells

LEMMA BytesAreInput ==
  \A n : /\ \A t \in Byte(n) : \E w : t = <<w>>
         /\ Terms(Byte(n))
<1> TAKE n
<1>1. \A t \in Byte(n) : \E w : t = <<w>>
  BY BitsOfByte
<1> QED BY <1>1 DEF Terms, Term

LEMMA PaddedClean ==
  ASSUME NEW B, Short(B), NEW C
  PROVE  Clean(Padded(B, C)) /\ Padded(B, C) # Nothing
<1> DEFINE n == Len(B)
           y == Padded(B, C)
<1>1. Terms(One) /\ Terms(Zero) /\ Terms(Byte(C))
  BY BytesAreInput DEF Terms, One, Zero, Term
<1>2. \A p \in 1 .. n : Terms(B[p])
  BY DEF Short
<1>3. /\ n \in Nat /\ \A p \in 1 .. n : y[p] = B[p]
      /\ y[n + 1] = One /\ y[bPrime] = Byte(C)
      /\ \A p \in n + 2 .. bPrime - 1 : y[p] = Zero
      /\ Units(y) /\ n + 1 \in 1 .. bPrime - 1 /\ bPrime - 1 \in Nat
  BY PaddedIs
<1> HIDE DEF n, y
<1>4. ASSUME NEW p \in 1 .. bPrime PROVE Terms(y[p])
  <2>1. p \in 1 .. n \/ p = n + 1 \/ p \in n + 2 .. bPrime - 1 \/ p = bPrime
    BY <1>3, Sizes
  <2> QED BY <1>1, <1>2, <1>3, <2>1
<1>5. y # Nothing
  <2> DEFINE q == n + 1
  <2>1. q \in 1 .. bPrime
    BY <1>3, Sizes
  <2>2. Nothing[q] = Zero
    <3> HIDE DEF q
    <3> QED BY <2>1 DEF Nothing
  <2>3. y[q] = One
    BY <1>3
  <2> HIDE DEF q
  <2> QED BY <2>2, <2>3, OneIsNotZero
<1> QED BY <1>3, <1>4, <1>5 DEF Clean, y

LEMMA NothingIs ==
  /\ Clean(Nothing) /\ Nothing[bPrime] = Byte(0) /\ Short(<<>>)
  /\ \A p \in 1 .. bPrime : Nothing[p] = Zero
<1>1. \A p \in 1 .. bPrime : Nothing[p] = Zero
  BY DEF Nothing
<1>2. Terms(Zero) /\ Zero = Byte(0)
  BY NoColor DEF Terms, Zero
<1>3. Clean(Nothing)
  BY <1>1, <1>2, UnitsAdded DEF Clean
<1>4. bPrime \in 1 .. bPrime
  BY Sizes
<1>5. Short(<<>>)
  BY EmptyIs, Sizes DEF Short
<1> QED BY <1>1, <1>2, <1>3, <1>4, <1>5

\* The color of Up can be taken off again.
LEMMA ColoredTells ==
  ASSUME NEW a, Clean(a), NEW b, Clean(b), NEW m, NEW Cu
  PROVE  /\ Clean(Colored(a, m, Cu))
         /\ m # "Hash" => Colored(a, m, Cu)[bPrime] = Xor(a[bPrime], Byte(Cu))
         /\ Colored(a, m, Cu) = Colored(b, m, Cu) => a = b
<1>1. bPrime \in 1 .. bPrime
  BY Sizes
<1>2. CASE m = "Hash"
  BY <1>2 DEF Colored
<1>3. CASE m # "Hash"
  <2>1. ASSUME NEW x, Clean(x)
        PROVE  /\ Units(Colored(x, m, Cu)) /\ Colored(x, m, Cu)[bPrime] = Xor(x[bPrime], Byte(Cu))
               /\ \A p \in 1 .. bPrime : p # bPrime => Colored(x, m, Cu)[p] = x[p]
    <3>1. DOMAIN x = 1 .. bPrime
      BY <2>1 DEF Clean, Units
    <3>2. Units(Colored(x, m, Cu))
      BY <2>1, UnitsAdded DEF Clean
    <3>3. Colored(x, m, Cu) = [x EXCEPT ![bPrime] = Xor(@, Byte(Cu))]
      BY <1>3 DEF Colored
    <3> QED BY <1>1, <3>1, <3>2, <3>3
  <2>2. Clean(Colored(a, m, Cu))
    <3>1. Terms(Xor(a[bPrime], Byte(Cu)))
      BY <1>1, BytesAreInput DEF Terms, Xor, Clean
    <3> QED BY <1>1, <2>1, <3>1 DEF Clean
  <2>3. ASSUME Colored(a, m, Cu) = Colored(b, m, Cu) PROVE a = b
    <3>1. a[bPrime] = b[bPrime]
      <4>1. Xor(a[bPrime], Byte(Cu)) = Xor(b[bPrime], Byte(Cu))
        BY <2>1, <2>3
      <4> QED BY <4>1, XorTwice
    <3>2. \A p \in 1 .. bPrime : a[p] = b[p]
      BY <2>1, <2>3, <3>1
    <3> QED BY <3>2 DEF Clean, Units
  <2> QED BY <2>1, <2>2, <2>3
<1> QED BY <1>2, <1>3

-----------------------------------------------------------------------------
(* Sound states.                                                           *)

\* An instance without the kernels.
St(s, a, phase, mode) == Cyc(s, a, phase, mode, FALSE)

\* The last unit of the last block of a state: the colors.
Mark(s) == s[Len(s)][bPrime]

\* A string B and color C as Down adds them in the modes.
DownOK(m, s, B, C) ==
  /\ Short(B) /\ C \in 0 .. 3
  /\ m = "Hash" => C \in 0 .. 1 /\ (C = 0 => Len(B) # 0)
  /\ m = "Keyed" /\ C = 0 /\ Len(B) = 0 => Len(s) # 0 /\ Has(Mark(s), 128)

\* A state in the phase Up, in keyed mode: output has just been given.
UpOK(m, s) ==
  m = "Keyed" =>
    /\ Len(s) # 0 /\ ~Has(Mark(s), 128)
    /\ \/ Has(Mark(s), 32) \/ Has(Mark(s), 64)
       \/ /\ Len(s) > 1 /\ s[Len(s)] = Padded(<<>>, 0)
          /\ ~Has(s[Len(s) - 1][bPrime], 128)

Sound(y) ==
  /\ IsSeq(y.s) /\ y.mode \in {"Hash", "Keyed"}
  /\ \/ /\ y = St(y.s, y.added, "Down", y.mode)
        /\ \E B, C : DownOK(y.mode, y.s, B, C) /\ y.added = Padded(B, C)
     \/ y = St(y.s, Nothing, "Up", y.mode) /\ UpOK(y.mode, y.s)

\* The fields of a state.
LEMMA StFields ==
  \A s, a, ph, m :
    /\ St(s, a, ph, m).s = s /\ St(s, a, ph, m).added = a
    /\ St(s, a, ph, m).phase = ph /\ St(s, a, ph, m).mode = m
    /\ St(s, a, ph, m).kernels = FALSE
    /\ St(s, a, ph, m).Rabsorb = (IF m = "Keyed" THEN Rkin ELSE Rhash)
    /\ St(s, a, ph, m).Rsqueeze = (IF m = "Keyed" THEN Rkout ELSE Rhash)
<1> TAKE s, a, ph, m
<1> DEFINE x == IF m = "Keyed" THEN Rkin ELSE Rhash
           y == IF m = "Keyed" THEN Rkout ELSE Rhash
<1>1. St(s, a, ph, m) = [s |-> s, added |-> a, phase |-> ph, mode |-> m,
                         Rabsorb |-> x, Rsqueeze |-> y, kernels |-> FALSE]
  BY DEF St, Cyc
<1> HIDE DEF x, y
<1>2. /\ St(s, a, ph, m).s = s /\ St(s, a, ph, m).added = a
      /\ St(s, a, ph, m).phase = ph /\ St(s, a, ph, m).mode = m
      /\ St(s, a, ph, m).kernels = FALSE
      /\ St(s, a, ph, m).Rabsorb = x /\ St(s, a, ph, m).Rsqueeze = y
  BY <1>1
<1> QED BY <1>2 DEF x, y

\* What a sound state is made of.
LEMMA SoundIs ==
  ASSUME NEW y, Sound(y)
  PROVE  /\ IsCyc(y) /\ y = St(y.s, y.added, y.phase, y.mode) /\ Clean(y.added)
         /\ \E Cd \in 0 .. 3 : y.added[bPrime] = Byte(Cd)
         /\ y.phase \in {"Up", "Down"} /\ (y.phase = "Up" <=> y.added = Nothing)
         /\ Len(y.s) \in Nat
<1> DEFINE s == y.s
           m == y.mode
<1>1. IsSeq(s) /\ Len(s) \in Nat
  BY SeqLength DEF Sound
<1>2. CASE y = St(s, Nothing, "Up", m)
  <2>1. y.added = Nothing /\ y.phase = "Up" /\ y.kernels = FALSE
    BY <1>2, StFields
  <2>2. y = Cyc(s, Nothing, "Up", m, FALSE)
    BY <1>2 DEF St
  <2>3. IsCyc(Cyc(s, Nothing, "Up", m, FALSE))
    BY <1>1, UnitsAdded, CycIs
  <2>4. IsCyc(y)
    <3> HIDE DEF s, m
    <3> QED BY <2>2, <2>3
  <2> QED BY <1>1, <1>2, <2>1, <2>4, NothingIs
<1>3. CASE y = St(s, y.added, "Down", m) /\ \E B, C : DownOK(m, s, B, C) /\ y.added = Padded(B, C)
  <2>1. PICK B, C : DownOK(m, s, B, C) /\ y.added = Padded(B, C)
    BY <1>3
  <2>2. y.phase = "Down"
    BY <1>3, StFields
  <2>3. Short(B) /\ C \in 0 .. 3
    BY <2>1 DEF DownOK
  <2>4. Clean(y.added) /\ y.added # Nothing /\ y.added[bPrime] = Byte(C)
    BY <2>1, <2>3, PaddedClean, PaddedIs
  <2>5. IsCyc(y)
    <3> DEFINE a == y.added
    <3>1. y = Cyc(s, a, "Down", m, FALSE)
      BY <1>3 DEF St
    <3>2. Units(a)
      BY <2>4 DEF Clean
    <3> HIDE DEF s, m, a
    <3>3. IsCyc(Cyc(s, a, "Down", m, FALSE))
      BY <1>1, <3>2, CycIs
    <3> QED BY <3>1, <3>3
  <2> QED BY <1>1, <1>3, <2>2, <2>3, <2>4, <2>5
<1> QED BY <1>2, <1>3 DEF Sound

\* The state after a permutation.
Grown(y, Cu) == Append(y.s, Absorbed(y.s, Colored(y.added, y.mode, Cu)))

\* What the permutation adds to the state; its color stays in the last unit.
LEMMA GrownIs ==
  ASSUME NEW y, Sound(y), NEW Cu
  PROVE  /\ IsSeq(Grown(y, Cu)) /\ Len(Grown(y, Cu)) = Len(y.s) + 1 /\ Len(y.s) \in Nat
         /\ \A i \in 1 .. Len(y.s) : Grown(y, Cu)[i] = y.s[i]
         /\ Grown(y, Cu)[Len(y.s) + 1] = Absorbed(y.s, Colored(y.added, y.mode, Cu))
         /\ y.mode = "Keyed" /\ Cu \in {0, 16, 32, 64, 128} =>
              \A w \in {16, 32, 64, 128} : Has(Mark(Grown(y, Cu)), w) <=> w = Cu
<1> DEFINE s == y.s
           a == y.added
           m == y.mode
           x == Absorbed(s, Colored(a, m, Cu))
           t == Append(s, x)
<1>1. IsSeq(s) /\ Clean(a) /\ Len(s) \in Nat
  BY SoundIs DEF Sound
<1>2. PICK Cd \in 0 .. 3 : a[bPrime] = Byte(Cd)
  BY SoundIs
<1> HIDE DEF s, a, m
<1>3. /\ IsSeq(t) /\ Len(t) = Len(s) + 1 /\ (\A i \in 1 .. Len(s) : t[i] = s[i])
      /\ t[Len(s) + 1] = x
  <2> HIDE DEF x
  <2> QED BY <1>1, Extended
<1>4. ASSUME m = "Keyed", Cu \in {0, 16, 32, 64, 128}, NEW w \in {16, 32, 64, 128}
      PROVE  Has(Mark(t), w) <=> w = Cu
  <2> DEFINE b == Colored(a, m, Cu)
             u == Xor(Byte(Cd), Byte(Cu))
  <2>1. Units(b) /\ b[bPrime] = u
    BY <1>1, <1>2, <1>4, ColoredTells DEF Clean
  <2>2. bPrime \in 1 .. bPrime
    BY Sizes
  <2> HIDE DEF b
  <2>3. Absorbed(s, b)[bPrime] = {Backward(s, z) : z \in b[bPrime]}
    BY <2>1, <2>2, AbsorbedIs
  <2>4. \A z \in u : \E n : z = <<n>>
    BY BytesAreInput DEF Xor
  <2> HIDE DEF u
  <2>5. Absorbed(s, b)[bPrime] = u
    BY <2>1, <2>3, <2>4, InputStays
  <2>6. Mark(t) = u
    <3>1. x[bPrime] = u
      BY <2>5 DEF b
    <3> HIDE DEF x, t
    <3>2. t[Len(t)] = x
      BY <1>3
    <3> QED BY <3>1, <3>2 DEF Mark
  <2> HIDE DEF t, x
  <2> QED BY <1>4, <2>6, ColorsApart DEF u
<1> QED BY <1>1, <1>3, <1>4 DEF Grown, s, a, m

\* The state tells what it was before.
LEMMA GrownTells ==
  ASSUME NEW x, Sound(x), NEW y, Sound(y), x.mode = y.mode, NEW Cu,
         Grown(x, Cu) = Grown(y, Cu)
  PROVE  x = y
<1>1. IsSeq(x.s) /\ IsSeq(y.s) /\ Clean(x.added) /\ Clean(y.added)
  BY SoundIs DEF Sound
<1>2. Len(x.s) = Len(y.s)
  <2>1. Len(x.s) + 1 = Len(y.s) + 1 /\ Len(x.s) \in Nat /\ Len(y.s) \in Nat
    BY GrownIs
  <2> QED BY <2>1
<1>3. \A i \in 1 .. Len(x.s) : x.s[i] = y.s[i]
  <2> TAKE i \in 1 .. Len(x.s)
  <2>1. Grown(x, Cu)[i] = x.s[i]
    BY GrownIs
  <2>2. i \in 1 .. Len(y.s)
    BY <1>2
  <2>3. Grown(y, Cu)[i] = y.s[i]
    BY <2>2, GrownIs
  <2> QED BY <2>1, <2>3
<1>4. x.s = y.s
  BY <1>1, <1>2, <1>3, SameSeq
<1>5. Absorbed(x.s, Colored(x.added, x.mode, Cu)) = Absorbed(y.s, Colored(y.added, y.mode, Cu))
  <2>1. Grown(x, Cu)[Len(x.s) + 1] = Absorbed(x.s, Colored(x.added, x.mode, Cu))
    BY GrownIs
  <2>2. Grown(y, Cu)[Len(y.s) + 1] = Absorbed(y.s, Colored(y.added, y.mode, Cu))
    BY GrownIs
  <2> QED BY <1>2, <2>1, <2>2
<1>6. Clean(Colored(x.added, x.mode, Cu)) /\ Clean(Colored(y.added, y.mode, Cu))
  BY <1>1, ColoredTells
<1>7. Colored(x.added, x.mode, Cu) = Colored(y.added, y.mode, Cu)
  BY <1>1, <1>4, <1>5, <1>6, AbsorbedTells
<1>8. x.added = y.added
  BY <1>1, <1>7, ColoredTells
<1>9. x.phase = y.phase
  BY <1>8, SoundIs
<1> QED BY <1>4, <1>8, <1>9, SoundIs

\* Up and Down on states without the kernels.
LEMMA UpMove ==
  ASSUME NEW y, Sound(y), NEW Cu
  PROVE  Up(y, Cu) = St(Grown(y, Cu), Nothing, "Up", y.mode)
<1> DEFINE s == y.s
           a == y.added
           ph == y.phase
           m == y.mode
<1>1. y = Cyc(s, a, ph, m, FALSE)
  BY SoundIs DEF St
<1>2. \A k : Up(Cyc(s, a, ph, m, k), Cu)
               = Cyc(Append(s, Absorbed(s, Colored(a, m, Cu))), Nothing, "Up", m, k)
  BY UpIs
<1> HIDE DEF s, a, ph, m
<1>3. Up(y, Cu) = Cyc(Append(s, Absorbed(s, Colored(a, m, Cu))), Nothing, "Up", m, FALSE)
  BY <1>1, <1>2
<1> QED BY <1>3 DEF St, Grown, s, a, m

LEMMA DownMove ==
  ASSUME NEW s, NEW ph, NEW m, NEW B, NEW C
  PROVE  Down(St(s, Nothing, ph, m), B, C)
           = St(s, Padded(B, IF m = "Hash" THEN C % 2 ELSE C), "Down", m)
<1> DEFINE e == IF m = "Hash" THEN C % 2 ELSE C
<1>1. \A k : Down(Cyc(s, Nothing, ph, m, k), B, C)
             = Cyc(s, XorAll(Nothing, Padded(B, e)), "Down", m, k)
  BY DownIs
<1> HIDE DEF e
<1>2. XorAll(Nothing, Padded(B, e)) = Padded(B, e)
  BY UnitsAdded
<1> QED BY <1>1, <1>2 DEF St, e

-----------------------------------------------------------------------------
(* One block after another.                                                *)

LEMMA StTells ==
  ASSUME NEW s, NEW a, NEW ph, NEW m, NEW t, NEW b, NEW q, NEW n, St(s, a, ph, m) = St(t, b, q, n)
  PROVE  s = t /\ a = b /\ ph = q /\ m = n
<1>1. St(s, a, ph, m).s = s /\ St(s, a, ph, m).added = a /\ St(s, a, ph, m).phase = ph
      /\ St(s, a, ph, m).mode = m
  BY StFields
<1>2. St(t, b, q, n).s = t /\ St(t, b, q, n).added = b /\ St(t, b, q, n).phase = q
      /\ St(t, b, q, n).mode = n
  BY StFields
<1> QED BY <1>1, <1>2

\* The block that asks for more output.
More == Padded(<<>>, 0)

LEMMA MoreStays ==
  /\ Clean(More) /\ More[bPrime] = {} /\ More # Nothing
  /\ \A s : Absorbed(s, More) = More
<1>1. Clean(More) /\ More # Nothing /\ More[bPrime] = {}
  BY PaddedClean, PaddedIs, NothingIs, NoColor DEF More
<1>2. ASSUME NEW s PROVE Absorbed(s, More) = More
  <2>1. \A p \in 1 .. bPrime : More[p] = One \/ More[p] = Zero \/ More[p] = Byte(0)
    BY EmptyIs DEF More, Padded
  <2>2. \A p \in 1 .. bPrime : \A t \in More[p] : \E n : t = <<n>>
    <3>1. (\A t \in One : \E n : t = <<n>>) /\ (\A t \in Zero : \E n : t = <<n>>)
      BY DEF One, Zero
    <3>2. \A t \in Byte(0) : \E n : t = <<n>>
      BY BytesAreInput
    <3> QED BY <2>1, <3>1, <3>2
  <2>3. /\ DOMAIN Absorbed(s, More) = 1 .. bPrime
        /\ \A p \in 1 .. bPrime : Absorbed(s, More)[p] = {Backward(s, t) : t \in More[p]}
    BY <1>1, AbsorbedIs DEF Clean
  <2>4. \A p \in 1 .. bPrime : Absorbed(s, More)[p] = More[p]
    <3> TAKE p \in 1 .. bPrime
    <3>1. {Backward(s, t) : t \in More[p]} = More[p]
      <4> DEFINE x == More[p]
      <4>1. \A t \in x : \E n : t = <<n>>
        BY <2>2
      <4> HIDE DEF x
      <4>2. {Backward(s, t) : t \in x} = x
        BY <4>1, InputStays
      <4> QED BY <4>2 DEF x
    <3> QED BY <2>3, <3>1
  <2>5. Absorbed(s, More) = [p \in 1 .. bPrime |-> Absorbed(s, More)[p]]
    BY <2>3 DEF Absorbed
  <2>6. More = [p \in 1 .. bPrime |-> More[p]]
    BY <1>1 DEF Clean, Units
  <2> HIDE DEF More
  <2> QED BY <2>4, <2>5, <2>6, Zenon
<1> QED BY <1>1, <1>2

\* From a block of a call to the next one.
Link(x, y) ==
  \/ /\ x.phase = "Down"
     /\ \E B : Short(B) /\ Len(B) # 0 /\ y = St(Grown(x, 0), Padded(B, 0), "Down", x.mode)
  \/ x.phase = "Up" /\ y = St(Append(x.s, More), Nothing, "Up", x.mode)

\* The state after the first block of a call.
FirstOf(z) ==
  IF z.phase = "Down"
  THEN z.added[bPrime] # {} \/ (z.mode = "Keyed" /\ (Has(Mark(z.s), 16) \/ Has(Mark(z.s), 128)))
  ELSE IF z.mode = "Keyed" THEN Has(Mark(z.s), 32) \/ Has(Mark(z.s), 64)
  ELSE Len(z.s) = 0 \/ z.s[Len(z.s)] # More

\* A block that is not the first one keeps the state sound, and it shows that it is not.
LEMMA LinkSound ==
  ASSUME NEW x, Sound(x), NEW y, Link(x, y)
  PROVE  Sound(y) /\ y.phase = x.phase /\ y.mode = x.mode /\ ~FirstOf(y)
<1> DEFINE m == x.mode
<1>1. m \in {"Hash", "Keyed"} /\ IsSeq(x.s) /\ Len(x.s) \in Nat
  BY SoundIs DEF Sound
<1>2. CASE x.phase = "Down"
  <2> DEFINE s == Grown(x, 0)
  <2>1. PICK B : Short(B) /\ Len(B) # 0 /\ y = St(s, Padded(B, 0), "Down", m)
    BY <1>2 DEF Link
  <2> DEFINE a == Padded(B, 0)
  <2>2. y.s = s /\ y.added = a /\ y.phase = "Down" /\ y.mode = m
    BY <2>1, StFields
  <2>3. IsSeq(s) /\ (m = "Keyed" => ~Has(Mark(s), 16) /\ ~Has(Mark(s), 128))
    <3>1. m = "Keyed" => \A w \in {16, 32, 64, 128} : Has(Mark(s), w) <=> w = 0
      BY GrownIs
    <3> QED BY <3>1, GrownIs
  <2>4. a[bPrime] = {}
    BY <2>1, PaddedIs, NoColor
  <2>5. DownOK(m, s, B, 0)
    BY <2>1 DEF DownOK
  <2> HIDE DEF s, a, m
  <2>6. Sound(y)
    <3>1. y = St(y.s, y.added, "Down", y.mode)
      BY <2>1, <2>2 DEF a
    <3>2. \E C, D : DownOK(y.mode, y.s, C, D) /\ y.added = Padded(C, D)
      BY <2>2, <2>5 DEF a
    <3> QED BY <1>1, <2>2, <2>3, <3>1, <3>2 DEF Sound
  <2>7. ~FirstOf(y)
    BY <2>2, <2>3, <2>4 DEF FirstOf
  <2> QED BY <1>2, <2>2, <2>6, <2>7 DEF m
<1>3. CASE x.phase = "Up"
  <2> DEFINE s == Append(x.s, More)
             n == Len(x.s)
  <2>1. y = St(s, Nothing, "Up", m)
    BY <1>3 DEF Link
  <2>2. y.s = s /\ y.phase = "Up" /\ y.mode = m
    <3> HIDE DEF s, m
    <3> QED BY <2>1, StFields
  <2>3. IsSeq(s) /\ Len(s) = n + 1 /\ s[n + 1] = More /\ \A i \in 1 .. n : s[i] = x.s[i]
    BY <1>1, Extended
  <2>4. m = "Keyed" => UpOK(m, x.s)
    <3>1. x # St(x.s, x.added, "Down", m)
      BY <1>3, StFields
    <3> QED BY <3>1 DEF Sound
  <2>5. Mark(s) = {}
    <3> HIDE DEF s
    <3> QED BY <2>3, MoreStays DEF Mark
  <2>6. UpOK(m, s)
    <3> SUFFICES ASSUME m = "Keyed" PROVE UpOK(m, s)
      BY DEF UpOK
    <3>1. n # 0 /\ ~Has(x.s[n][bPrime], 128)
      BY <2>4 DEF UpOK, Mark
    <3> HIDE DEF s, n, m
    <3>2. Len(s) > 1 /\ s[Len(s)] = More /\ Len(s) - 1 = n /\ s[n] = x.s[n]
      BY <1>1, <2>3, <3>1 DEF n
    <3>3. ~Has(s[Len(s) - 1][bPrime], 128)
      BY <3>1, <3>2
    <3>4. ~Has(Mark(s), 128) /\ Len(s) # 0
      BY <2>5, <3>2 DEF Has
    <3> QED BY <3>2, <3>3, <3>4 DEF UpOK, More
  <2>7. ~FirstOf(y)
    <3>1. s[Len(s)] = More /\ Len(s) # 0
      <4> HIDE DEF s
      <4> QED BY <1>1, <2>3
    <3> HIDE DEF s
    <3> QED BY <2>2, <2>5, <3>1 DEF FirstOf, Has
  <2> HIDE DEF s, m
  <2>8. Sound(y)
    BY <1>1, <2>1, <2>2, <2>3, <2>6 DEF Sound
  <2> QED BY <1>3, <2>2, <2>7, <2>8 DEF m
<1> QED BY <1>2, <1>3, SoundIs

LEMMA AppendTells ==
  ASSUME NEW s, IsSeq(s), NEW t, IsSeq(t), NEW d, NEW e, Append(s, d) = Append(t, e)
  PROVE  s = t /\ d = e
<1>1. Len(Append(s, d)) = Len(s) + 1 /\ Len(Append(t, e)) = Len(t) + 1
  BY Extended
<1>2. Len(s) \in Nat /\ Len(t) \in Nat
  BY SeqLength
<1>3. Len(s) = Len(t)
  BY <1>1, <1>2
<1>4. ASSUME NEW i \in 1 .. Len(s) PROVE s[i] = t[i]
  <2>1. Append(s, d)[i] = s[i]
    BY Extended
  <2>2. Append(t, e)[i] = t[i]
    BY <1>3, Extended
  <2> QED BY <2>1, <2>2
<1>5. s = t
  BY <1>3, <1>4, SameSeq
<1>6. d = e
  BY <1>3, Extended
<1> QED BY <1>5, <1>6

\* The state before a block that is not the first one.
LEMMA LinkBack ==
  ASSUME NEW x, Sound(x), NEW u, Sound(u), NEW y, Link(x, y), Link(u, y)
  PROVE  x = u
<1>1. x.phase = u.phase /\ x.mode = u.mode
  BY LinkSound
<1>2. CASE x.phase = "Down"
  <2>1. PICK B : y = St(Grown(x, 0), Padded(B, 0), "Down", x.mode)
    BY <1>2 DEF Link
  <2>2. PICK C : y = St(Grown(u, 0), Padded(C, 0), "Down", u.mode)
    BY <1>1, <1>2 DEF Link
  <2>3. Grown(x, 0) = Grown(u, 0)
    BY <2>1, <2>2, StTells
  <2> QED BY <1>1, <2>3, GrownTells
<1>3. CASE x.phase = "Up"
  <2>1. y = St(Append(x.s, More), Nothing, "Up", x.mode)
    BY <1>3 DEF Link
  <2>2. y = St(Append(u.s, More), Nothing, "Up", u.mode)
    BY <1>1, <1>3 DEF Link
  <2>3. Append(x.s, More) = Append(u.s, More)
    <3> DEFINE s == Append(x.s, More)
               t == Append(u.s, More)
    <3>1. St(s, Nothing, "Up", x.mode) = St(t, Nothing, "Up", u.mode)
      BY <2>1, <2>2
    <3> HIDE DEF s, t
    <3>2. s = t
      BY <3>1, StTells
    <3> QED BY <3>2 DEF s, t
  <2>4. x.s = u.s
    BY <2>3, AppendTells DEF Sound
  <2>5. x.added = Nothing /\ u.added = Nothing
    BY <1>1, <1>3, SoundIs
  <2> QED BY <1>1, <2>4, <2>5, SoundIs
<1> QED BY <1>2, <1>3, SoundIs

-----------------------------------------------------------------------------
(* The first block of a call.                                              *)

\* Where a call that absorbs comes in.
Entry(x) == IF x.phase = "Down" THEN Grown(x, 0) ELSE x.s

\* The state z after the first block of a call from x.
Opens(k, x, z) ==
  \/ /\ k = "absorb" /\ (x.mode = "Hash" => x.phase = "Up")
     /\ \E B : /\ Short(B)
               /\ z = St(Entry(x), Padded(B, IF x.mode = "Hash" THEN 1 ELSE 3), "Down", x.mode)
  \/ /\ k = "crypt" /\ x.mode = "Keyed"
     /\ \E B : Short(B) /\ z = St(Grown(x, 128), Padded(B, 0), "Down", "Keyed")
  \/ /\ k = "ratchet" /\ x.mode = "Keyed"
     /\ \E B : Short(B) /\ Len(B) # 0 /\ z = St(Grown(x, 16), Padded(B, 0), "Down", "Keyed")
  \/ k = "squeeze" /\ z = St(Grown(x, 64), Nothing, "Up", x.mode)
  \/ k = "squeezeKey" /\ x.mode = "Keyed" /\ z = St(Grown(x, 32), Nothing, "Up", "Keyed")

\* The state after the first block of the first call.
OpensAll(z) ==
  \/ z = St(<<>>, Nothing, "Up", "Hash")
  \/ \E B : Short(B) /\ z = St(<<>>, Padded(B, 2), "Down", "Keyed")

\* The call that starts with z.
CallOf(z) ==
  IF z.phase = "Down"
  THEN IF z.added[bPrime] = Byte(2) THEN "start"
       ELSE IF z.added[bPrime] # {} THEN "absorb"
       ELSE IF Has(Mark(z.s), 128) THEN "crypt" ELSE "ratchet"
  ELSE IF Len(z.s) = 0 THEN "start"
  ELSE IF z.mode = "Keyed" /\ Has(Mark(z.s), 32) THEN "squeezeKey" ELSE "squeeze"

LEMMA ColorsDiffer ==
  Byte(1) # {} /\ Byte(2) # {} /\ Byte(3) # {} /\ Byte(1) # Byte(2) /\ Byte(3) # Byte(2)
<1>1. Byte(0) = {}
  BY NoColor, Zenon
<1>2. \A n \in 0 .. 3, m \in 0 .. 3 : Byte(n) = Byte(m) => n = m
  <2> TAKE n \in 0 .. 3, m \in 0 .. 3
  <2>1. n \in 0 .. 255 /\ m \in 0 .. 255
    OBVIOUS
  <2> QED BY <2>1, ByteTells
<1> QED BY <1>1, <1>2

LEMMA SoundDown ==
  ASSUME NEW m \in {"Hash", "Keyed"}, NEW s, IsSeq(s), NEW B, NEW C, DownOK(m, s, B, C)
  PROVE  LET z == St(s, Padded(B, C), "Down", m)
         IN  Sound(z) /\ z.s = s /\ z.added[bPrime] = Byte(C) /\ z.phase = "Down" /\ z.mode = m
<1> DEFINE a == Padded(B, C)
           z == St(s, a, "Down", m)
<1>1. z.s = s /\ z.added = a /\ z.phase = "Down" /\ z.mode = m
  <2> HIDE DEF a
  <2> QED BY StFields
<1>2. a[bPrime] = Byte(C)
  BY PaddedIs DEF DownOK
<1>3. \E D, E : DownOK(m, s, D, E) /\ a = Padded(D, E)
  OBVIOUS
<1>4. z = St(s, a, "Down", m)
  OBVIOUS
<1> HIDE DEF z, a
<1>5. Sound(z)
  BY <1>1, <1>3, <1>4 DEF Sound
<1> QED BY <1>1, <1>2, <1>5 DEF z, a

LEMMA SoundUp ==
  ASSUME NEW m \in {"Hash", "Keyed"}, NEW s, IsSeq(s), UpOK(m, s)
  PROVE  LET z == St(s, Nothing, "Up", m) IN Sound(z) /\ z.s = s /\ z.phase = "Up" /\ z.mode = m
<1> DEFINE z == St(s, Nothing, "Up", m)
<1>1. z.s = s /\ z.phase = "Up" /\ z.mode = m
  BY StFields
<1>2. z = St(s, Nothing, "Up", m)
  OBVIOUS
<1> HIDE DEF z
<1>3. Sound(z)
  BY <1>1, <1>2 DEF Sound
<1> QED BY <1>1, <1>3 DEF z

\* In hash mode no block that was absorbed is the one that asks for more output.
LEMMA HashSqueezed ==
  ASSUME NEW x, Sound(x), x.mode = "Hash", NEW Cu
  PROVE  Grown(x, Cu)[Len(Grown(x, Cu))] # More
<1> DEFINE s == x.s
           a == x.added
<1>1. IsSeq(s) /\ Clean(a)
  BY SoundIs DEF Sound
<1>2. Grown(x, Cu)[Len(Grown(x, Cu))] = Absorbed(s, a)
  <2>1. Colored(a, x.mode, Cu) = a
    BY DEF Colored
  <2>2. Len(Grown(x, Cu)) = Len(s) + 1
        /\ Grown(x, Cu)[Len(s) + 1] = Absorbed(s, Colored(a, x.mode, Cu))
    BY GrownIs
  <2> QED BY <2>1, <2>2
<1>3. a # More
  <2>1. CASE x = St(s, Nothing, "Up", x.mode)
    <3>1. a = Nothing
      BY <2>1, StFields
    <3> QED BY <3>1, MoreStays
  <2>2. CASE \E B, C : DownOK(x.mode, s, B, C) /\ a = Padded(B, C)
    <3>1. PICK B, C : DownOK(x.mode, s, B, C) /\ a = Padded(B, C)
      BY <2>2
    <3>2. Short(B) /\ C \in 0 .. 255 /\ (C = 0 => Len(B) # 0)
      BY <3>1 DEF DownOK
    <3>3. SUFFICES ASSUME Padded(B, C) = Padded(<<>>, 0) PROVE FALSE
      BY <3>1 DEF More
    <3>4. Short(<<>>) /\ 0 \in 0 .. 255
      BY NothingIs
    <3>5. B = <<>> /\ C = 0
      BY <3>2, <3>3, <3>4, PaddedTells, ZenonT(40)
    <3> QED BY <3>2, <3>5, EmptyIs
  <2> QED BY <2>1, <2>2 DEF Sound
<1>4. Absorbed(s, More) = More /\ Clean(More)
  BY MoreStays
<1> HIDE DEF s, a
<1>5. Absorbed(s, a) # More
  BY <1>1, <1>3, <1>4, AbsorbedTells
<1> QED BY <1>2, <1>5

\* A first block keeps the state sound and shows which call it is of.
LEMMA OpensSound ==
  ASSUME NEW x, Sound(x), NEW k, NEW z, Opens(k, x, z)
  PROVE  Sound(z) /\ FirstOf(z) /\ CallOf(z) = k /\ z.mode = x.mode /\ k # "start"
<1> DEFINE m == x.mode
<1>1. m \in {"Hash", "Keyed"} /\ IsSeq(x.s) /\ Len(x.s) \in Nat
  BY SoundIs DEF Sound
<1>2. ASSUME NEW Cu \in {0, 16, 32, 64, 128}
      PROVE  /\ IsSeq(Grown(x, Cu)) /\ Len(Grown(x, Cu)) # 0
             /\ m = "Keyed" => \A w \in {16, 32, 64, 128} : Has(Mark(Grown(x, Cu)), w) <=> w = Cu
  <2>1. Len(Grown(x, Cu)) = Len(x.s) + 1 /\ IsSeq(Grown(x, Cu))
    BY GrownIs
  <2>2. m = "Keyed" => \A w \in {16, 32, 64, 128} : Has(Mark(Grown(x, Cu)), w) <=> w = Cu
    BY GrownIs
  <2>3. Len(Grown(x, Cu)) # 0
    BY <1>1, <2>1
  <2> QED BY <2>1, <2>2, <2>3
<1>3. CASE k = "absorb"
  <2> DEFINE C == IF m = "Hash" THEN 1 ELSE 3
             s == Entry(x)
  <2>1. PICK B : Short(B) /\ z = St(s, Padded(B, C), "Down", m)
    BY <1>3 DEF Opens
  <2>2. IsSeq(s)
    BY <1>1, <1>2 DEF Entry
  <2>3. C \in 0 .. 3 /\ C # 0 /\ (m = "Hash" => C = 1) /\ (C = 1 \/ C = 3)
    BY <1>1
  <2> HIDE DEF s, C, m
  <2>4. DownOK(m, s, B, C)
    BY <2>1, <2>3 DEF DownOK
  <2>5. Sound(z) /\ z.added[bPrime] = Byte(C) /\ z.phase = "Down" /\ z.mode = m
    BY <1>1, <2>1, <2>2, <2>4, SoundDown
  <2>6. Byte(C) # {} /\ Byte(C) # Byte(2)
    BY <2>3, ColorsDiffer
  <2> QED BY <1>3, <2>5, <2>6 DEF FirstOf, CallOf, m
<1>4. CASE k = "crypt" \/ k = "ratchet"
  <2> DEFINE Cu == IF k = "crypt" THEN 128 ELSE 16
             s == Grown(x, Cu)
  <2>1. PICK B : /\ Short(B) /\ z = St(s, Padded(B, 0), "Down", "Keyed")
                 /\ k = "ratchet" => Len(B) # 0
    <3>1. CASE k = "crypt"
      BY <3>1 DEF Opens
    <3>2. CASE k = "ratchet"
      BY <3>2 DEF Opens
    <3> QED BY <1>4, <3>1, <3>2
  <2>2. m = "Keyed"
    BY <1>4 DEF Opens
  <2>3. Cu \in {0, 16, 32, 64, 128} /\ (k = "crypt" => Cu = 128) /\ (k = "ratchet" => Cu = 16)
    BY <1>4
  <2> HIDE DEF Cu
  <2>4. IsSeq(s) /\ Len(s) # 0 /\ \A w \in {16, 32, 64, 128} : Has(Mark(s), w) <=> w = Cu
    BY <1>2, <2>2, <2>3
  <2> HIDE DEF s, m
  <2>5. DownOK("Keyed", s, B, 0)
    BY <1>4, <2>1, <2>3, <2>4 DEF DownOK
  <2>6. Sound(z) /\ z.s = s /\ z.added[bPrime] = Byte(0) /\ z.phase = "Down" /\ z.mode = "Keyed"
    BY <2>1, <2>4, <2>5, SoundDown
  <2>7. Byte(0) = {} /\ Byte(0) # Byte(2)
    BY NoColor, ColorsDiffer
  <2>8. Has(Mark(s), 16) \/ Has(Mark(s), 128)
    BY <1>4, <2>3, <2>4
  <2>9. Has(Mark(s), 128) <=> k = "crypt"
    BY <1>4, <2>3, <2>4
  <2>10. FirstOf(z)
    BY <2>6, <2>8 DEF FirstOf
  <2>11. CallOf(z) = k
    BY <1>4, <2>6, <2>7, <2>9 DEF CallOf
  <2> QED BY <1>4, <2>2, <2>6, <2>10, <2>11 DEF m
<1>5. CASE k = "squeeze" \/ k = "squeezeKey"
  <2> DEFINE Cu == IF k = "squeeze" THEN 64 ELSE 32
             s == Grown(x, Cu)
  <2>1. z = St(s, Nothing, "Up", m) /\ (k = "squeezeKey" => m = "Keyed")
    BY <1>5 DEF Opens
  <2>2. Cu \in {0, 16, 32, 64, 128} /\ (k = "squeeze" => Cu = 64) /\ (k = "squeezeKey" => Cu = 32)
    BY <1>5
  <2>3. m = "Hash" => s[Len(s)] # More
    BY <1>1, <2>2, HashSqueezed
  <2> HIDE DEF Cu
  <2>4. /\ IsSeq(s) /\ Len(s) # 0
        /\ m = "Keyed" => \A w \in {16, 32, 64, 128} : Has(Mark(s), w) <=> w = Cu
    BY <1>2, <2>2
  <2> HIDE DEF s, m
  <2>5. m = "Keyed" => /\ Has(Mark(s), 32) <=> k = "squeezeKey"
                       /\ Has(Mark(s), 64) <=> k = "squeeze"
                       /\ ~Has(Mark(s), 128)
    BY <1>5, <2>2, <2>4
  <2>6. UpOK(m, s)
    BY <1>5, <2>4, <2>5 DEF UpOK
  <2>7. Sound(z) /\ z.s = s /\ z.phase = "Up" /\ z.mode = m
    BY <1>1, <2>1, <2>4, <2>6, SoundUp
  <2>8. FirstOf(z)
    BY <1>1, <1>5, <2>3, <2>5, <2>7 DEF FirstOf
  <2>9. CallOf(z) = k
    BY <1>1, <1>5, <2>1, <2>4, <2>5, <2>7 DEF CallOf
  <2> QED BY <1>5, <2>7, <2>8, <2>9 DEF m
<1>6. k = "absorb" \/ (k = "crypt" \/ k = "ratchet") \/ (k = "squeeze" \/ k = "squeezeKey")
  BY DEF Opens
<1> QED BY <1>3, <1>4, <1>5, <1>6, Zenon

-----------------------------------------------------------------------------
(* The blocks of a call, backward.                                         *)

\* A state in the phase Up does not pass for what a block was absorbed into.
LEMMA UpIsNotGrown ==
  ASSUME NEW x, Sound(x), NEW u, Sound(u), x.mode = "Keyed", u.mode = "Keyed",
         x.phase = "Up", u.phase = "Down", x.s = Grown(u, 0)
  PROVE  FALSE
<1> DEFINE s == u.s
           g == Grown(u, 0)
<1>1. UpOK("Keyed", g)
  <2>1. x # St(x.s, x.added, "Down", x.mode)
    BY StFields
  <2> QED BY <2>1 DEF Sound
<1>2. /\ IsSeq(s) /\ Len(g) = Len(s) + 1 /\ Len(s) \in Nat
      /\ \A i \in 1 .. Len(s) : g[i] = s[i]
      /\ \A w \in {16, 32, 64, 128} : Has(Mark(g), w) <=> w = 0
  BY GrownIs DEF Sound
<1>3. g[Len(s) + 1] = Absorbed(s, u.added)
  <2>1. Colored(u.added, "Keyed", 0) = u.added
    BY SoundIs, NoColor DEF Clean
  <2> QED BY <2>1, GrownIs
<1>4. PICK B, C : DownOK("Keyed", s, B, C) /\ u.added = Padded(B, C)
  <2>1. u # St(s, Nothing, "Up", u.mode)
    BY StFields
  <2> QED BY <2>1 DEF Sound
<1>5. Clean(u.added)
  BY SoundIs
<1> HIDE DEF s, g
<1>6. Len(g) > 1 /\ g[Len(g)] = More /\ ~Has(g[Len(g) - 1][bPrime], 128)
  <2>1. ~Has(Mark(g), 32) /\ ~Has(Mark(g), 64)
    BY <1>2
  <2> QED BY <1>1, <2>1 DEF UpOK, More
<1>7. u.added = More
  <2>1. Absorbed(s, u.added) = Absorbed(s, More)
    BY <1>2, <1>3, <1>6, MoreStays
  <2> QED BY <1>2, <1>5, <2>1, MoreStays, AbsorbedTells
<1>8. B = <<>> /\ C = 0
  <2>1. Short(B) /\ C \in 0 .. 255 /\ Short(<<>>) /\ 0 \in 0 .. 255
    BY <1>4, NothingIs DEF DownOK
  <2>2. Padded(B, C) = Padded(<<>>, 0)
    BY <1>4, <1>7 DEF More
  <2> QED BY <2>1, <2>2, PaddedTells, ZenonT(40)
<1>9. Len(s) # 0 /\ Has(s[Len(s)][bPrime], 128)
  BY <1>4, <1>8, EmptyIs DEF DownOK, Mark
<1>10. Len(g) - 1 = Len(s) /\ g[Len(s)] = s[Len(s)]
  BY <1>2, <1>9
<1> QED BY <1>6, <1>9, <1>10

\* The state before a call that absorbs.
LEMMA EntryTells ==
  ASSUME NEW x, Sound(x), NEW u, Sound(u), x.mode = u.mode, Entry(x) = Entry(u),
         x.mode = "Hash" => x.phase = "Up" /\ u.phase = "Up"
  PROVE  x = u
<1>1. CASE x.phase = "Down" /\ u.phase = "Down"
  BY <1>1, GrownTells DEF Entry
<1>2. CASE x.phase # "Down" /\ u.phase # "Down"
  <2>1. x.s = u.s
    BY <1>2 DEF Entry
  <2>2. x.added = Nothing /\ u.added = Nothing /\ x.phase = "Up" /\ u.phase = "Up"
    BY <1>2, SoundIs
  <2> QED BY <2>1, <2>2, SoundIs
<1>3. ASSUME x.phase # u.phase PROVE FALSE
  <2>1. x.mode = "Keyed" /\ u.mode = "Keyed"
    BY <1>3 DEF Sound
  <2>2. \/ x.phase = "Up" /\ u.phase = "Down" /\ x.s = Grown(u, 0)
        \/ u.phase = "Up" /\ x.phase = "Down" /\ u.s = Grown(x, 0)
    BY <1>3, SoundIs DEF Entry
  <2> QED BY <2>1, <2>2, UpIsNotGrown
<1> QED BY <1>1, <1>2, <1>3

\* What is left by a call's first block tells where the call came in.
LEMMA OpensBack ==
  ASSUME NEW x, Sound(x), NEW u, Sound(u), NEW k, NEW z, Opens(k, x, z), Opens(k, u, z)
  PROVE  x = u
<1>1. x.mode = u.mode
  BY OpensSound
<1>2. CASE k = "absorb"
  <2> DEFINE C == IF x.mode = "Hash" THEN 1 ELSE 3
  <2>1. PICK B : z = St(Entry(x), Padded(B, C), "Down", x.mode)
    BY <1>2 DEF Opens
  <2>2. PICK D : z = St(Entry(u), Padded(D, C), "Down", x.mode)
    BY <1>1, <1>2 DEF Opens
  <2>3. x.mode = "Hash" => x.phase = "Up" /\ u.phase = "Up"
    BY <1>1, <1>2 DEF Opens
  <2> HIDE DEF C
  <2>4. Entry(x) = Entry(u)
    BY <2>1, <2>2, StTells
  <2> QED BY <1>1, <2>3, <2>4, EntryTells
<1>3. ASSUME NEW Cu, NEW a, NEW b, NEW ph, NEW m,
             z = St(Grown(x, Cu), a, ph, m), z = St(Grown(u, Cu), b, ph, m)
      PROVE  x = u
  <2> DEFINE s == Grown(x, Cu)
             t == Grown(u, Cu)
  <2>1. St(s, a, ph, m) = St(t, b, ph, m)
    BY <1>3
  <2> HIDE DEF s, t
  <2>2. s = t
    BY <2>1, StTells
  <2> QED BY <1>1, <2>2, GrownTells DEF s, t
<1>4. CASE k = "crypt"
  <2>1. PICK B : z = St(Grown(x, 128), Padded(B, 0), "Down", "Keyed")
    BY <1>4 DEF Opens
  <2>2. PICK D : z = St(Grown(u, 128), Padded(D, 0), "Down", "Keyed")
    BY <1>4 DEF Opens
  <2> QED BY <1>3, <2>1, <2>2
<1>5. CASE k = "ratchet"
  <2>1. PICK B : z = St(Grown(x, 16), Padded(B, 0), "Down", "Keyed")
    BY <1>5 DEF Opens
  <2>2. PICK D : z = St(Grown(u, 16), Padded(D, 0), "Down", "Keyed")
    BY <1>5 DEF Opens
  <2> QED BY <1>3, <2>1, <2>2
<1>6. CASE k = "squeeze"
  <2>1. z = St(Grown(x, 64), Nothing, "Up", x.mode) /\ z = St(Grown(u, 64), Nothing, "Up", x.mode)
    BY <1>1, <1>6 DEF Opens
  <2> QED BY <1>3, <2>1
<1>7. CASE k = "squeezeKey"
  <2>1. z = St(Grown(x, 32), Nothing, "Up", "Keyed") /\ z = St(Grown(u, 32), Nothing, "Up", "Keyed")
    BY <1>7 DEF Opens
  <2> QED BY <1>3, <2>1
<1> QED BY <1>2, <1>4, <1>5, <1>6, <1>7 DEF Opens

\* The first block of all shows that it is.
LEMMA OpensAllSound ==
  ASSUME NEW z, OpensAll(z)
  PROVE  Sound(z) /\ FirstOf(z) /\ CallOf(z) = "start"
<1>1. CASE z = St(<<>>, Nothing, "Up", "Hash")
  <2> DEFINE s == <<>>
  <2>1. IsSeq(s) /\ Len(s) = 0 /\ UpOK("Hash", s)
    BY EmptyIs DEF UpOK
  <2> HIDE DEF s
  <2>2. z = St(s, Nothing, "Up", "Hash")
    BY <1>1 DEF s
  <2>3. Sound(z) /\ z.s = s /\ z.phase = "Up" /\ z.mode = "Hash"
    BY <2>1, <2>2, SoundUp
  <2> QED BY <2>1, <2>3 DEF FirstOf, CallOf
<1>2. CASE \E B : Short(B) /\ z = St(<<>>, Padded(B, 2), "Down", "Keyed")
  <2> DEFINE s == <<>>
  <2>1. PICK B : Short(B) /\ z = St(s, Padded(B, 2), "Down", "Keyed")
    BY <1>2
  <2>2. IsSeq(s) /\ DownOK("Keyed", s, B, 2)
    BY <2>1, EmptyIs DEF DownOK
  <2> HIDE DEF s
  <2>3. Sound(z) /\ z.added[bPrime] = Byte(2) /\ z.phase = "Down"
    BY <2>1, <2>2, SoundDown
  <2> QED BY <2>3, ColorsDiffer DEF FirstOf, CallOf
<1> QED BY <1>1, <1>2 DEF OpensAll

-----------------------------------------------------------------------------
(* A call has one reading.                                                 *)

\* The states h after the n blocks of a call.
Blockwise(h, n) ==
  /\ n \in Nat \ {0}
  /\ \A k \in 1 .. n : Sound(h[k]) /\ h[k].mode = h[1].mode /\ h[k].phase = h[1].phase
  /\ FirstOf(h[1]) /\ \A k \in 1 .. n - 1 : Link(h[k], h[k + 1])

LEMMA BlockwiseIs ==
  ASSUME NEW h, NEW n \in Nat \ {0}, Sound(h[1]), FirstOf(h[1]),
         \A k \in 1 .. n - 1 :
           Sound(h[k]) /\ h[k].mode = h[1].mode /\ h[k].phase = h[1].phase => Link(h[k], h[k + 1])
  PROVE  Blockwise(h, n)
<1> DEFINE Good(k) == Sound(h[k]) /\ h[k].mode = h[1].mode /\ h[k].phase = h[1].phase
           T == {k \in Nat : k < n => Good(k + 1)}
<1>1. 0 \in T
  OBVIOUS
<1>2. ASSUME NEW k \in Nat, k \in T PROVE k + 1 \in T
  <2> SUFFICES ASSUME k + 1 < n PROVE Good((k + 1) + 1)
    OBVIOUS
  <2>1. Good(k + 1) /\ k + 1 \in 1 .. n - 1
    BY <1>2
  <2>2. Link(h[k + 1], h[(k + 1) + 1])
    BY <2>1
  <2> QED BY <2>1, <2>2, LinkSound
<1> HIDE DEF T
<1>3. \A k \in Nat : k \in T
  BY <1>1, <1>2, Induction
<1>4. ASSUME NEW k \in 1 .. n PROVE Good(k)
  <2>1. k - 1 \in T /\ k - 1 < n /\ (k - 1) + 1 = k
    BY <1>3
  <2> QED BY <2>1 DEF T
<1> QED BY <1>4 DEF Blockwise

\* The blocks of a call can be taken off one by one.
LEMMA OneCall ==
  ASSUME NEW h, NEW n, Blockwise(h, n), NEW g, NEW m, Blockwise(g, m), h[n] = g[m]
  PROVE  n = m /\ \A k \in 1 .. n : h[k] = g[k]
<1>1. n \in Nat \ {0} /\ m \in Nat \ {0}
  BY DEF Blockwise
<1> DEFINE T == {j \in Nat : j < n => j < m /\ h[n - j] = g[m - j]}
<1>2. 0 \in T
  BY <1>1
<1>3. ASSUME NEW j \in Nat, j \in T PROVE j + 1 \in T
  <2> SUFFICES ASSUME j + 1 < n PROVE j + 1 < m /\ h[n - (j + 1)] = g[m - (j + 1)]
    OBVIOUS
  <2> DEFINE p == n - (j + 1)
             q == m - (j + 1)
  <2>1. j < m /\ h[n - j] = g[m - j]
    BY <1>1, <1>3
  <2>2. p \in 1 .. n - 1 /\ p \in 1 .. n /\ p + 1 = n - j /\ q \in Int /\ q + 1 = m - j
    BY <1>1
  <2>3. Link(h[p], h[p + 1]) /\ Sound(h[p])
    BY <2>2 DEF Blockwise
  <2>4. ~FirstOf(g[q + 1])
    BY <2>1, <2>2, <2>3, LinkSound
  <2>5. q # 0
    BY <2>4 DEF Blockwise
  <2>6. q \in 1 .. m - 1 /\ q \in 1 .. m /\ j + 1 < m
    BY <1>1, <2>1, <2>5
  <2>7. Link(g[q], g[q + 1]) /\ Sound(g[q])
    BY <2>6 DEF Blockwise
  <2> HIDE DEF p, q
  <2>8. h[p] = g[q]
    BY <2>1, <2>2, <2>3, <2>7, LinkBack
  <2> QED BY <2>6, <2>8 DEF p, q
<1> HIDE DEF T
<1>4. \A j \in Nat : j \in T
  BY <1>2, <1>3, Induction
<1>5. n = m
  <2> DEFINE p == m - (n - 1)
  <2>1. n - 1 \in Nat /\ n - 1 < n /\ n - (n - 1) = 1
    BY <1>1
  <2>2. n - 1 < m /\ h[1] = g[p]
    BY <1>4, <2>1 DEF T
  <2>3. FirstOf(g[p])
    BY <2>2 DEF Blockwise
  <2>4. ASSUME p # 1 PROVE FALSE
    <3>1. p - 1 \in 1 .. m - 1 /\ p - 1 \in 1 .. m /\ (p - 1) + 1 = p
      BY <1>1, <2>2, <2>4
    <3> HIDE DEF p
    <3>2. Link(g[p - 1], g[p]) /\ Sound(g[p - 1])
      BY <3>1 DEF Blockwise
    <3> QED BY <2>3, <3>2, LinkSound
  <2> QED BY <1>1, <2>4
<1>6. ASSUME NEW k \in 1 .. n PROVE h[k] = g[k]
  <2>1. n - k \in T /\ n - k < n /\ n - (n - k) = k
    BY <1>1, <1>4
  <2> QED BY <1>5, <2>1 DEF T
<1> QED BY <1>5, <1>6

-----------------------------------------------------------------------------
(* The blocks of a string.                                                 *)

\* A string as applications absorb it.
Str(X) == IsSeq(X) /\ \A p \in 1 .. Len(X) : Terms(X[p])

Rate(r) == r \in Nat \ {0} /\ r < bPrime - 1

LEMMA RatesAre == Rate(Rkin) /\ Rate(Rkout) /\ Rate(Rhash) /\ Rate(1)
BY Sizes DEF Rate

\* Every block fits, and only the first one may be empty.
LEMMA BlocksAreShort ==
  ASSUME NEW X, Str(X), NEW r, Rate(r), NEW k \in 1 .. Blocks(Len(X), r)
  PROVE  Short(Block(X, r, k)) /\ (k # 1 => Len(Block(X, r, k)) # 0)
<1> DEFINE n == Len(X)
           B == Block(X, r, k)
           z == SizeOf(n, r, k)
           b == Blocks(n, r)
<1>1. IsSeq(X) /\ n \in Nat /\ r \in Nat \ {0} /\ r + 1 < bPrime /\ bPrime \in Nat
  BY SeqLength, Sizes DEF Str, Rate
<1>2. IsSeq(B) /\ Len(B) = z /\ \A j \in 1 .. z : B[j] = X[(k - 1) * r + j]
  BY <1>1, BlockIs
<1>3. /\ k - 1 \in Nat /\ (k - 1) * r \in Nat /\ z \in 0 .. r /\ (k - 1) * r + z <= n
      /\ k = b => (k - 1) * r + z = n
      /\ k < b => z = r
  BY <1>1, EarlierBlock
<1>4. \A j \in 1 .. z : Terms(B[j])
  <2> HIDE DEF z, n, B
  <2> TAKE j \in 1 .. z
  <2> DEFINE q == (k - 1) * r
  <2>1. q \in Nat /\ q + z <= n
    BY <1>3
  <2> HIDE DEF q
  <2>2. q + j \in 1 .. n
    BY <1>1, <1>3, <2>1
  <2>3. B[j] = X[q + j]
    BY <1>2 DEF q
  <2> QED BY <2>2, <2>3 DEF Str, n
<1>5. Short(B)
  <2> HIDE DEF B, z
  <2> QED BY <1>1, <1>2, <1>3, <1>4 DEF Short
<1>6. ASSUME k # 1 PROVE z # 0
  <2>1. b \in Nat \ {0} /\ k \in 1 .. b
    BY <1>1, LastBlock
  <2>2. CASE k < b
    BY <1>1, <1>3, <2>2
  <2>3. CASE k = b
    <3>1. n # 0
      BY <1>6, <2>3 DEF Blocks
    <3> DEFINE q == n - 1
    <3>2. b = (q + r) \div r
      BY <1>1, <3>1 DEF Blocks
    <3>3. q \in Nat
      BY <1>1, <3>1
    <3>4. q \div r \in Nat /\ q % r \in 0 .. r - 1 /\ q = (q \div r) * r + (q % r)
      BY <1>1, <3>3, Quotients
    <3> HIDE DEF q
    <3> DEFINE e == q \div r
               f == q % r
    <3>12. e \in Nat /\ f \in 0 .. r - 1 /\ q = e * r + f
      BY <3>4
    <3> HIDE DEF e, f
    <3>5. e \in Nat /\ f \in 0 .. r - 1 /\ q = e * r + f /\ e * r \in Nat /\ e + 1 \in Nat
          /\ (e + 1) * r = e * r + r
      BY <1>1, <3>12
    <3>6. q + r = (e + 1) * r + f
      BY <1>1, <3>5
    <3>7. ((e + 1) * r + f) \div r = e + 1
      BY <1>1, <3>5, Divided
    <3>8. b = e + 1
      BY <3>2, <3>6, <3>7
    <3> HIDE DEF b, z, n
    <3>9. k - 1 = e
      BY <2>3, <3>5, <3>8
    <3>10. e * r + z = n /\ n = q + 1
      BY <1>1, <1>3, <2>3, <3>9 DEF q
    <3> QED BY <1>1, <1>3, <3>5, <3>10
  <2> HIDE DEF z, b
  <2> QED BY <2>1, <2>2, <2>3
<1> QED BY <1>2, <1>5, <1>6

\* The blocks of X are the added strings of h.
Pieces(X, r, h, n) ==
  /\ n = Blocks(Len(X), r)
  /\ \A k \in 1 .. n : \E C \in 0 .. 255 : h[k].added = Padded(Block(X, r, k), C)

\* The blocks tell the string.
LEMMA PiecesTell ==
  ASSUME NEW X, Str(X), NEW Y, Str(Y), NEW r, Rate(r), NEW h, NEW n,
         Pieces(X, r, h, n), Pieces(Y, r, h, n)
  PROVE  X = Y
<1> DEFINE x == Len(X)
           y == Len(Y)
<1>1. IsSeq(X) /\ IsSeq(Y) /\ x \in Nat /\ y \in Nat /\ r \in Nat \ {0}
  BY SeqLength DEF Str, Rate
<1>2. n = Blocks(x, r) /\ n = Blocks(y, r) /\ n \in Nat \ {0}
  BY <1>1, LastBlock DEF Pieces
<1>3. ASSUME NEW k \in 1 .. n
      PROVE  Block(X, r, k) = Block(Y, r, k) /\ SizeOf(x, r, k) = SizeOf(y, r, k)
  <2>1. PICK C \in 0 .. 255 : h[k].added = Padded(Block(X, r, k), C)
    BY SMTT(30) DEF Pieces
  <2>2. PICK D \in 0 .. 255 : h[k].added = Padded(Block(Y, r, k), D)
    BY DEF Pieces
  <2>3. Short(Block(X, r, k)) /\ Short(Block(Y, r, k))
    BY <1>2, BlocksAreShort
  <2>4. Block(X, r, k) = Block(Y, r, k)
    BY <2>1, <2>2, <2>3, PaddedTells
  <2>5. Len(Block(X, r, k)) = SizeOf(x, r, k) /\ Len(Block(Y, r, k)) = SizeOf(y, r, k)
    BY <1>1, <1>2, BlockIs
  <2> QED BY <2>4, <2>5
<1>4. x = y
  <2>1. n \in 1 .. n
    BY <1>2
  <2>2. (n - 1) * r + SizeOf(x, r, n) = x
    BY <1>1, <1>2, <2>1, EarlierBlock, ZenonT(40)
  <2>3. (n - 1) * r + SizeOf(y, r, n) = y
    BY <1>1, <1>2, <2>1, EarlierBlock
  <2>4. SizeOf(x, r, n) = SizeOf(y, r, n)
    BY <1>3, <2>1
  <2> HIDE DEF x, y
  <2> QED BY <2>2, <2>3, <2>4
<1>5. ASSUME NEW p \in 1 .. x PROVE X[p] = Y[p]
  <2>1. PICK k \in 1 .. n, j \in 1 .. r : p = (k - 1) * r + j /\ j <= SizeOf(x, r, k)
    BY <1>1, <1>2, PlaceInBlock
  <2>2. k \in 1 .. Blocks(x, r) /\ k \in 1 .. Blocks(y, r) /\ SizeOf(x, r, k) \in 0 .. r
    BY <1>1, <1>2, EarlierBlock
  <2>3. j \in 1 .. SizeOf(x, r, k) /\ j \in 1 .. SizeOf(y, r, k)
    BY <1>3, <2>1, <2>2
  <2>4. Block(X, r, k)[j] = X[(k - 1) * r + j]
    BY <1>1, <2>2, <2>3, BlockIs
  <2>5. Block(Y, r, k)[j] = Y[(k - 1) * r + j]
    BY <1>1, <2>2, <2>3, BlockIs
  <2> QED BY <1>3, <2>1, <2>4, <2>5
<1> QED BY <1>1, <1>4, <1>5, SameSeq

\* A block in, or a block out, after another.
LEMMA LinkIn ==
  ASSUME NEW d, Sound(d), d.phase = "Down", NEW B, Short(B), Len(B) # 0
  PROVE  LET z == Down(Up(d, 0), B, 0)
         IN  z = St(Grown(d, 0), Padded(B, 0), "Down", d.mode) /\ Link(d, z)
             /\ z.added = Padded(B, 0)
<1> DEFINE z == Down(Up(d, 0), B, 0)
           s == Grown(d, 0)
           m == d.mode
           C == IF m = "Hash" THEN 0 % 2 ELSE 0
<1>1. Up(d, 0) = St(s, Nothing, "Up", m)
  BY UpMove
<1> HIDE DEF s, m
<1>2. z = St(s, Padded(B, C), "Down", m)
  BY <1>1, DownMove
<1>3. C = 0
  OBVIOUS
<1> HIDE DEF z, C
<1>4. z = St(s, Padded(B, 0), "Down", m)
  BY <1>2, <1>3
<1>5. z.added = Padded(B, 0)
  BY <1>4, StFields
<1>6. Link(d, z)
  BY <1>4 DEF Link, s, m
<1> QED BY <1>4, <1>5, <1>6 DEF z, s, m

LEMMA LinkOut ==
  ASSUME NEW d, Sound(d), d.phase = "Up"
  PROVE  Link(d, Up(Down(d, <<>>, 0), 0))
<1> DEFINE s == d.s
           m == d.mode
           C == IF m = "Hash" THEN 0 % 2 ELSE 0
           e == <<>>
<1>1. d = St(s, Nothing, "Up", m)
  BY SoundIs
<1> HIDE DEF s, m, e
<1>2. Down(d, e, 0) = St(s, Padded(e, C), "Down", m)
  BY <1>1, DownMove
<1>3. C = 0
  OBVIOUS
<1> HIDE DEF C
<1>4. Down(d, e, 0) = Cyc(s, More, "Down", m, FALSE)
  BY <1>2, <1>3 DEF St, More, e
<1>5. \A k : Up(Cyc(s, More, "Down", m, k), 0)
               = Cyc(Append(s, Absorbed(s, Colored(More, m, 0))), Nothing, "Up", m, k)
  BY UpIs
<1>6. Colored(More, m, 0) = More /\ Absorbed(s, More) = More
  BY MoreStays, NoColor DEF Clean
<1>7. Up(Down(d, e, 0), 0) = St(Append(s, More), Nothing, "Up", m)
  BY <1>4, <1>5, <1>6 DEF St
<1> QED BY <1>7 DEF Link, s, m, e

-----------------------------------------------------------------------------
(* The blocks of an event.                                                 *)

\* An event as it is in a log.
EventOK(e, m) ==
  \/ e = <<"absorb", e[2]>> /\ Str(e[2])
  \/ e = <<"crypt", e[2]>> /\ Str(e[2]) /\ m = "Keyed"
  \/ e = <<"squeeze", e[2]>> /\ e[2] \in Nat \ {0}
  \/ e = <<"squeezeKey", e[2]>> /\ e[2] \in Nat \ {0} /\ m = "Keyed"
  \/ e = <<"ratchet">> /\ m = "Keyed"

RateOf(m) == IF m = "Keyed" THEN Rkin ELSE Rhash

\* The event e takes x through the states h.
Takes(e, x, h, n) ==
  /\ Blockwise(h, n) /\ Opens(e[1], x, h[1])
  /\ e[1] = "absorb" => Pieces(e[2], RateOf(x.mode), h, n)
  /\ e[1] = "crypt" => Pieces(e[2], Rkout, h, n)
  /\ e[1] \in {"squeeze", "squeezeKey"} => n = e[2]

LEMMA SoundFields ==
  ASSUME NEW x, Sound(x)
  PROVE  /\ IsCyc(x) /\ x.kernels = FALSE /\ x.Rabsorb = RateOf(x.mode)
         /\ x.Rsqueeze = (IF x.mode = "Keyed" THEN Rkout ELSE Rhash)
         /\ Rate(x.Rabsorb) /\ Rate(x.Rsqueeze)
<1> DEFINE s == x.s
           a == x.added
           ph == x.phase
           m == x.mode
<1>1. x = St(s, a, ph, m) /\ IsCyc(x)
  BY SoundIs
<1> HIDE DEF s, a, ph, m
<1>2. /\ x.kernels = FALSE /\ x.Rabsorb = RateOf(m)
      /\ x.Rsqueeze = (IF m = "Keyed" THEN Rkout ELSE Rhash)
  BY <1>1, StFields DEF RateOf
<1> QED BY <1>1, <1>2, RatesAre DEF RateOf, m

\* A call that absorbs goes through such states.
LEMMA AbsorbTakes ==
  ASSUME NEW x, Sound(x), NEW X, Str(X), x.mode = "Hash" => x.phase = "Up"
  PROVE  \E h, n : Takes(<<"absorb", X>>, x, h, n) /\ h[n] = Absorb(x, X)
<1> DEFINE m == x.mode
           r == x.Rabsorb
           n == Blocks(Len(X), r)
<1>1. IsCyc(x) /\ r = RateOf(m) /\ Rate(r) /\ r \in Nat \ {0} /\ IsSeq(X) /\ m \in {"Hash", "Keyed"}
  BY SoundFields DEF Rate, Str, Sound
<1>2. n \in Nat \ {0}
  BY <1>1, SeqLength, LastBlock
<1> HIDE DEF r
<1>3. PICK a : AbsorbRun(a, x, X, r, 3, n) /\ AbsorbAny(x, X, r, 3) = a[n]
  BY <1>2, AbsorbAnyRuns
<1> DEFINE B(k) == Block(X, r, k)
<1>4. \A k \in 1 .. n : Short(B(k)) /\ (k # 1 => Len(B(k)) # 0)
  BY <1>1, BlocksAreShort
<1> HIDE DEF n
<1>5. a[0] = x /\ \A k \in 1 .. n : a[k] = AbsorbBlock(a[k - 1], X, r, 3, k)
  BY <1>2, <1>3 DEF AbsorbRun
<1> DEFINE C == IF m = "Hash" THEN 1 ELSE 3
<1>6. a[1] = St(Entry(x), Padded(B(1), C), "Down", m)
  <2>1. AbsorbBlock(x, X, r, 3, 1) = InPlainly(x, X, r, 3, 1)
    BY <1>1, BlockAbsorbed
  <2>2. a[1] = AbsorbBlock(a[1 - 1], X, r, 3, 1) /\ 1 - 1 = 0
    BY <1>2, <1>5
  <2>3. ColorOf(3, 1) = 3 /\ 3 % 2 = 1
    BY DEF ColorOf
  <2>4. a[1] = Down(IF x.phase # "Up" THEN Up(x, 0) ELSE x, B(1), 3)
    BY <1>5, <2>1, <2>2, <2>3 DEF InPlainly
  <2> DEFINE s == Entry(x)
             b == B(1)
  <2>5. (IF x.phase # "Up" THEN Up(x, 0) ELSE x) = St(s, Nothing, "Up", m)
    <3>1. CASE x.phase = "Down"
      BY <3>1, UpMove DEF Entry
    <3>2. CASE x.phase = "Up"
      BY <3>2, SoundIs DEF Entry
    <3> QED BY <3>1, <3>2, SoundIs
  <2>6. a[1] = Down(St(s, Nothing, "Up", m), b, 3)
    BY <2>4, <2>5
  <2> HIDE DEF s, b, m
  <2>7. a[1] = St(s, Padded(b, IF m = "Hash" THEN 3 % 2 ELSE 3), "Down", m)
    BY <2>6, DownMove
  <2>8. (IF m = "Hash" THEN 3 % 2 ELSE 3) = C
    BY <2>3
  <2> QED BY <2>7, <2>8 DEF s, b
<1>7. Opens("absorb", x, a[1])
  <2>1. 1 \in 1 .. n
    BY <1>2
  <2>2. Short(B(1))
    BY <1>4, <2>1
  <2> QED BY <1>6, <2>2 DEF Opens
<1> HIDE DEF m
<1>8. Sound(a[1]) /\ FirstOf(a[1]) /\ a[1].phase = "Down" /\ a[1].added = Padded(B(1), C)
  <2> DEFINE s == Entry(x)
             p == Padded(B(1), C)
  <2>1. a[1] = St(s, p, "Down", m)
    BY <1>6
  <2> HIDE DEF s, p
  <2>2. a[1].phase = "Down" /\ a[1].added = p
    BY <2>1, StFields
  <2> QED BY <1>7, <2>2, OpensSound DEF p
<1>9. ASSUME NEW k \in 1 .. n - 1, Sound(a[k]), a[k].phase = "Down"
      PROVE  Link(a[k], a[k + 1]) /\ a[k + 1].added = Padded(B(k + 1), 0)
  <2> DEFINE l == k + 1
             d == a[k]
             b == B(l)
  <2>1. l \in 1 .. n /\ l - 1 = k /\ l \in Nat \ {0} /\ l # 1
    BY <1>2
  <2>2. Short(b) /\ Len(b) # 0
    BY <1>4, <2>1
  <2> HIDE DEF l
  <2>3. a[l] = AbsorbBlock(d, X, r, 3, l)
    BY <1>5, <2>1
  <2>4. IsCyc(d)
    BY <1>9, SoundIs
  <2>5. AbsorbBlock(d, X, r, 3, l) = InPlainly(d, X, r, 3, l)
    BY <1>9, <2>1, <2>4, BlockAbsorbed
  <2>6. ColorOf(3, l) = 0
    BY <2>1 DEF ColorOf
  <2> HIDE DEF b
  <2>7. InPlainly(d, X, r, 3, l) = Down(Up(d, 0), b, 0)
    BY <1>9, <2>6 DEF InPlainly, b
  <2> HIDE DEF d
  <2>8. Link(d, Down(Up(d, 0), b, 0)) /\ Down(Up(d, 0), b, 0).added = Padded(b, 0)
    BY <1>9, <2>2, LinkIn DEF d
  <2> QED BY <2>3, <2>5, <2>7, <2>8 DEF d, b, l
<1> HIDE DEF B
<1>10. Blockwise(a, n)
  BY <1>2, <1>8, <1>9, BlockwiseIs
<1>11. Pieces(X, r, a, n)
  <2>1. ASSUME NEW k \in 1 .. n PROVE \E D \in 0 .. 255 : a[k].added = Padded(Block(X, r, k), D)
    <3>1. CASE k = 1
      <4>1. C \in 0 .. 255
        OBVIOUS
      <4> QED BY <1>8, <3>1, <4>1 DEF B
    <3>2. CASE k # 1
      <4>1. k - 1 \in 1 .. n - 1 /\ k - 1 \in 1 .. n /\ (k - 1) + 1 = k
        BY <1>2, <3>2
      <4>2. Sound(a[k - 1]) /\ a[k - 1].phase = "Down"
        BY <1>8, <1>10, <4>1 DEF Blockwise
      <4>3. a[k].added = Padded(B(k), 0) /\ 0 \in 0 .. 255
        BY <1>9, <4>1, <4>2
      <4> QED BY <4>3 DEF B
    <3> QED BY <3>1, <3>2
  <2> QED BY <2>1 DEF Pieces, n
<1>12. Absorb(x, X) = a[n]
  BY <1>3 DEF Absorb, r
<1> DEFINE e == <<"absorb", X>>
<1>13. e[1] = "absorb" /\ e[2] = X
  OBVIOUS
<1> HIDE DEF e
<1>14. Takes(e, x, a, n)
  BY <1>1, <1>7, <1>10, <1>11, <1>13 DEF Takes, m
<1> QED BY <1>12, <1>14 DEF e

\* So does one that enciphers.
LEMMA CryptTakes ==
  ASSUME NEW x, Sound(x), NEW X, Str(X), x.mode = "Keyed"
  PROVE  \E h, n : Takes(<<"crypt", X>>, x, h, n) /\ h[n] = Encrypt(x, X).c
<1> DEFINE r == Rkout
           n == Blocks(Len(X), r)
           q == Encrypt(x, X)
<1>1. IsCyc(x) /\ Rate(r) /\ r \in Nat \ {0} /\ IsSeq(X)
  BY SoundIs, RatesAre DEF Rate, Str
<1>2. n \in Nat \ {0}
  BY <1>1, SeqLength, LastBlock
<1>3. PICK f : CryptedBy(q, f, x, X, FALSE)
  BY <1>1, CryptBy DEF Encrypt
<1> HIDE DEF q
<1>4. q.c = f[n] /\ TextRun(f, x, X, FALSE, n)
  <2>1. q = [c |-> f[n], O |-> q.O]
    BY <1>3, Zenon DEF CryptedBy
  <2>2. TextRun(f, x, X, FALSE, n)
    BY <1>3, Zenon DEF CryptedBy
  <2>3. q.c = f[n]
    <3> DEFINE O == q.O
               y == f[n]
    <3>1. q = [c |-> y, O |-> O]
      BY <2>1
    <3> HIDE DEF O, y
    <3>2. q.c = y
      BY <3>1
    <3> QED BY <3>2 DEF y
  <2> QED BY <2>2, <2>3
<1> DEFINE B(k) == Block(X, r, k)
<1>5. \A k \in 1 .. n : Short(B(k)) /\ (k # 1 => Len(B(k)) # 0)
  BY <1>1, BlocksAreShort
<1> HIDE DEF n
<1>6. /\ f[0] = x
      /\ \A k \in 1 .. n : f[k] = Down(Up(f[k - 1], IF k = 1 THEN 128 ELSE 0), B(k), 0)
  BY <1>4 DEF TextRun, CryptPlainly, CryptUp
<1> HIDE DEF B
<1>7. f[1] = St(Grown(x, 128), Padded(B(1), 0), "Down", "Keyed")
  <2> DEFINE s == Grown(x, 128)
             b == B(1)
             m == "Keyed"
  <2>1. 1 \in 1 .. n /\ 1 - 1 = 0
    BY <1>2
  <2>2. f[1] = Down(Up(x, 128), b, 0)
    BY <1>6, <2>1
  <2>3. Up(x, 128) = St(s, Nothing, "Up", m)
    BY UpMove
  <2>4. m # "Hash"
    OBVIOUS
  <2> HIDE DEF s, b, m
  <2>5. f[1] = St(s, Padded(b, IF m = "Hash" THEN 0 % 2 ELSE 0), "Down", m)
    BY <2>2, <2>3, DownMove
  <2> QED BY <2>4, <2>5 DEF s, b, m
<1>8. Opens("crypt", x, f[1])
  <2>1. Short(B(1))
    BY <1>2, <1>5
  <2> QED BY <1>7, <2>1 DEF Opens
<1>9. Sound(f[1]) /\ FirstOf(f[1]) /\ f[1].phase = "Down" /\ f[1].added = Padded(B(1), 0)
  <2> DEFINE s == Grown(x, 128)
             p == Padded(B(1), 0)
  <2>1. f[1] = St(s, p, "Down", "Keyed")
    BY <1>7
  <2> HIDE DEF s, p
  <2>2. f[1].phase = "Down" /\ f[1].added = p
    BY <2>1, StFields
  <2> QED BY <1>8, <2>2, OpensSound DEF p
<1>10. ASSUME NEW k \in 1 .. n - 1, Sound(f[k]), f[k].phase = "Down"
      PROVE  Link(f[k], f[k + 1]) /\ f[k + 1].added = Padded(B(k + 1), 0)
  <2> DEFINE l == k + 1
             d == f[k]
             b == B(l)
  <2>1. l \in 1 .. n /\ l - 1 = k /\ l # 1
    BY <1>2
  <2>2. Short(b) /\ Len(b) # 0
    BY <1>5, <2>1
  <2> HIDE DEF l
  <2>3. f[l] = Down(Up(d, 0), b, 0)
    BY <1>6, <2>1
  <2> HIDE DEF b, d
  <2>4. Link(d, Down(Up(d, 0), b, 0)) /\ Down(Up(d, 0), b, 0).added = Padded(b, 0)
    BY <1>10, <2>2, LinkIn DEF d
  <2> QED BY <2>3, <2>4 DEF d, b, l
<1>11. Blockwise(f, n)
  BY <1>2, <1>9, <1>10, BlockwiseIs
<1>12. Pieces(X, r, f, n)
  <2>1. ASSUME NEW k \in 1 .. n PROVE f[k].added = Padded(B(k), 0)
    <3>1. CASE k = 1
      BY <1>9, <3>1
    <3>2. CASE k # 1
      <4>1. k - 1 \in 1 .. n - 1 /\ k - 1 \in 1 .. n /\ (k - 1) + 1 = k
        BY <1>2, <3>2
      <4>2. Sound(f[k - 1]) /\ f[k - 1].phase = "Down"
        BY <1>9, <1>11, <4>1 DEF Blockwise
      <4> QED BY <1>10, <4>1, <4>2
    <3> QED BY <3>1, <3>2
  <2>2. 0 \in 0 .. 255
    OBVIOUS
  <2> QED BY <2>1, <2>2 DEF Pieces, n, B
<1> DEFINE e == <<"crypt", X>>
<1>13. e[1] = "crypt" /\ e[2] = X
  OBVIOUS
<1> HIDE DEF e
<1>14. Takes(e, x, f, n)
  BY <1>1, <1>8, <1>11, <1>12, <1>13 DEF Takes
<1> QED BY <1>4, <1>14 DEF e, q

\* The blocks of a call that squeezes.
LEMMA SqueezeBlocks ==
  ASSUME NEW x, Sound(x), NEW b \in Nat \ {0}, NEW Cu, NEW k, k \in {"squeeze", "squeezeKey"},
         Opens(k, x, Up(x, Cu))
  PROVE  \E h : /\ Blockwise(h, b) /\ h[1] = Up(x, Cu)
                /\ h[b] = SqueezeAny(x, b * x.Rsqueeze, Cu).c
<1> DEFINE r == x.Rsqueeze
           u == b * r
           q == SqueezeAny(x, u, Cu)
<1>1. IsCyc(x) /\ r \in Nat \ {0}
  BY SoundFields DEF Rate
<1>2. u \in Nat /\ Blocks(u, r) = b
  BY <1>1, WholeBlocks
<1>3. PICK f : SqueezedBy(q, f, x, u, Cu)
  BY <1>1, <1>2, SqueezeBy
<1> HIDE DEF q, r, u
<1>4. q.c = f[b] /\ OutRun(f, x, Cu, b)
  BY <1>2, <1>3 DEF SqueezedBy, r
<1>5. f[1] = Up(x, Cu)
  <2>1. 1 \in 1 .. b /\ 1 - 1 = 0
    OBVIOUS
  <2> QED BY <1>4, <2>1 DEF OutRun, OutPlainly
<1>6. Sound(f[1]) /\ FirstOf(f[1])
  BY <1>5, OpensSound
<1>7. f[1].phase = "Up"
  BY <1>1, <1>5, UpOf
<1>8. ASSUME NEW l \in 1 .. b - 1, Sound(f[l]), f[l].phase = f[1].phase
      PROVE  Link(f[l], f[l + 1])
  <2>1. l + 1 \in 1 .. b /\ (l + 1) - 1 = l /\ l + 1 # 1
    OBVIOUS
  <2>2. f[l + 1] = Up(Down(f[l], <<>>, 0), 0)
    BY <1>4, <2>1 DEF OutRun, OutPlainly
  <2> QED BY <1>7, <1>8, <2>2, LinkOut
<1>9. Blockwise(f, b)
  BY <1>6, <1>8, BlockwiseIs
<1> QED BY <1>4, <1>5, <1>9 DEF q, u, r

\* So do those that squeeze.
LEMMA SqueezeTakes ==
  ASSUME NEW x, Sound(x), NEW b \in Nat \ {0}
  PROVE  /\ \E h, n : Takes(<<"squeeze", b>>, x, h, n) /\ h[n] = Squeeze(x, b * x.Rsqueeze).c
         /\ x.mode = "Keyed" =>
              \E h, n : /\ Takes(<<"squeezeKey", b>>, x, h, n)
                        /\ h[n] = SqueezeKey(x, b * x.Rsqueeze).c
<1>1. \A Cu : Up(x, Cu) = St(Grown(x, Cu), Nothing, "Up", x.mode)
  BY UpMove
<1>2. ASSUME NEW Cu, NEW k, k \in {"squeeze", "squeezeKey"}, Opens(k, x, Up(x, Cu))
      PROVE  \E h, n : Takes(<<k, b>>, x, h, n) /\ h[n] = SqueezeAny(x, b * x.Rsqueeze, Cu).c
  <2>1. PICK h : /\ Blockwise(h, b) /\ h[1] = Up(x, Cu)
                 /\ h[b] = SqueezeAny(x, b * x.Rsqueeze, Cu).c
    BY <1>2, SqueezeBlocks
  <2> DEFINE e == <<k, b>>
  <2>2. e[1] = k /\ e[2] = b /\ k # "absorb" /\ k # "crypt"
    BY <1>2
  <2> HIDE DEF e
  <2>3. Takes(e, x, h, b)
    BY <1>2, <2>1, <2>2 DEF Takes
  <2> QED BY <2>1, <2>3 DEF e
<1>3. Opens("squeeze", x, Up(x, 64))
  BY <1>1 DEF Opens
<1>4. x.mode = "Keyed" => Opens("squeezeKey", x, Up(x, 32))
  BY <1>1 DEF Opens
<1> QED BY <1>2, <1>3, <1>4 DEF Squeeze, SqueezeKey

\* So does a ratchet.
LEMMA RatchetTakes ==
  ASSUME NEW x, Sound(x), x.mode = "Keyed"
  PROVE  \E h, n : Takes(<<"ratchet">>, x, h, n) /\ h[n] = Ratchet(x)
<1>1. PICK X : /\ Ratchet(x) = Down(Up(x, 16), X, 0)
               /\ IsSeq(X) /\ Len(X) = lRatchet
               /\ \A p \in 1 .. lRatchet : X[p] = {<<Up(x, 16).s, p>>}
  BY SoundIs, RatchetSteps
<1> DEFINE s == Grown(x, 16)
           m == "Keyed"
<1>2. Up(x, 16) = St(s, Nothing, "Up", m) /\ IsSeq(s)
  BY UpMove, GrownIs
<1>3. m # "Hash"
  OBVIOUS
<1>4. Short(X) /\ Len(X) # 0
  <2> HIDE DEF s, m
  <2>1. Up(x, 16).s = s
    BY <1>2, StFields
  <2>2. \A p \in 1 .. Len(X) : Terms(X[p])
    BY <1>1, <1>2, <2>1 DEF Terms, Term
  <2>3. Len(X) + 1 < bPrime /\ Len(X) # 0
    BY <1>1, Sizes
  <2> QED BY <1>1, <2>2, <2>3 DEF Short
<1>5. Ratchet(x) = St(s, Padded(X, 0), "Down", m)
  <2> HIDE DEF s, m
  <2>1. Ratchet(x) = St(s, Padded(X, IF m = "Hash" THEN 0 % 2 ELSE 0), "Down", m)
    BY <1>1, <1>2, DownMove
  <2> QED BY <1>3, <2>1
<1>6. Opens("ratchet", x, Ratchet(x))
  BY <1>4, <1>5 DEF Opens
<1> DEFINE h == [k \in 1 .. 1 |-> Ratchet(x)]
           e == <<"ratchet">>
<1>7. h[1] = Ratchet(x) /\ e[1] = "ratchet" /\ 1 \in Nat \ {0}
  OBVIOUS
<1> HIDE DEF h, e
<1>8. Blockwise(h, 1)
  <2>1. Sound(h[1]) /\ FirstOf(h[1])
    BY <1>6, <1>7, OpensSound
  <2> QED BY <1>7, <2>1, BlockwiseIs
<1>9. Takes(e, x, h, 1)
  BY <1>6, <1>7, <1>8 DEF Takes
<1> QED BY <1>7, <1>9 DEF e

-----------------------------------------------------------------------------
(* Events tell one another apart.                                          *)

\* Where in a log an event may stand.
MayFollow(e, x) == EventOK(e, x.mode) /\ (e[1] = "absorb" /\ x.mode = "Hash" => x.phase = "Up")

LEMMA EventForm ==
  ASSUME NEW e, NEW m, EventOK(e, m)
  PROVE  /\ e[1] \in {"absorb", "crypt", "squeeze", "squeezeKey", "ratchet"}
         /\ e[1] = "ratchet" => e = <<"ratchet">>
         /\ e[1] # "ratchet" => e = <<e[1], e[2]>>
         /\ e[1] \in {"absorb", "crypt"} => Str(e[2])
<1>1. CASE e = <<"absorb", e[2]>> /\ Str(e[2])
  <2>1. e[1] = "absorb"
    BY <1>1
  <2> QED BY <1>1, <2>1
<1>2. CASE e = <<"crypt", e[2]>> /\ Str(e[2])
  <2>1. e[1] = "crypt"
    BY <1>2
  <2> QED BY <1>2, <2>1
<1>3. CASE e = <<"squeeze", e[2]>>
  <2>1. e[1] = "squeeze"
    BY <1>3
  <2> QED BY <1>3, <2>1
<1>4. CASE e = <<"squeezeKey", e[2]>>
  <2>1. e[1] = "squeezeKey"
    BY <1>4
  <2> QED BY <1>4, <2>1
<1>5. CASE e = <<"ratchet">>
  <2>1. e[1] = "ratchet"
    BY <1>5
  <2> QED BY <1>5, <2>1
<1> QED BY <1>1, <1>2, <1>3, <1>4, <1>5 DEF EventOK

\* So does every event that may follow.
LEMMA EventTakes ==
  ASSUME NEW x, Sound(x), NEW e, MayFollow(e, x)
  PROVE  \E h, n : Takes(e, x, h, n) /\ h[n] = AfterEvent(x, e)
<1>1. CASE e = <<"absorb", e[2]>> /\ Str(e[2])
  <2> DEFINE X == e[2]
  <2>1. e[1] = "absorb"
    BY <1>1
  <2>2. AfterEvent(x, e) = Absorb(x, X)
    BY <2>1 DEF AfterEvent
  <2>3. x.mode = "Hash" => x.phase = "Up"
    BY <2>1 DEF MayFollow
  <2>4. Str(X) /\ e = <<"absorb", X>>
    BY <1>1
  <2> HIDE DEF X
  <2>5. \E h, n : Takes(<<"absorb", X>>, x, h, n) /\ h[n] = Absorb(x, X)
    BY <2>3, <2>4, AbsorbTakes
  <2> QED BY <2>2, <2>4, <2>5
<1>2. CASE e = <<"crypt", e[2]>> /\ Str(e[2]) /\ x.mode = "Keyed"
  <2> DEFINE X == e[2]
  <2>1. e[1] = "crypt"
    BY <1>2
  <2>2. AfterEvent(x, e) = Encrypt(x, X).c
    BY <2>1 DEF AfterEvent
  <2>3. Str(X) /\ e = <<"crypt", X>>
    BY <1>2
  <2> HIDE DEF X
  <2>4. \E h, n : Takes(<<"crypt", X>>, x, h, n) /\ h[n] = Encrypt(x, X).c
    BY <1>2, <2>3, CryptTakes
  <2> QED BY <2>2, <2>3, <2>4
<1>3. CASE e = <<"squeeze", e[2]>> /\ e[2] \in Nat \ {0}
  <2> DEFINE b == e[2]
  <2>1. e[1] = "squeeze"
    BY <1>3
  <2>2. AfterEvent(x, e) = Squeeze(x, b * x.Rsqueeze).c
    BY <2>1 DEF AfterEvent
  <2>3. b \in Nat \ {0} /\ e = <<"squeeze", b>>
    BY <1>3
  <2> HIDE DEF b
  <2>4. \E h, n : Takes(<<"squeeze", b>>, x, h, n) /\ h[n] = Squeeze(x, b * x.Rsqueeze).c
    BY <2>3, SqueezeTakes
  <2> QED BY <2>2, <2>3, <2>4
<1>4. CASE e = <<"squeezeKey", e[2]>> /\ e[2] \in Nat \ {0} /\ x.mode = "Keyed"
  <2> DEFINE b == e[2]
  <2>1. e[1] = "squeezeKey"
    BY <1>4
  <2>2. AfterEvent(x, e) = SqueezeKey(x, b * x.Rsqueeze).c
    BY <2>1 DEF AfterEvent
  <2>3. b \in Nat \ {0} /\ e = <<"squeezeKey", b>>
    BY <1>4
  <2> HIDE DEF b
  <2>4. \E h, n : Takes(<<"squeezeKey", b>>, x, h, n) /\ h[n] = SqueezeKey(x, b * x.Rsqueeze).c
    BY <1>4, <2>3, SqueezeTakes
  <2> QED BY <2>2, <2>3, <2>4
<1>5. CASE e = <<"ratchet">> /\ x.mode = "Keyed"
  <2>1. e[1] = "ratchet"
    BY <1>5
  <2>2. AfterEvent(x, e) = Ratchet(x)
    BY <2>1 DEF AfterEvent
  <2>3. \E h, n : Takes(<<"ratchet">>, x, h, n) /\ h[n] = Ratchet(x)
    BY <1>5, RatchetTakes
  <2> QED BY <1>5, <2>2, <2>3
<1> QED BY <1>1, <1>2, <1>3, <1>4, <1>5 DEF MayFollow, EventOK

\* What an event leaves.
LEMMA EventLeaves ==
  ASSUME NEW x, Sound(x), NEW e, MayFollow(e, x)
  PROVE  LET y == AfterEvent(x, e)
         IN  Sound(y) /\ y.mode = x.mode /\ (y.phase = "Up" <=> e[1] \in {"squeeze", "squeezeKey"})
<1>1. PICK h, n : Takes(e, x, h, n) /\ h[n] = AfterEvent(x, e)
  BY EventTakes
<1>2. n \in 1 .. n
  BY <1>1 DEF Takes, Blockwise
<1>3. Sound(h[n]) /\ h[n].mode = h[1].mode /\ h[n].phase = h[1].phase
  BY <1>1, <1>2 DEF Takes, Blockwise
<1>4. Sound(h[1]) /\ CallOf(h[1]) = e[1] /\ h[1].mode = x.mode /\ e[1] # "start"
  BY <1>1, OpensSound DEF Takes
<1>5. h[1].phase \in {"Up", "Down"}
  BY <1>4, SoundIs
<1>6. h[1].phase = "Up" <=> e[1] \in {"squeeze", "squeezeKey"}
  BY <1>4, <1>5 DEF CallOf
<1> QED BY <1>1, <1>3, <1>4, <1>6

LEMMA PiecesSame ==
  ASSUME NEW X, NEW r, NEW h, NEW g, NEW n, Pieces(X, r, g, n), \A k \in 1 .. n : h[k] = g[k]
  PROVE  Pieces(X, r, h, n)
BY ZenonT(40) DEF Pieces

\* The state after an event tells the event and the state before it.
LEMMA EventTells ==
  ASSUME NEW x, Sound(x), NEW e, MayFollow(e, x), NEW u, Sound(u), NEW d, MayFollow(d, u),
         AfterEvent(x, e) = AfterEvent(u, d)
  PROVE  e = d /\ x = u
<1>1. PICK h, n : Takes(e, x, h, n) /\ h[n] = AfterEvent(x, e)
  BY EventTakes
<1>2. PICK g, m : Takes(d, u, g, m) /\ g[m] = AfterEvent(u, d)
  BY EventTakes
<1>3. n = m /\ \A k \in 1 .. n : h[k] = g[k]
  <2>1. Blockwise(h, n) /\ Blockwise(g, m) /\ h[n] = g[m]
    BY <1>1, <1>2 DEF Takes
  <2> QED BY <2>1, OneCall
<1>4. h[1] = g[1]
  BY <1>1, <1>3 DEF Takes, Blockwise
<1>5. e[1] = d[1]
  <2>1. CallOf(h[1]) = e[1]
    BY <1>1, OpensSound DEF Takes
  <2>2. CallOf(g[1]) = d[1]
    BY <1>2, OpensSound DEF Takes
  <2> QED BY <1>4, <2>1, <2>2
<1>6. x = u
  <2>1. Opens(e[1], x, h[1]) /\ Opens(e[1], u, h[1])
    BY <1>1, <1>2, <1>4, <1>5 DEF Takes
  <2> QED BY <2>1, OpensBack
<1>7. CASE e[1] = "absorb"
  <2>1. e = <<"absorb", e[2]>> /\ d = <<"absorb", d[2]>> /\ Str(e[2]) /\ Str(d[2])
    BY <1>5, <1>7, EventForm DEF MayFollow
  <2>2. Pieces(e[2], RateOf(x.mode), h, n)
    BY <1>1, <1>7 DEF Takes
  <2>3. Pieces(d[2], RateOf(x.mode), g, n)
    BY <1>2, <1>3, <1>5, <1>6, <1>7 DEF Takes
  <2>4. Pieces(d[2], RateOf(x.mode), h, n)
    BY <1>3, <2>3, PiecesSame
  <2>5. Rate(RateOf(x.mode))
    BY RatesAre DEF RateOf
  <2>6. e[2] = d[2]
    BY <2>1, <2>2, <2>4, <2>5, PiecesTell
  <2> QED BY <1>6, <2>1, <2>6
<1>8. CASE e[1] = "crypt"
  <2>1. e = <<"crypt", e[2]>> /\ d = <<"crypt", d[2]>> /\ Str(e[2]) /\ Str(d[2])
    BY <1>5, <1>8, EventForm DEF MayFollow
  <2>2. Pieces(e[2], Rkout, h, n)
    BY <1>1, <1>8 DEF Takes
  <2>3. Pieces(d[2], Rkout, g, n)
    BY <1>2, <1>3, <1>5, <1>8 DEF Takes
  <2>4. Pieces(d[2], Rkout, h, n)
    BY <1>3, <2>3, PiecesSame
  <2>5. e[2] = d[2]
    BY <2>1, <2>2, <2>4, RatesAre, PiecesTell
  <2> QED BY <1>6, <2>1, <2>5
<1>9. CASE e[1] \in {"squeeze", "squeezeKey"}
  <2>1. e = <<e[1], e[2]>> /\ d = <<d[1], d[2]>>
    BY <1>5, <1>9, EventForm DEF MayFollow
  <2>2. e[2] = n /\ d[2] = m
    BY <1>1, <1>2, <1>5, <1>9 DEF Takes
  <2> QED BY <1>3, <1>5, <1>6, <2>1, <2>2
<1>10. CASE e[1] = "ratchet"
  <2>1. e = <<"ratchet">> /\ d = <<"ratchet">>
    BY <1>5, <1>10, EventForm DEF MayFollow
  <2> QED BY <1>6, <2>1
<1>11. e[1] \in {"absorb", "crypt", "squeeze", "squeezeKey", "ratchet"}
  BY EventForm DEF MayFollow
<1> QED BY <1>7, <1>8, <1>9, <1>10, <1>11

-----------------------------------------------------------------------------
(* The start.                                                              *)

\* The strings of the applications are made of units of input.
LEMMA DataIs ==
  ASSUME NEW X \in Data
  PROVE  Str(X)
<1>1. IsSeq(X)
  BY DEF IsSeq, Data
<1>2. ASSUME NEW p \in 1 .. Len(X), NEW t \in X[p] PROVE Term(t)
  <2>1. X[p] \subseteq InputTerms
    BY DEF Data
  <2>2. t \in [1 .. 1 -> Nat]
    BY <2>1, <1>2 DEF InputTerms
  <2>3. t = <<t[1]>>
    BY <2>2
  <2> QED BY <2>3 DEF Term
<1> QED BY <1>1, <1>2 DEF Str, Terms

\* The parameters of a start.
StartOK(st) == st \in [K : Data, ID : Data, counter : Data] /\ Fits(st)

\* What is absorbed first: the key, its identifier, and the length of that.
KeyInput(st) == st.K \o st.ID \o <<Byte(Len(st.ID))>>

Unit(b) == <<b>>

LEMMA UnitIs == \A b : IsSeq(Unit(b)) /\ Len(Unit(b)) = 1 /\ Unit(b)[1] = b
<1> TAKE b
<1>1. <<b>> \in Seq({b})
  OBVIOUS
<1> QED BY <1>1 DEF IsSeq, Unit

\* What is at the places of the block with the key.
LEMMA KeyInputIs ==
  ASSUME NEW st, StartOK(st), st.K # <<>>
  PROVE  /\ Str(KeyInput(st)) /\ Len(KeyInput(st)) = Len(st.K) + Len(st.ID) + 1
         /\ Len(st.K) \in Nat \ {0} /\ Len(st.ID) \in 0 .. 255 /\ Len(st.K) + Len(st.ID) + 1 <= Rkin
         /\ \A i \in 1 .. Len(st.K) : KeyInput(st)[i] = st.K[i]
         /\ \A i \in 1 .. Len(st.ID) : KeyInput(st)[Len(st.K) + i] = st.ID[i]
         /\ KeyInput(st)[Len(st.K) + Len(st.ID) + 1] = Byte(Len(st.ID))
<1> DEFINE K == st.K
           D == st.ID
           b == Byte(Len(D))
           k == Len(K)
           d == Len(D)
           X == KeyInput(st)
<1>1. Str(K) /\ Str(D) /\ IsSeq(K) /\ IsSeq(D) /\ k \in Nat /\ d \in Nat
  BY DataIs, SeqLength DEF StartOK, Str
<1>2. k # 0
  <2>1. K \in Data
    BY DEF StartOK
  <2> HIDE DEF K
  <2> QED BY <2>1 DEF Data, K
<1>3. k + d < Rkin /\ Rkin \in Nat /\ Rkin <= 256
  BY Sizes, CyclistAssumption DEF StartOK, Fits
<1>4. X = (K \o D) \o Unit(b)
  BY DEF KeyInput, Unit
<1>5. Terms(b)
  BY BytesAreInput
<1> HIDE DEF K, D, b, k, d, X
<1>6. /\ IsSeq(K \o D) /\ Len(K \o D) = k + d
      /\ \A i \in 1 .. k + d : (K \o D)[i] = IF i <= k THEN K[i] ELSE D[i - k]
  BY <1>1, Joined DEF k, d
<1> DEFINE Y == K \o D
<1> HIDE DEF Y
<1>7. /\ IsSeq(X) /\ Len(X) = k + d + 1
      /\ \A i \in 1 .. k + d + 1 : X[i] = IF i <= k + d THEN Y[i] ELSE Unit(b)[i - (k + d)]
  <2> DEFINE U == Unit(b)
  <2>1. IsSeq(Y) /\ Len(Y) = k + d /\ X = Y \o U
    BY <1>4, <1>6 DEF Y
  <2>2. IsSeq(U) /\ Len(U) = 1
    BY UnitIs
  <2> HIDE DEF U
  <2>3. /\ IsSeq(Y \o U) /\ Len(Y \o U) = Len(Y) + Len(U)
        /\ \A i \in 1 .. Len(Y) + Len(U) :
             (Y \o U)[i] = IF i <= Len(Y) THEN Y[i] ELSE U[i - Len(Y)]
    BY <2>1, <2>2, Joined
  <2> QED BY <2>1, <2>2, <2>3 DEF U
<1>8. /\ \A i \in 1 .. k : X[i] = K[i]
      /\ \A i \in 1 .. d : X[k + i] = D[i]
      /\ X[k + d + 1] = b
  <2>1. ASSUME NEW i \in 1 .. k PROVE X[i] = K[i]
    <3>1. i \in 1 .. k + d + 1 /\ i \in 1 .. k + d /\ i <= k + d /\ i <= k
      BY <1>1
    <3> QED BY <1>6, <1>7, <3>1 DEF Y
  <2>2. ASSUME NEW i \in 1 .. d PROVE X[k + i] = D[i]
    <3>1. k + i \in 1 .. k + d + 1 /\ k + i \in 1 .. k + d /\ k + i <= k + d /\ ~(k + i <= k)
          /\ (k + i) - k = i
      BY <1>1
    <3>2. X[k + i] = Y[k + i] /\ Y[k + i] = D[(k + i) - k]
      BY <1>6, <1>7, <3>1 DEF Y
    <3> QED BY <3>1, <3>2
  <2>3. X[k + d + 1] = b
    <3>1. k + d + 1 \in 1 .. k + d + 1 /\ ~(k + d + 1 <= k + d) /\ (k + d + 1) - (k + d) = 1
      BY <1>1
    <3>2. X[k + d + 1] = Unit(b)[1]
      BY <1>7, <3>1
    <3> QED BY <3>2, UnitIs
  <2> QED BY <2>1, <2>2, <2>3
<1>9. ASSUME NEW p \in 1 .. k + d + 1 PROVE Terms(X[p])
  <2>1. CASE p \in 1 .. k
    BY <1>1, <1>8, <2>1 DEF Str, k
  <2>2. CASE p - k \in 1 .. d
    <3>1. k + (p - k) = p
      BY <1>1
    <3> QED BY <1>1, <1>8, <2>2, <3>1 DEF Str, d
  <2>3. CASE p = k + d + 1
    BY <1>5, <1>8, <2>3
  <2> QED BY <1>1, <2>1, <2>2, <2>3
<1>10. d \in 0 .. 255 /\ k + d + 1 <= Rkin
  <2>1. k \in Nat /\ d \in Nat /\ k # 0
    BY <1>1, <1>2
  <2>2. k + d < Rkin /\ Rkin \in Nat /\ Rkin <= 256
    BY <1>3
  <2> QED BY <2>1, <2>2
<1> QED BY <1>1, <1>2, <1>7, <1>8, <1>9, <1>10 DEF Str, K, D, k, d, b, X

\* It tells the key and the identifier, since the last byte is the length of that.
LEMMA KeyInputTells ==
  ASSUME NEW x, StartOK(x), x.K # <<>>, NEW y, StartOK(y), y.K # <<>>, KeyInput(x) = KeyInput(y)
  PROVE  x.K = y.K /\ x.ID = y.ID
<1> DEFINE X == KeyInput(x)
           Y == KeyInput(y)
           k == Len(x.K)
           d == Len(x.ID)
           l == Len(y.K)
           e == Len(y.ID)
<1>1. /\ Len(X) = k + d + 1 /\ k \in Nat /\ d \in 0 .. 255
      /\ (\A i \in 1 .. k : X[i] = x.K[i]) /\ (\A i \in 1 .. d : X[k + i] = x.ID[i])
      /\ X[k + d + 1] = Byte(d)
  BY KeyInputIs, ZenonT(40)
<1>2. /\ Len(Y) = l + e + 1 /\ l \in Nat /\ e \in 0 .. 255
      /\ (\A i \in 1 .. l : Y[i] = y.K[i]) /\ (\A i \in 1 .. e : Y[l + i] = y.ID[i])
      /\ Y[l + e + 1] = Byte(e)
  BY KeyInputIs
<1>3. IsSeq(x.K) /\ IsSeq(x.ID) /\ IsSeq(y.K) /\ IsSeq(y.ID)
  BY DataIs DEF StartOK, Str
<1>4. X = Y
  OBVIOUS
<1> HIDE DEF X, Y, k, d, l, e
<1>5. k + d + 1 = l + e + 1
  BY <1>1, <1>2, <1>4, SMTT(30)
<1>6. d = e
  BY <1>1, <1>2, <1>4, <1>5, ByteTells, ZenonT(40)
<1>7. k = l
  BY <1>1, <1>2, <1>5, <1>6
<1>8. x.K = y.K
  <2>1. \A i \in 1 .. k : x.K[i] = y.K[i]
    BY <1>1, <1>2, <1>4, <1>7
  <2> QED BY <1>3, <1>7, <2>1, SameSeq DEF k, l
<1>9. x.ID = y.ID
  <2>1. \A i \in 1 .. d : x.ID[i] = y.ID[i]
    BY <1>1, <1>2, <1>4, <1>6, <1>7
  <2> QED BY <1>3, <1>6, <2>1, SameSeq DEF d, e
<1> QED BY <1>8, <1>9, SMTT(30)

Tail1(h, n) == [k \in 1 .. n - 1 |-> h[k + 1]]

\* The start st leads through the states h.
Begins(st, h, n) ==
  /\ Blockwise(h, n) /\ OpensAll(h[1])
  /\ IF st.K = <<>> THEN h[1].mode = "Hash"
     ELSE /\ h[1].mode = "Keyed" /\ Pieces(KeyInput(st), Rkin, h, 1)
          /\ IF st.counter = <<>> THEN n = 1 ELSE n > 1 /\ Pieces(st.counter, 1, Tail1(h, n), n - 1)

\* The state after a start tells its parameters.
LEMMA BeginsTells ==
  ASSUME NEW x, StartOK(x), NEW y, StartOK(y), NEW h, NEW n, Begins(x, h, n),
         NEW g, NEW m, Begins(y, g, m), h[n] = g[m]
  PROVE  x = y
<1>1. n = m /\ \A k \in 1 .. n : h[k] = g[k]
  BY OneCall DEF Begins
<1>2. n \in Nat \ {0} /\ h[1] = g[1]
  BY <1>1 DEF Begins, Blockwise
<1>3. x.K = <<>> <=> y.K = <<>>
  BY <1>2 DEF Begins
<1>4. x = [K |-> x.K, ID |-> x.ID, counter |-> x.counter]
      /\ y = [K |-> y.K, ID |-> y.ID, counter |-> y.counter]
  BY DEF StartOK
<1>5. CASE x.K = <<>>
  <2>1. x.ID = <<>> /\ x.counter = <<>> /\ y.ID = <<>> /\ y.counter = <<>> /\ y.K = <<>>
    BY <1>3, <1>5 DEF StartOK, Fits
  <2> QED BY <1>4, <1>5, <2>1
<1>6. CASE x.K # <<>>
  <2>1. Pieces(KeyInput(x), Rkin, h, 1) /\ Pieces(KeyInput(y), Rkin, g, 1)
    BY <1>3, <1>6 DEF Begins
  <2>2. Pieces(KeyInput(y), Rkin, h, 1)
    BY <1>2, <2>1, PiecesSame, SMTT(30)
  <2>3. Str(KeyInput(x)) /\ Str(KeyInput(y)) /\ Rate(Rkin) /\ Rate(1)
    BY <1>3, <1>6, KeyInputIs, RatesAre
  <2>4. KeyInput(x) = KeyInput(y)
    BY <2>1, <2>2, <2>3, PiecesTell
  <2>5. x.K = y.K /\ x.ID = y.ID
    BY <1>3, <1>6, <2>4, KeyInputTells
  <2>6. x.counter = y.counter
    <3>1. CASE n = 1
      BY <1>1, <1>3, <1>6, <3>1 DEF Begins
    <3>2. CASE n # 1
      <4>1. Pieces(x.counter, 1, Tail1(h, n), n - 1) /\ Pieces(y.counter, 1, Tail1(g, n), n - 1)
        BY <1>1, <1>3, <1>6, <3>2 DEF Begins
      <4>2. \A k \in 1 .. n - 1 : Tail1(h, n)[k] = Tail1(g, n)[k]
        BY <1>1, <1>2 DEF Tail1
      <4>3. Pieces(y.counter, 1, Tail1(h, n), n - 1)
        BY <4>1, <4>2, PiecesSame
      <4>4. Str(x.counter) /\ Str(y.counter)
        BY DataIs DEF StartOK
      <4> QED BY <2>3, <4>1, <4>3, <4>4, PiecesTell
    <3> QED BY <3>1, <3>2
  <2> QED BY <1>4, <2>5, <2>6
<1> QED BY <1>5, <1>6

\* The key is absorbed in one block, the first of all.
LEMMA KeyBlock ==
  ASSUME NEW st, StartOK(st), st.K # <<>>
  PROVE  LET z == AbsorbAny(KeyedMode(Unkeyed(FALSE)), KeyInput(st), Rkin, 2)
         IN  OpensAll(z) /\ z.mode = "Keyed" /\ z.phase = "Down" /\ Sound(z) /\ FirstOf(z)
             /\ Pieces(KeyInput(st), Rkin, [k \in 1 .. 1 |-> z], 1)
<1> DEFINE X == KeyInput(st)
           c == KeyedMode(Unkeyed(FALSE))
           z == AbsorbAny(c, X, Rkin, 2)
           B == Block(X, Rkin, 1)
           s == <<>>
           m == "Keyed"
<1>1. Str(X) /\ Len(X) \in Nat \ {0} /\ Len(X) <= Rkin /\ Rkin \in Nat \ {0} /\ Rate(Rkin)
  <2>1. /\ Str(X) /\ Len(X) = Len(st.K) + Len(st.ID) + 1 /\ Len(st.K) \in Nat \ {0}
        /\ Len(st.ID) \in 0 .. 255 /\ Len(st.K) + Len(st.ID) + 1 <= Rkin
    BY KeyInputIs
  <2> DEFINE x == Len(X)
             k == Len(st.K)
             d == Len(st.ID)
  <2>3. x = k + d + 1 /\ k \in Nat \ {0} /\ d \in 0 .. 255 /\ k + d + 1 <= Rkin
    BY <2>1
  <2> HIDE DEF x, k, d
  <2>2. x \in Nat \ {0} /\ x <= Rkin
    BY <2>3
  <2> QED BY <2>1, <2>2, Sizes, RatesAre DEF x
<1>2. c = St(s, Nothing, "Up", m) /\ c.phase = "Up" /\ IsCyc(c)
  <2> DEFINE u == Unkeyed(FALSE)
  <2>1. PICK no : no = FALSE
    OBVIOUS
  <2>2. Unkeyed(no) = Cyc(s, Nothing, "Up", "Hash", no)
    BY UnkeyedIs
  <2>3. IsSeq(s) /\ Units(Nothing)
    BY EmptyIs, UnitsAdded
  <2> HIDE DEF s, u
  <2>4. IsCyc(Cyc(s, Nothing, "Up", "Hash", no))
    BY <2>1, <2>3, CycIs
  <2>5. u.s = s /\ u.added = Nothing /\ u.phase = "Up" /\ u.kernels = no /\ IsCyc(u)
    <3>1. u = Cyc(s, Nothing, "Up", "Hash", no)
      BY <2>1, <2>2 DEF u
    <3>2. /\ Cyc(s, Nothing, "Up", "Hash", no).s = s
          /\ Cyc(s, Nothing, "Up", "Hash", no).added = Nothing
          /\ Cyc(s, Nothing, "Up", "Hash", no).phase = "Up"
          /\ Cyc(s, Nothing, "Up", "Hash", no).kernels = no
      BY CycFields
    <3> QED BY <2>4, <3>1, <3>2
  <2>6. c = Cyc(s, Nothing, "Up", "Keyed", no) /\ IsCyc(c)
    BY <2>5, KeyedIs DEF u
  <2>7. c = St(s, Nothing, "Up", m)
    BY <2>1, <2>6 DEF St
  <2> HIDE DEF m
  <2>8. St(s, Nothing, "Up", m).phase = "Up"
    BY StFields
  <2> QED BY <2>6, <2>7, <2>8
<1>3. Blocks(Len(X), Rkin) = 1
  BY <1>1, OneBlock
<1> HIDE DEF c, X
<1>4. PICK a : AbsorbRun(a, c, X, Rkin, 2, 1) /\ z = a[1]
  BY <1>3, AbsorbAnyRuns
<1> HIDE DEF z
<1>5. z = InPlainly(c, X, Rkin, 2, 1)
  <2>1. a[0] = c /\ a[1] = AbsorbBlock(a[1 - 1], X, Rkin, 2, 1) /\ 1 - 1 = 0
    BY <1>4 DEF AbsorbRun
  <2>2. AbsorbBlock(c, X, Rkin, 2, 1) = InPlainly(c, X, Rkin, 2, 1)
    BY <1>2, BlockAbsorbed
  <2> QED BY <1>4, <2>1, <2>2
<1>6. z = Down(c, B, 2)
  BY <1>2, <1>5 DEF InPlainly, ColorOf
<1>7. m # "Hash"
  OBVIOUS
<1>8. Short(B)
  BY <1>1, <1>3, BlocksAreShort
<1> HIDE DEF B, s, m
<1>9. z = St(s, Padded(B, 2), "Down", m)
  <2>1. z = St(s, Padded(B, IF m = "Hash" THEN 2 % 2 ELSE 2), "Down", m)
    BY <1>2, <1>6, DownMove
  <2> QED BY <1>7, <2>1
<1>10. z.mode = m /\ z.phase = "Down" /\ z.added = Padded(B, 2)
  BY <1>9, StFields
<1>11. OpensAll(z)
  BY <1>8, <1>9 DEF OpensAll, s, m
<1>12. Pieces(X, Rkin, [k \in 1 .. 1 |-> z], 1)
  <2> SUFFICES ASSUME NEW k \in 1 .. 1
               PROVE  \E C \in 0 .. 255 : [l \in 1 .. 1 |-> z][k].added = Padded(Block(X, Rkin, k), C)
    BY <1>3 DEF Pieces
  <2>1. k = 1 /\ [l \in 1 .. 1 |-> z][k] = z /\ 2 \in 0 .. 255
    OBVIOUS
  <2> QED BY <1>10, <2>1 DEF B
<1> QED BY <1>10, <1>11, <1>12, OpensAllSound DEF z, c, X, m

\* A start goes through such states.
LEMMA StartTakes ==
  ASSUME NEW st, StartOK(st)
  PROVE  \E h, n : Begins(st, h, n) /\ h[n] = PlainStart(st.K, st.ID, st.counter)
<1>1. CASE st.K = <<>>
  <2> DEFINE z == Unkeyed(FALSE)
             h == [k \in 1 .. 1 |-> z]
             s == <<>>
             m == "Hash"
  <2>1. PlainStart(st.K, st.ID, st.counter) = z
    BY <1>1 DEF PlainStart, Initialize
  <2>2. z = St(s, Nothing, "Up", m)
    <3>1. PICK no : no = FALSE
      OBVIOUS
    <3>2. Unkeyed(no) = Cyc(s, Nothing, "Up", m, no)
      BY UnkeyedIs
    <3> QED BY <3>1, <3>2 DEF St
  <2>3. OpensAll(z)
    BY <2>2 DEF OpensAll
  <2>4. h[1] = z /\ 1 \in Nat \ {0}
    OBVIOUS
  <2> HIDE DEF z, h, s, m
  <2>5. z.mode = m
    BY <2>2, StFields
  <2>6. Blockwise(h, 1)
    BY <2>3, <2>4, OpensAllSound, BlockwiseIs
  <2>7. Begins(st, h, 1)
    BY <1>1, <2>3, <2>4, <2>5, <2>6 DEF Begins, m
  <2> QED BY <2>1, <2>4, <2>7
<1>2. CASE st.K # <<>>
  <2> DEFINE X == st.counter
             z == AbsorbAny(KeyedMode(Unkeyed(FALSE)), KeyInput(st), Rkin, 2)
             g == [k \in 1 .. 1 |-> z]
  <2>1. PlainStart(st.K, st.ID, X) = IF X # <<>> THEN AbsorbAny(z, X, 1, 0) ELSE z
    BY <1>2 DEF PlainStart, Initialize, AbsorbKey, KeyInput
  <2>2. OpensAll(z) /\ z.mode = "Keyed" /\ z.phase = "Down" /\ Sound(z) /\ FirstOf(z)
        /\ Pieces(KeyInput(st), Rkin, g, 1)
    BY <1>2, KeyBlock
  <2>3. g[1] = z /\ 1 \in Nat \ {0}
    OBVIOUS
  <2>4. Str(X) /\ IsSeq(X) /\ Rate(1)
    BY DataIs, RatesAre DEF StartOK, Str
  <2> HIDE DEF z, g
  <2>5. CASE X = <<>>
    <3>1. Blockwise(g, 1)
      BY <2>2, <2>3, BlockwiseIs
    <3>2. Begins(st, g, 1)
      BY <1>2, <2>2, <2>3, <2>5, <3>1 DEF Begins
    <3> QED BY <2>1, <2>3, <2>5, <3>2
  <2>6. CASE X # <<>>
    <3> DEFINE b == Blocks(Len(X), 1)
    <3>1. Len(X) \in Nat /\ b \in Nat \ {0}
      <4>1. Len(X) \in Nat /\ 1 \in Nat \ {0}
        BY <2>4, SeqLength
      <4> HIDE DEF X
      <4> QED BY <4>1, LastBlock
    <3>2. PICK a : AbsorbRun(a, z, X, 1, 0, b) /\ AbsorbAny(z, X, 1, 0) = a[b]
      BY <3>1, AbsorbAnyRuns
    <3>3. \A k \in 1 .. b : Short(Block(X, 1, k)) /\ Len(Block(X, 1, k)) # 0
      <4> TAKE k \in 1 .. b
      <4>1. Short(Block(X, 1, k)) /\ (k # 1 => Len(Block(X, 1, k)) # 0)
        BY <2>4, BlocksAreShort
      <4>2. Len(X) # 0
        BY <2>4, <2>6, EmptyIs, SameSeq
      <4>3. CASE k = 1
        <5>1. SizeOf(Len(X), 1, 1) = 1
          BY <3>1, <4>2 DEF SizeOf
        <5>2. Len(Block(X, 1, k)) = SizeOf(Len(X), 1, k)
          BY <2>4, BlockIs
        <5> QED BY <4>1, <4>3, <5>1, <5>2
      <4> QED BY <4>1, <4>3
    <3> HIDE DEF b, X
    <3>4. a[0] = z /\ \A k \in 1 .. b : a[k] = AbsorbBlock(a[k - 1], X, 1, 0, k)
      BY <3>1, <3>2 DEF AbsorbRun
    <3> DEFINE n == b + 1
               h == [k \in 1 .. n |-> a[k - 1]]
    <3>5. ASSUME NEW k \in 1 .. b, Sound(h[k]), h[k].phase = "Down"
          PROVE  Link(h[k], h[k + 1]) /\ h[k + 1].added = Padded(Block(X, 1, k), 0)
      <4> DEFINE d == a[k - 1]
                 B == Block(X, 1, k)
      <4>1. h[k] = d /\ h[k + 1] = a[k]
        <5>1. k \in 1 .. n /\ k + 1 \in 1 .. n /\ (k + 1) - 1 = k
          BY <3>1
        <5> HIDE DEF n
        <5> QED BY <5>1
      <4>2. k \in Nat \ {0} /\ ColorOf(0, k) = 0
        BY <3>1 DEF ColorOf
      <4> HIDE DEF h, d
      <4>3. Sound(d) /\ d.phase = "Down" /\ IsCyc(d)
        BY <3>5, <4>1, SoundIs
      <4>4. a[k] = AbsorbBlock(d, X, 1, 0, k)
        BY <3>4 DEF d
      <4>5. AbsorbBlock(d, X, 1, 0, k) = InPlainly(d, X, 1, 0, k)
        BY <4>2, <4>3, BlockAbsorbed
      <4>6. InPlainly(d, X, 1, 0, k) = Down(Up(d, 0), B, 0)
        BY <4>2, <4>3 DEF InPlainly
      <4>7. Short(B) /\ Len(B) # 0
        BY <3>3
      <4> HIDE DEF B
      <4>8. Link(d, Down(Up(d, 0), B, 0)) /\ Down(Up(d, 0), B, 0).added = Padded(B, 0)
        BY <4>3, <4>7, LinkIn
      <4> QED BY <4>1, <4>4, <4>5, <4>6, <4>8 DEF B
    <3>6. h[1] = z /\ h[n] = a[b] /\ n \in Nat \ {0} /\ n > 1 /\ n - 1 = b
      <4>1. n \in Nat \ {0} /\ n > 1 /\ n - 1 = b /\ 1 \in 1 .. n /\ n \in 1 .. n /\ 1 - 1 = 0
        BY <3>1
      <4> HIDE DEF n
      <4>2. h[1] = a[1 - 1] /\ h[n] = a[n - 1]
        BY <4>1
      <4> QED BY <3>4, <4>1, <4>2
    <3> HIDE DEF n, h
    <3>7. Blockwise(h, n)
      BY <2>2, <3>5, <3>6, BlockwiseIs
    <3>8. Pieces(X, 1, Tail1(h, n), n - 1)
      <4> SUFFICES ASSUME NEW k \in 1 .. b
                   PROVE  \E C \in 0 .. 255 : Tail1(h, n)[k].added = Padded(Block(X, 1, k), C)
        BY <3>6 DEF Pieces, b
      <4>1. Tail1(h, n)[k] = h[k + 1] /\ k \in 1 .. n
        BY <3>6 DEF Tail1
      <4>2. Sound(h[k]) /\ h[k].phase = "Down"
        BY <2>2, <3>6, <3>7, <4>1 DEF Blockwise
      <4>3. h[k + 1].added = Padded(Block(X, 1, k), 0) /\ 0 \in 0 .. 255
        BY <3>5, <4>2
      <4> QED BY <4>1, <4>3, SMTT(30)
    <3>9. Pieces(KeyInput(st), Rkin, h, 1)
      BY <2>2, <2>3, <3>6, PiecesSame
    <3>10. Begins(st, h, n)
      BY <1>2, <2>2, <2>6, <3>6, <3>7, <3>8, <3>9 DEF Begins, X
    <3> QED BY <2>1, <2>6, <3>2, <3>6, <3>10 DEF X
  <2> QED BY <2>5, <2>6
<1> QED BY <1>1, <1>2

-----------------------------------------------------------------------------
(* The state tells the whole log.                                          *)

ModeOf(st) == IF st.K = <<>> THEN "Hash" ELSE "Keyed"

\* A start leaves a sound state, in the phase Up if there is no key.
LEMMA StartLeaves ==
  ASSUME NEW st, StartOK(st)
  PROVE  LET c == PlainStart(st.K, st.ID, st.counter)
         IN  Sound(c) /\ c.mode = ModeOf(st) /\ (c.mode = "Hash" => c.phase = "Up")
<1>1. PICK h, n : Begins(st, h, n) /\ h[n] = PlainStart(st.K, st.ID, st.counter)
  BY StartTakes, Zenon
<1>2. n \in Nat \ {0} /\ Sound(h[n]) /\ h[n].mode = h[1].mode /\ h[n].phase = h[1].phase
  BY <1>1 DEF Begins, Blockwise
<1>3. OpensAll(h[1])
  BY <1>1, Zenon DEF Begins
<1>4. h[1].mode = "Hash" => h[1].phase = "Up"
  <2>1. ASSUME NEW B, h[1] = St(<<>>, Padded(B, 2), "Down", "Keyed") PROVE h[1].mode = "Keyed"
    BY <2>1, StFields
  <2>2. ASSUME h[1] = St(<<>>, Nothing, "Up", "Hash") PROVE h[1].phase = "Up"
    BY <2>2, StFields
  <2>3. "Hash" # "Keyed"
    OBVIOUS
  <2> QED BY <1>3, <2>1, <2>2, <2>3 DEF OpensAll
<1>5. h[1].mode = ModeOf(st)
  BY <1>1, Zenon DEF Begins, ModeOf
<1> QED BY <1>1, <1>2, <1>4, <1>5, Zenon

\* No call leaves the state that a start leaves.
LEMMA StartIsNoEvent ==
  ASSUME NEW st, StartOK(st), NEW x, Sound(x), NEW e, MayFollow(e, x),
         PlainStart(st.K, st.ID, st.counter) = AfterEvent(x, e)
  PROVE  FALSE
<1>1. PICK h, n : Begins(st, h, n) /\ h[n] = PlainStart(st.K, st.ID, st.counter)
  BY StartTakes, Zenon
<1>2. PICK g, m : Takes(e, x, g, m) /\ g[m] = AfterEvent(x, e)
  BY EventTakes, Zenon
<1>3. Blockwise(h, n) /\ Blockwise(g, m) /\ h[n] = g[m] /\ OpensAll(h[1]) /\ Opens(e[1], x, g[1])
  BY <1>1, <1>2, Zenon DEF Begins, Takes
<1>4. n \in Nat \ {0} /\ h[1] = g[1]
  BY <1>3, OneCall DEF Blockwise
<1>5. CallOf(h[1]) = "start"
  BY <1>3, OpensAllSound, Zenon
<1>6. CallOf(g[1]) = e[1] /\ e[1] # "start"
  BY <1>3, OpensSound
<1> QED BY <1>4, <1>5, <1>6, Zenon

\* Two starts that leave the same state are the same.
LEMMA StartTells ==
  ASSUME NEW st, StartOK(st), NEW su, StartOK(su),
         PlainStart(st.K, st.ID, st.counter) = PlainStart(su.K, su.ID, su.counter)
  PROVE  st = su
<1>1. PICK h, n : Begins(st, h, n) /\ h[n] = PlainStart(st.K, st.ID, st.counter)
  BY StartTakes, Zenon
<1>2. PICK g, m : Begins(su, g, m) /\ g[m] = PlainStart(su.K, su.ID, su.counter)
  BY StartTakes, Zenon
<1> QED BY <1>1, <1>2, BeginsTells, Zenon

\* A log of calls that can be made, with an output between two strings that are
\* absorbed without a key.
GoodLog(L) ==
  /\ IsSeq(L) /\ Len(L) # 0
  /\ L[1] = <<"start", L[1][2]>> /\ StartOK(L[1][2])
  /\ \A k \in 1 .. Len(L) - 1 :
       /\ EventOK(L[k + 1], ModeOf(L[1][2]))
       /\ ModeOf(L[1][2]) = "Hash" /\ L[k + 1][1] = "absorb" => L[k][1] # "absorb"

\* The state after an event.
Reached(y, e, m) ==
  Sound(y) /\ y.mode = m /\ (m = "Hash" => (y.phase = "Up" <=> e[1] # "absorb"))

LEMMA ReachedMayFollow ==
  ASSUME NEW y, NEW d, NEW m, Reached(y, d, m), NEW e, EventOK(e, m),
         m = "Hash" /\ e[1] = "absorb" => d[1] # "absorb"
  PROVE  Sound(y) /\ MayFollow(e, y)
BY DEF Reached, MayFollow

\* The next event leaves a sound state again.
LEMMA ReachedNext ==
  ASSUME NEW y, NEW d, NEW m, Reached(y, d, m), NEW e, EventOK(e, m),
         m = "Hash" /\ e[1] = "absorb" => d[1] # "absorb"
  PROVE  Reached(AfterEvent(y, e), e, m)
<1>1. Sound(y) /\ MayFollow(e, y) /\ y.mode = m
  BY ReachedMayFollow DEF Reached
<1> DEFINE z == AfterEvent(y, e)
<1>2. Sound(z) /\ z.mode = y.mode /\ (z.phase = "Up" <=> e[1] \in {"squeeze", "squeezeKey"})
  BY <1>1, EventLeaves, Zenon
<1>3. e[1] \in {"absorb", "crypt", "squeeze", "squeezeKey", "ratchet"}
  BY EventForm, Zenon
<1>4. m = "Hash" => e[1] \in {"absorb", "squeeze"}
  <2>1. \A b : <<"absorb", b>>[1] = "absorb" /\ <<"squeeze", b>>[1] = "squeeze"
    OBVIOUS
  <2>2. m = "Hash" => m # "Keyed"
    OBVIOUS
  <2>3. m = "Hash" => (e = <<"absorb", e[2]>> \/ e = <<"squeeze", e[2]>>)
    BY <2>2, Zenon DEF EventOK
  <2> QED BY <2>1, <2>3
<1> HIDE DEF z
<1>5. Reached(z, e, m)
  BY <1>1, <1>2, <1>4 DEF Reached
<1> QED BY <1>5 DEF z

\* A good log leads through sound states.
LEMMA TraceSound ==
  ASSUME NEW L, GoodLog(L), NEW f, NEW c, Leads(f, L, c)
  PROVE  \A k \in 1 .. Len(L) : Reached(f[k], L[k], ModeOf(L[1][2]))
<1> DEFINE m == ModeOf(L[1][2])
           T == {n \in Nat : n < Len(L) => Reached(f[n + 1], L[n + 1], m)}
<1>1. Len(L) \in Nat
  BY SeqLength DEF GoodLog
<1>2. 0 \in T
  <2>1. L[1] = <<"start", L[1][2]>> /\ StartOK(L[1][2])
    BY DEF GoodLog
  <2>2. f[1] = PlainStart(L[1][2].K, L[1][2].ID, L[1][2].counter)
    BY Zenon DEF Leads, StartedBy
  <2>3. Sound(f[1]) /\ f[1].mode = m /\ (m = "Hash" => f[1].phase = "Up")
    BY <2>1, <2>2, StartLeaves, Zenon
  <2>4. L[1][1] # "absorb"
    BY <2>1
  <2> HIDE DEF m
  <2>5. Reached(f[1], L[1], m)
    BY <2>3, <2>4, Zenon DEF Reached
  <2> QED BY <2>5
<1>3. ASSUME NEW n \in Nat, n \in T PROVE n + 1 \in T
  <2>1. CASE ~(n + 1 < Len(L))
    BY <2>1
  <2>2. CASE n + 1 < Len(L)
    <3>1. n + 1 \in 1 .. Len(L) - 1 /\ n < Len(L)
      BY <1>1, <2>2
    <3>2. /\ EventOK(L[(n + 1) + 1], m)
          /\ m = "Hash" /\ L[(n + 1) + 1][1] = "absorb" => L[n + 1][1] # "absorb"
      BY <3>1 DEF GoodLog
    <3>3. f[(n + 1) + 1] = AfterEvent(f[n + 1], L[(n + 1) + 1])
      BY <3>1 DEF Leads
    <3>4. Reached(f[n + 1], L[n + 1], m)
      BY <1>3, <3>1
    <3> HIDE DEF m
    <3>5. Reached(f[(n + 1) + 1], L[(n + 1) + 1], m)
      BY <3>2, <3>3, <3>4, ReachedNext, Zenon
    <3> QED BY <3>5
  <2> QED BY <2>1, <2>2
<1>4. \A n \in Nat : n \in T
  <2> HIDE DEF T
  <2> QED BY <1>2, <1>3, Induction, Zenon
<1>5. ASSUME NEW k \in 1 .. Len(L) PROVE Reached(f[k], L[k], m)
  <2>1. k - 1 \in Nat /\ k - 1 < Len(L) /\ (k - 1) + 1 = k
    BY <1>1
  <2> HIDE DEF m
  <2> QED BY <1>4, <2>1
<1> QED BY <1>5

\* The step to place k of a good log.
LEMMA TraceStep ==
  ASSUME NEW L, GoodLog(L), NEW f, NEW c, Leads(f, L, c), NEW k \in 1 .. Len(L) - 1
  PROVE  Sound(f[k]) /\ MayFollow(L[k + 1], f[k]) /\ f[k + 1] = AfterEvent(f[k], L[k + 1])
<1>1. Len(L) \in Nat
  BY SeqLength DEF GoodLog
<1>2. k \in 1 .. Len(L)
  BY <1>1
<1>3. Reached(f[k], L[k], ModeOf(L[1][2]))
  BY <1>2, TraceSound
<1>4. /\ EventOK(L[k + 1], ModeOf(L[1][2]))
      /\ ModeOf(L[1][2]) = "Hash" /\ L[k + 1][1] = "absorb" => L[k][1] # "absorb"
  BY DEF GoodLog
<1>5. f[k + 1] = AfterEvent(f[k], L[k + 1])
  BY DEF Leads
<1> QED BY <1>3, <1>4, <1>5, ReachedMayFollow, Zenon

\* A log does not lead back to the state after a start.
LEMMA NotLonger ==
  ASSUME NEW L, GoodLog(L), NEW f, NEW c, Leads(f, L, c),
         NEW M, GoodLog(M), NEW g, NEW d, Leads(g, M, d),
         NEW k \in 2 .. Len(M), f[1] = g[k]
  PROVE  FALSE
<1>1. Len(M) \in Nat
  BY SeqLength DEF GoodLog
<1>2. PICK j \in 1 .. Len(M) - 1 : k = j + 1
  <2>1. k - 1 \in 1 .. Len(M) - 1 /\ k = (k - 1) + 1
    BY <1>1
  <2> QED BY <2>1
<1>3. Sound(g[j]) /\ MayFollow(M[j + 1], g[j]) /\ g[j + 1] = AfterEvent(g[j], M[j + 1])
  BY TraceStep
<1>4. StartOK(L[1][2]) /\ f[1] = PlainStart(L[1][2].K, L[1][2].ID, L[1][2].counter)
  BY Zenon DEF GoodLog, Leads, StartedBy
<1> QED BY <1>2, <1>3, <1>4, StartIsNoEvent, Zenon

\* Good logs that lead to the same state are the same, from the last event to the first.
LEMMA TraceTells ==
  ASSUME NEW L, GoodLog(L), NEW M, GoodLog(M), NEW c, Trace(L, c), Trace(M, c)
  PROVE  L = M
<1>1. PICK f : Leads(f, L, c)
  BY DEF Trace
<1>2. PICK g : Leads(g, M, c)
  BY DEF Trace
<1> DEFINE a == Len(L)
           b == Len(M)
           T == {n \in Nat : n < a /\ n < b =>
                   f[a - n] = g[b - n] /\ \A j \in 0 .. n - 1 : L[a - j] = M[b - j]}
<1>3. a \in Nat \ {0} /\ b \in Nat \ {0} /\ IsSeq(L) /\ IsSeq(M)
  BY SeqLength DEF GoodLog
<1> HIDE DEF a, b
<1>4. 0 \in T
  <2>1. f[a] = c /\ g[b] = c
    BY <1>1, <1>2 DEF Leads, a, b
  <2> QED BY <1>3, <2>1
<1>5. ASSUME NEW n \in Nat, n \in T PROVE n + 1 \in T
  <2>1. CASE ~(n + 1 < a /\ n + 1 < b)
    BY <2>1
  <2>2. CASE n + 1 < a /\ n + 1 < b
    <3>1. /\ n < a /\ n < b /\ a - (n + 1) \in 1 .. a - 1 /\ b - (n + 1) \in 1 .. b - 1
          /\ a - n = (a - (n + 1)) + 1 /\ b - n = (b - (n + 1)) + 1
      BY <1>3, <2>2
    <3> DEFINE k == a - (n + 1)
               l == b - (n + 1)
    <3>2. k \in 1 .. Len(L) - 1 /\ l \in 1 .. Len(M) - 1 /\ a - n = k + 1 /\ b - n = l + 1
      BY <3>1 DEF a, b
    <3> HIDE DEF k, l
    <3>3. f[k + 1] = g[l + 1] /\ \A j \in 0 .. n - 1 : L[a - j] = M[b - j]
      BY <1>5, <3>1, <3>2
    <3>4. Sound(f[k]) /\ MayFollow(L[k + 1], f[k]) /\ f[k + 1] = AfterEvent(f[k], L[k + 1])
      BY <1>1, <3>2, TraceStep
    <3>5. Sound(g[l]) /\ MayFollow(M[l + 1], g[l]) /\ g[l + 1] = AfterEvent(g[l], M[l + 1])
      BY <1>2, <3>2, TraceStep
    <3>6. L[k + 1] = M[l + 1] /\ f[k] = g[l]
      <4>1. AfterEvent(f[k], L[k + 1]) = AfterEvent(g[l], M[l + 1])
        BY <3>3, <3>4, <3>5, Zenon
      <4> QED BY <3>4, <3>5, <4>1, EventTells
    <3>7. ASSUME NEW j \in 0 .. (n + 1) - 1 PROVE L[a - j] = M[b - j]
      <4>1. CASE j = n
        BY <3>2, <3>6, <4>1
      <4>2. CASE j # n
        <5>1. j \in 0 .. n - 1
          BY <4>2
        <5> QED BY <3>3, <5>1
      <4> QED BY <4>1, <4>2
    <3>8. f[a - (n + 1)] = g[b - (n + 1)]
      BY <3>6 DEF k, l
    <3> QED BY <3>7, <3>8
  <2> QED BY <2>1, <2>2
<1>6. \A n \in Nat : n \in T
  <2> HIDE DEF T
  <2> QED BY <1>4, <1>5, Induction, Zenon
<1>7. a = b
  <2>1. ASSUME a < b PROVE FALSE
    <3>1. a - 1 \in Nat /\ a - 1 < a /\ a - 1 < b /\ a - (a - 1) = 1 /\ b - (a - 1) \in 2 .. b
      BY <1>3, <2>1
    <3>2. f[1] = g[b - (a - 1)]
      BY <1>6, <3>1
    <3>3. b - (a - 1) \in 2 .. Len(M)
      BY <3>1 DEF b
    <3> QED BY <1>1, <1>2, <3>2, <3>3, NotLonger
  <2>2. ASSUME b < a PROVE FALSE
    <3>1. b - 1 \in Nat /\ b - 1 < a /\ b - 1 < b /\ b - (b - 1) = 1 /\ a - (b - 1) \in 2 .. a
      BY <1>3, <2>2
    <3>2. g[1] = f[a - (b - 1)]
      BY <1>6, <3>1
    <3>3. a - (b - 1) \in 2 .. Len(L)
      BY <3>1 DEF a
    <3> QED BY <1>1, <1>2, <3>2, <3>3, NotLonger
  <2> QED BY <1>3, <2>1, <2>2
<1>8. f[1] = g[1] /\ \A j \in 0 .. a - 2 : L[a - j] = M[a - j]
  <2>1. a - 1 \in Nat /\ a - 1 < a /\ a - (a - 1) = 1 /\ (a - 1) - 1 = a - 2
    BY <1>3
  <2> QED BY <1>6, <1>7, <2>1
<1>9. L[1] = M[1]
  <2>1. /\ StartOK(L[1][2]) /\ f[1] = PlainStart(L[1][2].K, L[1][2].ID, L[1][2].counter)
        /\ L[1] = <<"start", L[1][2]>>
    BY <1>1, Zenon DEF GoodLog, Leads, StartedBy
  <2>2. /\ StartOK(M[1][2]) /\ g[1] = PlainStart(M[1][2].K, M[1][2].ID, M[1][2].counter)
        /\ M[1] = <<"start", M[1][2]>>
    BY <1>2, Zenon DEF GoodLog, Leads, StartedBy
  <2>3. L[1][2] = M[1][2]
    BY <1>8, <2>1, <2>2, StartTells, Zenon
  <2> QED BY <2>1, <2>2, <2>3, Zenon
<1>10. ASSUME NEW p \in 1 .. Len(L) PROVE L[p] = M[p]
  <2>1. CASE p = 1
    BY <1>9, <2>1
  <2>2. CASE p # 1
    <3>1. a - p \in 0 .. a - 2 /\ a - (a - p) = p
      BY <1>3, <2>2 DEF a
    <3> QED BY <1>8, <3>1
  <2> QED BY <2>1, <2>2
<1> QED BY <1>3, <1>7, <1>10, SameSeq DEF a, b

-----------------------------------------------------------------------------
(* What an instance has been told is a good log.                           *)

\* In hash mode a block of output before a string is absorbed changes nothing when
\* a string has been absorbed before.
LEMMA OutputBetween ==
  ASSUME NEW x, Sound(x), x.mode = "Hash", x.phase # "Up", NEW X, Str(X)
  PROVE  AfterEvent(AfterEvent(x, <<"squeeze", 1>>), <<"absorb", X>>)
           = AfterEvent(x, <<"absorb", X>>)
<1>1. IsCyc(x) /\ x.Rabsorb = Rhash /\ Rhash \in Nat \ {0} /\ IsSeq(X) /\ x.mode # "Keyed"
  BY SoundFields DEF RateOf, Rate, Str
<1> DEFINE u == Up(x, 0)
<1>2. AfterEvent(x, <<"squeeze", 1>>) = u
  <2>1. ColorUp(x, 64) = x /\ ColorUp(x, 0) = x
    BY DEF ColorUp
  <2>2. Up(x, 64) = u
    BY <2>1, Zenon DEF Up
  <2>3. Opens("squeeze", x, Up(x, 64))
    BY UpMove, Zenon DEF Opens
  <2>4. PICK h : h[1] = Up(x, 64) /\ h[1] = SqueezeAny(x, 1 * x.Rsqueeze, 64).c
    BY <2>3, SqueezeBlocks
  <2>5. AfterEvent(x, <<"squeeze", 1>>) = SqueezeAny(x, 1 * x.Rsqueeze, 64).c
    BY SqueezeEvents, Zenon DEF Squeeze
  <2> QED BY <2>2, <2>4, <2>5
<1>3. IsCyc(u) /\ u.phase = "Up" /\ u.Rabsorb = Rhash
  <2>1. IsCyc(u) /\ u.mode = x.mode /\ u.phase = "Up"
    BY <1>1, UpOf
  <2>2. u = Cyc(u.s, u.added, u.phase, u.mode, u.kernels)
    BY <2>1 DEF IsCyc
  <2> HIDE DEF u
  <2>3. u.Rabsorb = Rhash
    BY <1>1, <2>1, <2>2, CycFields
  <2> QED BY <2>1, <2>3
<1> HIDE DEF u
<1> DEFINE n == Blocks(Len(X), Rhash)
<1>4. n \in Nat \ {0}
  BY <1>1, SeqLength, LastBlock
<1> HIDE DEF n
<1>5. PICK a : AbsorbRun(a, x, X, Rhash, 3, n) /\ AbsorbAny(x, X, Rhash, 3) = a[n]
  BY <1>4, AbsorbAnyRuns DEF n
<1>6. PICK b : AbsorbRun(b, u, X, Rhash, 3, n) /\ AbsorbAny(u, X, Rhash, 3) = b[n]
  BY <1>4, AbsorbAnyRuns DEF n
<1>7. a[0] = x /\ \A k \in 1 .. n : a[k] = AbsorbBlock(a[k - 1], X, Rhash, 3, k)
  BY <1>4, <1>5 DEF AbsorbRun
<1>8. b[0] = u /\ \A k \in 1 .. n : b[k] = AbsorbBlock(b[k - 1], X, Rhash, 3, k)
  BY <1>4, <1>6 DEF AbsorbRun
<1>9. a[1] = b[1]
  <2>1. 1 \in 1 .. n /\ 1 - 1 = 0 /\ 1 \in Nat \ {0}
    BY <1>4
  <2>2. a[1] = InPlainly(x, X, Rhash, 3, 1)
    BY <1>1, <1>7, <2>1, BlockAbsorbed
  <2>3. b[1] = InPlainly(u, X, Rhash, 3, 1)
    BY <1>3, <1>8, <2>1, BlockAbsorbed
  <2>4. InPlainly(x, X, Rhash, 3, 1) = InPlainly(u, X, Rhash, 3, 1)
    BY <1>3 DEF InPlainly, u
  <2> QED BY <2>2, <2>3, <2>4
<1> DEFINE T == {k \in Nat : k < n => a[k + 1] = b[k + 1]}
<1>10. 0 \in T
  BY <1>9
<1>11. ASSUME NEW k \in Nat, k \in T PROVE k + 1 \in T
  <2>1. CASE ~(k + 1 < n)
    BY <2>1
  <2>2. CASE k + 1 < n
    <3>1. k < n /\ (k + 1) + 1 \in 1 .. n /\ ((k + 1) + 1) - 1 = k + 1
      BY <1>4, <2>2
    <3>2. a[(k + 1) + 1] = b[(k + 1) + 1]
      BY <1>7, <1>8, <1>11, <3>1
    <3> QED BY <3>2
  <2> QED BY <2>1, <2>2
<1>12. \A k \in Nat : k \in T
  <2> HIDE DEF T
  <2> QED BY <1>10, <1>11, Induction, Zenon
<1>13. a[n] = b[n]
  <2>1. n - 1 \in Nat /\ n - 1 < n /\ (n - 1) + 1 = n
    BY <1>4
  <2> QED BY <1>12, <2>1
<1>14. \A c : AfterEvent(c, <<"absorb", X>>) = AbsorbAny(c, X, c.Rabsorb, 3)
  <2>1. <<"absorb", X>>[1] = "absorb" /\ <<"absorb", X>>[2] = X
    OBVIOUS
  <2> DEFINE e == <<"absorb", X>>
  <2> HIDE DEF e
  <2>2. ASSUME NEW c, e[1] = "absorb", e[2] = X
        PROVE  AfterEvent(c, e) = AbsorbAny(c, X, c.Rabsorb, 3)
    BY <2>2, Zenon DEF AfterEvent, Absorb
  <2> QED BY <2>1, <2>2 DEF e
<1> QED BY <1>1, <1>2, <1>3, <1>5, <1>6, <1>13, <1>14

\* The log t with outputs between the strings that are absorbed one after another.
IsTold(t, L) ==
  t = [k \in 1 .. Len(L) |->
         IF k = 1 THEN <<L[1]>>
         ELSE IF L[k][1] = "absorb" /\ L[k - 1][1] = "absorb"
         THEN Append(Append(t[k - 1], <<"squeeze", 1>>), L[k])
         ELSE Append(t[k - 1], L[k])]

\* M is a good log that leads to the state of c, with the last event of L.
Retold(M, L, c) ==
  GoodLog(M) /\ ModeOf(M[1][2]) = c.mode /\ Trace(M, Plain(c)) /\ Last(M) = Last(L)

\* What an instance has been told is a good log, with the outputs put between strings
\* if there is no key.
ToldInv(c, L) ==
  IF c.mode = "Keyed" THEN GoodLog(L) /\ ModeOf(L[1][2]) = c.mode
  ELSE (\E t : IsTold(t, L)) /\ \A t : IsTold(t, L) => Retold(t[Len(L)], L, c)

\* A good log stays one with an event that may follow.
LEMMA GoodGrows ==
  ASSUME NEW M, GoodLog(M), NEW e, EventOK(e, ModeOf(M[1][2])),
         ModeOf(M[1][2]) = "Hash" /\ e[1] = "absorb" => Last(M)[1] # "absorb"
  PROVE  GoodLog(Append(M, e)) /\ Append(M, e)[1] = M[1]
<1> DEFINE n == Len(M)
           N == Append(M, e)
           m == ModeOf(M[1][2])
<1>1. IsSeq(M) /\ n \in Nat \ {0}
  BY SeqLength DEF GoodLog
<1>2. IsSeq(N) /\ Len(N) = n + 1 /\ N[n + 1] = e /\ \A i \in 1 .. n : N[i] = M[i]
  BY <1>1, Extended
<1>3. Last(M) = M[n]
  BY DEF Last
<1>4. /\ M[1] = <<"start", M[1][2]>> /\ StartOK(M[1][2])
      /\ \A k \in 1 .. n - 1 :
           /\ EventOK(M[k + 1], m) /\ (m = "Hash" /\ M[k + 1][1] = "absorb" => M[k][1] # "absorb")
  BY DEF GoodLog
<1>5. EventOK(e, m) /\ (m = "Hash" /\ e[1] = "absorb" => M[n][1] # "absorb")
  BY <1>3
<1>6. N[1] = M[1]
  BY <1>1, <1>2
<1>7. m = ModeOf(N[1][2])
  BY <1>6
<1> HIDE DEF N, n, m
<1>8. ASSUME NEW k \in 1 .. (n + 1) - 1
      PROVE  EventOK(N[k + 1], m) /\ (m = "Hash" /\ N[k + 1][1] = "absorb" => N[k][1] # "absorb")
  <2>1. CASE k = n
    BY <1>1, <1>2, <1>5, <2>1
  <2>2. CASE k # n
    <3>1. k \in 1 .. n - 1 /\ k \in 1 .. n /\ k + 1 \in 1 .. n
      BY <1>1, <2>2
    <3>2. N[k + 1] = M[k + 1] /\ N[k] = M[k]
      BY <1>2, <3>1
    <3> QED BY <1>4, <3>1, <3>2
  <2> QED BY <2>1, <2>2
<1>9. GoodLog(N)
  <2>1. Len(N) # 0 /\ Len(N) - 1 = (n + 1) - 1
    BY <1>1, <1>2
  <2>2. N[1] = <<"start", N[1][2]>> /\ StartOK(N[1][2])
    BY <1>4, <1>6
  <2>3. \A k \in 1 .. Len(N) - 1 :
           EventOK(N[k + 1], m) /\ (m = "Hash" /\ N[k + 1][1] = "absorb" => N[k][1] # "absorb")
    BY <1>8, <2>1
  <2> QED BY <1>2, <1>7, <2>1, <2>2, <2>3 DEF GoodLog
<1> QED BY <1>6, <1>9 DEF N

\* The state at the end of a good log.
LEMMA TraceEnd ==
  ASSUME NEW M, GoodLog(M), NEW c, Trace(M, c)
  PROVE  Reached(c, Last(M), ModeOf(M[1][2]))
<1>1. PICK f : Leads(f, M, c)
  BY DEF Trace
<1>2. Len(M) \in 1 .. Len(M)
  BY SeqLength DEF GoodLog
<1>3. f[Len(M)] = c /\ Last(M) = M[Len(M)]
  BY <1>1 DEF Leads, Last
<1> QED BY <1>1, <1>2, <1>3, TraceSound

\* One more event, which needs no output before it.
LEMMA RetoldGrows ==
  ASSUME NEW c, NEW L, NEW M, Retold(M, L, c), NEW e, EventOK(e, c.mode),
         c.mode = "Hash" /\ e[1] = "absorb" => Last(L)[1] # "absorb",
         NEW d, d.mode = c.mode, Plain(d) = AfterEvent(Plain(c), e), NEW K, Last(K) = e
  PROVE  Retold(Append(M, e), K, d)
<1>1. GoodLog(M) /\ ModeOf(M[1][2]) = c.mode /\ Trace(M, Plain(c)) /\ Last(M) = Last(L)
  BY DEF Retold
<1>2. GoodLog(Append(M, e)) /\ Append(M, e)[1] = M[1]
  BY <1>1, GoodGrows
<1>3. Trace(Append(M, e), AfterEvent(Plain(c), e)) /\ Last(Append(M, e)) = e
  BY <1>1, TraceGrows
<1> DEFINE N == Append(M, e)
<1> HIDE DEF N
<1>4. GoodLog(N) /\ N[1] = M[1] /\ Trace(N, Plain(d)) /\ Last(N) = e
  BY <1>2, <1>3 DEF N
<1>5. ModeOf(N[1][2]) = d.mode
  BY <1>1, <1>4
<1>6. Retold(N, K, d)
  BY <1>4, <1>5, Zenon DEF Retold
<1> QED BY <1>6 DEF N

\* One more string after another, with an output between them.
LEMMA RetoldBetween ==
  ASSUME NEW c, NEW L, NEW M, Retold(M, L, c), c.mode = "Hash", NEW e, EventOK(e, c.mode),
         e[1] = "absorb", Last(L)[1] = "absorb",
         NEW d, d.mode = c.mode, Plain(d) = AfterEvent(Plain(c), e), NEW K, Last(K) = e
  PROVE  Retold(Append(Append(M, <<"squeeze", 1>>), e), K, d)
<1> DEFINE q == <<"squeeze", 1>>
           N == Append(M, q)
           x == Plain(c)
           R == Append(N, e)
<1>1. GoodLog(M) /\ ModeOf(M[1][2]) = "Hash" /\ Trace(M, x) /\ Last(M)[1] = "absorb"
  BY DEF Retold
<1>2. q[1] = "squeeze" /\ q[2] = 1 /\ EventOK(q, "Hash")
  BY DEF EventOK
<1> HIDE DEF q, x
<1>3. GoodLog(N) /\ N[1] = M[1]
  <2>1. q[1] # "absorb" /\ EventOK(q, ModeOf(M[1][2]))
    BY <1>1, <1>2
  <2> QED BY <1>1, <2>1, GoodGrows
<1>4. Trace(N, AfterEvent(x, q)) /\ Last(N) = q
  BY <1>1, TraceGrows
<1>5. ModeOf(N[1][2]) = "Hash" /\ EventOK(e, ModeOf(N[1][2])) /\ Last(N)[1] # "absorb"
  BY <1>1, <1>2, <1>3, <1>4
<1> HIDE DEF N
<1>6. GoodLog(R) /\ R[1] = N[1]
  BY <1>3, <1>5, GoodGrows
<1>7. Trace(R, AfterEvent(AfterEvent(x, q), e)) /\ Last(R) = e
  BY <1>4, TraceGrows
<1>8. Reached(x, Last(M), ModeOf(M[1][2]))
  BY <1>1, TraceEnd
<1>9. Sound(x) /\ x.mode = "Hash" /\ x.phase # "Up"
  BY <1>1, <1>8 DEF Reached
<1>10. e = <<"absorb", e[2]>> /\ Str(e[2])
  BY EventForm
<1>11. AfterEvent(AfterEvent(x, q), e) = AfterEvent(x, e)
  <2> DEFINE X == e[2]
  <2>1. AfterEvent(AfterEvent(x, q), <<"absorb", X>>) = AfterEvent(x, <<"absorb", X>>)
    BY <1>9, <1>10, OutputBetween DEF q
  <2>2. e = <<"absorb", X>>
    BY <1>10
  <2> HIDE DEF X
  <2> QED BY <2>1, <2>2
<1> HIDE DEF R
<1>12. Trace(R, Plain(d)) /\ ModeOf(R[1][2]) = d.mode
  BY <1>5, <1>6, <1>7, <1>11 DEF x
<1>13. Retold(R, K, d)
  BY <1>6, <1>7, <1>12, Zenon DEF Retold
<1> QED BY <1>13 DEF R, N, q

\* A call keeps ToldInv.
LEMMA ToldKept ==
  ASSUME NEW c, IsCyc(c), NEW L, IsSeq(L), Len(L) # 0,
         ToldInv(c, L), c.mode \in {"Hash", "Keyed"}, NEW d, NEW e, Kept(c, d, e),
         EventOK(e, c.mode)
  PROVE  ToldInv(d, Append(L, e))
<1> DEFINE n == Len(L)
           K == Append(L, e)
           q == <<"squeeze", 1>>
<1>1. /\ n \in Nat \ {0} /\ IsSeq(K) /\ Len(K) = n + 1
      /\ K[n + 1] = e /\ \A i \in 1 .. n : K[i] = L[i]
  BY SeqLength, Extended
<1>2. d.mode = c.mode /\ Plain(d) = AfterEvent(Plain(c), e)
  BY DEF Kept, Follows
<1>3. Last(K) = e
  BY <1>1 DEF Last
<1> HIDE DEF n, K, q
<1>4. CASE c.mode = "Keyed"
  <2>1. GoodLog(L) /\ ModeOf(L[1][2]) = c.mode
    BY <1>4 DEF ToldInv
  <2>2. ModeOf(L[1][2]) # "Hash"
    BY <1>4, <2>1
  <2>3. GoodLog(Append(L, e)) /\ Append(L, e)[1] = L[1]
    BY <2>1, <2>2, GoodGrows
  <2>4. GoodLog(K) /\ K[1] = L[1]
    BY <2>3 DEF K
  <2>5. ModeOf(K[1][2]) = d.mode
    BY <1>2, <2>1, <2>4
  <2> QED BY <1>2, <1>4, <2>4, <2>5 DEF ToldInv, K
<1>5. CASE c.mode = "Hash"
  <2> DEFINE Two == e[1] = "absorb" /\ L[n][1] = "absorb"
             Grow(M) == IF Two THEN Append(Append(M, q), e) ELSE Append(M, e)
  <2>1. (\E t : IsTold(t, L)) /\ \A t : IsTold(t, L) => Retold(t[n], L, c)
    BY <1>5 DEF ToldInv, n
  <2>2. \E t : IsTold(t, K)
    <3>1. PICK t : IsTold(t, L)
      BY <2>1
    <3> DEFINE G == Grow(t[n])
               u == [k \in 1 .. n + 1 |-> IF k = n + 1 THEN G ELSE t[k]]
    <3>2. u[n + 1] = G /\ \A k \in 1 .. n : u[k] = t[k]
      BY <1>1
    <3>3. u = [k \in 1 .. n + 1 |-> u[k]]
      OBVIOUS
    <3> HIDE DEF u, Grow
    <3>4. ASSUME NEW k \in 1 .. n + 1
          PROVE  u[k] = IF k = 1 THEN <<K[1]>>
                        ELSE IF K[k][1] = "absorb" /\ K[k - 1][1] = "absorb"
                        THEN Append(Append(u[k - 1], q), K[k])
                        ELSE Append(u[k - 1], K[k])
      <4>1. CASE k = n + 1
        <5>1. k # 1 /\ k - 1 = n /\ n \in 1 .. n
          BY <1>1, <4>1
        <5>2. u[k] = Grow(t[n]) /\ u[k - 1] = t[n] /\ K[k] = e /\ K[k - 1] = L[n]
          BY <1>1, <3>2, <4>1, <5>1
        <5> QED BY <5>1, <5>2 DEF Grow
      <4>2. CASE k # n + 1
        <5>1. k \in 1 .. n /\ 1 \in 1 .. n /\ (k # 1 => k - 1 \in 1 .. n)
          BY <1>1, <4>2
        <5>2. u[k] = t[k] /\ K[k] = L[k] /\ K[1] = L[1]
          BY <1>1, <3>2, <5>1
        <5>3. k # 1 => u[k - 1] = t[k - 1] /\ K[k - 1] = L[k - 1]
          BY <1>1, <3>2, <5>1
        <5>4. t[k] = IF k = 1 THEN <<L[1]>>
                     ELSE IF L[k][1] = "absorb" /\ L[k - 1][1] = "absorb"
                     THEN Append(Append(t[k - 1], q), L[k])
                     ELSE Append(t[k - 1], L[k])
          BY <3>1, <5>1 DEF IsTold, n, q
        <5> QED BY <5>2, <5>3, <5>4
      <4> QED BY <4>1, <4>2
    <3>5. IsTold(u, K)
      BY <1>1, <3>3, <3>4 DEF IsTold, q
    <3> QED BY <3>5
  <2>3. ASSUME NEW u, IsTold(u, K) PROVE Retold(u[Len(K)], K, d)
    <3> DEFINE t == [k \in 1 .. n |-> u[k]]
    <3>1. \A k \in 1 .. n + 1 :
            u[k] = IF k = 1 THEN <<K[1]>>
                   ELSE IF K[k][1] = "absorb" /\ K[k - 1][1] = "absorb"
                   THEN Append(Append(u[k - 1], q), K[k])
                   ELSE Append(u[k - 1], K[k])
      BY <1>1, <2>3 DEF IsTold, q
    <3>2. \A k \in 1 .. n : t[k] = u[k]
      OBVIOUS
    <3>3. t = [k \in 1 .. n |-> t[k]]
      OBVIOUS
    <3> HIDE DEF t
    <3>4. ASSUME NEW k \in 1 .. n
          PROVE  t[k] = IF k = 1 THEN <<L[1]>>
                        ELSE IF L[k][1] = "absorb" /\ L[k - 1][1] = "absorb"
                        THEN Append(Append(t[k - 1], q), L[k])
                        ELSE Append(t[k - 1], L[k])
      <4>1. k \in 1 .. n + 1 /\ 1 \in 1 .. n /\ (k # 1 => k - 1 \in 1 .. n)
        BY <1>1
      <4>2. t[k] = u[k] /\ K[k] = L[k] /\ K[1] = L[1]
        BY <1>1, <3>2, <4>1
      <4>3. k # 1 => t[k - 1] = u[k - 1] /\ K[k - 1] = L[k - 1]
        BY <1>1, <3>2, <4>1
      <4> QED BY <3>1, <4>1, <4>2, <4>3
    <3>5. IsTold(t, L)
      BY <3>3, <3>4 DEF IsTold, n, q
    <3>6. Retold(t[n], L, c)
      BY <2>1, <3>5
    <3>7. u[n + 1] = Grow(t[n])
      <4>1. n + 1 \in 1 .. n + 1 /\ n + 1 # 1 /\ (n + 1) - 1 = n /\ n \in 1 .. n
        BY <1>1
      <4>2. K[n + 1] = e /\ K[n] = L[n] /\ t[n] = u[n]
        BY <1>1, <3>2, <4>1
      <4> DEFINE v == u[n + 1]
      <4>3. v = IF n + 1 = 1 THEN <<K[1]>>
                ELSE IF K[n + 1][1] = "absorb" /\ K[n][1] = "absorb"
                THEN Append(Append(u[n], q), K[n + 1])
                ELSE Append(u[n], K[n + 1])
        BY <3>1, <4>1
      <4> QED BY <4>1, <4>2, <4>3
    <3>8. Last(L) = L[n] /\ Len(K) = n + 1
      BY <1>1 DEF n, Last
    <3>9. CASE Two
      <4>1. Last(L)[1] = "absorb" /\ e[1] = "absorb"
        BY <3>8, <3>9
      <4>2. Retold(Append(Append(t[n], q), e), K, d)
        BY <1>2, <1>3, <1>5, <3>6, <4>1, RetoldBetween DEF q
      <4> QED BY <3>7, <3>8, <3>9, <4>2
    <3>10. CASE ~Two
      <4>1. e[1] = "absorb" => Last(L)[1] # "absorb"
        BY <3>8, <3>10
      <4>2. Retold(Append(t[n], e), K, d)
        BY <1>2, <1>3, <3>6, <4>1, RetoldGrows
      <4> QED BY <3>7, <3>8, <3>10, <4>2
    <3> QED BY <3>9, <3>10
  <2>4. d.mode # "Keyed"
    BY <1>2, <1>5
  <2> QED BY <2>2, <2>3, <2>4 DEF ToldInv, K
<1> QED BY <1>4, <1>5

\* Ciphertext and plaintext are made of units of input and of output.
LEMMA CryptStr ==
  ASSUME NEW c, IsCyc(c), NEW I, Str(I), NEW decrypt \in BOOLEAN
  PROVE  Str(Crypt(c, I, decrypt).O)
<1> DEFINE q == Crypt(c, I, decrypt)
           n == Len(I)
           O == q.O
<1>1. IsSeq(I) /\ n \in Nat
  BY SeqLength DEF Str
<1>2. PICK f : CryptedBy(q, f, c, I, decrypt)
  BY <1>1, CryptBy
<1>3. IsSeq(O) /\ Len(O) = n
  BY <1>1, Crypting DEF Crypted
<1> HIDE DEF q
<1>4. (\A k \in 0 .. Blocks(n, Rkout) : TextState(f, c, k)) /\ KeyStreamed(O, I, f)
  BY <1>1, <1>2, CryptUnits
<1>5. ASSUME NEW p \in 1 .. n PROVE Terms(O[p])
  <2>1. PICK k \in 1 .. Blocks(n, Rkout), j \in 1 .. Rkout :
          p = (k - 1) * Rkout + j /\ j <= SizeOf(n, Rkout, k)
    BY <1>1, Sizes, PlaceInBlock
  <2>2. j \in 1 .. SizeOf(n, Rkout, k)
    BY <1>1, <2>1, Sizes, EarlierBlock
  <2>3. O[p] = Xor(I[p], {<<f[k].s, j>>})
    BY <1>4, <2>1, <2>2 DEF KeyStreamed
  <2>4. IsSeq(f[k].s)
    <3>1. k \in 0 .. Blocks(n, Rkout)
      OBVIOUS
    <3> QED BY <1>4, <3>1 DEF TextState, Follows, IsCyc
  <2>5. Term(<<f[k].s, j>>)
    BY <2>4 DEF Term
  <2>6. Terms(I[p])
    BY DEF Str
  <2> QED BY <2>3, <2>5, <2>6 DEF Terms, Xor
<1> QED BY <1>3, <1>5 DEF Str, q

\* The mode is that of the start.
LEMMA ToldMode ==
  ASSUME NEW c, NEW L, ToldInv(c, L)
  PROVE  c.mode \in {"Hash", "Keyed"}
<1>1. CASE c.mode # "Keyed"
  <2>1. PICK t : IsTold(t, L)
    BY <1>1 DEF ToldInv
  <2>2. ModeOf(t[Len(L)][1][2]) = c.mode
    BY <1>1, <2>1 DEF ToldInv, Retold
  <2> QED BY <2>2 DEF ModeOf
<1> QED BY <1>1

\* An instance starts with ToldInv.
LEMMA ToldStarted ==
  ASSUME NEW kernels \in BOOLEAN, NEW start, StartOK(start)
  PROVE  ToldInv(Initialize(kernels, start.K, start.ID, start.counter), <<<<"start", start>>>>)
<1> DEFINE c == Initialize(kernels, start.K, start.ID, start.counter)
           e == <<"start", start>>
           L == <<e>>
<1>1. InstanceInv(c, L, <<>>)
  BY Started DEF StartOK
<1>2. e[2] = start
  OBVIOUS
<1> HIDE DEF c
<1>3. /\ L[1] = <<"start", start>> /\ L[1][2] = start
      /\ Len(L) = 1 /\ Last(L) = L[1] /\ IsSeq(L) /\ <<L[1]>> = L
  <2>1. L \in Seq({e})
    OBVIOUS
  <2> QED BY <2>1 DEF IsSeq, Last
<1> HIDE DEF e, L
<1>4. Trace(L, Plain(c)) /\ IsCyc(c)
  BY <1>1 DEF InstanceInv
<1>5. GoodLog(L)
  <2>1. Len(L) # 0 /\ 1 .. Len(L) - 1 = {}
    BY <1>3
  <2> QED BY <1>3, <2>1 DEF GoodLog
<1>6. ModeOf(L[1][2]) = c.mode
  <2>1. Reached(Plain(c), Last(L), ModeOf(L[1][2]))
    BY <1>4, <1>5, TraceEnd
  <2> QED BY <1>4, <2>1, PlainIs DEF Reached
<1>7. Retold(L, L, c)
  BY <1>4, <1>5, <1>6 DEF Retold
<1>8. \E t : IsTold(t, L)
  <2> DEFINE t == [k \in 1 .. 1 |-> L]
  <2>1. t[1] = L /\ t = [k \in 1 .. 1 |-> t[k]]
    OBVIOUS
  <2> HIDE DEF t
  <2>2. IsTold(t, L)
    BY <1>3, <2>1 DEF IsTold
  <2> QED BY <2>2
<1>9. ASSUME NEW t, IsTold(t, L) PROVE t[Len(L)] = L
  BY <1>3, <1>9 DEF IsTold
<1> QED BY <1>5, <1>6, <1>7, <1>8, <1>9 DEF ToldInv, L, e, c

\* The strengthening of SessionInv for what the logs are.
ToldSession ==
  /\ \A i \in 1 .. 2 : ToldInv(inst[i], log[i])
  /\ \A x \in done : x.op = "encrypt" => Str(x.O)

LEMMA ToldSessionInit == Init => ToldSession
<1> SUFFICES ASSUME NEW kernels \in Kernels, NEW start \in Starts,
                    inst = [i \in 1 .. 2 |->
                              Initialize(kernels[i], start[i].K, start[i].ID, start[i].counter)],
                    log = [i \in 1 .. 2 |-> <<<<"start", start[i]>>>>],
                    done = {}
             PROVE  ToldSession
  BY DEF Init
<1>1. ASSUME NEW i \in 1 .. 2 PROVE kernels[i] \in BOOLEAN /\ StartOK(start[i])
  <2> DEFINE S == {st \in [K : Data, ID : Data, counter : Data] : Fits(st)}
  <2>1. kernels \in BOOLEAN \X BOOLEAN
    BY CyclistSessionAssumption
  <2>2. start \in S \X S
    BY CyclistSessionAssumption
  <2> HIDE DEF S
  <2>3. i = 1 \/ i = 2
    OBVIOUS
  <2>4. kernels[i] \in BOOLEAN
    BY <2>1, <2>3
  <2>5. start[i] \in S
    BY <2>2, <2>3
  <2> QED BY <2>4, <2>5 DEF S, StartOK
<1>2. ASSUME NEW i \in 1 .. 2 PROVE ToldInv(inst[i], log[i])
  <2>1. /\ inst[i] = Initialize(kernels[i], start[i].K, start[i].ID, start[i].counter)
        /\ log[i] = <<<<"start", start[i]>>>>
    OBVIOUS
  <2> QED BY <1>1, <2>1, ToldStarted
<1> QED BY <1>2 DEF ToldSession

\* A call that squeezes keeps what Kept says, whatever the kernels.
LEMMA SqueezeKept ==
  ASSUME NEW c, IsCyc(c), NEW n \in Nat
  PROVE  /\ Kept(c, Squeeze(c, n).c, <<"squeeze", Blocks(n, c.Rsqueeze)>>)
         /\ Kept(c, SqueezeKey(c, n).c, <<"squeezeKey", Blocks(n, c.Rsqueeze)>>)
<1> DEFINE b == Blocks(n, c.Rsqueeze)
<1>1. ASSUME NEW Cu
      PROVE  /\ Follows(c, SqueezeAny(c, n, Cu).c)
             /\ SqueezeAny(Plain(c), b * Plain(c).Rsqueeze, Cu).c = Plain(SqueezeAny(c, n, Cu).c)
  BY SqueezeTold
<1>2. \A d, m : Squeeze(d, m) = SqueezeAny(d, m, 64) /\ SqueezeKey(d, m) = SqueezeAny(d, m, 32)
  BY DEF Squeeze, SqueezeKey
<1> HIDE DEF b
<1> DEFINE e == <<"squeeze", b>>
           k == <<"squeezeKey", b>>
<1>3. e[1] # "ratchet" /\ k[1] # "ratchet"
  OBVIOUS
<1>4. /\ AfterEvent(Plain(c), e) = Plain(Squeeze(c, n).c)
      /\ AfterEvent(Plain(c), k) = Plain(SqueezeKey(c, n).c)
  BY <1>1, <1>2, SqueezeEvents
<1> HIDE DEF e, k
<1>5. Kept(c, Squeeze(c, n).c, e) /\ Kept(c, SqueezeKey(c, n).c, k)
  BY <1>1, <1>2, <1>3, <1>4 DEF Kept
<1> QED BY <1>5 DEF e, k, b

\* A step that tells one instance an event keeps ToldSession.
LEMMA ToldStep ==
  ASSUME SessionInv, ToldSession, NEW i \in 1 .. 2, NEW d, NEW e, Kept(inst[i], d, e),
         EventOK(e, inst[i].mode), Calls(i, d, e),
         \A x \in done' : x \in done \/ (x.op = "encrypt" => Str(x.O))
  PROVE  ToldSession'
<1>1. IsCyc(inst[i]) /\ IsSeq(log[i]) /\ Len(log[i]) # 0
  BY DEF SessionInv, InstanceInv, Trace
<1>2. ToldInv(inst[i], log[i])
  BY DEF ToldSession
<1>3. ToldInv(d, Append(log[i], e))
  BY <1>1, <1>2, ToldMode, ToldKept
<1>4. /\ inst'[i] = d /\ log'[i] = Append(log[i], e)
      /\ \A j \in 1 .. 2 : j # i => inst'[j] = inst[j] /\ log'[j] = log[j]
  BY DEF Calls, SessionInv, Pairs
<1>5. \A j \in 1 .. 2 : ToldInv(inst'[j], log'[j])
  <2> TAKE j \in 1 .. 2
  <2>1. ToldInv(inst[j], log[j])
    BY DEF ToldSession
  <2> QED BY <1>3, <1>4, <2>1
<1>6. \A x \in done' : x.op = "encrypt" => Str(x.O)
  BY DEF ToldSession
<1> QED BY <1>5, <1>6 DEF ToldSession

\* Giving out a ciphertext keeps it a string.
LEMMA GivesStr ==
  ASSUME NEW i, NEW op, NEW I, NEW O, NEW U, Gives(i, op, I, O, U), op = "encrypt" => Str(O)
  PROVE  \A x \in done' : x \in done \/ (x.op = "encrypt" => Str(x.O))
<1> DEFINE y == [by |-> i, log |-> log[i], op |-> op, I |-> I, O |-> O]
<1>1. done' = done \cup {y}
  BY DEF Gives
<1>2. y.op = op /\ y.O = O
  OBVIOUS
<1> HIDE DEF y
<1> QED BY <1>1, <1>2

LEMMA ToldSessionStep == SessionInv /\ ToldSession /\ [Next]_vars => ToldSession'
<1> SUFFICES ASSUME SessionInv, ToldSession, [Next]_vars PROVE ToldSession'
  OBVIOUS
<1>1. \A i \in 1 .. 2 : IsCyc(inst[i])
  BY DEF SessionInv, InstanceInv
<1>2. \A X \in Strings : Str(X) /\ IsSeq(X)
  BY CyclistSessionAssumption, DataIs DEF Str
<1>3. ASSUME NEW i \in 1 .. 2, NEW X \in Strings, DoAbsorb(i, X) PROVE ToldSession'
  <2> DEFINE e == <<"absorb", X>>
  <2>1. Kept(inst[i], Absorb(inst[i], X), e)
    BY <1>1, <1>2, AbsorbTold
  <2>2. Calls(i, Absorb(inst[i], X), e) /\ done' = done
    BY <1>3 DEF DoAbsorb
  <2>3. EventOK(e, inst[i].mode)
    BY <1>2 DEF EventOK
  <2> HIDE DEF e
  <2> QED BY <2>1, <2>2, <2>3, ToldStep
<1>4. ASSUME NEW i \in 1 .. 2, NEW P \in Strings, DoEncrypt(i, P) PROVE ToldSession'
  <2> DEFINE q == Encrypt(inst[i], P)
             e == <<"crypt", P>>
  <2>1. Kept(inst[i], q.c, e)
    BY <1>1, <1>2, EncryptTold
  <2>2. Str(q.O)
    BY <1>1, <1>2, CryptStr DEF Encrypt
  <2>3. Calls(i, q.c, e) /\ Gives(i, "encrypt", P, q.O, XorAll(P, q.O)) /\ inst[i].mode = "Keyed"
    BY <1>4 DEF DoEncrypt, Keyed
  <2>4. EventOK(e, inst[i].mode)
    BY <1>2, <2>3 DEF EventOK
  <2> HIDE DEF q, e
  <2>5. \A x \in done' : x \in done \/ (x.op = "encrypt" => Str(x.O))
    BY <2>2, <2>3, GivesStr
  <2> QED BY <2>1, <2>3, <2>4, <2>5, ToldStep
<1>5. ASSUME NEW C \in Strings \cup Ciphertexts, DoDecrypt(2, C) PROVE ToldSession'
  <2> DEFINE i == 2
             q == Decrypt(inst[i], C)
             e == <<"crypt", q.O>>
  <2>1. Str(C) /\ IsSeq(C)
    BY <1>2 DEF ToldSession, Ciphertexts, Str
  <2>2. Kept(inst[i], q.c, e)
    BY <1>1, <2>1, DecryptTold
  <2>3. Str(q.O)
    <3>1. IsCyc(inst[i])
      BY <1>1
    <3>2. Str(Crypt(inst[i], C, TRUE).O)
      BY <2>1, <3>1, CryptStr
    <3> QED BY <3>2 DEF Decrypt
  <2>4. /\ Calls(i, q.c, e) /\ Gives(i, "decrypt", C, q.O, XorAll(C, q.O))
        /\ inst[i].mode = "Keyed" /\ i \in 1 .. 2
    BY <1>5 DEF DoDecrypt, Keyed
  <2>5. EventOK(e, inst[i].mode)
    BY <2>3, <2>4 DEF EventOK
  <2>6. "decrypt" # "encrypt"
    OBVIOUS
  <2> HIDE DEF q, e, i
  <2>7. \A x \in done' : x \in done \/ (x.op = "encrypt" => Str(x.O))
    BY <2>4, <2>6, GivesStr
  <2> QED BY <2>2, <2>4, <2>5, <2>7, ToldStep
<1>6. ASSUME NEW i \in 1 .. 2, NEW n \in Lengths PROVE Blocks(n, inst[i].Rsqueeze) \in Nat \ {0}
  <2>1. n \in Nat /\ inst[i].Rsqueeze \in Nat \ {0}
    BY <1>1, RatesOf, CyclistSessionAssumption
  <2> QED BY <2>1, LastBlock
<1>7. ASSUME NEW i \in 1 .. 2, NEW n \in Lengths, DoSqueeze(i, n) PROVE ToldSession'
  <2> DEFINE q == Squeeze(inst[i], n)
             b == Blocks(n, inst[i].Rsqueeze)
             e == <<"squeeze", b>>
  <2>1. Kept(inst[i], q.c, e)
    BY <1>1, SqueezeKept, CyclistSessionAssumption
  <2>2. Calls(i, q.c, e) /\ Gives(i, "squeeze", n, q.O, q.O)
    BY <1>7 DEF DoSqueeze
  <2>3. b \in Nat \ {0}
    BY <1>6
  <2> HIDE DEF b
  <2>4. EventOK(e, inst[i].mode)
    BY <2>3 DEF EventOK
  <2> HIDE DEF q, e
  <2>5. \A x \in done' : x \in done \/ (x.op = "encrypt" => Str(x.O))
    BY <2>2, GivesStr
  <2> QED BY <2>1, <2>2, <2>4, <2>5, ToldStep
<1>8. ASSUME NEW i \in 1 .. 2, NEW n \in Lengths, DoSqueezeKey(i, n) PROVE ToldSession'
  <2> DEFINE q == SqueezeKey(inst[i], n)
             b == Blocks(n, inst[i].Rsqueeze)
             e == <<"squeezeKey", b>>
  <2>1. Kept(inst[i], q.c, e)
    BY <1>1, SqueezeKept, CyclistSessionAssumption
  <2>2. Calls(i, q.c, e) /\ Gives(i, "squeezeKey", n, q.O, q.O) /\ inst[i].mode = "Keyed"
    BY <1>8 DEF DoSqueezeKey, Keyed
  <2>3. b \in Nat \ {0}
    BY <1>6
  <2> HIDE DEF b
  <2>4. EventOK(e, inst[i].mode)
    BY <2>2, <2>3 DEF EventOK
  <2> HIDE DEF q, e
  <2>5. \A x \in done' : x \in done \/ (x.op = "encrypt" => Str(x.O))
    BY <2>2, GivesStr
  <2> QED BY <2>1, <2>2, <2>4, <2>5, ToldStep
<1>9. ASSUME NEW i \in 1 .. 2, DoRatchet(i) PROVE ToldSession'
  <2> DEFINE e == <<"ratchet">>
  <2>1. inst[i].mode = "Keyed" /\ Calls(i, Ratchet(inst[i]), e) /\ done' = done
    BY <1>9 DEF DoRatchet, Keyed
  <2>2. Kept(inst[i], Ratchet(inst[i]), e)
    BY <1>1, <2>1, RatchetTold
  <2>3. EventOK(e, inst[i].mode)
    BY <2>1 DEF EventOK
  <2> HIDE DEF e
  <2> QED BY <2>1, <2>2, <2>3, ToldStep
<1>10. CASE UNCHANGED vars
  BY <1>10 DEF vars, ToldSession
<1>11. CASE Next
  <2>1. PICK i \in 1 .. 2 :
          \/ \E X \in Strings : DoAbsorb(i, X) \/ DoEncrypt(i, X)
          \/ \E C \in Strings \cup Ciphertexts : i = 2 /\ DoDecrypt(i, C)
          \/ \E n \in Lengths : DoSqueeze(i, n) \/ DoSqueezeKey(i, n)
          \/ DoRatchet(i)
    BY <1>11 DEF Next
  <2> QED BY <1>3, <1>4, <1>5, <1>7, <1>8, <1>9, <2>1
<1> QED BY <1>10, <1>11

\* Told is the good log that ToldInv speaks of.
LEMMA ToldIs ==
  ASSUME SessionInv, NEW i \in 1 .. 2, ToldInv(inst[i], log[i])
  PROVE  GoodLog(Told(i)) /\ Trace(Told(i), Plain(inst[i]))
<1> DEFINE L == log[i]
<1>1. Trace(L, Plain(inst[i]))
  BY DEF SessionInv, InstanceInv
<1>2. CASE Keyed(i)
  BY <1>1, <1>2 DEF Told, Keyed, ToldInv
<1>3. CASE ~Keyed(i)
  <2> DEFINE t == CHOOSE u : IsTold(u, L)
  <2>1. Told(i) = t[Len(L)]
    BY <1>3 DEF Told, IsTold
  <2>2. (\E u : IsTold(u, L)) /\ \A u : IsTold(u, L) => Retold(u[Len(L)], L, inst[i])
    BY <1>3 DEF ToldInv, Keyed
  <2>3. IsTold(t, L)
    BY <2>2, Zenon
  <2> HIDE DEF t
  <2>4. Retold(t[Len(L)], L, inst[i])
    BY <2>2, <2>3
  <2> QED BY <2>1, <2>4 DEF Retold
<1> QED BY <1>2, <1>3

\* Two instances are in the same state exactly when they have been told the same, call by
\* call, for all rates, keys, strings and numbers of calls: also if only one runs the kernels
\* (Cyclist.inc:113-117, 161-170, 191-212), and with strings that are empty or end in a block.
THEOREM HistoryIsTold == Spec => []StateIsHistory
<1> DEFINE Same(c, d) == c.s = d.s /\ c.added = d.added /\ c.phase = d.phase /\ c.mode = d.mode
<1>1. SessionInv /\ ToldSession => StateIsHistory
  <2> SUFFICES ASSUME SessionInv, ToldSession
               PROVE  Told(1) = Told(2) <=> Same(inst[1], inst[2])
    BY DEF StateIsHistory
  <2>1. /\ GoodLog(Told(1)) /\ Trace(Told(1), Plain(inst[1]))
        /\ GoodLog(Told(2)) /\ Trace(Told(2), Plain(inst[2]))
    BY ToldIs DEF ToldSession
  <2>2. IsCyc(inst[1]) /\ IsCyc(inst[2])
    BY DEF SessionInv, InstanceInv
  <2>3. ASSUME Told(1) = Told(2) PROVE Same(inst[1], inst[2])
    <3>1. Plain(inst[1]) = Plain(inst[2])
      BY <2>1, <2>3, TraceOnce
    <3> QED BY <2>2, <3>1, PlainIs
  <2>4. ASSUME Same(inst[1], inst[2]) PROVE Told(1) = Told(2)
    <3>1. ASSUME NEW c, IsCyc(c) PROVE Plain(c) = Cyc(c.s, c.added, c.phase, c.mode, FALSE)
      <4>1. c = Cyc(c.s, c.added, c.phase, c.mode, c.kernels)
        BY <3>1 DEF IsCyc
      <4>2. ASSUME NEW s, NEW a, NEW ph, NEW m, NEW k, c = Cyc(s, a, ph, m, k)
            PROVE  Plain(c) = Cyc(s, a, ph, m, FALSE)
        BY <4>2, CycFields
      <4> QED BY <4>1, <4>2
    <3>2. Plain(inst[1]) = Plain(inst[2])
      BY <2>2, <2>4, <3>1
    <3> QED BY <2>1, <3>2, TraceTells
  <2> QED BY <2>3, <2>4
<1>2. Spec => []ToldSession
  BY ToldSessionInit, ToldSessionStep, SessionInvAlways, PTL DEF Spec
<1> QED BY <1>1, <1>2, SessionInvAlways, PTL

=============================================================================
