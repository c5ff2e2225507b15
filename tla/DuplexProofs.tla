---------------------------- MODULE DuplexProofs ----------------------------
(***************************************************************************)
(* For every width, every valid rate and every sequence of calls: what     *)
(* Duplexing() permutes is the padded input, what is given out afterwards  *)
(* is its output, each byte once and in order, and no bit beyond the rate  *)
(* is given out.                                                           *)
(***************************************************************************)
EXTENDS Duplex, SequenceTheorems, TLAPS

\* Bytes as sets of symbols: of the state and the input, and as they are given.
Symbols == ({"out"} \X Nat \X Nat) \cup ({"in"} \X Nat)
Byte == SUBSET Symbols
Given == [byte : SUBSET (Symbols \cup {<<"add">>}), bits : Nat]

Duplexes ==
  [rate : Nat, byteInputIndex : Nat, byteOutputIndex : Nat, perms : Nat,
   state : [Offsets -> Byte]]

TypesInv ==
  /\ duplex \in Duplexes /\ fed \in Nat
  /\ sigma \in Seq(Byte) /\ given \in Seq(Given)

\* Byte p of the state, with q queued since permutation e.
Held(e, q, p) ==
  IF p + 1 \in 1 .. Len(q) THEN Xor({<<"out", e, p>>}, q[p + 1]) ELSE {<<"out", e, p>>}

\* The state is the output of the last permutation with the queue added to it,
\* the queue leaves two bits of the rate, and nothing has happened to an object
\* that is not initialized.
QueueInv ==
  /\ Len(sigma) = duplex.byteInputIndex
  /\ \A p \in Offsets : duplex.state[p] = Held(duplex.perms, sigma, p)
  /\ duplex.rate # 0 =>
       duplex.rate \in 3 .. Width /\ 8 * duplex.byteInputIndex <= duplex.rate - 2
  /\ duplex.rate = 0 => duplex.perms = 0 /\ sigma = <<>> /\ last.end = 0

\* b is the i-th byte of the output of permutation e, with the queue q added
\* to it or not.
Follows(b, e, q, i) == b \ {<<"add">>} \in {{<<"out", e, i - 1>>}, Held(e, q, i - 1)}

\* What has been given out, and how much of it.
OutputInv ==
  /\ duplex.byteOutputIndex <= RateBytes(duplex)
  /\ duplex.perms > 0 =>
       /\ Len(given) = duplex.byteOutputIndex
       /\ \A i \in 1 .. Len(given) : /\ Follows(given[i].byte, duplex.perms, sigma, i)
                                     /\ given[i].bits = BitsGiven(duplex, i - 1)

IInv == TypesInv /\ QueueInv /\ OutputInv

-----------------------------------------------------------------------------
(* Bytes, states, and what each function does to the duplex object.        *)

LEMMA OffsetsType == Offsets \subseteq Nat
BY DuplexWidth DEF Offsets

LEMMA PermutedType ==
  ASSUME NEW e \in Nat
  PROVE  Permuted(e) \in [Offsets -> Byte]
<1>1. \A p \in Offsets : {<<"out", e, p>>} \in Byte
  BY OffsetsType DEF Byte, Symbols
<1> QED BY <1>1 DEF Permuted

LEMMA XorType ==
  ASSUME NEW A \in Byte, NEW B \in Byte
  PROVE  Xor(A, B) \in Byte
BY DEF Xor, Byte

Queued(D, s, n) == [D EXCEPT !.state = s, !.byteInputIndex = D.byteInputIndex + n]

LEMMA QueuedFields ==
  ASSUME NEW D \in Duplexes, NEW s \in [Offsets -> Byte], NEW n \in Nat
  PROVE  /\ Queued(D, s, n) \in Duplexes
         /\ Queued(D, s, n).rate = D.rate
         /\ Queued(D, s, n).byteInputIndex = D.byteInputIndex + n
         /\ Queued(D, s, n).byteOutputIndex = D.byteOutputIndex
         /\ Queued(D, s, n).perms = D.perms
         /\ Queued(D, s, n).state = s
<1>1. D.byteInputIndex + n \in Nat
  BY DEF Duplexes
<1> QED BY <1>1 DEF Queued, Duplexes

LEMMA AddInputFields ==
  ASSUME NEW D \in Duplexes, NEW data \in Seq(Byte)
  PROVE  /\ AddInput(D, data) \in Duplexes
         /\ AddInput(D, data).rate = D.rate
         /\ AddInput(D, data).byteInputIndex = D.byteInputIndex + Len(data)
         /\ AddInput(D, data).byteOutputIndex = D.byteOutputIndex
         /\ AddInput(D, data).perms = D.perms
         /\ AddInput(D, data).state =
              [p \in Offsets |->
                 IF p - D.byteInputIndex \in 0 .. Len(data) - 1
                   THEN Xor(D.state[p], data[p - D.byteInputIndex + 1])
                   ELSE D.state[p]]
<1> DEFINE new == [p \in Offsets |->
                 IF p - D.byteInputIndex \in 0 .. Len(data) - 1
                   THEN Xor(D.state[p], data[p - D.byteInputIndex + 1])
                   ELSE D.state[p]]
<1>1. Len(data) \in Nat /\ \A i \in 1 .. Len(data) : data[i] \in Byte
  BY LenProperties, ElementOfSeq
<1>2. D.byteInputIndex \in Nat /\ D.state \in [Offsets -> Byte]
  BY DEF Duplexes
<1>3. ASSUME NEW p \in Offsets PROVE new[p] \in Byte
  <2>1. p \in Nat
    BY OffsetsType
  <2>2. CASE p - D.byteInputIndex \in 0 .. Len(data) - 1
    <3>1. p - D.byteInputIndex + 1 \in 1 .. Len(data)
      BY <1>1, <1>2, <2>1, <2>2
    <3>2. data[p - D.byteInputIndex + 1] \in Byte
      BY <1>1, <3>1
    <3> QED BY <1>2, <2>2, <3>2, XorType
  <2>3. CASE ~(p - D.byteInputIndex \in 0 .. Len(data) - 1)
    BY <1>2, <2>3
  <2> QED BY <2>2, <2>3
<1>4. new \in [Offsets -> Byte]
  BY <1>3
<1>5. AddInput(D, data) = Queued(D, new, Len(data))
  BY DEF AddInput, Queued, Duplexes
<1> HIDE DEF new
<1>6. /\ AddInput(D, data) \in Duplexes
      /\ AddInput(D, data).rate = D.rate
      /\ AddInput(D, data).byteInputIndex = D.byteInputIndex + Len(data)
      /\ AddInput(D, data).byteOutputIndex = D.byteOutputIndex
      /\ AddInput(D, data).perms = D.perms
      /\ AddInput(D, data).state = new
  BY <1>1, <1>4, <1>5, QueuedFields
<1> QED BY <1>6 DEF new

LEMMA OverwriteFields ==
  ASSUME NEW D \in Duplexes, NEW data \in Seq(Byte)
  PROVE  /\ OverwriteInput(D, data) \in Duplexes
         /\ OverwriteInput(D, data).rate = D.rate
         /\ OverwriteInput(D, data).byteInputIndex = D.byteInputIndex + Len(data)
         /\ OverwriteInput(D, data).byteOutputIndex = D.byteOutputIndex
         /\ OverwriteInput(D, data).perms = D.perms
         /\ OverwriteInput(D, data).state =
              [p \in Offsets |->
                 IF p - D.byteInputIndex \in 0 .. Len(data) - 1
                   THEN data[p - D.byteInputIndex + 1]
                   ELSE D.state[p]]
<1> DEFINE new == [p \in Offsets |->
                 IF p - D.byteInputIndex \in 0 .. Len(data) - 1
                   THEN data[p - D.byteInputIndex + 1]
                   ELSE D.state[p]]
<1>1. Len(data) \in Nat /\ \A i \in 1 .. Len(data) : data[i] \in Byte
  BY LenProperties, ElementOfSeq
<1>2. D.byteInputIndex \in Nat /\ D.state \in [Offsets -> Byte]
  BY DEF Duplexes
<1>3. ASSUME NEW p \in Offsets PROVE new[p] \in Byte
  <2>1. p \in Nat
    BY OffsetsType
  <2>2. CASE p - D.byteInputIndex \in 0 .. Len(data) - 1
    <3>1. p - D.byteInputIndex + 1 \in 1 .. Len(data)
      BY <1>1, <1>2, <2>1, <2>2
    <3>2. data[p - D.byteInputIndex + 1] \in Byte
      BY <1>1, <3>1
    <3> QED BY <2>2, <3>2
  <2>3. CASE ~(p - D.byteInputIndex \in 0 .. Len(data) - 1)
    BY <1>2, <2>3
  <2> QED BY <2>2, <2>3
<1>4. new \in [Offsets -> Byte]
  BY <1>3
<1>5. OverwriteInput(D, data) = Queued(D, new, Len(data))
  BY DEF OverwriteInput, Queued, Duplexes
<1> HIDE DEF new
<1>6. /\ OverwriteInput(D, data) \in Duplexes
      /\ OverwriteInput(D, data).rate = D.rate
      /\ OverwriteInput(D, data).byteInputIndex = D.byteInputIndex + Len(data)
      /\ OverwriteInput(D, data).byteOutputIndex = D.byteOutputIndex
      /\ OverwriteInput(D, data).perms = D.perms
      /\ OverwriteInput(D, data).state = new
  BY <1>1, <1>4, <1>5, QueuedFields
<1> QED BY <1>6 DEF new

LEMMA FurtherFields ==
  ASSUME NEW D \in Duplexes, NEW n \in Nat
  PROVE  /\ AfterFurther(D, n) \in Duplexes
         /\ AfterFurther(D, n).rate = D.rate
         /\ AfterFurther(D, n).byteInputIndex = D.byteInputIndex
         /\ AfterFurther(D, n).byteOutputIndex = D.byteOutputIndex + n
         /\ AfterFurther(D, n).perms = D.perms
         /\ AfterFurther(D, n).state = D.state
BY DEF AfterFurther, Duplexes

LEMMA NewDuplexFields ==
  ASSUME NEW r \in Nat
  PROVE  NewDuplex(r) \in Duplexes
<1>1. (r + 7) \div 8 \in Nat
  BY SMT
<1> QED BY <1>1, PermutedType DEF NewDuplex, Duplexes

LEMMA AfterDuplexingFields ==
  ASSUME NEW D \in Duplexes, NEW z \in Nat
  PROVE  /\ AfterDuplexing(D, z) \in Duplexes
         /\ AfterDuplexing(D, z).rate = D.rate
         /\ AfterDuplexing(D, z).byteInputIndex = 0
         /\ AfterDuplexing(D, z).byteOutputIndex = z
         /\ AfterDuplexing(D, z).perms = D.perms + 1
         /\ AfterDuplexing(D, z).state = Permuted(D.perms + 1)
<1>1. D.perms + 1 \in Nat
  BY DEF Duplexes
<1>2. Permuted(D.perms + 1) \in [Offsets -> Byte]
  BY <1>1, PermutedType
<1> QED BY <1>1, <1>2 DEF AfterDuplexing, Duplexes

\* The bytes that the caller passes, and those that are there.
LEMMA InputTypes ==
  ASSUME TypesInv, NEW n \in Nat
  PROVE  /\ NextInput(n) \in Seq(Byte) /\ Len(NextInput(n)) = n
         /\ Zeroes(n) \in Seq(Byte) /\ Len(Zeroes(n)) = n
         /\ PreviousOutput(n) \in Seq(Byte) /\ Len(PreviousOutput(n)) = n
<1>1. fed \in Nat /\ duplex.perms \in Nat /\ Len(sigma) \in Nat
  BY LenProperties DEF TypesInv, Duplexes
<1>2. \A i \in 1 .. n : {<<"in", fed + i>>} \in Byte
  <2> TAKE i \in 1 .. n
  <2>1. fed + i \in Nat
    BY <1>1
  <2> QED BY <2>1 DEF Byte, Symbols
<1>3. NextInput(n) \in Seq(Byte) /\ Len(NextInput(n)) = n
  <2> DEFINE s == [i \in 1 .. n |-> {<<"in", fed + i>>}]
  <2>1. s \in [1 .. n -> Byte]
    BY <1>2
  <2> HIDE DEF s
  <2>2. s \in Seq(Byte) /\ Len(s) = n
    BY <2>1
  <2> QED BY <2>2 DEF NextInput, s
<1>4. Zeroes(n) \in Seq(Byte) /\ Len(Zeroes(n)) = n
  <2>1. {} \in Byte
    BY DEF Byte
  <2> QED BY <2>1 DEF Zeroes
<1>5. PreviousOutput(n) \in Seq(Byte) /\ Len(PreviousOutput(n)) = n
  <2> DEFINE s == [i \in 1 .. n |-> {<<"out", duplex.perms, Len(sigma) + i - 1>>}]
  <2>1. ASSUME NEW i \in 1 .. n PROVE {<<"out", duplex.perms, Len(sigma) + i - 1>>} \in Byte
    <3>1. Len(sigma) + i - 1 \in Nat
      BY <1>1
    <3> QED BY <1>1, <3>1 DEF Byte, Symbols
  <2>2. s \in [1 .. n -> Byte]
    BY <2>1
  <2> HIDE DEF s
  <2>3. s \in Seq(Byte) /\ Len(s) = n
    BY <2>2
  <2> QED BY <2>3 DEF PreviousOutput, s
<1> QED BY <1>3, <1>4, <1>5

\* Exclusive or undoes itself.
LEMMA XorTwice == \A A, B : Xor(A, Xor(A, B)) = B /\ Xor(A, A) = {} /\ Xor(A, {}) = A
BY DEF Xor

\* What follows the end of s in the concatenation of s and x.
LEMMA Appended ==
  ASSUME NEW S, NEW s \in Seq(S), NEW x \in Seq(S), NEW k \in Nat,
         k - Len(s) \in 0 .. Len(x) - 1
  PROVE  k + 1 \in 1 .. Len(s \o x) /\ (s \o x)[k + 1] = x[k - Len(s) + 1]
<1>1. Len(s) \in Nat /\ Len(x) \in Nat
  BY LenProperties
<1>2. k + 1 \in 1 .. Len(s) + Len(x) /\ ~(k + 1 <= Len(s)) /\ k + 1 - Len(s) = k - Len(s) + 1
  BY <1>1
<1> QED BY <1>2, ConcatProperties

\* Queueing x, whatever call did it, keeps the state what the queue says.
LEMMA QueueGrows ==
  ASSUME TypesInv, QueueInv, NEW x \in Seq(Byte), NEW E \in Duplexes,
         E.perms = duplex.perms,
         \A p \in Offsets : E.state[p] =
            IF p - Len(sigma) \in 0 .. Len(x) - 1
              THEN Xor({<<"out", duplex.perms, p>>}, x[p - Len(sigma) + 1])
              ELSE duplex.state[p]
  PROVE  /\ sigma \o x \in Seq(Byte) /\ Len(sigma \o x) = Len(sigma) + Len(x)
         /\ \A p \in Offsets : E.state[p] = Held(E.perms, sigma \o x, p)
         /\ \A i \in 1 .. Len(sigma) : (sigma \o x)[i] = sigma[i]
<1> DEFINE q == sigma \o x
<1>1. sigma \in Seq(Byte) /\ Len(sigma) \in Nat /\ Len(x) \in Nat
  BY LenProperties DEF TypesInv
<1>2. /\ q \in Seq(Byte) /\ Len(q) = Len(sigma) + Len(x)
      /\ \A i \in 1 .. Len(sigma) + Len(x) :
           q[i] = IF i <= Len(sigma) THEN sigma[i] ELSE x[i - Len(sigma)]
  BY <1>1, ConcatProperties
<1> HIDE DEF q
<1>0. \A p \in Offsets : E.state[p] =
            IF p - Len(sigma) \in 0 .. Len(x) - 1
              THEN Xor({<<"out", duplex.perms, p>>}, x[p - Len(sigma) + 1])
              ELSE duplex.state[p]
  OBVIOUS
<1>3. ASSUME NEW p \in Offsets PROVE E.state[p] = Held(E.perms, q, p)
  <2>1. p \in Nat
    BY OffsetsType
  <2>2. CASE p < Len(sigma)
    <3>1. p + 1 \in 1 .. Len(q) /\ p + 1 \in 1 .. Len(sigma) /\ q[p + 1] = sigma[p + 1]
      BY <1>1, <1>2, <2>1, <2>2
    <3>2. E.state[p] = duplex.state[p]
      <4>1. ~(p - Len(sigma) \in 0 .. Len(x) - 1)
        BY <1>1, <2>1, <2>2
      <4> QED BY ONLY <1>0, <4>1, p \in Offsets
    <3> QED BY <3>1, <3>2 DEF QueueInv, Held
  <2>3. CASE p - Len(sigma) \in 0 .. Len(x) - 1
    <3>1. p + 1 \in 1 .. Len(q) /\ q[p + 1] = x[p - Len(sigma) + 1]
      BY <1>1, <1>2, <2>1, <2>3, Appended DEF q
    <3> QED BY <1>0, <2>3, <3>1 DEF Held
  <2>4. CASE p >= Len(sigma) + Len(x)
    <3>1. p + 1 \notin 1 .. Len(q) /\ p + 1 \notin 1 .. Len(sigma)
          /\ ~(p - Len(sigma) \in 0 .. Len(x) - 1)
      BY <1>1, <1>2, <2>1, <2>4
    <3> QED BY <1>0, <3>1 DEF QueueInv, Held
  <2> QED BY <1>1, <2>1, <2>2, <2>3, <2>4
<1> QED BY <1>1, <1>2, <1>3 DEF q

-----------------------------------------------------------------------------
(* The calls that queue input.                                             *)

\* What a call does that queues x: the bytes of the state are given.
Queues(x) ==
  /\ duplex.rate # 0 /\ Fits(duplex, Len(x))
  /\ duplex' \in Duplexes
  /\ duplex'.rate = duplex.rate /\ duplex'.perms = duplex.perms
  /\ duplex'.byteInputIndex = duplex.byteInputIndex + Len(x)
  /\ duplex'.byteOutputIndex = duplex.byteOutputIndex
  /\ \A p \in Offsets : duplex'.state[p] =
        IF p - Len(sigma) \in 0 .. Len(x) - 1
          THEN Xor({<<"out", duplex.perms, p>>}, x[p - Len(sigma) + 1])
          ELSE duplex.state[p]
  /\ fed' \in Nat /\ sigma' = sigma \o x
  /\ UNCHANGED <<given, last>>

LEMMA QueuesIInv ==
  ASSUME IInv, NEW x \in Seq(Byte), Queues(x)
  PROVE  IInv'
<1>1. TypesInv /\ QueueInv /\ OutputInv /\ Len(x) \in Nat /\ Len(sigma) \in Nat
  BY LenProperties DEF IInv, TypesInv
<1>2. /\ sigma' \in Seq(Byte) /\ Len(sigma') = Len(sigma) + Len(x)
      /\ \A p \in Offsets : duplex'.state[p] = Held(duplex'.perms, sigma', p)
      /\ \A i \in 1 .. Len(sigma) : sigma'[i] = sigma[i]
  BY <1>1, QueueGrows DEF Queues
<1>3. TypesInv'
  BY <1>1, <1>2 DEF Queues, TypesInv
<1>4. duplex.rate \in Nat /\ duplex.byteInputIndex \in Nat /\ duplex.byteOutputIndex \in Nat
  BY <1>1 DEF TypesInv, Duplexes
<1>5. QueueInv'
  BY <1>1, <1>2, <1>4 DEF Queues, QueueInv, Fits, RhoMax
<1>6. ASSUME NEW b, NEW i \in Nat \ {0}, Follows(b, duplex.perms, sigma, i)
      PROVE  Follows(b, duplex'.perms, sigma', i)
  <2>1. i - 1 + 1 = i
    OBVIOUS
  <2>2. CASE i \in 1 .. Len(sigma)
    <3>1. i \in 1 .. Len(sigma') /\ sigma'[i] = sigma[i]
      BY <1>1, <1>2, <2>2
    <3> QED BY <1>6, <2>1, <2>2, <3>1 DEF Follows, Held, Queues
  <2>3. CASE i \notin 1 .. Len(sigma)
    BY <1>6, <2>1, <2>3 DEF Follows, Held, Queues
  <2> QED BY <2>2, <2>3
<1>7. OutputInv'
  <2>1. duplex'.byteOutputIndex <= RateBytes(duplex')
    BY <1>1 DEF Queues, OutputInv, RateBytes
  <2>2. ASSUME duplex'.perms > 0
        PROVE  /\ Len(given') = duplex'.byteOutputIndex
               /\ \A i \in 1 .. Len(given') :
                    /\ Follows(given'[i].byte, duplex'.perms, sigma', i)
                    /\ given'[i].bits = BitsGiven(duplex', i - 1)
    <3>1. given' = given /\ duplex'.perms = duplex.perms /\ duplex'.rate = duplex.rate
          /\ duplex'.byteOutputIndex = duplex.byteOutputIndex
      BY DEF Queues
    <3>2. Len(given) = duplex.byteOutputIndex
      BY <1>1, <2>2, <3>1 DEF OutputInv
    <3>3. ASSUME NEW i \in 1 .. Len(given)
          PROVE  /\ Follows(given[i].byte, duplex'.perms, sigma', i)
                 /\ given[i].bits = BitsGiven(duplex', i - 1)
      <4>1. Follows(given[i].byte, duplex.perms, sigma, i)
            /\ given[i].bits = BitsGiven(duplex, i - 1)
        BY <1>1, <2>2, <3>1 DEF OutputInv
      <4>2. i \in Nat \ {0}
        BY <1>4, <3>2
      <4> QED BY <1>6, <3>1, <4>1, <4>2 DEF BitsGiven
    <3> QED BY <3>1, <3>2, <3>3
  <2> QED BY <2>1, <2>2 DEF OutputInv
<1> QED BY <1>3, <1>5, <1>7 DEF IInv

\* The state where nothing is queued is what the last permutation left.
LEMMA NothingQueued ==
  ASSUME TypesInv, QueueInv, NEW p \in Offsets, p >= Len(sigma)
  PROVE  duplex.state[p] = {<<"out", duplex.perms, p>>}
<1>1. p \in Nat /\ Len(sigma) \in Nat
  BY OffsetsType, LenProperties DEF TypesInv
<1>2. p + 1 \notin 1 .. Len(sigma)
  BY <1>1
<1> QED BY <1>2 DEF QueueInv, Held

LEMMA AddedState ==
  ASSUME IInv, NEW x \in Seq(Byte)
  PROVE  \A p \in Offsets : AddInput(duplex, x).state[p] =
            IF p - Len(sigma) \in 0 .. Len(x) - 1
              THEN Xor({<<"out", duplex.perms, p>>}, x[p - Len(sigma) + 1])
              ELSE duplex.state[p]
<1>1. TypesInv /\ QueueInv /\ duplex \in Duplexes /\ Len(sigma) = duplex.byteInputIndex
  BY DEF IInv, TypesInv, QueueInv
<1>2. Len(x) \in Nat /\ Len(sigma) \in Nat
  BY <1>1, LenProperties DEF TypesInv
<1>3. ASSUME NEW p \in Offsets, p - Len(sigma) \in 0 .. Len(x) - 1
      PROVE  duplex.state[p] = {<<"out", duplex.perms, p>>}
  <2>1. p \in Nat /\ p >= Len(sigma)
    BY <1>2, <1>3, OffsetsType
  <2> QED BY <1>1, <2>1, NothingQueued
<1>4. AddInput(duplex, x).state =
        [p \in Offsets |-> IF p - Len(sigma) \in 0 .. Len(x) - 1
                             THEN Xor(duplex.state[p], x[p - Len(sigma) + 1])
                             ELSE duplex.state[p]]
  BY <1>1, AddInputFields
<1> QED BY ONLY <1>3, <1>4

LEMMA AddsAreQueued ==
  ASSUME IInv, NEW x \in Seq(Byte), duplex.rate # 0, Fits(duplex, Len(x)),
         duplex' = AddInput(duplex, x), fed' \in Nat, sigma' = sigma \o x,
         UNCHANGED <<given, last>>
  PROVE  Queues(x)
<1>1. duplex \in Duplexes
  BY DEF IInv, TypesInv
<1> QED BY <1>1, AddedState, AddInputFields DEF Queues

\* Writing data is queueing x when x is data and the previous output.
LEMMA OverwritesAreQueued ==
  ASSUME IInv, NEW data \in Seq(Byte), NEW x \in Seq(Byte), Len(x) = Len(data),
         \A i \in 1 .. Len(x) :
            data[i] = Xor({<<"out", duplex.perms, Len(sigma) + i - 1>>}, x[i]),
         duplex.rate # 0, Fits(duplex, Len(x)),
         duplex' = OverwriteInput(duplex, data), fed' \in Nat, sigma' = sigma \o x,
         UNCHANGED <<given, last>>
  PROVE  Queues(x)
<1>1. TypesInv /\ QueueInv /\ duplex \in Duplexes /\ Len(sigma) = duplex.byteInputIndex
  BY DEF IInv, TypesInv, QueueInv
<1>2. Len(x) \in Nat /\ Len(sigma) \in Nat
  BY <1>1, LenProperties DEF TypesInv
<1>3. ASSUME NEW p \in Offsets, p - Len(sigma) \in 0 .. Len(x) - 1
      PROVE  data[p - Len(sigma) + 1]
             = Xor({<<"out", duplex.perms, p>>}, x[p - Len(sigma) + 1])
  <2> DEFINE i == p - Len(sigma) + 1
  <2>1. i \in 1 .. Len(x) /\ Len(sigma) + i - 1 = p
    BY <1>2, <1>3, OffsetsType
  <2> HIDE DEF i
  <2>2. data[i] = Xor({<<"out", duplex.perms, p>>}, x[i])
    BY <2>1
  <2> QED BY <2>2 DEF i
<1>4. \A p \in Offsets : duplex'.state[p] =
        IF p - Len(sigma) \in 0 .. Len(x) - 1
          THEN Xor({<<"out", duplex.perms, p>>}, x[p - Len(sigma) + 1])
          ELSE duplex.state[p]
  <2>1. duplex'.state =
          [p \in Offsets |-> IF p - Len(sigma) \in 0 .. Len(data) - 1
                               THEN data[p - Len(sigma) + 1] ELSE duplex.state[p]]
    <3>1. OverwriteInput(duplex, data).state =
            [p \in Offsets |-> IF p - duplex.byteInputIndex \in 0 .. Len(data) - 1
                                 THEN data[p - duplex.byteInputIndex + 1]
                                 ELSE duplex.state[p]]
      BY <1>1, OverwriteFields, Zenon
    <3>2. duplex' = OverwriteInput(duplex, data) /\ Len(sigma) = duplex.byteInputIndex
      BY <1>1
    <3> QED BY ONLY <3>1, <3>2
  <2>2. Len(data) = Len(x)
    OBVIOUS
  <2> QED BY ONLY <2>1, <2>2, <1>3
<1> QED BY <1>1, <1>4, OverwriteFields, ZenonT(40) DEF Queues

LEMMA FeedIInv ==
  ASSUME IInv, NEW n \in Nat,
         DuplexingFeedPartialInput(n) \/ DuplexingFeedZeroes(n)
  PROVE  IInv'
<1>1. TypesInv /\ fed + n \in Nat
  BY DEF IInv, TypesInv
<1>2. CASE DuplexingFeedPartialInput(n)
  <2>1. Queues(NextInput(n))
    BY <1>1, <1>2, InputTypes, AddsAreQueued DEF DuplexingFeedPartialInput
  <2> QED BY <1>1, <2>1, InputTypes, QueuesIInv
<1>3. CASE DuplexingFeedZeroes(n)
  <2>1. fed' \in Nat
    BY <1>1, <1>3 DEF DuplexingFeedZeroes, TypesInv
  <2>2. Queues(Zeroes(n))
    BY <1>1, <1>3, <2>1, InputTypes, AddsAreQueued DEF DuplexingFeedZeroes
  <2> QED BY <1>1, <2>2, InputTypes, QueuesIInv
<1> QED BY <1>2, <1>3

LEMMA XorBytesType ==
  ASSUME NEW s \in Seq(Byte), NEW t \in Seq(Byte), Len(s) = Len(t)
  PROVE  /\ XorBytes(s, t) \in Seq(Byte) /\ Len(XorBytes(s, t)) = Len(s)
         /\ \A i \in 1 .. Len(s) : XorBytes(s, t)[i] = Xor(s[i], t[i])
<1> DEFINE x == [i \in 1 .. Len(s) |-> Xor(s[i], t[i])]
<1>1. Len(s) \in Nat
  BY LenProperties
<1>2. ASSUME NEW i \in 1 .. Len(s) PROVE Xor(s[i], t[i]) \in Byte
  BY ElementOfSeq, XorType
<1>3. x \in [1 .. Len(s) -> Byte]
  BY <1>2
<1>4. \A i \in 1 .. Len(s) : x[i] = Xor(s[i], t[i])
  OBVIOUS
<1> HIDE DEF x
<1>5. x \in Seq(Byte) /\ Len(x) = Len(s)
  BY <1>1, <1>3
<1> QED BY <1>4, <1>5 DEF XorBytes, x

LEMMA OverwriteIInv ==
  ASSUME IInv, NEW n \in Nat,
         DuplexingOverwritePartialInput(n) \/ DuplexingOverwriteWithZeroes(n)
  PROVE  IInv'
<1>1. TypesInv /\ fed + n \in Nat
  BY DEF IInv, TypesInv
<1>2. /\ NextInput(n) \in Seq(Byte) /\ Len(NextInput(n)) = n
      /\ Zeroes(n) \in Seq(Byte) /\ Len(Zeroes(n)) = n
      /\ PreviousOutput(n) \in Seq(Byte) /\ Len(PreviousOutput(n)) = n
  BY <1>1, InputTypes
<1>3. \A i \in 1 .. n : PreviousOutput(n)[i] = {<<"out", duplex.perms, Len(sigma) + i - 1>>}
  BY DEF PreviousOutput
<1>4. CASE DuplexingOverwritePartialInput(n)
  <2> DEFINE x == XorBytes(PreviousOutput(n), NextInput(n))
  <2>1. /\ x \in Seq(Byte) /\ Len(x) = n
        /\ \A i \in 1 .. n : x[i] = Xor(PreviousOutput(n)[i], NextInput(n)[i])
    BY <1>2, XorBytesType
  <2>2. /\ duplex.rate # 0 /\ Fits(duplex, n) /\ fed' \in Nat /\ sigma' = sigma \o x
        /\ duplex' = OverwriteInput(duplex, NextInput(n)) /\ UNCHANGED <<given, last>>
    BY <1>1, <1>4 DEF DuplexingOverwritePartialInput
  <2> HIDE DEF x
  <2>3. \A i \in 1 .. n :
          NextInput(n)[i] = Xor({<<"out", duplex.perms, Len(sigma) + i - 1>>}, x[i])
    <3> TAKE i \in 1 .. n
    <3> DEFINE o == {<<"out", duplex.perms, Len(sigma) + i - 1>>}
    <3>1. x[i] = Xor(o, NextInput(n)[i])
      BY <1>3, <2>1
    <3> HIDE DEF o
    <3>2. NextInput(n)[i] = Xor(o, x[i])
      BY ONLY <3>1, XorTwice
    <3> QED BY <3>2 DEF o
  <2>4. Queues(x)
    BY <1>2, <2>1, <2>2, <2>3, OverwritesAreQueued
  <2> QED BY <2>1, <2>4, QueuesIInv
<1>5. CASE DuplexingOverwriteWithZeroes(n)
  <2>1. /\ duplex.rate # 0 /\ Fits(duplex, n) /\ fed' \in Nat
        /\ sigma' = sigma \o PreviousOutput(n)
        /\ duplex' = OverwriteInput(duplex, Zeroes(n)) /\ UNCHANGED <<given, last>>
    BY <1>1, <1>5 DEF DuplexingOverwriteWithZeroes, CanOverwriteWithZeroes, TypesInv
  <2>2. \A i \in 1 .. n : Zeroes(n)[i] = {}
    BY DEF Zeroes
  <2>3. \A i \in 1 .. n :
          Zeroes(n)[i] = Xor({<<"out", duplex.perms, Len(sigma) + i - 1>>}, PreviousOutput(n)[i])
    BY <1>3, <2>2, XorTwice
  <2>4. Queues(PreviousOutput(n))
    BY <1>2, <2>1, <2>3, OverwritesAreQueued
  <2> QED BY <1>2, <2>4, QueuesIInv
<1> QED BY <1>4, <1>5

-----------------------------------------------------------------------------
(* The calls that give output.                                             *)

\* The last byte of the rate is a byte of the state, and the bits of it that
\* are given out are bits of the rate.
LEMMA RateInState ==
  ASSUME NEW D \in Duplexes, D.rate \in 0 .. Width, NEW p \in Nat, p < RateBytes(D)
  PROVE  p \in Offsets /\ BitsGiven(D, p) \in Nat /\ 8 * p + BitsGiven(D, p) <= D.rate
<1>1. D.rate \in Nat /\ p < (D.rate + 7) \div 8
  BY DEF Duplexes, RateBytes
<1>2. p < Width \div 8
  BY <1>1, DuplexWidth
<1>3. p \in Offsets
  BY <1>2, DuplexWidth DEF Offsets
<1>4. BitsGiven(D, p) \in Nat /\ 8 * p + BitsGiven(D, p) <= D.rate
  BY <1>1 DEF BitsGiven
<1> QED BY <1>3, <1>4

LEMMA OutputIs ==
  ASSUME NEW D \in Duplexes, D.rate \in 0 .. Width, NEW k \in Nat, NEW n \in Nat,
         k + n <= RateBytes(D)
  PROVE  /\ Output(D, k, n) \in Seq(Given) /\ Len(Output(D, k, n)) = n
         /\ \A i \in 1 .. n : /\ k + i - 1 \in Offsets
                             /\ Output(D, k, n)[i].byte = D.state[k + i - 1]
                             /\ Output(D, k, n)[i].bits = BitsGiven(D, k + i - 1)
<1> DEFINE g == [i \in 1 .. n |-> [byte |-> D.state[k + i - 1], bits |-> BitsGiven(D, k + i - 1)]]
<1>1. RateBytes(D) \in Nat
  BY DEF RateBytes, Duplexes
<1>2. ASSUME NEW i \in 1 .. n
      PROVE  k + i - 1 \in Offsets /\ g[i] \in Given
  <2>1. k + i - 1 \in Nat /\ k + i - 1 < RateBytes(D)
    BY <1>1
  <2>2. k + i - 1 \in Offsets /\ BitsGiven(D, k + i - 1) \in Nat
    BY <2>1, RateInState
  <2>3. D.state[k + i - 1] \in SUBSET (Symbols \cup {<<"add">>})
    BY <2>2 DEF Duplexes, Byte
  <2> QED BY <2>2, <2>3 DEF Given
<1>3. g \in [1 .. n -> Given]
  BY <1>2
<1>4. \A i \in 1 .. n : /\ g[i].byte = D.state[k + i - 1]
                       /\ g[i].bits = BitsGiven(D, k + i - 1)
  OBVIOUS
<1> HIDE DEF g
<1>5. g \in Seq(Given) /\ Len(g) = n
  BY <1>3
<1> QED BY <1>2, <1>4, <1>5 DEF Output, g

LEMMA DuplexingIInv ==
  ASSUME IInv, NEW n \in Nat, NEW z \in Nat, NEW d \in Nat, Duplexing(n, z, d)
  PROVE  IInv'
<1> DEFINE Q == AddInput(duplex, NextInput(n))
<1>1. /\ TypesInv /\ QueueInv /\ duplex \in Duplexes /\ fed + n \in Nat
      /\ NextInput(n) \in Seq(Byte)
  BY InputTypes DEF IInv, TypesInv
<1>2. Q \in Duplexes /\ Q.rate = duplex.rate /\ Q.perms = duplex.perms
  BY <1>1, AddInputFields
<1> HIDE DEF Q
<1>3. /\ duplex' = AfterDuplexing(Q, z) /\ fed' = fed + n /\ sigma' = <<>>
      /\ given' = Output(duplex', 0, z) /\ duplex.rate # 0 /\ z <= RateBytes(duplex)
  BY DEF Duplexing, CanDuplex, Q
<1>4. /\ duplex' \in Duplexes /\ duplex'.rate = duplex.rate /\ duplex'.byteInputIndex = 0
      /\ duplex'.byteOutputIndex = z /\ duplex'.state = Permuted(duplex'.perms)
  <2>1. /\ AfterDuplexing(Q, z) \in Duplexes
        /\ AfterDuplexing(Q, z).rate = Q.rate
        /\ AfterDuplexing(Q, z).byteInputIndex = 0
        /\ AfterDuplexing(Q, z).byteOutputIndex = z
        /\ AfterDuplexing(Q, z).state = Permuted(AfterDuplexing(Q, z).perms)
    <3>1. /\ AfterDuplexing(Q, z).state = Permuted(Q.perms + 1)
          /\ AfterDuplexing(Q, z).perms = Q.perms + 1
      BY <1>2, AfterDuplexingFields
    <3> QED BY <1>2, <3>1, AfterDuplexingFields
  <2> QED BY ONLY <1>2, <1>3, <2>1
<1>5. \A p \in Offsets : duplex'.state[p] = {<<"out", duplex'.perms, p>>}
  BY <1>4 DEF Permuted
<1>6. duplex.rate \in 3 .. Width /\ duplex.rate \in 0 .. Width
  BY <1>1, <1>3, DuplexWidth DEF QueueInv
<1>7. z <= RateBytes(duplex')
  BY <1>3, <1>4 DEF RateBytes
<1>8. /\ given' \in Seq(Given) /\ Len(given') = z
      /\ \A i \in 1 .. z : /\ 0 + i - 1 \in Offsets
                          /\ given'[i].byte = duplex'.state[0 + i - 1]
                          /\ given'[i].bits = BitsGiven(duplex', 0 + i - 1)
  <2>1. 0 + z <= RateBytes(duplex') /\ duplex'.rate \in 0 .. Width /\ 0 \in Nat
    BY <1>4, <1>6, <1>7
  <2>2. /\ Output(duplex', 0, z) \in Seq(Given) /\ Len(Output(duplex', 0, z)) = z
        /\ \A i \in 1 .. z : /\ 0 + i - 1 \in Offsets
                            /\ Output(duplex', 0, z)[i].byte = duplex'.state[0 + i - 1]
                            /\ Output(duplex', 0, z)[i].bits = BitsGiven(duplex', 0 + i - 1)
    BY <1>4, <2>1, OutputIs
  <2> QED BY ONLY <1>3, <2>2
<1>9. TypesInv'
  BY <1>1, <1>3, <1>4, <1>8 DEF TypesInv
<1>10. QueueInv'
  <2>1. \A p \in Offsets : p + 1 \notin 1 .. Len(sigma')
    BY <1>3
  <2>2. \A p \in Offsets : duplex'.state[p] = Held(duplex'.perms, sigma', p)
    BY <1>5, <2>1 DEF Held
  <2>3. Len(sigma') = duplex'.byteInputIndex /\ 8 * duplex'.byteInputIndex <= duplex'.rate - 2
    BY <1>3, <1>4, <1>6
  <2>4. duplex'.rate \in 3 .. Width /\ duplex'.rate # 0
    BY ONLY <1>3, <1>4, <1>6
  <2> QED BY ONLY <2>2, <2>3, <2>4 DEF QueueInv
<1>11. OutputInv'
  <2>1. ASSUME NEW i \in 1 .. z
        PROVE  /\ Follows(given'[i].byte, duplex'.perms, sigma', i)
               /\ given'[i].bits = BitsGiven(duplex', i - 1)
    <3>1. 0 + i - 1 = i - 1
      OBVIOUS
    <3>2. given'[i].byte = {<<"out", duplex'.perms, i - 1>>}
          /\ given'[i].bits = BitsGiven(duplex', i - 1)
      BY <1>5, <1>8, <3>1
    <3>3. given'[i].byte \ {<<"add">>} = given'[i].byte
      BY <3>2
    <3> QED BY <3>2, <3>3 DEF Follows
  <2> QED BY <1>4, <1>7, <1>8, <2>1 DEF OutputInv
<1> QED BY <1>9, <1>10, <1>11 DEF IInv

\* Giving out the bytes g that follow, with something added to them or not.
LEMMA GivesIInv ==
  ASSUME IInv, NEW n \in Nat, duplex.rate # 0, CanGetFurther(duplex, n),
         duplex' = AfterFurther(duplex, n), UNCHANGED <<fed, sigma, last>>,
         NEW g \in Seq(Given), Len(g) = n, given' = given \o g,
         \A i \in 1 .. n :
            /\ duplex.byteOutputIndex + i - 1 \in Offsets
            /\ g[i].byte \ {<<"add">>} = duplex.state[duplex.byteOutputIndex + i - 1]
            /\ g[i].bits = BitsGiven(duplex, duplex.byteOutputIndex + i - 1)
  PROVE  IInv'
<1> DEFINE k == duplex.byteOutputIndex
<1>0. \A i \in 1 .. n : /\ k + i - 1 \in Offsets
                       /\ g[i].byte \ {<<"add">>} = duplex.state[k + i - 1]
                       /\ g[i].bits = BitsGiven(duplex, k + i - 1)
  OBVIOUS
<1>1. /\ TypesInv /\ QueueInv /\ OutputInv /\ duplex \in Duplexes /\ k \in Nat
      /\ given \in Seq(Given)
  BY DEF IInv, TypesInv, Duplexes
<1>2. /\ duplex' \in Duplexes /\ duplex'.rate = duplex.rate
      /\ duplex'.byteInputIndex = duplex.byteInputIndex
      /\ duplex'.byteOutputIndex = k + n
      /\ duplex'.perms = duplex.perms /\ duplex'.state = duplex.state
  BY <1>1, FurtherFields
<1>3. /\ given' \in Seq(Given) /\ Len(given') = Len(given) + n
      /\ \A i \in 1 .. Len(given) + n :
           given'[i] = IF i <= Len(given) THEN given[i] ELSE g[i - Len(given)]
  <2>1. /\ given \in Seq(Given) /\ g \in Seq(Given) /\ Len(g) = n
        /\ given' = given \o g
    BY <1>1
  <2>2. /\ given \o g \in Seq(Given) /\ Len(given \o g) = Len(given) + Len(g)
        /\ \A i \in 1 .. Len(given) + Len(g) :
             (given \o g)[i] = IF i <= Len(given) THEN given[i] ELSE g[i - Len(given)]
    BY ONLY <2>1, ConcatProperties, Zenon
  <2> QED BY ONLY <2>1, <2>2
<1>4. TypesInv'
  BY <1>1, <1>2, <1>3 DEF TypesInv
<1>5. QueueInv'
  BY <1>1, <1>2 DEF QueueInv
<1>6. k + n <= RateBytes(duplex')
  <2>1. RateBytes(duplex) \in Int
    BY <1>1 DEF RateBytes, Duplexes
  <2> QED BY <1>1, <1>2, <2>1 DEF CanGetFurther, RateBytes
<1>7. ASSUME duplex.perms > 0, NEW j \in 1 .. k + n
      PROVE  /\ Len(given) = k
             /\ Follows(given'[j].byte, duplex.perms, sigma, j)
             /\ given'[j].bits = BitsGiven(duplex, j - 1)
  <2>1. /\ Len(given) = k
        /\ \A i \in 1 .. Len(given) : /\ Follows(given[i].byte, duplex.perms, sigma, i)
                                      /\ given[i].bits = BitsGiven(duplex, i - 1)
    BY <1>1, <1>7 DEF OutputInv
  <2>2. CASE j <= k
    <3>1. j \in 1 .. Len(given) /\ given'[j] = given[j]
      BY <1>1, <1>3, <1>7, <2>1, <2>2
    <3> QED BY <2>1, <3>1
  <2>3. CASE j > k
    <3> DEFINE i == j - k
    <3>1. i \in 1 .. n /\ k + i - 1 = j - 1
      BY <1>1, <1>7, <2>3
    <3>2. given'[j] = g[i]
      BY <1>1, <1>3, <1>7, <2>1, <2>3, SMTT(40)
    <3> HIDE DEF i
    <3>3. /\ j - 1 \in Offsets /\ g[i].byte \ {<<"add">>} = duplex.state[j - 1]
          /\ g[i].bits = BitsGiven(duplex, j - 1)
      BY <1>0, <3>1
    <3>4. duplex.state[j - 1] = Held(duplex.perms, sigma, j - 1)
      BY <1>1, <3>3 DEF QueueInv
    <3> QED BY <2>1, <3>2, <3>3, <3>4 DEF Follows
  <2> QED BY <1>1, <1>7, <2>2, <2>3
<1>8. OutputInv'
  <2>1. ASSUME duplex'.perms > 0
        PROVE  /\ Len(given') = duplex'.byteOutputIndex
               /\ \A i \in 1 .. Len(given') :
                    /\ Follows(given'[i].byte, duplex'.perms, sigma', i)
                    /\ given'[i].bits = BitsGiven(duplex', i - 1)
    <3>1. Len(given) = k
      BY <1>1, <1>2, <2>1 DEF OutputInv
    <3>2. \A j \in 1 .. k + n : /\ Follows(given'[j].byte, duplex.perms, sigma, j)
                               /\ given'[j].bits = BitsGiven(duplex, j - 1)
      BY <1>2, <1>7, <2>1
    <3> QED BY <1>2, <1>3, <3>1, <3>2 DEF BitsGiven
  <2> QED BY <1>2, <1>6, <2>1 DEF OutputInv
<1> QED BY <1>4, <1>5, <1>8 DEF IInv

LEMMA FurtherIInv ==
  ASSUME IInv, NEW n \in Nat,
         DuplexingGetFurtherOutput(n) \/ DuplexingGetFurtherOutputAndAdd(n)
  PROVE  IInv'
<1> DEFINE k == duplex.byteOutputIndex
           o == Output(duplex, k, n)
<1>1. /\ duplex.rate # 0 /\ CanGetFurther(duplex, n)
      /\ duplex' = AfterFurther(duplex, n) /\ UNCHANGED <<fed, sigma, last>>
  BY DEF DuplexingGetFurtherOutput, DuplexingGetFurtherOutputAndAdd
<1>2. QueueInv /\ duplex \in Duplexes /\ k \in Nat
  BY DEF IInv, TypesInv, Duplexes
<1>3. duplex.rate \in 0 .. Width
  BY <1>1, <1>2, DuplexWidth DEF QueueInv
<1>4. k + n <= RateBytes(duplex)
  <2>1. RateBytes(duplex) \in Int
    BY <1>2 DEF RateBytes, Duplexes
  <2> QED BY <1>1, <1>2, <2>1 DEF CanGetFurther
<1>5. /\ o \in Seq(Given) /\ Len(o) = n
      /\ \A i \in 1 .. n : /\ k + i - 1 \in Offsets
                          /\ o[i].byte = duplex.state[k + i - 1]
                          /\ o[i].bits = BitsGiven(duplex, k + i - 1)
  BY <1>2, <1>3, <1>4, OutputIs
<1>6. \A i \in 1 .. n : <<"add">> \notin o[i].byte /\ o[i].byte \in Byte
  <2> TAKE i \in 1 .. n
  <2>1. o[i].byte \in Byte
    BY <1>2, <1>5 DEF Duplexes
  <2>2. <<"add">> \notin Symbols
    BY DEF Symbols
  <2> QED BY <2>1, <2>2 DEF Byte
<1> HIDE DEF o
<1>7. CASE DuplexingGetFurtherOutput(n)
  <2>1. given' = given \o o
    BY <1>7 DEF DuplexingGetFurtherOutput, o
  <2>2. \A i \in 1 .. n : o[i].byte \ {<<"add">>} = duplex.state[k + i - 1]
    BY <1>5, <1>6
  <2> QED BY <1>1, <1>5, <2>1, <2>2, GivesIInv
<1>8. CASE DuplexingGetFurtherOutputAndAdd(n)
  <2> DEFINE g == [i \in DOMAIN o |-> [o[i] EXCEPT !.byte = Xor(@, {<<"add">>})]]
  <2>1. given' = given \o g
    BY <1>8 DEF DuplexingGetFurtherOutputAndAdd, o
  <2>2. DOMAIN o = 1 .. n
    BY <1>5, LenProperties
  <2>3. ASSUME NEW i \in 1 .. n
        PROVE  /\ g[i] \in Given /\ g[i].byte \ {<<"add">>} = duplex.state[k + i - 1]
               /\ g[i].bits = BitsGiven(duplex, k + i - 1)
    <3>1. o[i] \in Given
      BY <1>5, ElementOfSeq
    <3>2. g[i] = [o[i] EXCEPT !.byte = Xor(o[i].byte, {<<"add">>})]
      BY <2>2
    <3> HIDE DEF g
    <3>3. g[i].byte = Xor(o[i].byte, {<<"add">>}) /\ g[i].bits = o[i].bits
      BY <3>1, <3>2 DEF Given
    <3>4. Xor(o[i].byte, {<<"add">>}) \in SUBSET (Symbols \cup {<<"add">>})
      BY <1>6 DEF Xor, Byte
    <3>5. g[i] \in Given
      BY <3>1, <3>2, <3>4 DEF Given
    <3>6. g[i].byte \ {<<"add">>} = o[i].byte
      BY <1>6, <3>3 DEF Xor
    <3> QED BY <1>5, <3>3, <3>5, <3>6
  <2>4. g \in [1 .. n -> Given]
    BY <2>2, <2>3
  <2> HIDE DEF g
  <2>5. g \in Seq(Given) /\ Len(g) = n
    BY <2>4
  <2> QED BY <1>1, <1>5, <2>1, <2>3, <2>5, GivesIInv
<1> QED BY <1>7, <1>8

-----------------------------------------------------------------------------
(* The inductive invariant.                                                *)

LEMMA InitIInv == Init => IInv
<1> SUFFICES ASSUME Init PROVE IInv
  OBVIOUS
<1>1. /\ duplex = NewDuplex(0) /\ fed = 0 /\ sigma = <<>> /\ given = <<>> /\ last.end = 0
  BY DEF Init
<1>2. NewDuplex(0) \in Duplexes
  BY NewDuplexFields
<1>3. TypesInv
  BY <1>1, <1>2, EmptySeq DEF TypesInv
<1>4. /\ duplex.rate = 0 /\ duplex.byteInputIndex = 0 /\ duplex.byteOutputIndex = 0
      /\ duplex.perms = 0 /\ duplex.state = Permuted(0)
  BY <1>1 DEF NewDuplex
<1>5. QueueInv
  <2>1. Len(sigma) = 0
    BY <1>1
  <2>2. \A p \in Offsets : duplex.state[p] = Held(duplex.perms, sigma, p)
    BY <1>4, <2>1, OffsetsType DEF Held, Permuted
  <2> QED BY <1>1, <1>4, <2>1, <2>2 DEF QueueInv
<1>6. OutputInv
  BY <1>4 DEF OutputInv, RateBytes
<1> QED BY <1>3, <1>5, <1>6 DEF IInv

LEMMA InitializeIInv ==
  ASSUME IInv, NEW r \in Rates, DuplexInitialize(r)
  PROVE  IInv'
<1>1. /\ duplex.rate = 0 /\ r + (Width - r) = Width /\ r > 2 /\ r <= Width
      /\ duplex' = NewDuplex(r) /\ UNCHANGED <<fed, sigma, given, last>>
  BY DEF DuplexInitialize, ValidRate
<1>2. r \in Nat /\ r \in 3 .. Width
  BY <1>1, DuplexAssumption, DuplexWidth
<1>3. NewDuplex(r) \in Duplexes
  BY <1>2, NewDuplexFields
<1>4. /\ duplex'.rate = r /\ duplex'.byteInputIndex = 0
      /\ duplex'.byteOutputIndex = (r + 7) \div 8
      /\ duplex'.perms = 0 /\ duplex'.state = Permuted(0)
  BY <1>1 DEF NewDuplex
<1>5. sigma = <<>> /\ sigma' = <<>>
  BY <1>1 DEF IInv, QueueInv
<1>6. TypesInv'
  BY <1>1, <1>3 DEF IInv, TypesInv
<1>7. QueueInv'
  BY <1>2, <1>4, <1>5 DEF QueueInv, Held, Permuted
<1>8. OutputInv'
  BY <1>2, <1>4 DEF OutputInv, RateBytes
<1> QED BY <1>6, <1>7, <1>8 DEF IInv

LEMMA NextIInv == IInv /\ [Next]_vars => IInv'
<1> SUFFICES ASSUME IInv, [Next]_vars PROVE IInv'
  OBVIOUS
<1>1. ASSUME NEW r \in Rates, DuplexInitialize(r) PROVE IInv'
  BY <1>1, InitializeIInv
<1>2. Lengths \subseteq Nat /\ Delimiters \subseteq Nat
  BY DuplexAssumption DEF Lengths
<1>3. ASSUME NEW n \in Lengths, NEW z \in Lengths, NEW d \in Delimiters, Duplexing(n, z, d)
      PROVE  IInv'
  BY <1>2, <1>3, DuplexingIInv
<1>4. ASSUME NEW n \in Lengths, DuplexingFeedPartialInput(n) \/ DuplexingFeedZeroes(n)
      PROVE  IInv'
  BY <1>2, <1>4, FeedIInv
<1>5. ASSUME NEW n \in Lengths,
             DuplexingOverwritePartialInput(n) \/ DuplexingOverwriteWithZeroes(n)
      PROVE  IInv'
  BY <1>2, <1>5, OverwriteIInv
<1>6. ASSUME NEW n \in Lengths,
             DuplexingGetFurtherOutput(n) \/ DuplexingGetFurtherOutputAndAdd(n)
      PROVE  IInv'
  BY <1>2, <1>6, FurtherIInv
<1>7. CASE UNCHANGED vars
  <2>1. /\ duplex' = duplex /\ fed' = fed /\ sigma' = sigma /\ given' = given /\ last' = last
    BY <1>7 DEF vars
  <2> QED BY <2>1 DEF IInv, TypesInv, QueueInv, OutputInv, RateBytes, BitsGiven
<1> QED BY <1>1, <1>3, <1>4, <1>5, <1>6, <1>7 DEF Next

\* Whatever the caller does, the queue of a duplex object is the input since its
\* last permutation and its output index the number of bytes given out since
\* (KeccakDuplex.inc 53-194).
THEOREM Invariant == Spec => []IInv
BY InitIInv, NextIInv, PTL DEF Spec

-----------------------------------------------------------------------------
(* What is given out.                                                      *)

\* However the output is taken, in one call or many, plain or added to bytes
\* of the caller, it is the output of the last Duplexing(), each byte once and
\* in order, up to what was queued in between (KeccakDuplex.inc 145-194).
THEOREM OutputIsInOrder == Spec => []FurtherOutputFollows
<1>1. IInv => FurtherOutputFollows
  <2> SUFFICES ASSUME IInv, duplex.perms > 0
               PROVE  /\ Len(given) = duplex.byteOutputIndex
                      /\ \A i \in 1 .. Len(given) :
                           LET out == {<<"out", duplex.perms, i - 1>>}
                           IN  given[i].byte \ {<<"add">>} \in
                                 {out} \cup {Xor(out, sigma[j]) : j \in {i} \cap (1 .. Len(sigma))}
    BY DEF FurtherOutputFollows
  <2>1. /\ Len(given) = duplex.byteOutputIndex
        /\ \A i \in 1 .. Len(given) : Follows(given[i].byte, duplex.perms, sigma, i)
    BY DEF IInv, OutputInv
  <2>2. ASSUME NEW i \in 1 .. Len(given)
        PROVE  LET out == {<<"out", duplex.perms, i - 1>>}
               IN  given[i].byte \ {<<"add">>} \in
                     {out} \cup {Xor(out, sigma[j]) : j \in {i} \cap (1 .. Len(sigma))}
    <3>1. Len(given) \in Nat
      BY LenProperties DEF IInv, TypesInv
    <3>2. i - 1 + 1 = i
      BY <3>1
    <3> QED BY <2>1, <3>2 DEF Follows, Held
  <2> QED BY <2>1, <2>2
<1> QED BY <1>1, Invariant, PTL

\* The bits beyond the rate, which carry the capacity, are masked in the last
\* byte, and no byte beyond it is given (KeccakDuplex.inc 90-93).
THEOREM CapacityStaysInside == Spec => []NoCapacityBitOut
<1>1. IInv => NoCapacityBitOut
  <2> SUFFICES ASSUME IInv, duplex.perms > 0, NEW i \in 1 .. Len(given)
               PROVE  8 * (i - 1) + given[i].bits <= duplex.rate
    BY DEF NoCapacityBitOut
  <2>1. /\ Len(given) = duplex.byteOutputIndex /\ duplex.byteOutputIndex <= RateBytes(duplex)
        /\ given[i].bits = BitsGiven(duplex, i - 1)
    BY DEF IInv, OutputInv
  <2>2. /\ duplex \in Duplexes /\ duplex.byteOutputIndex \in Nat /\ duplex.rate \in Nat
        /\ RateBytes(duplex) \in Nat
    BY DEF IInv, TypesInv, Duplexes, RateBytes
  <2>3. i - 1 \in Nat /\ i - 1 < RateBytes(duplex)
    BY <2>1, <2>2
  <2>4. duplex.rate \in 0 .. Width
    BY <2>2, DuplexWidth DEF IInv, QueueInv
  <2> QED BY <2>1, <2>2, <2>3, <2>4, RateInState
<1> QED BY <1>1, Invariant, PTL

-----------------------------------------------------------------------------
(* What is permuted.                                                       *)

\* A byte that is not zero has a bit that is set, and a last one.
LEMMA LastBit ==
  ASSUME NEW d \in 1 .. 255
  PROVE  /\ TrailingBits(d) \in BitsOf(d)
         /\ \A j \in BitsOf(d) : j <= TrailingBits(d)
<1>1. BitsOf(d) \subseteq 0 .. 7
  BY DEF BitsOf
<1>2. \E k \in 0 .. 7 : k \in BitsOf(d)
  <2> SUFFICES ASSUME \A k \in 0 .. 7 : k \notin BitsOf(d) PROVE FALSE
    OBVIOUS
  <2>1. \A k \in 0 .. 7 : (d \div 2^k) % 2 # 1
    BY DEF BitsOf
  <2>2. /\ (d \div 1) % 2 # 1 /\ (d \div 2) % 2 # 1 /\ (d \div 4) % 2 # 1
        /\ (d \div 8) % 2 # 1 /\ (d \div 16) % 2 # 1 /\ (d \div 32) % 2 # 1
        /\ (d \div 64) % 2 # 1 /\ (d \div 128) % 2 # 1
    <3>1. 2^0 = 1 /\ 2^1 = 2 /\ 2^2 = 4 /\ 2^3 = 8 /\ 2^4 = 16 /\ 2^5 = 32 /\ 2^6 = 64 /\ 2^7 = 128
      BY SMT
    <3>2. /\ (d \div 2^0) % 2 # 1 /\ (d \div 2^1) % 2 # 1 /\ (d \div 2^2) % 2 # 1
          /\ (d \div 2^3) % 2 # 1 /\ (d \div 2^4) % 2 # 1 /\ (d \div 2^5) % 2 # 1
          /\ (d \div 2^6) % 2 # 1 /\ (d \div 2^7) % 2 # 1
      BY <2>1
    <3> QED BY <3>1, <3>2
  <2> QED BY <2>2
<1>3. \E k \in BitsOf(d) : \A j \in BitsOf(d) : j <= k
  <2> DEFINE B == BitsOf(d)
  <2>1. B \subseteq 0 .. 7 /\ \E k \in 0 .. 7 : k \in B
    BY <1>1, <1>2
  <2> HIDE DEF B
  <2>2. CASE 7 \in B
    BY <2>1, <2>2 DEF B
  <2>3. CASE 6 \in B /\ 7 \notin B
    BY <2>1, <2>3 DEF B
  <2>4. CASE 5 \in B /\ 6 \notin B /\ 7 \notin B
    BY <2>1, <2>4 DEF B
  <2>5. CASE 4 \in B /\ 5 \notin B /\ 6 \notin B /\ 7 \notin B
    BY <2>1, <2>5 DEF B
  <2>6. CASE 4 \notin B /\ 5 \notin B /\ 6 \notin B /\ 7 \notin B
    <3>1. CASE 3 \in B
      BY <2>1, <2>6, <3>1 DEF B
    <3>2. CASE 2 \in B /\ 3 \notin B
      BY <2>1, <2>6, <3>2 DEF B
    <3>3. CASE 1 \in B /\ 2 \notin B /\ 3 \notin B
      BY <2>1, <2>6, <3>3 DEF B
    <3>4. CASE 1 \notin B /\ 2 \notin B /\ 3 \notin B
      BY <2>1, <2>6, <3>4 DEF B
    <3> QED BY <3>1, <3>2, <3>3, <3>4
  <2> QED BY <2>2, <2>3, <2>4, <2>5, <2>6
<1> QED BY <1>3 DEF TrailingBits

Bits(B) == {<<"bit", k>> : k \in B}

\* The bits at the positions n + k of B, and at position r - 1, by the byte that
\* holds them.
BitsInByte(L, B, r, p) ==
  {<<"bit", i % 8>> : i \in {j \in {8 * L + k : k \in B} \cup {r - 1} : j \div 8 = p}}

BitsBelow(L, B, r) == \A k \in B : 8 * L + k < r - 1

LastByte(r) == (r - 1) \div 8

LastBits(r) == Bits({(r - 1) % 8})

LEMMA BitsAreSet ==
  ASSUME NEW L \in Nat, NEW B \in SUBSET (0 .. 7), NEW r \in Nat \ {0}, NEW p \in Nat,
         BitsBelow(L, B, r)
  PROVE  BitsInByte(L, B, r, p) =
           Xor(IF p = L THEN Bits(B) ELSE {}, IF p = LastByte(r) THEN LastBits(r) ELSE {})
<1> USE DEF BitsBelow
<1> DEFINE e == (r - 1) \div 8
           m == (r - 1) % 8
           A == IF p = L THEN Bits(B) ELSE {}
           C == IF p = e THEN Bits({m}) ELSE {}
<1>1. e \in Nat /\ m \in 0 .. 7 /\ r - 1 = 8 * e + m
  OBVIOUS
<1>2. \A k \in B : (8 * L + k) \div 8 = L /\ (8 * L + k) % 8 = k /\ (e = L => k # m)
  BY <1>1
<1> HIDE DEF e, m
<1>3. BitsInByte(L, B, r, p) = A \cup C
  <2>1. (r - 1) \div 8 = e /\ (r - 1) % 8 = m
    BY DEF e, m
  <2>2. ASSUME NEW b \in BitsInByte(L, B, r, p) PROVE b \in A \cup C
    <3>1. PICK j \in {8 * L + k : k \in B} \cup {r - 1} : j \div 8 = p /\ b = <<"bit", j % 8>>
      BY <2>2 DEF BitsInByte
    <3>2. CASE j = r - 1
      BY <2>1, <3>1, <3>2 DEF Bits
    <3>3. CASE j \in {8 * L + k : k \in B}
      BY <1>2, <3>1, <3>3 DEF Bits
    <3> QED BY <3>1, <3>2, <3>3
  <2>3. ASSUME NEW b \in A PROVE b \in BitsInByte(L, B, r, p)
    <3>1. p = L
      BY <2>3
    <3>2. PICK k \in B : b = <<"bit", k>>
      BY <2>3, <3>1 DEF Bits
    <3>3. 8 * L + k \in {8 * L + j : j \in B}
      OBVIOUS
    <3> QED BY <1>2, <3>1, <3>2, <3>3 DEF BitsInByte
  <2>4. ASSUME NEW b \in C PROVE b \in BitsInByte(L, B, r, p)
    BY <2>1, <2>4 DEF Bits, BitsInByte
  <2> QED BY <2>2, <2>3, <2>4
<1>4. A \cap C = {}
  BY <1>2 DEF Bits
<1>5. Xor(A, C) = A \cup C
  BY <1>4 DEF Xor
<1> QED BY <1>3, <1>5 DEF e, m, LastByte, LastBits

\* Without BitsBelow the last bit may be one of B, and cancel it.
LEMMA BitsAreWithin ==
  ASSUME NEW L \in Nat, NEW B \in SUBSET (0 .. 7), NEW r \in Nat \ {0}, NEW p \in Nat
  PROVE  Xor(IF p = L THEN Bits(B) ELSE {}, IF p = LastByte(r) THEN LastBits(r) ELSE {})
           \subseteq BitsInByte(L, B, r, p)
<1> DEFINE A == IF p = L THEN Bits(B) ELSE {}
           C == IF p = LastByte(r) THEN LastBits(r) ELSE {}
<1>1. ASSUME NEW b \in A PROVE b \in BitsInByte(L, B, r, p)
  <2>1. p = L
    BY <1>1
  <2>2. PICK k \in B : b = <<"bit", k>>
    BY <1>1, <2>1 DEF Bits
  <2>3. 8 * L + k \in {8 * L + j : j \in B}
    OBVIOUS
  <2>4. (8 * L + k) \div 8 = L /\ (8 * L + k) % 8 = k
    OBVIOUS
  <2> QED BY <2>1, <2>2, <2>3, <2>4 DEF BitsInByte
<1>2. ASSUME NEW b \in C PROVE b \in BitsInByte(L, B, r, p)
  BY <1>2 DEF LastByte, LastBits, Bits, BitsInByte
<1> QED BY <1>1, <1>2 DEF Xor

LEMMA XorLaws ==
  \A A, B, C : Xor(Xor(A, B), C) = Xor(A, Xor(B, C)) /\ Xor(A, {}) = A /\ Xor({}, A) = A
BY DEF Xor

\* XORing A and C into two bytes of s, of which the second may be the first.
XorTwo(s, L, e, A, C) ==
  LET t == [s EXCEPT ![L] = Xor(@, A)]
  IN  [t EXCEPT ![e] = Xor(@, C)]

LEMMA XorTwoBytes ==
  ASSUME NEW s \in [Offsets -> Byte], NEW L \in Offsets, NEW e \in Offsets, NEW A, NEW C,
         NEW p \in Offsets
  PROVE  XorTwo(s, L, e, A, C)[p]
         = Xor(s[p], Xor(IF p = L THEN A ELSE {}, IF p = e THEN C ELSE {}))
<1> DEFINE t == [s EXCEPT ![L] = Xor(s[L], A)]
           X == IF p = L THEN A ELSE {}
           Y == IF p = e THEN C ELSE {}
<1>1. t[p] = Xor(s[p], X)
  BY XorLaws
<1>2. DOMAIN t = Offsets
  OBVIOUS
<1> HIDE DEF t
<1>3. [t EXCEPT ![e] = Xor(t[e], C)][p] = Xor(t[p], Y)
  BY <1>2, XorLaws
<1> HIDE DEF X, Y
<1>4. [t EXCEPT ![e] = Xor(t[e], C)][p] = Xor(s[p], Xor(X, Y))
  BY ONLY <1>1, <1>3, XorLaws
<1> QED BY <1>4 DEF t, X, Y, XorTwo

\* BlocksArePadded, of a state that is permuted, with the output of permutation e,
\* for the input q and the delimited bits d.
Padded(state, q, e, d, r) ==
  LET n == Len(q)
      ones == {8 * n + k : k \in BitsOf(d)} \cup {r - 1}
      Within(p) == {<<"bit", i % 8>> : i \in {j \in ones : j \div 8 = p}}
      Added(p) == Xor({<<"out", e, p>>}, state[p])
  IN  d # 0 =>
        /\ \A p \in Offsets : IF p < n THEN Added(p) = q[p + 1]
                                       ELSE Added(p) \subseteq Within(p)
        /\ 8 * n + TrailingBits(d) <= r - 2 =>
             /\ 8 * n + TrailingBits(d) < r - 1
             /\ \A p \in Offsets : p >= n => Added(p) = Within(p)

LEMMA DuplexingPads ==
  ASSUME IInv, NEW n \in Nat, NEW z \in Nat, NEW d \in Delimiters,
         Duplexing(n, z, d)
  PROVE  BlocksArePadded'
<1> DEFINE x == NextInput(n)
           q == sigma \o x
           L == Len(q)
           r == duplex.rate
           e == LastByte(r)
           s == AddInput(duplex, x).state
           b == Bits(BitsOf(d))
           c == LastBits(r)
<1>1. /\ TypesInv /\ QueueInv /\ duplex \in Duplexes /\ x \in Seq(Byte) /\ Len(x) = n
      /\ sigma \in Seq(Byte) /\ Len(sigma) \in Nat /\ Len(sigma) = duplex.byteInputIndex
  BY InputTypes, LenProperties DEF IInv, TypesInv, QueueInv
<1>2. AddInput(duplex, x) \in Duplexes /\ AddInput(duplex, x).perms = duplex.perms
      /\ AddInput(duplex, x).rate = r /\ AddInput(duplex, x).byteInputIndex = Len(sigma) + n
      /\ s \in [Offsets -> Byte]
  BY <1>1, AddInputFields DEF Duplexes
<1>3. /\ q \in Seq(Byte) /\ L = Len(sigma) + n
      /\ \A p \in Offsets : s[p] = Held(duplex.perms, q, p)
  <2> DEFINE E == AddInput(duplex, x)
  <2>1. E \in Duplexes /\ E.perms = duplex.perms
    BY <1>2
  <2>2. \A p \in Offsets : E.state[p] =
          IF p - Len(sigma) \in 0 .. Len(x) - 1
            THEN Xor({<<"out", duplex.perms, p>>}, x[p - Len(sigma) + 1])
            ELSE duplex.state[p]
    BY <1>1, AddedState
  <2> HIDE DEF E
  <2>3. /\ sigma \o x \in Seq(Byte) /\ Len(sigma \o x) = Len(sigma) + Len(x)
        /\ \A p \in Offsets : E.state[p] = Held(E.perms, sigma \o x, p)
    BY ONLY <1>1, <2>1, <2>2, QueueGrows
  <2> QED BY ONLY <1>1, <2>1, <2>3 DEF E
<1>4. L \in Nat /\ r \in 3 .. Width /\ d \in 1 .. 255 /\ 8 * L <= r - 2
  <2>1. r # 0 /\ d # 0 /\ Fits(duplex, n)
    BY DEF Duplexing, CanDuplex
  <2>2. d \in 1 .. 255
    BY <2>1, DuplexAssumption
  <2> QED BY <1>1, <1>3, <2>1, <2>2 DEF QueueInv, Fits, RhoMax
<1>5. /\ last'.sigma = q /\ last'.end = d /\ last'.perms = duplex.perms /\ duplex'.rate = r
      /\ last'.state = PaddedState(duplex, x, d)
  <2>1. AfterDuplexing(AddInput(duplex, x), z).rate = r
    BY <1>2, AfterDuplexingFields
  <2> QED BY <2>1 DEF Duplexing
<1>6. last'.state = XorTwo(s, L, e, b, c)
  BY <1>2, <1>3, <1>5 DEF PaddedState, Bits, XorTwo, LastByte, LastBits
<1> HIDE DEF x, q, L, r, s, b, c
<1>7. BitsOf(d) \in SUBSET (0 .. 7)
  BY DEF BitsOf
<1>8. e \in Offsets /\ L \in Offsets /\ L <= e
  BY <1>4, DuplexWidth DEF Offsets, LastByte
<1> DEFINE Added(p) == Xor({<<"out", duplex.perms, p>>}, last'.state[p])
           Rest(p) == Xor(IF p = L THEN b ELSE {}, IF p = e THEN c ELSE {})
<1>9. ASSUME NEW p \in Offsets
      PROVE  Added(p) = IF p < L THEN q[p + 1] ELSE Rest(p)
  <2>1. p \in Nat
    BY OffsetsType
  <2>2. last'.state[p] = Xor(s[p], Rest(p))
    BY <1>2, <1>6, <1>8, XorTwoBytes
  <2>3. s[p] = Held(duplex.perms, q, p)
    BY <1>3
  <2>4. CASE p < L
    <3>1. p # L /\ p # e
      BY <1>4, <1>8, <2>1, <2>4, OffsetsType
    <3>2. p + 1 \in 1 .. Len(q)
      BY <1>4, <2>1, <2>4 DEF L
    <3> QED BY <2>2, <2>3, <2>4, <3>1, <3>2 DEF Held, Xor
  <2>5. CASE ~(p < L)
    <3>1. p + 1 \notin 1 .. Len(q)
      BY <1>4, <2>1, <2>5 DEF L
    <3>2. s[p] = {<<"out", duplex.perms, p>>}
      BY <2>3, <3>1 DEF Held
    <3> HIDE DEF Rest
    <3> QED BY <2>2, <2>5, <3>2 DEF Xor
  <2> QED BY <2>4, <2>5
<1>10. ASSUME NEW p \in Offsets
       PROVE  /\ Rest(p) \subseteq BitsInByte(L, BitsOf(d), r, p)
              /\ 8 * L + TrailingBits(d) <= r - 2 => Rest(p) = BitsInByte(L, BitsOf(d), r, p)
  <2>1. p \in Nat /\ L \in Nat /\ r \in Nat \ {0}
    BY <1>4, OffsetsType
  <2>2. Rest(p) \subseteq BitsInByte(L, BitsOf(d), r, p)
    BY ONLY <1>7, <2>1, BitsAreWithin DEF b, c, e
  <2>3. ASSUME 8 * L + TrailingBits(d) <= r - 2 PROVE BitsBelow(L, BitsOf(d), r)
    <3>1. TrailingBits(d) \in BitsOf(d) /\ \A j \in BitsOf(d) : j <= TrailingBits(d)
      BY <1>4, LastBit
    <3> QED BY <1>4, <1>7, <2>3, <3>1 DEF BitsBelow
  <2>4. BitsBelow(L, BitsOf(d), r) => Rest(p) = BitsInByte(L, BitsOf(d), r, p)
    BY ONLY <1>7, <2>1, BitsAreSet DEF b, c, e
  <2> QED BY <2>2, <2>3, <2>4
<1>11. 8 * L + TrailingBits(d) <= r - 2 => 8 * L + TrailingBits(d) < r - 1
  <2>1. TrailingBits(d) \in BitsOf(d)
    BY <1>4, LastBit
  <2> QED BY <1>4, <1>7, <2>1
<1>12. \A p \in Offsets : p < L \/ p >= L
  BY <1>4, OffsetsType
<1>13. \A p \in Offsets : p >= L => ~(p < L)
  BY <1>4, OffsetsType
<1> HIDE DEF Rest
<1>14. Padded(last'.state, q, duplex.perms, d, r)
  <2>1. \A p \in Offsets : IF p < L THEN Added(p) = q[p + 1]
                           ELSE Added(p) \subseteq BitsInByte(L, BitsOf(d), r, p)
    BY ONLY <1>9, <1>10
  <2>2. ASSUME 8 * L + TrailingBits(d) <= r - 2
        PROVE  \A p \in Offsets : p >= L => Added(p) = BitsInByte(L, BitsOf(d), r, p)
    BY ONLY <1>9, <1>10, <1>13, <2>2
  <2> QED BY ONLY <1>11, <2>1, <2>2 DEF Padded, BitsInByte, L
<1>15. Padded(last'.state, last'.sigma, last'.perms, last'.end, duplex'.rate)
  BY ONLY <1>5, <1>14
<1> QED BY ONLY <1>15 DEF BlocksArePadded, KeptToLength, Padded

\* For any caller, the state Duplexing() permutes is what the last permutation
\* left XORed with the input, whatever calls queued it; after the input it is
\* padded with 10*1 to the rate, if the call kept to the documented length
\* (KeccakDuplex.inc 37-98).
THEOREM EveryBlockIsPadded == Spec => []BlocksArePadded
<1>1. Init => BlocksArePadded
  BY DEF Init, BlocksArePadded
<1>2. IInv /\ BlocksArePadded /\ [Next]_vars => BlocksArePadded'
  <2> SUFFICES ASSUME IInv, BlocksArePadded, [Next]_vars PROVE BlocksArePadded'
    OBVIOUS
  <2>1. ASSUME NEW n \in Lengths, NEW z \in Lengths, NEW d \in Delimiters,
               Duplexing(n, z, d)
        PROVE  BlocksArePadded'
    BY <2>1, DuplexingPads DEF Lengths
  <2>2. ASSUME NEW r \in Rates, DuplexInitialize(r) PROVE BlocksArePadded'
    <3>1. last' = last /\ last.end = 0
      BY <2>2 DEF DuplexInitialize, IInv, QueueInv
    <3> QED BY <3>1 DEF BlocksArePadded
  <2>3. ASSUME last' = last, duplex'.rate = duplex.rate PROVE BlocksArePadded'
    <3>1. Padded(last.state, last.sigma, last.perms, last.end, duplex.rate)
      BY ONLY BlocksArePadded DEF BlocksArePadded, KeptToLength, Padded
    <3>2. Padded(last'.state, last'.sigma, last'.perms, last'.end, duplex'.rate)
      BY ONLY <2>3, <3>1
    <3> QED BY ONLY <3>2 DEF BlocksArePadded, KeptToLength, Padded
  <2>4. TypesInv
    BY DEF IInv
  <2>5. ASSUME NEW n \in Lengths,
               \/ DuplexingFeedPartialInput(n) \/ DuplexingFeedZeroes(n)
               \/ DuplexingOverwritePartialInput(n) \/ DuplexingOverwriteWithZeroes(n)
               \/ DuplexingGetFurtherOutput(n) \/ DuplexingGetFurtherOutputAndAdd(n)
        PROVE  last' = last /\ duplex'.rate = duplex.rate
    <3>1. n \in Nat /\ duplex \in Duplexes
      BY <2>4 DEF TypesInv, Lengths
    <3>2. /\ NextInput(n) \in Seq(Byte) /\ Zeroes(n) \in Seq(Byte)
      BY <2>4, <3>1, InputTypes
    <3> DEFINE x == NextInput(n)
               z == Zeroes(n)
    <3>3. /\ AddInput(duplex, x).rate = duplex.rate /\ AddInput(duplex, z).rate = duplex.rate
          /\ OverwriteInput(duplex, x).rate = duplex.rate
          /\ OverwriteInput(duplex, z).rate = duplex.rate
      BY ONLY <3>1, <3>2, AddInputFields, OverwriteFields
    <3>4. AfterFurther(duplex, n).rate = duplex.rate
      BY ONLY <3>1, FurtherFields
    <3>5. last' = last
      BY ONLY <2>5 DEF DuplexingFeedPartialInput, DuplexingFeedZeroes,
        DuplexingOverwritePartialInput, DuplexingOverwriteWithZeroes,
        DuplexingGetFurtherOutput, DuplexingGetFurtherOutputAndAdd
    <3>6. duplex' \in {AddInput(duplex, x), AddInput(duplex, z), OverwriteInput(duplex, x),
                       OverwriteInput(duplex, z), AfterFurther(duplex, n)}
      BY ONLY <2>5 DEF DuplexingFeedPartialInput, DuplexingFeedZeroes,
        DuplexingOverwritePartialInput, DuplexingOverwriteWithZeroes,
        DuplexingGetFurtherOutput, DuplexingGetFurtherOutputAndAdd
    <3> QED BY ONLY <3>3, <3>4, <3>5, <3>6
  <2>6. CASE UNCHANGED vars
    BY <2>3, <2>6 DEF vars
  <2> QED BY <2>1, <2>2, <2>3, <2>5, <2>6 DEF Next
<1> QED BY <1>1, <1>2, Invariant, PTL DEF Spec

=============================================================================
