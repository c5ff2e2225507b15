---------------------------- MODULE SpongeProofs ----------------------------
(***************************************************************************)
(* For every width, every set of rates and delimiters and every length of  *)
(* message and output, the message-queue interface computes what the       *)
(* one-shot function computes.                                             *)
(***************************************************************************)
EXTENDS Sponge, SequenceTheorems, TLAPS

\* The call in progress fits the phase of the instance, and has work to do.
CallFitsPhase ==
  /\ call.op = "none" => call = Idle
  /\ call.op = "absorb" => rate # 0 /\ ~squeezing /\ call.left > 0
  /\ call.op = "squeeze" => rate # 0 /\ squeezing /\ call.left > 0

\* The rate is one SpongeInitialize accepts: at least one whole byte.
RateIsValid == rate # 0 => rate % 8 = 0 /\ RateInBytes \in Nat \ {0}

\* How far the output has come: the block being given out and the position in
\* it, which is the end of the block when the next permutation is still due.
OutputPosition ==
  rate # 0 /\ squeezing =>
    /\ delimiter \in 1 .. 255
    /\ perms * RateInBytes + byteIOIndex =
         (PaddingEpoch(RateInBytes, absorbed, delimiter) + 1) * RateInBytes + Len(output)

IInv ==
  /\ TypeOK /\ IndexInBlock /\ MessageInPlace /\ IncrementalIsOneShot
  /\ CallFitsPhase /\ RateIsValid /\ OutputPosition

-----------------------------------------------------------------------------
(* Arithmetic of blocks and positions.                                     *)

\* Quotient and remainder by the rate are numbers, and the remainder is a
\* position in the block.
LEMMA DivMod ==
  ASSUME NEW i \in Nat, NEW r \in Nat \ {0}
  PROVE  i \div r \in Nat /\ i % r \in 0 .. r - 1
BY SMT

\* Block q, position p is byte q * r + p, and no other block and position are.
LEMMA DivModUnique ==
  ASSUME NEW r \in Nat \ {0}, NEW q \in Nat, NEW p \in 0 .. r - 1
  PROVE  (q * r + p) \div r = q /\ (q * r + p) % r = p
BY SMT

\* Filling part of the current block extends the message in place.
LEMMA MessageGrows ==
  ASSUME NEW r \in Nat \ {0}, NEW e \in Nat, NEW p \in 0 .. r - 1,
         NEW c \in Nat, p + c <= r,
         NEW n \in Nat, n = e * r + p
  PROVE  Xor(MessageMarks(r, n), AddBytes(e, n, p, c)) = MessageMarks(r, n + c)
<1>1. \A j \in 0 .. c - 1 : (n + j) \div r = e /\ (n + j) % r = p + j
  <2> TAKE j \in 0 .. c - 1
  <2>1. p + j \in 0 .. r - 1 /\ n + j = e * r + (p + j)
    OBVIOUS
  <2> QED BY <2>1, DivModUnique
<1>2. AddBytes(e, n, p, c) = {<<i \div r, i % r, <<"msg", i>>>> : i \in n .. n + c - 1}
  <2>1. ASSUME NEW x \in AddBytes(e, n, p, c)
        PROVE  x \in {<<i \div r, i % r, <<"msg", i>>>> : i \in n .. n + c - 1}
    <3>1. PICK j \in 0 .. c - 1 : x = <<e, p + j, <<"msg", n + j>>>>
      BY <2>1 DEF AddBytes
    <3>2. n + j \in n .. n + c - 1
      OBVIOUS
    <3> QED BY <3>1, <3>2, <1>1
  <2>2. ASSUME NEW i \in n .. n + c - 1
        PROVE  <<i \div r, i % r, <<"msg", i>>>> \in AddBytes(e, n, p, c)
    <3>1. i - n \in 0 .. c - 1 /\ n + (i - n) = i
      OBVIOUS
    <3>2. i \div r = e /\ i % r = p + (i - n)
      BY <3>1, <1>1
    <3> QED BY <3>1, <3>2 DEF AddBytes
  <2> QED BY <2>1, <2>2
<1>3. AddBytes(e, n, p, c) \cap MessageMarks(r, n) = {}
  BY <1>2 DEF MessageMarks
<1>4. MessageMarks(r, n + c) = MessageMarks(r, n) \cup AddBytes(e, n, p, c)
  <2>1. 0 .. (n + c) - 1 = (0 .. n - 1) \cup (n .. n + c - 1)
    OBVIOUS
  <2> QED BY <2>1, <1>2 DEF MessageMarks
<1> QED BY <1>3, <1>4 DEF Xor

LEMMA MarksTyped ==
  /\ \A e, p \in Nat, v \in 0 .. 255 : AddByte(e, v, p) \subseteq Marks
  /\ \A r \in Nat \ {0}, n \in Nat : MessageMarks(r, n) \subseteq Marks
  /\ \A A, B : A \subseteq Marks /\ B \subseteq Marks => Xor(A, B) \subseteq Marks
<1>1. ASSUME NEW e \in Nat, NEW p \in Nat, NEW v \in 0 .. 255
      PROVE  AddByte(e, v, p) \subseteq Marks
  <2>1. v % 128 \in Nat /\ v \div 128 \in Nat
    OBVIOUS
  <2>2. ByteSymbols(v) \subseteq {"msg", "low", "top"} \X Nat
    BY <2>1 DEF ByteSymbols
  <2> QED BY <2>2 DEF AddByte, Marks
<1>2. ASSUME NEW r \in Nat \ {0}, NEW n \in Nat
      PROVE  MessageMarks(r, n) \subseteq Marks
  <2>1. \A i \in 0 .. n - 1 : i \in Nat /\ i \div r \in Nat /\ i % r \in Nat
    BY DivMod
  <2> QED BY <2>1 DEF MessageMarks, Marks
<1>3. \A A, B : A \subseteq Marks /\ B \subseteq Marks => Xor(A, B) \subseteq Marks
  BY DEF Xor
<1> QED BY <1>1, <1>2, <1>3

\* Absorbing the end of the message at its place is what Sponge() does, and it
\* leaves the output at its first byte.
LEMMA PadIsOneShot ==
  ASSUME IInv, rate # 0, ~squeezing, call = Idle,
         NEW d \in 1 .. 255, Pad(d), UNCHANGED <<rate, absorbed, output>>
  PROVE  /\ marks' = OneShotMarks(RateInBytes, absorbed, d)
         /\ perms' = PaddingEpoch(RateInBytes, absorbed, d) + 1
         /\ perms' \in Nat
         /\ marks' \subseteq Marks
<1> DEFINE r == RateInBytes
<1>1. /\ r \in Nat \ {0} /\ perms \in Nat /\ absorbed \in Nat
      /\ byteIOIndex \in 0 .. r - 1
      /\ absorbed = perms * r + byteIOIndex
      /\ marks = MessageMarks(r, absorbed)
  BY DEF IInv, TypeOK, RateIsValid, IndexInBlock, MessageInPlace
<1> HIDE DEF r
<1>2. absorbed \div r = perms /\ absorbed % r = byteIOIndex
  BY <1>1, DivModUnique
<1>3. perms' = PaddingEpoch(r, absorbed, d) + 1
  BY <1>2 DEF Pad, PaddingOverflows, PaddingEpoch, r
<1>4. marks' = OneShotMarks(r, absorbed, d)
  BY <1>1, <1>2 DEF Pad, PaddingOverflows, PaddingEpoch, OneShotMarks, r
<1>5. PaddingEpoch(r, absorbed, d) \in Nat
  BY <1>1, <1>2 DEF PaddingEpoch
<1>6. marks' \subseteq Marks
  <2>1. r - 1 \in Nat /\ byteIOIndex \in Nat /\ d \in 0 .. 255 /\ 128 \in 0 .. 255
    BY <1>1
  <2>2. AddByte(perms, d, byteIOIndex) \subseteq Marks
    BY ONLY <1>1, <2>1, MarksTyped
  <2>3. AddByte(PaddingEpoch(r, absorbed, d), 128, r - 1) \subseteq Marks
    BY ONLY <1>5, <2>1, MarksTyped
  <2>4. MessageMarks(r, absorbed) \subseteq Marks
    BY ONLY <1>1, MarksTyped
  <2>5. OneShotMarks(r, absorbed, d) =
          Xor(Xor(MessageMarks(r, absorbed), AddByte(perms, d, byteIOIndex)),
              AddByte(PaddingEpoch(r, absorbed, d), 128, r - 1))
    BY ONLY <1>2 DEF OneShotMarks
  <2>6. OneShotMarks(r, absorbed, d) \subseteq Marks
    <3>1. \A A, B : A \subseteq Marks /\ B \subseteq Marks => Xor(A, B) \subseteq Marks
      BY ONLY MarksTyped
    <3>2. Xor(MessageMarks(r, absorbed), AddByte(perms, d, byteIOIndex)) \subseteq Marks
      BY ONLY <2>2, <2>4, <3>1
    <3> QED BY ONLY <2>3, <2>5, <3>1, <3>2
  <2> QED BY ONLY <1>4, <2>6
<1> QED BY <1>3, <1>4, <1>5, <1>6 DEF r

\* The block being given out does not precede the first block of the output.
LEMMA BlockOrder ==
  ASSUME NEW r \in Nat \ {0}, NEW b \in Nat, NEW e \in Nat, NEW p \in 0 .. r - 1,
         NEW len \in Nat, e * r + p = b * r + len
  PROVE  e >= b /\ (e - b) * r + p = len
<1>1. e >= b
  <2>1. CASE e < b
    <3>1. (e + 1) * r <= b * r
      BY <2>1
    <3> QED BY <3>1
  <2> QED BY <2>1
<1> QED BY <1>1

-----------------------------------------------------------------------------
(* The inductive invariant.                                                *)

LEMMA InitIInv == Init => IInv
<1> SUFFICES ASSUME Init PROVE IInv
  OBVIOUS
<1> USE DEF Init
<1>1. TypeOK
  <2>1. marks \subseteq Marks
    OBVIOUS
  <2>2. output \in Seq(Nat \X Nat)
    OBVIOUS
  <2>3. call \in [op : {"none", "absorb", "squeeze"}, left : Nat]
    BY DEF Idle
  <2>4. rate \in Nat /\ byteIOIndex \in Nat /\ perms \in Nat /\ absorbed \in Nat
        /\ delimiter \in 0 .. 255
    OBVIOUS
  <2>5. squeezing \in BOOLEAN
    OBVIOUS
  <2> HIDE DEF Init
  <2> QED BY <2>1, <2>2, <2>3, <2>4, <2>5 DEF TypeOK
<1>2. IndexInBlock /\ MessageInPlace /\ IncrementalIsOneShot
  BY DEF IndexInBlock, MessageInPlace, IncrementalIsOneShot
<1>3. CallFitsPhase /\ RateIsValid /\ OutputPosition
  BY DEF CallFitsPhase, RateIsValid, OutputPosition, Idle
<1> QED BY <1>1, <1>2, <1>3 DEF IInv

LEMMA InitializeStep ==
  ASSUME IInv, NEW r \in Rates, NEW c \in Capacities, SpongeInitialize(r, c)
  PROVE  IInv'
<1>1. r \in Nat /\ r > 0 /\ r % 8 = 0
  BY SpongeAssumption DEF SpongeInitialize, ValidRate
<1>2. r \div 8 \in Nat \ {0}
  BY <1>1
<1>3. /\ rate' = r /\ byteIOIndex' = 0 /\ squeezing' = FALSE /\ perms' = 0
      /\ marks' = {} /\ absorbed' = 0 /\ delimiter' = 0 /\ output' = <<>>
      /\ call' = Idle
  BY DEF SpongeInitialize
<1>4. TypeOK'
  <2>1. /\ rate' \in Nat /\ byteIOIndex' \in Nat /\ perms' \in Nat
        /\ absorbed' \in Nat /\ delimiter' \in 0 .. 255
        /\ marks' \subseteq Marks /\ output' \in Seq(Nat \X Nat)
    BY <1>1, <1>3
  <2>2. squeezing' \in BOOLEAN
    BY <1>3
  <2>3. call' \in [op : {"none", "absorb", "squeeze"}, left : Nat]
    BY <1>3 DEF Idle
  <2> QED BY ONLY <2>1, <2>2, <2>3 DEF TypeOK
<1>5. (MessageInPlace /\ IndexInBlock /\ IncrementalIsOneShot)'
  <2>1. MessageMarks(r \div 8, 0) = {}
    BY DEF MessageMarks
  <2> QED BY <1>2, <1>3, <2>1 DEF MessageInPlace, IndexInBlock, IncrementalIsOneShot, RateInBytes
<1>6. (CallFitsPhase /\ RateIsValid /\ OutputPosition)'
  BY <1>1, <1>2, <1>3 DEF CallFitsPhase, RateIsValid, OutputPosition, Idle, RateInBytes
<1> QED BY <1>4, <1>5, <1>6 DEF IInv

\* One lemma for both ways of absorbing: c bytes go to the current block.
LEMMA AbsorbStep ==
  ASSUME IInv, call.op = "absorb",
         NEW c \in Nat \ {0}, c <= call.left, byteIOIndex + c <= RateInBytes,
         marks' = Xor(marks, AddBytes(perms, absorbed, byteIOIndex, c)),
         IF byteIOIndex + c = RateInBytes
           THEN byteIOIndex' = 0 /\ perms' = perms + 1
           ELSE byteIOIndex' = byteIOIndex + c /\ perms' = perms,
         absorbed' = absorbed + c,
         Advance(c),
         UNCHANGED <<rate, squeezing, delimiter, output>>
  PROVE  IInv'
<1>1. /\ rate # 0 /\ squeezing = FALSE /\ rate \in Nat /\ rate % 8 = 0
      /\ RateInBytes \in Nat \ {0} /\ perms \in Nat /\ absorbed \in Nat
      /\ byteIOIndex \in 0 .. RateInBytes - 1 /\ delimiter = 0 /\ output = <<>>
      /\ absorbed = perms * RateInBytes + byteIOIndex
      /\ marks = MessageMarks(RateInBytes, absorbed)
  BY DEF IInv, TypeOK, RateIsValid, IndexInBlock, MessageInPlace, CallFitsPhase
<1>2. RateInBytes' = RateInBytes /\ rate' = rate /\ squeezing' = FALSE /\ delimiter' = 0 /\ output' = <<>>
  BY <1>1 DEF RateInBytes
<1>3. call \in [op : {"none", "absorb", "squeeze"}, left : Nat]
  BY DEF IInv, TypeOK
<1>4. /\ call' \in [op : {"none", "absorb", "squeeze"}, left : Nat]
      /\ call' = Idle \/ (call'.op = "absorb" /\ call'.left > 0)
  BY <1>3 DEF Advance, Idle
<1>5. marks' = MessageMarks(RateInBytes, absorbed')
  BY <1>1, MessageGrows
<1>6. /\ absorbed' \in Nat /\ perms' \in Nat /\ byteIOIndex' \in 0 .. RateInBytes - 1
      /\ absorbed' = perms' * RateInBytes + byteIOIndex'
  <2>1. CASE byteIOIndex + c = RateInBytes
    <3>1. (perms + 1) * RateInBytes = perms * RateInBytes + RateInBytes
      BY <1>1
    <3> QED BY <1>1, <2>1, <3>1
  <2>2. CASE byteIOIndex + c # RateInBytes
    BY <1>1, <2>2
  <2> QED BY <2>1, <2>2
<1>7. TypeOK'
  <2>1. marks' \subseteq Marks
    BY <1>1, <1>5, <1>6, MarksTyped
  <2>2. /\ rate' \in Nat /\ byteIOIndex' \in Nat /\ perms' \in Nat
        /\ absorbed' \in Nat /\ delimiter' \in 0 .. 255 /\ output' \in Seq(Nat \X Nat)
    BY <1>1, <1>2, <1>6
  <2>3. squeezing' \in BOOLEAN
    BY <1>2
  <2> QED BY ONLY <1>4, <2>1, <2>2, <2>3 DEF TypeOK
<1>8. (MessageInPlace /\ IndexInBlock /\ IncrementalIsOneShot)'
  <2>1. MessageInPlace'
    BY ONLY <1>2, <1>5, <1>6 DEF MessageInPlace
  <2>2. IndexInBlock'
    BY ONLY <1>1, <1>2, <1>6 DEF IndexInBlock
  <2>3. IncrementalIsOneShot'
    BY ONLY <1>2 DEF IncrementalIsOneShot
  <2> QED BY ONLY <2>1, <2>2, <2>3
<1>9. (CallFitsPhase /\ RateIsValid /\ OutputPosition)'
  BY <1>1, <1>2, <1>4 DEF CallFitsPhase, RateIsValid, OutputPosition, Idle
<1> QED BY <1>7, <1>8, <1>9 DEF IInv

LEMMA PadStep ==
  ASSUME IInv, rate # 0, ~squeezing, call = Idle,
         NEW d \in 1 .. 255, Pad(d), UNCHANGED <<rate, absorbed, output>>,
         call' \in [op : {"none", "absorb", "squeeze"}, left : Nat],
         call' = Idle \/ (call'.op = "squeeze" /\ call'.left > 0)
  PROVE  IInv'
<1>1. /\ rate \in Nat /\ rate % 8 = 0 /\ RateInBytes \in Nat \ {0}
      /\ absorbed \in Nat /\ output = <<>>
  BY DEF IInv, TypeOK, RateIsValid, MessageInPlace
<1>2. /\ RateInBytes' = RateInBytes /\ rate' = rate /\ absorbed' = absorbed
      /\ output' = <<>> /\ delimiter' = d /\ squeezing' = TRUE /\ byteIOIndex' = 0
  BY <1>1 DEF RateInBytes, Pad
<1>3. /\ marks' = OneShotMarks(RateInBytes, absorbed, d)
      /\ perms' = PaddingEpoch(RateInBytes, absorbed, d) + 1
      /\ perms' \in Nat /\ marks' \subseteq Marks
  BY PadIsOneShot
<1>4. TypeOK'
  <2>1. /\ rate' \in Nat /\ byteIOIndex' \in Nat /\ absorbed' \in Nat
        /\ delimiter' \in 0 .. 255 /\ output' \in Seq(Nat \X Nat)
    BY ONLY <1>1, <1>2, d \in 1 .. 255
  <2>2. squeezing' \in BOOLEAN
    BY ONLY <1>2
  <2> QED BY <1>3, <2>1, <2>2 DEF TypeOK
<1>5. (MessageInPlace /\ IndexInBlock /\ IncrementalIsOneShot)'
  <2>1. MessageInPlace'
    BY ONLY <1>2 DEF MessageInPlace
  <2>2. IndexInBlock'
    BY ONLY <1>1, <1>2 DEF IndexInBlock
  <2>3. IncrementalIsOneShot'
    BY ONLY <1>2, <1>3 DEF IncrementalIsOneShot
  <2> QED BY ONLY <2>1, <2>2, <2>3
<1>6. CallFitsPhase' /\ RateIsValid'
  BY <1>1, <1>2 DEF CallFitsPhase, RateIsValid, Idle
<1>7. OutputPosition'
  BY ONLY <1>1, <1>2, <1>3, d \in 1 .. 255 DEF OutputPosition
<1> QED BY ONLY <1>4, <1>5, <1>6, <1>7 DEF IInv

\* One lemma for both ways of squeezing: c bytes are given out from position p
\* of the block that follows e permutations.
LEMMA SqueezeStep ==
  ASSUME IInv, call.op = "squeeze",
         NEW c \in Nat \ {0}, c <= call.left,
         NEW e, NEW p,
         \/ byteIOIndex = RateInBytes /\ e = perms + 1 /\ p = 0
         \/ byteIOIndex # RateInBytes /\ e = perms /\ p = byteIOIndex,
         p + c <= RateInBytes,
         perms' = e, byteIOIndex' = p + c,
         output' = output \o ExtractBytes(e, p, c),
         Advance(c),
         UNCHANGED <<rate, squeezing, marks, absorbed, delimiter>>
  PROVE  IInv'
<1> DEFINE b == PaddingEpoch(RateInBytes, absorbed, delimiter) + 1
<1>1. /\ rate # 0 /\ squeezing = TRUE /\ rate \in Nat /\ rate % 8 = 0
      /\ RateInBytes \in Nat \ {0} /\ perms \in Nat /\ absorbed \in Nat
      /\ byteIOIndex \in 0 .. RateInBytes /\ delimiter \in 1 .. 255
      /\ output \in Seq(Nat \X Nat) /\ marks \subseteq Marks
      /\ perms * RateInBytes + byteIOIndex = b * RateInBytes + Len(output)
  BY DEF IInv, TypeOK, RateIsValid, IndexInBlock, CallFitsPhase, OutputPosition
<1>2. /\ RateInBytes' = RateInBytes /\ rate' = rate /\ squeezing' = TRUE /\ delimiter' = delimiter
      /\ absorbed' = absorbed /\ marks' = marks
  BY <1>1 DEF RateInBytes
<1>3. /\ marks = OneShotMarks(RateInBytes, absorbed, delimiter)
      /\ \A k \in 1 .. Len(output) : output[k] = OneShotByte(RateInBytes, absorbed, delimiter, k - 1)
  BY <1>1 DEF IInv, IncrementalIsOneShot
<1>4. call \in [op : {"none", "absorb", "squeeze"}, left : Nat]
  BY DEF IInv, TypeOK
<1>5. /\ call' \in [op : {"none", "absorb", "squeeze"}, left : Nat]
      /\ call' = Idle \/ (call'.op = "squeeze" /\ call'.left > 0)
  BY <1>4 DEF Advance, Idle
<1>6. b \in Nat
  <2>1. absorbed \div RateInBytes \in Nat
    BY <1>1, DivMod
  <2> QED BY <2>1 DEF PaddingEpoch
<1>7. OutputPosition' <=> perms' * RateInBytes + byteIOIndex' = b * RateInBytes + Len(output')
  BY <1>1, <1>2 DEF OutputPosition
<1>8. IncrementalIsOneShot' <=>
        \A k \in 1 .. Len(output') : output'[k] = <<b + ((k - 1) \div RateInBytes), (k - 1) % RateInBytes>>
  BY <1>1, <1>2, <1>3 DEF IncrementalIsOneShot, OneShotByte
<1>9. \A k \in 1 .. Len(output) : output[k] = <<b + ((k - 1) \div RateInBytes), (k - 1) % RateInBytes>>
  BY <1>3 DEF OneShotByte
<1> HIDE DEF b
<1>10. /\ e \in Nat /\ p \in 0 .. RateInBytes - 1
       /\ e * RateInBytes + p = b * RateInBytes + Len(output)
  <2>1. (perms + 1) * RateInBytes = perms * RateInBytes + RateInBytes
    BY <1>1
  <2>2. CASE byteIOIndex = RateInBytes /\ e = perms + 1 /\ p = 0
    BY <1>1, <2>1, <2>2
  <2>3. CASE byteIOIndex # RateInBytes /\ e = perms /\ p = byteIOIndex
    BY <1>1, <2>3
  <2> QED BY <2>2, <2>3
<1>11. /\ output' \in Seq(Nat \X Nat) /\ Len(output') = Len(output) + c
       /\ \A k \in 1 .. Len(output) : output'[k] = output[k]
       /\ \A j \in 1 .. c : output'[Len(output) + j] = ExtractBytes(e, p, c)[j]
  <2>1. ExtractBytes(e, p, c) \in Seq(Nat \X Nat) /\ Len(ExtractBytes(e, p, c)) = c
    BY <1>10 DEF ExtractBytes
  <2>2. output' = output \o ExtractBytes(e, p, c)
    OBVIOUS
  <2>3. output \in Seq(Nat \X Nat)
    BY <1>1
  <2> QED BY ONLY <2>1, <2>2, <2>3, c \in Nat
<1>12. OutputPosition'
  <2>1. Len(output) \in Nat /\ e * RateInBytes \in Nat /\ b * RateInBytes \in Nat
    BY <1>1, <1>6, <1>10
  <2>2. e * RateInBytes + (p + c) = b * RateInBytes + (Len(output) + c)
    BY ONLY <1>10, <2>1, c \in Nat
  <2> QED BY ONLY <1>7, <1>11, <2>2, perms' = e, byteIOIndex' = p + c
<1>13. IncrementalIsOneShot'
  <2> DEFINE len == Len(output)
  <2>1. len \in Nat /\ len = Len(output) /\ c \in Nat /\ Len(output') = len + c
    BY <1>1, <1>11
  <2>2. e * RateInBytes + p = b * RateInBytes + len
    BY <1>10
  <2> HIDE DEF len
  <2>3. \A j \in 1 .. c :
          ExtractBytes(e, p, c)[j] = <<b + ((len + j - 1) \div RateInBytes), (len + j - 1) % RateInBytes>>
    <3>1. RateInBytes \in Nat \ {0} /\ e \in Nat /\ p \in 0 .. RateInBytes - 1
      BY ONLY <1>1, <1>10
    <3>2. e >= b /\ (e - b) * RateInBytes + p = len
      BY ONLY <1>6, <2>1, <2>2, <3>1, BlockOrder
    <3> TAKE j \in 1 .. c
    <3> DEFINE q == e - b
               at == p + j - 1
    <3>3. /\ q \in Nat /\ at \in 0 .. RateInBytes - 1 /\ b + q = e
          /\ len + j - 1 = q * RateInBytes + at
      BY ONLY <1>6, <2>1, <3>1, <3>2, p + c <= RateInBytes, j \in 1 .. c
    <3> HIDE DEF q, at
    <3>4. (len + j - 1) \div RateInBytes = q /\ (len + j - 1) % RateInBytes = at
      BY ONLY <3>1, <3>3, DivModUnique
    <3>5. ExtractBytes(e, p, c)[j] = <<e, at>>
      BY DEF ExtractBytes, at
    <3> QED BY ONLY <3>3, <3>4, <3>5
  <2>4. ASSUME NEW k \in 1 .. Len(output')
        PROVE  output'[k] = <<b + ((k - 1) \div RateInBytes), (k - 1) % RateInBytes>>
    <3>1. CASE k \in 1 .. len
      BY ONLY <1>9, <1>11, <2>1, <3>1
    <3>2. CASE k \notin 1 .. len
      <4> DEFINE j == k - len
      <4>1. j \in 1 .. c /\ len + j = k /\ len + j - 1 = k - 1
        BY ONLY <2>1, <3>2, k \in 1 .. Len(output')
      <4> HIDE DEF j
      <4> QED BY ONLY <4>1, <1>11, <2>1, <2>3
    <3> QED BY ONLY <3>1, <3>2
  <2> QED BY ONLY <1>8, <2>4
<1>14. TypeOK'
  <2>1. /\ rate' \in Nat /\ byteIOIndex' \in Nat /\ absorbed' \in Nat /\ perms' \in Nat
        /\ delimiter' \in 0 .. 255 /\ marks' \subseteq Marks
    BY <1>1, <1>2, <1>10
  <2>2. squeezing' \in BOOLEAN
    BY ONLY <1>2
  <2> QED BY ONLY <1>5, <1>11, <2>1, <2>2 DEF TypeOK
<1>15. MessageInPlace'
  BY ONLY <1>2 DEF MessageInPlace
<1>16. IndexInBlock'
  BY ONLY <1>1, <1>2, <1>10, byteIOIndex' = p + c, p + c <= RateInBytes, c \in Nat DEF IndexInBlock
<1>17. CallFitsPhase' /\ RateIsValid'
  BY ONLY <1>1, <1>2, <1>5 DEF CallFitsPhase, RateIsValid, Idle
<1> QED BY ONLY <1>12, <1>13, <1>14, <1>15, <1>16, <1>17 DEF IInv

LEMMA StutterStep == IInv /\ UNCHANGED vars => IInv'
<1> SUFFICES ASSUME IInv, UNCHANGED vars PROVE IInv'
  OBVIOUS
<1>1. RateInBytes' = RateInBytes
  BY DEF vars, instance, RateInBytes
<1>2. TypeOK' /\ CallFitsPhase' /\ RateIsValid'
  BY <1>1 DEF IInv, TypeOK, CallFitsPhase, RateIsValid, vars, instance, history
<1>3. IndexInBlock' /\ MessageInPlace'
  BY <1>1 DEF IInv, IndexInBlock, MessageInPlace, vars, instance, history
<1>4. IncrementalIsOneShot' /\ OutputPosition'
  BY <1>1 DEF IInv, IncrementalIsOneShot, OutputPosition, vars, instance, history
<1> QED BY <1>2, <1>3, <1>4 DEF IInv

LEMMA NextIInv == IInv /\ [Next]_vars => IInv'
<1> SUFFICES ASSUME IInv, [Next]_vars PROVE IInv'
  OBVIOUS
<1>1. ASSUME NEW r \in Rates, NEW c \in Capacities, SpongeInitialize(r, c)
      PROVE  IInv'
  BY <1>1, InitializeStep
<1>2. ASSUME NEW n \in 1 .. MaxInput, SpongeAbsorb(n)
      PROVE  IInv'
  <2>1. RateInBytes' = RateInBytes
    BY <1>2 DEF SpongeAbsorb, instance, RateInBytes
  <2>2. n \in Nat \ {0}
    BY SpongeAssumption
  <2>3. TypeOK'
    BY <1>2, <2>2 DEF IInv, TypeOK, SpongeAbsorb, instance, history
  <2>4. CallFitsPhase' /\ RateIsValid'
    BY <1>2, <2>1, <2>2 DEF IInv, CallFitsPhase, RateIsValid, SpongeAbsorb, instance, history
  <2>5. IndexInBlock' /\ MessageInPlace'
    BY <1>2, <2>1 DEF IInv, IndexInBlock, MessageInPlace, SpongeAbsorb, instance, history
  <2>6. IncrementalIsOneShot' /\ OutputPosition'
    BY <1>2, <2>1 DEF IInv, IncrementalIsOneShot, OutputPosition, SpongeAbsorb, instance, history
  <2> QED BY <2>3, <2>4, <2>5, <2>6 DEF IInv
<1>3. ASSUME NEW d \in Delimiters, SpongeAbsorbLastFewBits(d)
      PROVE  IInv'
  <2>1. d \in 1 .. 255
    BY SpongeAssumption
  <2>2. Idle \in [op : {"none", "absorb", "squeeze"}, left : Nat]
    BY DEF Idle
  <2> QED BY <1>3, <2>1, <2>2, PadStep DEF SpongeAbsorbLastFewBits
<1>4. ASSUME NEW n \in 0 .. MaxOutput, SpongeSqueeze(n)
      PROVE  IInv'
  <2>1. /\ rate # 0 /\ call = Idle
        /\ call' \in [op : {"none", "absorb", "squeeze"}, left : Nat]
        /\ call' = Idle \/ (call'.op = "squeeze" /\ call'.left > 0)
        /\ UNCHANGED <<rate, absorbed, output>>
    BY <1>4, SpongeAssumption DEF SpongeSqueeze, Idle
  <2>2. CASE ~squeezing
    <3>1. Pad(1)
      BY <1>4, <2>2 DEF SpongeSqueeze
    <3>2. 1 \in 1 .. 255
      OBVIOUS
    <3> QED BY <2>1, <2>2, <3>1, <3>2, PadStep
  <2>3. CASE squeezing
    <3>1. UNCHANGED <<instance, history>>
      BY <1>4, <2>1, <2>3 DEF SpongeSqueeze, instance, history
    <3>2. RateInBytes' = RateInBytes
      BY <3>1 DEF instance, RateInBytes
    <3>3. TypeOK'
      BY <2>1, <3>1 DEF IInv, TypeOK, instance, history
    <3>4. CallFitsPhase' /\ RateIsValid'
      BY <2>1, <2>3, <3>1, <3>2 DEF IInv, CallFitsPhase, RateIsValid, Idle, instance, history
    <3>5. IndexInBlock' /\ MessageInPlace'
      BY <3>1, <3>2 DEF IInv, IndexInBlock, MessageInPlace, instance, history
    <3>6. IncrementalIsOneShot' /\ OutputPosition'
      BY <3>1, <3>2 DEF IInv, IncrementalIsOneShot, OutputPosition, instance, history
    <3> QED BY <3>3, <3>4, <3>5, <3>6 DEF IInv
  <2> QED BY <2>2, <2>3
<1>5. CASE AbsorbBlock
  <2>1. RateInBytes \in Nat \ {0} /\ RateInBytes <= call.left /\ byteIOIndex = 0
    BY <1>5 DEF AbsorbBlock, IInv, TypeOK, RateIsValid, CallFitsPhase
  <2>2. byteIOIndex + RateInBytes = RateInBytes
    BY ONLY <2>1
  <2>3. /\ call.op = "absorb" /\ byteIOIndex' = 0 /\ perms' = perms + 1
        /\ marks' = Xor(marks, AddBytes(perms, absorbed, byteIOIndex, RateInBytes))
        /\ absorbed' = absorbed + RateInBytes /\ Advance(RateInBytes)
        /\ UNCHANGED <<rate, squeezing, delimiter, output>>
    BY <1>5, <2>1 DEF AbsorbBlock
  <2> QED BY ONLY IInv, <2>1, <2>2, <2>3, AbsorbStep
<1>6. CASE AbsorbPart
  <2> DEFINE c == LesserOf(call.left, RateInBytes - byteIOIndex)
  <2>1. /\ RateInBytes \in Nat /\ byteIOIndex \in Nat /\ byteIOIndex < RateInBytes
        /\ call.left \in Nat /\ call.left > 0
    BY <1>6 DEF AbsorbPart, IInv, TypeOK, RateIsValid, CallFitsPhase, IndexInBlock
  <2>2. c \in Nat \ {0} /\ c <= call.left /\ byteIOIndex + c <= RateInBytes
    BY ONLY <2>1 DEF LesserOf
  <2>3. /\ call.op = "absorb"
        /\ marks' = Xor(marks, AddBytes(perms, absorbed, byteIOIndex, c))
        /\ IF byteIOIndex + c = RateInBytes
             THEN byteIOIndex' = 0 /\ perms' = perms + 1
             ELSE byteIOIndex' = byteIOIndex + c /\ perms' = perms
        /\ absorbed' = absorbed + c /\ Advance(c)
        /\ UNCHANGED <<rate, squeezing, delimiter, output>>
    BY <1>6 DEF AbsorbPart, IndexAfter
  <2> HIDE DEF c
  <2> QED BY ONLY IInv, <2>2, <2>3, AbsorbStep
<1>7. CASE SqueezeBlock
  <2>1. RateInBytes \in Nat \ {0} /\ RateInBytes <= call.left /\ byteIOIndex = RateInBytes
    BY <1>7 DEF SqueezeBlock, IInv, TypeOK, RateIsValid, CallFitsPhase
  <2>2. 0 + RateInBytes = RateInBytes
    BY ONLY <2>1
  <2>3. /\ call.op = "squeeze" /\ perms' = perms + 1 /\ byteIOIndex' = 0 + RateInBytes
        /\ output' = output \o ExtractBytes(perms + 1, 0, RateInBytes)
        /\ Advance(RateInBytes)
        /\ UNCHANGED <<rate, squeezing, marks, absorbed, delimiter>>
    BY <1>7, <2>1, <2>2 DEF SqueezeBlock
  <2> DEFINE e == perms + 1
             p == 0
  <2>4. byteIOIndex = RateInBytes /\ e = perms + 1 /\ p = 0 /\ p + RateInBytes <= RateInBytes
    BY ONLY <2>1, <2>2
  <2>5. /\ perms' = e /\ byteIOIndex' = p + RateInBytes
        /\ output' = output \o ExtractBytes(e, p, RateInBytes)
    BY ONLY <2>3
  <2> HIDE DEF e, p
  <2> QED BY ONLY IInv, <2>1, <2>3, <2>4, <2>5, SqueezeStep
<1>8. CASE SqueezePart
  <2> DEFINE from == SqueezeFrom
             c    == LesserOf(call.left, RateInBytes - from)
             e    == IF byteIOIndex = RateInBytes THEN perms + 1 ELSE perms
  <2>1. /\ RateInBytes \in Nat \ {0} /\ byteIOIndex \in Nat /\ byteIOIndex <= RateInBytes
        /\ call.left \in Nat /\ call.left > 0
    BY <1>8 DEF SqueezePart, IInv, TypeOK, RateIsValid, CallFitsPhase, IndexInBlock
  <2>2. c \in Nat \ {0} /\ c <= call.left /\ from + c <= RateInBytes
    BY ONLY <2>1 DEF LesserOf, SqueezeFrom
  <2>3. \/ byteIOIndex = RateInBytes /\ e = perms + 1 /\ from = 0
        \/ byteIOIndex # RateInBytes /\ e = perms /\ from = byteIOIndex
    BY DEF SqueezeFrom
  <2>4. /\ call.op = "squeeze" /\ perms' = e /\ byteIOIndex' = from + c
        /\ output' = output \o ExtractBytes(e, from, c)
        /\ Advance(c) /\ UNCHANGED <<rate, squeezing, marks, absorbed, delimiter>>
    BY <1>8 DEF SqueezePart
  <2> HIDE DEF from, c, e
  <2> QED BY ONLY IInv, <2>2, <2>3, <2>4, SqueezeStep
<1>9. CASE UNCHANGED vars
  BY <1>9, StutterStep
<1> QED BY <1>1, <1>2, <1>3, <1>4, <1>5, <1>6, <1>7, <1>8, <1>9 DEF Next, Loop

\* Every reachable state satisfies the inductive invariant.
THEOREM SpongeInvariant == Spec => []IInv
BY InitIInv, NextIInv, PTL DEF Spec

\* The variables keep their types.
THEOREM SpongeTypeOK == Spec => []TypeOK
<1>1. IInv => TypeOK
  BY DEF IInv
<1> QED BY <1>1, SpongeInvariant, PTL

\* The position in the block never leaves it, for any rate.
THEOREM SpongeIndexInBlock == Spec => []IndexInBlock
<1>1. IInv => IndexInBlock
  BY DEF IInv
<1> QED BY <1>1, SpongeInvariant, PTL

\* What has been absorbed so far is in its place, however it was cut.
THEOREM SpongeMessageInPlace == Spec => []MessageInPlace
<1>1. IInv => MessageInPlace
  BY DEF IInv
<1> QED BY <1>1, SpongeInvariant, PTL

\* The incremental interface absorbs and outputs what Sponge() does, for every
\* rate, delimiter and division of the message and of the output in calls.
THEOREM SpongeIncrementalIsOneShot == Spec => []IncrementalIsOneShot
<1>1. IInv => IncrementalIsOneShot
  BY DEF IInv
<1> QED BY <1>1, SpongeInvariant, PTL

\* No call changes what has been absorbed once the message has ended.
THEOREM SpongeEndOfMessageIsFinal == Spec => EndOfMessageIsFinal
<1>1. IInv /\ [Next]_vars => [squeezing /\ squeezing' => UNCHANGED <<marks, absorbed, delimiter>>]_vars
  <2> SUFFICES ASSUME IInv, Next, squeezing, squeezing'
               PROVE  UNCHANGED <<marks, absorbed, delimiter>>
    OBVIOUS
  <2>1. ASSUME NEW r \in Rates, NEW c \in Capacities PROVE ~SpongeInitialize(r, c)
    BY DEF SpongeInitialize
  <2>2. ASSUME NEW n \in 0 .. MaxOutput, SpongeSqueeze(n)
        PROVE  UNCHANGED <<marks, absorbed, delimiter>>
    BY <2>2 DEF SpongeSqueeze
  <2>3. ~AbsorbBlock /\ ~AbsorbPart
    BY DEF AbsorbBlock, AbsorbPart, IInv, CallFitsPhase
  <2>4. SqueezeBlock \/ SqueezePart => UNCHANGED <<marks, absorbed, delimiter>>
    BY DEF SqueezeBlock, SqueezePart
  <2> QED BY <2>1, <2>2, <2>3, <2>4 DEF Next, Loop, SpongeAbsorb, SpongeAbsorbLastFewBits
<1> QED BY <1>1, SpongeInvariant, PTL DEF Spec, EndOfMessageIsFinal

-----------------------------------------------------------------------------
(* The refinement of SpongeXOF.                                            *)

\* Bytes given out by a call in progress are the next ones of the sponge
\* function.
LEMMA SqueezeIsXOFSqueeze ==
  ASSUME IInv, IInv', call.op = "squeeze", UNCHANGED <<rate, squeezing, absorbed, delimiter>>,
         NEW s \in Seq(Nat \X Nat), Len(s) > 0, output' = output \o s
  PROVE  XOF!Squeeze
<1>1. rate # 0 /\ squeezing /\ delimiter # 0 /\ output \in Seq(Nat \X Nat)
  BY DEF IInv, TypeOK, CallFitsPhase, OutputPosition
<1>2. rate' # 0 /\ squeezing' /\ output' \in Seq(Nat \X Nat)
  BY <1>1 DEF IInv, TypeOK
<1>3. Len(output') > Len(output) /\ \A k \in 1 .. Len(output) : output'[k] = output[k]
  BY <1>1
<1>4. \A k \in 1 .. Len(output') : output'[k] = OneShotByte(rate \div 8, absorbed, delimiter, k - 1)
  BY <1>2 DEF IInv, IncrementalIsOneShot, RateInBytes
<1>5. output' = [k \in 1 .. Len(output') |-> output'[k]]
  <2>1. output' \in [1 .. Len(output') -> Nat \X Nat]
    BY <1>2, LenProperties
  <2> QED BY ONLY <2>1
<1>6. output' = [k \in 1 .. Len(output') |->
                   IF k <= Len(output)
                     THEN output[k]
                     ELSE OneShotByte(rate \div 8, absorbed, delimiter, k - 1)]
  <2>1. ASSUME NEW k \in 1 .. Len(output')
        PROVE  output'[k] = IF k <= Len(output)
                              THEN output[k]
                              ELSE OneShotByte(rate \div 8, absorbed, delimiter, k - 1)
    BY <1>1, <1>3, <1>4
  <2> QED BY <1>5, <2>1
<1>7. rate # 0 /\ delimiter # 0 /\ Len(output') > Len(output)
  BY <1>1, <1>3
<1>8. UNCHANGED <<rate, absorbed, delimiter>>
  OBVIOUS
<1>9. ASSUME NEW k PROVE XOF!OneShotByte(rate \div 8, absorbed, delimiter, k - 1)
                          = OneShotByte(rate \div 8, absorbed, delimiter, k - 1)
  BY DEF OneShotByte, PaddingEpoch, XOF!OneShotByte, XOF!PaddingEpoch
<1> QED BY ONLY <1>6, <1>7, <1>8, <1>9 DEF XOF!Squeeze

LEMMA NextImplementsXOF == IInv /\ IInv' /\ [Next]_vars => [XOF!Next]_(XOF!xof)
<1> SUFFICES ASSUME IInv, IInv', [Next]_vars PROVE [XOF!Next]_(XOF!xof)
  OBVIOUS
<1> USE DEF XOF!xof, XOF!Next
<1>1. ASSUME NEW r \in Rates, NEW c \in Capacities, SpongeInitialize(r, c)
      PROVE  XOF!Open
  BY <1>1, SpongeAssumption DEF SpongeInitialize, ValidRate, XOF!Open
<1>2. ASSUME NEW n \in 1 .. MaxInput, SpongeAbsorb(n)
      PROVE  UNCHANGED XOF!xof
  BY <1>2 DEF SpongeAbsorb, instance, history
<1>3. ASSUME NEW d \in 1 .. 255, Pad(d), rate # 0, ~squeezing, UNCHANGED <<rate, absorbed, output>>
      PROVE  XOF!Finish
  BY <1>3 DEF Pad, XOF!Finish, IInv, MessageInPlace
<1>4. ASSUME NEW d \in Delimiters, SpongeAbsorbLastFewBits(d)
      PROVE  XOF!Finish
  BY <1>3, <1>4, SpongeAssumption DEF SpongeAbsorbLastFewBits
<1>5. ASSUME NEW n \in 0 .. MaxOutput, SpongeSqueeze(n)
      PROVE  XOF!Finish \/ UNCHANGED XOF!xof
  <2>1. CASE squeezing
    BY <1>5, <2>1 DEF SpongeSqueeze
  <2>2. CASE ~squeezing
    <3>1. 1 \in 1 .. 255
      OBVIOUS
    <3> QED BY <1>3, <1>5, <2>2, <3>1 DEF SpongeSqueeze
  <2> QED BY <2>1, <2>2
<1>6. CASE AbsorbBlock
  <2>1. rate # 0 /\ delimiter = 0 /\ RateInBytes \in Nat \ {0} /\ absorbed \in Nat
    BY <1>6 DEF AbsorbBlock, IInv, TypeOK, CallFitsPhase, MessageInPlace, RateIsValid
  <2> QED BY <1>6, <2>1 DEF AbsorbBlock, XOF!Absorb
<1>7. CASE AbsorbPart
  <2>1. /\ rate # 0 /\ delimiter = 0 /\ absorbed \in Nat
        /\ RateInBytes \in Nat /\ byteIOIndex \in Nat /\ byteIOIndex < RateInBytes
        /\ call.left \in Nat /\ call.left > 0
    BY <1>7 DEF AbsorbPart, IInv, TypeOK, CallFitsPhase, MessageInPlace, RateIsValid, IndexInBlock
  <2>2. LesserOf(call.left, RateInBytes - byteIOIndex) \in Nat \ {0}
    BY <2>1 DEF LesserOf
  <2> QED BY <1>7, <2>1, <2>2 DEF AbsorbPart, XOF!Absorb
<1>8. CASE SqueezeBlock
  <2> DEFINE s == ExtractBytes(perms + 1, 0, RateInBytes)
  <2>1. perms \in Nat /\ RateInBytes \in Nat \ {0}
    BY <1>8 DEF SqueezeBlock, IInv, TypeOK, CallFitsPhase, RateIsValid
  <2>2. s \in Seq(Nat \X Nat) /\ Len(s) > 0
    BY <2>1 DEF ExtractBytes
  <2>3. output' = output \o s
    BY <1>8 DEF SqueezeBlock
  <2> HIDE DEF s
  <2> QED BY <1>8, <2>2, <2>3, SqueezeIsXOFSqueeze DEF SqueezeBlock
<1>9. CASE SqueezePart
  <2> DEFINE from == IF byteIOIndex = RateInBytes THEN 0 ELSE byteIOIndex
             c    == LesserOf(call.left, RateInBytes - from)
             s    == ExtractBytes(perms', from, c)
  <2>1. /\ RateInBytes \in Nat \ {0} /\ byteIOIndex \in Nat /\ byteIOIndex <= RateInBytes
        /\ call.left \in Nat /\ call.left > 0
    BY <1>9 DEF SqueezePart, IInv, TypeOK, RateIsValid, CallFitsPhase, IndexInBlock
  <2>2. c \in Nat \ {0} /\ from \in Nat /\ perms' \in Nat
    BY <2>1 DEF LesserOf, IInv, TypeOK
  <2>3. output' = output \o s
    BY <1>9 DEF SqueezePart, SqueezeFrom
  <2> HIDE DEF from, c
  <2>4. s \in Seq(Nat \X Nat) /\ Len(s) > 0
    BY <2>2 DEF ExtractBytes
  <2> HIDE DEF s
  <2> QED BY <1>9, <2>3, <2>4, SqueezeIsXOFSqueeze DEF SqueezePart
<1>10. CASE UNCHANGED vars
  BY <1>10 DEF vars, instance, history
<1> QED BY <1>1, <1>2, <1>4, <1>5, <1>6, <1>7, <1>8, <1>9, <1>10 DEF Next, Loop

\* The message-queue interface implements the object its callers rely on.
THEOREM SpongeImplementsXOF == Spec => ImplementsXOF
<1>1. Init => XOF!Init
  BY DEF Init, XOF!Init
<1> QED BY <1>1, SpongeInvariant, NextImplementsXOF, PTL DEF Spec, XOF!Spec, ImplementsXOF
=============================================================================
