-------------------------- MODULE SpongePRGProofs --------------------------
(***************************************************************************)
(* The generator is correct for every width and capacity, and for every    *)
(* length of seed and output.                                              *)
(***************************************************************************)
EXTENDS SpongePRG, SequenceTheorems, FiniteSetTheorems, TLAPS

Duplexes ==
  [rate : Nat, byteInputIndex : Nat, byteOutputIndex : Nat, perms : Nat,
   state : [Offsets -> Byte]]

FetchedByte == [out : [byte : Byte, bits : Nat], fed : Nat]

\* The rate leaves a block of at least one byte.
RateIsValid == duplex.rate # 0 => duplex.rate \in 10 .. Width

\* A call is in progress only on an initialized generator; a call of Fetch is
\* so only with bytes to give, and when the block is used up.
CallFitsPhase ==
  /\ call.op = "none" => call = Idle
  /\ call.op # "none" => duplex.rate # 0
  /\ call.op = "fetch" => call.left > 0 /\ duplex.byteOutputIndex >= rho

\* Nothing is queued before the generator is initialized.
EmptyQueue == duplex.rate = 0 => duplex.byteInputIndex = 0 /\ duplex.perms = 0

\* The types, the indices and the phase.
TypesInv ==
  /\ TypeOK /\ duplex \in Duplexes /\ fetched \in Seq(FetchedByte)
  /\ RateIsValid /\ EmptyQueue /\ CallFitsPhase /\ NeverRefused

-----------------------------------------------------------------------------
(* Blocks, and what each function does to the duplex object.               *)

\* A block is at least a byte long and leaves two bits of the rate.
LEMMA BlockFacts ==
  ASSUME NEW r \in Nat, r >= 10
  PROVE  /\ BlockSize(r) \in Nat \ {0}
         /\ 8 * BlockSize(r) <= r - 2
         /\ BlockSize(r) <= (r - 2) \div 8
         /\ BlockSize(r) <= (r + 7) \div 8
         /\ (r + 7) \div 8 \in Nat
BY SMT DEF BlockSize

LEMMA OffsetsType == Offsets \subseteq Nat
BY DuplexWidth DEF Offsets

LEMMA PermutedType ==
  ASSUME NEW e \in Nat
  PROVE  Permuted(e) \in [Offsets -> Byte]
<1>1. \A p \in Offsets : {<<"out", e, p>>} \in Byte
  BY OffsetsType DEF Byte
<1> QED BY <1>1 DEF Permuted

LEMMA XorType ==
  ASSUME NEW A \in Byte, NEW B \in Byte
  PROVE  Xor(A, B) \in Byte
BY DEF Xor, Byte

\* Duplexing() without input and output.
LEMMA StepFields ==
  ASSUME NEW D \in Duplexes
  PROVE  /\ Step(D) \in Duplexes
         /\ Step(D).rate = D.rate
         /\ Step(D).byteInputIndex = 0
         /\ Step(D).byteOutputIndex = 0
         /\ Step(D).perms = D.perms + 1
         /\ Step(D).state = Permuted(D.perms + 1)
<1>1. D.perms + 1 \in Nat
  BY DEF Duplexes
<1>2. Permuted(D.perms + 1) \in [Offsets -> Byte]
  BY <1>1, PermutedType
<1> QED BY <1>1, <1>2 DEF Step, AfterDuplexing, Duplexes

Queued(D, s, n) == [D EXCEPT !.state = s, !.byteInputIndex = D.byteInputIndex + n]

LEMMA QueuedFields ==
  ASSUME NEW D \in Duplexes, NEW s \in [Offsets -> Byte], NEW n \in Nat
  PROVE  /\ Queued(D, s, n) \in Duplexes
         /\ Queued(D, s, n).rate = D.rate
         /\ Queued(D, s, n).byteInputIndex = D.byteInputIndex + n
         /\ Queued(D, s, n).byteOutputIndex = D.byteOutputIndex
         /\ Queued(D, s, n).perms = D.perms
         /\ Queued(D, s, n).state = s
<1>1. D.byteInputIndex + n \in Nat
  BY DEF Duplexes
<1> QED BY <1>1 DEF Queued, Duplexes

LEMMA AddInputFields ==
  ASSUME NEW D \in Duplexes, NEW data \in Seq(Byte)
  PROVE  /\ AddInput(D, data) \in Duplexes
         /\ AddInput(D, data).rate = D.rate
         /\ AddInput(D, data).byteInputIndex = D.byteInputIndex + Len(data)
         /\ AddInput(D, data).byteOutputIndex = D.byteOutputIndex
         /\ AddInput(D, data).perms = D.perms
         /\ AddInput(D, data).state =
              [p \in Offsets |->
                 IF p - D.byteInputIndex \in 0 .. Len(data) - 1
                   THEN Xor(D.state[p], data[p - D.byteInputIndex + 1])
                   ELSE D.state[p]]
<1> DEFINE new == [p \in Offsets |->
                 IF p - D.byteInputIndex \in 0 .. Len(data) - 1
                   THEN Xor(D.state[p], data[p - D.byteInputIndex + 1])
                   ELSE D.state[p]]
<1>1. Len(data) \in Nat /\ \A i \in 1 .. Len(data) : data[i] \in Byte
  BY LenProperties, ElementOfSeq
<1>2. D.byteInputIndex \in Nat /\ D.state \in [Offsets -> Byte]
  BY DEF Duplexes
<1>3. ASSUME NEW p \in Offsets PROVE new[p] \in Byte
  <2>1. p \in Nat
    BY OffsetsType
  <2>2. CASE p - D.byteInputIndex \in 0 .. Len(data) - 1
    <3>1. p - D.byteInputIndex + 1 \in 1 .. Len(data)
      BY <1>1, <1>2, <2>1, <2>2
    <3>2. data[p - D.byteInputIndex + 1] \in Byte
      BY <1>1, <3>1
    <3> QED BY <1>2, <2>2, <3>2, XorType
  <2>3. CASE ~(p - D.byteInputIndex \in 0 .. Len(data) - 1)
    BY <1>2, <2>3
  <2> QED BY <2>2, <2>3
<1>4. new \in [Offsets -> Byte]
  BY <1>3
<1>5. AddInput(D, data) = Queued(D, new, Len(data))
  BY DEF AddInput, Queued, Duplexes
<1> HIDE DEF new
<1>6. /\ AddInput(D, data) \in Duplexes
      /\ AddInput(D, data).rate = D.rate
      /\ AddInput(D, data).byteInputIndex = D.byteInputIndex + Len(data)
      /\ AddInput(D, data).byteOutputIndex = D.byteOutputIndex
      /\ AddInput(D, data).perms = D.perms
      /\ AddInput(D, data).state = new
  BY <1>1, <1>4, <1>5, QueuedFields
<1> QED BY <1>6 DEF new

LEMMA OverwriteFields ==
  ASSUME NEW D \in Duplexes, NEW n \in Nat
  PROVE  /\ OverwriteInput(D, Zeroes(n)) \in Duplexes
         /\ OverwriteInput(D, Zeroes(n)).rate = D.rate
         /\ OverwriteInput(D, Zeroes(n)).byteInputIndex = D.byteInputIndex + n
         /\ OverwriteInput(D, Zeroes(n)).perms = D.perms
         /\ \A p \in Offsets : OverwriteInput(D, Zeroes(n)).state[p] =
              IF p - D.byteInputIndex \in 0 .. n - 1 THEN {} ELSE D.state[p]
<1> DEFINE new == [p \in Offsets |->
        IF p - D.byteInputIndex \in 0 .. n - 1 THEN {} ELSE D.state[p]]
<1>1. Len(Zeroes(n)) = n
  BY DEF Zeroes
<1>2. D.byteInputIndex \in Nat /\ D.state \in [Offsets -> Byte]
  BY DEF Duplexes
<1>3. {} \in Byte
  BY DEF Byte
<1>4. new \in [Offsets -> Byte]
  BY <1>2, <1>3
<1>5. ASSUME NEW p \in Offsets, p - D.byteInputIndex \in 0 .. n - 1
      PROVE  Zeroes(n)[p - D.byteInputIndex + 1] = {}
  <2>1. p \in Nat
    BY OffsetsType
  <2>2. p - D.byteInputIndex + 1 \in 1 .. n
    BY <1>2, <1>5, <2>1
  <2> QED BY <2>2 DEF Zeroes
<1>6. OverwriteInput(D, Zeroes(n)) = Queued(D, new, n)
  BY <1>1, <1>5 DEF OverwriteInput, Queued, Duplexes
<1> HIDE DEF new
<1>7. /\ OverwriteInput(D, Zeroes(n)) \in Duplexes
      /\ OverwriteInput(D, Zeroes(n)).rate = D.rate
      /\ OverwriteInput(D, Zeroes(n)).byteInputIndex = D.byteInputIndex + n
      /\ OverwriteInput(D, Zeroes(n)).perms = D.perms
      /\ OverwriteInput(D, Zeroes(n)).state = new
  BY <1>4, <1>6, QueuedFields
<1> QED BY <1>7 DEF new

LEMMA FurtherFields ==
  ASSUME NEW D \in Duplexes, NEW n \in Nat
  PROVE  /\ AfterFurther(D, n) \in Duplexes
         /\ AfterFurther(D, n).rate = D.rate
         /\ AfterFurther(D, n).byteInputIndex = D.byteInputIndex
         /\ AfterFurther(D, n).byteOutputIndex = D.byteOutputIndex + n
         /\ AfterFurther(D, n).perms = D.perms
         /\ AfterFurther(D, n).state = D.state
BY DEF AfterFurther, Duplexes

LEMMA SetOutputIndexFields ==
  ASSUME NEW D \in Duplexes, NEW n \in Nat
  PROVE  /\ SetOutputIndex(D, n) \in Duplexes
         /\ SetOutputIndex(D, n).rate = D.rate
         /\ SetOutputIndex(D, n).byteInputIndex = D.byteInputIndex
         /\ SetOutputIndex(D, n).byteOutputIndex = n
         /\ SetOutputIndex(D, n).perms = D.perms
         /\ SetOutputIndex(D, n).state = D.state
BY DEF SetOutputIndex, Duplexes

LEMMA NewDuplexFields ==
  ASSUME NEW r \in Nat
  PROVE  NewDuplex(r) \in Duplexes
<1>1. (r + 7) \div 8 \in Nat
  BY SMT
<1> QED BY <1>1, PermutedType DEF NewDuplex, Duplexes

LEMMA NextSeedType ==
  ASSUME NEW n \in Nat, fed \in Nat
  PROVE  NextSeed(n) \in Seq(Byte) /\ Len(NextSeed(n)) = n
<1>1. \A i \in 1 .. n : {<<"in", fed + i>>} \in Byte
  BY DEF Byte
<1> QED BY <1>1 DEF NextSeed

\* Duplexing(0, 0, 0, 0, 0x01) is accepted whatever is queued.
LEMMA StepAccepted ==
  ASSUME NEW D \in Duplexes, D.rate >= 10, D.byteInputIndex <= BlockSize(D.rate)
  PROVE  CanStep(D)
<1>1. D.rate \in Nat /\ D.byteInputIndex \in Nat
  BY DEF Duplexes
<1>2. 8 * BlockSize(D.rate) <= D.rate - 2 /\ BlockSize(D.rate) \in Nat
      /\ BlockSize(D.rate) <= (D.rate - 2) \div 8 /\ (D.rate + 7) \div 8 \in Nat
  BY <1>1, BlockFacts
<1>3. Fits(D, 0)
  BY <1>1, <1>2 DEF Fits, RhoMax
<1>4. DelimiterFits(D, 0, 1)
  BY <1>1 DEF DelimiterFits, RhoMax
<1>5. 0 <= RateBytes(D)
  BY <1>2 DEF RateBytes
<1> QED BY <1>3, <1>4, <1>5 DEF CanStep, CanDuplex

\* So is input that keeps to the block.
LEMMA InputAccepted ==
  ASSUME NEW D \in Duplexes, D.rate >= 10, NEW n \in Nat,
         D.byteInputIndex + n <= BlockSize(D.rate)
  PROVE  Fits(D, n)
<1>1. D.rate \in Nat /\ D.byteInputIndex \in Nat
  BY DEF Duplexes
<1>2. 8 * BlockSize(D.rate) <= D.rate - 2 /\ BlockSize(D.rate) \in Nat
      /\ BlockSize(D.rate) <= (D.rate - 2) \div 8
  BY <1>1, BlockFacts
<1>3. (D.rate - 2) \div 8 \in Int
  BY <1>1, SMT
<1> QED BY <1>1, <1>2, <1>3 DEF Fits, RhoMax

\* So is taking what is left of a block.
LEMMA OutputAccepted ==
  ASSUME NEW D \in Duplexes, D.rate >= 10, NEW n \in Nat,
         D.byteOutputIndex + n <= BlockSize(D.rate)
  PROVE  CanGetFurther(D, n)
<1>1. D.rate \in Nat /\ D.byteOutputIndex \in Nat
  BY DEF Duplexes
<1>2. BlockSize(D.rate) <= (D.rate + 7) \div 8 /\ BlockSize(D.rate) \in Nat
      /\ (D.rate + 7) \div 8 \in Nat
  BY <1>1, BlockFacts
<1> QED BY <1>1, <1>2 DEF CanGetFurther, RateBytes

-----------------------------------------------------------------------------
(* What each step does, when the types are right: none is refused.         *)

\* The generator has been initialized and is at one of its steps.
LEMMA RunningFacts ==
  ASSUME TypesInv, duplex.rate # 0
  PROVE  /\ duplex \in Duplexes /\ duplex.rate >= 10
         /\ rho \in Nat \ {0} /\ rho = BlockSize(duplex.rate)
         /\ duplex.byteInputIndex \in 0 .. rho - 1
         /\ duplex.byteOutputIndex \in Nat
         /\ fed \in Nat
<1>1. duplex \in Duplexes /\ duplex.rate >= 10 /\ duplex.rate \in Nat
  BY DEF TypesInv, RateIsValid, Duplexes
<1>2. rho \in Nat \ {0}
  BY <1>1, BlockFacts DEF rho
<1> QED BY <1>1, <1>2 DEF TypesInv, TypeOK, rho, Duplexes

LEMMA FeedBlockEffect ==
  ASSUME TypesInv, FeedBlock, NEW L, L = rho - duplex.byteInputIndex
  PROVE  /\ duplex.rate # 0 /\ L \in 1 .. rho /\ L <= call.left
         /\ AddInput(duplex, NextSeed(L)) \in Duplexes
         /\ duplex' = Step(AddInput(duplex, NextSeed(L)))
         /\ duplex' \in Duplexes /\ duplex'.rate = duplex.rate
         /\ duplex'.perms = duplex.perms + 1
         /\ duplex'.state = Permuted(duplex.perms + 1)
         /\ duplex'.byteInputIndex = 0 /\ duplex'.byteOutputIndex = 0
         /\ fed' = fed + L
         /\ absorbed' = absorbed \cup SeedsIn(AddInput(duplex, NextSeed(L)))
         /\ reach' = ReachAfter(AddInput(duplex, NextSeed(L)))
         /\ call' = [call EXCEPT !.left = @ - L]
         /\ UNCHANGED <<error, fetched, forgotten>>
<1>1. call.op = "feed" /\ SeedFillsBlock
  BY DEF FeedBlock
<1>2. duplex.rate # 0
  BY <1>1 DEF TypesInv, CallFitsPhase
<1>3. /\ duplex \in Duplexes /\ duplex.rate >= 10 /\ fed \in Nat
      /\ rho \in Nat \ {0} /\ rho = BlockSize(duplex.rate)
      /\ duplex.byteInputIndex \in 0 .. rho - 1
  BY <1>2, RunningFacts
<1>4. L \in 1 .. rho /\ L <= call.left
  BY <1>1, <1>3 DEF SeedFillsBlock
<1>5. NextSeed(L) \in Seq(Byte) /\ Len(NextSeed(L)) = L
  BY <1>3, <1>4, NextSeedType
<1> DEFINE D == AddInput(duplex, NextSeed(L))
<1>6. D \in Duplexes /\ D.rate = duplex.rate /\ D.perms = duplex.perms
      /\ D.byteInputIndex = rho
  <2>1. D \in Duplexes /\ D.rate = duplex.rate /\ D.perms = duplex.perms
        /\ D.byteInputIndex = duplex.byteInputIndex + Len(NextSeed(L))
    BY <1>3, <1>5, AddInputFields
  <2> HIDE DEF D
  <2> QED BY <1>3, <1>5, <2>1
<1>7. Fits(duplex, L)
  BY <1>3, <1>4, InputAccepted
<1>8. CanStep(D)
  BY <1>3, <1>6, StepAccepted
<1>9. /\ duplex' = Step(D) /\ fed' = fed + L
      /\ absorbed' = absorbed \cup SeedsIn(D) /\ reach' = ReachAfter(D)
      /\ call' = [call EXCEPT !.left = @ - L]
      /\ UNCHANGED <<error, fetched, forgotten>>
  BY <1>7, <1>8 DEF FeedBlock
<1> HIDE DEF D
<1>10. /\ Step(D) \in Duplexes /\ Step(D).rate = duplex.rate
       /\ Step(D).perms = duplex.perms + 1
       /\ Step(D).state = Permuted(duplex.perms + 1)
       /\ Step(D).byteInputIndex = 0 /\ Step(D).byteOutputIndex = 0
  BY <1>6, StepFields
<1>11. /\ duplex'.rate = duplex.rate /\ duplex'.perms = duplex.perms + 1
       /\ duplex'.state = Permuted(duplex.perms + 1) /\ duplex' \in Duplexes
       /\ duplex'.byteInputIndex = 0 /\ duplex'.byteOutputIndex = 0
  BY <1>9, <1>10
<1> QED BY <1>2, <1>4, <1>6, <1>9, <1>11 DEF D

LEMMA FeedRestEffect ==
  ASSUME TypesInv, FeedRest
  PROVE  /\ duplex.rate # 0 /\ call.left \in Nat
         /\ call.left < rho - duplex.byteInputIndex
         /\ NextSeed(call.left) \in Seq(Byte) /\ Len(NextSeed(call.left)) = call.left
         /\ duplex' \in Duplexes /\ duplex'.rate = duplex.rate
         /\ duplex'.perms = duplex.perms
         /\ duplex'.state = AddInput(duplex, NextSeed(call.left)).state
         /\ duplex'.byteInputIndex = duplex.byteInputIndex + call.left
         /\ duplex'.byteOutputIndex = rho
         /\ fed' = fed + call.left
         /\ call' = Idle
         /\ UNCHANGED <<error, absorbed, fetched, reach, forgotten>>
<1>1. call.op = "feed" /\ ~SeedFillsBlock
  BY DEF FeedRest
<1>2. duplex.rate # 0
  BY <1>1 DEF TypesInv, CallFitsPhase
<1>3. /\ duplex \in Duplexes /\ duplex.rate >= 10 /\ fed \in Nat
      /\ rho \in Nat \ {0} /\ rho = BlockSize(duplex.rate)
      /\ duplex.byteInputIndex \in 0 .. rho - 1
  BY <1>2, RunningFacts
<1>4. call.left \in Nat /\ call.left < rho - duplex.byteInputIndex
  BY <1>1, <1>3 DEF SeedFillsBlock, TypesInv, TypeOK
<1>5. NextSeed(call.left) \in Seq(Byte) /\ Len(NextSeed(call.left)) = call.left
  BY <1>3, <1>4, NextSeedType
<1> DEFINE D == AddInput(duplex, NextSeed(call.left))
<1>6. D \in Duplexes /\ D.rate = duplex.rate /\ D.perms = duplex.perms
      /\ D.byteInputIndex = duplex.byteInputIndex + call.left
  BY <1>3, <1>4, <1>5, AddInputFields
<1>7. Fits(duplex, call.left)
  BY <1>3, <1>4, InputAccepted
<1>8. /\ duplex' = SetOutputIndex(D, rho) /\ fed' = fed + call.left
      /\ call' = Idle /\ UNCHANGED <<error, absorbed, fetched, reach, forgotten>>
  BY <1>7 DEF FeedRest
<1> HIDE DEF D
<1>9. /\ SetOutputIndex(D, rho) \in Duplexes
      /\ SetOutputIndex(D, rho).rate = duplex.rate
      /\ SetOutputIndex(D, rho).perms = duplex.perms
      /\ SetOutputIndex(D, rho).state = D.state
      /\ SetOutputIndex(D, rho).byteInputIndex = duplex.byteInputIndex + call.left
      /\ SetOutputIndex(D, rho).byteOutputIndex = rho
  BY <1>3, <1>6, SetOutputIndexFields
<1>10. /\ duplex'.rate = duplex.rate /\ duplex'.perms = duplex.perms
       /\ duplex'.state = D.state /\ duplex' \in Duplexes
       /\ duplex'.byteInputIndex = duplex.byteInputIndex + call.left
       /\ duplex'.byteOutputIndex = rho
  BY <1>8, <1>9
<1> QED BY <1>2, <1>4, <1>5, <1>8, <1>10 DEF D

LEMMA FetchEffect ==
  ASSUME TypesInv, NEW n \in Nat, SpongePRG_Fetch(n),
         NEW L, L = IF duplex.byteOutputIndex < rho
                      THEN LesserOf(rho - duplex.byteOutputIndex, n) ELSE 0
  PROVE  /\ duplex.rate # 0 /\ L \in 0 .. n
         /\ L > 0 => duplex.byteOutputIndex + L <= rho
         /\ L < n => duplex.byteOutputIndex + L >= rho
         /\ duplex' \in Duplexes /\ duplex'.rate = duplex.rate
         /\ duplex'.perms = duplex.perms /\ duplex'.state = duplex.state
         /\ duplex'.byteInputIndex = duplex.byteInputIndex
         /\ duplex'.byteOutputIndex = duplex.byteOutputIndex + L
         /\ fetched' = fetched \o Fetched(duplex, L)
         /\ call' = IF L = n THEN Idle ELSE [op |-> "fetch", left |-> n - L]
         /\ UNCHANGED <<error, fed, absorbed, reach, forgotten>>
<1>1. duplex.rate # 0
  BY DEF SpongePRG_Fetch, Ready
<1>2. /\ duplex \in Duplexes /\ duplex.rate >= 10
      /\ rho \in Nat \ {0} /\ rho = BlockSize(duplex.rate)
      /\ duplex.byteOutputIndex \in Nat
  BY <1>1, RunningFacts
<1>3. /\ L \in 0 .. n
      /\ L > 0 => duplex.byteOutputIndex + L <= rho
      /\ L < n => duplex.byteOutputIndex + L >= rho
  BY <1>2 DEF LesserOf
<1>4. L = 0 \/ CanGetFurther(duplex, L)
  <2>1. CASE L = 0
    BY <2>1
  <2>2. CASE L > 0
    BY <1>2, <1>3, <2>2, OutputAccepted
  <2> QED BY <1>3, <2>1, <2>2
<1>5. /\ duplex' = AfterFurther(duplex, L)
      /\ fetched' = fetched \o Fetched(duplex, L)
      /\ call' = IF L = n THEN Idle ELSE [op |-> "fetch", left |-> n - L]
      /\ UNCHANGED <<error, fed, absorbed, reach, forgotten>>
  BY <1>4 DEF SpongePRG_Fetch
<1>6. /\ AfterFurther(duplex, L) \in Duplexes
      /\ AfterFurther(duplex, L).rate = duplex.rate
      /\ AfterFurther(duplex, L).perms = duplex.perms
      /\ AfterFurther(duplex, L).state = duplex.state
      /\ AfterFurther(duplex, L).byteInputIndex = duplex.byteInputIndex
      /\ AfterFurther(duplex, L).byteOutputIndex = duplex.byteOutputIndex + L
  <2>1. L \in Nat
    BY <1>3
  <2> QED BY ONLY <1>2, <2>1, FurtherFields
<1>7. /\ duplex'.rate = duplex.rate /\ duplex' \in Duplexes
      /\ duplex'.perms = duplex.perms /\ duplex'.state = duplex.state
      /\ duplex'.byteInputIndex = duplex.byteInputIndex
      /\ duplex'.byteOutputIndex = duplex.byteOutputIndex + L
  BY <1>5, <1>6
<1> QED BY <1>1, <1>3, <1>5, <1>7

LEMMA FetchBlockEffect ==
  ASSUME TypesInv, FetchBlock, NEW L, L = LesserOf(rho, call.left)
  PROVE  /\ duplex.rate # 0 /\ L \in 1 .. rho /\ L <= call.left
         /\ call.left \in Nat /\ (L < call.left => L = rho)
         /\ Step(duplex) \in Duplexes
         /\ Step(duplex).perms = duplex.perms + 1
         /\ Step(duplex).state = Permuted(duplex.perms + 1)
         /\ Step(duplex).rate = duplex.rate
         /\ Step(duplex).byteOutputIndex = 0
         /\ duplex' \in Duplexes /\ duplex'.rate = duplex.rate
         /\ duplex'.perms = duplex.perms + 1
         /\ duplex'.state = Permuted(duplex.perms + 1)
         /\ duplex'.byteInputIndex = 0 /\ duplex'.byteOutputIndex = L
         /\ fetched' = fetched \o Fetched(Step(duplex), L)
         /\ absorbed' = absorbed \cup SeedsIn(duplex)
         /\ reach' = ReachAfter(duplex)
         /\ call' = IF call.left = L THEN Idle ELSE [call EXCEPT !.left = @ - L]
         /\ UNCHANGED <<error, fed, forgotten>>
<1>1. call.op = "fetch" /\ duplex.rate # 0 /\ call.left > 0 /\ call.left \in Nat
  BY DEF FetchBlock, TypesInv, CallFitsPhase, TypeOK
<1>2. /\ duplex \in Duplexes /\ duplex.rate >= 10
      /\ rho \in Nat \ {0} /\ rho = BlockSize(duplex.rate)
      /\ duplex.byteInputIndex \in 0 .. rho - 1
  BY <1>1, RunningFacts
<1>3. L \in 1 .. rho /\ L <= call.left /\ (L < call.left => L = rho)
  BY <1>1, <1>2 DEF LesserOf
<1> DEFINE D == Step(duplex)
<1>4. /\ D \in Duplexes /\ D.rate = duplex.rate /\ D.perms = duplex.perms + 1
      /\ D.state = Permuted(duplex.perms + 1)
      /\ D.byteInputIndex = 0 /\ D.byteOutputIndex = 0
  BY <1>2, StepFields
<1>5. CanStep(duplex)
  BY <1>2, StepAccepted
<1>6. CanGetFurther(D, L)
  BY <1>2, <1>3, <1>4, OutputAccepted
<1>7. /\ duplex' = AfterFurther(D, L)
      /\ fetched' = fetched \o Fetched(D, L)
      /\ absorbed' = absorbed \cup SeedsIn(duplex) /\ reach' = ReachAfter(duplex)
      /\ call' = IF call.left = L THEN Idle ELSE [call EXCEPT !.left = @ - L]
      /\ UNCHANGED <<error, fed, forgotten>>
  BY <1>5, <1>6 DEF FetchBlock, Advance
<1> HIDE DEF D
<1>8. /\ AfterFurther(D, L) \in Duplexes
      /\ AfterFurther(D, L).rate = duplex.rate
      /\ AfterFurther(D, L).perms = duplex.perms + 1
      /\ AfterFurther(D, L).state = Permuted(duplex.perms + 1)
      /\ AfterFurther(D, L).byteInputIndex = 0
      /\ AfterFurther(D, L).byteOutputIndex = L
  <2>1. L \in Nat /\ 0 + L = L
    BY <1>2, <1>3
  <2>2. /\ AfterFurther(D, L) \in Duplexes /\ AfterFurther(D, L).rate = D.rate
        /\ AfterFurther(D, L).perms = D.perms /\ AfterFurther(D, L).state = D.state
        /\ AfterFurther(D, L).byteInputIndex = D.byteInputIndex
        /\ AfterFurther(D, L).byteOutputIndex = D.byteOutputIndex + L
    BY ONLY <1>4, <2>1, FurtherFields
  <2> QED BY ONLY <1>4, <2>1, <2>2
<1>9. /\ duplex'.rate = duplex.rate /\ duplex'.perms = duplex.perms + 1
      /\ duplex'.state = Permuted(duplex.perms + 1) /\ duplex' \in Duplexes
      /\ duplex'.byteInputIndex = 0 /\ duplex'.byteOutputIndex = L
  BY <1>7, <1>8
<1> QED BY <1>1, <1>3, <1>4, <1>7, <1>9 DEF D

LEMMA ForgetEffect ==
  ASSUME TypesInv, SpongePRG_Forget,
         NEW D, D = Step(duplex), NEW E, E = OverwriteInput(D, Zeroes(rho))
  PROVE  /\ duplex.rate # 0 /\ call = Idle /\ BlockErasesCapacity
         /\ E \in Duplexes /\ E.rate = duplex.rate /\ E.perms = duplex.perms + 1
         /\ \A p \in Offsets : p < rho => E.state[p] = {}
         /\ duplex' \in Duplexes /\ duplex'.rate = duplex.rate
         /\ duplex'.perms = duplex.perms + 2
         /\ duplex'.state = Permuted(duplex.perms + 2)
         /\ duplex'.byteInputIndex = 0 /\ duplex'.byteOutputIndex = rho
         /\ absorbed' = absorbed \cup SeedsIn(duplex)
         /\ reach' = ReachAfter(E)
         /\ forgotten' = Len(fetched)
         /\ UNCHANGED <<call, error, fed, fetched>>
<1>1. duplex.rate # 0 /\ call = Idle /\ BlockErasesCapacity
  BY DEF SpongePRG_Forget, Ready
<1>2. /\ duplex \in Duplexes /\ duplex.rate >= 10
      /\ rho \in Nat \ {0} /\ rho = BlockSize(duplex.rate)
      /\ duplex.byteInputIndex \in 0 .. rho - 1
  BY <1>1, RunningFacts
<1>3. /\ D \in Duplexes /\ D.rate = duplex.rate /\ D.perms = duplex.perms + 1
      /\ D.byteInputIndex = 0
  BY <1>2, StepFields
<1>4. /\ E \in Duplexes /\ E.rate = duplex.rate /\ E.perms = duplex.perms + 1
      /\ E.byteInputIndex = rho
      /\ \A p \in Offsets : E.state[p] =
           IF p - D.byteInputIndex \in 0 .. rho - 1 THEN {} ELSE D.state[p]
  <2>1. rho \in Nat /\ 0 + rho = rho
    BY <1>2
  <2>2. /\ OverwriteInput(D, Zeroes(rho)) \in Duplexes
        /\ OverwriteInput(D, Zeroes(rho)).rate = D.rate
        /\ OverwriteInput(D, Zeroes(rho)).byteInputIndex = D.byteInputIndex + rho
        /\ OverwriteInput(D, Zeroes(rho)).perms = D.perms
        /\ \A p \in Offsets : OverwriteInput(D, Zeroes(rho)).state[p] =
             IF p - D.byteInputIndex \in 0 .. rho - 1 THEN {} ELSE D.state[p]
    BY ONLY <1>3, <2>1, OverwriteFields
  <2> QED BY ONLY <1>3, <2>1, <2>2, E = OverwriteInput(D, Zeroes(rho))
<1>5. \A p \in Offsets : p < rho => E.state[p] = {}
  BY <1>2, <1>3, <1>4, OffsetsType
<1>6. CanStep(duplex) /\ CanStep(E)
  BY <1>2, <1>4, StepAccepted
<1>7. CanOverwriteWithZeroes(D, rho)
  BY <1>2, <1>3, InputAccepted DEF CanOverwriteWithZeroes
<1>8. /\ duplex' = SetOutputIndex(Step(E), rho)
      /\ absorbed' = absorbed \cup SeedsIn(duplex) /\ reach' = ReachAfter(E)
      /\ forgotten' = Len(fetched) /\ UNCHANGED <<call, error, fed, fetched>>
  BY <1>6, <1>7 DEF SpongePRG_Forget
<1>9. duplex.perms \in Nat /\ duplex.perms + 1 + 1 = duplex.perms + 2
  BY <1>2 DEF Duplexes
<1>10. /\ Step(E) \in Duplexes /\ Step(E).rate = duplex.rate
       /\ Step(E).perms = duplex.perms + 2
       /\ Step(E).state = Permuted(duplex.perms + 2)
       /\ Step(E).byteInputIndex = 0
  BY <1>4, <1>9, StepFields
<1>11. /\ SetOutputIndex(Step(E), rho) \in Duplexes
       /\ SetOutputIndex(Step(E), rho).rate = duplex.rate
       /\ SetOutputIndex(Step(E), rho).perms = duplex.perms + 2
       /\ SetOutputIndex(Step(E), rho).state = Permuted(duplex.perms + 2)
       /\ SetOutputIndex(Step(E), rho).byteInputIndex = 0
       /\ SetOutputIndex(Step(E), rho).byteOutputIndex = rho
  <2>1. rho \in Nat
    BY <1>2
  <2> QED BY ONLY <1>10, <2>1, SetOutputIndexFields
<1>12. /\ duplex'.rate = duplex.rate /\ duplex'.perms = duplex.perms + 2
       /\ duplex'.state = Permuted(duplex.perms + 2) /\ duplex' \in Duplexes
       /\ duplex'.byteInputIndex = 0 /\ duplex'.byteOutputIndex = rho
  BY <1>8, <1>11
<1> QED BY <1>1, <1>4, <1>5, <1>8, <1>12

-----------------------------------------------------------------------------
(* Types, indices, and that no call on the duplex object is refused.       *)

\* g is the next n bytes of a block of D, whole ones.
BytesOfBlock(g, D, n) ==
  /\ g \in Seq(FetchedByte) /\ Len(g) = n
  /\ \A i \in 1 .. n :
       /\ D.byteOutputIndex + i - 1 \in Offsets
       /\ D.byteOutputIndex + i - 1 \in 0 .. BlockSize(D.rate) - 1
       /\ g[i].out.byte = D.state[D.byteOutputIndex + i - 1]
       /\ g[i].out.bits = 8
       /\ g[i].fed = fed

\* What is given out is whole bytes of the block.
LEMMA FetchedBytes ==
  ASSUME DuplexWidth, NEW D \in Duplexes, D.rate \in 10 .. Width,
         NEW n \in Nat, n > 0 => D.byteOutputIndex + n <= BlockSize(D.rate),
         fed \in Nat
  PROVE  BytesOfBlock(Fetched(D, n), D, n)
<1>1. D.rate \in Nat /\ D.rate >= 10 /\ D.byteOutputIndex \in Nat /\ Width \in Nat
      /\ D.state \in [Offsets -> Byte] /\ D.rate <= Width
  BY DuplexWidth DEF Duplexes
<1>2. BlockSize(D.rate) \in Nat /\ 8 * BlockSize(D.rate) <= D.rate - 2
  BY <1>1, BlockFacts
<1>3. BlockSize(D.rate) <= Width \div 8
  BY <1>1, SMT DEF BlockSize
<1> DEFINE q(i) == D.byteOutputIndex + i - 1
<1>4. ASSUME NEW i \in 1 .. n
      PROVE  /\ q(i) \in Nat /\ q(i) < BlockSize(D.rate)
             /\ q(i) \in Offsets
             /\ BitsGiven(D, q(i)) = 8
  <2>1. q(i) \in Nat /\ q(i) < BlockSize(D.rate)
    BY <1>1, <1>2
  <2>2. q(i) \in Offsets
    BY <1>1, <1>2, <1>3, <2>1, SMT DEF Offsets
  <2>3. 8 * (q(i) + 1) <= D.rate
    BY <1>1, <1>2, <2>1
  <2>4. BitsGiven(D, q(i)) = 8
    BY <1>1, <2>1, <2>3 DEF BitsGiven
  <2> QED BY <2>1, <2>2, <2>4
<1> DEFINE o(i) == Output(D, D.byteOutputIndex, n)[i]
<1>5. ASSUME NEW i \in 1 .. n
      PROVE  o(i) \in [byte : Byte, bits : Nat] /\ o(i).byte = D.state[q(i)] /\ o(i).bits = 8
  <2>1. D.state[q(i)] \in Byte
    BY <1>1, <1>4
  <2>2. o(i) = [byte |-> D.state[q(i)], bits |-> BitsGiven(D, q(i))]
    BY DEF Output
  <2>3. BitsGiven(D, q(i)) = 8
    BY <1>4
  <2> HIDE DEF o, q
  <2> QED BY ONLY <2>1, <2>2, <2>3
<1> HIDE DEF o
<1>6. ASSUME NEW i \in 1 .. n
      PROVE  /\ Fetched(D, n)[i] \in FetchedByte
             /\ Fetched(D, n)[i].out = o(i) /\ Fetched(D, n)[i].fed = fed
  <2>1. Fetched(D, n)[i] = [out |-> o(i), fed |-> fed]
    BY DEF Fetched, o
  <2>2. o(i) \in [byte : Byte, bits : Nat]
    BY <1>5
  <2>3. [out |-> o(i), fed |-> fed] \in [out : [byte : Byte, bits : Nat], fed : Nat]
    BY ONLY <2>2, fed \in Nat
  <2> QED BY ONLY <2>1, <2>3 DEF FetchedByte
<1>7. DOMAIN Fetched(D, n) = 1 .. n /\ Fetched(D, n) = [i \in 1 .. n |-> Fetched(D, n)[i]]
  BY DEF Fetched
<1>8. Fetched(D, n) \in Seq(FetchedByte) /\ Len(Fetched(D, n)) = n
  BY <1>6, <1>7
<1>9. ASSUME NEW i \in 1 .. n
      PROVE  /\ q(i) \in Offsets /\ q(i) \in 0 .. BlockSize(D.rate) - 1
             /\ Fetched(D, n)[i].out.byte = D.state[q(i)]
             /\ Fetched(D, n)[i].out.bits = 8
             /\ Fetched(D, n)[i].fed = fed
  <2>1. q(i) \in Nat /\ q(i) < BlockSize(D.rate) /\ q(i) \in Offsets
    BY <1>4
  <2>2. o(i).byte = D.state[q(i)] /\ o(i).bits = 8
    BY <1>5
  <2>3. Fetched(D, n)[i].out = o(i) /\ Fetched(D, n)[i].fed = fed
    BY <1>6
  <2> HIDE DEF q
  <2>4. q(i) \in 0 .. BlockSize(D.rate) - 1
    BY ONLY <1>2, <2>1
  <2>5. Fetched(D, n)[i].out.byte = D.state[q(i)] /\ Fetched(D, n)[i].out.bits = 8
    BY ONLY <2>2, <2>3
  <2> QED BY <2>1, <2>3, <2>4, <2>5
<1> QED BY ONLY <1>8, <1>9 DEF BytesOfBlock

LEMMA InitTypes == Init => TypesInv
<1> SUFFICES ASSUME Init PROVE TypesInv
  OBVIOUS
<1>1. duplex \in Duplexes
  BY NewDuplexFields DEF Init
<1>2. /\ duplex.rate = 0 /\ duplex.perms = 0 /\ duplex.byteInputIndex = 0
      /\ duplex.byteOutputIndex = 0
  BY SMT DEF Init, NewDuplex
<1>3. RateBytes(duplex) \in Nat
  BY <1>2, SMT DEF RateBytes
<1>4. TypeOK
  <2>1. 0 \in 0 .. Width /\ Len(fetched) = 0
    BY DuplexWidth DEF Init
  <2>2. /\ call \in [op : {"none", "feed", "fetch"}, left : Nat]
        /\ fed \in Nat /\ reach \in Nat
        /\ forgotten \in 0 .. Len(fetched)
    <3>1. [op |-> "none", left |-> 0] \in [op : {"none", "feed", "fetch"}, left : Nat]
      OBVIOUS
    <3> QED BY <2>1, <3>1 DEF Init, Idle
  <2>3. duplex.state \in [Offsets -> Byte]
    BY <1>1 DEF Duplexes
  <2>4. error \in BOOLEAN
    BY DEF Init
  <2> QED BY <1>2, <1>3, <2>1, <2>2, <2>3, <2>4 DEF TypeOK
<1>5. fetched \in Seq(FetchedByte)
  BY DEF Init
<1> QED BY <1>1, <1>2, <1>4, <1>5 DEF TypesInv, RateIsValid, EmptyQueue, CallFitsPhase, NeverRefused, Init, Idle

LEMMA ReachType ==
  ASSUME NEW D \in Duplexes, reach \in Nat
  PROVE  ReachAfter(D) \in {reach, D.perms + 1} /\ ReachAfter(D) \in Nat
<1>1. D.perms + 1 \in Nat
  BY DEF Duplexes
<1> QED BY <1>1 DEF ReachAfter

\* The conjuncts of TypesInv that follow from the fields of the object.
LEMMA TypesFromFields ==
  ASSUME duplex' \in Duplexes, duplex'.rate \in 10 .. Width,
         duplex'.byteInputIndex < rho', duplex'.byteOutputIndex <= RateBytes(duplex'),
         call' \in [op : {"none", "feed", "fetch"}, left : Nat], CallFitsPhase',
         error' = FALSE, fed' \in Nat, reach' \in Nat,
         fetched' \in Seq(FetchedByte), forgotten' \in 0 .. Len(fetched')
  PROVE  TypesInv'
<1>1. /\ duplex'.rate \in Nat /\ duplex'.perms \in Nat
      /\ duplex'.state \in [Offsets -> Byte]
      /\ duplex'.byteInputIndex \in Nat /\ duplex'.byteOutputIndex \in Nat
  BY DEF Duplexes
<1>2. rho' \in Nat
  <2>1. BlockSize(duplex'.rate) \in Nat
    BY <1>1, duplex'.rate >= 10, BlockFacts
  <2> QED BY <2>1 DEF rho
<1>3. duplex'.rate \in 0 .. Width /\ duplex'.byteInputIndex \in 0 .. rho' - 1
  BY <1>1, <1>2, DuplexWidth
<1>4. duplex'.byteOutputIndex \in 0 .. RateBytes(duplex')
  <2>1. (duplex'.rate + 7) \div 8 \in Nat
    BY <1>1, duplex'.rate >= 10, BlockFacts
  <2>2. RateBytes(duplex') \in Nat
    BY <2>1 DEF RateBytes
  <2> QED BY <1>1, <2>2
<1>5. error' \in BOOLEAN
  OBVIOUS
<1>6. TypeOK'
  BY <1>1, <1>3, <1>4, <1>5 DEF TypeOK
<1> QED BY <1>6 DEF TypesInv, RateIsValid, EmptyQueue, NeverRefused

\* A block fits in the output of a permutation.
LEMMA BlockInRate ==
  ASSUME TypesInv, duplex.rate # 0, duplex' \in Duplexes, duplex'.rate = duplex.rate
  PROVE  /\ duplex'.rate \in 10 .. Width /\ rho' = rho
         /\ RateBytes(duplex') \in Nat /\ rho <= RateBytes(duplex')
<1>1. duplex'.rate \in 10 .. Width /\ duplex'.rate \in Nat
  BY DEF TypesInv, RateIsValid, Duplexes
<1>2. BlockSize(duplex'.rate) <= (duplex'.rate + 7) \div 8 /\ (duplex'.rate + 7) \div 8 \in Nat
  BY <1>1, BlockFacts
<1> QED BY <1>1, <1>2 DEF rho, RateBytes

LEMMA NextTypes ==
  ASSUME TypesInv, [Next]_vars
  PROVE  TypesInv'
<1> USE DEF history
<1>0. /\ fed \in Nat /\ reach \in Nat /\ forgotten \in 0 .. Len(fetched)
      /\ call \in [op : {"none", "feed", "fetch"}, left : Nat]
      /\ error = FALSE /\ fetched \in Seq(FetchedByte) /\ duplex \in Duplexes
      /\ CallFitsPhase
  <2>1. error = FALSE
    BY DEF TypesInv, NeverRefused, TypeOK
  <2> QED BY <2>1 DEF TypesInv, TypeOK
<1>1. ASSUME NEW c \in Capacities, SpongePRG_Initialize(c) PROVE TypesInv'
  <2> DEFINE r == Width - c
  <2>1. /\ r \in Nat /\ r >= 10 /\ r <= Width
    BY <1>1, DuplexWidth, PRGAssumption DEF SpongePRG_Initialize
  <2>2. duplex' = NewDuplex(r) /\ UNCHANGED <<call, error, history>>
    BY <1>1 DEF SpongePRG_Initialize
  <2>3. NewDuplex(r) \in Duplexes
    BY <2>1, NewDuplexFields
  <2>4. duplex'.rate = r /\ duplex'.byteInputIndex = 0
        /\ duplex'.byteOutputIndex = RateBytes(duplex')
    BY <2>2 DEF NewDuplex, RateBytes
  <2>5. rho' \in Nat \ {0} /\ RateBytes(duplex') \in Nat
    BY <2>1, <2>4, BlockFacts DEF rho, RateBytes
  <2>6. call = Idle
    BY <1>0, <1>1 DEF SpongePRG_Initialize, CallFitsPhase
  <2>7. CallFitsPhase'
    BY <2>2, <2>6 DEF CallFitsPhase, Idle
  <2> HIDE DEF r
  <2>20. /\ error' = FALSE /\ fed' \in Nat /\ reach' \in Nat
         /\ fetched' \in Seq(FetchedByte) /\ forgotten' \in 0 .. Len(fetched')
    BY <1>0, <2>1, <2>2, <2>3, <2>4, <2>5, <2>7
  <2>21. duplex'.byteInputIndex < rho' /\ duplex'.byteOutputIndex <= RateBytes(duplex')
    BY <1>0, <2>1, <2>2, <2>3, <2>4, <2>5, <2>7
  <2>22. /\ duplex' \in Duplexes /\ duplex'.rate \in 10 .. Width /\ CallFitsPhase'
         /\ call' \in [op : {"none", "feed", "fetch"}, left : Nat]
    BY <1>0, <2>1, <2>2, <2>3, <2>4, <2>5, <2>7
  <2> QED BY ONLY <2>20, <2>21, <2>22, DuplexWidth, TypesFromFields
<1>2. ASSUME NEW n \in 0 .. MaxSeed, SpongePRG_Feed(n) PROVE TypesInv'
  <2>1. duplex.rate # 0 /\ call' = [op |-> "feed", left |-> n] /\ UNCHANGED <<duplex, error, history>>
    BY <1>2 DEF SpongePRG_Feed, Ready
  <2>2. CallFitsPhase' /\ call' \in [op : {"none", "feed", "fetch"}, left : Nat]
    BY <2>1, PRGAssumption DEF CallFitsPhase
  <2> QED BY <2>1, <2>2, <1>0 DEF TypesInv, TypeOK, RateIsValid, EmptyQueue, NeverRefused, rho
<1>3. ASSUME FeedBlock PROVE TypesInv'
  <2> DEFINE L == rho - duplex.byteInputIndex
  <2>1. /\ duplex.rate # 0 /\ L \in 1 .. rho /\ L <= call.left
        /\ AddInput(duplex, NextSeed(L)) \in Duplexes
        /\ duplex' \in Duplexes /\ duplex'.rate = duplex.rate
        /\ duplex'.byteInputIndex = 0 /\ duplex'.byteOutputIndex = 0
        /\ fed' = fed + L
        /\ reach' = ReachAfter(AddInput(duplex, NextSeed(L)))
        /\ call' = [call EXCEPT !.left = @ - L]
        /\ UNCHANGED <<error, fetched, forgotten>>
    BY <1>3, FeedBlockEffect
  <2> HIDE DEF L
  <2>2. /\ duplex'.rate \in 10 .. Width /\ rho' = rho /\ rho \in Nat \ {0}
        /\ RateBytes(duplex') \in Nat
    BY <2>1, BlockInRate, RunningFacts
  <2>3. call' \in [op : {"none", "feed", "fetch"}, left : Nat] /\ call'.op = "feed"
    <3>1. call.op = "feed" /\ call \in [op : {"none", "feed", "fetch"}, left : Nat]
      BY <1>0, <1>3 DEF FeedBlock
    <3>2. call.left - L \in Nat
      BY <2>1, <2>2, <3>1
    <3> QED BY ONLY <2>1, <3>1, <3>2
  <2>4. CallFitsPhase'
    BY <2>1, <2>3 DEF CallFitsPhase
  <2>5. fed' \in Nat /\ reach' \in Nat
    BY <1>0, <2>1, <2>2, ReachType, SMTT(30)
  <2>20. /\ error' = FALSE /\ fed' \in Nat /\ reach' \in Nat
         /\ fetched' \in Seq(FetchedByte) /\ forgotten' \in 0 .. Len(fetched')
    BY <1>0, <2>1, <2>2, <2>3, <2>4, <2>5
  <2>21. duplex'.byteInputIndex < rho' /\ duplex'.byteOutputIndex <= RateBytes(duplex')
    BY <1>0, <2>1, <2>2, <2>3, <2>4, <2>5
  <2>22. /\ duplex' \in Duplexes /\ duplex'.rate \in 10 .. Width /\ CallFitsPhase'
         /\ call' \in [op : {"none", "feed", "fetch"}, left : Nat]
    BY <1>0, <2>1, <2>2, <2>3, <2>4, <2>5
  <2> QED BY ONLY <2>20, <2>21, <2>22, DuplexWidth, TypesFromFields
<1>4. ASSUME FeedRest PROVE TypesInv'
  <2>1. /\ duplex.rate # 0 /\ call.left \in Nat
        /\ call.left < rho - duplex.byteInputIndex
        /\ duplex' \in Duplexes /\ duplex'.rate = duplex.rate
        /\ duplex'.byteInputIndex = duplex.byteInputIndex + call.left
        /\ duplex'.byteOutputIndex = rho
        /\ fed' = fed + call.left /\ call' = Idle
        /\ UNCHANGED <<error, absorbed, fetched, reach, forgotten>>
    BY <1>4, FeedRestEffect
  <2>2. /\ duplex'.rate \in 10 .. Width /\ rho' = rho /\ rho \in Nat \ {0}
        /\ rho <= RateBytes(duplex') /\ duplex.byteInputIndex \in Nat
    BY <2>1, BlockInRate, RunningFacts
  <2>3. CallFitsPhase' /\ call' \in [op : {"none", "feed", "fetch"}, left : Nat]
    BY <2>1 DEF CallFitsPhase, Idle
  <2>20. /\ error' = FALSE /\ fed' \in Nat /\ reach' \in Nat
         /\ fetched' \in Seq(FetchedByte) /\ forgotten' \in 0 .. Len(fetched')
    BY <1>0, <2>1, <2>2, <2>3
  <2>21. duplex'.byteInputIndex < rho' /\ duplex'.byteOutputIndex <= RateBytes(duplex')
    BY <1>0, <2>1, <2>2, <2>3
  <2>22. /\ duplex' \in Duplexes /\ duplex'.rate \in 10 .. Width /\ CallFitsPhase'
         /\ call' \in [op : {"none", "feed", "fetch"}, left : Nat]
    BY <1>0, <2>1, <2>2, <2>3
  <2> QED BY ONLY <2>20, <2>21, <2>22, DuplexWidth, TypesFromFields
<1>5. ASSUME NEW n \in 0 .. MaxOutput, SpongePRG_Fetch(n) PROVE TypesInv'
  <2> DEFINE L == IF duplex.byteOutputIndex < rho
                    THEN LesserOf(rho - duplex.byteOutputIndex, n) ELSE 0
  <2>0. n \in Nat
    BY PRGAssumption
  <2>1. /\ duplex.rate # 0 /\ L \in 0 .. n
        /\ L > 0 => duplex.byteOutputIndex + L <= rho
        /\ L < n => duplex.byteOutputIndex + L >= rho
        /\ duplex' \in Duplexes /\ duplex'.rate = duplex.rate
        /\ duplex'.byteInputIndex = duplex.byteInputIndex
        /\ duplex'.byteOutputIndex = duplex.byteOutputIndex + L
        /\ fetched' = fetched \o Fetched(duplex, L)
        /\ call' = IF L = n THEN Idle ELSE [op |-> "fetch", left |-> n - L]
        /\ UNCHANGED <<error, fed, absorbed, reach, forgotten>>
    BY <1>5, <2>0, FetchEffect
  <2> HIDE DEF L
  <2>2. /\ duplex'.rate \in 10 .. Width /\ rho' = rho /\ rho \in Nat \ {0}
        /\ rho <= RateBytes(duplex') /\ duplex.byteInputIndex \in 0 .. rho - 1
        /\ duplex.byteOutputIndex \in Nat
    BY <2>1, BlockInRate, RunningFacts
  <2>3. /\ call' \in [op : {"none", "feed", "fetch"}, left : Nat]
        /\ CallFitsPhase'
    <3>1. CASE L = n
      BY <2>1, <3>1 DEF CallFitsPhase, Idle
    <3>2. CASE L # n
      BY <2>0, <2>1, <2>2, <3>2 DEF CallFitsPhase
    <3> QED BY <3>1, <3>2
  <2>4. Fetched(duplex, L) \in Seq(FetchedByte)
    <3>1. /\ duplex \in Duplexes /\ duplex.rate \in 10 .. Width /\ L \in Nat /\ fed \in Nat
          /\ L > 0 => duplex.byteOutputIndex + L <= BlockSize(duplex.rate)
      BY <1>0, <2>1, <2>2 DEF rho
    <3>2. BytesOfBlock(Fetched(duplex, L), duplex, L)
      BY ONLY <3>1, DuplexWidth, FetchedBytes
    <3> QED BY <3>2 DEF BytesOfBlock
  <2>5. fetched' \in Seq(FetchedByte) /\ Len(fetched') >= Len(fetched) /\ Len(fetched) \in Nat
        /\ Len(fetched') \in Nat
    BY <1>0, <2>1, <2>4, ConcatProperties, LenProperties
  <2>6. duplex'.byteOutputIndex <= RateBytes(duplex')
    <3>1. duplex.byteOutputIndex <= RateBytes(duplex') /\ RateBytes(duplex') \in Nat
      <4>1. RateBytes(duplex') \in Nat
        BY <2>1, BlockInRate
      <4>2. RateBytes(duplex') = RateBytes(duplex)
        BY <2>1 DEF RateBytes
      <4>3. duplex.byteOutputIndex \in 0 .. RateBytes(duplex)
        BY DEF TypesInv, TypeOK
      <4> QED BY ONLY <4>1, <4>2, <4>3
    <3> QED BY <2>1, <2>2, <3>1
  <2>7. forgotten' \in 0 .. Len(fetched')
    BY <1>0, <2>1, <2>5
  <2>20. /\ error' = FALSE /\ fed' \in Nat /\ reach' \in Nat
         /\ fetched' \in Seq(FetchedByte) /\ forgotten' \in 0 .. Len(fetched')
    BY <1>0, <2>1, <2>2, <2>3, <2>5, <2>6, <2>7
  <2>21. duplex'.byteInputIndex < rho' /\ duplex'.byteOutputIndex <= RateBytes(duplex')
    BY <1>0, <2>1, <2>2, <2>3, <2>5, <2>6, <2>7, SMTT(30)
  <2>22. /\ duplex' \in Duplexes /\ duplex'.rate \in 10 .. Width /\ CallFitsPhase'
         /\ call' \in [op : {"none", "feed", "fetch"}, left : Nat]
    BY <1>0, <2>1, <2>2, <2>3, <2>5, <2>6, <2>7
  <2> QED BY ONLY <2>20, <2>21, <2>22, DuplexWidth, TypesFromFields
<1>6. ASSUME FetchBlock PROVE TypesInv'
  <2> DEFINE L == LesserOf(rho, call.left)
  <2>1. /\ duplex.rate # 0 /\ L \in 1 .. rho /\ L <= call.left
        /\ call.left \in Nat /\ (L < call.left => L = rho)
        /\ Step(duplex) \in Duplexes /\ Step(duplex).rate = duplex.rate
        /\ Step(duplex).byteOutputIndex = 0
        /\ duplex' \in Duplexes /\ duplex'.rate = duplex.rate
        /\ duplex'.byteInputIndex = 0 /\ duplex'.byteOutputIndex = L
        /\ fetched' = fetched \o Fetched(Step(duplex), L)
        /\ reach' = ReachAfter(duplex)
        /\ call' = IF call.left = L THEN Idle ELSE [call EXCEPT !.left = @ - L]
        /\ UNCHANGED <<error, fed, forgotten>>
    BY <1>6, FetchBlockEffect
  <2> HIDE DEF L
  <2>2. /\ duplex'.rate \in 10 .. Width /\ rho' = rho /\ rho \in Nat \ {0}
        /\ rho <= RateBytes(duplex') /\ RateBytes(duplex') \in Nat
    BY <2>1, BlockInRate, RunningFacts
  <2>3. /\ call' \in [op : {"none", "feed", "fetch"}, left : Nat]
        /\ CallFitsPhase'
    <3>1. CASE call.left = L
      BY <2>1, <3>1 DEF CallFitsPhase, Idle
    <3>2. CASE call.left # L
      <4>1. call' = [call EXCEPT !.left = @ - L] /\ call.op = "fetch" /\ L < call.left
        BY <1>6, <2>1, <2>2, <3>2 DEF FetchBlock
      <4>2. call' \in [op : {"none", "feed", "fetch"}, left : Nat]
            /\ call'.op = "fetch" /\ call'.left > 0
        <5>1. call.left - L \in Nat /\ call.left - L > 0
          BY <2>1, <2>2, <4>1
        <5>2. /\ call' \in [op : {"none", "feed", "fetch"}, left : Nat]
              /\ call'.op = call.op /\ call'.left = call.left - L
          BY ONLY <1>0, <4>1, <5>1
        <5> QED BY <4>1, <5>1, <5>2
      <4> QED BY <2>1, <2>2, <4>1, <4>2 DEF CallFitsPhase
    <3> QED BY <3>1, <3>2
  <2>4. Fetched(Step(duplex), L) \in Seq(FetchedByte)
    <3>1. /\ Step(duplex) \in Duplexes /\ Step(duplex).rate \in 10 .. Width /\ L \in Nat
          /\ fed \in Nat /\ Step(duplex).byteOutputIndex + L <= BlockSize(Step(duplex).rate)
      BY <1>0, <2>1, <2>2 DEF rho
    <3>2. BytesOfBlock(Fetched(Step(duplex), L), Step(duplex), L)
      BY ONLY <3>1, DuplexWidth, FetchedBytes
    <3> QED BY <3>2 DEF BytesOfBlock
  <2>5. fetched' \in Seq(FetchedByte) /\ Len(fetched') >= Len(fetched) /\ Len(fetched) \in Nat
        /\ Len(fetched') \in Nat
    BY <1>0, <2>1, <2>4, ConcatProperties, LenProperties
  <2>6. reach' \in Nat
    BY <1>0, <2>1, ReachType
  <2>7. forgotten' \in 0 .. Len(fetched')
    BY <1>0, <2>1, <2>5
  <2>20. /\ error' = FALSE /\ fed' \in Nat /\ reach' \in Nat
         /\ fetched' \in Seq(FetchedByte) /\ forgotten' \in 0 .. Len(fetched')
    BY <1>0, <2>1, <2>2, <2>3, <2>5, <2>6, <2>7
  <2>21. duplex'.byteInputIndex < rho' /\ duplex'.byteOutputIndex <= RateBytes(duplex')
    BY <1>0, <2>1, <2>2, <2>3, <2>5, <2>6, <2>7, SMTT(30)
  <2>22. /\ duplex' \in Duplexes /\ duplex'.rate \in 10 .. Width /\ CallFitsPhase'
         /\ call' \in [op : {"none", "feed", "fetch"}, left : Nat]
    BY <1>0, <2>1, <2>2, <2>3, <2>5, <2>6, <2>7
  <2> QED BY ONLY <2>20, <2>21, <2>22, DuplexWidth, TypesFromFields
<1>7. ASSUME SpongePRG_Forget PROVE TypesInv'
  <2> DEFINE E == OverwriteInput(Step(duplex), Zeroes(rho))
  <2>1. /\ duplex.rate # 0 /\ call = Idle /\ E \in Duplexes
        /\ duplex' \in Duplexes /\ duplex'.rate = duplex.rate
        /\ duplex'.byteInputIndex = 0 /\ duplex'.byteOutputIndex = rho
        /\ reach' = ReachAfter(E) /\ forgotten' = Len(fetched)
        /\ UNCHANGED <<call, error, fed, fetched>>
    BY <1>7, ForgetEffect
  <2> HIDE DEF E
  <2>2. /\ duplex'.rate \in 10 .. Width /\ rho' = rho /\ rho \in Nat \ {0}
        /\ rho <= RateBytes(duplex')
    BY <2>1, BlockInRate, RunningFacts
  <2>3. reach' \in Nat /\ forgotten' \in 0 .. Len(fetched')
    BY <1>0, <2>1, ReachType, LenProperties
  <2>4. CallFitsPhase'
    BY <2>1 DEF CallFitsPhase, Idle
  <2>20. /\ error' = FALSE /\ fed' \in Nat /\ reach' \in Nat
         /\ fetched' \in Seq(FetchedByte) /\ forgotten' \in 0 .. Len(fetched')
    BY <1>0, <2>1, <2>2, <2>3, <2>4
  <2>21. duplex'.byteInputIndex < rho' /\ duplex'.byteOutputIndex <= RateBytes(duplex')
    BY <1>0, <2>1, <2>2, <2>3, <2>4
  <2>22. /\ duplex' \in Duplexes /\ duplex'.rate \in 10 .. Width /\ CallFitsPhase'
         /\ call' \in [op : {"none", "feed", "fetch"}, left : Nat]
    BY <1>0, <2>1, <2>2, <2>3, <2>4
  <2> QED BY ONLY <2>20, <2>21, <2>22, DuplexWidth, TypesFromFields
<1>8. CASE UNCHANGED vars
  BY <1>0, <1>8 DEF vars, TypesInv, TypeOK, RateIsValid, EmptyQueue, CallFitsPhase, NeverRefused, rho, Idle
<1> QED BY <1>1, <1>2, <1>3, <1>4, <1>5, <1>6, <1>7, <1>8 DEF Next

\* The fields of the generator and of its duplex object keep their types, and
\* what is queued leaves room for the padding (KeccakPRG.inc 36-112).
THEOREM PRGTypesInvariant == Spec => []TypesInv
<1>1. Init => TypesInv
  BY InitTypes
<1>2. TypesInv /\ [Next]_vars => TypesInv'
  BY NextTypes
<1> QED BY <1>1, <1>2, PTL DEF Spec

\* The variables keep their types, the indices of the duplex object stay in
\* the block and in the rate, for every width and capacity.
THEOREM PRGTypeOK == Spec => []TypeOK
<1>1. TypesInv => TypeOK
  BY DEF TypesInv
<1> QED BY <1>1, PRGTypesInvariant, PTL

\* No call on the duplex object is ever refused: Feed, Fetch and Forget of
\* KeccakPRG.inc succeed whenever Initialize accepted the capacity and, for
\* Forget, the block is at least as long as the capacity.
THEOREM PRGNeverRefused == Spec => []NeverRefused
<1>1. TypesInv => NeverRefused
  BY DEF TypesInv
<1> QED BY <1>1, PRGTypesInvariant, PTL

-----------------------------------------------------------------------------
(* No place in the output is given twice, and none with input added to it.  *)

\* The bytes of f come from the first R bytes of the outputs of permutations 1
\* to e, in this order, and end before byte q of the last.
GivenUpTo(f, R, e, q) ==
  /\ \A k \in 1 .. Len(f) :
       /\ f[k].out.bits = 8
       /\ \E d \in 1 .. e, p \in 0 .. R - 1 :
            f[k].out.byte = {<<"out", d, p>>} /\ (d < e \/ p < q)
  /\ \A j, k \in 1 .. Len(f) : j < k =>
       \A s \in f[j].out.byte, t \in f[k].out.byte :
         Before(<<s[2], s[3]>>, <<t[2], t[3]>>)

\* A state whose output has not been taken completely holds that output only.
PendingSeedHidesOutput ==
  duplex.rate # 0 /\ duplex.byteOutputIndex < rho =>
    /\ duplex.byteInputIndex = 0
    /\ duplex.perms >= 1 /\ duplex.state = Permuted(duplex.perms)

OutputInv ==
  /\ duplex.rate = 0 => fetched = <<>>
  /\ duplex.rate # 0 => GivenUpTo(fetched, rho, duplex.perms, duplex.byteOutputIndex)
  /\ PendingSeedHidesOutput

\* The next bytes of the last output.
LEMMA GivenMore ==
  ASSUME NEW f \in Seq(FetchedByte), NEW g \in Seq(FetchedByte), NEW R \in Nat,
         NEW e \in Nat \ {0}, NEW q \in Nat,
         GivenUpTo(f, R, e, q), Len(g) > 0 => q + Len(g) <= R,
         \A i \in 1 .. Len(g) : g[i].out.bits = 8 /\ g[i].out.byte = {<<"out", e, q + i - 1>>}
  PROVE  GivenUpTo(f \o g, R, e, q + Len(g))
<1>1. /\ f \o g \in Seq(FetchedByte) /\ Len(f) \in Nat /\ Len(g) \in Nat
      /\ Len(f \o g) = Len(f) + Len(g)
      /\ \A i \in 1 .. Len(f) + Len(g) :
           (f \o g)[i] = IF i <= Len(f) THEN f[i] ELSE g[i - Len(f)]
  BY ConcatProperties, LenProperties
<1> DEFINE h == f \o g
<1>2. \A i \in 1 .. Len(f) : h[i] = f[i]
  BY <1>1
<1>3. \A i \in Len(f) + 1 .. Len(h) :
        /\ i - Len(f) \in 1 .. Len(g)
        /\ h[i].out.bits = 8
        /\ h[i].out.byte = {<<"out", e, q + (i - Len(f)) - 1>>}
  BY <1>1
<1> HIDE DEF h
<1>4. ASSUME NEW k \in 1 .. Len(h)
      PROVE  /\ h[k].out.bits = 8
             /\ \E d \in 1 .. e, p \in 0 .. R - 1 :
                  h[k].out.byte = {<<"out", d, p>>} /\ (d < e \/ p < q + Len(g))
  <2>1. CASE k <= Len(f)
    <3>1. k \in 1 .. Len(f) /\ h[k] = f[k]
      BY <1>1, <1>2, <2>1
    <3>2. PICK d \in 1 .. e, p \in 0 .. R - 1 :
            f[k].out.byte = {<<"out", d, p>>} /\ (d < e \/ p < q)
      BY <3>1 DEF GivenUpTo
    <3>3. d < e \/ p < q + Len(g)
      BY <1>1, <3>2
    <3>4. h[k].out.bits = 8
      BY <3>1 DEF GivenUpTo
    <3>5. h[k].out.byte = {<<"out", d, p>>}
      BY <3>1, <3>2
    <3>6. \E b \in 1 .. e, r \in 0 .. R - 1 :
            h[k].out.byte = {<<"out", b, r>>} /\ (b < e \/ r < q + Len(g))
      <4> WITNESS d \in 1 .. e, p \in 0 .. R - 1
      <4> QED BY <3>3, <3>5
    <3> QED BY <3>4, <3>6
  <2>2. CASE k > Len(f)
    <3>1. k \in Len(f) + 1 .. Len(h) /\ Len(h) = Len(f) + Len(g)
      BY <1>1, <2>2 DEF h
    <3> DEFINE pos == q + (k - Len(f)) - 1
    <3>2. pos \in 0 .. R - 1 /\ pos < q + Len(g)
      BY <1>1, <3>1, SMTT(30)
    <3>3. h[k].out.bits = 8 /\ h[k].out.byte = {<<"out", e, pos>>}
      BY <1>3, <3>1
    <3> HIDE DEF pos
    <3>4. \E b \in 1 .. e, r \in 0 .. R - 1 :
            h[k].out.byte = {<<"out", b, r>>} /\ (b < e \/ r < q + Len(g))
      <4> USE <3>2
      <4> WITNESS e \in 1 .. e, pos \in 0 .. R - 1
      <4> QED BY <3>2, <3>3
    <3>5. h[k].out.bits = 8
      BY <3>3
    <3> QED BY <3>4, <3>5
  <2>3. k <= Len(f) \/ k > Len(f)
    BY <1>1
  <2> QED BY ONLY <2>1, <2>2, <2>3
<1>5. ASSUME NEW j \in 1 .. Len(h), NEW k \in 1 .. Len(h), j < k,
             NEW s \in h[j].out.byte, NEW t \in h[k].out.byte
      PROVE  Before(<<s[2], s[3]>>, <<t[2], t[3]>>)
  <2>0. Len(h) = Len(f) + Len(g)
    BY <1>1 DEF h
  <2>1. CASE k <= Len(f)
    <3>1. j \in 1 .. Len(f) /\ k \in 1 .. Len(f) /\ h[j] = f[j] /\ h[k] = f[k]
      BY <1>1, <1>2, <1>5, <2>1
    <3> QED BY <1>5, <3>1 DEF GivenUpTo
  <2>2. CASE k > Len(f)
    <3>1. k \in Len(f) + 1 .. Len(h)
      BY <1>1, <2>0, <2>2
    <3>2. h[k].out.byte = {<<"out", e, q + (k - Len(f)) - 1>>}
      BY <1>3, <3>1
    <3>3. t[2] = e /\ t[3] = q + (k - Len(f)) - 1
      BY <3>2
    <3>4. CASE j <= Len(f)
      <4>1. j \in 1 .. Len(f) /\ h[j] = f[j]
        BY <1>1, <1>2, <3>4
      <4>2. PICK d \in 1 .. e, p \in 0 .. R - 1 :
              f[j].out.byte = {<<"out", d, p>>} /\ (d < e \/ p < q)
        BY <4>1 DEF GivenUpTo
      <4>3. s[2] = d /\ s[3] = p
        BY <4>1, <4>2
      <4> QED BY <1>1, <2>2, <3>3, <4>2, <4>3 DEF Before
    <3>5. CASE j > Len(f)
      <4>1. j \in Len(f) + 1 .. Len(h)
        BY <1>1, <2>0, <3>5
      <4>2. h[j].out.byte = {<<"out", e, q + (j - Len(f)) - 1>>}
        BY <1>3, <4>1
      <4>3. s[2] = e /\ s[3] = q + (j - Len(f)) - 1
        BY <4>2
      <4>4. q + (j - Len(f)) - 1 < q + (k - Len(f)) - 1
        BY <1>1, <1>5
      <4> QED BY <3>3, <4>3, <4>4 DEF Before
    <3> QED BY <1>1, <3>4, <3>5
  <2> QED BY <1>1, <2>1, <2>2
<1>6. GivenUpTo(h, R, e, q + Len(g))
  BY <1>4, <1>5 DEF GivenUpTo
<1> QED BY <1>6 DEF h

\* A later place is as good.
LEMMA GivenStays ==
  ASSUME NEW f \in Seq(FetchedByte), NEW R \in Nat, NEW e \in Nat, NEW q \in Nat,
         NEW e2 \in Nat, NEW q2 \in Nat, GivenUpTo(f, R, e, q),
         e2 > e \/ (e2 = e /\ q2 >= q)
  PROVE  GivenUpTo(f, R, e2, q2)
<1>1. ASSUME NEW k \in 1 .. Len(f)
      PROVE  /\ f[k].out.bits = 8
             /\ \E d \in 1 .. e2, p \in 0 .. R - 1 :
                  f[k].out.byte = {<<"out", d, p>>} /\ (d < e2 \/ p < q2)
  <2>1. PICK d \in 1 .. e, p \in 0 .. R - 1 :
          f[k].out.byte = {<<"out", d, p>>} /\ (d < e \/ p < q)
    BY DEF GivenUpTo
  <2>2. d \in 1 .. e2 /\ (d < e2 \/ p < q2)
    BY <2>1
  <2> QED BY <2>1, <2>2 DEF GivenUpTo
<1> QED BY <1>1 DEF GivenUpTo

LEMMA InitOutput == Init => OutputInv
BY DEF Init, OutputInv, PendingSeedHidesOutput, NewDuplex

LEMMA NextOutput ==
  ASSUME TypesInv, OutputInv, [Next]_vars
  PROVE  OutputInv'
<1> USE DEF history
<1>0. duplex \in Duplexes /\ fetched \in Seq(FetchedByte) /\ duplex.perms \in Nat
      /\ duplex.byteOutputIndex \in Nat
  BY DEF TypesInv, Duplexes
<1>1. ASSUME NEW c \in Capacities, SpongePRG_Initialize(c) PROVE OutputInv'
  <2> DEFINE r == Width - c
  <2>1. /\ r \in Nat /\ r >= 10 /\ duplex.rate = 0
    BY <1>1, DuplexWidth, PRGAssumption DEF SpongePRG_Initialize
  <2>2. duplex' = NewDuplex(r) /\ UNCHANGED <<call, error, history>>
    BY <1>1 DEF SpongePRG_Initialize
  <2>3. fetched' = <<>>
    BY <2>1, <2>2 DEF OutputInv
  <2>4. duplex'.byteOutputIndex = (r + 7) \div 8 /\ rho' = BlockSize(r)
    BY <2>2 DEF NewDuplex, rho
  <2>5. ~(duplex'.byteOutputIndex < rho')
    BY <2>1, <2>4, BlockFacts
  <2>6. GivenUpTo(fetched', rho', duplex'.perms, duplex'.byteOutputIndex)
    BY <2>3 DEF GivenUpTo
  <2> QED BY <2>3, <2>5, <2>6 DEF OutputInv, PendingSeedHidesOutput
<1>2. ASSUME NEW n \in 0 .. MaxSeed, SpongePRG_Feed(n) PROVE OutputInv'
  BY <1>2 DEF SpongePRG_Feed, OutputInv, PendingSeedHidesOutput, rho
<1>3. ASSUME FeedBlock PROVE OutputInv'
  <2>1. /\ duplex.rate # 0 /\ duplex'.rate = duplex.rate /\ duplex' \in Duplexes
        /\ duplex'.perms = duplex.perms + 1 /\ fetched' = fetched
        /\ duplex'.state = Permuted(duplex.perms + 1)
        /\ duplex'.byteInputIndex = 0 /\ duplex'.byteOutputIndex = 0
    BY <1>3, FeedBlockEffect
  <2>2. rho' = rho /\ rho \in Nat
    BY <2>1, RunningFacts, BlockInRate
  <2>3. GivenUpTo(fetched, rho, duplex.perms + 1, 0)
    <3>1. GivenUpTo(fetched, rho, duplex.perms, duplex.byteOutputIndex)
      BY <2>1 DEF OutputInv
    <3>2. duplex.perms + 1 \in Nat /\ duplex.perms + 1 > duplex.perms
      BY <1>0
    <3> QED BY <1>0, <2>2, <3>1, <3>2, GivenStays
  <2>4. duplex'.perms >= 1
    BY <1>0, <2>1
  <2> QED BY <2>1, <2>2, <2>3, <2>4 DEF OutputInv, PendingSeedHidesOutput
<1>4. ASSUME FeedRest PROVE OutputInv'
  <2>1. /\ duplex.rate # 0 /\ duplex'.rate = duplex.rate /\ duplex' \in Duplexes
        /\ duplex'.perms = duplex.perms /\ fetched' = fetched
        /\ duplex'.byteOutputIndex = rho
    BY <1>4, FeedRestEffect
  <2>2. rho' = rho /\ rho \in Nat
    BY <2>1, RunningFacts, BlockInRate
  <2>3. GivenUpTo(fetched, rho, duplex.perms, duplex.byteOutputIndex)
    BY <2>1 DEF OutputInv
  <2>4. GivenUpTo(fetched, rho, duplex.perms, rho)
    <3>1. ASSUME NEW k \in 1 .. Len(fetched)
          PROVE  /\ fetched[k].out.bits = 8
                 /\ \E d \in 1 .. duplex.perms, p \in 0 .. rho - 1 :
                      fetched[k].out.byte = {<<"out", d, p>>} /\ (d < duplex.perms \/ p < rho)
      <4>1. PICK d \in 1 .. duplex.perms, p \in 0 .. rho - 1 :
              fetched[k].out.byte = {<<"out", d, p>>}
        BY <2>3 DEF GivenUpTo
      <4>2. p < rho
        BY <2>2
      <4> QED BY <2>3, <4>1, <4>2 DEF GivenUpTo
    <3> QED BY <2>3, <3>1 DEF GivenUpTo
  <2>5. ~(duplex'.byteOutputIndex < rho')
    BY <2>1, <2>2
  <2> QED BY <2>1, <2>2, <2>4, <2>5 DEF OutputInv, PendingSeedHidesOutput
<1>5. ASSUME NEW n \in 0 .. MaxOutput, SpongePRG_Fetch(n) PROVE OutputInv'
  <2> DEFINE L == IF duplex.byteOutputIndex < rho
                    THEN LesserOf(rho - duplex.byteOutputIndex, n) ELSE 0
             g == Fetched(duplex, L)
  <2>0. n \in Nat
    BY PRGAssumption
  <2>1. /\ duplex.rate # 0 /\ L \in 0 .. n
        /\ L > 0 => duplex.byteOutputIndex + L <= rho
        /\ duplex' \in Duplexes /\ duplex'.rate = duplex.rate
        /\ duplex'.perms = duplex.perms /\ duplex'.state = duplex.state
        /\ duplex'.byteInputIndex = duplex.byteInputIndex
        /\ duplex'.byteOutputIndex = duplex.byteOutputIndex + L
        /\ fetched' = fetched \o g
    BY <1>5, <2>0, FetchEffect
  <2>2. rho' = rho /\ rho \in Nat \ {0} /\ duplex.rate \in 10 .. Width
        /\ rho = BlockSize(duplex.rate) /\ fed \in Nat /\ L \in Nat
    BY <2>1, RunningFacts, BlockInRate
  <2> HIDE DEF L
  <2>3. /\ g \in Seq(FetchedByte) /\ Len(g) = L
        /\ \A i \in 1 .. L :
             /\ duplex.byteOutputIndex + i - 1 \in Offsets
             /\ g[i].out.byte = duplex.state[duplex.byteOutputIndex + i - 1]
             /\ g[i].out.bits = 8
    <3>1. /\ duplex \in Duplexes /\ duplex.rate \in 10 .. Width /\ L \in Nat /\ fed \in Nat
          /\ L > 0 => duplex.byteOutputIndex + L <= BlockSize(duplex.rate)
      BY <1>0, <2>1, <2>2
    <3>2. BytesOfBlock(Fetched(duplex, L), duplex, L)
      BY ONLY <3>1, DuplexWidth, FetchedBytes
    <3> QED BY <3>2 DEF BytesOfBlock
  <2> HIDE DEF g
  <2>4. GivenUpTo(fetched, rho, duplex.perms, duplex.byteOutputIndex)
    BY <2>1 DEF OutputInv
  <2>5. CASE L = 0
    <3>1. g = <<>>
      BY <2>3, <2>5, EmptySeq
    <3>2. fetched' = fetched
      BY <1>0, <2>1, <3>1, ConcatEmptySeq
    <3>3. duplex'.byteOutputIndex = duplex.byteOutputIndex
      BY <1>0, <2>1, <2>5
    <3> QED BY <2>1, <2>2, <2>4, <3>2, <3>3 DEF OutputInv, PendingSeedHidesOutput
  <2>6. CASE L > 0
    <3>1. /\ duplex.byteOutputIndex < rho /\ duplex.byteInputIndex = 0
          /\ duplex.perms >= 1 /\ duplex.state = Permuted(duplex.perms)
      BY <1>0, <2>1, <2>2, <2>6 DEF OutputInv, PendingSeedHidesOutput
    <3>2. \A i \in 1 .. L : g[i].out.bits = 8 /\
            g[i].out.byte = {<<"out", duplex.perms, duplex.byteOutputIndex + i - 1>>}
      BY <2>3, <3>1 DEF Permuted
    <3>3. GivenUpTo(fetched \o g, rho, duplex.perms, duplex.byteOutputIndex + Len(g))
      <4>1. duplex.perms \in Nat \ {0} /\ rho \in Nat
        BY <1>0, <2>2, <3>1
      <4>2. Len(g) > 0 => duplex.byteOutputIndex + Len(g) <= rho
        BY <2>1, <2>3
      <4>3. \A i \in 1 .. Len(g) : g[i].out.bits = 8 /\
              g[i].out.byte = {<<"out", duplex.perms, duplex.byteOutputIndex + i - 1>>}
        BY <2>3, <3>2
      <4> QED BY ONLY <1>0, <2>3, <2>4, <4>1, <4>2, <4>3, GivenMore
    <3> QED BY <2>1, <2>2, <2>3, <3>1, <3>3 DEF OutputInv, PendingSeedHidesOutput
  <2> QED BY <2>2, <2>5, <2>6
<1>6. ASSUME FetchBlock PROVE OutputInv'
  <2> DEFINE L == LesserOf(rho, call.left)
             D == Step(duplex)
             g == Fetched(D, L)
  <2>1. /\ duplex.rate # 0 /\ L \in 1 .. rho
        /\ D \in Duplexes /\ D.rate = duplex.rate
        /\ D.perms = duplex.perms + 1 /\ D.state = Permuted(duplex.perms + 1)
        /\ D.byteOutputIndex = 0
        /\ duplex' \in Duplexes /\ duplex'.rate = duplex.rate
        /\ duplex'.perms = duplex.perms + 1
        /\ duplex'.state = Permuted(duplex.perms + 1)
        /\ duplex'.byteInputIndex = 0 /\ duplex'.byteOutputIndex = L
        /\ fetched' = fetched \o g
    BY <1>6, FetchBlockEffect
  <2>2. rho' = rho /\ rho \in Nat \ {0} /\ duplex.rate \in 10 .. Width
        /\ rho = BlockSize(duplex.rate) /\ fed \in Nat
    BY <2>1, RunningFacts, BlockInRate
  <2> HIDE DEF L, D
  <2>3. /\ g \in Seq(FetchedByte) /\ Len(g) = L
        /\ \A i \in 1 .. L :
             /\ D.byteOutputIndex + i - 1 \in Offsets
             /\ g[i].out.byte = D.state[D.byteOutputIndex + i - 1]
             /\ g[i].out.bits = 8
    <3>1. /\ D \in Duplexes /\ D.rate \in 10 .. Width /\ L \in Nat /\ fed \in Nat
          /\ D.byteOutputIndex + L <= BlockSize(D.rate)
      BY <1>0, <2>1, <2>2
    <3>2. BytesOfBlock(Fetched(D, L), D, L)
      BY ONLY <3>1, DuplexWidth, FetchedBytes
    <3> QED BY <3>2 DEF BytesOfBlock
  <2> HIDE DEF g
  <2>4. GivenUpTo(fetched, rho, duplex.perms + 1, 0)
    <3>1. GivenUpTo(fetched, rho, duplex.perms, duplex.byteOutputIndex)
      BY <2>1 DEF OutputInv
    <3>2. duplex.perms + 1 \in Nat /\ duplex.perms + 1 > duplex.perms
      BY <1>0
    <3> QED BY <1>0, <2>2, <3>1, <3>2, GivenStays
  <2>5. GivenUpTo(fetched \o g, rho, duplex.perms + 1, 0 + Len(g))
    <3>1. duplex.perms + 1 \in Nat \ {0} /\ rho \in Nat /\ 0 \in Nat
      BY <1>0, <2>2
    <3>2. Len(g) > 0 => 0 + Len(g) <= rho
      BY <2>1, <2>2, <2>3
    <3>3. \A i \in 1 .. Len(g) : g[i].out.bits = 8 /\
            g[i].out.byte = {<<"out", duplex.perms + 1, 0 + i - 1>>}
      <4>1. ASSUME NEW i \in 1 .. L
            PROVE  /\ g[i].out.byte = D.state[0 + i - 1] /\ 0 + i - 1 \in Offsets
                   /\ g[i].out.bits = 8
        BY <2>1, <2>3
      <4>2. \A p \in Offsets : D.state[p] = {<<"out", duplex.perms + 1, p>>}
        BY <2>1 DEF Permuted
      <4> QED BY <2>3, <4>1, <4>2
    <3> QED BY ONLY <1>0, <2>3, <2>4, <3>1, <3>2, <3>3, GivenMore
  <2>6. 0 + Len(g) = L /\ duplex'.perms >= 1
    BY <1>0, <2>1, <2>2, <2>3
  <2> QED BY <2>1, <2>2, <2>5, <2>6 DEF OutputInv, PendingSeedHidesOutput
<1>7. ASSUME SpongePRG_Forget PROVE OutputInv'
  <2>1. /\ duplex.rate # 0 /\ duplex'.rate = duplex.rate /\ duplex' \in Duplexes
        /\ duplex'.perms = duplex.perms + 2 /\ fetched' = fetched
        /\ duplex'.byteOutputIndex = rho
    BY <1>7, ForgetEffect
  <2>2. rho' = rho /\ rho \in Nat
    BY <2>1, RunningFacts, BlockInRate
  <2>3. GivenUpTo(fetched, rho, duplex.perms + 2, rho)
    <3>1. GivenUpTo(fetched, rho, duplex.perms, duplex.byteOutputIndex)
      BY <2>1 DEF OutputInv
    <3>2. duplex.perms + 2 \in Nat /\ duplex.perms + 2 > duplex.perms
      BY <1>0
    <3> QED BY <1>0, <2>2, <3>1, <3>2, GivenStays, SMTT(30)
  <2>4. ~(duplex'.byteOutputIndex < rho')
    BY <2>1, <2>2
  <2> QED BY <2>1, <2>2, <2>3, <2>4 DEF OutputInv, PendingSeedHidesOutput
<1>8. CASE UNCHANGED vars
  BY <1>8 DEF vars, OutputInv, PendingSeedHidesOutput, rho
<1> QED BY <1>1, <1>2, <1>3, <1>4, <1>5, <1>6, <1>7, <1>8 DEF Next

\* While seed is queued the output index that the generator sets leaves nothing
\* to give, and the bytes fetched are those the index has passed.
THEOREM PRGOutputInvariant == Spec => []OutputInv
<1>1. Init => OutputInv
  BY InitOutput
<1>2. TypesInv /\ OutputInv /\ [Next]_vars => OutputInv'
  BY NextOutput
<1> QED BY <1>1, <1>2, PRGTypesInvariant, PTL DEF Spec

\* Every byte fetched is a byte of the output of a permutation with no input
\* added to it, and no place of the output is given twice.
THEOREM PRGOutputIsFresh == Spec => []OutputIsFresh
<1>1. TypesInv /\ OutputInv => OutputIsFresh
  <2> SUFFICES ASSUME TypesInv, OutputInv PROVE OutputIsFresh
    OBVIOUS
  <2>1. CASE duplex.rate = 0
    BY <2>1 DEF OutputInv, OutputIsFresh
  <2>2. CASE duplex.rate # 0
    <3>1. GivenUpTo(fetched, rho, duplex.perms, duplex.byteOutputIndex)
      BY <2>2 DEF OutputInv
    <3> QED BY <3>1 DEF GivenUpTo, OutputIsFresh
  <2> QED BY <2>1, <2>2
<1> QED BY <1>1, PRGTypesInvariant, PRGOutputInvariant, PTL

-----------------------------------------------------------------------------
(* Every seed byte is taken once, in order, and before the output it is to  *)
(* influence.                                                               *)

InputOf(byte) == {t \in byte : t[1] = "in"}

\* The seed byte at offset p, if one has been queued there.
QueuedSeed(D, f, p) ==
  IF p < D.byteInputIndex THEN {<<"in", f - D.byteInputIndex + p + 1>>} ELSE {}

\* What D has queued is the last of the f seed bytes fed.
PendingIn(D, f) ==
  /\ D.byteInputIndex <= f
  /\ \A p \in Offsets : InputOf(D.state[p]) = QueuedSeed(D, f, p)

\* The places A hold seed bytes 1 to n, in this order, before permutation e.
AbsorbedUpTo(A, e, n) ==
  /\ \A m \in A : m[1] \in Nat /\ m[1] < e /\ m[2] \in Nat /\ m[3] \in 1 .. n
  /\ \A i \in 1 .. n : \E m \in A : m[3] = i
  /\ \A l, m \in A : l[3] < m[3] <=> Before(l, m)

SeedInv ==
  /\ PendingIn(duplex, fed)
  /\ AbsorbedUpTo(absorbed, duplex.perms, fed - duplex.byteInputIndex)
  /\ SeedInfluencesOutput

LEMMA PermutedHoldsNoSeed ==
  ASSUME NEW D \in Duplexes, NEW e \in Nat, D.state = Permuted(e),
         D.byteInputIndex = 0, NEW f \in Nat
  PROVE  PendingIn(D, f)
<1>1. ASSUME NEW p \in Offsets PROVE InputOf(D.state[p]) = QueuedSeed(D, f, p)
  <2>1. D.state[p] = {<<"out", e, p>>}
    BY DEF Permuted
  <2> QED BY <2>1, OffsetsType DEF InputOf, QueuedSeed
<1> QED BY <1>1 DEF PendingIn

LEMMA QueueSeed ==
  ASSUME NEW D \in Duplexes, fed \in Nat, PendingIn(D, fed), NEW n \in Nat
  PROVE  PendingIn(AddInput(D, NextSeed(n)), fed + n)
<1> PICK E : E = AddInput(D, NextSeed(n))
  OBVIOUS
<1>0. NextSeed(n) \in Seq(Byte) /\ Len(NextSeed(n)) = n
  BY NextSeedType
<1>1. /\ E.byteInputIndex = D.byteInputIndex + n
      /\ E.state = [p \in Offsets |->
           IF p - D.byteInputIndex \in 0 .. n - 1
             THEN Xor(D.state[p], NextSeed(n)[p - D.byteInputIndex + 1])
             ELSE D.state[p]]
  <2>1. /\ E.byteInputIndex = D.byteInputIndex + Len(NextSeed(n))
        /\ E.state = [p \in Offsets |->
             IF p - D.byteInputIndex \in 0 .. Len(NextSeed(n)) - 1
               THEN Xor(D.state[p], NextSeed(n)[p - D.byteInputIndex + 1])
               ELSE D.state[p]]
    BY <1>0, AddInputFields
  <2> QED BY <1>0, <2>1
<1>2. D.byteInputIndex \in Nat /\ D.byteInputIndex <= fed
  BY DEF Duplexes, PendingIn
<1>3. ASSUME NEW p \in Offsets
      PROVE  InputOf(E.state[p]) =
               IF p < D.byteInputIndex + n
                 THEN {<<"in", fed - D.byteInputIndex + p + 1>>} ELSE {}
  <2>0. p \in Nat
    BY OffsetsType
  <2>1. InputOf(D.state[p]) =
          IF p < D.byteInputIndex THEN {<<"in", fed - D.byteInputIndex + p + 1>>} ELSE {}
    BY DEF PendingIn, QueuedSeed
  <2>2. CASE p - D.byteInputIndex \in 0 .. n - 1
    <3>1. ~(p < D.byteInputIndex) /\ p < D.byteInputIndex + n
          /\ p - D.byteInputIndex + 1 \in 1 .. n
      BY <1>2, <2>0, <2>2
    <3>2. fed + (p - D.byteInputIndex + 1) = fed - D.byteInputIndex + p + 1
      BY <1>2, <2>0
    <3>3. NextSeed(n)[p - D.byteInputIndex + 1] = {<<"in", fed - D.byteInputIndex + p + 1>>}
      BY <3>1, <3>2 DEF NextSeed
    <3>4. E.state[p] = Xor(D.state[p], {<<"in", fed - D.byteInputIndex + p + 1>>})
      BY <1>1, <2>2, <3>3
    <3>5. InputOf(D.state[p]) = {}
      BY <2>1, <3>1
    <3>6. \A A, i : InputOf(A) = {} => InputOf(Xor(A, {<<"in", i>>})) = {<<"in", i>>}
      BY DEF InputOf, Xor
    <3> QED BY <3>1, <3>4, <3>5, <3>6
  <2>3. CASE ~(p - D.byteInputIndex \in 0 .. n - 1)
    <3>1. p < D.byteInputIndex <=> p < D.byteInputIndex + n
      BY <1>2, <2>0, <2>3
    <3> QED BY <1>1, <2>1, <2>3, <3>1
  <2> QED BY <2>2, <2>3
<1>4. (fed + n) - (D.byteInputIndex + n) = fed - D.byteInputIndex
      /\ D.byteInputIndex + n <= fed + n
  BY <1>2
<1>5. PendingIn(E, fed + n)
  <2>1. E.byteInputIndex <= fed + n /\ (fed + n) - E.byteInputIndex = fed - D.byteInputIndex
    BY <1>1, <1>4
  <2>2. ASSUME NEW p \in Offsets
        PROVE  InputOf(E.state[p]) = QueuedSeed(E, fed + n, p)
    <3>1. (fed + n) - E.byteInputIndex + p + 1 = fed - D.byteInputIndex + p + 1
      BY <2>1
    <3>2. p < E.byteInputIndex <=> p < D.byteInputIndex + n
      BY <1>1
    <3>3. CASE p < D.byteInputIndex + n
      <4>1. InputOf(E.state[p]) = {<<"in", fed - D.byteInputIndex + p + 1>>}
        BY <1>3, <3>3
      <4>2. QueuedSeed(E, fed + n, p) = {<<"in", (fed + n) - E.byteInputIndex + p + 1>>}
        BY <3>2, <3>3 DEF QueuedSeed
      <4> QED BY <3>1, <4>1, <4>2
    <3>4. CASE ~(p < D.byteInputIndex + n)
      BY <1>3, <3>2, <3>4 DEF QueuedSeed
    <3> QED BY <3>3, <3>4
  <2> QED BY ONLY <2>1, <2>2 DEF PendingIn
<1> QED BY <1>5

\* Permuting what is queued takes it.
LEMMA AbsorbPending ==
  ASSUME NEW D \in Duplexes, NEW f \in Nat, PendingIn(D, f),
         D.byteInputIndex <= Width \div 8, DuplexWidth,
         NEW A, AbsorbedUpTo(A, D.perms, f - D.byteInputIndex)
  PROVE  AbsorbedUpTo(A \cup SeedsIn(D), D.perms + 1, f)
<1> DEFINE n == D.byteInputIndex
           N == SeedsIn(D)
<1>1. n \in Nat /\ D.perms \in Nat /\ n <= f /\ Width \in Nat
  BY DuplexWidth DEF Duplexes, PendingIn
<1>2. ASSUME NEW m \in N
      PROVE  \E p \in 0 .. n - 1 : m = <<D.perms, p, f - n + p + 1>>
  <2>0. PICK p \in Offsets :
          \E s \in {t \in D.state[p] : t[1] = "in"} : m = <<D.perms, p, s[2]>>
    BY DEF SeedsIn, N
  <2>1. PICK s \in {t \in D.state[p] : t[1] = "in"} : m = <<D.perms, p, s[2]>>
    BY <2>0
  <2>2. s \in InputOf(D.state[p]) /\ p \in Nat
    BY OffsetsType DEF InputOf
  <2>3. p < n /\ s = <<"in", f - n + p + 1>>
    <3>1. InputOf(D.state[p]) = IF p < n THEN {<<"in", f - n + p + 1>>} ELSE {}
      BY DEF PendingIn, QueuedSeed
    <3> QED BY <2>2, <3>1
  <2>4. p \in 0 .. n - 1 /\ m = <<D.perms, p, f - n + p + 1>>
    BY <1>1, <2>1, <2>2, <2>3
  <2> QED BY <2>4
<1>3. ASSUME NEW p \in 0 .. n - 1
      PROVE  <<D.perms, p, f - n + p + 1>> \in N
  <2>1. p \in Offsets /\ p < n
    BY <1>1, SMT DEF Offsets
  <2>2. InputOf(D.state[p]) = {<<"in", f - n + p + 1>>}
    BY <2>1 DEF PendingIn, QueuedSeed
  <2>3. <<"in", f - n + p + 1>> \in {t \in D.state[p] : t[1] = "in"}
    BY <2>2 DEF InputOf
  <2> QED BY <2>1, <2>3 DEF SeedsIn
<1> HIDE DEF n, N
<1>4. AbsorbedUpTo(A, D.perms, f - n)
  BY DEF n
<1>5. ASSUME NEW m \in A \cup N
      PROVE  m[1] \in Nat /\ m[1] < D.perms + 1 /\ m[2] \in Nat /\ m[3] \in 1 .. f
  <2>1. CASE m \in A
    BY <1>1, <1>4, <2>1 DEF AbsorbedUpTo
  <2>2. CASE m \in N
    BY <1>1, <1>2, <2>2
  <2> QED BY <2>1, <2>2
<1>6. ASSUME NEW i \in 1 .. f PROVE \E m \in A \cup N : m[3] = i
  <2>1. CASE i <= f - n
    <3>1. i \in 1 .. f - n
      BY <1>1, <2>1
    <3> QED BY <1>4, <3>1 DEF AbsorbedUpTo
  <2>2. CASE i > f - n
    <3> DEFINE p == i - (f - n) - 1
    <3>1. p \in 0 .. n - 1 /\ f - n + p + 1 = i
      BY <1>1, <2>2
    <3> HIDE DEF p
    <3>2. <<D.perms, p, i>> \in N
      BY <1>3, <3>1
    <3> QED BY <3>2
  <2> QED BY <1>1, <2>1, <2>2
<1>7. ASSUME NEW l \in A \cup N, NEW m \in A \cup N
      PROVE  l[3] < m[3] <=> Before(l, m)
  <2>1. CASE l \in A /\ m \in A
    BY <1>4, <2>1 DEF AbsorbedUpTo
  <2>2. CASE l \in A /\ m \in N
    <3>1. l[1] \in Nat /\ l[1] < D.perms /\ l[3] \in 1 .. f - n
      BY <1>4, <2>2 DEF AbsorbedUpTo
    <3>2. PICK p \in 0 .. n - 1 : m = <<D.perms, p, f - n + p + 1>>
      BY <1>2, <2>2
    <3>3. m[1] = D.perms /\ m[3] = f - n + p + 1
      BY <3>2
    <3> QED BY <1>1, <3>1, <3>3 DEF Before
  <2>3. CASE l \in N /\ m \in A
    <3>1. m[1] \in Nat /\ m[1] < D.perms /\ m[3] \in 1 .. f - n
      BY <1>4, <2>3 DEF AbsorbedUpTo
    <3>2. PICK p \in 0 .. n - 1 : l = <<D.perms, p, f - n + p + 1>>
      BY <1>2, <2>3
    <3>3. l[1] = D.perms /\ l[3] = f - n + p + 1
      BY <3>2
    <3> QED BY <1>1, <3>1, <3>3 DEF Before
  <2>4. CASE l \in N /\ m \in N
    <3>1. PICK p \in 0 .. n - 1 : l = <<D.perms, p, f - n + p + 1>>
      BY <1>2, <2>4
    <3>2. PICK q \in 0 .. n - 1 : m = <<D.perms, q, f - n + q + 1>>
      BY <1>2, <2>4
    <3>3. /\ l[1] = D.perms /\ l[2] = p /\ l[3] = f - n + p + 1
          /\ m[1] = D.perms /\ m[2] = q /\ m[3] = f - n + q + 1
      BY <3>1, <3>2
    <3> QED BY <1>1, <3>3 DEF Before
  <2> QED BY <2>1, <2>2, <2>3, <2>4
<1>8. AbsorbedUpTo(A \cup N, D.perms + 1, f)
  BY <1>5, <1>6, <1>7 DEF AbsorbedUpTo
<1> QED BY <1>8 DEF N

\* The queue never holds more than a block, which the state has room for.
LEMMA QueueInState ==
  ASSUME TypesInv
  PROVE  duplex.byteInputIndex <= Width \div 8 /\ duplex.byteInputIndex \in Nat
         /\ rho <= Width \div 8
<1>1. CASE duplex.rate = 0
  <2>1. rho = (0 - 2) \div 8 /\ duplex.rate = 0
    BY <1>1 DEF rho, BlockSize
  <2>2. (0 - 2) \div 8 \in Int /\ Width \div 8 \in Nat /\ (0 - 2) \div 8 <= Width \div 8
    BY DuplexWidth, SMT
  <2>3. duplex.byteInputIndex = 0
    BY <1>1 DEF TypesInv, EmptyQueue
  <2>4. rho <= Width \div 8
    BY ONLY <2>1, <2>2
  <2>5. duplex.byteInputIndex <= Width \div 8 /\ duplex.byteInputIndex \in Nat
    BY ONLY <2>2, <2>3
  <2> QED BY <2>4, <2>5
<1>2. CASE duplex.rate # 0
  <2>1. /\ rho \in Nat \ {0} /\ rho = BlockSize(duplex.rate)
        /\ duplex.byteInputIndex \in 0 .. rho - 1
    BY <1>2, RunningFacts
  <2>2. duplex.rate \in 10 .. Width
    BY <1>2 DEF TypesInv, RateIsValid
  <2>3. BlockSize(duplex.rate) <= Width \div 8 /\ Width \div 8 \in Nat
    BY <2>2, DuplexWidth, SMT DEF BlockSize
  <2>4. rho <= Width \div 8
    BY <2>1, <2>3
  <2> QED BY ONLY <2>1, <2>3, <2>4
<1> QED BY <1>1, <1>2

\* More absorbed does not change what the bytes given out have been influenced by.
LEMMA InfluenceGrows ==
  ASSUME SeedInfluencesOutput, absorbed \subseteq absorbed', fetched' = fetched
  PROVE  SeedInfluencesOutput'
BY DEF SeedInfluencesOutput

\* Bytes given out by permutation e when all f bytes of seed were absorbed before.
LEMMA InfluenceExtends ==
  ASSUME SeedInfluencesOutput, fetched \in Seq(FetchedByte),
         NEW g \in Seq(FetchedByte), fetched' = fetched \o g,
         absorbed \subseteq absorbed', NEW e \in Nat, NEW f \in Nat,
         \A i \in 1 .. Len(g) : g[i].fed = f /\ \A s \in g[i].out.byte : s[2] = e,
         AbsorbedUpTo(absorbed', e, f)
  PROVE  SeedInfluencesOutput'
<1>1. /\ Len(fetched) \in Nat /\ Len(g) \in Nat
      /\ Len(fetched \o g) = Len(fetched) + Len(g)
      /\ \A i \in 1 .. Len(fetched) + Len(g) :
           (fetched \o g)[i] = IF i <= Len(fetched) THEN fetched[i] ELSE g[i - Len(fetched)]
  BY ConcatProperties, LenProperties
<1>2. SUFFICES ASSUME NEW k \in 1 .. Len(fetched'), NEW s \in fetched'[k].out.byte,
                      NEW i \in 1 .. fetched'[k].fed
               PROVE  \E m \in absorbed' : m[3] = i /\ m[1] < s[2]
  BY DEF SeedInfluencesOutput
<1>3. CASE k <= Len(fetched)
  <2>1. k \in 1 .. Len(fetched) /\ fetched'[k] = fetched[k]
    BY <1>1, <1>3
  <2> QED BY <2>1 DEF SeedInfluencesOutput
<1>4. CASE k > Len(fetched)
  <2>1. k - Len(fetched) \in 1 .. Len(g) /\ fetched'[k] = g[k - Len(fetched)]
    BY <1>1, <1>4
  <2>2. s[2] = e /\ i \in 1 .. f
    BY <2>1
  <2>3. PICK m \in absorbed' : m[3] = i
    BY <2>2 DEF AbsorbedUpTo
  <2>4. m[1] < e
    BY DEF AbsorbedUpTo
  <2> QED BY <2>2, <2>3, <2>4
<1>5. k <= Len(fetched) \/ k > Len(fetched)
  BY <1>1
<1> QED BY <1>3, <1>4, <1>5

LEMMA InitSeed == Init => SeedInv
<1> SUFFICES ASSUME Init PROVE SeedInv
  OBVIOUS
<1>1. /\ duplex \in Duplexes /\ duplex.state = Permuted(0) /\ duplex.byteInputIndex = 0
      /\ duplex.perms = 0 /\ fed = 0 /\ absorbed = {} /\ fetched = <<>>
  BY NewDuplexFields DEF Init, NewDuplex
<1>2. PendingIn(duplex, fed)
  BY <1>1, PermutedHoldsNoSeed
<1>3. AbsorbedUpTo(absorbed, duplex.perms, fed - duplex.byteInputIndex)
  BY <1>1 DEF AbsorbedUpTo
<1>4. SeedInfluencesOutput
  BY <1>1 DEF SeedInfluencesOutput
<1> QED BY <1>2, <1>3, <1>4 DEF SeedInv

LEMMA NextSeeds ==
  ASSUME TypesInv, OutputInv, SeedInv, [Next]_vars
  PROVE  SeedInv'
<1> USE DEF history
<1>0. /\ duplex \in Duplexes /\ fetched \in Seq(FetchedByte) /\ fed \in Nat
      /\ duplex.perms \in Nat /\ duplex.byteInputIndex \in Nat
      /\ duplex.byteInputIndex <= Width \div 8 /\ rho <= Width \div 8
      /\ PendingIn(duplex, fed) /\ SeedInfluencesOutput
      /\ AbsorbedUpTo(absorbed, duplex.perms, fed - duplex.byteInputIndex)
      /\ duplex.byteInputIndex <= fed
  BY QueueInState DEF TypesInv, TypeOK, Duplexes, SeedInv, PendingIn
<1>00. AbsorbedUpTo(absorbed \cup SeedsIn(duplex), duplex.perms + 1, fed)
  BY <1>0, AbsorbPending, DuplexWidth
<1>1. ASSUME NEW c \in Capacities, SpongePRG_Initialize(c) PROVE SeedInv'
  <2> DEFINE r == Width - c
  <2>1. r \in Nat /\ duplex.rate = 0
    BY <1>1, DuplexWidth, PRGAssumption DEF SpongePRG_Initialize
  <2>2. duplex' = NewDuplex(r) /\ UNCHANGED <<call, error, history>>
    BY <1>1 DEF SpongePRG_Initialize
  <2>3. duplex' \in Duplexes /\ duplex'.state = Permuted(0) /\ duplex'.byteInputIndex = 0
        /\ duplex'.perms = 0
    BY <2>1, <2>2, NewDuplexFields DEF NewDuplex
  <2>4. PendingIn(duplex', fed')
    BY <1>0, <2>2, <2>3, PermutedHoldsNoSeed
  <2>5. duplex.perms = 0 /\ duplex.byteInputIndex = 0
    BY <2>1 DEF TypesInv, EmptyQueue
  <2>6. AbsorbedUpTo(absorbed', duplex'.perms, fed' - duplex'.byteInputIndex)
    BY <1>0, <2>2, <2>3, <2>5
  <2>7. SeedInfluencesOutput'
    BY <1>0, <2>2, InfluenceGrows
  <2> QED BY <2>4, <2>6, <2>7 DEF SeedInv
<1>2. ASSUME NEW n \in 0 .. MaxSeed, SpongePRG_Feed(n) PROVE SeedInv'
  BY <1>2 DEF SpongePRG_Feed, SeedInv, SeedInfluencesOutput, PendingIn, QueuedSeed
<1>3. ASSUME FeedBlock PROVE SeedInv'
  <2> DEFINE L == rho - duplex.byteInputIndex
             D == AddInput(duplex, NextSeed(L))
  <2>1. /\ duplex.rate # 0 /\ L \in 1 .. rho /\ D \in Duplexes
        /\ duplex' \in Duplexes /\ duplex'.perms = duplex.perms + 1
        /\ duplex'.state = Permuted(duplex.perms + 1) /\ duplex'.byteInputIndex = 0
        /\ fed' = fed + L /\ absorbed' = absorbed \cup SeedsIn(D)
        /\ fetched' = fetched
    BY <1>3, FeedBlockEffect
  <2>2. rho \in Nat \ {0} /\ L \in Nat /\ NextSeed(L) \in Seq(Byte) /\ Len(NextSeed(L)) = L
    <3>1. rho \in Nat \ {0}
      BY <2>1, RunningFacts
    <3>2. L \in Nat
      BY <2>1, <3>1
    <3>3. NextSeed(L) \in Seq(Byte) /\ Len(NextSeed(L)) = L
      BY ONLY <1>0, <3>2, NextSeedType
    <3> QED BY <3>1, <3>2, <3>3
  <2>3. D.perms = duplex.perms /\ D.byteInputIndex = rho
    <3>1. D.perms = duplex.perms /\ D.byteInputIndex = duplex.byteInputIndex + Len(NextSeed(L))
      BY <1>0, <2>2, AddInputFields
    <3> QED BY <1>0, <2>2, <3>1
  <2>4. PendingIn(D, fed + L)
    BY <1>0, <2>2, QueueSeed
  <2> HIDE DEF D
  <2>5. AbsorbedUpTo(absorbed \cup SeedsIn(D), D.perms + 1, fed + L)
    <3>1. (fed + L) - D.byteInputIndex = fed - duplex.byteInputIndex /\ fed + L \in Nat
      BY <1>0, <2>2, <2>3, SMTT(30)
    <3>2. AbsorbedUpTo(absorbed, D.perms, (fed + L) - D.byteInputIndex)
      BY <1>0, <2>3, <3>1
    <3>3. D.byteInputIndex <= Width \div 8
      BY <1>0, <2>3
    <3> QED BY <2>1, <2>4, <3>1, <3>2, <3>3, DuplexWidth, AbsorbPending
  <2> HIDE DEF L
  <2>6. fed' \in Nat /\ fed' - duplex'.byteInputIndex = fed' /\ duplex.perms + 1 \in Nat
    BY <1>0, <2>1, <2>2
  <2>7. PendingIn(duplex', fed')
    BY <2>1, <2>6, PermutedHoldsNoSeed
  <2>8. AbsorbedUpTo(absorbed', duplex'.perms, fed' - duplex'.byteInputIndex)
    BY <2>1, <2>3, <2>5, <2>6
  <2>9. SeedInfluencesOutput'
    BY <1>0, <2>1, InfluenceGrows
  <2> QED BY <2>7, <2>8, <2>9 DEF SeedInv
<1>4. ASSUME FeedRest PROVE SeedInv'
  <2> DEFINE D == AddInput(duplex, NextSeed(call.left))
  <2>1. /\ call.left \in Nat /\ duplex'.perms = duplex.perms
        /\ NextSeed(call.left) \in Seq(Byte) /\ Len(NextSeed(call.left)) = call.left
        /\ duplex'.state = D.state
        /\ duplex'.byteInputIndex = duplex.byteInputIndex + call.left
        /\ fed' = fed + call.left /\ absorbed' = absorbed /\ fetched' = fetched
    BY <1>4, FeedRestEffect
  <2>2. D.byteInputIndex = duplex.byteInputIndex + call.left
    <3>1. D.byteInputIndex = duplex.byteInputIndex + Len(NextSeed(call.left))
      BY <1>0, <2>1, AddInputFields
    <3> QED BY <2>1, <3>1
  <2>3. PendingIn(D, fed + call.left)
    BY <1>0, <2>1, QueueSeed
  <2> HIDE DEF D
  <2>4. PendingIn(duplex', fed')
    BY <2>1, <2>2, <2>3 DEF PendingIn, QueuedSeed
  <2>5. fed' - duplex'.byteInputIndex = fed - duplex.byteInputIndex
    BY <1>0, <2>1
  <2>6. AbsorbedUpTo(absorbed', duplex'.perms, fed' - duplex'.byteInputIndex)
    BY <1>0, <2>1, <2>5
  <2>7. SeedInfluencesOutput'
    BY <1>0, <2>1, InfluenceGrows
  <2> QED BY <2>4, <2>6, <2>7 DEF SeedInv
<1>5. ASSUME NEW n \in 0 .. MaxOutput, SpongePRG_Fetch(n) PROVE SeedInv'
  <2> DEFINE L == IF duplex.byteOutputIndex < rho
                    THEN LesserOf(rho - duplex.byteOutputIndex, n) ELSE 0
             g == Fetched(duplex, L)
  <2>0. n \in Nat
    BY PRGAssumption
  <2>1. /\ duplex.rate # 0 /\ L \in 0 .. n
        /\ L > 0 => duplex.byteOutputIndex + L <= rho
        /\ duplex'.perms = duplex.perms /\ duplex'.state = duplex.state
        /\ duplex'.byteInputIndex = duplex.byteInputIndex
        /\ fetched' = fetched \o g /\ fed' = fed /\ absorbed' = absorbed
    BY <1>5, <2>0, FetchEffect
  <2>2. rho \in Nat \ {0} /\ duplex.rate \in 10 .. Width /\ duplex.byteOutputIndex \in Nat
        /\ rho = BlockSize(duplex.rate) /\ L \in Nat
    BY <2>1, RunningFacts DEF TypesInv, RateIsValid
  <2> HIDE DEF L
  <2>3. /\ g \in Seq(FetchedByte) /\ Len(g) = L
        /\ \A i \in 1 .. L :
             /\ duplex.byteOutputIndex + i - 1 \in Offsets
             /\ g[i].out.byte = duplex.state[duplex.byteOutputIndex + i - 1]
             /\ g[i].fed = fed
    <3>1. /\ duplex \in Duplexes /\ duplex.rate \in 10 .. Width /\ L \in Nat /\ fed \in Nat
          /\ L > 0 => duplex.byteOutputIndex + L <= BlockSize(duplex.rate)
      BY <1>0, <2>1, <2>2
    <3>2. BytesOfBlock(Fetched(duplex, L), duplex, L)
      BY ONLY <3>1, DuplexWidth, FetchedBytes
    <3> QED BY <3>2 DEF BytesOfBlock
  <2> HIDE DEF g
  <2>4. PendingIn(duplex', fed')
    BY <1>0, <2>1 DEF PendingIn, QueuedSeed
  <2>5. AbsorbedUpTo(absorbed', duplex'.perms, fed' - duplex'.byteInputIndex)
    BY <1>0, <2>1
  <2>6. CASE L = 0
    <3>1. fetched' = fetched
      BY <1>0, <2>1, <2>3, <2>6, EmptySeq, ConcatEmptySeq
    <3>2. SeedInfluencesOutput'
      BY <1>0, <2>1, <3>1, InfluenceGrows
    <3> QED BY <2>4, <2>5, <3>2 DEF SeedInv
  <2>7. CASE L > 0
    <3>1. duplex.byteInputIndex = 0 /\ duplex.state = Permuted(duplex.perms)
      BY <2>1, <2>2, <2>7 DEF OutputInv, PendingSeedHidesOutput
    <3>2. \A i \in 1 .. Len(g) : g[i].fed = fed /\ \A s \in g[i].out.byte : s[2] = duplex.perms
      <4>1. \A p \in Offsets : \A s \in duplex.state[p] : s[2] = duplex.perms
        BY <3>1 DEF Permuted
      <4> QED BY <2>3, <4>1
    <3>3. AbsorbedUpTo(absorbed', duplex.perms, fed)
      <4>1. fed - duplex.byteInputIndex = fed
        BY <1>0, <3>1
      <4> QED BY <1>0, <2>1, <4>1
    <3>4. SeedInfluencesOutput'
      BY <1>0, <2>1, <2>3, <3>2, <3>3, InfluenceExtends
    <3> QED BY <2>4, <2>5, <3>4 DEF SeedInv
  <2> QED BY <2>2, <2>6, <2>7
<1>6. ASSUME FetchBlock PROVE SeedInv'
  <2> DEFINE L == LesserOf(rho, call.left)
             D == Step(duplex)
             g == Fetched(D, L)
  <2>1. /\ duplex.rate # 0 /\ L \in 1 .. rho
        /\ D \in Duplexes /\ D.rate = duplex.rate
        /\ D.perms = duplex.perms + 1 /\ D.state = Permuted(duplex.perms + 1)
        /\ D.byteOutputIndex = 0
        /\ duplex' \in Duplexes /\ duplex'.perms = duplex.perms + 1
        /\ duplex'.state = Permuted(duplex.perms + 1) /\ duplex'.byteInputIndex = 0
        /\ fetched' = fetched \o g /\ absorbed' = absorbed \cup SeedsIn(duplex)
        /\ fed' = fed
    BY <1>6, FetchBlockEffect
  <2>2. rho \in Nat \ {0} /\ duplex.rate \in 10 .. Width
        /\ rho = BlockSize(duplex.rate)
    BY <2>1, RunningFacts DEF TypesInv, RateIsValid
  <2> HIDE DEF L, D
  <2>3. /\ g \in Seq(FetchedByte) /\ Len(g) = L
        /\ \A i \in 1 .. L :
             /\ D.byteOutputIndex + i - 1 \in Offsets
             /\ g[i].out.byte = D.state[D.byteOutputIndex + i - 1]
             /\ g[i].fed = fed
    <3>1. /\ D \in Duplexes /\ D.rate \in 10 .. Width /\ L \in Nat /\ fed \in Nat
          /\ D.byteOutputIndex + L <= BlockSize(D.rate)
      BY <1>0, <2>1, <2>2
    <3>2. BytesOfBlock(Fetched(D, L), D, L)
      BY ONLY <3>1, DuplexWidth, FetchedBytes
    <3> QED BY <3>2 DEF BytesOfBlock
  <2> HIDE DEF g
  <2>4. duplex.perms + 1 \in Nat /\ fed' - duplex'.byteInputIndex = fed
    BY <1>0, <2>1
  <2>5. PendingIn(duplex', fed')
    BY <1>0, <2>1, <2>4, PermutedHoldsNoSeed
  <2>6. AbsorbedUpTo(absorbed', duplex'.perms, fed' - duplex'.byteInputIndex)
    BY <1>00, <2>1, <2>4
  <2>7. \A i \in 1 .. Len(g) : g[i].fed = fed /\ \A s \in g[i].out.byte : s[2] = duplex.perms + 1
    <3>1. \A p \in Offsets : \A s \in D.state[p] : s[2] = duplex.perms + 1
      BY <2>1 DEF Permuted
    <3> QED BY <2>3, <3>1
  <2>8. SeedInfluencesOutput'
    <3>1. absorbed \subseteq absorbed' /\ AbsorbedUpTo(absorbed', duplex.perms + 1, fed)
      BY <1>00, <2>1
    <3> QED BY <1>0, <2>1, <2>3, <2>4, <2>7, <3>1, InfluenceExtends
  <2> QED BY <2>5, <2>6, <2>8 DEF SeedInv
<1>7. ASSUME SpongePRG_Forget PROVE SeedInv'
  <2>1. /\ duplex' \in Duplexes /\ duplex'.perms = duplex.perms + 2
        /\ duplex'.state = Permuted(duplex.perms + 2) /\ duplex'.byteInputIndex = 0
        /\ absorbed' = absorbed \cup SeedsIn(duplex) /\ fed' = fed /\ fetched' = fetched
    BY <1>7, ForgetEffect
  <2>2. duplex.perms + 2 \in Nat /\ fed' - duplex'.byteInputIndex = fed
    BY <1>0, <2>1
  <2>3. PendingIn(duplex', fed')
    BY <1>0, <2>1, <2>2, PermutedHoldsNoSeed
  <2>4. AbsorbedUpTo(absorbed', duplex.perms + 2, fed)
    <3>1. \A i \in Nat : i < duplex.perms + 1 => i < duplex.perms + 2
      BY <1>0
    <3> QED BY <1>00, <2>1, <3>1 DEF AbsorbedUpTo
  <2>5. SeedInfluencesOutput'
    BY <1>0, <2>1, InfluenceGrows
  <2> QED BY <2>1, <2>2, <2>3, <2>4, <2>5 DEF SeedInv
<1>8. CASE UNCHANGED vars
  <2>1. PendingIn(duplex, fed)' /\ SeedInfluencesOutput'
    BY <1>8 DEF vars, SeedInv, SeedInfluencesOutput, PendingIn, QueuedSeed
  <2>2. AbsorbedUpTo(absorbed, duplex.perms, fed - duplex.byteInputIndex)'
    BY <1>8 DEF vars, SeedInv
  <2> QED BY <2>1, <2>2 DEF SeedInv
<1> QED BY <1>1, <1>2, <1>3, <1>4, <1>5, <1>6, <1>7, <1>8 DEF Next

\* The queue holds the seed bytes fed but not yet absorbed, those and no other.
THEOREM PRGSeedInvariant == Spec => []SeedInv
<1>1. Init => SeedInv
  BY InitSeed
<1>2. TypesInv /\ OutputInv /\ SeedInv /\ [Next]_vars => SeedInv'
  BY NextSeeds
<1> QED BY <1>1, <1>2, PRGTypesInvariant, PRGOutputInvariant, PTL DEF Spec

\* Every seed byte enters the state once, and in the order of feeding, however
\* the calls to Feed, Fetch and Forget cut the seed.
THEOREM PRGSeedsInOrder == Spec => []SeedsInOrder
<1>1. TypesInv /\ SeedInv => SeedsInOrder
  <2> SUFFICES ASSUME TypesInv, SeedInv PROVE SeedsInOrder
    OBVIOUS
  <2> DEFINE places == absorbed \cup SeedsIn(duplex)
  <2>1. duplex \in Duplexes /\ fed \in Nat /\ duplex.byteInputIndex <= Width \div 8
    BY QueueInState DEF TypesInv, TypeOK
  <2>2. PendingIn(duplex, fed) /\ AbsorbedUpTo(absorbed, duplex.perms, fed - duplex.byteInputIndex)
    BY DEF SeedInv
  <2>3. AbsorbedUpTo(places, duplex.perms + 1, fed)
    BY <2>1, <2>2, AbsorbPending, DuplexWidth
  <2> HIDE DEF places
  <2>4. {m[3] : m \in places} = 1 .. fed
    BY <2>3 DEF AbsorbedUpTo
  <2>5. \A m, n \in places : m[3] < n[3] <=> Before(m, n)
    BY <2>3 DEF AbsorbedUpTo
  <2> QED BY <2>4, <2>5 DEF SeedsInOrder, places
<1> QED BY <1>1, PRGTypesInvariant, PRGSeedInvariant, PTL

\* What is given out comes after a permutation that has taken all the seed fed
\* before.
THEOREM PRGSeedInfluencesOutput == Spec => []SeedInfluencesOutput
<1>1. SeedInv => SeedInfluencesOutput
  BY DEF SeedInv
<1> QED BY <1>1, PRGSeedInvariant, PTL

-----------------------------------------------------------------------------
(* What was fetched before Forget cannot be computed back.                  *)

ForgetInv == reach <= duplex.perms /\ ForgetIsIrreversible

\* A byte given out comes from a permutation already made.
LEMMA GivenByPast ==
  ASSUME TypesInv, OutputInv, NEW k \in 1 .. Len(fetched), NEW s \in fetched[k].out.byte
  PROVE  s[2] \in Nat /\ s[2] <= duplex.perms
<1>1. duplex.perms \in Nat
  BY DEF TypesInv, TypeOK
<1>2. duplex.rate # 0
  <2>1. duplex.rate = 0 => Len(fetched) = 0
    BY EmptySeq DEF OutputInv
  <2> QED BY <2>1
<1>3. \E d \in 1 .. duplex.perms, p \in 0 .. rho - 1 : fetched[k].out.byte = {<<"out", d, p>>}
  BY <1>2 DEF OutputInv, GivenUpTo
<1>4. PICK d \in 1 .. duplex.perms : \E p \in 0 .. rho - 1 : fetched[k].out.byte = {<<"out", d, p>>}
  BY <1>3
<1>5. PICK p \in 0 .. rho - 1 : fetched[k].out.byte = {<<"out", d, p>>}
  BY <1>4
<1>6. s[2] = d
  BY <1>5
<1> QED BY <1>1, <1>4, <1>6

\* The reach only grows, and what is forgotten stays so when more is fetched.
LEMMA ForgottenStays ==
  ASSUME TypesInv, OutputInv, ForgetInv, forgotten' = forgotten,
         NEW g \in Seq(FetchedByte), fetched' = fetched \o g,
         reach' \in Nat, reach <= reach'
  PROVE  ForgetIsIrreversible'
<1>1. fetched \in Seq(FetchedByte) /\ forgotten \in 0 .. Len(fetched) /\ reach \in Nat
  BY DEF TypesInv, TypeOK
<1>2. /\ Len(fetched) \in Nat
      /\ \A i \in 1 .. Len(fetched) : (fetched \o g)[i] = fetched[i]
  BY <1>1, ConcatProperties, LenProperties
<1>3. SUFFICES ASSUME NEW k \in 1 .. forgotten', NEW s \in fetched'[k].out.byte
               PROVE  s[2] < reach'
  BY DEF ForgetIsIrreversible
<1>4. k \in 1 .. forgotten /\ k \in 1 .. Len(fetched) /\ fetched'[k] = fetched[k]
  BY <1>1, <1>2
<1>5. s[2] < reach /\ s[2] \in Nat
  BY <1>4, GivenByPast DEF ForgetInv, ForgetIsIrreversible
<1> QED BY <1>1, <1>5

\* Overwriting a block of at least the capacity makes the permutation one way.
LEMMA ErasedBlock ==
  ASSUME TypesInv, BlockErasesCapacity, duplex.rate # 0,
         NEW E \in Duplexes, E.rate = duplex.rate,
         \A p \in Offsets : p < rho => E.state[p] = {}
  PROVE  ReachAfter(E) = E.perms + 1
<1> DEFINE overwritten == {p \in Offsets : \A s \in E.state[p] : s[1] # "out"}
<1>1. rho \in Nat \ {0} /\ duplex.rate \in Nat /\ rho <= Width \div 8 /\ Width \in Nat
  BY RunningFacts, QueueInState, DuplexWidth DEF Duplexes
<1>2. IsFiniteSet(Offsets)
  <2>1. Width \div 8 \in Int
    BY <1>1, SMT
  <2>2. Width \div 8 - 1 \in Int
    BY <2>1
  <2> QED BY <2>2, FS_Interval DEF Offsets
<1>3. IsFiniteSet(overwritten)
  BY <1>2, FS_Subset
<1>4. 0 .. rho - 1 \subseteq overwritten
  <2>1. \A p \in 0 .. rho - 1 : p \in Offsets
    <3>1. Width \div 8 \in Int
      BY <1>1, SMT
    <3> QED BY <1>1, <3>1 DEF Offsets
  <2>2. \A p \in 0 .. rho - 1 : p < rho
    BY <1>1
  <2>3. \A p \in 0 .. rho - 1 : E.state[p] = {}
    BY <2>1, <2>2
  <2> QED BY <2>1, <2>3
<1>5. Cardinality(0 .. rho - 1) = rho
  <2>1. 0 \in Int /\ rho - 1 \in Int /\ 0 <= rho - 1 /\ rho - 1 - 0 + 1 = rho
    BY <1>1
  <2> QED BY <2>1, FS_Interval
<1> HIDE DEF overwritten
<1>6. rho <= Cardinality(overwritten) /\ Cardinality(overwritten) \in Nat
  <2>1. Cardinality(0 .. rho - 1) <= Cardinality(overwritten)
    BY ONLY <1>3, <1>4, FS_Subset
  <2>2. Cardinality(overwritten) \in Nat
    BY ONLY <1>3, FS_CardinalityType
  <2> QED BY ONLY <1>5, <2>1, <2>2
<1>7. 8 * Cardinality(overwritten) >= Width - E.rate
  BY <1>1, <1>6 DEF BlockErasesCapacity
<1> QED BY <1>7 DEF ReachAfter, overwritten

LEMMA NextForget ==
  ASSUME TypesInv, OutputInv, ForgetInv, [Next]_vars
  PROVE  ForgetInv'
<1> USE DEF history
<1>0. /\ duplex \in Duplexes /\ duplex.perms \in Nat /\ reach \in Nat /\ fetched \in Seq(FetchedByte)
      /\ reach <= duplex.perms /\ duplex.perms + 1 \in Nat
      /\ fetched = fetched \o <<>> /\ <<>> \in Seq(FetchedByte)
  BY EmptySeq, ConcatEmptySeq DEF TypesInv, TypeOK, ForgetInv
<1>1. ASSUME NEW c \in Capacities, SpongePRG_Initialize(c) PROVE ForgetInv'
  <2>1. /\ duplex.rate = 0 /\ duplex' = NewDuplex(Width - c)
        /\ UNCHANGED <<call, error, history>>
    BY <1>1 DEF SpongePRG_Initialize
  <2>2. reach = 0 /\ duplex'.perms = 0
    <3>1. duplex.perms = 0
      BY <2>1 DEF TypesInv, EmptyQueue
    <3> QED BY <1>0, <2>1, <3>1 DEF NewDuplex
  <2> QED BY <2>1, <2>2 DEF ForgetInv, ForgetIsIrreversible
<1>2. ASSUME NEW n \in 0 .. MaxSeed, SpongePRG_Feed(n) PROVE ForgetInv'
  BY <1>2 DEF SpongePRG_Feed, ForgetInv, ForgetIsIrreversible
<1>3. ASSUME FeedBlock PROVE ForgetInv'
  <2> DEFINE L == rho - duplex.byteInputIndex
             D == AddInput(duplex, NextSeed(L))
  <2>1. /\ duplex.rate # 0 /\ L \in 1 .. rho /\ D \in Duplexes
        /\ duplex'.perms = duplex.perms + 1 /\ reach' = ReachAfter(D)
        /\ UNCHANGED <<error, fetched, forgotten>>
    BY <1>3, FeedBlockEffect
  <2>2. D.perms = duplex.perms
    <3>1. rho \in Nat \ {0}
      BY <2>1, RunningFacts
    <3>2. L \in Nat /\ fed \in Nat
      BY <2>1, <3>1 DEF TypesInv, TypeOK
    <3>3. NextSeed(L) \in Seq(Byte)
      BY ONLY <3>2, NextSeedType
    <3> QED BY <1>0, <3>3, AddInputFields
  <2> HIDE DEF D
  <2>3. reach' \in {reach, duplex.perms + 1}
    BY <1>0, <2>1, <2>2, ReachType
  <2>4. reach' \in Nat /\ reach <= reach' /\ reach' <= duplex'.perms
    BY <1>0, <2>1, <2>3
  <2>5. ForgetIsIrreversible'
    BY <1>0, <2>1, <2>4, ForgottenStays
  <2> QED BY <2>4, <2>5 DEF ForgetInv
<1>4. ASSUME FeedRest PROVE ForgetInv'
  <2>1. duplex'.perms = duplex.perms /\ UNCHANGED <<error, absorbed, fetched, reach, forgotten>>
    BY <1>4, FeedRestEffect
  <2> QED BY <2>1 DEF ForgetInv, ForgetIsIrreversible
<1>5. ASSUME NEW n \in 0 .. MaxOutput, SpongePRG_Fetch(n) PROVE ForgetInv'
  <2> DEFINE L == IF duplex.byteOutputIndex < rho
                    THEN LesserOf(rho - duplex.byteOutputIndex, n) ELSE 0
             g == Fetched(duplex, L)
  <2>0. n \in Nat
    BY PRGAssumption
  <2>1. /\ duplex.rate # 0 /\ L \in 0 .. n
        /\ L > 0 => duplex.byteOutputIndex + L <= rho
        /\ duplex'.perms = duplex.perms
        /\ fetched' = fetched \o g
        /\ UNCHANGED <<error, fed, absorbed, reach, forgotten>>
    BY <1>5, <2>0, FetchEffect
  <2>2. duplex.rate \in 10 .. Width /\ duplex.byteOutputIndex \in Nat
        /\ rho = BlockSize(duplex.rate) /\ L \in Nat /\ fed \in Nat
    BY <2>1, RunningFacts DEF TypesInv, RateIsValid
  <2> HIDE DEF L
  <2>3. g \in Seq(FetchedByte)
    <3>1. /\ duplex \in Duplexes /\ duplex.rate \in 10 .. Width /\ L \in Nat /\ fed \in Nat
          /\ L > 0 => duplex.byteOutputIndex + L <= BlockSize(duplex.rate)
      BY <1>0, <2>1, <2>2
    <3>2. BytesOfBlock(Fetched(duplex, L), duplex, L)
      BY ONLY <3>1, DuplexWidth, FetchedBytes
    <3> QED BY <3>2 DEF BytesOfBlock
  <2> HIDE DEF g
  <2>4. reach' \in Nat /\ reach <= reach' /\ reach' <= duplex'.perms
    BY <1>0, <2>1
  <2>5. ForgetIsIrreversible'
    BY <2>1, <2>3, <2>4, ForgottenStays
  <2> QED BY <2>4, <2>5 DEF ForgetInv
<1>6. ASSUME FetchBlock PROVE ForgetInv'
  <2> DEFINE L == LesserOf(rho, call.left)
             D == Step(duplex)
             g == Fetched(D, L)
  <2>1. /\ duplex.rate # 0 /\ L \in 1 .. rho
        /\ D \in Duplexes /\ D.rate = duplex.rate /\ D.byteOutputIndex = 0
        /\ duplex'.perms = duplex.perms + 1
        /\ fetched' = fetched \o g /\ reach' = ReachAfter(duplex)
        /\ UNCHANGED <<error, fed, forgotten>>
    BY <1>6, FetchBlockEffect
  <2>2. rho \in Nat \ {0} /\ duplex.rate \in 10 .. Width
        /\ rho = BlockSize(duplex.rate) /\ fed \in Nat
    BY <2>1, RunningFacts DEF TypesInv, RateIsValid
  <2> HIDE DEF L, D
  <2>3. g \in Seq(FetchedByte)
    <3>1. /\ D \in Duplexes /\ D.rate \in 10 .. Width /\ L \in Nat /\ fed \in Nat
          /\ D.byteOutputIndex + L <= BlockSize(D.rate)
      BY <1>0, <2>1, <2>2
    <3>2. BytesOfBlock(Fetched(D, L), D, L)
      BY ONLY <3>1, DuplexWidth, FetchedBytes
    <3> QED BY <3>2 DEF BytesOfBlock
  <2> HIDE DEF g
  <2>4. reach' \in {reach, duplex.perms + 1}
    BY <1>0, <2>1, ReachType
  <2>5. reach' \in Nat /\ reach <= reach' /\ reach' <= duplex'.perms
    BY <1>0, <2>1, <2>4
  <2>6. ForgetIsIrreversible'
    BY <2>1, <2>3, <2>5, ForgottenStays
  <2> QED BY <2>5, <2>6 DEF ForgetInv
<1>7. ASSUME SpongePRG_Forget PROVE ForgetInv'
  <2> DEFINE D == Step(duplex)
             E == OverwriteInput(D, Zeroes(rho))
  <2>1. /\ duplex.rate # 0 /\ BlockErasesCapacity
        /\ E \in Duplexes /\ E.rate = duplex.rate /\ E.perms = duplex.perms + 1
        /\ \A p \in Offsets : p < rho => E.state[p] = {}
        /\ duplex'.perms = duplex.perms + 2 /\ reach' = ReachAfter(E)
        /\ forgotten' = Len(fetched) /\ fetched' = fetched
    BY <1>7, ForgetEffect
  <2> HIDE DEF E
  <2>2. ReachAfter(E) = E.perms + 1
    BY <2>1, ErasedBlock
  <2>3. reach' = duplex.perms + 2
    BY <1>0, <2>1, <2>2
  <2>4. ForgetIsIrreversible'
    <3>1. SUFFICES ASSUME NEW k \in 1 .. Len(fetched), NEW s \in fetched[k].out.byte
                   PROVE  s[2] < duplex.perms + 2
      BY <2>1, <2>3 DEF ForgetIsIrreversible
    <3>2. s[2] \in Nat /\ s[2] <= duplex.perms
      BY GivenByPast
    <3> QED BY <1>0, <3>2
  <2> QED BY <1>0, <2>1, <2>3, <2>4 DEF ForgetInv
<1>8. CASE UNCHANGED vars
  BY <1>8 DEF vars, ForgetInv, ForgetIsIrreversible
<1> QED BY <1>1, <1>2, <1>3, <1>4, <1>5, <1>6, <1>7, <1>8 DEF Next

\* After SpongePRG_Forget what was fetched before cannot be computed back from
\* the state, at every rate at which Forget does not refuse.
THEOREM PRGForgetIsIrreversible == Spec => []ForgetIsIrreversible
<1>1. Init => ForgetInv
  BY DEF Init, NewDuplex, ForgetInv, ForgetIsIrreversible
<1>2. TypesInv /\ OutputInv /\ ForgetInv /\ [Next]_vars => ForgetInv'
  BY NextForget
<1>3. Spec => []ForgetInv
  BY <1>1, <1>2, PRGTypesInvariant, PRGOutputInvariant, PTL DEF Spec
<1>4. ForgetInv => ForgetIsIrreversible
  BY DEF ForgetInv
<1> QED BY <1>3, <1>4, PTL

=============================================================================
