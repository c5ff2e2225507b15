----------------------------- MODULE SpongePRG ------------------------------
(***************************************************************************)
(* The reseedable pseudo-random generator of KeccakPRG.inc, built on a     *)
(* duplex object.  Seeds are fed and output is fetched in pieces of any    *)
(* size; the loops over blocks run one iteration a step.                   *)
(*                                                                         *)
(* The generator reaches into the duplex object: it compares and sets      *)
(* byteOutputIndex itself to hide the output of a state into which seed    *)
(* bytes have been queued.                                                 *)
(***************************************************************************)
EXTENDS DuplexObject, FiniteSets

CONSTANTS
  Capacities,  \* the capacities a caller tries, in bits
  MaxSeed,     \* bound: seed bytes fed to one generator
  MaxOutput,   \* bound: bytes fetched from it
  MaxForget    \* bound: permutations after which Forget is not called again

ASSUME PRGAssumption ==
  /\ Capacities \subseteq Nat
  /\ MaxSeed \in Nat /\ MaxOutput \in Nat /\ MaxForget \in Nat

VARIABLES
  duplex,    \* instance->duplex; its rate is 0 before SpongePRG_Initialize
  call,      \* the call in progress and the bytes it still has to process
  error,     \* a call on the duplex object has been refused
  fed,       \* history: seed bytes queued so far
  absorbed,  \* history: <<e, p, i>>, permutation e + 1 took seed byte i at offset p
  fetched,   \* history: the bytes given out, each with the seed fed before
  reach,     \* history: the states before this permutation cannot be computed back
  forgotten  \* history: bytes fetched before the last SpongePRG_Forget

history == <<fed, absorbed, fetched, reach, forgotten>>
vars == <<duplex, call, error, history>>

Idle == [op |-> "none", left |-> 0]

\* Mutant: does not leave room for the padding.
BlockSizeOfRate(r) == r \div 8

\* rhoInBytes, the block size at rate r.
BlockSize(r) == (r - 2) \div 8

rho == BlockSize(duplex.rate)

\* Mutant: does nothing.
OutputIndexKept(D, i) == D

\* DuplexSetOutputIndex: the generator skips what is left of the output.
SetOutputIndex(D, i) == [D EXCEPT !.byteOutputIndex = i]

-----------------------------------------------------------------------------
\* Every call of Duplexing() the generator makes has no input, no output and
\* no trailing bits.
CanStep(D) == CanDuplex(D, 0, 0, 1)

Step(D) == AfterDuplexing(D, 0)

\* The seed bytes the state holds, each with the offset it is at.
SeedsIn(D) ==
  UNION {{<<D.perms, p, s[2]>> : s \in {t \in D.state[p] : t[1] = "in"}} : p \in Offsets}

\* What permuting D makes impossible to compute back: the bytes of the previous
\* state that were overwritten are lost, as many bits as the capacity or more.
ReachAfter(D) ==
  LET overwritten == {p \in Offsets : \A s \in D.state[p] : s[1] # "out"}
  IN  IF 8 * Cardinality(overwritten) >= Width - D.rate THEN D.perms + 1 ELSE reach

NextSeed(n) == [i \in 1 .. n |-> {<<"in", fed + i>>}]

Fetched(D, n) ==
  [i \in 1 .. n |-> [out |-> Output(D, D.byteOutputIndex, n)[i], fed |-> fed]]

Advance(count) ==
  call' = IF call.left = count THEN Idle ELSE [call EXCEPT !.left = @ - count]

\* A call on the duplex object is refused and ends the generator's call.  None
\* is ever refused (NeverRefused), so nothing follows from here.
Refuse == error' = TRUE /\ call' = Idle /\ UNCHANGED <<duplex, history>>

-----------------------------------------------------------------------------
Init ==
  /\ duplex = NewDuplex(0) /\ call = Idle /\ error = FALSE
  /\ fed = 0 /\ absorbed = {} /\ fetched = <<>> /\ reach = 0 /\ forgotten = 0

SpongePRG_Initialize(c) ==
  LET r == Width - c
  IN  /\ duplex.rate = 0
      /\ c <= Width - 10
      /\ BlockSize(r) # 0 /\ BlockSize(r) < Width \div 8
      /\ ValidRate(r, c)
      /\ duplex' = NewDuplex(r)
      /\ UNCHANGED <<call, error, history>>

Ready == duplex.rate # 0 /\ call = Idle /\ ~error

SpongePRG_Feed(n) ==
  /\ Ready /\ fed + n <= MaxSeed
  /\ call' = [op |-> "feed", left |-> n]
  /\ UNCHANGED <<duplex, error, history>>

\* Mutant: leaves a full block in the queue.
SeedOverflowsBlock == call.left > rho - duplex.byteInputIndex

\* The remaining seed fills the block.
SeedFillsBlock == call.left >= rho - duplex.byteInputIndex

\* An iteration of the loop: complete the block and permute it.
FeedBlock ==
  LET localSize == rho - duplex.byteInputIndex
      D == AddInput(duplex, NextSeed(localSize))
  IN  /\ call.op = "feed" /\ SeedFillsBlock
      /\ IF Fits(duplex, localSize) /\ CanStep(D)
           THEN /\ duplex' = Step(D)
                /\ fed' = fed + localSize
                /\ absorbed' = absorbed \cup SeedsIn(D)
                /\ reach' = ReachAfter(D)
                /\ call' = [call EXCEPT !.left = @ - localSize]
                /\ UNCHANGED <<error, fetched, forgotten>>
           ELSE Refuse

\* After the loop: queue the rest, and hide the output of the current state.
FeedRest ==
  /\ call.op = "feed" /\ ~SeedFillsBlock
  /\ IF Fits(duplex, call.left)
       THEN /\ duplex' = SetOutputIndex(AddInput(duplex, NextSeed(call.left)), rho)
            /\ fed' = fed + call.left
            /\ call' = Idle
            /\ UNCHANGED <<error, absorbed, fetched, reach, forgotten>>
       ELSE Refuse

\* First what is left of the current block.
SpongePRG_Fetch(n) ==
  LET localSize == IF duplex.byteOutputIndex < rho
                     THEN LesserOf(rho - duplex.byteOutputIndex, n) ELSE 0
  IN  /\ Ready /\ Len(fetched) + n <= MaxOutput
      /\ IF localSize = 0 \/ CanGetFurther(duplex, localSize)
           THEN /\ duplex' = AfterFurther(duplex, localSize)
                /\ fetched' = fetched \o Fetched(duplex, localSize)
                /\ call' = IF localSize = n THEN Idle
                             ELSE [op |-> "fetch", left |-> n - localSize]
                /\ UNCHANGED <<error, fed, absorbed, reach, forgotten>>
           ELSE Refuse

\* An iteration of the loop: a new block.
FetchBlock ==
  LET localSize == LesserOf(rho, call.left)
      D == Step(duplex)
  IN  /\ call.op = "fetch"
      /\ IF CanStep(duplex) /\ CanGetFurther(D, localSize)
           THEN /\ duplex' = AfterFurther(D, localSize)
                /\ fetched' = fetched \o Fetched(D, localSize)
                /\ absorbed' = absorbed \cup SeedsIn(duplex)
                /\ reach' = ReachAfter(duplex)
                /\ Advance(localSize)
                /\ UNCHANGED <<error, fed, forgotten>>
           ELSE Refuse

\* Mutant: forgets at any rate.
BlockErases == TRUE

\* Overwriting a block loses as many bits as the capacity has.
BlockErasesCapacity == 8 * rho >= Width - duplex.rate

\* Permute what is pending, overwrite a block of the state with zeroes, permute.
SpongePRG_Forget ==
  LET D == Step(duplex)
      E == OverwriteInput(D, Zeroes(rho))
  IN  /\ Ready /\ BlockErasesCapacity
      /\ duplex.perms < MaxForget
      /\ IF CanStep(duplex) /\ CanOverwriteWithZeroes(D, rho) /\ CanStep(E)
           THEN /\ duplex' = SetOutputIndex(Step(E), rho)
                /\ absorbed' = absorbed \cup SeedsIn(duplex)
                /\ reach' = ReachAfter(E)
                /\ forgotten' = Len(fetched)
                /\ UNCHANGED <<call, error, fed, fetched>>
           ELSE Refuse

Next ==
  \/ \E c \in Capacities : SpongePRG_Initialize(c)
  \/ \E n \in 0 .. MaxSeed : SpongePRG_Feed(n)
  \/ FeedBlock \/ FeedRest
  \/ \E n \in 0 .. MaxOutput : SpongePRG_Fetch(n)
  \/ FetchBlock
  \/ SpongePRG_Forget

Spec == Init /\ [][Next]_vars

-----------------------------------------------------------------------------
Byte == SUBSET (({"in", "bit"} \X Nat) \cup ({"out"} \X Nat \X Nat))

\* Between two calls on the duplex object the queue never holds a whole block,
\* so that the size of what completes it, an unsigned difference, is positive.
TypeOK ==
  /\ duplex.rate \in 0 .. Width /\ duplex.perms \in Nat
  /\ duplex.state \in [Offsets -> Byte]
  /\ duplex.rate # 0 => duplex.byteInputIndex \in 0 .. rho - 1
  /\ duplex.byteOutputIndex \in 0 .. RateBytes(duplex)
  /\ call \in [op : {"none", "feed", "fetch"}, left : Nat]
  /\ error \in BOOLEAN
  /\ fed \in Nat /\ reach \in Nat /\ forgotten \in 0 .. Len(fetched)

\* No call the generator makes on its duplex object is ever refused: neither
\* the blocks it fills, nor the output it takes, nor the block it erases is too
\* long for the rate the capacity left (KeccakPRG.inc 41-49).
NeverRefused == ~error

\* Whether the first of two places <<permutation, offset>> comes first.
Before(a, b) == a[1] < b[1] \/ (a[1] = b[1] /\ a[2] < b[2])

\* Every seed byte enters the state once, and in the order of feeding, however
\* the seed was cut in calls and whatever was fetched or forgotten in between.
SeedsInOrder ==
  LET places == absorbed \cup SeedsIn(duplex)
  IN  /\ {m[3] : m \in places} = 1 .. fed
      /\ \A m, n \in places : m[3] < n[3] <=> Before(m, n)

\* What is given out comes from a permutation that has taken all the seed fed
\* before: "feed the generator with an input seed, which will influence all
\* further outputs" (KeccakPRG-documentation.h 71-72).
SeedInfluencesOutput ==
  \A k \in 1 .. Len(fetched) : \A s \in fetched[k].out.byte : \A i \in 1 .. fetched[k].fed :
    \E m \in absorbed : m[3] = i /\ m[1] < s[2]

\* Every byte given out is a whole byte of the output of a permutation with no
\* input added to it, and no place in the output is given twice.
OutputIsFresh ==
  /\ \A k \in 1 .. Len(fetched) :
       /\ fetched[k].out.bits = 8
       /\ \E e \in 1 .. duplex.perms, p \in 0 .. rho - 1 :
            fetched[k].out.byte = {<<"out", e, p>>}
  /\ \A j, k \in 1 .. Len(fetched) : j < k =>
       \A s \in fetched[j].out.byte, t \in fetched[k].out.byte :
         Before(<<s[2], s[3]>>, <<t[2], t[3]>>)

\* After SpongePRG_Forget what was fetched before cannot be computed back from
\* the state: "even if the value of the state is leaked, an adversary cannot
\* compute outputs prior to calling this function"
\* (KeccakPRG-documentation.h 95-97).
ForgetIsIrreversible ==
  \A k \in 1 .. forgotten : \A s \in fetched[k].out.byte : s[2] < reach

=============================================================================
