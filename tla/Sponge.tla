------------------------------- MODULE Sponge -------------------------------
(***************************************************************************)
(* The message-queue interface of the sponge construction, one instance    *)
(* driven by one caller: KeccakSponge.inc, instantiated by KeccakSponge.c  *)
(* for every Keccak-p width and by TurboSHAKE.c for 12 rounds.             *)
(*                                                                         *)
(* The caller cuts its message and its output request in pieces of any     *)
(* size.  A call runs a loop over the blocks its piece touches; every      *)
(* iteration is a step here, so that what holds between two iterations is  *)
(* also said.                                                              *)
(***************************************************************************)
EXTENDS SpongeFunction, Sequences

CONSTANTS
  Width,        \* SnP_width: the width of the permutation in bits
  Rates,        \* the rates and the capacities
  Capacities,   \* a caller tries, in bits
  Delimiters,   \* the delimitedData bytes a caller passes
  MaxInput,     \* bound: message bytes given to one instance
  MaxOutput     \* bound: output bytes asked of one instance

ASSUME SpongeAssumption ==
  /\ Width \in Nat \ {0}
  /\ Rates \subseteq Nat /\ Capacities \subseteq Nat
  /\ Delimiters \subseteq 1 .. 255
  /\ MaxInput \in Nat
  /\ MaxOutput \in Nat

VARIABLES
  rate,         \* instance->rate; 0 until SpongeInitialize has succeeded
  byteIOIndex,  \* instance->byteIOIndex
  squeezing,    \* instance->squeezing
  perms,        \* permutations applied to instance->state
  marks,        \* what has been XORed into instance->state
  call,         \* the call in progress and the bytes it still has to process
  absorbed,     \* history: message bytes absorbed since SpongeInitialize
  delimiter,    \* history: the delimiter that ended the message, 0 before
  output        \* history: the bytes delivered since SpongeInitialize

instance == <<rate, byteIOIndex, squeezing, perms, marks>>
history  == <<absorbed, delimiter, output>>
vars     == <<instance, call, history>>

Idle == [op |-> "none", left |-> 0]

-----------------------------------------------------------------------------
(* The state of the permutation and what is written into it.               *)

\* SnP_AddBytes: message bytes first, first + 1, ... at offset .. offset + count - 1.
AddBytes(e, first, offset, count) ==
  {<<e, offset + j, <<"msg", first + j>>>> : j \in 0 .. count - 1}

\* SnP_ExtractBytes: the count bytes at offset of the state after e permutations.
ExtractBytes(e, offset, count) == [j \in 1 .. count |-> <<e, offset + j - 1>>]

RateInBytes == rate \div 8

ValidRate(r, c) == r + c = Width /\ r > 0 /\ r <= Width /\ r % 8 = 0

LesserOf(a, b) == IF a <= b THEN a ELSE b

-----------------------------------------------------------------------------
Init ==
  /\ rate = 0 /\ byteIOIndex = 0 /\ squeezing = FALSE
  /\ perms = 0 /\ marks = {}
  /\ call = Idle
  /\ absorbed = 0 /\ delimiter = 0 /\ output = <<>>

\* SpongeInitialize returns 1 and leaves the instance alone for any other pair.
SpongeInitialize(r, c) ==
  /\ call = Idle
  /\ ValidRate(r, c)
  /\ rate' = r /\ byteIOIndex' = 0 /\ squeezing' = FALSE
  /\ perms' = 0 /\ marks' = {}
  /\ absorbed' = 0 /\ delimiter' = 0 /\ output' = <<>>
  /\ UNCHANGED call

\* Mutant: absorbs although output has begun.
SpongeAbsorbAnyTime(n) ==
  /\ rate # 0 /\ call = Idle
  /\ n > 0 /\ absorbed + n <= MaxInput
  /\ call' = [op |-> "absorb", left |-> n]
  /\ UNCHANGED <<instance, history>>

\* SpongeAbsorb is called with n bytes; with squeezing set it returns 1.
SpongeAbsorb(n) ==
  /\ rate # 0 /\ call = Idle
  /\ ~squeezing
  /\ n > 0 /\ absorbed + n <= MaxInput
  /\ call' = [op |-> "absorb", left |-> n]
  /\ UNCHANGED <<instance, history>>

\* Mutant: takes a whole block off the remaining length, whatever was processed.
AdvanceByRate(count) ==
  call' = IF call.left = count THEN Idle ELSE [call EXCEPT !.left = @ - RateInBytes]

\* What remains of the call in progress once count bytes more are processed.
Advance(count) ==
  call' = IF call.left = count THEN Idle ELSE [call EXCEPT !.left = @ - count]

\* One whole block straight into the state: an iteration of the inner loop,
\* or of SnP_FastLoop_Absorb where the permutation has one.
AbsorbBlock ==
  /\ call.op = "absorb"
  /\ byteIOIndex = 0 /\ call.left >= RateInBytes
  /\ marks' = Xor(marks, AddBytes(perms, absorbed, 0, RateInBytes))
  /\ perms' = perms + 1
  /\ absorbed' = absorbed + RateInBytes
  /\ Advance(RateInBytes)
  /\ UNCHANGED <<rate, byteIOIndex, squeezing, delimiter, output>>

\* Mutant: forgets to bring the index back to 0 when the block is full.
IndexNotReset(count) == byteIOIndex + count

\* byteIOIndex after count bytes more have been queued.
IndexAfter(count) ==
  IF byteIOIndex + count = RateInBytes THEN 0 ELSE byteIOIndex + count

\* The message queue: fill the current block as far as the data goes, and
\* permute when it is full.
AbsorbPart ==
  LET partialBlock == LesserOf(call.left, RateInBytes - byteIOIndex)
  IN  /\ call.op = "absorb"
      /\ ~(byteIOIndex = 0 /\ call.left >= RateInBytes)
      /\ marks' = Xor(marks, AddBytes(perms, absorbed, byteIOIndex, partialBlock))
      /\ byteIOIndex' = IndexAfter(partialBlock)
      /\ perms' = IF byteIOIndex + partialBlock = RateInBytes THEN perms + 1 ELSE perms
      /\ absorbed' = absorbed + partialBlock
      /\ Advance(partialBlock)
      /\ UNCHANGED <<rate, squeezing, delimiter, output>>

\* Mutant: forgets that the two padding bits may fall on each other.
PaddingNeverOverflows(d) == FALSE

\* The first bit of padding is at position rate-1: a whole new block is needed
\* for the second bit.
PaddingOverflows(d) == d >= 128 /\ byteIOIndex = RateInBytes - 1

\* The body of SpongeAbsorbLastFewBits: delimiter, second padding bit, switch.
Pad(d) ==
  LET last == IF PaddingOverflows(d) THEN perms + 1 ELSE perms
  IN  /\ marks' = Xor(Xor(marks, AddByte(perms, d, byteIOIndex)),
                      AddByte(last, 128, RateInBytes - 1))
      /\ perms' = last + 1
      /\ byteIOIndex' = 0
      /\ squeezing' = TRUE
      /\ delimiter' = d

SpongeAbsorbLastFewBits(d) ==
  /\ rate # 0 /\ call = Idle
  /\ d # 0 /\ ~squeezing
  /\ Pad(d)
  /\ UNCHANGED <<rate, call, absorbed, output>>

\* SpongeSqueeze is called for n bytes; a first call ends the message with
\* the delimiter 0x01, even when it asks for no byte at all.
SpongeSqueeze(n) ==
  /\ rate # 0 /\ call = Idle
  /\ Len(output) + n <= MaxOutput
  /\ call' = IF n = 0 THEN Idle ELSE [op |-> "squeeze", left |-> n]
  /\ IF squeezing THEN UNCHANGED <<byteIOIndex, squeezing, perms, marks, delimiter>>
                  ELSE Pad(1)
  /\ UNCHANGED <<rate, absorbed, output>>

\* One whole block: an iteration of the inner loop.
SqueezeBlock ==
  /\ call.op = "squeeze"
  /\ byteIOIndex = RateInBytes /\ call.left >= RateInBytes
  /\ perms' = perms + 1
  /\ output' = output \o ExtractBytes(perms', 0, RateInBytes)
  /\ Advance(RateInBytes)
  /\ UNCHANGED <<rate, byteIOIndex, squeezing, marks, absorbed, delimiter>>

\* Where in its block the next output byte is: a block that is used up makes
\* room for a new one.
SqueezeFrom == IF byteIOIndex = RateInBytes THEN 0 ELSE byteIOIndex

\* Mutant: never makes room for a new block.
SqueezePartNoPermute ==
  LET partialBlock == LesserOf(call.left, RateInBytes - byteIOIndex)
  IN  /\ call.op = "squeeze"
      /\ ~(byteIOIndex = RateInBytes /\ call.left >= RateInBytes)
      /\ output' = output \o ExtractBytes(perms, byteIOIndex, partialBlock)
      /\ byteIOIndex' = byteIOIndex + partialBlock
      /\ Advance(partialBlock)
      /\ UNCHANGED <<rate, squeezing, perms, marks, absorbed, delimiter>>

\* The message queue: permute if the block is used up, then give out what is
\* left of it as far as the request goes.
SqueezePart ==
  LET partialBlock == LesserOf(call.left, RateInBytes - SqueezeFrom)
  IN  /\ call.op = "squeeze"
      /\ ~(byteIOIndex = RateInBytes /\ call.left >= RateInBytes)
      /\ perms' = IF byteIOIndex = RateInBytes THEN perms + 1 ELSE perms
      /\ output' = output \o ExtractBytes(perms', SqueezeFrom, partialBlock)
      /\ byteIOIndex' = SqueezeFrom + partialBlock
      /\ Advance(partialBlock)
      /\ UNCHANGED <<rate, squeezing, marks, absorbed, delimiter>>

Loop == AbsorbBlock \/ AbsorbPart \/ SqueezeBlock \/ SqueezePart

Next ==
  \/ \E r \in Rates, c \in Capacities : SpongeInitialize(r, c)
  \/ \E n \in 1 .. MaxInput : SpongeAbsorb(n)
  \/ \E d \in Delimiters : SpongeAbsorbLastFewBits(d)
  \/ \E n \in 0 .. MaxOutput : SpongeSqueeze(n)
  \/ Loop

\* A call that has started runs on: the code between two iterations of a loop
\* waits for nothing.
Fairness == WF_vars(Loop)

Spec == Init /\ [][Next]_vars /\ Fairness

\* The object the interface promises: the history of the instance is its
\* state.
XOF == INSTANCE SpongeXOF

-----------------------------------------------------------------------------
Marks == Nat \X Nat \X ({"msg", "low", "top"} \X Nat)

TypeOK ==
  /\ rate \in Nat /\ byteIOIndex \in Nat /\ squeezing \in BOOLEAN
  /\ perms \in Nat
  /\ marks \subseteq Marks
  /\ call \in [op : {"none", "absorb", "squeeze"}, left : Nat]
  /\ absorbed \in Nat /\ delimiter \in 0 .. 255
  /\ output \in Seq(Nat \X Nat)

\* The position in the current block stays inside it: it is brought back to 0
\* at once while absorbing, and only by the next byte asked for while
\* squeezing, so that only then it may rest on the end of the block
\* (KeccakSponge.inc 196-199 and 275-278).
IndexInBlock ==
  rate # 0 => IF squeezing THEN byteIOIndex <= RateInBytes
                           ELSE byteIOIndex < RateInBytes

\* However the message was cut in pieces, once it has ended the state has
\* absorbed exactly what Sponge() absorbs from the whole message, and the
\* bytes delivered are the first bytes Sponge() outputs: none skipped, none
\* given twice, none from before or after the permutation it belongs to.
IncrementalIsOneShot ==
  rate # 0 /\ squeezing =>
    /\ marks = OneShotMarks(RateInBytes, absorbed, delimiter)
    /\ \A k \in 1 .. Len(output) :
         output[k] = OneShotByte(RateInBytes, absorbed, delimiter, k - 1)

\* Until the message ends, the state has absorbed the whole blocks received
\* so far and byteIOIndex bytes of the next one, each in its place, and no
\* byte has been given out.
MessageInPlace ==
  rate # 0 /\ ~squeezing =>
    /\ absorbed = perms * RateInBytes + byteIOIndex
    /\ marks = MessageMarks(RateInBytes, absorbed)
    /\ output = <<>> /\ delimiter = 0

\* A message cannot be extended once its end has been absorbed: only a new
\* SpongeInitialize changes what the state holds, whatever is called in
\* between.
EndOfMessageIsFinal ==
  [][squeezing /\ squeezing' => UNCHANGED <<marks, absorbed, delimiter>>]_vars

\* The instance implements the object of SpongeXOF: no sequence of calls, and
\* no iteration of their loops, shows the caller anything else.
ImplementsXOF == XOF!Spec

\* Every call returns: no iteration of the loops leaves the remaining length
\* unchanged for ever.
EveryCallReturns == call # Idle ~> call = Idle

=============================================================================
