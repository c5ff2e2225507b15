---------------------------- MODULE HashSession -----------------------------
(***************************************************************************)
(* One instance of one of the hash functions and a caller who keeps to the *)
(* documented preconditions: it initializes the instance, gives it a       *)
(* message in pieces, or tuples, ends it and takes output.  The message is *)
(* the beginning of a text: a piece whose last byte is incomplete comes    *)
(* with the bits of the text that follow, which the functions must ignore. *)
(* Calls that are refused and leave the instance alone are no steps.       *)
(***************************************************************************)
EXTENDS HashFunctions

CONSTANTS
  Starts,      \* parameters to initialize with: fn, suffix, output, name, custom, key, blockLen
  Text,        \* bytes
  Pieces,      \* lengths in bits of a piece of the message
  MaxMessage,  \* bound: bits of a message
  Elements,    \* the elements of tuples
  MaxTuple,    \* bound: elements given to an instance
  Outputs,     \* lengths in bits of a piece of output
  MaxOutput    \* bound: bytes of output

ASSUME HashSessionAssumption ==
  /\ {MaxMessage, MaxTuple, MaxOutput} \subseteq Nat /\ Pieces \cup Outputs \subseteq Nat
  /\ MaxMessage <= 8 * Len(Text)

VARIABLES
  instance,  \* the instance
  start,     \* history: the parameters of its initialization
  given,     \* history: the bits of message given to it
  supplied   \* history: the elements given to it

vars == <<instance, start, given, supplied>>

None == [fn |-> "none"]

\* The next n bits of the text after the first m.
Piece(m, n) == [bytes |-> SubSeq(Text, m \div 8 + 1, (m + n + 7) \div 8), n |-> n]

CanBegin(s) ==
  CASE s.fn = "Keccak_Hash"  -> s.suffix # 0
    [] s.fn = "cSHAKE"       -> CanInitialize(s.name)
    [] s.fn = "ParallelHash" -> CanParallelHash_Initialize(s.blockLen)
    [] OTHER                 -> TRUE

Begun(s) ==
  CASE s.fn = "Keccak_Hash"  -> HashInitialize(s.output, s.suffix)
    [] s.fn = "cSHAKE"       -> cSHAKE_Initialize(s.output, s.name, s.custom)
    [] s.fn = "KMAC"         -> KMAC_Initialize(s.key, s.output, s.custom)
    [] s.fn = "TupleHash"    -> TupleHash_Initialize(s.output, s.custom)
    [] s.fn = "ParallelHash" -> ParallelHash_Initialize(s.blockLen, s.output, s.custom)

Init == instance = None /\ start = None /\ given = 0 /\ supplied = <<>>

Begin ==
  /\ start = None
  /\ \E s \in Starts : CanBegin(s) /\ start' = s /\ instance' = Begun(s)
  /\ UNCHANGED <<given, supplied>>

-----------------------------------------------------------------------------
(* Input.                                                                  *)

Gives(n) == given + n <= MaxMessage /\ given' = given + n /\ UNCHANGED <<start, supplied>>

\* An incomplete byte must be the last: the code relies on it.
Update_Hash(n) ==
  /\ start.fn = "Keccak_Hash" /\ CanHashUpdate(instance) /\ given % 8 = 0
  /\ Gives(n) /\ instance' = HashUpdate(instance, Piece(given, n))

Update_cSHAKE(n) ==
  /\ start.fn = "cSHAKE" /\ CanUpdate(instance)
  /\ Gives(n) /\ instance' = cSHAKE_Update(instance, Piece(given, n))

Update_KMAC(n) ==
  /\ start.fn = "KMAC" /\ Gives(n)
  /\ CanKMAC_Update(instance, Piece(given, n))
  /\ instance' = KMAC_Update(instance, Piece(given, n))

Update_ParallelHash(n, has) ==
  /\ start.fn = "ParallelHash" /\ Gives(n)
  /\ CanParallelHash_Update(instance, Piece(given, n))
  /\ instance' = ParallelHash_Update(instance, Piece(given, n), has)

\* A call that fails at an element has taken those before it.
Update_TupleHash(tuple) ==
  /\ start.fn = "TupleHash" /\ CanUpdate(instance.csi)
  /\ Len(supplied) + Len(tuple) <= MaxTuple
  /\ supplied' = supplied \o AbsorbedElements(tuple)
  /\ instance' = TupleHash_Update(instance, tuple)
  /\ UNCHANGED <<start, given>>

-----------------------------------------------------------------------------
(* The end of the input, and output.                                       *)

CanEnd(fn, i) ==
  CASE fn = "Keccak_Hash"             -> CanAbsorb(i.sponge)
    [] fn \in {"cSHAKE", "ParallelHash"} -> CanFinish(i)
    [] fn \in {"KMAC", "TupleHash"}   -> CanKMAC_Final(i)

WithEnd(fn, i) ==
  CASE fn = "Keccak_Hash"           -> HashFinal(i)
    [] fn = "cSHAKE"                -> cSHAKE_Final(i)
    [] fn \in {"KMAC", "TupleHash"} -> KMAC_Final(i)
    [] fn = "ParallelHash"          -> ParallelHash_Final(i)

\* The node that output comes from.
Node(fn, i) ==
  CASE fn \in {"Keccak_Hash", "cSHAKE"} -> i.sponge
    [] fn \in {"KMAC", "TupleHash"}     -> i.csi.sponge
    [] fn = "ParallelHash"              -> i.finalNode

Final ==
  /\ start # None /\ CanEnd(start.fn, instance)
  /\ instance' = WithEnd(start.fn, instance)
  /\ UNCHANGED <<start, given, supplied>>

Squeezes(n) ==
  /\ Node(start.fn, instance).squeezed + (n + 7) \div 8 <= MaxOutput
  /\ UNCHANGED <<start, given, supplied>>

\* Keccak_HashSqueeze() does not ask whether Final() was called; the caller has to.
Squeeze_Hash(n) ==
  /\ start.fn = "Keccak_Hash" /\ ~CanAbsorb(instance.sponge) /\ n % 8 = 0
  /\ Squeezes(n) /\ instance' = HashSqueeze(instance, n)

Squeeze_cSHAKE(n) ==
  /\ start.fn = "cSHAKE" /\ CanSqueeze(instance)
  /\ Squeezes(n) /\ instance' = cSHAKE_Squeeze(instance, n)

Squeeze_KMAC(n) ==
  /\ start.fn \in {"KMAC", "TupleHash"} /\ CanSqueeze(instance.csi)
  /\ Squeezes(n) /\ instance' = KMAC_Squeeze(instance, n)

Squeeze_ParallelHash(n) ==
  /\ start.fn = "ParallelHash" /\ CanSqueeze(instance)
  /\ Squeezes(n) /\ instance' = ParallelHash_Squeeze(instance, n)

Next ==
  \/ Begin
  \/ \E n \in Pieces : Update_Hash(n) \/ Update_cSHAKE(n) \/ Update_KMAC(n)
  \/ \E n \in Pieces, has \in SUBSET Range(Parallelism) : Update_ParallelHash(n, has)
  \/ \E k \in 1 .. MaxTuple : \E tuple \in [1 .. k -> Elements] : Update_TupleHash(tuple)
  \/ Final
  \/ \E n \in Outputs :
       Squeeze_Hash(n) \/ Squeeze_cSHAKE(n) \/ Squeeze_KMAC(n) \/ Squeeze_ParallelHash(n)

Spec == Init /\ [][Next]_vars

-----------------------------------------------------------------------------
(* Properties.                                                             *)

\* What the hash is to be a function of: with neither a name nor a customization string
\* cSHAKE is SHAKE; the length of the output counts where the standard encodes it.
Meaning(s, bits, elements) ==
  [what   |-> CASE s.fn = "Keccak_Hash" -> <<"Keccak", s.suffix>>
                [] s.fn = "cSHAKE" /\ s.name.n = 0 /\ s.custom.n = 0 -> <<"Keccak", 31>>
                [] OTHER -> <<s.fn, s.name, s.custom, s.key, s.blockLen>>,
   output |-> IF s.fn \in {"Keccak_Hash", "cSHAKE"} THEN 0 ELSE s.output,
   bits   |-> bits,
   elements  |-> elements]

\* The same in one call, as the functions SHAKE128(), cSHAKE(), KMAC(), TupleHash() and
\* ParallelHash() do it; these refuse to give no output.
Given(s, bits, elements) ==
  CASE s.fn = "Keccak_Hash"  -> HashUpdate(Begun(s), Piece(0, bits))
    [] s.fn = "cSHAKE"       -> cSHAKE_Update(Begun(s), Piece(0, bits))
    [] s.fn = "KMAC"         -> KMAC_Update(Begun(s), Piece(0, bits))
    [] s.fn = "TupleHash"    -> TupleHash_Update(Begun(s), elements)
    [] s.fn = "ParallelHash" -> ParallelHash_Update(Begun(s), Piece(0, bits), {})

\* A sponge without its output.
Absorbed(sponge) == [absorbed |-> sponge.absorbed, last |-> sponge.last]

InOneCall(s, bits, elements) ==
  [node |-> Absorbed(Node(s.fn, WithEnd(s.fn, Given(s, bits, elements)))),
   input |-> Meaning(s, bits, elements)]

AllInOneCall ==
  UNION {IF s.fn = "TupleHash"
           THEN {InOneCall(s, 0, e) :
                   e \in UNION {[1 .. k -> {x \in Elements : IsWhole(x)}] : k \in 0 .. MaxTuple}}
           ELSE {InOneCall(s, bits, <<>>) :
                   bits \in {b \in 0 .. MaxMessage : s.fn \in {"Keccak_Hash", "cSHAKE"} \/ b % 8 = 0}} :
         s \in {x \in Starts : CanBegin(x)}}

\* The node that output comes from has absorbed the same as that of a function that is
\* given its input in one call exactly if the input is the same: it does not matter how the
\* message was cut and on how many leaves at once it was hashed, and no two functions, keys,
\* customization strings, tuples or messages are hashed alike.
SameNodeSameInput ==
  start # None /\ ~CanAbsorb(Node(start.fn, instance)) =>
    \A node \in {Absorbed(Node(start.fn, instance))}, input \in {Meaning(start, given, supplied)} :
      \A one \in AllInOneCall : one.node = node <=> one.input = input
=============================================================================
