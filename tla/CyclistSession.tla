---------------------------- MODULE CyclistSession ----------------------------
(***************************************************************************)
(* Two Cyclist instances of applications that run on different             *)
(* implementations of the permutation.  Each makes the calls it likes; the *)
(* second one may be given the ciphertexts of the first.                   *)
(***************************************************************************)
EXTENDS Cyclist, FiniteSets

CONSTANTS
  Kernels,  \* pairs: does the implementation have the kernels, at instance 1 and at 2
  Starts,   \* pairs: the [K, ID, counter] that 1 and that 2 is initialized with
  Strings,  \* what an application absorbs or enciphers
  Lengths,  \* how much it squeezes
  MaxCalls  \* bound: the calls of each instance

Data == Seq(SUBSET InputTerms)

\* The key, its identifier and the length of that fit in a block, as the code asserts
\* (Cyclist.inc:133); without a key neither the identifier nor the counter is read.
Fits(start) ==
  IF start.K # <<>> THEN Len(start.K) + Len(start.ID) < Rkin
  ELSE start.ID = <<>> /\ start.counter = <<>>

ASSUME CyclistSessionAssumption ==
  /\ Kernels \subseteq BOOLEAN \X BOOLEAN /\ MaxCalls \in Nat /\ Lengths \subseteq Nat
  /\ LET Start == {start \in [K : Data, ID : Data, counter : Data] : Fits(start)}
     IN  Starts \subseteq Start \X Start
  /\ Strings \subseteq Data

VARIABLES
  inst, \* the two instances
  log,  \* history: what each has been told, as a list of events
  done, \* history: the calls with output: at which log, with which input and output
  given \* history: the units of key stream or of output each has given out

vars == <<inst, log, done, given>>

Init ==
  \E kernels \in Kernels, start \in Starts :
    /\ inst = [i \in 1 .. 2 |->
                 Initialize(kernels[i], start[i].K, start[i].ID, start[i].counter)]
    /\ log = [i \in 1 .. 2 |-> <<<<"start", start[i]>>>>]
    /\ done = {} /\ given = <<<<>>, <<>>>>

\* Instance 2 starts once 1 has made its calls: they share nothing but ciphertext.
CanCall(i) ==
  /\ Len(log[i]) <= MaxCalls
  /\ i = 1 => Len(log[2]) = 1

Calls(i, c, event) ==
  /\ inst' = [inst EXCEPT ![i] = c]
  /\ log' = [log EXCEPT ![i] = Append(@, event)]

Gives(i, op, I, O, units) ==
  /\ done' = done \cup {[by |-> i, log |-> log[i], op |-> op, I |-> I, O |-> O]}
  /\ given' = [given EXCEPT ![i] = @ \o units]

Keyed(i) == inst[i].mode = "Keyed"

DoAbsorb(i, X) ==
  /\ CanCall(i)
  /\ Calls(i, Absorb(inst[i], X), <<"absorb", X>>)
  /\ UNCHANGED <<done, given>>

\* Only in keyed mode, as the code asserts.
DoEncrypt(i, P) ==
  LET e == Encrypt(inst[i], P)
  IN  /\ CanCall(i) /\ Keyed(i)
      /\ Calls(i, e.c, <<"crypt", P>>)
      /\ Gives(i, "encrypt", P, e.O, XorAll(P, e.O))

DoDecrypt(i, C) ==
  LET d == Decrypt(inst[i], C)
  IN  /\ CanCall(i) /\ Keyed(i)
      /\ Calls(i, d.c, <<"crypt", d.O>>)
      /\ Gives(i, "decrypt", C, d.O, XorAll(C, d.O))

\* How much is squeezed from the last block is nowhere in the state.
DoSqueeze(i, n) ==
  LET q == Squeeze(inst[i], n)
  IN  /\ CanCall(i)
      /\ Calls(i, q.c, <<"squeeze", Blocks(n, inst[i].Rsqueeze)>>)
      /\ Gives(i, "squeeze", n, q.O, q.O)

DoSqueezeKey(i, n) ==
  LET q == SqueezeKey(inst[i], n)
  IN  /\ CanCall(i) /\ Keyed(i)
      /\ Calls(i, q.c, <<"squeezeKey", Blocks(n, inst[i].Rsqueeze)>>)
      /\ Gives(i, "squeezeKey", n, q.O, q.O)

DoRatchet(i) ==
  /\ CanCall(i) /\ Keyed(i)
  /\ Calls(i, Ratchet(inst[i]), <<"ratchet">>)
  /\ UNCHANGED <<done, given>>

Ciphertexts == {x.O : x \in {y \in done : y.by = 1 /\ y.op = "encrypt"}}

Next ==
  \E i \in 1 .. 2 :
    \/ \E X \in Strings : DoAbsorb(i, X) \/ DoEncrypt(i, X)
    \/ \E C \in Strings \cup Ciphertexts : i = 2 /\ DoDecrypt(i, C)
    \/ \E n \in Lengths : DoSqueeze(i, n) \/ DoSqueezeKey(i, n)
    \/ DoRatchet(i)

Spec == Init /\ [][Next]_vars

-----------------------------------------------------------------------------
\* In hash mode two absorbing calls are what they are with a squeezing call of a
\* block or less between them: the colors that tell them apart are for keyed mode.
Told(i) ==
  LET L == log[i]
      told[k \in 1 .. Len(L)] ==
        IF k = 1 THEN <<L[1]>>
        ELSE IF L[k][1] = "absorb" /\ L[k - 1][1] = "absorb"
        THEN Append(Append(told[k - 1], <<"squeeze", 1>>), L[k])
        ELSE Append(told[k - 1], L[k])
  IN  IF Keyed(i) THEN L ELSE told[Len(L)]

\* Instances are in the same state exactly when they have been told the same, call by
\* call: also if one runs the kernels and the other does not, if one enciphered what
\* the other deciphered, and with strings that are joined, split, padded or empty.
StateIsHistory ==
  (Told(1) = Told(2)) <=>
    (inst[1].s = inst[2].s /\ inst[1].added = inst[2].added /\ inst[1].phase = inst[2].phase
     /\ inst[1].mode = inst[2].mode)

\* From the same history the same call gives the same output, and deciphering gives
\* what was enciphered, whichever implementation runs on either side.
SameEverywhere ==
  \A x \in done, y \in done : x.log = y.log =>
    /\ x.op = y.op /\ x.I = y.I => x.O = y.O
    /\ x.op = "encrypt" /\ y.op = "decrypt" => (x.O = y.I <=> x.I = y.O)

\* No unit of output serves twice: not for the key stream of two places of plaintext,
\* not for a tag and a key stream, not for two tags or keys.
KeystreamOnce ==
  \A i \in 1 .. 2 : \A j, k \in DOMAIN given[i] :
    /\ Cardinality(Places(given[i][j])) = 1
    /\ given[i][j] = given[i][k] => j = k

\* "Squeeze then absorb is the same as overwriting with zeros" (Cyclist.inc:287): the
\* first bytes of the state are zero after Ratchet (what was added since the
\* permutation is what they were), so that the state does not lead back.
RatchetOverwrites ==
  \A i \in 1 .. 2 : Last(log[i])[1] = "ratchet" =>
    \A p \in 1 .. lRatchet : inst[i].added[p] = Output(inst[i], lRatchet)[p]

=============================================================================
