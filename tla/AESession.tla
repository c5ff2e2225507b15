------------------------------ MODULE AESession ------------------------------
(***************************************************************************)
(* Sessions of the authenticated encryption modes: DWrap, Deck-BO, SANE    *)
(* and SANSE.  Instances with one key wrap messages, another one unwraps   *)
(* them.  What is wrapped may reach it late, twice, never, in any order,   *)
(* or damaged.                                                             *)
(***************************************************************************)
EXTENDS ShakingUpAE, SANE, FiniteSets

CONSTANTS
  Schemes,   \* the modes a session may be in
  Senders,   \* the instances that wrap
  Receiver,  \* the instance that unwraps
  Rho,       \* the block size of the overwrite duplex objects
  TagLen,    \* the length of a tag
  Key,       \* the key, or the nonce of a SANE session
  Messages,  \* the pairs [A, P] a sender may wrap
  MaxWraps,  \* bound: messages of each sender
  MaxFailed  \* bound: messages that fail to unwrap

ASSUME AESessionAssumption ==
  /\ Schemes \subseteq {"DWrap", "DeckBO", "SANE", "SANSE"}
  /\ Receiver \notin Senders
  /\ Rho \in Nat \ {0} /\ TagLen \in 1 .. Rho /\ Len(Key) <= Rho
  /\ MaxWraps \in [Senders -> Nat] /\ MaxFailed \in Nat

VARIABLES
  scheme, \* the mode
  inst,   \* the state of each instance
  buffer, \* the plaintext buffer of the receiver, after the last call
  fed,    \* history: the messages each instance has taken into its state
  net,    \* history: what has been wrapped, by whom, and from which history
  taken,  \* history: the messages the receiver has unwrapped
  failed  \* history: how many failed to unwrap

vars == <<scheme, inst, buffer, fed, net, taken, failed>>

Parties == Senders \cup {Receiver}

Initialize(s) ==
  CASE s = "DWrap"  -> DWrap_Initialize(Rho, Key)
    [] s = "DeckBO" -> DeckBO_Initialize(Rho, Key)
    [] s = "SANE"   -> SANE_Initialize(Key, TagLen)
    [] s = "SANSE"  -> SANSE_Initialize

Wrapped(D, m) ==
  CASE scheme = "DWrap"  -> DWrap_Wrap(D, TagLen, m.A, m.P)
    [] scheme = "DeckBO" -> DeckBO_Wrap(D, TagLen, m.A, m.P)
    [] scheme = "SANE"   -> SANE_Wrap(D, TagLen, m.A, m.P)
    [] scheme = "SANSE"  -> SANSE_Wrap(D, TagLen, m.A, m.P)

Unwrapped(D, A, C) ==
  CASE scheme = "DWrap"  -> DWrap_Unwrap(D, TagLen, A, C)
    [] scheme = "DeckBO" -> DeckBO_Unwrap(D, TagLen, A, C)
    [] scheme = "SANE"   -> SANE_Unwrap(D, TagLen, A, C)
    [] scheme = "SANSE"  -> SANSE_Unwrap(D, TagLen, A, C)

\* The modes that undo a call of Unwrap that fails.
Restoring == scheme \in {"DWrap", "DeckBO"}

Init ==
  /\ scheme \in Schemes
  /\ inst = [p \in Parties |-> Initialize(scheme)]
  /\ buffer = <<>> /\ fed = [p \in Parties |-> <<>>] /\ net = {} /\ taken = <<>> /\ failed = 0

Sent(p) == {w \in net : w.from = p}

Send(p, m, w) ==
  /\ inst' = [inst EXCEPT ![p] = w.D]
  /\ net' = net \cup {[from |-> p, fed |-> fed[p], m |-> m, C |-> w.C]}
  /\ fed' = [fed EXCEPT ![p] = Append(@, m)]
  /\ UNCHANGED <<scheme, buffer, taken, failed>>

Wrap(p, m) == Cardinality(Sent(p)) < MaxWraps[p] /\ Send(p, m, Wrapped(inst[p], m))

\* DWrap_Clone, DeckBO_Clone.
Clone(p, q) ==
  /\ Restoring /\ p # q /\ Sent(q) = {} /\ Sent(p) # {}
  /\ inst' = [inst EXCEPT ![q] = inst[p]]
  /\ fed' = [fed EXCEPT ![q] = fed[p]]
  /\ UNCHANGED <<scheme, buffer, net, taken, failed>>

\* What an instance that fails to unwrap has in its history all the same: the
\* metadata and the plaintext as they came out of the call.
FedByFailure(A, C) ==
  LET n == Len(C) - TagLen
      T == SubSeq(C, n + 1, Len(C))
      X == SubSeq(C, 1, n)
      D == inst[Receiver]
  IN  [A |-> A,
       P |-> IF scheme = "SANE" THEN XorAll(X, VatteOutput(D.d, n))
             ELSE XorAll(X, KeyStream(AddA(D.d, A, n, D.e), T, D.e, n))]

\* What Unwrap gives is u.  SANE and SANSE take the tag apart, so there always is one.
Receive(A, C, u) ==
  /\ inst' = [inst EXCEPT ![Receiver] = u.D]
  /\ buffer' = IF Len(C) < TagLen THEN buffer ELSE u.P
  /\ fed' = [fed EXCEPT ![Receiver] =
               IF u.ok THEN Append(@, [A |-> A, P |-> u.P])
               ELSE IF Restoring THEN @ ELSE Append(@, FedByFailure(A, C))]
  /\ IF u.ok THEN taken' = Append(taken, [A |-> A, P |-> u.P, fed |-> fed[Receiver]])
                  /\ UNCHANGED failed
             ELSE failed < MaxFailed /\ failed' = failed + 1 /\ UNCHANGED taken
  /\ UNCHANGED <<scheme, net>>

Unwrap(A, C) ==
  /\ Restoring \/ Len(C) >= TagLen
  /\ Receive(A, C, Unwrapped(inst[Receiver], A, C))

\* Other than what was wrapped: a unit of C is wrong, its end is missing, or A
\* is another one.
Noise == {<<2>>}

Damaged(w) ==
  {[A |-> w.m.A, C |-> [w.C EXCEPT ![i] = Xor(@, Noise)]] : i \in DOMAIN w.C}
    \cup {[A |-> w.m.A, C |-> SubSeq(w.C, 1, Len(w.C) - 1)],
          [A |-> w.m.A \o <<Noise>>, C |-> w.C]}

Deliver(w) == Unwrap(w.m.A, w.C)

DeliverDamaged(w) == \E x \in Damaged(w) : Unwrap(x.A, x.C)

Next ==
  \/ \E p \in Senders, m \in Messages : Wrap(p, m)
  \/ \E p, q \in Senders : Clone(p, q)
  \/ \E w \in net : Deliver(w) \/ DeliverDamaged(w)

Spec == Init /\ [][Next]_vars

-----------------------------------------------------------------------------
\* What the next call of an instance depends on.
State(p) ==
  CASE Restoring         -> <<inst[p].s, inst[p].o>>
    [] scheme = "SANE"   -> <<inst[p].d.h, inst[p].d.o, inst[p].e>>
    [] scheme = "SANSE"  -> <<inst[p].d.h, inst[p].e>>

\* Instances are in the same state exactly when they have taken the same messages,
\* with the same boundaries between metadata, plaintext and messages.
HistoryIsState ==
  \A p, q \in Parties : State(p) = State(q) <=> fed[p] = fed[q]

\* Whatever came before, also if it failed: a message wrapped from the history the
\* receiver has is unwrapped, to the plaintext that was wrapped.
NextIsAccepted ==
  \A w \in net : w.fed = fed[Receiver] =>
    LET u == Unwrapped(inst[Receiver], w.m.A, w.C) IN u.ok /\ u.P = w.m.P

\* A message is unwrapped only if it was wrapped so, and from the history that the
\* receiver has: not damaged, twice, or out of order.  Nothing else is ever left
\* in the plaintext buffer.
Authentic ==
  /\ \A i \in DOMAIN taken : \E w \in net :
       w.m = [A |-> taken[i].A, P |-> taken[i].P] /\ w.fed = taken[i].fed
  /\ \/ \A i \in DOMAIN buffer : buffer[i] = Zero
     \/ \E i \in DOMAIN taken : buffer = taken[i].P

\* Each unit of plaintext is covered by one unit of output, which no sender uses for
\* anything else, be it plaintext or a tag; with Deck-BO and SANSE, senders that
\* are in the same state do not share it either, unless all they wrap is the same.
KeystreamOnce ==
  \A w, v \in net : \A i \in DOMAIN w.m.P, j \in DOMAIN v.C :
    /\ Cardinality(Places(w.C[i])) = 1
    /\ Places(w.C[i]) = Places(v.C[j]) =>
         /\ w.from = v.from => w = v /\ i = j
         /\ scheme \in {"DeckBO", "SANSE"} => w.m = v.m /\ w.fed = v.fed /\ i = j

=============================================================================
