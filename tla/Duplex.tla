------------------------------- MODULE Duplex -------------------------------
(***************************************************************************)
(* A duplex object (KeccakDuplex.inc) and a caller that makes any call in  *)
(* any order.  Every function runs to its end without a loop, so that a    *)
(* call is one step; a call that returns 1 changes nothing and is no step. *)
(***************************************************************************)
EXTENDS DuplexObject

CONSTANTS
  Rates,       \* the rates the caller tries, in bits
  Delimiters,  \* the delimitedSigmaEnd bytes it passes
  MaxPerms,    \* bound: calls of Duplexing()
  MaxInput     \* bound: input bytes

ASSUME DuplexAssumption ==
  /\ Rates \subseteq Nat
  /\ Delimiters \subseteq 0 .. 255
  /\ MaxPerms \in Nat /\ MaxInput \in Nat

VARIABLES
  duplex,  \* the duplex object; its rate is 0 before DuplexInitialize
  fed,     \* history: input bytes given so far
  sigma,   \* history: the bytes of the input since the last Duplexing(), as the
           \* documentation defines them
  given,   \* history: the bytes given out since the last Duplexing()
  last     \* history: the state the last Duplexing() permuted, and its input

vars == <<duplex, fed, sigma, given, last>>

\* The bytes the caller passes next.
NextInput(n) == [i \in 1 .. n |-> {<<"in", fed + i>>}]

\* What the previous Duplexing() left where the input queue ends, n bytes.
PreviousOutput(n) == [i \in 1 .. n |-> {<<"out", duplex.perms, Len(sigma) + i - 1>>}]

XorBytes(s, t) == [i \in 1 .. Len(s) |-> Xor(s[i], t[i])]

\* The number of bits of d before the delimiter.
TrailingBits(d) == CHOOSE k \in BitsOf(d) : \A j \in BitsOf(d) : j <= k

-----------------------------------------------------------------------------
Init ==
  /\ duplex = NewDuplex(0)
  /\ fed = 0 /\ sigma = <<>> /\ given = <<>>
  /\ last = [state |-> Permuted(0), sigma |-> <<>>, perms |-> 0, end |-> 0]

DuplexInitialize(r) ==
  /\ duplex.rate = 0
  /\ ValidRate(r, Width - r)
  /\ duplex' = NewDuplex(r)
  /\ UNCHANGED <<fed, sigma, given, last>>

Duplexing(n, z, d) ==
  /\ duplex.rate # 0
  /\ duplex.perms < MaxPerms /\ fed + n <= MaxInput
  /\ CanDuplex(duplex, n, z, d)
  /\ duplex' = AfterDuplexing(AddInput(duplex, NextInput(n)), z)
  /\ fed' = fed + n
  /\ sigma' = <<>>
  /\ given' = Output(duplex', 0, z)
  /\ last' = [state |-> PaddedState(duplex, NextInput(n), d),
              sigma |-> sigma \o NextInput(n), perms |-> duplex.perms, end |-> d]

DuplexingFeedPartialInput(n) ==
  /\ duplex.rate # 0 /\ fed + n <= MaxInput
  /\ Fits(duplex, n)
  /\ duplex' = AddInput(duplex, NextInput(n))
  /\ fed' = fed + n
  /\ sigma' = sigma \o NextInput(n)
  /\ UNCHANGED <<given, last>>

DuplexingFeedZeroes(n) ==
  /\ duplex.rate # 0
  /\ Fits(duplex, n)
  /\ duplex' = AddInput(duplex, Zeroes(n))
  /\ sigma' = sigma \o Zeroes(n)
  /\ UNCHANGED <<fed, given, last>>

\* The input is added to the previous output first, so that adding it to the
\* state overwrites the state.
DuplexingOverwritePartialInput(n) ==
  /\ duplex.rate # 0 /\ fed + n <= MaxInput
  /\ Fits(duplex, n)
  /\ duplex' = OverwriteInput(duplex, NextInput(n))
  /\ fed' = fed + n
  /\ sigma' = sigma \o XorBytes(PreviousOutput(n), NextInput(n))
  /\ UNCHANGED <<given, last>>

DuplexingOverwriteWithZeroes(n) ==
  /\ duplex.rate # 0
  /\ CanOverwriteWithZeroes(duplex, n)
  /\ duplex' = OverwriteInput(duplex, Zeroes(n))
  /\ sigma' = sigma \o PreviousOutput(n)
  /\ UNCHANGED <<fed, given, last>>

DuplexingGetFurtherOutput(n) ==
  /\ duplex.rate # 0
  /\ CanGetFurther(duplex, n)
  /\ duplex' = AfterFurther(duplex, n)
  /\ given' = given \o Output(duplex, duplex.byteOutputIndex, n)
  /\ UNCHANGED <<fed, sigma, last>>

\* The same, added to n bytes of the caller.
DuplexingGetFurtherOutputAndAdd(n) ==
  LET Added(z) == [i \in DOMAIN z |-> [z[i] EXCEPT !.byte = Xor(@, {<<"add">>})]]
  IN  /\ duplex.rate # 0
      /\ CanGetFurther(duplex, n)
      /\ duplex' = AfterFurther(duplex, n)
      /\ given' = given \o Added(Output(duplex, duplex.byteOutputIndex, n))
      /\ UNCHANGED <<fed, sigma, last>>

-----------------------------------------------------------------------------
(* The caller.                                                             *)

Lengths == 0 .. Width \div 8

Next ==
  \/ \E r \in Rates : DuplexInitialize(r)
  \/ \E n \in Lengths, z \in Lengths, d \in Delimiters : Duplexing(n, z, d)
  \/ \E n \in Lengths :
       \/ DuplexingFeedPartialInput(n)
       \/ DuplexingFeedZeroes(n)
       \/ DuplexingOverwritePartialInput(n)
       \/ DuplexingOverwriteWithZeroes(n)
       \/ DuplexingGetFurtherOutput(n)
       \/ DuplexingGetFurtherOutputAndAdd(n)

Spec == Init /\ [][Next]_vars

-----------------------------------------------------------------------------
\* "sigmaBeginByteLen*8+n (+ length of previously queued data) <= (r-2)", the
\* documented precondition of the last Duplexing() (KeccakDuplex-documentation.h
\* 94).  Duplexing() itself compares without the queued data (KeccakDuplex.inc
\* 63), and so accepts calls that break it.
KeptToLength ==
  8 * Len(last.sigma) + TrailingBits(last.end) <= duplex.rate - 2

\* What Duplexing() permutes is the previous output XORed with the input: the
\* bytes in the order they were given, whatever calls queued them, and after
\* them nothing that is not of the delimiter or the end of the rate.  That is so
\* of every call that is accepted.  If the call also kept to the documented
\* length, what follows the bytes is the padding of KeccakDuplex-documentation.h
\* 87-93: the trailing bits, a bit 1, zeroes, and a bit 1 that ends the rate, two
\* bits of the rate, neither on the other nor on the input.  (If it did not, the
\* two may be the same bit, and cancel.)
BlocksArePadded ==
  LET n == Len(last.sigma)
      ones == {8 * n + k : k \in BitsOf(last.end)} \cup {duplex.rate - 1}
      Within(p) == {<<"bit", q % 8>> : q \in {i \in ones : i \div 8 = p}}
      Added(p) == Xor({<<"out", last.perms, p>>}, last.state[p])
  IN  last.end # 0 =>
        /\ \A p \in Offsets : IF p < n THEN Added(p) = last.sigma[p + 1]
                                       ELSE Added(p) \subseteq Within(p)
        /\ KeptToLength => /\ 8 * n + TrailingBits(last.end) < duplex.rate - 1
                           /\ \A p \in Offsets : p >= n => Added(p) = Within(p)

\* Since the last Duplexing() the caller has been given the first bytes of its
\* output, each once and in order; a byte taken after input was queued at its
\* offset comes with that input added (the order of testDuplex.inc, output
\* before input, avoids it).
FurtherOutputFollows ==
  duplex.perms > 0 =>
    /\ Len(given) = duplex.byteOutputIndex
    /\ \A i \in 1 .. Len(given) :
         LET out == {<<"out", duplex.perms, i - 1>>}
         IN  given[i].byte \ {<<"add">>} \in
               {out} \cup {Xor(out, sigma[j]) : j \in {i} \cap (1 .. Len(sigma))}

\* No bit beyond the rate is ever given out, in whatever pieces the output is
\* taken (KeccakDuplex.inc 90-93, 164-167, 178-181).
NoCapacityBitOut ==
  duplex.perms > 0 =>
    \A i \in 1 .. Len(given) : 8 * (i - 1) + given[i].bits <= duplex.rate

=============================================================================
