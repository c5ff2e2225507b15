-------------------------------- MODULE SANE ---------------------------------
(***************************************************************************)
(* The session modes SANE and SANSE of KravatteModes.c, as operators on    *)
(* the deck function and the bit e they keep.  The deck function holds a   *)
(* history of strings and gives a stream for it; a unit of data is a bit.  *)
(***************************************************************************)
EXTENDS SymbolicOutput

\* Kra() with all parts of a string.
Kra(d, X) ==
  [h |-> Append(d.h, Absorbed(d.h, X)), o |-> 0, phase |-> "COMPRESSING"]

\* The n bits that Vatte() gives, from where the stream is.
VatteOutput(d, n) == OutputFrom(d.h, d.o, n)

\* Vatte(), with or without KRAVATTE_FLAG_LAST_PART.
Vatte(d, n, last) ==
  [d EXCEPT !.o = @ + n, !.phase = IF last THEN "EXPANDED" ELSE "EXPANDING"]

Bit(b) == IF b = 1 THEN One ELSE Zero

\* The data, the appendix and e as one string.
AddToHistory(d, data, appendix, e) == Kra(d, data \o appendix \o <<Bit(e)>>)

\* Mutant: leaves out A whenever there is plaintext.
AddAAlone(d, A, n, e) == IF n = 0 THEN AddToHistory(d, A, <<Zero>>, e) ELSE d

\* A || 0 || e, unless there is plaintext and no A.
AddA(d, A, n, e) == IF A # <<>> \/ n = 0 THEN AddToHistory(d, A, <<Zero>>, e) ELSE d

\* Mutant: keeps e.
KeepE(e) == e

FlipE(e) == 1 - e

NoHistory == [h |-> <<>>, o |-> 0, phase |-> "COMPRESSING"]

-----------------------------------------------------------------------------
SANE_Initialize(nonce, taglen) ==
  [d |-> Vatte(Kra(NoHistory, nonce), taglen, FALSE), e |-> 0]

\* X enciphered or deciphered, the history with A and the ciphertext, the tag.
SANE_Crypted(kp, taglen, A, X, wrapping) ==
  LET n == Len(X)
      Y == XorAll(X, VatteOutput(kp.d, n))
      C == IF wrapping THEN Y ELSE X
      a == AddA(IF n # 0 THEN Vatte(kp.d, n, TRUE) ELSE kp.d, A, n, kp.e)
      c == IF n # 0 THEN AddToHistory(a, C, <<One>>, kp.e) ELSE a
  IN  [Y |-> Y, tag |-> VatteOutput(c, taglen),
       kp |-> [d |-> Vatte(c, taglen, FALSE), e |-> FlipE(kp.e)]]

SANE_Wrap(kp, taglen, A, P) ==
  LET w == SANE_Crypted(kp, taglen, A, P, TRUE) IN [D |-> w.kp, C |-> w.Y \o w.tag]

\* A wrong tag wipes the plaintext; the history has grown and stays so.
SANE_Unwrap(kp, taglen, A, C) ==
  LET n == Len(C) - taglen
      w == SANE_Crypted(kp, taglen, A, SubSeq(C, 1, n), FALSE)
      ok == w.tag = SubSeq(C, n + 1, Len(C))
  IN  [D |-> w.kp, P |-> IF ok THEN w.Y ELSE [i \in 1 .. n |-> Zero], ok |-> ok]

-----------------------------------------------------------------------------
SANSE_Initialize == [d |-> NoHistory, e |-> 0]

\* P || 01 || e, and the tag of the history with it.
AddP(d, P, e) == AddToHistory(d, P, <<Zero, One>>, e)

\* The key stream: T || 11 || e is in the place of P.
KeyStream(d, T, e, n) == VatteOutput(AddToHistory(d, T, <<One, One>>, e), n)

\* In Wrap the history with P is the one from before the tag was squeezed.
SANSE_Wrap(kp, taglen, A, P) ==
  LET n == Len(P)
      a == AddA(kp.d, A, n, kp.e)
      p == IF n # 0 THEN AddP(a, P, kp.e) ELSE a
      T == VatteOutput(p, taglen)
  IN  [D |-> [d |-> IF n # 0 THEN p ELSE Vatte(p, taglen, FALSE), e |-> FlipE(kp.e)],
       C |-> XorAll(P, KeyStream(a, T, kp.e, n)) \o T]

SANSE_Unwrap(kp, taglen, A, C) ==
  LET n == Len(C) - taglen
      T == SubSeq(C, n + 1, Len(C))
      a == AddA(kp.d, A, n, kp.e)
      P == XorAll(SubSeq(C, 1, n), KeyStream(a, T, kp.e, n))
      p == IF n # 0 THEN AddP(a, P, kp.e) ELSE a
      ok == VatteOutput(p, taglen) = T
  IN  [D |-> [d |-> Vatte(p, taglen, FALSE), e |-> FlipE(kp.e)],
       P |-> IF ok THEN P ELSE [i \in 1 .. n |-> Zero], ok |-> ok]

=============================================================================
