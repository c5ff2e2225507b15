----------------------------- MODULE ShakingUpAE -----------------------------
(***************************************************************************)
(* The authenticated encryption modes DWrap and Deck-BO of                 *)
(* ShakingUpAE.inc, as operators on the object each of them keeps.         *)
(***************************************************************************)
EXTENDS OverwriteDuplex

LOCAL INSTANCE SequencesExt

-----------------------------------------------------------------------------
(* DWrap, on an overwrite duplex object.  The metadata A is absorbed, and  *)
(* the ciphertext after it, block by block: each block of plaintext is     *)
(* added to the output that the block before it gave.                      *)

Least(a, b) == IF a <= b THEN a ELSE b

\* A but its last block is absorbed; what is left of it.
AfterFirstA(D, A) ==
  IF Len(A) > D.rho THEN OD_DuplexingFastOnlyIn(D, A, 5) ELSE D

LastA(D, A) ==
  IF Len(A) > D.rho THEN SubSeq(A, BlocksButLast(D, Len(A)) * D.rho + 1, Len(A)) ELSE A

\* X from block to block: each is added to the output, and the ciphertext, which
\* is the result (wrapping) or X itself, is absorbed for the next one.
NextBlock(w, x, wrapping) ==
  LET D == OD_Duplexing(w.D, w.last, 4, Len(x))
      y == XorAll(x, Output(D, 0, Len(x)))
  IN  [D |-> D, y |-> w.y \o y, last |-> IF wrapping THEN y ELSE x]

\* Mutant: squeezes the first block without metadata over the tag before it.
FirstWithoutATag(D, taglen, n) ==
  LET b == Least(n, D.rho) IN [D |-> [D EXCEPT !.o = b], z |-> Output(D, 0, b)]

\* The output for the first block: of the last block of A, or without one what
\* the tag of the message before left of the block it is from.
FirstWithoutA(D, taglen, n) ==
  LET b == Least(n, D.rho - taglen) IN [D |-> OD_Squeezing(D, b), z |-> Output(D, D.o, b)]

FirstOutput(D, taglen, A, n) ==
  IF A = <<>> THEN FirstWithoutA(D, taglen, n)
  ELSE LET b == Least(n, D.rho)
           E == OD_Duplexing(D, A, 5, b)
       IN  [D |-> E, z |-> Output(E, 0, b)]

\* X after its first block, in blocks: the last one may be shorter.
RestInBlocks(rho, X, b) ==
  [i \in 1 .. (Len(X) - b + rho - 1) \div rho |->
     SubSeq(X, b + (i - 1) * rho + 1, Least(b + i * rho, Len(X)))]

\* The first block of X is done; its ciphertext is absorbed next.
Started(first, X, wrapping) ==
  LET x == SubSeq(X, 1, Len(first.z))
      y == XorAll(x, first.z)
  IN  [D |-> first.D, y |-> y, last |-> IF wrapping THEN y ELSE x]

InBlocks(w, X, wrapping) ==
  FoldLeft(LAMBDA v, x : NextBlock(v, x, wrapping), w, RestInBlocks(w.D.rho, X, Len(w.y)))

Tagged(D, y, taglen) == [D |-> D, y |-> y, tag |-> Output(D, 0, taglen)]

Finished(w, taglen) == Tagged(OD_Duplexing(w.D, w.last, 6, taglen), w.y, taglen)

\* X enciphered or deciphered, and the tag.
Crypted(D0, taglen, A0, X, wrapping) ==
  LET D == AfterFirstA(D0, A0)
      A == LastA(D0, A0)
      first == FirstOutput(D, taglen, A, Len(X))
  IN  IF X = <<>> THEN Tagged(OD_Duplexing(D, A, 7, taglen), <<>>, taglen)
      ELSE Finished(InBlocks(Started(first, X, wrapping), X, wrapping), taglen)

DWrap_Initialize(rho, k) == OD_Initialize(rho, k)

WithTag(w) == [D |-> w.D, C |-> w.y \o w.tag]

DWrap_Wrap(D, taglen, A, P) == WithTag(Crypted(D, taglen, A, P, TRUE))

\* Mutant: goes on from the state it has reached.
AfterWrongTagKept(D, reached) == reached

\* A wrong tag: the state before the call is restored.
AfterWrongTag(D, reached) == D

\* The plaintext if T is the tag; else zeroes, and the instance as it was.
IfTag(T, D, w) ==
  IF w.tag = T THEN [D |-> w.D, P |-> w.y, ok |-> TRUE]
  ELSE [D |-> AfterWrongTag(D, w.D), P |-> [i \in DOMAIN w.y |-> Zero], ok |-> FALSE]

DWrap_Unwrap(D, taglen, A, C) ==
  LET n == Len(C) - taglen
  IN  IF n < 0 THEN [D |-> D, P |-> <<>>, ok |-> FALSE]
      ELSE IfTag(SubSeq(C, n + 1, Len(C)), D, Crypted(D, taglen, A, SubSeq(C, 1, n), FALSE))

-----------------------------------------------------------------------------
(* Deck-BO, on a deck.  The tag is computed first, from all strings so far *)
(* and the plaintext; the key stream is the stream after the tag, of a     *)
(* clone that has not taken the plaintext.                                 *)

\* The metadata, unless it is empty.
AfterA(D, A) == IF A = <<>> THEN D ELSE AfterString(D, A, 5)

DeckBO_Initialize(rho, k) == OD_Initialize(rho, k)

\* Of a clone that takes the tag T in the place of the plaintext.
KeyedStream(D, T, n) == Stream(AfterString(OD_CloneCompact(D), T, 13), n)

Enciphered(D, P, E, taglen) ==
  LET T == Stream(E, taglen) IN [D |-> E, C |-> XorAll(P, KeyedStream(D, T, Len(P))) \o T]

DeckBO_Wrap(D0, taglen, A, P) ==
  IF P = <<>>
  THEN LET D == AfterString(D0, A, 4) IN [D |-> D, C |-> Stream(D, taglen)]
  ELSE LET D == AfterA(D0, A)
       IN  Enciphered(D, P, AfterString(D, P, 14), taglen)

\* A wrong tag: the saved deck is cloned back.
Restored(D, reached) == D

\* The plaintext if T is the tag of deck E; else zeroes, and the deck as it was.
IfStreamTag(T, D0, E, P, taglen) ==
  IF Stream(E, taglen) = T THEN [D |-> E, P |-> P, ok |-> TRUE]
  ELSE [D |-> Restored(D0, E), P |-> [i \in DOMAIN P |-> Zero], ok |-> FALSE]

Deciphered(D0, D, P, T, taglen) == IfStreamTag(T, D0, AfterString(D, P, 14), P, taglen)

DeckBO_Unwrap(D0, taglen, A, C) ==
  LET n == Len(C) - taglen
      T == SubSeq(C, n + 1, Len(C))
      D == AfterA(D0, A)
  IN  IF n < 0 THEN [D |-> D0, P |-> <<>>, ok |-> FALSE]
      ELSE IF n = 0 THEN IfStreamTag(T, D0, AfterString(D0, A, 4), <<>>, taglen)
      ELSE Deciphered(D0, D, XorAll(SubSeq(C, 1, n), Stream(AfterString(D, T, 13), n)), T, taglen)

=============================================================================
