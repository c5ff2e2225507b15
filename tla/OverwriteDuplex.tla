--------------------------- MODULE OverwriteDuplex ---------------------------
(***************************************************************************)
(* The overwrite duplex object of KeccakOD.inc, as a value.  A duplexing   *)
(* call overwrites the whole outer part of the state with its padded       *)
(* input, adds the trailer to the inner part and permutes.  So the state   *)
(* is determined by the blocks it has taken, in order, and the permutation *)
(* is modelled as the identity on that sequence: what is output is a place *)
(* in the outer part of the state after those blocks.                      *)
(***************************************************************************)
EXTENDS SymbolicOutput

\* An object that is cleared: rho is 0.
NoOD == [rho |-> 0, o |-> 0, s |-> <<>>]

\* The highest power of two in E.
Top(E) == CHOOSE t \in {2 ^ i : i \in 0 .. 7} : t <= E /\ E < 2 * t

\* Mutant: adds a bit 0 whatever the bit is.
OD_ConcatZero(E, bt) == E + Top(E)

\* The trailer E, a bit string with a bit 1 on top of it, with one bit more.
OD_Concat(E, bt) == E + Top(E) * 2 ^ bt

\* The outer part of the state: the input, then a byte 1 and zeroes if it is not a whole block.
Padded(rho, bytes) ==
  [i \in 1 .. rho |-> IF i <= Len(bytes) THEN bytes[i] ELSE IF i = Len(bytes) + 1 THEN One ELSE Zero]

\* The state after a duplexing call: the outer part and the trailer are added to it.
After(od, bytes, E) ==
  Append(od.s, <<Absorbed(od.s, Padded(od.rho, bytes)),
                 OD_Concat(E, IF Len(bytes) = od.rho THEN 1 ELSE 0)>>)

\* The assertions of OD_Duplexing and OD_Squeezing.
CanDuplex(od, bytes, E, olen) ==
  od.rho # 0 /\ E \in 1 .. 63 /\ Len(bytes) <= od.rho /\ olen <= od.rho

CanSqueeze(od, olen) == od.rho # 0 /\ olen <= od.rho - od.o

\* The n bytes of output of od from place o on.
Output(od, o, n) == OutputFrom(od.s, o, n)

OD_Duplexing(od, bytes, E, olen) ==
  [od EXCEPT !.s = After(od, bytes, E), !.o = olen]

OD_Squeezing(od, olen) == [od EXCEPT !.o = @ + olen]

OD_Initialize(rho, k) == OD_Duplexing([rho |-> rho, o |-> rho, s |-> <<>>], k, 1, 0)

\* The clone has no output left.
OD_CloneCompact(od) == [od EXCEPT !.o = od.rho]

\* How many blocks OD_DuplexingFastOnlyIn takes: all but the last, which may be whole.
BlocksButLast(od, len) == (len - 1) \div od.rho

\* They are whole blocks, of input that was there when the call began.
OD_DuplexingFastOnlyIn(od, bytes, E) ==
  [od EXCEPT !.o = 0,
             !.s = @ \o [i \in 1 .. BlocksButLast(od, Len(bytes)) |->
                <<Absorbed(od.s, SubSeq(bytes, (i - 1) * od.rho + 1, i * od.rho)), OD_Concat(E, 1)>>]]

\* The assertions of OD_DuplexingFastOnlyOut, and its effect when it gives n blocks.
CanGiveBlocks(od, len, hasAdd) == len >= od.rho /\ hasAdd

OD_DuplexingFastOnlyOut(od, E, n) ==
  IF n = 0 THEN od
  ELSE [od EXCEPT !.o = od.rho,
                  !.s = @ \o [i \in 1 .. n |-> <<Padded(od.rho, <<>>), OD_Concat(E, 0)>>]]

\* Its output: n whole blocks, each from the state after one block more.
BlocksOut(od, E, n) ==
  [k \in 1 .. n * od.rho |->
     {<<OD_DuplexingFastOnlyOut(od, E, (k - 1) \div od.rho + 1).s, (k - 1) % od.rho>>}]

-----------------------------------------------------------------------------
(* A deck function made of such an object: strings of any length in, and   *)
(* after each an output stream of any length.  UpperDeck is shown to give  *)
(* this stream however a caller cuts it; what is built on UpperDeck uses   *)
(* it as it is stated here.                                                *)

\* All blocks but the last one, if there are several.
AfterFirstBlocks(D, X) ==
  IF Len(X) > D.rho THEN OD_DuplexingFastOnlyIn(D, X, 2) ELSE D

LastBlock(D, X) ==
  IF Len(X) > D.rho THEN SubSeq(X, BlocksButLast(D, Len(X)) * D.rho + 1, Len(X)) ELSE X

\* The deck after string X with trailer E.
AfterString(D, X, E) ==
  OD_Duplexing(AfterFirstBlocks(D, X), LastBlock(D, X), OD_Concat(E, 1), 0)

\* Byte i of the stream of a deck, counted from 0: block i \div rho is what the
\* state gives after as many empty blocks with trailer 2.
StreamByte(D, i) ==
  {<<OD_DuplexingFastOnlyOut(D, 2, i \div D.rho).s, i % D.rho>>}

Stream(D, n) == [i \in 1 .. n |-> StreamByte(D, i - 1)]

=============================================================================
