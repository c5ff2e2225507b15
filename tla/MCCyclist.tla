------------------------------ MODULE MCCyclist ------------------------------
(* Blocks of 2 units for hashing, 4 in and 3 out in keyed mode.  The       *)
(* strings are empty, less than a block, a block, blocks and a part of     *)
(* one; the zero string ends where padding could be taken for data.        *)
EXTENDS CyclistSession, TLC

Plain == [K |-> <<>>, ID |-> <<>>, counter |-> <<>>]
KeyAlone == [K |-> <<One, One>>, ID |-> <<>>, counter |-> <<>>]
KeyAndID == [K |-> <<One>>, ID |-> <<One>>, counter |-> <<>>]
KeyAndCounter == [KeyAlone EXCEPT !.counter = <<One, Zero>>]

MCKernels == {<<TRUE, FALSE>>, <<FALSE, TRUE>>}
MCStarts ==
  {<<Plain, Plain>>, <<KeyAlone, KeyAlone>>, <<KeyAlone, KeyAndID>>, <<KeyAlone, KeyAndCounter>>}
MCStrings == {<<>>, <<One>>, <<Zero, Zero, Zero, Zero>>, [i \in 1 .. 8 |-> Zero]}
=============================================================================
