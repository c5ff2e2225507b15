----------------------------- MODULE MCAESession -----------------------------
(* Blocks of 2 units and tags of 1.  The messages have metadata, plaintext,*)
(* both or none, of less than a block and of several, whole and not; what  *)
(* one message holds, two others hold together.                            *)
EXTENDS AESession, TLC

CONSTANTS alice, carol, bob

MCKey == <<One>>
MCMessages ==
  {[A |-> <<>>, P |-> <<>>],
   [A |-> <<One, Zero, One, Zero>>, P |-> <<>>],
   [A |-> <<>>, P |-> <<One>>],
   [A |-> <<>>, P |-> <<One, Zero, One>>],
   [A |-> <<One, Zero, One, Zero>>, P |-> <<One, Zero, One>>]}
MCMaxWraps == alice :> 2 @@ carol :> 1
=============================================================================
