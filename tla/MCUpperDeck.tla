---------------------------- MODULE MCUpperDeck -----------------------------
(* Blocks of 2 bytes; strings that end in, at and after a block, of the    *)
(* values the padding has; a trailer of Deck-BO and the trailer the blocks *)
(* of a string have.  The streams of one of the decks are long enough for  *)
(* a block of D, whole blocks of Dsqueeze and a part of one; those of the  *)
(* other one leave the first block, so that it is cloned before, at and    *)
(* after the end of it.                                                    *)
EXTENDS UpperDeck, TLC

CONSTANTS original, clone

MCKey == <<One>>
MCStrings == {<<>>, <<One>>, <<One, Zero>>, <<One, Zero, One, Zero>>}
MCMaxStrings == original :> 1 @@ clone :> 2
MCMaxOutput == original :> 3 @@ clone :> 5
=============================================================================
