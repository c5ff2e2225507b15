------------------------------ MODULE SpongeXOF -----------------------------
(***************************************************************************)
(* What the message-queue interface of the sponge promises its caller: an  *)
(* object that takes a message in pieces, is told once where it ends, and  *)
(* then gives out, in pieces, the bytes of Sponge(message), each once and  *)
(* in order.  There is no block, no index and no permutation here.         *)
(***************************************************************************)
EXTENDS SpongeFunction, Sequences

VARIABLES
  rate,       \* 0 until the object is opened
  absorbed,   \* length of the message received so far
  delimiter,  \* 0 while the message is open, then the byte that ended it
  output      \* the bytes given out

xof == <<rate, absorbed, delimiter, output>>

Init == rate = 0 /\ absorbed = 0 /\ delimiter = 0 /\ output = <<>>

Open ==
  /\ rate' \in Nat \ {0}
  /\ absorbed' = 0 /\ delimiter' = 0 /\ output' = <<>>

Absorb ==
  /\ rate # 0 /\ delimiter = 0
  /\ absorbed' > absorbed
  /\ UNCHANGED <<rate, delimiter, output>>

Finish ==
  /\ rate # 0 /\ delimiter = 0
  /\ delimiter' \in 1 .. 255
  /\ UNCHANGED <<rate, absorbed, output>>

Squeeze ==
  /\ rate # 0 /\ delimiter # 0
  /\ Len(output') > Len(output)
  /\ output' = [k \in 1 .. Len(output') |->
                  IF k <= Len(output)
                    THEN output[k]
                    ELSE OneShotByte(rate \div 8, absorbed, delimiter, k - 1)]
  /\ UNCHANGED <<rate, absorbed, delimiter>>

Next == Open \/ Absorb \/ Finish \/ Squeeze

Spec == Init /\ [][Next]_xof

=============================================================================
