-------------------------------- MODULE MCHash ------------------------------
(* Blocks of 6 bytes, lanes and chaining values of 2, blocks of            *)
(* ParallelHash of 2 and 8 bytes: less than a block of the sponge, and one *)
(* with a rest.  Lengths of 256 bits are encoded in two bytes.             *)
EXTENDS HashSession

Empty == Whole(<<>>)
A == Whole(<<65>>)
Long == Whole([i \in 1 .. 32 |-> 1])

\* The first byte begins like the suffixes, with and without what follows it.
MCText == <<31, 6, 4, 0, 1, 1, 2, 3, 1, 0, 2, 8, 9, 1, 7, 5, 10, 0>>
MCParallelism == <<4, 2>>
MCElements == {Empty, A, Whole(<<1, 0>>), [bytes |-> <<1>>, n |-> 3]}

Start == [fn |-> "Keccak_Hash", suffix |-> 6, output |-> 16, name |-> Empty, custom |-> Empty,
          key |-> Empty, blockLen |-> 2]

MCStarts ==
  {[Start EXCEPT !.suffix = x, !.output = o] : x \in {0, 6, 31}, o \in {0, 16}}
  \cup {[Start EXCEPT !.fn = "cSHAKE", !.output = o, !.name = x, !.custom = c] :
          o \in {0, 12}, x \in {Empty, A, [bytes |-> <<65>>, n |-> 7]}, c \in {Empty, A, [bytes |-> <<1>>, n |-> 3]}}
  \cup {[Start EXCEPT !.fn = "KMAC", !.output = o, !.key = k, !.custom = c] :
          o \in {0, 12}, k \in {Empty, Whole(<<1>>), Whole(<<1, 0>>), [bytes |-> <<1>>, n |-> 4]}, c \in {Empty, Long}}
  \cup {[Start EXCEPT !.fn = "TupleHash", !.output = o, !.custom = c] : o \in {0, 256}, c \in {Empty, A}}
  \cup {[Start EXCEPT !.fn = "ParallelHash", !.output = o, !.blockLen = b, !.custom = c] :
          o \in {0, 12}, b \in {1, 2, 6, 8}, c \in {Empty, A}}
=============================================================================
