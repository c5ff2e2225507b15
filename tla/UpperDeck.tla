------------------------------ MODULE UpperDeck ------------------------------
(***************************************************************************)
(* The UpperDeck objects of ShakingUpAE.inc: strings in, and after each an *)
(* output stream as long as the caller likes.  The first block of a stream *)
(* comes from the object D that takes the strings, the other ones from a   *)
(* second object, Dsqueeze, cloned from D when the stream gets there.      *)
(*                                                                         *)
(* Two decks are driven by one caller, who may clone one to the other and  *)
(* makes any call; the loop of UpperDeck_Squeezing runs one iteration a    *)
(* step.  An assertion that fails ends the program.                        *)
(***************************************************************************)
EXTENDS OverwriteDuplex

CONSTANTS
  Decks,      \* the decks
  Rho,        \* the block size in bytes
  Key,        \* the key
  Strings,    \* the strings a caller gives
  Trailers,   \* the trailers E it gives with them
  MaxStrings, \* bound: strings given to each deck
  MaxOutput   \* bound: bytes of one stream of each deck

ASSUME UpperDeckAssumption ==
  /\ Rho \in Nat \ {0} /\ Key \in Seq(SUBSET InputTerms) /\ Len(Key) <= Rho
  /\ Strings \subseteq Seq(SUBSET InputTerms)
  /\ Trailers \subseteq 1 .. 31
  /\ MaxStrings \in [Decks -> Nat] /\ MaxOutput \in [Decks -> Nat]

VARIABLES
  deck,    \* the KeccakWidth1600_UpperDeckInstance of each: D, Dsqueeze, o
  call,    \* the squeezing in progress: what is left of Z, and where in Yadd it is
  aborted, \* an assertion has failed, or a remainder by 0 was taken
  strings, \* history: the strings given to each deck, with their trailers
  stream,  \* history: the bytes given out since the last string, and what was added
  astray   \* history: the decks that were cloned past the first block of a stream

vars == <<deck, call, aborted, strings, stream, astray>>

NoOffset == 2 ^ 16 - 1   \* (size_t)-1: more than any stream
NoAdd == 0 - 1           \* Yadd is the null pointer

Idle == [in |-> "none", left |-> 0, add |-> NoAdd, begun |-> FALSE]

LesserOf(a, b) == IF a <= b THEN a ELSE b

\* Bytes of Z, each with the place in Yadd of the byte added to it; without
\* Yadd there is nothing to add in the wrong place.
Given(bytes, add) ==
  [i \in DOMAIN bytes |-> [z |-> bytes[i], y |-> add + i - 1]]

\* Mutant: stays at the beginning of Yadd.
AddKept(add, n) == add

AddAfter(add, n) == IF add = NoAdd THEN NoAdd ELSE add + n

Ready(d) == deck[d].D.rho # 0 /\ call = Idle /\ ~aborted

-----------------------------------------------------------------------------
NoDeck == [D |-> NoOD, Dsqueeze |-> NoOD, o |-> NoOffset]

Init ==
  /\ deck = [d \in Decks |-> NoDeck] /\ call = Idle /\ aborted = FALSE
  /\ strings = [d \in Decks |-> <<>>] /\ stream = [d \in Decks |-> <<>>] /\ astray = {}

UpperDeck_Initialize(d) ==
  /\ call = Idle /\ ~aborted /\ deck[d] = NoDeck
  /\ deck' = [deck EXCEPT ![d] = [D |-> OD_Initialize(Rho, Key), Dsqueeze |-> NoOD, o |-> NoOffset]]
  /\ UNCHANGED <<call, aborted, strings, stream, astray>>

\* The stream of d has left its first block.
PastFirst(d) == d \in astray \/ (deck[d].o # NoOffset /\ deck[d].o > Rho)

\* Dsqueeze of the clone is a copy of D, not of Dsqueeze.
UpperDeck_Clone(d, e) ==
  /\ Ready(d) /\ d # e
  /\ deck' = [deck EXCEPT ![e] = [o |-> deck[d].o, D |-> deck[d].D, Dsqueeze |-> deck[d].D]]
  /\ strings' = [strings EXCEPT ![e] = strings[d]]
  /\ stream' = [stream EXCEPT ![e] = stream[d]]
  /\ astray' = IF PastFirst(d) THEN astray \cup {e} ELSE astray \ {e}
  /\ UNCHANGED <<call, aborted>>

UpperDeck_CloneCompact(d, e) ==
  /\ Ready(d) /\ d # e
  /\ deck' = [deck EXCEPT ![e] =
                [o |-> NoOffset, D |-> OD_CloneCompact(deck[d].D), Dsqueeze |-> NoOD]]
  /\ strings' = [strings EXCEPT ![e] = strings[d]]
  /\ stream' = [stream EXCEPT ![e] = <<>>]
  /\ astray' = astray \ {e}
  /\ UNCHANGED <<call, aborted>>

\* The call of UpperDeck_Squeezing for n bytes of Z, with or without Yadd; for
\* no byte it changes nothing.
Squeeze(d, n, hasAdd) ==
  call' = IF n = 0 THEN Idle
          ELSE [in |-> d, left |-> n, begun |-> FALSE,
                add |-> IF hasAdd THEN Len(stream'[d]) ELSE NoAdd]

UpperDeck_Duplexing(d, X, E, n, hasAdd) ==
  LET D == AfterFirstBlocks(deck[d].D, X)
      last == LastBlock(deck[d].D, X)
  IN  /\ Ready(d) /\ Len(strings[d]) < MaxStrings[d] /\ n <= MaxOutput[d]
      /\ strings' = [strings EXCEPT ![d] = Append(@, <<X, E>>)]
      /\ stream' = [stream EXCEPT ![d] = <<>>]
      /\ astray' = astray \ {d}
      /\ IF CanDuplex(D, last, OD_Concat(E, 1), 0)
           THEN /\ deck' = [deck EXCEPT ![d] =
                     [D |-> OD_Duplexing(D, last, OD_Concat(E, 1), 0), Dsqueeze |-> NoOD, o |-> 0]]
                /\ Squeeze(d, n, hasAdd)
                /\ UNCHANGED aborted
           ELSE aborted' = TRUE /\ UNCHANGED <<deck, call>>

\* "further squeeze out data from the previous duplexing call"
UpperDeck_Squeezing(d, n, hasAdd) ==
  /\ Ready(d) /\ deck[d].o # NoOffset
  /\ Len(stream[d]) + n <= MaxOutput[d]
  /\ UNCHANGED <<deck, aborted, strings, stream, astray>>
  /\ Squeeze(d, n, hasAdd)

Fails == aborted' = TRUE /\ UNCHANGED <<deck, call, strings, stream, astray>>

\* n bytes have been given out: bytes.
Give(d, n, bytes) ==
  /\ stream' = [stream EXCEPT ![d] =
                  @ \o Given(bytes, IF call.add = NoAdd THEN Len(@) ELSE call.add)]
  /\ call' = IF call.left = n THEN Idle
             ELSE [call EXCEPT !.left = @ - n, !.add = AddAfter(@, n), !.begun = TRUE]
  /\ UNCHANGED <<aborted, strings, astray>>

\* Mutant: does not go on when the first block is used up already.
GoesOnFromBlock(u) == u.o + call.left > u.D.rho /\ u.o < u.D.rho

\* The stream goes on after the first block.
GoesOn(u) == u.o + call.left > u.D.rho

\* What is left of the first block, from D.
FromD ==
  LET d == call.in
      u == deck[d]
      x == LesserOf(u.D.rho - u.o, call.left)
  IN  /\ call # Idle /\ ~aborted /\ ~call.begun /\ u.o <= u.D.rho
      /\ IF CanSqueeze(u.D, x)
           THEN /\ deck' = [deck EXCEPT ![d] =
                     [D |-> OD_Squeezing(u.D, x), o |-> u.o + x,
                      Dsqueeze |-> IF GoesOn(u) THEN OD_CloneCompact(u.D) ELSE u.Dsqueeze]]
                /\ Give(d, x, Output(u.D, u.D.o, x))
           ELSE Fails

\* Mutant: only what a call began in the first block goes on.
InLoopOnceBegun(u) == call # Idle /\ ~aborted /\ call.begun

\* The loop: past the first block.
InLoop(u) == call # Idle /\ ~aborted /\ (call.begun \/ u.o > u.D.rho)

\* At the end of a block: whole blocks, if more than one is needed, then a
\* block of which a part is given.
NewBlocks ==
  LET d == call.in
      u == deck[d]
      q == u.Dsqueeze
      n == IF call.left > q.rho THEN call.left \div q.rho ELSE 0
      r == IF n = 0 THEN q ELSE OD_DuplexingFastOnlyOut(q, 2, n)
      rest == call.left - n * q.rho
      t == IF rest = 0 THEN r ELSE OD_Duplexing(r, <<>>, 2, rest)
  IN  /\ InLoop(u)
      /\ u.Dsqueeze.rho # 0 => u.o % u.Dsqueeze.rho = 0
      /\ IF /\ q.rho # 0
            /\ n # 0 => CanGiveBlocks(q, call.left, call.add # NoAdd)
            /\ rest # 0 => rest <= u.D.rho /\ CanDuplex(r, <<>>, 2, rest)
           THEN /\ deck' = [deck EXCEPT ![d].Dsqueeze = t, ![d].o = @ + call.left]
                /\ Give(d, call.left, BlocksOut(q, 2, n) \o Output(t, 0, rest))
           ELSE Fails

\* What is left of a block of Dsqueeze.
RestOfBlock ==
  LET d == call.in
      u == deck[d]
      x == LesserOf(u.Dsqueeze.rho - (u.o % u.Dsqueeze.rho), call.left)
  IN  /\ InLoop(u)
      /\ u.Dsqueeze.rho # 0 /\ u.o % u.Dsqueeze.rho # 0
      /\ IF CanSqueeze(u.Dsqueeze, x)
           THEN /\ deck' = [deck EXCEPT ![d].Dsqueeze = OD_Squeezing(@, x), ![d].o = @ + x]
                /\ Give(d, x, Output(u.Dsqueeze, u.Dsqueeze.o, x))
           ELSE Fails

Loop == FromD \/ NewBlocks \/ RestOfBlock

Next ==
  \/ \E d \in Decks : UpperDeck_Initialize(d)
  \/ \E d, e \in Decks : UpperDeck_Clone(d, e) \/ UpperDeck_CloneCompact(d, e)
  \/ \E d \in Decks, X \in Strings, E \in Trailers, h \in BOOLEAN :
       \E n \in 0 .. MaxOutput[d] : UpperDeck_Duplexing(d, X, E, n, h)
  \/ \E d \in Decks, h \in BOOLEAN : \E n \in 0 .. MaxOutput[d] :
       UpperDeck_Squeezing(d, n, h)
  \/ Loop

\* A call that has started runs on.
Spec == Init /\ [][Next]_vars /\ WF_vars(Loop)

-----------------------------------------------------------------------------
\* Of the assertions of ShakingUpAE.inc and KeccakOD.inc two fail, on calls the
\* documentation allows, and no other does; nor is a remainder by the block size
\* of a cleared object taken.  At the end of a block, a call that has more than a
\* block to go and Yadd the null pointer fails in OD_DuplexingFastOnlyOut, which
\* asserts that it is not null (ShakingUpAE.inc 270, KeccakOD.inc 99).  And a
\* clone of a deck whose stream has left its first block may fail when it is
\* squeezed on (KeccakOD.inc 183): Dsqueeze of the clone is a copy of D, not of
\* Dsqueeze (ShakingUpAE.inc 223).
OnlyKnownFailures ==
  aborted => \/ call # Idle /\ call.add = NoAdd /\ call.left > Rho
             \/ call.in \in astray

\* However a stream is cut in calls, its bytes are the bytes of the stream of
\* the strings, in order, each added to its own byte of Yadd, if there is one;
\* also on a clone that is squeezed on, if the original was in the first block
\* of the stream.  Past it the clone goes astray (ShakingUpAE.inc 223), until it
\* is given a string of its own or is cloned again.
StreamIsContinuous ==
  \A d \in Decks \ astray : \A i \in 1 .. Len(stream[d]) :
    /\ stream[d][i].z = StreamByte(deck[d].D, i - 1)
    /\ stream[d][i].y = i - 1

\* Two decks that were given different strings, or the same ones cut
\* differently, are in different states, and so give unrelated streams: the
\* padding and the trailers leave no doubt about where a string ends.
StringsDetermineState ==
  \A d, e \in Decks :
    deck[d].D.rho # 0 /\ deck[e].D.rho # 0 /\ deck[d].D.s = deck[e].D.s => strings[d] = strings[e]

\* Every call returns, unless it fails an assertion.
EveryCallReturns == call # Idle ~> call = Idle \/ aborted

=============================================================================
