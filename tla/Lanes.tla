------------------------------- MODULE Lanes -------------------------------
(***************************************************************************)
(* Lanes, bytes and buffers, as the permutations of lib/low handle them.   *)
(*                                                                         *)
(* A word of w bits is the set of the positions of its bits that are 1, so *)
(* that XOR is the symmetric difference, AND the intersection, OR the      *)
(* union.  A byte is such a word of 8 bits.  A buffer is a function from   *)
(* 0 .. n-1 to bytes, and an array of lanes a function from 0 .. n-1 to    *)
(* words, indexed as the code indexes them.  Bytes are mapped to lanes     *)
(* little-endian first, which is how every implementation lays them out.   *)
(***************************************************************************)
EXTENDS Integers

Byte == SUBSET (0..7)

Xor(a, b) == (a \ b) \cup (b \ a)
And(a, b) == a \cap b
Or(a, b)  == a \cup b
Not(w, a) == (0 .. w - 1) \ a
Rol(w, a, n) == {(w * (b \div w)) + ((b + n) % w) : b \in a}   \* every lane of w bits
Shl(w, a, n) == {b + n : b \in a} \cap (0 .. w - 1)
Shr(a, n)    == {b \in {c - n : c \in a} : b >= 0}
Srl(w, a, n) == {b - n : b \in {c \in a : c % w >= n}}                       \* every lane

(***************************************************************************)
(* A vector register of N lanes of w bits is a word of N * w bits.         *)
(***************************************************************************)
Lane(w, r, i)    == {b - (w * i) : b \in {c \in r : c \div w = i}}
AtLane(w, word, i) == {(w * i) + b : b \in word}
Register(w, N, word(_)) == UNION {AtLane(w, word(i), i) : i \in 0 .. N - 1}

(***************************************************************************)
(* Pointer arithmetic: the n bytes of a buffer from position p, the word   *)
(* that memcpy() of n bytes from there makes, and byte i of a word.        *)
(***************************************************************************)
Slice(data, p, n) == [i \in 0 .. n - 1 |-> data[p + i]]
Word(data, p, n)  == UNION {{8 * i + b : b \in data[p + i]} : i \in 0 .. n - 1}
ByteOf(word, i)   == {b \in 0..7 : 8 * i + b \in word}
Join(s, n, t, m)  == [i \in 0 .. n + m - 1 |-> IF i < n THEN s[i] ELSE t[i - n]]
Zeroes(n)         == [i \in 0 .. n - 1 |-> {}]
XorBytes(s, t, n) == [i \in 0 .. n - 1 |-> Xor(s[i], t[i])]

\* The value v.  The choice from a set of one, with u = u, makes TLC evaluate it
\* once, however often it is used.
Fixed(v) == CHOOSE u \in {v} : u = u

\* F(v), with v fixed.
With(v, F(_)) == CHOOSE w \in {F(u) : u \in {Fixed(v)}} : w = w

\* for(i=0; i<n; i++) S = Body(S, i), with the state after a step fixed.  Five
\* steps at a time, for the recursion to stay shallow.
Loop(Body(_, _), S, n) ==
    LET Steps(T, first) ==
            LET after[i \in 0 .. 5] ==
                    IF i = 0 THEN T
                    ELSE IF first + i > n THEN after[i - 1]
                    ELSE CHOOSE V \in {Body(U, first + i - 1) : U \in {after[i - 1]}} : V = V
            IN  after[5]
        group[j \in 0 .. (n + 4) \div 5] ==
            IF j = 0 THEN S ELSE CHOOSE V \in {Steps(U, 5 * (j - 1)) : U \in {group[j - 1]}} : V = V
    IN  group[(n + 4) \div 5]

\* The state after a function, and what it returned.
Done(S)   == [state |-> S, out |-> << >>]
Got(S, v) == [state |-> S, out |-> v]

(***************************************************************************)
(* Access to a range of bytes, lane by lane.  The range is cut at every    *)
(* boundary of a lane of L bytes: n bytes of the data, at position from,   *)
(* are for bytes offset .. offset + n - 1 of a lane.                       *)
(***************************************************************************)
Pieces(offset, length, L) ==
    IF length = 0 THEN 0 ELSE (((offset % L) + length - 1) \div L) + 1

Piece(i, offset, length, L) ==
    LET from == IF i = 0 THEN 0 ELSE (i * L) - (offset % L)
        end  == ((i + 1) * L) - (offset % L)
    IN  [lane |-> (offset \div L) + i, offset |-> IF i = 0 THEN offset % L ELSE 0,
         from |-> from, n |-> (IF end > length THEN length ELSE end) - from]

\* Part(S, lane, data, offset, n) puts n bytes into a lane.
PutPieces(S, data, offset, length, Part(_, _, _, _, _), L) ==
    LET Put(T, i) == LET p == Piece(i, offset, length, L)
                     IN  Part(T, p.lane, Slice(data, p.from, p.n), p.offset, p.n)
    IN  Loop(Put, S, Pieces(offset, length, L))

\* Part(lane, data, offset, n) gets n bytes of a lane, added to data when the
\* variant adds.
GetPieces(data, offset, length, Part(_, _, _, _), L) ==
    LET Get(got, i) == LET p == Piece(i, offset, length, L)
                       IN  Join(got, p.from, Part(p.lane, Slice(data, p.from, p.n), p.offset, p.n), p.n)
    IN  Loop(Get, Zeroes(0), Pieces(offset, length, L))

(***************************************************************************)
(* SnP-Relaned.h: from offset 0 the whole lanes go at once and the rest to *)
(* the lane after them; any other range is cut.  Lanes handles n whole     *)
(* lanes at the start of the state.                                        *)
(***************************************************************************)
SnP_PutBytes(S, data, offset, length, Lanes(_, _, _), Part(_, _, _, _, _), L) ==
    IF offset = 0
    THEN LET n    == length \div L
             rest == length % L
             T    == Lanes(S, data, n)
         IN  IF rest > 0 THEN Part(T, n, Slice(data, n * L, rest), 0, rest) ELSE T
    ELSE PutPieces(S, data, offset, length, Part, L)

SnP_GetBytes(data, offset, length, Lanes(_, _), Part(_, _, _, _), L) ==
    IF offset = 0
    THEN LET n    == length \div L
             rest == length % L
             whole == Lanes(data, n)
         IN  IF rest > 0
             THEN Join(whole, n * L, Part(n, Slice(data, n * L, rest), 0, rest), rest)
             ELSE whole
    ELSE GetPieces(data, offset, length, Part, L)
=============================================================================
