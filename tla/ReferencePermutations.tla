----------------------- MODULE ReferencePermutations -----------------------
(***************************************************************************)
(* The two permutations, as the reference implementations of lib/low       *)
(* compute them: KeccakP-1600/ref-64bits and Xoodoo/ref.  These are        *)
(* written step by step after the specification, keep the state as bytes   *)
(* and compute their constants; every other implementation is compared     *)
(* with them.  Lane (x, y) of Keccak-p[1600] is A[x + 5 * y], lane (x, y)  *)
(* of Xoodoo is a[x + 4 * y].                                              *)
(***************************************************************************)
EXTENDS Lanes

\* fromBytesToWords and fromWordsToBytes, n lanes of L bytes
FromBytesToWords(state, n, L) == [l \in 0 .. n - 1 |-> Word(state, l * L, L)]
FromWordsToBytes(A, n, L) == [i \in 0 .. n * L - 1 |-> ByteOf(A[i \div L], i % L)]

----------------------------------------------------------------------------
(***************************************************************************)
(* Keccak-p[1600]: the constants that KeccakP1600_StaticInitialize makes.  *)
(***************************************************************************)
ROL64(a, offset) == Rol(64, a, offset)

\* The LFSR of x^8+x^6+x^5+x^4+1 after n steps from 0x01 
LFSR86540(s) == Xor(Shl(8, s, 1), IF 7 \in s THEN {0, 4, 5, 6} ELSE {})
LFSRstate(n) == Loop(LAMBDA s, i : LFSR86540(s), {0}, n)

KeccakRoundConstants ==
    [i \in 0..23 |-> {2 ^ j - 1 : j \in {k \in 0..6 : 0 \in LFSRstate(7 * i + k)}}]

\* The walk (x, y) -> (y, 2x + 3y) from (1, 0), with offset (t+1)(t+2)/2 at step t.
Walk(t) == Loop(LAMBDA p, i : <<p[2], (2 * p[1] + 3 * p[2]) % 5>>, <<1, 0>>, t)
KeccakRhoOffsets ==
    [l \in 0..24 |->
        IF l = 0 THEN 0
        ELSE LET t == CHOOSE u \in 0..23 : \E p \in {Walk(u)} : p[1] + 5 * p[2] = l
             IN  (((t + 1) * (t + 2)) \div 2) % 64]

theta(A) ==
    LET C == [x \in 0..4 |-> Xor(A[x], Xor(A[x+5], Xor(A[x+10], Xor(A[x+15], A[x+20]))))]
        D(c) == [x \in 0..4 |-> Xor(ROL64(c[(x + 1) % 5], 1), c[(x + 4) % 5])]
    IN  With(With(C, D), LAMBDA d : [l \in 0..24 |-> Xor(A[l], d[l % 5])])

rho(A) == [l \in 0..24 |-> ROL64(A[l], KeccakRhoOffsets[l])]

\* Lane (x, y) goes to (y, 2x + 3y): lane (X, Y) comes from (X + 3Y, X).
pi(A) == [l \in 0..24 |-> LET X == l % 5 Y == l \div 5 IN A[((X + 3 * Y) % 5) + 5 * X]]

chi(A) == [l \in 0..24 |-> LET x == l % 5 y == l - x
                           IN  Xor(A[l], And(Not(64, A[((x+1) % 5) + y]), A[((x+2) % 5) + y]))]

iota(A, i) == [A EXCEPT ![0] = Xor(@, KeccakRoundConstants[i])]

KeccakP1600Round(A, i) == iota(chi(Fixed(pi(rho(theta(A))))), i)

KeccakP1600OnWords(A, nrRounds) ==
    Loop(LAMBDA B, i : KeccakP1600Round(B, 24 - nrRounds + i), A, nrRounds)

KeccakP1600_Permute_Nrounds(state, nrounds) ==
    FromWordsToBytes(KeccakP1600OnWords(FromBytesToWords(state, 25, 8), nrounds), 25, 8)

----------------------------------------------------------------------------
(***************************************************************************)
(* Xoodoo: the round constants of Xoodoo.h, rc12 first.                    *)
(***************************************************************************)
ROTL32(a, offset) == Rol(32, a, offset)

RC == <<{3, 4, 6}, {3, 4, 5}, {6, 7, 8, 9}, {4, 6, 7}, {5, 8}, {2, 4},
        {5, 6}, {2, 3, 5}, {7, 8, 9}, {4, 5, 6, 7}, {5, 7, 8}, {1, 4}>>

LOCAL index(x, y) == 4 * (y % 3) + (x % 4)
LOCAL Plane(F(_, _)) == [l \in 0..11 |-> F(l % 4, l \div 4)]

Xoodoo_Theta(a) ==
    LET p == [x \in 0..3 |-> Xor(a[x], Xor(a[x + 4], a[x + 8]))]
        e == [x \in 0..3 |-> Xor(ROTL32(p[(x + 3) % 4], 5), ROTL32(p[(x + 3) % 4], 14))]
    IN  [l \in 0..11 |-> Xor(a[l], e[l % 4])]

Xoodoo_RhoWest(a) ==
    Plane(LAMBDA x, y : CASE y = 0 -> a[x]
                          [] y = 1 -> a[index(x + 3, 1)]
                          [] y = 2 -> ROTL32(a[index(x, 2)], 11))

Xoodoo_Chi(a) ==
    Plane(LAMBDA x, y : Xor(a[index(x, y)],
                            And(Not(32, a[index(x, y + 1)]), a[index(x, y + 2)])))

Xoodoo_RhoEast(a) ==
    Plane(LAMBDA x, y : CASE y = 0 -> a[x]
                          [] y = 1 -> ROTL32(a[index(x, 1)], 1)
                          [] y = 2 -> ROTL32(a[index(x + 2, 2)], 8))

Xoodoo_Round(a, rc) ==
    Xoodoo_RhoEast(Xoodoo_Chi([Xoodoo_RhoWest(Xoodoo_Theta(a)) EXCEPT ![0] = Xor(@, rc)]))

Xoodoo_Permute_Nrounds(state, nr) ==
    FromWordsToBytes(
        Loop(LAMBDA a, i : Xoodoo_Round(a, RC[12 - nr + i + 1]),
             FromBytesToWords(state, 12, 4), nr), 12, 4)
=============================================================================
