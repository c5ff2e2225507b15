---------------------------- MODULE KeccakRounds ----------------------------
(***************************************************************************)
(* The rounds of Keccak-p[1600], as the optimized implementations of       *)
(* lib/low write them: on one lane of 64 bits per variable, or on a        *)
(* register of N such lanes that belong to N states.                       *)
(*                                                                         *)
(* There are two families.  KeccakP-1600-64.macros and its copies for      *)
(* vectors go from lanes A to lanes E, in the order of pi, and gather the  *)
(* column parities of the next round on the way.  The AVX-512 code works   *)
(* in place: the results of a row go where its inputs were, and after four *)
(* rounds every lane is back at its own place.                             *)
(***************************************************************************)
EXTENDS Lanes

KeccakF1600RoundConstants ==
  << {0}, {1, 7, 15}, {1, 3, 7, 15, 63}, {15, 31, 63}, {0, 1, 3, 7, 15}, {0, 31},
     {0, 7, 15, 31, 63}, {0, 3, 15, 63}, {1, 3, 7}, {3, 7}, {0, 3, 15, 31},
     {1, 3, 31}, {0, 1, 3, 7, 15, 31}, {0, 1, 3, 7, 63}, {0, 3, 7, 15, 63},
     {0, 1, 15, 63}, {1, 15, 63}, {7, 63}, {1, 3, 15}, {1, 3, 31, 63},
     {0, 7, 15, 31, 63}, {7, 15, 63}, {0, 31}, {3, 15, 31, 63} >>

\* CONST256_64 and the like: the word in every lane.
Set1(N, word) == Register(64, N, LAMBDA i : word)

ROL(a, offset) == Rol(64, a, offset)
ANDnu(a, b) == b \ a

prepareTheta(A) ==
    Fixed([x \in 0..4 |-> Xor(A[x], Xor(A[x+5], Xor(A[x+10], Xor(A[x+15], A[x+20]))))])

Effect(C) == Fixed([x \in 0..4 |-> Xor(C[(x + 4) % 5], ROL(C[(x + 1) % 5], 1))])

----------------------------------------------------------------------------
(***************************************************************************)
(* From A to E.  For the rows b, g, k, m and s of E, numbered from 0: the  *)
(* lanes that pi brings there, in order, and their rotations.              *)
(***************************************************************************)
Source == << <<0, 6, 12, 18, 24>>, <<3, 9, 10, 16, 22>>, <<1, 7, 13, 19, 20>>,
             <<4, 5, 11, 17, 23>>, <<2, 8, 14, 15, 21>> >>
Offset == << <<0, 44, 43, 21, 14>>, <<28, 20, 3, 45, 61>>, <<1, 6, 25, 8, 18>>,
             <<27, 36, 10, 15, 56>>, <<62, 55, 39, 41, 2>> >>

B(row, A, D) ==
    Fixed([x \in 0..4 |-> LET l == Source[row + 1][x + 1]
                          IN  ROL(Xor(A[l], D[l % 5]), Offset[row + 1][x + 1])])

chi(row, R) == [x \in 0..4 |-> Xor(R[x], ANDnu(R[(x + 1) % 5], R[(x + 2) % 5]))]

\* Chi(row, R) is chi of a row; C are the column parities of A.
thetaRhoPiChiIota(Chi(_, _), N, i, A, C) ==
    LET rc == Set1(N, KeccakF1600RoundConstants[i + 1])
        Rows(D) == [row \in 0..4 |-> Chi(row, B(row, A, D))]
        Lanes(E) == [l \in 0..24 |-> E[l \div 5][l % 5]]
    IN  With(With(Effect(C), Rows), LAMBDA E : [Lanes(E) EXCEPT ![0] = Xor(@, rc)])

thetaRhoPiChiIotaPrepareTheta(Chi(_, _), N, i, A, C) ==
    With(thetaRhoPiChiIota(Chi, N, i, A, C), LAMBDA E : [lanes |-> E, C |-> prepareTheta(E)])

(***************************************************************************)
(* KeccakP-1600-unrolling.macros: the rounds in order, each of them with   *)
(* the column parities that the one before has prepared.  Theta is         *)
(* prepareTheta, RoundAndTheta thetaRhoPiChiIotaPrepareTheta and Round     *)
(* thetaRhoPiChiIota, of the file that includes them.                      *)
(***************************************************************************)
LOCAL Unrolled(Theta(_), RoundAndTheta(_, _, _), Round(_, _, _), first, last, A) ==
    LET S == Loop(LAMBDA T, i : RoundAndTheta(first + i, T.lanes, T.C),
                  [lanes |-> A, C |-> Theta(A)], last - first)
    IN  Round(last, S.lanes, S.C)

rounds24(Theta(_), RoundAndTheta(_, _, _), Round(_, _, _), A) ==
    Unrolled(Theta, RoundAndTheta, Round, 0, 23, A)
rounds12(Theta(_), RoundAndTheta(_, _, _), Round(_, _, _), A) ==
    Unrolled(Theta, RoundAndTheta, Round, 12, 23, A)
rounds6(Theta(_), RoundAndTheta(_, _, _), Round(_, _, _), A) ==
    Unrolled(Theta, RoundAndTheta, Round, 18, 23, A)
rounds4(Theta(_), RoundAndTheta(_, _, _), Round(_, _, _), A) ==
    Unrolled(Theta, RoundAndTheta, Round, 20, 23, A)

\* roundsN: one round first when their number is odd, then two at a time.
roundsN(Theta(_), RoundAndTheta(_, _, _), nr, A) ==
    LET i0    == 24 - nr
        start == [lanes |-> A, C |-> Theta(A)]
        S     == IF i0 % 2 # 0 THEN RoundAndTheta(i0, A, start.C) ELSE start
        Two(T, i) == LET j == i0 + (i0 % 2) + 2 * i
                     IN  With(RoundAndTheta(j, T.lanes, T.C),
                              LAMBDA U : RoundAndTheta(j + 1, U.lanes, U.C))
    IN  Loop(Two, S, nr \div 2).lanes

----------------------------------------------------------------------------
(***************************************************************************)
(* In place.  Row by row, KeccakP_ThetaRhoPiChi reads the registers L1 to  *)
(* L5, which hold a lane of each column, rotates them, and writes there    *)
(* the results of the row whose lane in the column they stand for.         *)
(***************************************************************************)
\* L1 .. L5 of the five rows, in the four rounds of KeccakP_4rounds.
InPlace ==
  << << <<0, 6, 12, 18, 24>>, <<10, 16, 22, 3, 9>>, <<20, 1, 7, 13, 19>>,
        <<5, 11, 17, 23, 4>>, <<15, 21, 2, 8, 14>> >>,
     << <<0, 16, 7, 23, 14>>, <<20, 11, 2, 18, 9>>, <<15, 6, 22, 13, 4>>,
        <<10, 1, 17, 8, 24>>, <<5, 21, 12, 3, 19>> >>,
     << <<0, 11, 22, 8, 19>>, <<15, 1, 12, 23, 9>>, <<5, 16, 2, 13, 24>>,
        <<20, 6, 17, 3, 14>>, <<10, 21, 7, 18, 4>> >>,
     << <<0, 1, 2, 3, 4>>, <<5, 6, 7, 8, 9>>, <<10, 11, 12, 13, 14>>,
        <<15, 16, 17, 18, 19>>, <<20, 21, 22, 23, 24>> >> >>

\* The rotations of L1 .. L5, and the lane of the row that L1 becomes.
Rotation == << <<0, 44, 43, 21, 14>>, <<3, 45, 61, 28, 20>>, <<18, 1, 6, 25, 8>>,
               <<36, 10, 15, 56, 27>>, <<41, 2, 62, 55, 39>> >>
Becomes  == <<0, 2, 4, 1, 3>>

KeccakP_ThetaRhoPiChi(A, D, row, L) ==
    LET Bb == [x \in 0..4 |->   \* made from L1, L2, ..., by the lane they become
                 LET j == (x - Becomes[row]) % 5
                 IN  ROL(Xor(A[L[j + 1]], D[j]), Rotation[row][j + 1])]
        Chi(b, x) == Xor(b[x], ANDnu(b[(x + 1) % 5], b[(x + 2) % 5]))
    IN  With(Bb, LAMBDA b :
             [l \in 0..24 |-> IF \E x \in 0..4 : L[x + 1] = l
                              THEN Chi(b, CHOOSE x \in 0..4 : L[x + 1] = l) ELSE A[l]])

\* One round of the four, with round constant i.
KeccakP_Round(N, A, k, i) ==
    LET Rows(D) == Loop(LAMBDA T, r : KeccakP_ThetaRhoPiChi(T, D, r + 1, InPlace[k][r + 1]), A, 5)
    IN  [With(Effect(prepareTheta(A)), Rows) EXCEPT ![0] = Xor(@, Set1(N, KeccakF1600RoundConstants[i + 1]))]

KeccakP_4rounds(N, A, i) == Loop(LAMBDA T, k : KeccakP_Round(N, T, k + 1, i + k), A, 4)

\* The last two of the four, on registers that hold what they expect there.
KeccakP_2rounds(N, A, i) == Loop(LAMBDA T, k : KeccakP_Round(N, T, k + 3, i + k), A, 2)

\* copyFromState2rounds: where KeccakP_2rounds finds each lane.
copyFromState2rounds(A) ==
    LET from == <<0, 16, 7, 23, 14, 20, 11, 2, 18, 9, 15, 6, 22, 13, 4,
                  10, 1, 17, 8, 24, 5, 21, 12, 3, 19>>
    IN  [l \in 0..24 |-> A[from[l + 1]]]

\* FourRounds is KeccakP_4rounds, and TwoRounds KeccakP_2rounds, of a file.
InPlace_rounds24(FourRounds(_, _), A) == Loop(LAMBDA T, j : FourRounds(T, 4 * j), A, 6)
InPlace_rounds12(FourRounds(_, _), A) == Loop(LAMBDA T, j : FourRounds(T, 12 + 4 * j), A, 3)
InPlace_rounds6(FourRounds(_, _), TwoRounds(_, _), A) == FourRounds(TwoRounds(A, 18), 20)
InPlace_rounds4(FourRounds(_, _), A)  == FourRounds(A, 20)
=============================================================================
