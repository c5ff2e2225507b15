------------------------------- MODULE Cyclist -------------------------------
(***************************************************************************)
(* The Cyclist mode of Cyclist.inc (Xoodyak), as operators on an instance. *)
(* The permutation is the identity on the sequence s of what was added     *)
(* before each call of it; "added" is what was added since.  A unit of     *)
(* data is a byte.  With the feature SnP_Feature_Cyclist, whole blocks go  *)
(* through the kernels of the permutation's implementation.                *)
(***************************************************************************)
EXTENDS SymbolicOutput

CONSTANTS bPrime, Rhash, Rkin, Rkout, lRatchet

\* The length of an identifier is less than Rkin and stored in a byte (Cyclist.inc:141).
ASSUME CyclistAssumption ==
  /\ {bPrime, Rhash, Rkin, Rkout, lRatchet} \subseteq Nat \ {0}
  /\ Rhash # 1 /\ Rhash < Rkout /\ Rkout < Rkin /\ Rkin < bPrime - 1 /\ Rkin <= 256
  /\ lRatchet <= Rkout

Nothing == [p \in 1 .. bPrime |-> Zero]

\* A byte with that value, as the sum of its bits.
Byte(n) == {<<2 ^ b>> : b \in {a \in 0 .. 7 : (n \div 2 ^ a) % 2 = 1}}

\* The number of blocks of r units in n: at least one.
Blocks(n, r) == IF n = 0 THEN 1 ELSE (n + r - 1) \div r

\* The size of block k of n units.
SizeOf(n, r, k) == IF n - (k - 1) * r < r THEN n - (k - 1) * r ELSE r

\* Block k of X.
Block(X, r, k) == SubSeq(X, (k - 1) * r + 1, IF k * r < Len(X) THEN k * r ELSE Len(X))

\* X, a byte 1, zeroes and the color in the last place.
Padded(X, Cd) ==
  [p \in 1 .. bPrime |->
     IF p <= Len(X) THEN X[p]
     ELSE IF p = Len(X) + 1 THEN One ELSE IF p = bPrime THEN Byte(Cd) ELSE Zero]

\* The state once the permutation is applied.
Permuted(c) == [c EXCEPT !.s = Append(c.s, Absorbed(c.s, c.added)), !.added = Nothing]

Output(c, n) == OutputFrom(c.s, 1, n)

\* The kernels: a block in, or a block out, after another.
KernelIn(c, X) == [Permuted(c) EXCEPT !.added = Padded(X, 0)]

KernelOut(c) == Permuted([c EXCEPT !.added = XorAll(@, Padded(<<>>, 0))])

-----------------------------------------------------------------------------
Down(c, X, Cd) ==
  [c EXCEPT !.added = XorAll(@, Padded(X, IF c.mode = "Hash" THEN Cd % 2 ELSE Cd)),
            !.phase = "Down"]

ColorUp(c, Cu) ==
  IF c.mode = "Hash" THEN c ELSE [c EXCEPT !.added[bPrime] = Xor(@, Byte(Cu))]

Up(c, Cu) == [Permuted(ColorUp(c, Cu)) EXCEPT !.phase = "Up"]

\* Mutant: the color of every block is that of the first.
ColorOfAll(Cd, k) == Cd

\* The color is that of the first block only.
ColorOf(Cd, k) == IF k = 1 THEN Cd ELSE 0

AbsorbBlock(d, X, r, Cd, k) ==
  LET B == Block(X, r, k)
  IN  IF d.kernels /\ k > 1 /\ r \in {Rkin, Rhash} /\ Len(B) = r THEN KernelIn(d, B)
      ELSE Down(IF d.phase # "Up" THEN Up(d, 0) ELSE d, B, ColorOf(Cd, k))

AbsorbAny(c, X, r, Cd) ==
  LET n == Blocks(Len(X), r)
      after[k \in 0 .. n] == IF k = 0 THEN c ELSE AbsorbBlock(after[k - 1], X, r, Cd, k)
  IN  after[n]

KeyedMode(c) == [c EXCEPT !.mode = "Keyed", !.Rabsorb = Rkin, !.Rsqueeze = Rkout]

\* The key, its identifier and the length of that; then the counter unit by unit.
AbsorbKey(c, K, ID, counter) ==
  LET k == AbsorbAny(KeyedMode(c), K \o ID \o <<Byte(Len(ID))>>, Rkin, 2)
  IN  IF counter # <<>> THEN AbsorbAny(k, counter, 1, 0) ELSE k

\* Mutant: after an output, the next one does not start with a permutation.
FirstUpOnce(c, Cu) == IF c.phase = "Up" THEN c ELSE Up(c, Cu)

FirstUp(c, Cu) == Up(c, Cu)

\* The output kernels start when that much is left, and then take whole blocks.
KernelThreshold(c) == IF c.mode = "Keyed" THEN Rkin ELSE Rhash

\* The instance that gives block k of n units.
SqueezeBlock(d, n, Cu, k) ==
  LET r == d.Rsqueeze
  IN  IF k = 1 THEN FirstUp(d, Cu)
      ELSE IF d.kernels /\ n - r >= KernelThreshold(d) /\ k * r <= n THEN KernelOut(d)
      ELSE Up(Down(d, <<>>, 0), 0)

\* n units of output Y, and the instance after it.
SqueezeAny(c, n, Cu) ==
  LET r == c.Rsqueeze
      last == Blocks(n, r)
      after[k \in 0 .. last] ==
        IF k = 0 THEN [c |-> c, O |-> <<>>]
        ELSE LET d == after[k - 1]
                 e == SqueezeBlock(d.c, n, Cu, k)
             IN  [c |-> e, O |-> d.O \o Output(e, SizeOf(n, r, k))]
  IN  after[last]

\* Mutant: the kernel that deciphers overwrites with the wrong buffer.
DecryptKernelWrong(u, I, O) == KernelIn(u, I)

\* It adds the plaintext it has just written.
DecryptKernel(u, I, O) == KernelIn(u, O)

\* It overwrites the state with the ciphertext it has just written.
EncryptKernel(u, I, O) ==
  [KernelIn(u, <<>>) EXCEPT
     !.added = Padded(XorAll(O, Output(Permuted(u), Len(O))), 0)]

CryptUp(d, k) == Up(d, IF k = 1 THEN 128 ELSE 0)

CryptOut(d, I, k) ==
  LET B == Block(I, Rkout, k) IN XorAll(B, Output(CryptUp(d, k), Len(B)))

CryptBlock(d, I, decrypt, k) ==
  LET B == Block(I, Rkout, k)
      O == CryptOut(d, I, k)
  IN  IF d.kernels /\ k > 1 /\ Len(B) = Rkout
        THEN IF decrypt THEN DecryptKernel(d, B, O) ELSE EncryptKernel(d, B, O)
        ELSE Down(CryptUp(d, k), IF decrypt THEN O ELSE B, 0)

\* The output O for the input I, and the instance after it.
Crypt(c, I, decrypt) ==
  LET last == Blocks(Len(I), Rkout)
      after[k \in 0 .. last] ==
        IF k = 0 THEN [c |-> c, O |-> <<>>]
        ELSE LET d == after[k - 1]
             IN  [c |-> CryptBlock(d.c, I, decrypt, k), O |-> d.O \o CryptOut(d.c, I, k)]
  IN  after[last]

-----------------------------------------------------------------------------
Unkeyed(kernels) ==
  [s |-> <<>>, added |-> Nothing, phase |-> "Up", mode |-> "Hash",
   Rabsorb |-> Rhash, Rsqueeze |-> Rhash, kernels |-> kernels]

Initialize(kernels, K, ID, counter) ==
  IF K # <<>> THEN AbsorbKey(Unkeyed(kernels), K, ID, counter) ELSE Unkeyed(kernels)

Absorb(c, X) == AbsorbAny(c, X, c.Rabsorb, 3)

Encrypt(c, P) == Crypt(c, P, FALSE)

Decrypt(c, C) == Crypt(c, C, TRUE)

Squeeze(c, n) == SqueezeAny(c, n, 64)

SqueezeKey(c, n) == SqueezeAny(c, n, 32)

\* Mutant: the output is dropped, not absorbed.
RatchetDropping(c) == SqueezeAny(c, lRatchet, 16).c

Ratchet(c) ==
  LET q == SqueezeAny(c, lRatchet, 16) IN AbsorbAny(q.c, q.O, c.Rabsorb, 0)

=============================================================================
