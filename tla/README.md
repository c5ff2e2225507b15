# XKCP in TLA+

A verification development for the eXtended Keccak Code Package
(`ethersphere/XKCP`): TLA+ models of the services in `src/lib/high`, of the
implementations of Keccak-p[1600] in `src/lib/low` that are written in C, and of
the Go batch hashing in `src/`; TLC runs that check them, and TLAPS proofs, for
every value of the parameters, of the sponge construction, the duplex object, the
pseudo-random generator, KangarooTwelve, UpperDeck, Cyclist, the Go batches and the
dispatch.

The paths below are relative to the repository, under `src/`; "external" in
`PROJECT.json` means code the high-level models only know through its use (the
permutation).

## 1. The system

XKCP has two levels. The low level (`lib/low`) implements the permutations
Keccak-p[1600] and Xoodoo, alone and n at a time, for many processors, behind
the state-and-permutation interface (SnP, PlSnP): initialize, add bytes,
overwrite, permute, extract, and loops that do several of these at once. The high
level (`lib/high`) builds everything else on that interface, mostly as `.inc` files
that are compiled once for each permutation.

The two levels are modelled apart. In the models of the high level, where the state
between calls is kept, the permutation is a function of which they only assume that
different inputs have unrelated outputs. The models of the low level have the lanes,
bits and rounds themselves, at their real sizes, and what they are compared with is
the reference implementation. What joins the two is the interface: the low-level
models show that any implementation may stand behind it, the high-level ones show what
is built on it.

All of it is sequential code that a caller drives through an instance: there
are no threads, no I/O and no memory of its own. What is hard is the freedom of
the caller: data arrives and is wanted in pieces of any size, in any order of
calls, with instances that are cloned, peers that run other code, and messages
that get lost, damaged or repeated between them. The same function is computed
along different paths (a queue, whole blocks at once, several leaves at once, and a dozen
implementations, chosen between by flags that may change at any time) that must agree.

| Component | State | Operations | Used by | What is hard | What makes it correct |
|---|---|---|---|---|---|
| Sponge (`Keccak/KeccakSponge.inc`) | permutation state, rate, `byteIOIndex`, `squeezing` | Initialize, Absorb, AbsorbLastFewBits, Squeeze, one-shot | FIPS 202, TurboSHAKE, SP 800-185, KangarooTwelve | two paths per loop, the index means two things, padding at the end of a block | any cutting gives what the one-shot function gives; input ends once |
| Duplex object (`Keccak/KeccakDuplex.inc`) | state, rate, `byteInputIndex`, `byteOutputIndex` | Duplexing, FeedPartialInput, FeedZeroes, Overwrite..., GetFurtherOutput... | PRG | rates that end inside a byte, trailing bits, output while input is queued | blocks are the padded inputs; output goes on where it was; no bit of the capacity comes out |
| PRG (`Keccak/PRG`) | a duplex object, whose output index it sets itself | Feed, Fetch, Forget | applications | seeds and output in pieces, forgetting | seeds are used once and in order and reach all later output; no output twice; Forget is final |
| FIPS 202 (`Keccak/FIPS202`) | a sponge, output length, suffix | HashInitialize, Update, Final, Squeeze | applications, KeccakSum | bits of an incomplete last byte move into the suffix | the hash is a function of the bits of the message, and different for different ones |
| SP 800-185 (`Keccak/SP800-185`) | sponges, phase, queue, lengths | cSHAKE, KMAC, TupleHash, ParallelHash | applications | encodings; bits of a last byte; blocks in a queue or several at once | no two inputs, to one or to two functions, are hashed alike; the cutting does not matter |
| TurboSHAKE (`TurboSHAKE`) | a sponge | Initialize, Absorb, AbsorbDomainSeparationByte, Squeeze | KangarooTwelve | none of its own | that of the sponge |
| KangarooTwelve (`KangarooTwelve`) | final node, queue node, `queueAbsorbedLen`, `blockNumber`, phase | Initialize, Update, Final, Squeeze | applications | leaves in a queue or several at once, lazily closed first chunk | the final node absorbs the tree of the whole input |
| Overwrite duplex, UpperDeck, DWrap, Deck-BO (`Keccak/KeccakOD.inc`, `ShakingUpAE`) | overwrite duplex object(s), offset in the stream | Duplexing, Squeezing, Clone; Wrap, Unwrap | applications | streams across blocks and objects, clones, messages that fail | one stream however it is cut; sessions accept what was wrapped and nothing else; key stream used once |
| Farfalle: Kravatte, Xoofff (`Kravatte`, `Xoofff`) | masks, accumulators, queue, phase | Kra/Xoofff compress, Vatte expand | SANE, SANSE, WBC | a queue for input and for output, several blocks at once | a function of the history of strings |
| Wide block ciphers (`KravatteModes.c`, `XoofffModes.c`) | none between calls; a deck function's instance, its accumulator saved and put back | WBC and WBC-AE encipher, decipher | applications | two halves in one buffer, each a string of the other; the tweak is compressed once | deciphering undoes enciphering; each bit of text, key and tweak counts; damaged text is not released |
| SANE, SANSE (`KravatteModes.c`, `XoofffModes.c`) | a deck function, the bit `e` | Wrap, Unwrap | applications | history after failure | as for the sessions above |
| Cyclist / Xoodyak (`Xoodyak`) | state, phase, mode, rates | Absorb, Encrypt, Decrypt, Squeeze, SqueezeKey, Ratchet | applications | kernels for whole blocks on some processors | state and output depend on the calls only |
| Implementations of Keccak-p[1600] (`lib/low/KeccakP-1600*`) | one, two, four or eight states, the layout of which is their own (lanes interleaved, in even and odd bits, complemented, out of place between rounds) | the SnP and PlSnP calls, the loops over blocks and leaves | all of the above | byte ranges cut at lanes, ends of loops, layouts undone at every access | each does to the bytes what the reference code does |
| Fallback (`lib/low/common/PlSnP-Fallback.inc`) | an array of smaller objects | the PlSnP calls | builds without parallel code | which of the smaller objects a call is for | the same |
| Dispatch (`lib/low/x86-64-dispatch`) | three flags | every SnP call; Enable/Disable | all of the above | flags that change under a live instance | all implementations chosen from agree on the state; no call announced is refused |
| Go wrapper (`go_wrapper.c`, `go_keccak`) | states of 4 or 8 lanes | Sum256x4, Sum256x8 | Go programs | one permutation for all lanes | each digest is that of its slice |

Components call each other as the column "used by" says, always through the
functions of the interface, with two exceptions that are modelled: the
generator sets the output index of its duplex object, and KangarooTwelve the
index of its final node.

The hazards that come out of this survey are in `PROJECT.json` under
"hazards", each at its line, with the properties that watch it or the reason
why none does.

## 2. The modules

| Module | Models | Role |
|---|---|---|
| `SpongeFunction` | `Sponge()` of KeccakSponge.inc 38-123 | what a message and a delimiter make the one-shot function absorb, and where its output comes from |
| `SpongeXOF` | (abstract) | an extendable-output object: message bytes, then output bytes, nothing else |
| `Sponge` | the message-queue interface, KeccakSponge.inc 127-294 | one action per call and one per iteration of its loops |
| `SpongeProofs` | | theorems of `Sponge` |
| `DuplexObject` | KeccakDuplex.inc | the duplex object as a value, with the condition under which each function accepts and its effect |
| `Duplex` | KeccakDuplex.inc | the object with a caller that makes any call |
| `DuplexProofs` | | theorems of `Duplex` |
| `SpongePRG` | KeccakPRG.inc, on `DuplexObject` | one action per call and per iteration |
| `SpongePRGProofs` | | theorems of `SpongePRG` |
| `TreeHash` | (abstract) | the tree hash KangarooTwelve promises, as an object that takes a message, a customization string and an output length; `right_encode` and the leaf suffix are the code's |
| `KangarooTwelve` | KangarooTwelve.c | one action per call and per iteration; nodes are the objects `Sponge` is shown to implement |
| `KangarooTwelveProofs` | | theorems of `KangarooTwelve`, the refinement of `TreeHash` among them |
| `SymbolicOutput` | | units of data as sets of terms added modulo 2; output of a state as terms |
| `OverwriteDuplex` | KeccakOD.c, KeccakOD.inc; ShakingUpAE.inc 233-297 | operators on the overwrite duplex object, the state after a string and its stream |
| `UpperDeck` | ShakingUpAE.inc 208-297 | two decks, clones, squeezing iteration by iteration |
| `UpperDeckProofs` | | theorems of `UpperDeck` |
| `ShakingUpAE` | ShakingUpAE.inc 46-206, 300-359 | Wrap and Unwrap as operators |
| `SANE` | KravatteModes.c 129-356 | SANE and SANSE as operators on an abstract deck function |
| `AESession` | | composes the four modes: senders, clones, a channel, a receiver |
| `Cyclist` | Cyclist.inc, Xoodyak-plain.c | the mode and the kernels as operators; its loops over blocks are recursive functions of the number of the block |
| `CyclistSession` | | two instances on different implementations |
| `CyclistProofs` | | theorems of `CyclistSession` |
| `GoKeccak` | go_wrapper.c (and go_wrapper_avx512.c) | the two loops of a batch, iteration by iteration |
| `GoKeccakProofs` | | theorems of `GoKeccak` |
| `HashFunctions` | KeccakHash.c, SP800-185.c and .inc | each hash function as operators on an instance, on the objects `Sponge` is shown to implement |
| `HashSession` | | an instance of any of them and a caller |
| `Farfalle` | Kravatte.c, and the wide block ciphers of KravatteModes.c | masks, Kra, Vatte with their queue, loops over one or more blocks; WBC and WBC-AE on them |
| `FarfalleSession` | | an instance and a caller that makes any call, then an encipherment |
| `Lanes` | SnP-Relaned.h | a state as 25 sets of bits; byte ranges cut at lanes |
| `KeccakRounds` | KeccakP-1600-64.macros, unrolling and compact code | the rounds, as the 64-bit implementations write them |
| `ReferencePermutations` | KeccakP-1600-reference.c, KeccakP-1600-reference32BI.c | the permutation as the reference implementations write it |
| `PermutationStates` | (abstract) doc/SnP-documentation.h's interface, on the reference code | n states as bytes, and what each call does to them |
| `KeccakPlain64` | KeccakP-1600-opt64.c | plain 64-bit code, with or without lane complementing |
| `KeccakSmall` | KeccakP-1600-compact64.c, KeccakP-1600-inplace32BI.c | compact code; the in-place code with its lanes out of place |
| `ParallelStates` | what the vector implementations share | interleaved lanes, gathers and scatters, the loops |
| `KeccakTimes2`, `KeccakTimes4`, `KeccakTimes8` | SSSE3, AVX2 and AVX512 code for 2, 4 and 8 states | |
| `Dispatch` | x86-64-dispatch.c | the flags, and the implementation the calls of each family go to |
| `Implementations` | PlSnP-Fallback.inc; the choice of code for an object | one interface to the above |
| `LowLevel` | | an object of any implementation, a caller, the flags; calls to the families whose states are not modelled, followed to where they go (`CallElsewhere`); its theorem |
| `MC...` | | values for the constants a configuration cannot write (the other runs take the module itself) |

How code is turned into TLA+:

* A field of an instance is a variable (or a field of a record); a history
  variable, marked "history" in its comment, is written and never read by an
  action that models code.
* A call that loops has one action to begin it (with its early returns as
  guards) and one per path of an iteration, with the remaining work in `call`;
  a call without a loop, or whose loop nobody can look into, is one action.
* A call the code refuses without changing anything is no step. Where a refusal
  would be an error of the library itself it sets a flag (`error`, `aborted`),
  and a property says that the flag stays down.
* In `Sponge` and `SpongePRG` the state of the permutation is the number of times it
  was permuted and the set of what was added where; in the modes with
  key streams it is the sequence of blocks it was permuted with, and a unit of output
  is a term that names the state and the place in it. Equal outputs are equal
  terms: nothing is assumed of the permutation but that it has no collisions
  in the model, and nothing is assumed to be hidden by it but what is claimed.
* In the low-level modules a lane is the set of the positions of its bits that are
  one, exclusive or is symmetric difference, and a call is a function from the memory of
  an object to its memory. A C macro that takes the name of a function is an operator
  with an operator for a parameter; `PROJECT.json` gives its lines with the definitions
  that use it.
* Definitions whose comment begins with "Mutant:" are plausible bugs. Nothing
  uses them; each is there to show that some property would notice it.

## 3. The runs

Each run but `low_level`, which has the real sizes, is on an instance in which blocks are of one to six units, so that
strings of a few units already end before, at and after a block boundary and
reach every path: the code's control depends on lengths only through
comparisons with the block size, remainders and which paths are on.

| Run | Checks | Bounds, and why they are enough |
|---|---|---|
| `sponge` | the queue gives what `Sponge()` gives (`IncrementalIsOneShot`), its index stays in the block, every call returns, refinement of `SpongeXOF` | rates 1, 2, 3 of a 5-byte permutation, 8 bytes in and 7 out, cut in every way: at least two whole blocks and a part at every rate. Delimiters with and without the last bit. Two refused rates. |
| `duplex` | blocks are padded inputs, further output follows, no bit of the capacity | 3 bytes of permutation; rates that end with a byte, just after and inside one; two permutations, three input bytes; any caller, so that calls of the documented length, calls that are longer and accepted, and calls that are refused occur at every rate |
| `prg` | nothing refused, seeds in order and in all later output, output fresh, Forget final | 5 bytes in and 5 out; blocks of 1 to 4 bytes; capacities less than, equal to and more than a block, and unusable ones |
| `kangaroo_twelve` | no call on a node is refused, chunks are in their nodes, refinement of `TreeHash`, every call returns | chunks of 2 bytes, 12 bytes of message: six chunks, so that one, two and four leaves at once follow and precede queued ones; lengths in base 3 so that the encoding has two digits; customization of up to 4 bytes, which crosses chunks |
| `upper_deck` | one stream however it is cut, no assertion fails but in the two cases known, strings determine the state, calls return | blocks of 2 bytes, strings up to two blocks made of the padding's own values, 5 bytes of stream: a block of each object, whole ones, a part; 3 bytes of that of the other deck, so that it is cloned before, at and after the end of its first block; any caller |
| `ae_sessions` | state is history, the next message is accepted, nothing else is, key stream used once | blocks of 2, tags of 1, five messages whose parts join up to each other, two messages of one sender and one of another, one failure; every single damaged unit, truncation, changed metadata, repetition and reordering |
| `cyclist` | same state exactly for same calls, on both implementations; deciphering inverts; no output twice; Ratchet overwrites | rates 2 (hash), 4 and 3 (keyed), two calls each; strings that are empty, part of a block, a block, blocks with a tail; enough for each kernel to be entered and left |
| `go_batch` | lanes stay in phase, digests are of the slices, batches end | three lanes, blocks of 3, up to two whole blocks, all tails |
| `go_batch_mixed` | the first finding of section 5 | the same with different numbers of blocks |
| `hash_functions` | `SameNodeSameInput`: what is hashed in the end is that of the same input given in one call, and of no other input to any of the functions | blocks of 6 bytes, messages of up to 18 bytes cut anywhere at bytes and at 3 or 4 bits of the last one; a text with the suffixes' own bits; parallel blocks of 2 and 8 bytes (less than a block of the sponge, and one with a rest), one, two and four leaves at once in every mix; lengths that need one and two bytes to encode; names, customization strings, keys and tuples that run into each other unless their lengths are there; parameters that must be refused |
| `farfalle` | accumulator is the history of strings, output is one stream, deciphering inverts, changes are felt | bytes of 2 bits, blocks of 3 bytes; input of 3, 4 and 14 bits and output of 4 and 13, so that blocks are completed from a queue, filled exactly and processed two at once; keys of 3 and 6 bits; texts of 1 to 15 bits, so that either half may be less than a block, one, or more; at most 4 rolls of a mask |
| `low_level` | `SameAsReference`: each of the calls leaves the bytes the reference code leaves, with 14 implementations and while the flags change; `NeverAborted` | the real sizes and round constants. One call after the state was filled, with every number of rounds the code unrolls differently, byte ranges that are empty, inside a lane, cut at either end and whole, lanes loaded one by one, in groups and all, loops of two blocks and a rest, those of the overwrite duplex on complemented lanes too. A processor with and one without AVX512 |

Deadlock is checked in the runs whose caller can always go on or which stutter
explicitly when the bounds are used up; the runs with `CHECK_DEADLOCK FALSE`
(`ae_sessions`, `cyclist`, `hash_functions`, `farfalle`, `low_level`, `upper_deck` and the
`go_batch` ones) end when the bounds are reached, the batch is done or, in `upper_deck`, an
assertion has failed, which ends the program.

The code does not in all cases do what the documentation says (section 5). No run of
`Duplex`, `UpperDeck` or `LowLevel` keeps its caller from the calls in question: the calls
are made, and the property states which case it excepts and what still holds in it.
Each of these properties is violated if its exception is dropped.

| Run | Property | Exception | Finding |
|---|---|---|---|
| `duplex` | `BlocksArePadded` | `KeptToLength`: of a call longer than documented only the input is claimed to be in place, not the two bits of the padding | 2 |
| `upper_deck` | `OnlyKnownFailures` | a call with more than a block to go and `Yadd` the null pointer; a deck in `astray` | 3, 4 |
| `upper_deck` | `StreamIsContinuous` | the decks in `astray`: clones made past the first block of a stream, until they are given a string or cloned over | 4 |
| `low_level` | `SameAsReference` | `ODOnComplementedLanes`: a step that is a loop of the overwrite duplex on complemented lanes | 5 |

Only the batches of `GoKeccak` have a constant for this: with `SameBlocks`
(`go_batch`) the slices have equally many whole blocks, without it (`go_batch_mixed`)
`EveryDigestIsKeccak` is violated, which the run expects.

`low_level` compares implementations on states without symmetry, not on all states:
the round functions have no branches, so that what could differ (an index, a constant, a
rotation, the end of a loop) differs on almost every state. That a permutation is
the standard's is not claimed; the test vectors of the repository settle it.

No symmetry is used: the lanes, decks and parties differ by their bounds or
their places.

**Fairness.** Liveness is claimed only of calls in progress: a call that has
begun is weakly fair (`WF` of the steps of its loop), since the thread that
runs it has nothing else to wait for. The caller is not fair: it may never
call again. In `GoKeccak` the whole behaviour is one call, so that `Next` is fair.

## 4. The proofs

TLAPS proves the following for every value of the constants: every width, rate,
block and chunk size, delimiter, amount of data and way of cutting it. Each proof
has an invariant that `Init`, every action and stuttering preserve, a lemma for
each action, and a theorem for each property.

* `SpongeProofs`. `IncrementalIsOneShot` says nothing of the middle of a message;
  so `IInv` has `MessageInPlace` (byte i of the message lies at byte i mod rate of
  block i div rate, and there are as many permutations as whole blocks) and
  `OutputPosition` (the same of output), beside the types and that a call in
  progress fits the phase. From it: `TypeOK`, `IndexInBlock`,
  `IncrementalIsOneShot`, the action property `EndOfMessageIsFinal` and, step by
  step (`NextImplementsXOF`), the refinement `ImplementsXOF`.
* `DuplexProofs`. `QueueInv`: the state is the output of the last permutation with
  the queued input added byte by byte (`Held`), and the queue leaves two bits of the
  rate. `OutputInv`: the bytes given since are as many as the output index says, each
  of its own place, with or without the queue added to it. Hence `OutputIsInOrder`
  and `CapacityStaysInside`, for any caller. `EveryBlockIsPadded` also needs the bits
  of the padding: the first one ends the trailing bits, the last one is bit rate - 1,
  and neither falls on a byte of input (`BitsAreWithin`), for any caller; if the call kept to the documented
  length they are different bits too, and do not cancel.
* `SpongePRGProofs`. Four invariants, one on the other: `TypesInv` (types, the queue is
  never a whole block, the rate leaves room for the padding), hence `NeverRefused`;
  `OutputInv` (no output is pending while seed is queued), hence `OutputIsFresh`;
  `SeedInv` (the queue holds just the seed bytes not yet absorbed), hence
  `SeedsInOrder` and `SeedInfluencesOutput`; `ForgetInv`, hence `ForgetIsIrreversible`.
* `KangarooTwelveProofs`. The input is the message, then the customization string and
  its length, as far as they were given (`InputIs`). `Placed` says of the first t
  bytes of it in which node they are: as long as no chunk is closed all in the final
  node; then the opening (first chunk, mark, zeroes) and the chaining values of the
  complete leaves in the final node, and the rest in the queue node. `CallInv` is the
  link between the loops and the fields: the loops over leaves run with an empty
  queue. That gives `NodesNeverRefuse` and `EveryByteInItsNode`. For the tree at the end
  one more fact is needed, `FirstChunkIsFollowed`: the first chunk is closed only if
  input follows it. Then `StepImplements` maps each step to a step of `TreeHash` or
  to none, whichever numbers of leaves were hashed at once: `TreeHashIsImplemented`.
* `UpperDeckProofs`. `Placed` says which of the two objects of a deck the next byte comes
  from: up to the block size from `D`, at the deck's offset; past it from `Dsqueeze`,
  which is k empty blocks after `D` and at the offset less k blocks. `InOrder` says that
  the bytes given are those of the stream, `CallInv` the same within a call. The
  arithmetic is in `DivModUnique` and `StreamByteIs`, the algebra of states in
  `Extended` and `OnwardIs`. Of a deck that was cloned past the first block of a stream, and so
  has a `Dsqueeze` that is no later state of `D`, `Strayed` says only what is left: both objects are initialized
  and the offset is past the block; a string given to it, or a clone put in its place, brings it back
  (`StrayIInv`). Hence `NoOtherFailure` (no assertion fails and no remainder by 0 is taken but in the two cases of
  `OnlyKnownFailures`) and `OutputIsTheStream`, for any caller. `HistoryInv` says that an object has absorbed the blocks of the key
  and of each string given, with their trailers, and nothing else (`StateIsTheStrings`).
  Read backwards, a trailer tells whether a block ends a string, and the padding
  where its bytes end, so that the blocks have one reading: `StringsDetermineState`
  (`NoTwoHistories`), for which no hypothesis is needed.
* `GoKeccakProofs`. Until the last permutation each lane holds its own blocks up to the
  loop's index (`StatesInv`), and what was added since is its own last block or
  nothing. Hence `LanesStayInPhase` and `EveryDigestIsKeccak`, with the hypothesis
  `SameBlocks`: the slices of a batch have equally many whole blocks. Without it,
  `go_batch_mixed` shows the digests to be wrong.
* `CyclistProofs`. A loop over blocks is a function of the number of the block, and what it
  returns is found by induction on that number. For each loop the proof first says what one turn
  does to the state, the phase and the output; then that a kernel does in a turn what `Up` and
  `Down` do (`KernelInIs`, `KernelOutIs`, `EncryptKernelIs`), so that a call leaves the
  instance that it leaves without the kernels (`Absorbing`, `Squeezing`, `Crypting`);
  then that deciphering takes enciphering back (`CryptingBack`), and that Ratchet, the output of
  which is less than a block of input, overwrites what it gave out. `SessionInv` has for
  each instance that its log leads to its state (`Trace`, a sequence of instances from event
  to event), that the units it gave are of states before its own, no two alike (`Fresh`), and for each call
  with output that the state its log leads to answers it so (`CallInv`). Hence
  `SameEverywhere`, `KeystreamOnce` and `RatchetOverwrites`.

  For `StateIsHistory` the state is read backward. `Sound` says which states a call leaves between
  blocks: what was added is a padded block with its color, or the last thing in the state is an output.
  In a sound state, what it was before the last block is found: the padding ends the block
  (`PaddedTells`), the byte of the color tells its value (`ByteTells`), and what the permutation was
  given tells what was added (`AbsorbedTells`, `GrownTells`). Whether that block is the
  first of its call, and of which call, is told by the color below and the color above
  (`FirstOf`, `CallOf`); these are disjoint because a block that is not the first one has no color, is not empty, or
  comes after an output (`LinkSound`, `OpensSound`, `UpIsNotGrown`). So a state is at the end of one
  sequence of blocks only (`OneCall`), its blocks give the string (`PiecesTell`), and an event and the state before it
  are told by the state after it (`EventTells`); a start tells the key and the identifier by the
  length in the last byte (`BeginsTells`) and is no event (`StartIsNoEvent`). Hence two good logs that lead to
  one state are the same, from the last event to the first (`TraceTells`). The invariant `ToldSession` has what the
  steps must keep for that: logs are good logs, ciphertexts are strings, and in hash mode the log with an output
  between two strings is one that leads to the same state (`OutputBetween`, `ToldKept`).
  `HistoryIsTold` follows from that and `TraceOnce`. A start without a key has no identifier and no counter in
  the model (`Fits`): the code does not read them, so that no state could tell them.
* `LowLevel`. What `GetFeatures()` announces and where a call goes are made of the
  same flags. Family by family, a feature is announced only when the choice of the
  functions that need it is not `assert(0)` (`AnnouncedIsServed`, `ObjectIsServed`), so
  that `DispatchNeverAborts`, for all processors and any disabling or enabling between calls.

The one hypothesis of a theorem, `SameBlocks`, is a constant of the model that a run has with that value.
The proofs assume of the other constants what the modules name: `SpongeAssumption`, `PRGAssumption`,
`DuplexWidth`, `DuplexAssumption`, `CyclistAssumption`, `CyclistSessionAssumption`, `KangarooTwelveAssumption` (chunks and rates are whole
lanes, capacities leave a rate, parallelism is at least 2: the values of the code
are such), `UpperDeckAssumption`, `GoKeccakAssumption`, `ProcessorsAssumption`, `ObjectsAssumption`. TLC
evaluates each in a run.

Only model-checked, and why:

* `EveryCallReturns` of all modules and `EveryBatchHashed`: liveness, for which the
  provers here have neither fairness nor `ENABLED`.
* The properties of `ae_sessions`, `farfalle` and `hash_functions`. Their instances are values that
  folds over blocks and strings compute; before anything is proved of them the folds
  have to become recursive functions, as in `Cyclist`. The library's induction theorems
  take an operator as a parameter, which the installed provers cannot instantiate;
  `CyclistProofs` does without: a set of numbers that is not empty has a smallest element
  (`Smallest`, from the well-foundedness of the order of the naturals), so that a set with 0
  that is closed under successor has them all (`Induction`).
* `SameAsReference`: the rounds of a dozen implementations on real states are a matter of
  computation.

## 5. Findings

The first is shown by a run that expects the violation, and `PROJECT.json` quotes the words
it disagrees with. The others are exceptions that a property of a passing run states (the table
in section 3): the calls are made in the run, and the property is violated without the exception.

1. `go_batch_mixed`: `go_keccak256x4` and `x8` permute lanes that have no block left
   (go_wrapper.c:51), on the argument that adding zeroes changes nothing: digests
   of the shorter slices of a batch are wrong, and the padding is written before
   the buffer.
2. `KeptToLength` of `duplex`: `Duplexing()` checks the room for trailing bits without the queued input
   (KeccakDuplex.inc:63): with a rate of 16, a byte queued and the delimiter
   0x80 it returns 0 and the two padding bits cancel. The documented
   precondition, "(+ length of previously queued data)", counts the queue
   (KeccakDuplex-documentation.h:94), and what fails is documented to return 1.
3. `OnlyKnownFailures` of `upper_deck`: `UpperDeck_Squeezing` and `UpperDeck_Duplexing` with "the null
   pointer" for `Yadd` (ShakingUpAE-documentation.h:131, 143, for any length), when whole
   blocks are wanted, come to an assertion that it is not null, or without assertions
   read it (ShakingUpAE.inc:270, KeccakOD.inc:99).
4. `astray` of `upper_deck`: `UpperDeck_Clone` copies `D` to the clone's `Dsqueeze`
   (ShakingUpAE.inc:223): a clone of a deck that is past the first block of its stream squeezes
   other bytes, or fails an assertion inside a block, though it is `UpperDeck_CloneCompact` that is documented
   as "clearing its output stream" (ShakingUpAE-documentation.h:115-116). The library never squeezes such a
   clone on; an application may.
5. `ODOnComplementedLanes` of `low_level`: with lane complementing (Makefile.build:147-153, targets generic64lc, SSSE3, AVX) the loops
   of the overwrite duplex write and read the six complemented lanes as they are
   (KeccakP-1600-opt64.c:574-607), though doc/SnP-documentation.h:221 says that they have
   "the same behavior as repeatedly calling" the functions that access the bytes, which
   complement them. UpperDeck and DWrap use the loops for all but the first and last
   block of a long string, and so do not agree with the other builds.

Also seen: the dispatch's `Xoofff_CompressFastLoop` and `ExpandFastLoop`
(x86-64-dispatch.c:1043-1057) lack a `return`; a serial state made by the AVX2 assembler has
its lanes in another order, so that flags changed under a live serial instance make it
misread (the parallel states are not affected, which is part of `SameAsReference`); the i386
replacement of `_mm256_extract_epi64` joins two halves by `||`
(KeccakP-1600-times4-AVX2.c:1155, KeccakP-1600-times8-AVX512.c:1120); on big-endian
machines ExtractAndAddLanes of the in-place code reads one word of a lane twice
(KeccakP-1600-inplace32BI.c, near 415); `KravatteWBC` leaves the strings of its last call
in the history of the instance; a `TupleHash_Update` that fails at an element of
a tuple has absorbed those before it (SP800-185.inc:520); `Keccak_HashSqueeze` before Final ends
the input without the suffix, which the documentation excludes; unused bits of the last
byte of a key or customization string are absorbed as they are (SP800-185.inc:67, 178);
`go_keccak/GO_KECCAK_README.md` describes a `Sum256`,
`HasAVX2` and a fallback that `keccak.go` does not have; SANE does not mask unused
bits of the last byte, SANSE does; `DWrap_Unwrap` in place reads ciphertext it has
overwritten; `tests/UnitTests/testShakingUpAE.c` tries no failing message, no
second message and no clone.

What holds and is worth knowing: after a message that fails, DWrap and Deck-BO
are back where they were, while SANE and SANSE have it in their history. If
only the tag was damaged, sender and receiver have the same history again and
the next message is accepted; otherwise none ever is.

## 6. Not modelled

* Implementations in assembler (ARM, NEON, AVX2 and AVX512 serial x86-64, AVR), the XOP and serial
  AVX512 code in C, and Xoodoo, except the full-block kernels of its plain code (in `Cyclist`):
  they have the shape of what is modelled. Calls to the serial Keccak-p[1600] state and to Xoodoo
  are followed to the implementation they go to (`Dispatch`), and no further.
* `Xoofff.c` and `XoofffModes.c`, which have the functions of `Kravatte.c` and
  `KravatteModes.c` on Xoodoo.
* TurboSHAKE's check of the capacity; KeccakOD for other uses than UpperDeck's.
* Memory: buffers that overlap, bytes before a buffer, alignment, timing. Lengths that wrap at the width of `size_t`.
* Whether a permutation is the standard's: `ReferencePermutations` is the code of the
  repository's reference, and what the others are compared with.
* Tests, benchmarks, `util/KeccakSum`, `Standalone`, `doc/Low level model`: callers of
  the library, and programs that are no part of it.

## 7. Plan

Done, in this order: `Sponge` and its proofs; `DuplexObject`, `Duplex`; `SpongePRG` and its
proofs; `TreeHash`, `KangarooTwelve`; `OverwriteDuplex`, `UpperDeck`; the sessions; `GoKeccak`;
`Cyclist`; the low level, `Dispatch` and `LowLevel`; `Farfalle`; `HashFunctions`.

Proved, in this order: `Sponge`, `Duplex`, `SpongePRG`, `GoKeccak`, `KangarooTwelve`, `LowLevel`,
`UpperDeck`, `CyclistSession`.

What would come next:

1. The Xoodoo implementations beside `KeccakTimes4` and `KeccakTimes8`, which share the shape
   of `ParallelStates`.
2. `AESession`: `NextIsAccepted`, with the loop of DWrap as a recursive function; the argument is that
   of `CryptingBack`. Then `HistoryIsState`, as `NoTwoHistories` and `HistoryIsTold`.
3. `Farfalle`: one action per iteration for Kra's loops over blocks in
   `FarfalleSession`, so that `AccumulatorIsHistory` has an invariant, as `ChunksInNodes` has.
