--------------------------- MODULE FarfalleSession ---------------------------
(***************************************************************************)
(* A caller of the deck function Kravatte and of the wide block cipher on  *)
(* it, with one instance kv.                                               *)
(*                                                                         *)
(* What the caller gave is remembered: the strings that ended since the    *)
(* last INIT, the part of the string that did not end, the output received *)
(* since the instance last compressed, and a text that was enciphered: the *)
(* session ends with one.                                                  *)
(***************************************************************************)
EXTENDS Farfalle

CONSTANTS Keys,           \* numbers of the keys
          FirstKey,       \* bound: the others are only set after a text was enciphered
          KeyLengths,     \* in bits
          InputLengths,   \* of a call, in bits
          OutputLengths,
          DataLengths,    \* of the plaintext of the wide block cipher
          WLengths,       \* of its tweak or associated data
          ChangedBits,    \* of a ciphertext, on its way
          MaxRolls,       \* bound: rolls of the mask since INIT
          MaxOutput       \* bound: bits of output of one history

VARIABLES kv, strings, open, out, short, text
vars == <<kv, strings, open, out, short, text>>

\* The bits i + 1 .. i + n of a source of the caller.
Bits(source, i, n) == [j \in 1..n |-> {<<-source, i + j>>}]
message == 1
tweak == 2
Key(k, n) == Bits(2 + k, 0, n)

noText == [stage |-> "none"]

noAccu == [x |-> {}, permuted |-> FALSE, rolled |-> 0]
NewInstance == [k |-> << >>, kRoll |-> 0, xAccu |-> {}, yAccu |-> noAccu,
                queue |-> Zeroes(width), queueOffset |-> 0, phase |-> "NOT_INITIALIZED_YET", made |-> << >>]
\* At the start of a compression: no output is compared with an earlier one, and
\* yAccu is written before it is read.
Forgotten(s) == [s EXCEPT !.made = << >>, !.yAccu = noAccu]

Init == /\ \E n \in KeyLengths :
              /\ n < width
              /\ kv = Kravatte_MaskDerivation(NewInstance, Key(FirstKey, n)).kv
        /\ strings = << >> /\ open = << >> /\ out = << >> /\ short = FALSE
        /\ text = noText

----------------------------------------------------------------------------
\* The key is set; a refused key leaves the instance as it is.
SetKey(k, n) ==
    /\ n < width
    /\ text = noText => k = FirstKey
    /\ kv' = LET R == Kravatte_MaskDerivation(kv, Key(k, n)) IN IF text = noText THEN Forgotten(R.kv) ELSE R.kv
    /\ strings' = << >> /\ open' = << >> /\ out' = << >>
    /\ UNCHANGED <<short, text>>

RefuseKey(k, n) ==
    /\ Kravatte_MaskDerivation(kv, Key(k, n)).ret # 0
    /\ kv' = Kravatte_MaskDerivation(kv, Key(k, n)).kv
    /\ UNCHANGED <<strings, open, out, short, text>>

\* The strings and the string in progress after input.
Given(input, flags, s, o) ==
    LET now  == (IF "INIT" \in flags THEN << >> ELSE o) \o input
        past == IF "INIT" \in flags THEN << >> ELSE s
    IN  IF "LAST_PART" \in flags THEN /\ strings' = Append(past, now) /\ open' = << >>
        ELSE strings' = past /\ open' = now

Input(n, flags) == Bits(message, IF "INIT" \in flags THEN 0 ELSE Len(open), n)

Compress(n, flags) ==
    \E R \in {Kra(kv, Input(n, flags), flags)} :
        /\ text = noText
        /\ R.kv.kRoll <= MaxRolls
        /\ R.ret = 0
        /\ kv' = Forgotten(R.kv)
        /\ Given(Input(n, flags), flags, strings, open)
        /\ out' = << >>
        /\ UNCHANGED <<short, text>>

Expand(n, flags) ==
    \E R \in {Vatte(kv, n, flags)} :
        /\ text = noText
        /\ Len(out) + n <= MaxOutput
        /\ R.ret = 0
        /\ kv' = R.kv
        /\ out' = out \o R.output
        /\ short' = IF kv.phase = "COMPRESSING" THEN "SHORT" \in flags ELSE short
        /\ UNCHANGED <<strings, open, text>>

CompressAndExpand(n, m, flags) ==
    \E R \in {Kravatte(Forgotten(kv), Input(n, flags), m, flags)} :
        /\ text = noText
        /\ R.kv.kRoll <= MaxRolls
        /\ R.ret = 0
        /\ kv' = R.kv
        /\ Given(Input(n, flags), flags \cup {"LAST_PART"}, strings, open)
        /\ out' = R.output
        /\ short' = ("SHORT" \in flags)
        /\ UNCHANGED text

----------------------------------------------------------------------------
\* The wide block cipher leaves the history of its last call, on R || 1.
LeftBehind(c) ==
    /\ strings' = <<From(c, WBC_Split(Len(c))) \o <<one>>>>
    /\ open' = << >> /\ short' = TRUE

Encipher(n, m, ae) ==
    /\ text = noText
    /\ \E R \in {IF ae THEN WBCAE_Encipher(Forgotten(kv), Bits(message, 0, n), Bits(tweak, 0, m))
                ELSE WBC_Encipher(Forgotten(kv), Bits(message, 0, n), Bits(tweak, 0, m))} :
        /\ kv' = R.kv
        /\ text' = [stage |-> "enciphered", n |-> n, m |-> m, ae |-> ae, k |-> kv.k,
                    changed |-> FALSE, ret |-> R.ret, ciphertext |-> R.output]
        /\ LeftBehind(R.output)
        /\ out' = << >>

\* A bit of the ciphertext is changed on its way.
Change(i) ==
    /\ text.stage = "enciphered" /\ ~text.changed
    /\ i \in DOMAIN text.ciphertext
    /\ text' = [text EXCEPT !.changed = TRUE, !.ciphertext[i] = Xor(@, one)]
    /\ UNCHANGED <<kv, strings, open, out, short>>

Decipher(m) ==
    /\ text.stage = "enciphered"
    /\ \E D \in {WBC_Decipher(kv, text.ciphertext, Bits(tweak, 0, m))},
         R \in {IF text.ae THEN WBCAE_Decipher(kv, text.ciphertext, Bits(tweak, 0, m))
               ELSE WBC_Decipher(kv, text.ciphertext, Bits(tweak, 0, m))} :
        /\ kv' = R.kv
        /\ text' = [stage |-> "deciphered", n |-> text.n, ae |-> text.ae, ret |-> text.ret + R.ret,
                    plaintext |-> R.output,
                    same |-> ~text.changed /\ text.m = m /\ text.k = kv.k]
        \* the last call is on the left half
        /\ strings' = <<First(D.output, WBC_Split(Len(D.output))) \o <<zero>>>>
        /\ open' = << >> /\ short' = TRUE /\ out' = << >>

Next == \/ \E k \in Keys, n \in KeyLengths : SetKey(k, n) \/ RefuseKey(k, n)
        \/ \E n \in InputLengths, flags \in SUBSET {"INIT", "LAST_PART"} : Compress(n, flags)
        \/ \E n \in OutputLengths, flags \in SUBSET {"SHORT", "LAST_PART"} : Expand(n, flags)
        \/ \E n \in InputLengths, m \in OutputLengths, flags \in SUBSET {"INIT", "SHORT"} :
              CompressAndExpand(n, m, flags)
        \/ \E n \in DataLengths, m \in WLengths, ae \in BOOLEAN : Encipher(n, m, ae)
        \/ \E i \in ChangedBits : Change(i)
        \/ \E m \in WLengths : Decipher(m)

Spec == Init /\ [][Next]_vars

----------------------------------------------------------------------------
\* The masks used before string i, and string i in blocks, the last one padded.
MasksBefore(i) ==
    FoldLeft(LAMBDA n, s : n + (Len(s) \div width) + 2, 0, SubSeq(strings, 1, i - 1))
BlockOf(s, j) == Padded(SubSeq(s, (j * width) + 1, Len(s)))
Entry(i, s, j) == [mask |-> <<kv.k, MasksBefore(i) + j>>,
                   block |-> IF Len(s) >= (j + 1) * width THEN SubSeq(s, (j * width) + 1, (j + 1) * width)
                             ELSE BlockOf(s, j)]

(* The accumulator, the mask and the queue of Kra are those of the history cut into   *)
(* blocks at once, however the strings were cut into calls, whatever part of a string *)
(* waited in the queue, and whatever was expanded or enciphered in between.           *)
AccumulatorIsHistory ==
    LET last == Len(strings) + 1
        rest == From(open, width * (Len(open) \div width))
    IN  /\ kv.kRoll = MasksBefore(last) + (Len(open) \div width)
        /\ kv.xAccu = UNION {{Entry(i, strings[i], j) : j \in 0 .. Len(strings[i]) \div width} : i \in DOMAIN strings}
                      \cup {Entry(last, open, j) : j \in 0 .. (Len(open) \div width) - 1}
        /\ kv.phase = "COMPRESSING" => First(kv.queue, kv.queueOffset) = rest
        /\ kv.phase # "COMPRESSING" => rest = << >>

(* Vatte gives consecutive parts of one stream: bit i of all the output of a history  *)
(* is bit i of the blocks made from the accumulator of that history, rolled once per  *)
(* block, however the output is cut into calls and whatever waits in the queue that   *)
(* the input also uses.                                                               *)
OutputIsStream ==
    \A i \in DOMAIN out :
        LET m == (i - 1) \div width
            input == <<[x |-> kv.xAccu, permuted |-> ~short, rolled |-> m], kv.k, kv.kRoll>>
        IN  \E j \in DOMAIN kv.made : /\ kv.made[j] = input
                                      /\ out[i] = {<<j, i - (m * width)>>}

(* Deciphering gives back what was enciphered, for every length, when key, tweak and  *)
(* ciphertext are the same, from any state of the instance in between.                *)
DecipherUndoesEncipher ==
    text.stage = "deciphered" /\ text.same
    => text.ret = 0 /\ First(text.plaintext, text.n) = Bits(message, 0, text.n)

(* If the ciphertext, the tweak or the key is another one, then with redundancy       *)
(* nothing of the text is given, and without it no bit of the text is as it was.      *)
ChangesAreFelt ==
    text.stage = "deciphered" /\ ~text.same
    => IF text.ae THEN text.ret # 0 /\ text.plaintext = Zeroes(Len(text.plaintext))
       ELSE text.n >= byte => \A i \in DOMAIN text.plaintext : text.plaintext[i] # Bits(message, 0, text.n)[i]
=============================================================================
