------------------------------ MODULE LowLevel ------------------------------
(***************************************************************************)
(* A state of Keccak-p[1600], or an object of several of them, in memory   *)
(* as an implementation keeps it, and the calls its users make.  A user    *)
(* calls the functions that are there for speed only when GetFeatures()    *)
(* announces them.  Of an object that x86-64-dispatch.c serves, each call  *)
(* goes to the implementation that the flags of the moment choose, and the *)
(* flags may change between two calls.                                     *)
(*                                                                         *)
(* Whatever the implementation, it is the one object of PermutationStates. *)
(***************************************************************************)
EXTENDS Implementations, Dispatch, TLC, TLAPS

CONSTANTS Objects,        \* implementations, and dispatched objects, to explore
          Calls(_, _),    \* Calls(object, n): the calls made as n-th
          Data(_, _)

\* As many bytes are left after the whole blocks of a leaf as there are of 8192.
ASSUME chunkSizeAssumption == \A rate \in {136, 168} : chunkSize(rate) % rate = 8192 % rate

\* The name of no implementation.
ASSUME ObjectsAssumption == "none" \notin Objects

VARIABLES object, memory, call, out,
          aborted,        \* a call reached an assert(0)
          calls

vars == <<has, requested, enabled, object, memory, call, out, aborted, calls>>

Dispatched == {"KeccakP1600times2", "KeccakP1600times4", "KeccakP1600times8"}

\* The implementation that serves op, and the one that GetFeatures() is of.
Serving(op) ==
    LET farfalle == op \in {"KravatteCompress", "KravatteExpand", "ProcessLeaves"}
    IN  CASE object = "KeccakP1600times2" ->
                IF farfalle THEN KeccakP1600times2_Farfalle ELSE KeccakP1600times2
          [] object = "KeccakP1600times4" ->
                IF farfalle THEN KeccakP1600times4_Farfalle ELSE KeccakP1600times4
          [] object = "KeccakP1600times8" -> KeccakP1600times8
          [] object \notin Dispatched -> object
Announced == Features(Serving("GetFeatures"))

\* Where the calls of the other families go: those that any user makes, and
\* those that its users make for a feature.  Their states are not modelled.
Elsewhere ==
    [KeccakP1600   |-> [Main |-> KeccakP1600, SpongeAbsorb |-> KeccakP1600, OD |-> KeccakP1600_OD],
     Xoodoo        |-> [Main |-> Xoodoo, Cyclist |-> Xoodyak, Farfalle |-> Xoofff],
     Xoodootimes4  |-> [Main |-> Xoodootimes4, Farfalle |-> Xooffftimes4],
     Xoodootimes8  |-> [Main |-> Xoodootimes8, Farfalle |-> Xooffftimes8],
     Xoodootimes16 |-> [Main |-> Xoodootimes16, Farfalle |-> Xooffftimes16]]

\* The feature without which callers do not use op.
Needs(op) ==
    CASE op = "FastLoop_Absorb" -> "SpongeAbsorb"
      [] op \in {"ODDuplexingFastInOut", "ODDuplexingFastOut", "ODDuplexingFastIn"} -> "OD"
      [] op = "ProcessLeaves" -> "KangarooTwelve"
      [] op \in {"KravatteCompress", "KravatteExpand"} -> "Farfalle"
      [] op \notin {"FastLoop_Absorb", "ODDuplexingFastInOut", "ODDuplexingFastOut",
                    "ODDuplexingFastIn", "ProcessLeaves", "KravatteCompress",
                    "KravatteExpand"} -> "Main"

----------------------------------------------------------------------------
(***************************************************************************)
(* The buffers of a call.                                                  *)
(***************************************************************************)
LOCAL N == Parallelism(object)
LanesSize(c) == 8 * ((N - 1) * c.laneOffset + c.laneCount)
LanesOf(bytes) == [l \in 0..24 |-> Word(bytes, 8 * l, 8)]

WithData(c) ==
    LET size == CASE c.op = "AddByte" -> 1
                  [] c.op = "ProcessLeaves" -> N * chunkSize(c.rate)
                  [] c.op \in {"AddLanesAll", "OverwriteLanesAll", "ExtractLanesAll",
                               "ExtractAndAddLanesAll"} -> LanesSize(c)
                  [] c.op \in {"InitializeAll", "Permute"} -> 0
                  [] c.op \notin {"AddByte", "ProcessLeaves", "AddLanesAll", "OverwriteLanesAll",
                                  "ExtractLanesAll", "ExtractAndAddLanesAll", "InitializeAll",
                                  "Permute"} -> c.length
        data == [data |-> Data(c.seed, size)]
    IN  CASE c.op = "AddByte" -> [byte |-> data.data[0]] @@ c
          [] c.op \in {"ExtractAndAddLanesAll", "ODDuplexingFastInOut", "ODDuplexingFastOut"} ->
                [data2 |-> Data(c.seed + 1, size)] @@ data @@ c
          [] c.op \in {"KravatteCompress", "KravatteExpand"} ->
                [x |-> LanesOf(Data(c.seed + 1, 200)), k |-> LanesOf(Data(c.seed + 2, 200))]
                    @@ data @@ c
          [] c.op \notin {"AddByte", "ExtractAndAddLanesAll", "ODDuplexingFastInOut",
                          "ODDuplexingFastOut", "KravatteCompress", "KravatteExpand"} -> data @@ c

----------------------------------------------------------------------------
noCall == [op |-> "none"]

Init ==
    /\ InitFlags
    /\ object \in Objects
    /\ object \notin Dispatched => has = Extensions   \* its flags matter to the dispatch only
    /\ memory = Initial(object)
    /\ call = noCall /\ out = << >> /\ aborted = FALSE /\ calls = 0

\* A call of the function that c.op names.
Call(c) ==
    /\ Needs(c.op) \in Announced
    /\ call' = c
    /\ IF Serving(c.op) = "none"
       THEN aborted' = TRUE /\ UNCHANGED <<memory, out>>
       ELSE \E r \in {Implementation_Call(Serving(c.op), memory, WithData(c))} :
               memory' = r.state /\ out' = r.out /\ aborted' = FALSE
    /\ calls' = calls + 1
    /\ UNCHANGED <<has, requested, enabled, object>>

\* A call, by a user of another family, of a function that needs a feature.
CallElsewhere(family, feature) ==
    /\ feature \in Features(Elsewhere[family].Main)
    /\ aborted' = (Elsewhere[family][feature] = "none")
    /\ UNCHANGED <<has, requested, enabled, object, memory, call, out, calls>>

ChangeFlags ==
    /\ object \in Dispatched
    /\ EnableAllCpuFeatures \/ \E f \in Extensions : Disable(f)
    /\ UNCHANGED <<object, memory, call, out, aborted, calls>>

Next ==
    \/ \E c \in Calls(object, calls) : Call(c)
    \/ calls = 0   \* the calls of the object make no difference
       /\ \E family \in DOMAIN Elsewhere : \E feature \in DOMAIN Elsewhere[family] :
            CallElsewhere(family, feature)
    \/ ChangeFlags

Spec == Init /\ [][Next]_vars

----------------------------------------------------------------------------
(***************************************************************************)
(* Every implementation, through every sequence of calls and whatever the  *)
(* changes of the flags, does what the reference does: each call on the    *)
(* memory is the call on the bytes.  Of the loops this is what             *)
(* doc/SnP-documentation.h says (221, 244, 267 for the overwrite duplex):  *)
(* "This function has the same behavior as repeatedly calling" the         *)
(* functions that access the bytes, and the permutation.                   *)
(* The one exception are the loops of the overwrite duplex where lanes are *)
(* complemented: they are announced (SnP_Feature_OD), and write input to   *)
(* the lanes and read output from them as they are in memory               *)
(* (KeccakP-1600-opt64.c 574-607).                                         *)
(***************************************************************************)
Promised == INSTANCE PermutationStates WITH states <- Fixed(Meaning(object, memory))
ODOnComplementedLanes(c) == object = "plain64lc" /\ Needs(c.op) = "OD"
SameAsReference ==
    Promised!Init /\ [][Promised!Next \/ ODOnComplementedLanes(call')]_(Promised!contract)

\* A caller that goes by GetFeatures() never reaches an assert(0) of the
\* dispatch, although the functions for Farfalle and KangarooTwelve are chosen
\* by other flags than the rest.
NeverAborted == ~aborted
----------------------------------------------------------------------------
(***************************************************************************)
(* Whatever a processor has and a program disables or enables between its  *)
(* calls, whatever the objects and the calls: a caller that goes by        *)
(* GetFeatures() never reaches an assert(0) of the dispatch.               *)
(***************************************************************************)

\* The announcement of the flags of the moment and the choice of the moment
\* are made of the same flags, and only of them.
IInv == object # "none" /\ ~aborted

\* Of each family: a feature is announced only while some implementation has
\* the functions that need it.
LEMMA AnnouncedIsServed ==
  ASSUME NEW family \in DOMAIN Elsewhere, NEW feature \in DOMAIN Elsewhere[family],
         feature \in Features(Elsewhere[family].Main)
  PROVE  Elsewhere[family][feature] # "none"
<1>1. Features("none") = {}
  BY DEF Features
<1>2. "Farfalle" \notin Features("Xoodootimes4_SSSE3")
      /\ "Farfalle" \notin Features("Xoodoo_SSSE3") /\ "Farfalle" \notin Features("Xoodoo_plain")
      /\ "OD" \notin Features("KeccakP1600_AVX512") /\ "OD" \notin Features("KeccakP1600_AVX2")
  BY DEF Features, Serial
<1>3. CASE family = "KeccakP1600"
  BY <1>2, <1>3 DEF Elsewhere, KeccakP1600, KeccakP1600_OD
<1>4. CASE family = "Xoodoo"
  BY <1>2, <1>4 DEF Elsewhere, Xoodoo, Xoodyak, Xoofff
<1>5. CASE family = "Xoodootimes4"
  BY <1>1, <1>2, <1>5 DEF Elsewhere, Xoodootimes4, Xooffftimes4
<1>6. CASE family = "Xoodootimes8"
  BY <1>1, <1>6 DEF Elsewhere, Xoodootimes8, Xooffftimes8
<1>7. CASE family = "Xoodootimes16"
  BY <1>1, <1>7 DEF Elsewhere, Xoodootimes16, Xooffftimes16
<1> QED BY <1>3, <1>4, <1>5, <1>6, <1>7 DEF Elsewhere

\* The same of the objects whose states are modelled.
LEMMA ObjectIsServed ==
  ASSUME NEW op, object # "none", Needs(op) \in Announced
  PROVE  Serving(op) # "none"
<1>1. Features("none") = {}
  BY DEF Features
<1>2. CASE object \notin Dispatched
  BY <1>2 DEF Serving, Dispatched
<1>3. CASE object = "KeccakP1600times2"
  <2>1. {"Farfalle", "KangarooTwelve"} \cap (Features("times2_AVX512") \cup Features("times2_SSSE3")) = {}
    BY DEF Features, Serial
  <2>2. Announced = Features(KeccakP1600times2)
    BY <1>3 DEF Announced, Serving, Dispatched
  <2>3. CASE op \in {"KravatteCompress", "KravatteExpand", "ProcessLeaves"}
    BY <1>1, <2>1, <2>2, <2>3 DEF Needs, KeccakP1600times2
  <2>4. CASE op \notin {"KravatteCompress", "KravatteExpand", "ProcessLeaves"}
    BY <1>1, <1>3, <2>2, <2>4 DEF Serving, Dispatched, KeccakP1600times2
  <2> QED BY <2>3, <2>4
<1>4. CASE object = "KeccakP1600times4"
  <2>1. {"Farfalle", "KangarooTwelve"} \cap Features("times4_AVX512") = {}
    BY DEF Features, Serial
  <2>2. Announced = Features(KeccakP1600times4)
    BY <1>4 DEF Announced, Serving, Dispatched
  <2>3. CASE op \in {"KravatteCompress", "KravatteExpand", "ProcessLeaves"}
    <3>1. KeccakP1600times4_Farfalle # "none"
      BY <1>1, <2>1, <2>2, <2>3 DEF Needs, KeccakP1600times4, KeccakP1600times4_Farfalle
    <3> QED BY <1>4, <2>3, <3>1 DEF Serving, Dispatched
  <2>4. CASE op \notin {"KravatteCompress", "KravatteExpand", "ProcessLeaves"}
    BY <1>1, <1>4, <2>2, <2>4 DEF Serving, Dispatched, KeccakP1600times4
  <2> QED BY <2>3, <2>4
<1>5. CASE object = "KeccakP1600times8"
  <2>1. Announced = Features(KeccakP1600times8) /\ Serving(op) = KeccakP1600times8
    BY <1>5 DEF Announced, Serving, Dispatched
  <2> QED BY <1>1, <2>1 DEF KeccakP1600times8
<1> QED BY <1>2, <1>3, <1>4, <1>5 DEF Dispatched

-----------------------------------------------------------------------------
LEMMA NextIInv == IInv /\ [Next]_vars => IInv'
<1> SUFFICES ASSUME IInv, [Next]_vars PROVE IInv'
  OBVIOUS
<1> USE DEF IInv
<1>1. ASSUME NEW c \in Calls(object, calls), Call(c) PROVE IInv'
  <2>1. Serving(c.op) # "none"
    BY <1>1, ObjectIsServed DEF Call
  <2> QED BY <1>1, <2>1 DEF Call
<1>2. ASSUME NEW family \in DOMAIN Elsewhere, NEW feature \in DOMAIN Elsewhere[family],
             CallElsewhere(family, feature)
      PROVE  IInv'
  <2>1. Elsewhere[family][feature] # "none"
    BY <1>2, AnnouncedIsServed DEF CallElsewhere
  <2> QED BY <1>2, <2>1 DEF CallElsewhere
<1>3. CASE ChangeFlags
  BY <1>3 DEF ChangeFlags
<1>4. CASE UNCHANGED vars
  BY <1>4 DEF vars
<1> QED BY <1>1, <1>2, <1>3, <1>4 DEF Next

\* No call of a function that GetFeatures() announces is one that the
\* dispatch aborts.
THEOREM DispatchNeverAborts == Spec => []NeverAborted
<1>1. Init => IInv
  BY ObjectsAssumption DEF Init, IInv
<1>2. Spec => []IInv
  BY <1>1, NextIInv, PTL DEF Spec
<1> QED BY <1>2, PTL DEF IInv, NeverAborted
=============================================================================
