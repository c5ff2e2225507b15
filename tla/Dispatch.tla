------------------------------ MODULE Dispatch ------------------------------
(***************************************************************************)
(* x86-64-dispatch.c: at every call of a function of SnP or PlSnP the      *)
(* implementation is chosen by three flags, which say what the processor   *)
(* has and the caller did not disable.  All flags are off until they are   *)
(* first set.                                                              *)
(***************************************************************************)
CONSTANT Processors       \* sets of instruction set extensions, AVX512 being F and VL

VARIABLES has,            \* the processor's: get_cpu_features()
          requested,      \* XKCP_..._requested_disabled
          enabled         \* XKCP_enable...

flags == <<has, requested, enabled>>
Extensions == {"SSSE3", "AVX2", "AVX512"}
ASSUME ProcessorsAssumption == Processors \subseteq SUBSET Extensions

InitFlags == has \in Processors /\ requested = {} /\ enabled = {}

SetProcessorCapabilities(disabled) == has \ disabled

\* XKCP_DisableSSSE3, XKCP_DisableAVX2, XKCP_DisableAVX512
Disable(f) ==
    /\ requested' = requested \cup {f}
    /\ enabled' = IF f \in SetProcessorCapabilities(requested)
                  THEN SetProcessorCapabilities(requested')
                  ELSE SetProcessorCapabilities(requested)
    /\ has' = has

EnableAllCpuFeatures ==
    /\ requested' = {}
    /\ enabled' = SetProcessorCapabilities({})
    /\ has' = has

----------------------------------------------------------------------------
(***************************************************************************)
(* Which implementation each family of functions goes to; "none" is        *)
(* assert(0).                                                              *)
(***************************************************************************)
KeccakP1600 == IF "AVX512" \in enabled THEN "KeccakP1600_AVX512"
               ELSE IF "AVX2" \in enabled THEN "KeccakP1600_AVX2" ELSE "plain64"
KeccakP1600_OD == IF {"AVX2", "AVX512"} \cap enabled = {} THEN "plain64" ELSE "none"

KeccakP1600times2 == IF "AVX512" \in enabled THEN "times2_AVX512"
                     ELSE IF "SSSE3" \in enabled THEN "times2_SSSE3" ELSE "none"
KeccakP1600times2_Farfalle == "none"   \* and KT128, KT256

KeccakP1600times4 == IF "AVX512" \in enabled THEN "times4_AVX512"
                     ELSE IF "AVX2" \in enabled THEN "times4_AVX2" ELSE "none"

\* Mutant: tests the flag of the objects of two.
KeccakP1600times4_FarfalleSSSE3 == IF "SSSE3" \in enabled THEN "times4_AVX2" ELSE "none"

KeccakP1600times4_Farfalle == IF "AVX2" \in enabled THEN "times4_AVX2" ELSE "none"

KeccakP1600times8 == IF "AVX512" \in enabled THEN "times8_AVX512" ELSE "none"

\* The functions of Xoodyak go as those of Xoodoo do.
Xoodoo == IF "AVX512" \in enabled THEN "Xoodoo_AVX512"
          ELSE IF "SSSE3" \in enabled THEN "Xoodoo_SSSE3" ELSE "Xoodoo_plain"
Xoodyak == Xoodoo
Xoofff == IF "AVX512" \in enabled THEN "Xoodoo_AVX512" ELSE "none"

Xoodootimes4 == IF "AVX512" \in enabled THEN "Xoodootimes4_AVX512"
                ELSE IF "SSSE3" \in enabled THEN "Xoodootimes4_SSSE3" ELSE "none"
Xooffftimes4 == IF "AVX512" \in enabled THEN "Xoodootimes4_AVX512" ELSE "none"

Xoodootimes8 == IF "AVX512" \in enabled THEN "Xoodootimes8_AVX512"
                ELSE IF "AVX2" \in enabled THEN "Xoodootimes8_AVX2" ELSE "none"
Xooffftimes8 == Xoodootimes8

Xoodootimes16 == IF "AVX512" \in enabled THEN "Xoodootimes16_AVX512" ELSE "none"
Xooffftimes16 == Xoodootimes16
=============================================================================
