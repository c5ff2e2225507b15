\* Every implementation, and the objects that the dispatch serves on two processors.
SPECIFICATION Spec
CONSTANTS
  Objects = {"plain64", "plain64lc", "compact", "ref32", "inplace",
             "times2_SSSE3", "times2_AVX512", "times4_AVX2", "times4_AVX512", "times4_on1",
             "times8_AVX512",
             "KeccakP1600times2", "KeccakP1600times4", "KeccakP1600times8"}
  Processors = {{"SSSE3", "AVX2", "AVX512"}, {"SSSE3", "AVX2"}}
  chunkSize <- MCchunkSize
  Calls <- MCCalls
  Data <- MCData
INVARIANT NeverAborted
PROPERTY SameAsReference
CHECK_DEADLOCK FALSE
