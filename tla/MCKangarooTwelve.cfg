\* Chunks of 2 bytes, chaining values of 2 and 4 bytes, up to four leaves at once,
\* lengths in base 3.  As 168 and 136 do after 8192, the rates 10 and 8 leave room
\* for a lane after the first chunk.
SPECIFICATION Spec
CONSTANTS
  ChunkSize = 2
  LaneSize = 2
  Radix = 3
  Width = 12
  Levels = {1, 2}
  Parallelism = {2, 4}
  MaxMessage = 12
  MaxCustom = 4
  MaxOutput = 2
INVARIANTS
  NeverRefused
  ChunksInNodes
PROPERTIES
  ImplementsTreeHash
  EveryCallReturns
