SPECIFICATION FairSpec
CONSTANTS
  RunBytes = 4
  BufferSize = 8
  Word = 16
  ByteBits = 3
  Fw1Size = 3
  MaxUses = 5
INVARIANTS SampleReuse IInv
PROPERTIES ReturnsFull FillEnds
