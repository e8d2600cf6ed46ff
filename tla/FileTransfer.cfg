SPECIFICATION Spec
CONSTANTS
  Bytes = {0, 1}
  Zero = 0
  ReadChunk = 2
  WriteChunk = 2
  MemChunk = 1
  MaxSize = 4
INVARIANTS ReadContiguous ReadComplete WriteExact EveryPieceMoves
