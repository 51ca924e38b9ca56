\* Three bytes of two bits; elements narrower than a byte, equal and wider.
CONSTANTS
  ByteBits = 2
  Word = 32
  MemSize = 3
  Windows <- TwoWindows
  Widths = {0, 1, 2, 3}
  None = None
SPECIFICATION Spec
INVARIANTS TypeOK StaysInBuffers SizesAreLeast
PROPERTY ImplementsBitArray
