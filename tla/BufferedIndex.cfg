\* The index file's buffer: one iteration copies at most BufferSize - 1.
CONSTANTS
  Byte = {b1, b2}
  Inputs <- MCInputs
  MinWrite = 1
  MaxWrite = 6
  BufferSize = 3
  MaxCopy = 2
  SourceAdvances = TRUE
  Unbuffered = TRUE
  MaxBytes = 7
  MaxFailures = 2
SPECIFICATION Spec
INVARIANTS BufferInBounds ShortWritesLoseAtMostTheArray
PROPERTIES ImplementsAppendOnlyFile WritesReturn
