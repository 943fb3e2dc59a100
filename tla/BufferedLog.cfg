\* The log file's buffer: MaxCopy = BufferSize, unbuffered FILE.  Writes of
\* 0 .. 7 bytes are smaller than, equal to and more than twice the buffer.
CONSTANTS
  Byte = {b1, b2}
  Inputs <- MCInputs
  MinWrite = 0
  MaxWrite = 7
  BufferSize = 3
  MaxCopy = 3
  SourceAdvances = TRUE
  Unbuffered = TRUE
  MaxBytes = 8
  MaxFailures = 1
SPECIFICATION Spec
INVARIANTS TypeOK BufferInBounds StreamIntact
PROPERTIES ImplementsAppendOnlyFile WritesReturn
