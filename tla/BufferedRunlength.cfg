\* The runlength file's buffer: every write is one record, shorter than the
\* array, and the FILE is buffered by the C library.
CONSTANTS
  Byte = {b1, b2}
  Inputs <- MCInputs
  MinWrite = 3
  MaxWrite = 3
  BufferSize = 7
  MaxCopy = 7
  SourceAdvances = FALSE
  Unbuffered = FALSE
  MaxBytes = 9
  MaxFailures = 0
SPECIFICATION Spec
INVARIANTS StreamIntact
PROPERTIES ImplementsAppendOnlyFile
