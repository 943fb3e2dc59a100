\* A runlength buffer smaller than one record: the loop goes round twice and
\* copies the head of the record again.
CONSTANTS
  Byte = {b1, b2}
  Inputs <- MCInputs
  MinWrite = 3
  MaxWrite = 3
  BufferSize = 2
  MaxCopy = 2
  SourceAdvances = FALSE
  Unbuffered = FALSE
  MaxBytes = 6
  MaxFailures = 0
SPECIFICATION Spec
INVARIANTS StreamIntact
