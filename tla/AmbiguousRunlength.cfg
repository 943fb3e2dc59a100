\* No flush() before the destructor: the unpacker still prints something else
\* than what was logged, for a call made once and repeated later.
CONSTANTS
  NumFormats = 2
  NoArgs = {}
  MayFlush = FALSE
  MaxCalls = 5
  KilledAfter = {}
SPECIFICATION Spec
INVARIANTS DeflatesToTheCalls
