\* flush() inside a run, and the run goes on.
CONSTANTS
  NumFormats = 2
  NoArgs = {}
  MayFlush = TRUE
  MaxCalls = 5
  KilledAfter = {}
SPECIFICATION Spec
PROPERTIES ZeroRunlengthWritesIndex
