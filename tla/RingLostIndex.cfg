\* One format, logged until its first call is dropped.
CONSTANTS
  NumFormats = 1
  ArgBytes <- MCArgBytes
  EntryBytes <- MCEntryBytes
  IndexBytes = 2
  RecordBytes = 10
  LogBufferSize = 8
  IndexBufferSize = 30
  RunlengthBufferSize = 30
  MaxCalls = 7
SPECIFICATION RingSpec
INVARIANTS BufferStartsWithIndex
