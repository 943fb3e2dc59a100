\* A ring of eight bytes and nine calls: entries are dropped from the third
\* call on, the runlength buffer is full after two records and the index
\* buffer after three format strings.
CONSTANTS
  NumFormats = 4
  ArgBytes <- MCArgBytes
  EntryBytes <- MCEntryBytes
  IndexBytes = 2
  RecordBytes = 10
  LogBufferSize = 8
  IndexBufferSize = 30
  RunlengthBufferSize = 30
  MaxCalls = 9
SPECIFICATION RingSpec
INVARIANTS TypeOK RingHoldsNewestEntries OnlyOversizedEntriesOverflow AbortsExactlyWhenFull RingDeflatesExactlyWhenLengthsAgree
