\* Three format strings, one of them without values; eight calls, flush()
\* anywhere.
CONSTANTS
  NumFormats = 3
  NoArgs = {1}
  MayFlush = TRUE
  MaxCalls = 8
  KilledAfter = {0, 1, 2, 3, 4, 5}
SPECIFICATION Spec
INVARIANTS TypeOK StreamsDescribeCalls PrintsCallsInOrder RoundTripExactlyWhenDecodable FlushedCallsSurvive DurableLogHasItsFormats
PROPERTIES IntactLogIsUnpackedToItsEnd
