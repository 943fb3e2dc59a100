\* Eight sites with arguments of every type, constant and not, some of them
\* with more than the index file can tell; lengths of three values and counts
\* of thirteen.
CONSTANTS
  Site <- CodecSites
  Passes <- CodecPasses
  LengthMod = 3
  CountMod <- CodecCountMod
  MaxCalls = 3
SPECIFICATION Spec
INVARIANTS TypeOK IndexParsedExactlyWhenRepresentable NothingMisread PrintsCallsInFullExactlyWhenFaithful
