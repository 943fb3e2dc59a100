\* Two loggers, four sites that both pass through, and a uint8_t of three
\* values, so that one logger can register one site too many.  The program
\* may stop after any call.
CONSTANTS
  Logger = {l1, l2}
  Site = {s1, s2, s3, s4}
  Uses <- AllUses
  IndexMod = 3
  MaxEntries = 5
  NotRun = NotRun
SPECIFICATION Spec
SYMMETRY Interchangeable
CHECK_DEADLOCK FALSE
INVARIANTS TypeOK ResolvesExactlyWhenAddressable IndicesInOrderOfFirstUse
