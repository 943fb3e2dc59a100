\* Two loggers pass through the same two call sites.
CONSTANTS
  Logger = {l1, l2}
  Site = {s1, s2}
  Uses <- AllUses
  IndexMod = 256
  MaxEntries = 4
  NotRun = NotRun
SPECIFICATION Spec
CHECK_DEADLOCK FALSE
INVARIANTS IndexIsOfTheFormatString
