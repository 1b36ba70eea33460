\* Every command in any order, against a process that gets signals of its own.
SPECIFICATION Spec
CONSTANTS
  entry = entry
  site = site
  Elsewhere = Elsewhere
  Addr = {entry, site}
  Entries = {entry}
  Verbs <- AllVerbs
  ProgramSignals = TRUE
  MaxCommands = 5
INVARIANTS TypeOK HeldIffPaused StatusHonest NextiTrapped PendingOpen
PROPERTIES KeepsPromise
CHECK_DEADLOCK FALSE
