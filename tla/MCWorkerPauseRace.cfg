\* A pause and a breakpoint hit.
SPECIFICATION Spec
CONSTANTS
  entry = entry
  site = site
  Elsewhere = Elsewhere
  Addr = {entry, site}
  Entries = {entry}
  Verbs = {"Pause"}
  ProgramSignals = FALSE
  MaxCommands = 2
INVARIANT PauseKeepsTrace
CHECK_DEADLOCK FALSE
