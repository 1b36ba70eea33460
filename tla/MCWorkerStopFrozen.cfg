\* A pause that lands after a stop request.
SPECIFICATION FairSpec
CONSTANTS
  entry = entry
  site = site
  Elsewhere = Elsewhere
  Addr = {entry, site}
  Entries = {entry}
  Verbs = {"Pause", "Stop"}
  ProgramSignals = FALSE
  MaxCommands = 2
PROPERTY StopEnds
CHECK_DEADLOCK FALSE
