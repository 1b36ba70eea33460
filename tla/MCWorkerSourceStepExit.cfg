\* A source step from which the process exits.
SPECIFICATION FairSpec
CONSTANTS
  entry = entry
  site = site
  Elsewhere = Elsewhere
  Addr = {entry, site}
  Entries = {entry}
  Verbs = {"Pause", "SourceStep"}
  ProgramSignals = FALSE
  MaxCommands = 2
PROPERTY ExitEnds
CHECK_DEADLOCK FALSE
