\* What a pause and a stop lead to under fair scheduling.
SPECIFICATION QuietSpec
CONSTANTS
  entry = entry
  site = site
  Elsewhere = Elsewhere
  Addr = {entry, site}
  Entries = {entry}
  Verbs <- AllVerbs
  ProgramSignals = FALSE
  MaxCommands = 3
PROPERTIES PauseComes StopProgresses
CHECK_DEADLOCK FALSE
