\* A nexti paused before it is back.
SPECIFICATION Spec
CONSTANTS
  entry = entry
  site = site
  Elsewhere = Elsewhere
  Addr = {entry, site}
  Entries = {entry}
  Verbs = {"Pause", "Resume", "StepInstructionOver"}
  ProgramSignals = FALSE
  MaxCommands = 4
INVARIANT NextiKeepsTrace
CHECK_DEADLOCK FALSE
