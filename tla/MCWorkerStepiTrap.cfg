\* Single steps among user breakpoints.
SPECIFICATION Spec
CONSTANTS
  entry = entry
  site = site
  Elsewhere = Elsewhere
  Addr = {entry, site}
  Entries = {entry}
  Verbs = {"Pause", "Breakpoint", "StepInstruction"}
  ProgramSignals = FALSE
  MaxCommands = 3
INVARIANT NothingSkipped
CHECK_DEADLOCK FALSE
