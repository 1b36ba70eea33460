\* A continue sent as an allocator-event step completes.
SPECIFICATION Spec
CONSTANTS
  entry = entry
  site = site
  Elsewhere = Elsewhere
  Addr = {entry, site}
  Entries = {entry}
  Verbs = {"Pause", "Continue", "StepAllocatorEvent"}
  ProgramSignals = FALSE
  MaxCommands = 3
INVARIANT ContinueKeepsTrace
CHECK_DEADLOCK FALSE
