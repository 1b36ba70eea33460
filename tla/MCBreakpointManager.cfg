\* Two addresses, two user breakpoints, one step-over, two traced calls whose
\* return breakpoints may share an address with everything else.
SPECIFICATION Spec
CONSTANTS
  a1 = a1
  a2 = a2
  plain = plain
  INT3 = INT3
  NoAddr = NoAddr
  Addr = {a1, a2}
  Byte = {INT3, plain}
  Text <- MCText
  EntryKinds = {"MallocEntry", "ReallocEntry"}
  ReturnKinds = {"MallocReturn", "ReallocReturn"}
  ReturnOf <- MCReturnOf
  Commands = {1}
  MaxId = 2
  MaxEvent = 2
  MaxHits = 1
  MaxOwners = 4
INVARIANTS
  TypeOK
  ProgramText
  Rearmed
  NoIdleTrap
  OwnersRegistered
  EnabledArmed
  ReportedOnce

PROPERTIES HitsCredited KeepsLedger
CHECK_DEADLOCK FALSE
