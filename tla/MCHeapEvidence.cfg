SPECIFICATION Spec
CONSTANTS
  None = None
  Chunks = 3
  WalkLimit = 5
  ChainLimit = 2
  TcacheLimit = 3
  TcacheMax = 1
  MaxEvents = 6
  MaxWritten = 4
  MaxDisturbed = 4
  MaxHidden = 1
  Setups <- Sessions
INVARIANTS
  TypeOK
  SoundHeapReadWhole
  PlausibleIsPrefix
  VouchedFastbinEnds
  SnapshotsPredateFrees
  AlarmsExplained
  HeaderTakenForStray
  OptionOrder
  MatchIsExact
  LayoutTells
  ReplayTellsTrace
CHECK_DEADLOCK FALSE
