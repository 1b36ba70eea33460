SPECIFICATION Spec
CONSTANTS
  None = None
  Setups <- Sessions
INVARIANTS TypeOK BeliefSettles ListSettles ReasonCurrent LeavesAfterEnd FollowsTail
PROPERTIES SelectionKept
CHECK_DEADLOCK FALSE
