\* Two addresses, sizes whose products stay below and above a word of 3, and a
\* program that may free anything it likes and use functions that are not traced.
SPECIFICATION Spec
CONSTANTS
  Ptr = {p1, p2}
  Null = null
  Size = {0, 1, 2}
  MaxWord = 3
INVARIANTS TypeOK TracksLive TracksFreed
PROPERTIES DoubleFreeExact ReuseExplained
CHECK_DEADLOCK FALSE
