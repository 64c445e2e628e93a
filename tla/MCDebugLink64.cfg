SPECIFICATION Spec
CONSTANTS
  Threads = {t}
  MaxSockets = 1
  Links = {1}
  NoSock = 0
  MaxCalls = 2
  Room = 3
  LenWords = 2
CHECK_DEADLOCK FALSE
INVARIANTS WholeUnlessMixed
