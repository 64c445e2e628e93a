SPECIFICATION PartsSpec
CONSTANTS
  Off = Off
  Printers = {"t", "u"}
  MaxSockets = 1
  Links = {1, 2}
  NoSock = 0
  MaxCalls = 2
  Room = 2
  LenWords = 1
  Main = "main"
  Others = {"other"}
  Initial = 1
  Sec = 2
  Timeouts <- TimesGiven
  MaxTime = 4
  Last = 4
  SendSizes = {1, 3}
  PacketSizes = {0, 2}
  ReadSizes = {1, 3}
  Capacity = 3
  MaxWait = 1
  Procs = {"p", "q"}
  Nobody = "nobody"
  Start = {"none", "written"}
  Big = TRUE
  Faults = {"crash", "full"}
CHECK_DEADLOCK FALSE
INVARIANTS PartsTyped WholeUnlessMixed LinksInSlots NoTokenLost BytesInOrder KeptUnlessExcused
PROPERTIES TimeoutNotEarly CallsReturn
