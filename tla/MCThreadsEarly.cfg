SPECIFICATION Spec
CONSTANTS
  Main = "main"
  Others = {"other"}
  Initial = 0
  Sec = 2
  Timeouts = {2}
  MaxTime = 4
CHECK_DEADLOCK FALSE
PROPERTIES NeverEarly
