SPECIFICATION Spec
CONSTANTS
  Threads = {t1, t2}
  Blocks = {b1}
  Nodes = {n1}
  Sizes = {1, 2}
  Word = 2
  First = t1
  RecordMayFail = TRUE
  EnvTrace = TRUE
  Walks = {}
  NoThread = NoThread
  NoBlock = NoBlock
  NoNode = NoNode
CHECK_DEADLOCK FALSE
PROPERTIES LockReleased
