SPECIFICATION Spec
CONSTANTS
  Threads = {t1, t2}
  Blocks = {b1, b2}
  Nodes = {n1, n2}
  Sizes = {1, 2}
  Word = 8
  First = t1
  RecordMayFail = FALSE
  EnvTrace = TRUE
  Walks = {}
  NoThread = NoThread
  NoBlock = NoBlock
  NoNode = NoNode
CHECK_DEADLOCK FALSE
INVARIANTS TotalMatches
