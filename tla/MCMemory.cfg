SPECIFICATION MemorySpec
CONSTANTS
  Byte = {a, b}
  Junk = Junk
  Hole = Hole
  DefaultSizes = {1, 2}
  MaxChunk = 2
  MaxLength = 3
  MaxSize = 4
  Threads = {t1, t2}
  Blocks = {b1}
  Nodes = {n1}
  Sizes = {1, 2}
  Word = 2
  First = t1
  RecordMayFail = FALSE
  EnvTrace = TRUE
  Walks = {"stats", "print"}
  NoThread = NoThread
  NoBlock = NoBlock
  NoNode = NoNode
INVARIANTS TypeOK WithinAllocation NoForeignByte
PROPERTIES NeverShrinks RequestReturns ImplementsQueue LockReleased
