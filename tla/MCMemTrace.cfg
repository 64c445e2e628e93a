SPECIFICATION Spec
CONSTANTS
  Threads = {t1, t2}
  Blocks = {b1, b2}
  Nodes = {n1, n2}
  Sizes = {1, 2}
  Word = 2
  First = t1
  RecordMayFail = TRUE
  EnvTrace = TRUE
  Walks = {"print"}
  NoThread = NoThread
  NoBlock = NoBlock
  NoNode = NoNode
SYMMETRY Symmetry
CHECK_DEADLOCK FALSE
INVARIANTS TypeOK MutualExclusion OneRecordPerBlock NoDanglingRead RecordStaysFound Quarantine LegalCallNotReported
