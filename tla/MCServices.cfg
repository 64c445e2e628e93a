SPECIFICATION PartsSpec
CONSTANTS
  Off = Off
  Nil = Nil
  KeyPaths <- KeyAndSubkey
  ValueNames = {"b"}
  Types = {"sz", "dword"}
  Handles = {"h1", "h2"}
  MayDeny = TRUE
  Recursive = FALSE
  Clients = {"a", "b"}
  MaxConns = 2
  MaxMsgs = 1
  Descriptors = {1, 2}
  Slots = {1, 2}
  MaxPackets = 2
  Requests <- ActionLists
  Answers <- ServerAnswers
  Known = {"h", "w.h"}
  Within <- Domains
  Files = {"p.x"}
  Begins <- Beginnings
  MaxDepth = 1
  MayFail = TRUE
  Programs = {"p", "q"}
  MaxWrites = 2
  Out = Out
  Null = Null
  Cells = {"c1", "c2", "c3"}
  Elems = {a, b}
  Letters = {"a", "b"}
  MaxWord = 4
  Size = 3
  Users = {"u", "v"}
  FileContents <- ShortContents
  Indexes = {0, 1}
  ResNames = {"n"}
  MaxRes = 2
  Hosts = {"h", "w.h"}
  Dotted = {"w.h", "p.x"}
  InputNames = {"n"}
  EncodedBytes = {1, 32, 65, 127, 200}
  Grain = 8
  Top = 136
  Sizes = {8, 16, 24}
  Keys <- KeyChain
  Names = {v}
  Strings = {s}
  Ints = {i}
  Careful = TRUE
  LockMayFail = TRUE
  None = None
CHECK_DEADLOCK FALSE
INVARIANTS ServicesTyped StructuresTyped NothingLost NoCellLost NoMessageLost DataIsTheBody  DaemonAsAsked
  NotEmptiedUnasked TextsTold PagesTold HeldBlocksAreWhole ArchiveKeepsAll TypeOK NothingDetached NoShadowedValue
PROPERTIES SurvivorsKeepOrder ImplementsStore
