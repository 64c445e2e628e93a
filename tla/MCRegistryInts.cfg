SPECIFICATION Spec
CONSTANTS
  Keys <- KeyPair
  Names = {v}
  Strings = {}
  Ints = {i, j}
  Careful = FALSE
  LockMayFail = TRUE
  None = None
PROPERTIES SetIsSeen
