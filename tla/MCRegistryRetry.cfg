SPECIFICATION Spec
CONSTANTS
  Keys <- KeyPair
  Names = {v}
  Strings = {s, t}
  Ints = {i}
  Careful = TRUE
  LockMayFail = TRUE
  None = None
INVARIANT NeverUndefined
