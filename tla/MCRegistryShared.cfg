SPECIFICATION Spec
CONSTANTS
  Procs = {p, q}
  Nobody = Nobody
  Start = {"written"}
  Big = FALSE
  Faults = {}
INVARIANTS WritingsKept
