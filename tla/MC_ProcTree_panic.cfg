\* root_proc and one child are enough for exit's early post.
CONSTANTS
  Root = root
  Procs = {p1}
  MAX_PID = 2
  MaxSpawn = 1
  None = None

SPECIFICATION Spec
CHECK_DEADLOCK FALSE

INVARIANT NoWaitPanic
