\* root_proc and three other proc structs, four pids (so get_pid wraps
\* around once procs are reaped), five create_proc calls (so a struct and a
\* pid are reused, and a grandchild can outlive its parent and grandparent).
\* PANIC() halts the kernel, after which nothing steps: deadlock checking
\* is off for that reason.
CONSTANTS
  Root = root
  Procs = {p1, p2, p3}
  MAX_PID = 4
  MaxSpawn = 5
  None = None

SPECIFICATION Spec
CHECK_DEADLOCK FALSE

INVARIANT TypeOK
INVARIANT GetPidNextFit
INVARIANT PidsUnique
INVARIANT TreeIntact
