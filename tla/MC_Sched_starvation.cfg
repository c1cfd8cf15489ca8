CONSTANTS
  CPUS = {c1}
  Procs = {p1, p2, p3}
  Idle = Idle

SPECIFICATION Spec

PROPERTY StarvationFree
