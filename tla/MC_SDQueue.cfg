CONSTANTS
  Bufs = {b1, b2, b3}
  MaxRounds = 1

SPECIFICATION Spec

INVARIANT AnswerMatchesBuf

\* Each buf makes MaxRounds calls, after which the driver is idle for good,
\* and a PANIC stops it.
CHECK_DEADLOCK FALSE
