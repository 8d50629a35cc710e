\* A release between the two halves of an acquire.
CONSTANTS
  Callers = {c1, c2}
  Drains = {}
  MaxSize = 1
  Validate = FALSE
  IdleTimeout = FALSE
  MaxCreated = 1
  None = None
SPECIFICATION Spec
INVARIANT NobodyWaitsBesideIdle
