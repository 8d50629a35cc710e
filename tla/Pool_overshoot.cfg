\* Two callers at once on a pool of one.
CONSTANTS
  Callers = {c1, c2}
  Drains = {}
  MaxSize = 1
  Validate = FALSE
  IdleTimeout = FALSE
  MaxCreated = 2
  None = None
SPECIFICATION Spec
INVARIANT SizeWithinMax
