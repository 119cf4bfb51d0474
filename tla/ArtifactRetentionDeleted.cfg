SPECIFICATION Spec
CONSTANTS
  Artifacts = {a1, a2}
  Requests = {r1}
  Jobs = {j1}
  MaxInterruptions = 1
INVARIANTS
  DeletedHasNoObject
CHECK_DEADLOCK FALSE
