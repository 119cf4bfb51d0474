\* A statement the code breaks: see the findings.
SPECIFICATION Spec
CONSTANTS
    MaxClaims = 2
    AttemptLimit = 2
    OwnerDeletes = FALSE
INVARIANT
    SavedReplyIsSaved
CHECK_DEADLOCK FALSE
