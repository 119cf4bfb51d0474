SPECIFICATION Spec
CONSTANTS
    Values = {a, b}
    Spellings = {d}
    Reviews = {r1, r2}
    MaxRecords = 2
    MaxProposals = 1
    MaxCandidates = 1
INVARIANT SensitivityHolds
CHECK_DEADLOCK FALSE
