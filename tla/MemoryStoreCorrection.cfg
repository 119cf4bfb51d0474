SPECIFICATION Spec
CONSTANTS
    Values = {a, b}
    Spellings = {d}
    Reviews = {r1, r2}
    MaxRecords = 4
    MaxProposals = 0
    MaxCandidates = 1
INVARIANT CorrectionTakesEffect
CHECK_DEADLOCK FALSE
