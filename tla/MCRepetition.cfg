\* Two tabs and three writes; two sessions, two calls and four tokens; two runs
\* of one batch of two cases; three calls that write two contents; three
\* deliveries of two occurrences, duplicated, late, or retried.
SPECIFICATION Spec
CONSTANTS
    Callers = {c1, c2}
    MaxWrites = 3
    Sessions = {s1, s2}
    Calls = {c1, c2}
    MaxTokens = 4
    Windows = 2
    SessionLimit = 1
    OwnerLimit = 1
    Runs = {c1, c2}
    Cases = 2
    Amounts = {1, 2}
    MaxCalls = 2
    MaxTurns = 2
    MaxMicroUsd = 2
    Writers = {x1, x2, x3}
    Contents = {s1, s2}
    Occurrences = {s1, s2}
    Deliveries = {x1, x2, x3}
    MaxClaims = 3
SYMMETRY Symmetry
INVARIANTS
    TypeOK
    AnswersAreTrue
    SingleUse
    RateIsBounded
    SpendingIsCovered
    OneEvent
    BriefMatchesRun
PROPERTIES
    BlameHasCause
    ContractIsKept
    RevocationHolds
