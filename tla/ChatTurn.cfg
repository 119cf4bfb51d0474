\* Three overlapping or repeated requests of one turn; the conversation stays.
SPECIFICATION Spec
CONSTANTS
    MaxClaims = 3
    AttemptLimit = 3
    OwnerDeletes = FALSE
INVARIANTS
    TypeOK
    OneEffectfulAttempt
    RepeatIsSafe
    ReplayReportsEffects
    CompletionsAgree
\* A request ends, the attempts run out, the turn is final: nothing is left to do.
CHECK_DEADLOCK FALSE
