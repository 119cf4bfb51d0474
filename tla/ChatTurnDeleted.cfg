\* Two requests of one turn, retried and dying, while the owner deletes its conversation.
SPECIFICATION FairSpec
CONSTANTS
    MaxClaims = 2
    AttemptLimit = 2
    OwnerDeletes = TRUE
INVARIANTS
    OneConversation
PROPERTIES
    KeepsPromise
    Unstuck
\* A request ends, the attempts run out, the turn is final: nothing is left to do.
CHECK_DEADLOCK FALSE
