\* Two statements about one domain in two spellings, three records, one proposal
\* and two reviews of it; one device, three observations of which the first can
\* be too old, two calls. Another device has rows, locks and limits of its own.
SPECIFICATION Spec
CONSTANTS
    Values = {a, b}
    Spellings = {d, e}
    Reviews = {r1, r2}
    MaxRecords = 3
    MaxProposals = 1
    MaxCandidates = 1
    Installations = {i}
    Updates = {u1, u2, u3}
    Calls = {r1, r2}
    Day = 2
    Hour = 1
    RateLimit = 2
    MaxTime = 4
SYMMETRY Symmetry
INVARIANTS
    TypeOK
    PrivacyIsKept
    OwnerDecides
    PromotedOnce
    UpdatesAreBounded
PROPERTIES
    ObservationsAdvance
