\* Three requests of one conversation, two at a time; three visits of a night
\* each, recorded and corrected by one call at a time (nothing is stated of
\* calls that overlap), within five days of which three are recent.
SPECIFICATION Spec
CONSTANTS
    Specialists = {nora}
    Turns = {t1, t2, t3}
    Domains = {finance}
    WindowLimit = 2
    MaxOverlap = 2
    Calls = {c1}
    LastDay = 4
    Spans = {1}
    Year = 2
    MaxEvents = 3
SYMMETRY Symmetry
CONSTRAINT Undisturbed
INVARIANTS
    TypeOK
    PrivateStaysWithLi
    RecipientsAreKept
    TripsAgree
\* The requests have been answered, and the days and visits are bounded.
CHECK_DEADLOCK FALSE
