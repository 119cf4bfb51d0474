\* Three decisions about one intent, retried, crossing and outliving it; two
\* files, requests and overlapping jobs; two sessions that propose, decide and
\* roll back; two uploads; one turn.
SPECIFICATION Spec
CONSTANTS
    Specialists = {nora, james, oliver}
    Nora = nora
    James = james
    Oliver = oliver
    MaxSpecialists = 2
    Requests = {d1, d2, d3}
    Files = {a1, a2}
    FileRequests = {r1, r2}
    Jobs = {j1, j2}
    MaxInterruptions = 1
    Sessions = {s1, s2}
    Proposals = {p1, p2}
    MaxVersions = 3
    Uploads = {u1, u2}
    MaxInput = 2
    MaxChunks = 1
INVARIANTS
    TypeOK
    EvidenceHolds
    CreditIsEarned
    ProposalsAreFounded
    SingleExecution
    OutcomeIsTrue
    OneChain
    ReviewedAgainstPredecessor
    WorkerHasOwner
    StoredIsMeant
PROPERTIES
    RemovedForAReason
    EverythingEnds
