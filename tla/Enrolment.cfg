\* Two requests with any of the 24 contents.
CONSTANTS
    Requests = {r1, r2}
    Inputs <- MCInputs
SPECIFICATION FairSpec
INVARIANTS
    TypeOK
    KeyFitsCSR
    ClientErrorIsEffectFree
    RecordFollowsIssue
    DeliveredWasAnnounced
PROPERTIES
    LedgerSpec
    EveryRequestAnswered
