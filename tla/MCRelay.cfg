SPECIFICATION FairSpec
CONSTANTS
    MaxRequests = 3
    MaxFaults = 2
    Funds = 5
    Failing = {3}
    Catchups = {TRUE}
INVARIANTS
    NonceNeverStuck
    HandledOncePerRun
    CatchupLeavesNone
    SentOnceUnlessFault
PROPERTIES
    CatchupRecovers
