SPECIFICATION FairSpec
CONSTANTS
    TCSNum = 2
    MaxCalls = 3
    MaxFaults = 4
INVARIANTS
    ProvisionedInside
    NoStaleTransaction
PROPERTY
    CallsEnd
\* A relay whose call has stalled waits for ever.
CHECK_DEADLOCK FALSE
