SPECIFICATION FlightSpec
CONSTANTS
    UINT64 = 65536
    UINT32 = 8192
    Filed = 2000
    Times <- MCTimes
    Garbage <- MCGarbage
INVARIANTS
    FlightTypeOK
    LateIsPaid
    OnTimeIsNotPaid
    FeeBackIfBlameless
\* There is nothing left to do once the policy is decided.
CHECK_DEADLOCK FALSE
