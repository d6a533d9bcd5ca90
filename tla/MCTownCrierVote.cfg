SPECIFICATION Spec
CONSTANTS
    Enclaves = {e1, e2, e3}
    Responses = {r1, r2, r3}
    NoResponse = NoResponse
    FIRST_DELIVER_COST = 4
    SECOND_DELIVER_COST = 3
    LAST_DELIVER_COST = 2
    MAX_FEE = 11
    Values = {8, 9, 11, 12}
    MaxRequests = 2
    MaxRefused = 1
    MaxVotes = 6
SYMMETRY Symmetry
INVARIANTS
    TypeOK
    AnsweredByTwo
    MajorityDecides
    EachVotePaid
\* When all bounds are reached nothing is left to do.
CHECK_DEADLOCK FALSE
