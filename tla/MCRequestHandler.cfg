SPECIFICATION FairSpec
CONSTANTS
    Replies <- MCReplies
    BUFFER = 8
INVARIANTS
    ReturnsWhatWasSent
    BlamedForCause
    NoErrorMeansFact
PROPERTY
    LoopEnds
\* A request ends with its answer, or with a site that keeps silent.
CHECK_DEADLOCK FALSE
