SPECIFICATION FairSpec
CONSTANTS
    MaxRequests = 1
    MaxFaults = 0
    Funds = 12
    Failing = {}
    Catchups = {TRUE}
PROPERTY
    LoggedIsProcessed
