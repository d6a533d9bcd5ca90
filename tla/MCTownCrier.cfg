SPECIFICATION Spec
CONSTANTS
    Accounts = {owner, app}
    Contracts = {owner, app}
    Owner = owner
    NoAddress = NoAddress
    Params = {p1}
    Values = {5, 6, 8}
    Errors = {1, 2}
    ResetArgs <- MCResetArgs
    NewVersions = {1}
    MaxRequests = 2
    MaxDepth = 2
    MaxSurplus = 5
    UINT64 = 16
INVARIANTS
    TypeOK
    UnrespondedCount
    Solvent
    PendingFeeCoversMinFee
    AnsweredOnce
    FlagMatchesStack
PROPERTY
    ImplementsEscrow
