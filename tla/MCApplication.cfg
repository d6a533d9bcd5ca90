SPECIFICATION Spec
CONSTANTS
    Users = {alice, owner}
    Contracts = {alice, owner}
    Owner = owner
    App = App
    NoAddress = NoAddress
    Param = Param
    Values = {8, 10, 12}
    Errors = {1, 2}
    ResetArgs <- MCResetArgs
    MaxRequests = 2
    MaxDepth = 2
    UINT64 = 16
INVARIANTS
    RequestersAgree
    PaidOnce
    LossOnlyByReset
