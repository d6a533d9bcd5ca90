SPECIFICATION Spec
CONSTANTS
    Users = {alice, owner}
    Contracts = {alice}
    Owner = owner
    InsuranceOwner = owner
    App = App
    NoAddress = NoAddress
    Param = Param
    Values = {22}
    WORD = 256
    Payments = {12, 13, 248}
    Departures = {1}
    Delays = {29, 30}
    Pool = 50
    Errors = {0, 1, 3}
    ResetArgs <- MCResetArgs
    MaxPolicies = 2
    MaxDay = 1
    MaxRequests = 2
    MaxDepth = 2
    UINT64 = 16
INVARIANTS
    IdMapAgrees
    PaidOnce
    UnpaidOnlyIfDry
