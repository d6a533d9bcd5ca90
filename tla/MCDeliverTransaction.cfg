SPECIFICATION DeliverSpec
CONSTANTS
    Numbers <- MCNumbers
    Errors = {0, 1, 3}
    Responses <- MCResponses
    Hashes <- MCHashes
    Scalars <- MCScalars
    Address <- MCAddress
    Selector <- MCSelector
    GASPRICE = 196000000
    GASLIMIT = 3000000
    Arrays <- MCArrays
INVARIANTS
    DecodesBack
    RejectedForScalarsOnly
    ContractReadsArguments
    OffsetsRight
