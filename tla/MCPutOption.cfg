SPECIFICATION Spec
CONSTANTS
    Terms <- MCTerms
    TC_FEE = 1
    Prices = {0, 1, 3}
    UINT = 64
INVARIANTS
    Covered
    PaidAsAgreed
    MoneyLeaves
\* An option ends with its settlement or its recovery.
CHECK_DEADLOCK FALSE
