\* Commissions that may be zero.
SPECIFICATION Spec
CONSTANTS
    N = 2
    Delegator = {1, 2}
    Amount = {0, 3}
    Unit = 2
    Powers = {0, 1}
    MaxValidators = 1
    LengthPrefixed = FALSE
INVARIANTS
    CommissionNeverFails
