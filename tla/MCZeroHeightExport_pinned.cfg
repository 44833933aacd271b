\* Keys as the pinned SDK writes them.
SPECIFICATION Spec
CONSTANTS
    N = 2
    Delegator = {1, 2}
    Amount = {3}
    Unit = 2
    Powers = {1}
    MaxValidators = 1
    LengthPrefixed = TRUE
INVARIANTS
    ValidatorFound
