SPECIFICATION FairSpec
CONSTANTS
    Text <- MCText
    Coin <- MCCoin
    Undefined = Undefined
    Unreadable = Unreadable
    MaxSafe = 3
    Wide = 16
    NoWallet = NoWallet
    Form <- MCForm
    Wallet = {w1, w2}
    Call = {c1, c2}
    MaxEdits = 3
    MaxFaults = 1
INVARIANTS
    ExecutedAsAsked
    ReadsBack
PROPERTIES
    ImplementsPayments
    SendsEnd
CHECK_DEADLOCK FALSE
