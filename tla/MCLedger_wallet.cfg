\* Jobs of every kind settled beside top-ups and withdrawals.
SPECIFICATION Spec
CONSTANTS
    Driver = {d1, d2}
    Client = {c1}
    Job = {j1, j2}
    Terms <- EveryKind
    Slot = {s1, s2}
    None = None
    Amount = {3}
    MaxTopUp = 3
    CommissionRate = 15
    CreditLimit = 4
    OneAtATime = TRUE
    MayAssign = TRUE
SYMMETRY Symmetry
INVARIANTS TypeOK ClientsNeverOwe WalletAgreesWithDispatch CodNetsToZero
CHECK_DEADLOCK FALSE
