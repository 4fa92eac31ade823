\* Two withdrawals of one client in flight.
SPECIFICATION Spec
CONSTANTS
    Driver = {d1}
    Client = {c1}
    Job = {j1}
    Terms <- CodParcel
    Slot = {s1, s2}
    None = None
    Amount = {9}
    MaxTopUp = 0
    CommissionRate = 15
    CreditLimit = 0
    OneAtATime = FALSE
    MayAssign = FALSE
INVARIANT NothingIsWithdrawnTwice
CHECK_DEADLOCK FALSE
