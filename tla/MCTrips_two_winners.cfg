\* An accept between the timer's read and its reset.
SPECIFICATION Spec
CONSTANTS
    Trip = {t1}
    Driver = {r1, r2}
    TestDriver = {}
    Slot = {s1, s2}
    Rider = Rider
    None = None
    BroadcastTo = 1
    RiderLateFee = 0
    Endpoints = {"accept"}
    MayFail = {}
    MaxOffers = 2
    MaxRestarts = 0
    MaxAge = 0
INVARIANT OneDriverWinsTheTrip
CHECK_DEADLOCK FALSE
