\* Starts, completions and cancels that write what they read too long ago.
SPECIFICATION Spec
CONSTANTS
    Trip = {t1}
    Driver = {r1}
    TestDriver = {}
    Slot = {s1, s2}
    Rider = Rider
    None = None
    BroadcastTo = 1
    RiderLateFee = 0
    Endpoints = {"accept", "start", "complete", "cancel"}
    MayFail = {}
    MaxOffers = 1
    MaxRestarts = 0
    MaxAge = 0
PROPERTIES FollowsStateMachine
CHECK_DEADLOCK FALSE
