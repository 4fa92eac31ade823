\* The process stays up: the escalation clock against offers and accepts, and
\* two racing calls from start to settlement.  The search, first or later,
\* and the 90-second timer may fail.  A test trip finds nobody here.
SPECIFICATION FairSpec
CONSTANTS
    Trip = {t1}
    Driver = {r1}
    TestDriver = {}
    Slot = {s1, s2}
    Rider = Rider
    None = None
    BroadcastTo = 1
    RiderLateFee = 0
    Endpoints = {"accept", "decline", "start", "complete"}
    MayFail = {"alertTimer", "offerTimer"}
    MaxOffers = 1
    MaxRestarts = 0
    MaxAge = 2
INVARIANT PayoutsAreBacked
PROPERTIES  EarningsArrive
CHECK_DEADLOCK FALSE
