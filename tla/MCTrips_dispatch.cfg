\* Offers, claims, cancels, timeouts and manual assignment: two rounds of
\* offers, two requests in flight, which may fail as the timer's round may, one restart.
SPECIFICATION Spec
CONSTANTS
    Trip = {t1}
    Driver = {r1, r2, x1}
    TestDriver = {x1}
    Slot = {s1, s2}
    Rider = Rider
    None = None
    BroadcastTo = 2
    RiderLateFee = 30
    Endpoints = {"accept", "cancel", "assign", "start"}
    MayFail = {"request", "offerTimer"}
    MaxOffers = 2
    MaxRestarts = 1
    MaxAge = 0
SYMMETRY Symmetry
INVARIANTS TypeOK OpenOfferIsTimed LapsedAreNotReoffered FeeIsRidersAfterMatch
PROPERTIES FleetsAreSegregated MatchIsNotStomped
VIEW WithoutWinners
CHECK_DEADLOCK FALSE
