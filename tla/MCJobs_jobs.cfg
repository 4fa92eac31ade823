\* From booking to payout for every kind of job: offers, claims, declines, timeouts,
\* manual assignment, reports and deliveries, two searches, timers or requests at once.
\* Searches, declines and timers may fail half-way and the process may restart; the queries
\* of a delivery succeed.
SPECIFICATION FairSpec
CONSTANTS
    Job = {j1}
    Kinds = {"DELIVERY", "ERRAND", "FOOD_ORDER"}
    Driver = {r1, r2, x1}
    TestDriver = {x1}
    None = None
    Task = {k1, k2}
    Endpoints = {"kitchen", "accept", "decline", "report", "deliver", "cancel", "assign"}
    MayFailAt = {"read", "exclusions", "search", "offer", "timer", "excluding", "resetting", "clearing"}
    MaxRestarts = 1
INVARIANTS TypeOK OpenOfferIsTimed FleetsAreSegregated
PROPERTIES MatchIsNotStomped SettlesOnce OffersEnd DeliveriesAreSettled
CHECK_DEADLOCK FALSE
