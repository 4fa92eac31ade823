\* Each component by itself, two requests at a time.  Bookings under three launch
\* policies; scores whose averages need rounding; codes that collide; a token that
\* outlives several sends.
SPECIFICATION Spec
CONSTANTS
    u1 = u1
    u2 = u2
    u3 = u3
    j1 = j1
    j2 = j2
    j3 = j3
    j4 = j4
    User = {u1, u2, u3}
    Call = {c1, c2}
    None = None
    RatedJob = {j1, j2, j3, j4}
    BookedBy <- MCBookedBy
    DrivenBy <- MCDrivenBy
    GivenScore = {1, 4, 5}
    ReferralCode = {k1, k2}
    MaxAttempts = 2
    Passenger = u1
    Message = {m1, m2}
    ShareToken = {t1, t2}
    Device = {p1}
    Lifetime = 3
    Margin = 2
    MaxLeg = 1
    MaxTime = 3
    PhoneUser = {u1, u2}
    Admin = {a1, a2}
    Job = {j1}
    Caller = {u1, u2}
    Requester <- MCRequester
    ListLimit = 1
    Applicant = {u3}
    Item = {i1, i2}
    Price = {1, 2}
    Driver = {d1, d2}
    Policies <- MCPolicies
    Requests <- MCRequests
    Regulars <- MCRegulars
    Metres = {300, 1550, 5000, 8000}
    Stars = {100, 500}
    BroadcastTo = 1
    MinOffersForRate = 1
    MaxOffers = 2
    MaxCancelled = 1
SYMMETRY Interchangeable
INVARIANTS
    FaresStayInBand RidesKeepHours
    AverageIsExact BonusesMatchReferrals HandedOutKeepsWorking ReadIsEarned
    BearerIsLive PushesFollowThePhone SosIsHeard OrdersAreCurrent
PROPERTIES NewcomersAreAsked OnlyOpenAccountsAreApproved AnAdminRemains
CHECK_DEADLOCK FALSE
