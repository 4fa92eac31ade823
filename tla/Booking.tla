------------------------------- MODULE Booking --------------------------------
(***************************************************************************)
(* What a booking costs, whether it may be made, and who is asked to take  *)
(* it: the launch policy (LaunchPolicyService), the fares (fare.util.ts,   *)
(* and the distance check of TripsService.createTrip), and the ranking of  *)
(* the drivers (dispatch.util.ts, TripsService.rankCandidates) by the      *)
(* reputation counters that offers, accepts and cancellations move.        *)
(*                                                                         *)
(* Distances are metres, fares rupees, scores millionths, ratings          *)
(* hundredths of a star.  Products of the code's decimal factors are kept  *)
(* exact; quotients in a score are rounded down to a millionth.            *)
(***************************************************************************)
EXTENDS People, Integers, FiniteSets, FiniteSetsExt

CONSTANTS
    Driver,            \* the drivers a search finds, all free and eligible
    Policies,          \* bound: launch policies the process may be started with
    Requests,          \* bound: the bookings customers attempt
    Regulars,          \* bound: those attempted once drivers have a record
    Metres,            \* bound: distances of a driver to a pickup
    Stars,             \* bound: the drivers' ratings
    BroadcastTo,       \* TripsService.BROADCAST_TO
    MinOffersForRate,  \* MIN_OFFERS_FOR_RATE
    MaxOffers,         \* bound: offers counted for one driver
    MaxCancelled       \* bound: cancellations counted against one driver

\* What the DTOs let through: rides name a vehicle, distances and minutes are positive.
Vehicle == {"BIKE", "RICKSHAW", "CAR"}
RequestTypes ==
    [service : {"RIDES", "DELIVERY", "ERRANDS", "FOOD"}, vehicle : Vehicle \cup {None},
     fareType : {"FIXED", "BID"}, bid : Nat \cup {None}, fromCentre : Nat, straight : Nat,
     claimed : Nat \cup {None}, minutes : Nat \cup {None}, hour : 0..23]

ASSUME BookingAssumption ==
    /\ IsFiniteSet(Driver) /\ BroadcastTo \in Nat \ {0}
    /\ MinOffersForRate \in Nat \ {0}
    /\ MaxOffers \in Nat /\ MaxCancelled \in Nat
    /\ Regulars \subseteq Requests /\ Requests \subseteq RequestTypes
    /\ \A r \in Requests : r.service = "RIDES" => r.vehicle \in Vehicle
    /\ Metres \subseteq Nat /\ Stars \subseteq 100..500

VARIABLES
    policy,   \* the configuration read from the environment at start-up
    ride,     \* the booking being worked on
    rep,      \* driver_profiles: the reputation counters of each driver
    stars     \* users.rating of each driver

bookingVars == <<policy, ride, rep, stars>>

NoRide == [stage |-> "none"]

-----------------------------------------------------------------------------
(* The launch policy.                                                      *)

\* Mutant: the window is one range even when it wraps midnight.
OpenOneRange(hour) == ~policy.hours \/ (hour >= policy.openHour /\ hour < policy.closeHour)
\* isOpenNow, for the hour in the policy's time zone.
IsOpenNow(hour) ==
    \/ ~policy.hours
    \/ IF policy.openHour <= policy.closeHour
       THEN hour >= policy.openHour /\ hour < policy.closeHour
       ELSE hour >= policy.openHour \/ hour < policy.closeHour

WithinZone(r) == ~policy.zone \/ r.fromCentre <= policy.radius

\* assertRideAllowed.
RideAllowed(r) ==
    /\ "RIDES" \in policy.enabled
    /\ r.vehicle \in policy.vehicles
    /\ policy.bidding \/ r.fareType # "BID"
    /\ WithinZone(r)
    /\ IsOpenNow(r.hour)

\* What the three other booking endpoints ask: the service's switch, by the guard
\* on the controller, and the zone, except for food.
JobAllowed(r) ==
    /\ r.service \in policy.enabled
    /\ r.service # "FOOD" => WithinZone(r)

-----------------------------------------------------------------------------
(* Fares.                                                                  *)

Tariff(base, perKm, tenthsPerMin, minimum) ==
    [base |-> base, perKm |-> perKm, tenthsPerMin |-> tenthsPerMin, minimum |-> minimum]

\* By vehicle, and by service: PARCEL is DELIVERY, ERRAND is ERRANDS.
FareConfig ==
    [BIKE |-> Tariff(60, 22, 0, 150), RICKSHAW |-> Tariff(60, 7, 15, 100),
     CAR |-> Tariff(100, 12, 20, 200), DELIVERY |-> Tariff(60, 22, 0, 150),
     FOOD |-> Tariff(50, 22, 0, 120), ERRANDS |-> Tariff(80, 22, 0, 180)]

\* The fare before rounding, in thousandths of a rupee.
ExactFare(tariff, metres, minutes) ==
    1000 * tariff.base + tariff.perKm * metres + 100 * tariff.tenthsPerMin * minutes

\* Math.round(fare / 5) * 5.
RoundedTo5(milli) == 5 * ((milli + 2500) \div 5000)

EstimateFare(kind, metres, minutes) ==
    LET tariff == FareConfig[kind]
        fare == RoundedTo5(ExactFare(tariff, metres, minutes))
    IN  IF fare > tariff.minimum THEN fare ELSE tariff.minimum

\* roadEstimateFromStraightLine: DETOUR_FACTOR is 1.4.
RoadEstimate(straight) == (14 * straight) \div 10

\* Mutant: only the upper end of the band is checked.
NotTooLong(r) == r.claimed # None /\ r.claimed <= 3 * r.straight
\* The client's road distance is believed between 0.98 and 3 times the straight line.
Plausible(r) ==
    /\ r.claimed # None
    /\ 100 * r.claimed >= 98 * r.straight
    /\ r.claimed <= 3 * r.straight

RideMetres(r) == IF Plausible(r) THEN r.claimed ELSE RoadEstimate(r.straight)
RideMinutes(r) == IF r.minutes = None THEN 0 ELSE r.minutes

\* createTrip's fare.
RideFare(r) ==
    IF r.fareType = "BID" THEN r.bid ELSE EstimateFare(r.vehicle, RideMetres(r), RideMinutes(r))

\* createDelivery, createErrand and createOrder price the straight line.
JobFare(r) == EstimateFare(r.service, r.straight, 0)

-----------------------------------------------------------------------------
(* Booking.  A refused request throws and changes nothing.                 *)

NoRecord == [sent |-> 0, accepted |-> 0, cancelled |-> 0, idle |-> None]

\* Neither price nor policy depends on the drivers: the variety comes first.
Attempted == IF \A d \in Driver : rep[d] = NoRecord THEN Requests ELSE Regulars

CreateTrip(r) ==
    /\ ride.stage = "none"
    /\ r.service = "RIDES"
    /\ RideAllowed(r)
    /\ r.fareType = "BID" => r.bid # None
    /\ ride' = [stage |-> "quoted", request |-> r, fare |-> RideFare(r)]
    /\ UNCHANGED <<policy, rep, stars>>

\* Parcels, errands and orders are dispatched nearest first: see Jobs.
CreateJob(r) ==
    /\ ride.stage = "none"
    /\ r.service # "RIDES"
    /\ JobAllowed(r)
    /\ ride' = [stage |-> "job", request |-> r, fare |-> JobFare(r)]
    /\ UNCHANGED <<policy, rep, stars>>

-----------------------------------------------------------------------------
(* Ranking.                                                                *)

\* Mutant: without a history a driver scores nothing.
ShareOrNothing(weight, n, of) ==
    IF of < MinOffersForRate THEN 0 ELSE (weight * Min({n, of})) \div of
\* ratesFromCounters, clamp01 and the weight: neutral below the threshold.
Share(weight, n, of) ==
    IF of < MinOffersForRate THEN weight \div 2 ELSE (weight * Min({n, of})) \div of

PerCent == 10 * 1000   \* of a score, in millionths

\* scoreDriver.
Score(d, metres) ==
    LET p == rep[d]
        kept == IF p.cancelled > p.accepted THEN 0 ELSE p.accepted - p.cancelled
        distance == 140 * (5000 - Min({metres, 5000}))
        acceptance == Share(12 * PerCent, p.accepted, p.sent)
        reliability == Share(8 * PerCent, kept, p.accepted)
        rating == IF stars[d] < 350 THEN 0 ELSE (5 * PerCent * (stars[d] - 350)) \div 150
        idle == IF p.idle = None THEN (5 * PerCent) \div 2
                ELSE (5 * PerCent * Min({p.idle, 45})) \div 45
    IN  distance + acceptance + reliability + rating + idle

\* The sort is stable on a list that comes nearest first.
Before(d, e, at) ==
    \/ Score(d, at[d]) > Score(e, at[e])
    \/ Score(d, at[d]) = Score(e, at[e]) /\ at[d] <= at[e]

Shortlists(at) ==
    {best \in SUBSET Driver :
        /\ Cardinality(best) = Min({BroadcastTo, Cardinality(Driver)})
        /\ \A d \in best, e \in Driver \ best : Before(d, e, at)}

\* The counters are written without waiting, and their errors are swallowed.
Counted(ds, field, counts) ==
    rep' = [d \in Driver |->
              IF d \in ds /\ counts THEN [rep[d] EXCEPT ![field] = @ + 1] ELSE rep[d]]

\* attemptMatch ranks the drivers where they are, offerToDrivers asks the best.
OfferToDrivers(at, best, counts) ==
    /\ ride.stage = "quoted"
    /\ best \in Shortlists(at)
    /\ \A d \in best : rep[d].sent < MaxOffers
    /\ ride' = [stage |-> "offered", to |-> best, at |-> at]
    /\ Counted(best, "sent", counts)
    /\ UNCHANGED <<policy, stars>>

AcceptTrip(d, counts) ==
    /\ ride.stage = "offered"
    /\ rep[d].accepted < MaxOffers
    /\ ride' = [stage |-> "taken", by |-> d]
    /\ Counted({d}, "accepted", counts)
    /\ UNCHANGED <<policy, stars>>

\* A dispatcher's assignment counts for nothing.
ManuallyAssign(d) ==
    /\ ride.stage \in {"quoted", "offered"}
    /\ ride' = [stage |-> "taken", by |-> d]
    /\ UNCHANGED <<policy, rep, stars>>

\* cancelTrip by the matched driver.
DriverCancels(counts) ==
    /\ ride.stage = "taken"
    /\ rep[ride.by].cancelled < MaxCancelled
    /\ ride' = NoRide
    /\ Counted({ride.by}, "cancelled", counts)
    /\ UNCHANGED <<policy, stars>>

\* completeTrip stamps lastCompletedAt, with the same kind of write.
CompleteTrip(counts) ==
    /\ ride.stage = "taken"
    /\ ride' = NoRide
    /\ rep' = IF counts THEN [rep EXCEPT ![ride.by].idle = 0] ELSE rep
    /\ UNCHANGED <<policy, stars>>

\* The customer cancels, the offers lapse with nobody left, or the job is over.
Ends ==
    /\ ride.stage \in {"quoted", "offered", "taken", "job"}
    /\ ride' = NoRide
    /\ UNCHANGED <<policy, rep, stars>>

\* idleMinutesSince grows with the clock; beyond 45 minutes nothing changes.
Waits(d) ==
    /\ rep[d].idle # None /\ rep[d].idle < 45
    /\ rep' = [rep EXCEPT ![d].idle = @ + 45]
    /\ UNCHANGED <<policy, ride, stars>>

BookingInit ==
    /\ policy \in Policies
    /\ ride = NoRide
    /\ rep = [d \in Driver |-> NoRecord]
    /\ stars \in [Driver -> Stars]

Dispatch(counts) ==
    \/ \E at \in [Driver -> Metres], best \in SUBSET Driver : OfferToDrivers(at, best, counts)
    \/ \E d \in Driver : AcceptTrip(d, counts)
    \/ DriverCancels(counts)
    \/ CompleteTrip(counts)

BookingNext ==
    \/ \E r \in Attempted : CreateTrip(r) \/ CreateJob(r)
    \/ \E counts \in BOOLEAN : Dispatch(counts)
    \/ \E d \in Driver : ManuallyAssign(d) \/ Waits(d)
    \/ Ends

BookingSpec == BookingInit /\ [][BookingNext]_bookingVars

-----------------------------------------------------------------------------
Priced == ride.stage \in {"quoted", "job"} /\ ride.request.fareType = "FIXED"
Kind(r) == IF r.service = "RIDES" THEN r.vehicle ELSE r.service

\* "A modified client could otherwise claim a 12km ride is 0.2km", and "cash means a
\* rider needs change": whatever road distance is claimed, a fare that is not a bid is
\* payable in fives, at least the minimum of its tariff and the fare of the straight
\* line less two per cent, and at most the fare of three times the straight line.
FaresStayInBand ==
    Priced =>
        LET r == ride.request
            least == EstimateFare(Kind(r), (98 * r.straight) \div 100, RideMinutes(r))
            most == EstimateFare(Kind(r), 3 * r.straight, RideMinutes(r))
        IN  /\ ride.fare % 5 = 0
            /\ ride.fare >= least /\ ride.fare <= most

\* The service is open in exactly the hours one meets walking from the opening hour
\* to the closing hour, through midnight where the window wraps, and a ride is only
\* taken in one of them.
RidesKeepHours ==
    policy.hours =>
        LET length == IF policy.openHour <= policy.closeHour
                      THEN policy.closeHour - policy.openHour
                      ELSE policy.closeHour + 24 - policy.openHour
            open == {(policy.openHour + k) % 24 : k \in 0..(length - 1)}
        IN  /\ \A hour \in 0..23 : IsOpenNow(hour) <=> hour \in open
            /\ ride.stage = "quoted" => ride.request.hour \in open

\* "New drivers are scored neutrally rather than badly" and distance dominates, as far as
\* it is scored: counting no distance as more than 5 km, a driver without a history is
\* passed over only for drivers less than 1250 m farther away, whatever their record.
\* (A search reaches 8 km, and between drivers beyond 5 km the record decides.)
Unproven(p) == p.sent < MinOffersForRate /\ p.accepted < MinOffersForRate /\ p.idle = None
Weighed(metres) == Min({metres, 5000})
NewcomersAreAsked ==
    [][ride.stage = "quoted" /\ ride'.stage = "offered" =>
          \A d \in Driver \ ride'.to, e \in ride'.to :
              Unproven(rep[d]) => Weighed(ride'.at[e]) < Weighed(ride'.at[d]) + 1250]_bookingVars
=============================================================================
