-------------------------------- MODULE Trips --------------------------------
(***************************************************************************)
(* The life of a ride: TripsService, with the dispatcher's manual          *)
(* assignment (AdminService.manuallyAssign).                               *)
(*                                                                         *)
(* Node runs one handler at a time but switches handlers at every await,   *)
(* so a step of this module is the code between two awaits that touch the  *)
(* database or Redis.  What a handler has read before an await and uses    *)
(* after it is kept in matcher, escalation or req; everything persistent   *)
(* is in trip and excluded.  A restart loses the former, never the latter. *)
(***************************************************************************)
EXTENDS Integers, FiniteSets

CONSTANTS
    Trip,            \* trip ids
    Driver,          \* approved, active driver accounts
    TestDriver,      \* the drivers with isTestAccount = true (the review fleet)
    Slot,            \* HTTP requests that can be in flight together
    Rider,           \* the customer of a trip, as the caller of an endpoint
    None,            \* null
    BroadcastTo,     \* TripsService.BROADCAST_TO
    RiderLateFee,    \* CANCELLATION_POLICY.riderLateFee
    Endpoints,       \* bound: the endpoints that are called at all
    MayFail,         \* what may die between two awaits: requests, timers
    MaxOffers,       \* bound: offers made for one trip
    MaxRestarts,     \* bound: restarts of the process
    MaxAge           \* bound: escalation thresholds that may pass (2 is no bound)

ASSUME TripsAssumption ==
    /\ TestDriver \subseteq Driver
    /\ None \notin Driver /\ None \notin Trip /\ Rider \notin Driver /\ Rider # None
    /\ IsFiniteSet(Slot)
    /\ BroadcastTo \in Nat /\ RiderLateFee \in Nat
    /\ Endpoints \subseteq {"accept", "decline", "start", "complete", "cancel", "assign"}
    /\ MayFail \subseteq {"request", "offerTimer", "alertTimer", "escalateTimer"}
    /\ MaxOffers \in Nat /\ MaxRestarts \in Nat /\ MaxAge \in 0..2

VARIABLES
    trip,        \* the trips table
    excluded,    \* Redis: match:excluded:trip:<id>
    matcher,     \* the one search running for a trip: attemptMatch and its timer
    escalation,  \* executions of escalateIfStuck, those still on a timer included
    req,         \* requests between two awaits
    age,         \* how long the trip has waited: 0, 1 (90 seconds), 2 (3 minutes)
    restarts,    \* restarts so far
    \* History, read only by properties and by the drivers' own conduct
    shown,       \* drivers the trip was ever offered to
    lapsed,      \* drivers offered the trip since its exclusions were last cleared
    winners,     \* drivers told that the trip is theirs
    books        \* completions, payouts and loyalty awards of the trip

vars == <<trip, excluded, matcher, escalation, req, age, restarts,
          shown, lapsed, winners, books>>
history == <<shown, lapsed, winners, books>>

-----------------------------------------------------------------------------
(* Types.  A timestamp column is kept as whether it is set.                *)

Status == {"NONE", "REQUESTED", "MATCHING", "MATCHED", "IN_PROGRESS", "COMPLETED", "CANCELLED"}

TripRow == [status : Status, driverId : Driver \cup {None}, isTest : BOOLEAN,
            offerCount : Nat, matchedAt : BOOLEAN, noDriverFoundAt : BOOLEAN,
            opsAlertedAt : BOOLEAN, opsEscalatedAt : BOOLEAN,
            cancelledBy : {"", "RIDER", "DRIVER"}, cancellationFee : Nat, finalFare : BOOLEAN]

\* A trip not booked yet.  isTest is the flag of the account that will book it,
\* which createTrip stamps on the row and nothing changes afterwards.
Unbooked(isTest) ==
    [status |-> "NONE", driverId |-> None, isTest |-> isTest, offerCount |-> 0,
     matchedAt |-> FALSE, noDriverFoundAt |-> FALSE, opsAlertedAt |-> FALSE,
     opsEscalatedAt |-> FALSE, cancelledBy |-> "", cancellationFee |-> 0, finalFare |-> FALSE]

MatcherPC == {"idle", "read", "exclusions", "search", "offer", "nobody", "armed",
              "excluding", "reset", "escalateThenMatch", "escalateThenStop", "broken"}
Matcher == [pc : MatcherPC, known : SUBSET Driver, offered : SUBSET Driver]
NoMatcher == [pc |-> "idle", known |-> {}, offered |-> {}]

Escalator == {"matcher", "alertTimer", "escalateTimer"}
EscalationPC == {"idle", "armed", "alert", "escalate"}

RequestPC == {"idle", "clearing", "declining", "starting", "completing", "stamping",
              "paying", "awarding", "cancelling"}
Request == [pc : RequestPC, trip : Trip \cup {None}, by : Driver \cup {Rider, None}, fee : Nat]
WellFormed(r) ==
    /\ r.pc # "idle" => r.trip \in Trip
    /\ r.pc = "declining" => r.by \in Driver
Idle == [pc |-> "idle", trip |-> None, by |-> None, fee |-> 0]

TypeOK ==
    /\ trip \in [Trip -> TripRow]
    /\ excluded \in [Trip -> SUBSET Driver]
    /\ matcher \in [Trip -> Matcher]
    /\ escalation \in [Trip -> [Escalator -> EscalationPC]]
    /\ req \in [Slot -> Request]
    /\ \A s \in Slot : WellFormed(req[s])
    /\ age \in [Trip -> 0..MaxAge]
    /\ restarts \in 0..MaxRestarts
    /\ shown \in [Trip -> SUBSET Driver]
    /\ lapsed \in [Trip -> SUBSET Driver]
    /\ winners \in [Trip -> SUBSET Driver]
    /\ books \in [Trip -> [completions : Nat, payouts : Nat, awards : Nat]]

Init ==
    /\ \E isTest \in [Trip -> BOOLEAN] : trip = [t \in Trip |-> Unbooked(isTest[t])]
    /\ excluded = [t \in Trip |-> {}]
    /\ matcher = [t \in Trip |-> NoMatcher]
    /\ escalation = [t \in Trip |-> [e \in Escalator |-> "idle"]]
    /\ req = [s \in Slot |-> Idle]
    /\ age = [t \in Trip |-> 0]
    /\ restarts = 0
    /\ shown = [t \in Trip |-> {}]
    /\ lapsed = [t \in Trip |-> {}]
    /\ winners = [t \in Trip |-> {}]
    /\ books = [t \in Trip |-> [completions |-> 0, payouts |-> 0, awards |-> 0]]

Store(t, row) == trip' = [trip EXCEPT ![t] = row]

-----------------------------------------------------------------------------
(* Booking, and the clock the escalation thresholds are measured on.       *)

\* The two setTimeout calls of createTrip.
Timers == [e \in Escalator |-> IF e = "matcher" THEN "idle" ELSE "armed"]

CreateTrip(t) ==
    /\ trip[t].status = "NONE"
    /\ Store(t, [trip[t] EXCEPT !.status = "REQUESTED"])
    /\ matcher' = [matcher EXCEPT ![t].pc = "read"]
    /\ escalation' = [escalation EXCEPT ![t] = Timers]
    /\ UNCHANGED <<excluded, req, age, restarts, history>>

\* The next threshold (90 seconds, 3 minutes) has passed since requestedAt.
TimePasses(t) ==
    /\ trip[t].status # "NONE"
    /\ age[t] < MaxAge
    /\ age' = [age EXCEPT ![t] = @ + 1]
    /\ UNCHANGED <<trip, excluded, matcher, escalation, req, restarts, history>>

-----------------------------------------------------------------------------
(* escalateIfStuck: a read, then at most one write.  It runs from the two  *)
(* timers of createTrip and, awaited, from the search.                     *)

Looking(t) == trip[t].status \in {"REQUESTED", "MATCHING"}

Due(e) == CASE e = "matcher" -> 0 [] e = "alertTimer" -> 1 [] e = "escalateTimer" -> 2

EscalationStep(t) ==
    IF ~Looking(t) THEN "idle"
    ELSE IF age[t] = 2 /\ ~trip[t].opsEscalatedAt THEN "escalate"
    ELSE IF age[t] >= 1 /\ ~trip[t].opsAlertedAt THEN "alert"
    ELSE "idle"

EscalateRead(t, e) ==
    /\ escalation[t][e] = "armed"
    /\ age[t] >= Due(e)
    /\ escalation' = [escalation EXCEPT ![t][e] = EscalationStep(t)]
    /\ UNCHANGED <<trip, excluded, matcher, req, age, restarts, history>>

EscalateWrite(t, e) ==
    /\ escalation[t][e] \in {"alert", "escalate"}
    /\ Store(t, [trip[t] EXCEPT !.opsAlertedAt = TRUE,
                                !.opsEscalatedAt = @ \/ escalation[t][e] = "escalate"])
    /\ escalation' = [escalation EXCEPT ![t][e] = "idle"]
    /\ UNCHANGED <<excluded, matcher, req, age, restarts, history>>

\* The timers' calls swallow every error: .catch(() => undefined).
EscalationFailed(t, e) ==
    /\ e \in MayFail
    /\ escalation[t][e] # "idle"
    /\ age[t] >= Due(e)
    /\ escalation' = [escalation EXCEPT ![t][e] = "idle"]
    /\ UNCHANGED <<trip, excluded, matcher, req, age, restarts, history>>

-----------------------------------------------------------------------------
(* The search: attemptMatch, offerToDrivers and the 15-second timer, which *)
(* starts the next round.  One search runs per trip.                       *)

MatcherAt(t, pc) == matcher[t].pc = pc
MatcherTo(t, pc) == matcher' = [matcher EXCEPT ![t].pc = pc]

\* attemptMatch: read the trip; stop unless it still looks for a driver.
MatchRead(t) ==
    /\ MatcherAt(t, "read")
    /\ matcher' = [matcher EXCEPT ![t] =
                      IF Looking(t) THEN [NoMatcher EXCEPT !.pc = "exclusions"] ELSE NoMatcher]
    /\ UNCHANGED <<trip, excluded, escalation, req, age, restarts, history>>

MatchExclusions(t) ==
    /\ MatcherAt(t, "exclusions")
    /\ matcher' = [matcher EXCEPT ![t] = [@ EXCEPT !.pc = "search", !.known = excluded[t]]]
    /\ UNCHANGED <<trip, excluded, escalation, req, age, restarts, history>>

\* LocationService.driversOnAJob, for the trips table.
OnAJob(d) ==
    \E u \in Trip : trip[u].driverId = d /\ trip[u].status \in {"MATCHING", "MATCHED", "IN_PROGRESS"}

InFleet(d, isTest) == (d \in TestDriver) = isTest

\* Mutant: the search does not separate the fleets.
EligibleFromBothFleets(t) == {d \in Driver : ~OnAJob(d)} \ matcher[t].known
\* Drivers filterEligible may let through: right fleet, no job.  Which of them
\* are near, online, fresh and within credit is left open: see MatchSearch.
Eligible(t) == {d \in Driver : InFleet(d, trip[t].isTest) /\ ~OnAJob(d)} \ matcher[t].known

\* The radius loop and the ranking: some eligible drivers, or nobody.
MatchSearch(t) ==
    /\ MatcherAt(t, "search")
    /\ \/ /\ trip[t].offerCount < MaxOffers
          /\ \E best \in (SUBSET Eligible(t)) \ {{}} :
                /\ Cardinality(best) <= BroadcastTo
                /\ matcher' = [matcher EXCEPT ![t] = [@ EXCEPT !.pc = "offer", !.offered = best]]
       \/ MatcherTo(t, "nobody")
    /\ UNCHANGED <<trip, excluded, escalation, req, age, restarts, history>>

MatchNobody(t) ==
    /\ MatcherAt(t, "nobody")
    /\ Store(t, [trip[t] EXCEPT !.noDriverFoundAt = TRUE])
    /\ MatcherTo(t, "escalateThenStop")
    /\ escalation' = [escalation EXCEPT ![t]["matcher"] = "armed"]
    /\ UNCHANGED <<excluded, req, age, restarts, history>>

\* Mutant: the row keeps the driver it had, as the one-at-a-time dispatch did.
OfferedRowKeepsDriver(row) ==
    [row EXCEPT !.status = "MATCHING", !.offerCount = @ + 1]
OfferedRow(row) ==
    [row EXCEPT !.status = "MATCHING", !.driverId = None, !.offerCount = @ + 1]

\* offerToDrivers: an update with no condition on the row, then the cards and
\* the timer.
OfferToDrivers(t) ==
    /\ MatcherAt(t, "offer")
    /\ Store(t, OfferedRow(trip[t]))
    /\ MatcherTo(t, "armed")
    /\ shown' = [shown EXCEPT ![t] = @ \cup matcher[t].offered]
    /\ lapsed' = [lapsed EXCEPT ![t] = @ \cup matcher[t].offered]
    /\ UNCHANGED <<excluded, escalation, req, age, restarts, winners, books>>

Unclaimed(t) == trip[t].status = "MATCHING" /\ trip[t].driverId = None

\* The offer window has closed: go on only if the trip is read unclaimed.
OfferTimeout(t) ==
    /\ MatcherAt(t, "armed")
    /\ matcher' = [matcher EXCEPT ![t] =
                      IF Unclaimed(t) THEN [@ EXCEPT !.pc = "excluding"] ELSE NoMatcher]
    /\ UNCHANGED <<trip, excluded, escalation, req, age, restarts, history>>

\* Mutant: the timeout searches again without excluding those it just asked.
ExcludeNobody(t) == {}
\* Mutant: it excludes the row's driver, as the one-at-a-time dispatch did.
ExcludeRowDriver(t) == {trip[t].driverId}
ToExclude(t) == matcher[t].offered

\* One await per driver the trip was shown to.
ExcludeOffered(t) ==
    /\ MatcherAt(t, "excluding")
    /\ IF ToExclude(t) = {}
       THEN MatcherTo(t, "reset") /\ UNCHANGED excluded
       ELSE \E d \in ToExclude(t) :
               /\ excluded' = [excluded EXCEPT ![t] = @ \cup {d}]
               /\ matcher' = [matcher EXCEPT ![t].offered = @ \ {d}]
    /\ UNCHANGED <<trip, escalation, req, age, restarts, history>>

\* Back to REQUESTED, whatever the row has become since the timer read it.
ResetToRequested(t) ==
    /\ MatcherAt(t, "reset")
    /\ Store(t, [trip[t] EXCEPT !.status = "REQUESTED"])
    /\ MatcherTo(t, "escalateThenMatch")
    /\ escalation' = [escalation EXCEPT ![t]["matcher"] = "armed"]
    /\ UNCHANGED <<excluded, req, age, restarts, history>>

\* escalateIfStuck, awaited by the search, has returned.
MatchEscalated(t) ==
    /\ matcher[t].pc \in {"escalateThenMatch", "escalateThenStop"}
    /\ escalation[t]["matcher"] = "idle"
    /\ matcher' = [matcher EXCEPT ![t] =
          IF MatcherAt(t, "escalateThenMatch") THEN [NoMatcher EXCEPT !.pc = "read"] ELSE NoMatcher]
    /\ UNCHANGED <<trip, excluded, escalation, req, age, restarts, history>>

\* createTrip's first search rejects, in whatever it awaits, and is only logged.
MatchingFailed(t) ==
    /\ matcher[t].pc \in {"read", "exclusions", "search", "offer", "escalateThenStop"}
    /\ trip[t].offerCount = 0
    /\ matcher' = [matcher EXCEPT ![t] = NoMatcher]
    /\ escalation' = [escalation EXCEPT ![t]["matcher"] = "idle"]
    /\ UNCHANGED <<trip, excluded, req, age, restarts, history>>

\* The rounds after the first run in the offer's timer, an async callback nobody
\* catches.  With Sentry on (instrument.ts) the rejection is reported and the
\* process lives: this search is over, and no other one is due.  Without Sentry
\* the rejection ends the process, which is Restart.
OfferRoundFailed(t) ==
    /\ "offerTimer" \in MayFail
    /\ trip[t].offerCount > 0
    /\ matcher[t].pc \notin {"idle", "broken"}
    /\ matcher' = [matcher EXCEPT ![t] = [NoMatcher EXCEPT !.pc = "broken"]]
    /\ escalation' = [escalation EXCEPT ![t]["matcher"] = "idle"]
    /\ UNCHANGED <<trip, excluded, req, age, restarts, history>>

MatcherStep(t) ==
    \/ MatchRead(t) \/ MatchExclusions(t) \/ MatchSearch(t) \/ MatchNobody(t)
    \/ OfferToDrivers(t) \/ OfferTimeout(t) \/ ExcludeOffered(t)
    \/ ResetToRequested(t) \/ MatchEscalated(t)

-----------------------------------------------------------------------------
(* Requests.  A request that fails its check throws and changes nothing.   *)

Begin(s, pc, t, by, fee) ==
    /\ req[s] = Idle
    /\ req' = [req EXCEPT ![s] = [pc |-> pc, trip |-> t, by |-> by, fee |-> fee]]
Continue(s, pc) == req' = [req EXCEPT ![s].pc = pc]
Finish(s) == req' = [req EXCEPT ![s] = Idle]

\* acceptTrip: the check and the claim are one updateMany.  It asks neither whether
\* the caller was shown the trip nor which fleet the caller belongs to.
AcceptTrip(s, t, d) ==
    /\ Unclaimed(t)
    /\ Store(t, [trip[t] EXCEPT !.status = "MATCHED", !.driverId = d, !.matchedAt = TRUE])
    /\ winners' = [winners EXCEPT ![t] = @ \cup {d}]
    /\ Begin(s, "clearing", t, d, 0)
    /\ UNCHANGED <<excluded, matcher, escalation, age, restarts, shown, lapsed, books>>

\* The last await of acceptTrip and of cancelTrip.
ClearExclusions(s) ==
    /\ req[s].pc = "clearing"
    /\ excluded' = [excluded EXCEPT ![req[s].trip] = {}]
    /\ lapsed' = [lapsed EXCEPT ![req[s].trip] = {}]
    /\ Finish(s)
    /\ UNCHANGED <<trip, matcher, escalation, age, restarts, shown, winners, books>>

DeclineTrip(s, t, d) ==
    /\ trip[t].status = "MATCHING"
    /\ Begin(s, "declining", t, d, 0)
    /\ UNCHANGED <<trip, excluded, matcher, escalation, age, restarts, history>>

DeclineWrite(s) ==
    /\ req[s].pc = "declining"
    /\ excluded' = [excluded EXCEPT ![req[s].trip] = @ \cup {req[s].by}]
    /\ Finish(s)
    /\ UNCHANGED <<trip, matcher, escalation, age, restarts, history>>

\* getTripOr404 and assertDriverOwnsTrip.
DriverOwnsTrip(t, d, status) == trip[t].driverId = d /\ trip[t].status = status

StartTrip(s, t, d) ==
    /\ DriverOwnsTrip(t, d, "MATCHED")
    /\ Begin(s, "starting", t, d, 0)
    /\ UNCHANGED <<trip, excluded, matcher, escalation, age, restarts, history>>

StartWrite(s) ==
    /\ req[s].pc = "starting"
    /\ Store(req[s].trip, [trip[req[s].trip] EXCEPT !.status = "IN_PROGRESS"])
    /\ Finish(s)
    /\ UNCHANGED <<excluded, matcher, escalation, age, restarts, history>>

CompleteTrip(s, t, d) ==
    /\ DriverOwnsTrip(t, d, "IN_PROGRESS")
    /\ Begin(s, "completing", t, d, 0)
    /\ UNCHANGED <<trip, excluded, matcher, escalation, age, restarts, history>>

\* Mutant: the loser of the claim settles the trip as well.
EveryoneClaims(t) == TRUE
ClaimsCompletion(t) == trip[t].status = "IN_PROGRESS"

\* The updateMany that decides which of several complete calls settles.
CompleteClaim(s) ==
    LET t == req[s].trip IN
    /\ req[s].pc = "completing"
    /\ IF ClaimsCompletion(t)
       THEN /\ Store(t, [trip[t] EXCEPT !.status = "COMPLETED"])
            /\ books' = [books EXCEPT ![t].completions =
                            IF trip[t].status = "IN_PROGRESS" THEN @ + 1 ELSE @]
            /\ Continue(s, "stamping")
       ELSE Finish(s) /\ UNCHANGED <<trip, books>>
    /\ UNCHANGED <<excluded, matcher, escalation, age, restarts, shown, lapsed, winners>>

\* Mutant: the test-trip check is the wrong way round.
OnlyTestTripsPay(t) == trip[t].isTest
\* A reviewer's ride moves no money and earns no points.
MovesMoney(t) == ~trip[t].isTest

StampFinalFare(s) ==
    LET t == req[s].trip IN
    /\ req[s].pc = "stamping"
    /\ Store(t, [trip[t] EXCEPT !.finalFare = TRUE])
    /\ IF MovesMoney(t) THEN Continue(s, "paying") ELSE Finish(s)
    /\ UNCHANGED <<excluded, matcher, escalation, age, restarts, history>>

\* The unique index on ledger_entries (tripId, type).
AlreadyPaid(t) == books[t].payouts > 0

\* LedgerService.recordTripPayout, one database transaction.  The index refuses
\* a second payout for the trip, and the complete call fails there.
RecordTripPayout(s) ==
    LET t == req[s].trip IN
    /\ req[s].pc = "paying"
    /\ IF AlreadyPaid(t)
       THEN Finish(s) /\ UNCHANGED books
       ELSE /\ books' = [books EXCEPT ![t].payouts = @ + 1]
            /\ Continue(s, "awarding")
    /\ UNCHANGED <<trip, excluded, matcher, escalation, age, restarts, shown, lapsed, winners>>

AwardTripCompletionPoints(s) ==
    /\ req[s].pc = "awarding"
    /\ books' = [books EXCEPT ![req[s].trip].awards = @ + 1]
    /\ Finish(s)
    /\ UNCHANGED <<trip, excluded, matcher, escalation, age, restarts, shown, lapsed, winners>>

\* Mutant: the caller is not told apart.
FeeForEveryone(t, by, graceOver) ==
    IF trip[t].status = "MATCHED" /\ trip[t].matchedAt /\ graceOver THEN RiderLateFee ELSE 0
\* assessCancellation.
CancellationFee(t, by, graceOver) ==
    IF /\ ~trip[t].isTest
       /\ by = Rider
       /\ trip[t].status = "MATCHED" /\ trip[t].matchedAt
       /\ graceOver
    THEN RiderLateFee ELSE 0

CancelTrip(s, t, by, graceOver) ==
    /\ by = Rider \/ by = trip[t].driverId
    /\ trip[t].status \in {"REQUESTED", "MATCHING", "MATCHED"}
    /\ Begin(s, "cancelling", t, by, CancellationFee(t, by, graceOver))
    /\ UNCHANGED <<trip, excluded, matcher, escalation, age, restarts, history>>

CancelWrite(s) ==
    LET t == req[s].trip IN
    /\ req[s].pc = "cancelling"
    /\ Store(t, [trip[t] EXCEPT !.status = "CANCELLED",
                                !.cancelledBy = IF req[s].by = Rider THEN "RIDER" ELSE "DRIVER",
                                !.cancellationFee = req[s].fee])
    /\ Continue(s, "clearing")
    /\ UNCHANGED <<excluded, matcher, escalation, age, restarts, history>>

\* Mutant: the updateMany loses its condition on the status.
AssignableMatched(t) == Looking(t) \/ trip[t].status = "MATCHED"
Assignable(t) == Looking(t)

\* AdminService.manuallyAssign for a trip.
ManuallyAssign(t, d) ==
    /\ InFleet(d, trip[t].isTest)
    /\ Assignable(t)
    /\ Store(t, [trip[t] EXCEPT !.status = "MATCHED", !.driverId = d, !.matchedAt = TRUE])
    /\ winners' = [winners EXCEPT ![t] = @ \cup {d}]
    /\ UNCHANGED <<excluded, matcher, escalation, req, age, restarts, shown, lapsed, books>>

\* A query of the request rejects: the caller gets an error, the rest never runs.
RequestFailed(s) ==
    /\ "request" \in MayFail
    /\ req[s] # Idle
    /\ Finish(s)
    /\ UNCHANGED <<trip, excluded, matcher, escalation, age, restarts, history>>

\* The process restarts.  Nothing at start-up looks for trips to resume.
Restart ==
    /\ restarts < MaxRestarts
    /\ restarts' = restarts + 1
    /\ matcher' = [t \in Trip |-> NoMatcher]
    /\ escalation' = [t \in Trip |-> [e \in Escalator |-> "idle"]]
    /\ req' = [s \in Slot |-> Idle]
    /\ UNCHANGED <<trip, excluded, age, history>>

-----------------------------------------------------------------------------
RequestStep(s) ==
    \/ ClearExclusions(s) \/ DeclineWrite(s) \/ StartWrite(s) \/ CompleteClaim(s)
    \/ StampFinalFare(s) \/ RecordTripPayout(s) \/ AwardTripCompletionPoints(s) \/ CancelWrite(s)

DriverCall(s, t, d) ==
    \/ "accept" \in Endpoints /\ AcceptTrip(s, t, d)
    \/ "decline" \in Endpoints /\ DeclineTrip(s, t, d)
    \/ "start" \in Endpoints /\ StartTrip(s, t, d)
    \/ "complete" \in Endpoints /\ CompleteTrip(s, t, d)

Next ==
    \/ \E t \in Trip :
          CreateTrip(t) \/ TimePasses(t) \/ MatcherStep(t) \/ MatchingFailed(t) \/ OfferRoundFailed(t)
    \/ \E t \in Trip, e \in Escalator :
          EscalateRead(t, e) \/ EscalateWrite(t, e) \/ EscalationFailed(t, e)
    \/ \E s \in Slot, t \in Trip, d \in Driver : DriverCall(s, t, d)
    \/ \E s \in Slot, t \in Trip, by \in Driver \cup {Rider}, graceOver \in BOOLEAN :
          "cancel" \in Endpoints /\ CancelTrip(s, t, by, graceOver)
    \/ \E t \in Trip, d \in Driver : "assign" \in Endpoints /\ ManuallyAssign(t, d)
    \/ \E s \in Slot : RequestStep(s) \/ RequestFailed(s)
    \/ Restart

Spec == Init /\ [][Next]_vars

(* Time passes, due timers fire and awaited queries return: the event loop *)
(* and the database are live.  What riders, drivers and dispatchers do is  *)
(* up to them.                                                             *)
FairSpec ==
    /\ Spec
    /\ \A t \in Trip : WF_vars(TimePasses(t)) /\ WF_vars(MatcherStep(t))
    /\ \A t \in Trip, e \in Escalator : WF_vars(EscalateRead(t, e) \/ EscalateWrite(t, e))
    /\ \A s \in Slot : WF_vars(RequestStep(s))

-----------------------------------------------------------------------------
(* What holds however the handlers interleave.                             *)

\* A trip on offer is unclaimed, which is what acceptTrip's claim relies on,
\* and its 15-second timer is pending or already resetting it.  The one way an
\* offer nobody takes stays open for ever is that a restart took its timer, or
\* that a query of the timer's own callback was rejected.
OpenOfferIsTimed ==
    \A t \in Trip : trip[t].status = "MATCHING" =>
        /\ trip[t].driverId = None
        /\ restarts = 0 => matcher[t].pc \in {"armed", "excluding", "reset", "broken"}

\* The search shows test trips only to the review fleet and real trips only to real
\* drivers, and a test trip moves no money, whoever drives it.
FleetsShownApart ==
    \A t \in Trip :
        /\ \A d \in shown[t] : InFleet(d, trip[t].isTest)
        /\ trip[t].isTest => books[t].payouts = 0 /\ books[t].awards = 0
\* Nothing the backend decides, no round of offers and no dispatcher, hands a trip to
\* a driver of the other fleet: such a driver's own accept call does, which no check
\* refuses.
GivenApart ==
    \A t \in Trip :
        LET d == trip'[t].driverId IN
        /\ d \notin {None, trip[t].driverId}
        /\ ~InFleet(d, trip[t].isTest)
        => \E s \in Slot : AcceptTrip(s, t, d)
\* The fleets' segregation, as far as the backend keeps it: what is shown, what is paid
\* and what is given away after every step.
FleetsAreSegregated == [][FleetsShownApart' /\ GivenApart]_vars

\* A driver who let an offer lapse is not chosen for the same trip again until
\* an accept or a cancel clears the exclusions, although the search reads them
\* long before it makes the offer.
LapsedAreNotReoffered ==
    \A t \in Trip : matcher[t].pc = "offer" => matcher[t].offered \cap lapsed[t] = {}

\* However many complete calls race with starts and cancels, a payout follows a
\* completion of its own (one transition IN_PROGRESS -> COMPLETED) and the stamped
\* final fare, and a loyalty award follows a payout of its own.
PayoutsAreBacked ==
    \A t \in Trip :
        /\ books[t].payouts <= books[t].completions
        /\ books[t].awards <= books[t].payouts
        /\ books[t].payouts > 0 => trip[t].finalFare

\* "What is never charged" (cancellation.util.ts): whatever cancels race, a fee
\* on the row is a rider's, on a real trip that a driver had been matched to.
FeeIsRidersAfterMatch ==
    \A t \in Trip : trip[t].cancellationFee > 0 =>
        trip[t].cancelledBy = "RIDER" /\ ~trip[t].isTest /\ trip[t].matchedAt

\* The driver of a trip that is matched, under way or done is replaced only
\* after the row has gone back to the search: neither an accept nor a dispatcher
\* stomps a match in place.
MatchIsNotStomped ==
    [][\A t \in Trip :
          /\ trip[t].status \in {"MATCHED", "IN_PROGRESS", "COMPLETED"}
          /\ trip'[t].status \in {"MATCHED", "IN_PROGRESS", "COMPLETED"}
          => trip'[t].driverId = trip[t].driverId]_vars


-----------------------------------------------------------------------------
(* The rides settle as Settlement promises.                                *)

Settle == INSTANCE Settlement WITH
    Work <- Trip,
    earned <- [t \in Trip |-> books[t].completions > 0 /\ ~trip[t].isTest],
    paid <- [t \in Trip |-> books[t].payouts],
    rewarded <- [t \in Trip |-> books[t].awards]

\* However starts, completes and cancels race, a completed real trip is paid and
\* then rewarded at most once, and a test trip never is.
SettlesOnce == Settle!Spec

\* While the process stays up, what a completed real trip has earned also arrives:
\* one payout and one award, however often and by however many racing calls the
\* trip was completed.
EarningsArrive == Settle!LiveSpec
=============================================================================
