------------------------------- MODULE Ratings --------------------------------
(***************************************************************************)
(* RatingsService, and the rate operations of rides, parcels and food      *)
(* orders.  A rating is three round trips to the database: the row, the    *)
(* average over all rows, and the average written to users.rating.         *)
(* Scores are stars, averages hundredths of a star.                        *)
(***************************************************************************)
EXTENDS People, Integers, FiniteSets, Functions

CONSTANTS
    RatedJob,   \* jobs that may be rated
    BookedBy,   \* the customer of each job
    DrivenBy,   \* the driver of each job, or None
    GivenScore  \* bound: the scores given

ASSUME RatingsAssumption ==
    /\ BookedBy \in [RatedJob -> User] /\ DrivenBy \in [RatedJob -> User \cup {None}]
    /\ GivenScore \subseteq 1..5 /\ IsFiniteSet(RatedJob)

VARIABLES
    finished,    \* jobs that are COMPLETED or DELIVERED
    score,       \* the ratings table: the score of each job, or None
    userRating,  \* users.rating
    rateCall,    \* requests to rate
    blurred      \* history: the last rating of a user overlapped another, or broke off

ratingsVars == <<finished, score, userRating, rateCall, blurred>>

NoRate == [pc |-> "idle"]
InFlight(u) == {c \in Call : rateCall[c].pc # "idle" /\ rateCall[c].of = u}
Received(u) == {j \in RatedJob : score[j] # None /\ DrivenBy[j] = u}
StarsTo(u) == SumFunctionOnSet(score, Received(u))

\* Math.round(average * 100) / 100, or 5 stars without a rating.
AverageFor(u) ==
    LET n == Cardinality(Received(u))
    IN  IF n = 0 THEN 500 ELSE (200 * StarsTo(u) + n) \div (2 * n)

\* A job ends: see Trips and Jobs.
JobFinishes(j) ==
    /\ j \notin finished
    /\ finished' = finished \cup {j}
    /\ UNCHANGED <<score, userRating, rateCall, blurred>>

\* Mutant: the average is read before the new row is there.
RateAfterAverage(c, j, rater, stars) ==
    /\ rateCall[c].pc = "idle"
    /\ rater = BookedBy[j] /\ j \in finished /\ DrivenBy[j] # None /\ rater # DrivenBy[j]
    /\ score[j] = None
    /\ score' = [score EXCEPT ![j] = stars]
    /\ rateCall' = [rateCall EXCEPT ![c] =
                      [pc |-> "write", of |-> DrivenBy[j], average |-> AverageFor(DrivenBy[j])]]
    /\ blurred' = [blurred EXCEPT ![DrivenBy[j]] = InFlight(DrivenBy[j]) # {}]
    /\ UNCHANGED <<finished, userRating>>
\* rateTrip, rateDelivery or rateOrder, then the row of rate(): what it checks of a
\* finished job does not change, and the unique index admits one row per job.
Rate(c, j, rater, stars) ==
    /\ rateCall[c].pc = "idle"
    /\ rater = BookedBy[j]
    /\ j \in finished
    /\ DrivenBy[j] # None
    /\ rater # DrivenBy[j]
    /\ score[j] = None
    /\ score' = [score EXCEPT ![j] = stars]
    /\ rateCall' = [rateCall EXCEPT ![c] = [pc |-> "aggregate", of |-> DrivenBy[j]]]
    /\ blurred' = [blurred EXCEPT ![DrivenBy[j]] = InFlight(DrivenBy[j]) # {}]
    /\ UNCHANGED <<finished, userRating>>

\* recalculateAverage reads,
Aggregate(c) ==
    /\ rateCall[c].pc = "aggregate"
    /\ rateCall' = [rateCall EXCEPT ![c] =
                      [pc |-> "write", of |-> rateCall[c].of, average |-> AverageFor(rateCall[c].of)]]
    /\ UNCHANGED <<finished, score, userRating, blurred>>

\* and writes what it read.
WriteAverage(c) ==
    /\ rateCall[c].pc = "write"
    /\ userRating' = [userRating EXCEPT ![rateCall[c].of] = rateCall[c].average]
    /\ rateCall' = [rateCall EXCEPT ![c] = NoRate]
    /\ UNCHANGED <<finished, score, blurred>>

\* The database fails the request, or the process dies: the row stays, and a retry
\* is told "This has already been rated".
RateBreaksOff(c) ==
    /\ rateCall[c].pc # "idle"
    /\ rateCall' = [rateCall EXCEPT ![c] = NoRate]
    /\ blurred' = [blurred EXCEPT ![rateCall[c].of] = TRUE]
    /\ UNCHANGED <<finished, score, userRating>>

RatingsInit ==
    /\ finished = {}
    /\ score = [j \in RatedJob |-> None]
    /\ userRating = [u \in User |-> 500]
    /\ rateCall = [c \in Call |-> NoRate]
    /\ blurred = [u \in User |-> FALSE]

RatingsNext ==
    \/ \E j \in RatedJob : JobFinishes(j)
    \/ \E c \in Call, j \in RatedJob, u \in User, stars \in GivenScore : Rate(c, j, u, stars)
    \/ \E c \in Call : Aggregate(c) \/ WriteAverage(c) \/ RateBreaksOff(c)

RatingsSpec == RatingsInit /\ [][RatingsNext]_ratingsVars

\* What users.rating says of a driver is the average of the ratings received, to the
\* nearest hundredth, whenever no rating is being worked in, unless the last one
\* overlapped another or broke off; a later rating that runs alone puts it right.
AverageIsExact ==
    \A u \in User :
        LET n == Cardinality(Received(u))
        IN  InFlight(u) = {} /\ ~blurred[u] /\ n > 0 =>
                200 * StarsTo(u) - 2 * n * userRating[u] \in -n..n
=============================================================================
