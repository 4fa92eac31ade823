------------------------------- MODULE MCTrips -------------------------------
(* Instances of Trips for TLC, and the statements of the repository's own  *)
(* comments that the interleavings of the handlers refute.                 *)
EXTENDS Trips, TLC

\* Requests are interchangeable, and so are the drivers of one fleet.
Symmetry == Permutations(Slot) \cup Permutations(Driver \ TestDriver)

\* The state but for the history that only OneDriverWinsTheTrip reads.
WithoutWinners ==
    <<trip, excluded, matcher, escalation, req, age, restarts, shown, lapsed, books>>

\* "two riders cannot take the same job" (trips.service.ts, offerToDrivers):
\* no two drivers are told that one trip is theirs.
OneDriverWinsTheTrip == \A t \in Trip : Cardinality(winners[t]) <= 1

\* The "full state machine" of README.md, with the offers that lapse, a dispatcher's
\* assignment, and CANCELLED "from any pre-trip state".
Transitions ==
    {<<"NONE", "REQUESTED">>, <<"REQUESTED", "MATCHING">>, <<"MATCHING", "REQUESTED">>,
     <<"REQUESTED", "MATCHED">>, <<"MATCHING", "MATCHED">>, <<"MATCHED", "IN_PROGRESS">>,
     <<"IN_PROGRESS", "COMPLETED">>, <<"REQUESTED", "CANCELLED">>, <<"MATCHING", "CANCELLED">>,
     <<"MATCHED", "CANCELLED">>}
FollowsStateMachine ==
    [][\A t \in Trip : trip'[t].status # trip[t].status =>
          <<trip[t].status, trip'[t].status>> \in Transitions]_vars
=============================================================================
