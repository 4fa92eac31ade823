----------------------------- MODULE MCServices -------------------------------
(* The instance of Services for TLC.                                       *)
EXTENDS Services, TLC

CONSTANTS u1, u2, u3, j1, j2, j3, j4

\* Three jobs of one driver, one of them booked by that driver, and one nobody drove.
MCBookedBy == j1 :> u1 @@ j2 :> u2 @@ j3 :> u1 @@ j4 :> u3
MCDrivenBy == j1 :> u3 @@ j2 :> u3 @@ j3 :> u3 @@ j4 :> None
MCRequester == j1 :> u1

Interchangeable == Permutations(Call) \cup Permutations(Driver)

-----------------------------------------------------------------------------
(* Bookings that vary what the fare depends on, and bookings that vary     *)
(* what the policy depends on.                                             *)

Request(services, vehicles, fareTypes, bids, centre, straights, claims, minutes, hours) ==
    [service : services, vehicle : vehicles, fareType : fareTypes, bid : bids,
     fromCentre : centre, straight : straights, claimed : claims, minutes : minutes, hour : hours]

\* 1205 m and 1932 m put the fare at or near the middle of two multiples of 5.
MCRequests ==
    Request({"RIDES"}, {"BIKE", "CAR"}, {"FIXED"}, {None}, {1000}, {0, 1205, 4090, 12000},
            {None, 200, 4008, 4009, 1932, 12270, 36001}, {None, 7}, {12})
    \cup Request({"RIDES"}, {"BIKE", "RICKSHAW"}, {"FIXED", "BID"}, {None, 90}, {45000, 45001},
                 {4090}, {None}, {None}, {0, 1, 2, 7, 8, 21, 22, 23})
    \cup Request({"DELIVERY", "ERRANDS", "FOOD"}, {None}, {"FIXED"}, {None}, {45000, 45001},
                 {0, 1932, 12000}, {None}, {None}, {3})

\* Only the default policy, which keeps no hours, takes it.
MCRegulars ==
    Request({"RIDES"}, {"BIKE"}, {"FIXED"}, {None}, {45000}, {4090}, {None}, {None}, {7})

Policy(enabled, vehicles, bidding, zone, hours, openHour, closeHour) ==
    [enabled |-> enabled, vehicles |-> vehicles, bidding |-> bidding, zone |-> zone,
     radius |-> 45000, hours |-> hours, openHour |-> openHour, closeHour |-> closeHour]

\* The defaults; the pilot's hours; a wide night service with everything on.
MCPolicies ==
    {Policy({"RIDES", "DELIVERY", "ERRANDS"}, {"BIKE"}, FALSE, TRUE, FALSE, 8, 22),
     Policy({"RIDES"}, {"BIKE"}, FALSE, TRUE, TRUE, 8, 22),
     Policy({"RIDES", "DELIVERY", "ERRANDS", "FOOD"}, {"BIKE", "CAR", "RICKSHAW"}, TRUE, FALSE,
            TRUE, 22, 2)}
=============================================================================
