------------------------------ MODULE MCLedger -------------------------------
(* Instances of Ledger for TLC, and the statements that the runs make of   *)
(* them.                                                                   *)
EXTENDS Ledger, TLC

Symmetry == Permutations(Slot) \cup Permutations(Driver)

Worth(kind, fare, tip, cod, items, rate) ==
    [kind |-> kind, fare |-> fare, tip |-> tip, cod |-> cod, items |-> items, rate |-> rate]

\* One job of each kind.  The commissions round up, down and to zero; the trip
\* and the parcel together leave a driver exactly at a limit of 4.
EveryKind ==
    {Worth("TRIP", 7, 0, 0, 0, 0), Worth("DELIVERY", 1, 0, 4, 0, 0),
     Worth("FOOD_ORDER", 3, 0, 0, 7, 20), Worth("ERRAND", 11, 0, 0, 0, 0)}
CodParcel == {Worth("DELIVERY", 1, 0, 9, 0, 0)}

\* The row is written at once, which "stops the same balance being withdrawn
\* twice" (ledger.service.ts, requestWithdrawal).
NothingIsWithdrawnTwice == \A c \in Client : Balance(c) >= 0
=============================================================================
