------------------------------ MODULE Settlement -------------------------------
(***************************************************************************)
(* What completing a job promises the driver, whatever kind of job it is   *)
(* and whichever service runs it: once the job is done it is paid, once,   *)
(* and rewarded with points, once, in that order.  How often the           *)
(* endpoints are called, and what they race with, is not visible here.     *)
(* Trips and Jobs implement this specification.                            *)
(***************************************************************************)
EXTENDS Naturals

CONSTANT Work   \* the jobs

VARIABLES
    earned,     \* the job was completed and moves money
    paid,       \* payouts recorded in the ledger
    rewarded    \* loyalty awards credited

vars == <<earned, paid, rewarded>>

Init ==
    /\ earned = [w \in Work |-> FALSE]
    /\ paid = [w \in Work |-> 0]
    /\ rewarded = [w \in Work |-> 0]

Earn(w) ==
    /\ ~earned[w]
    /\ earned' = [earned EXCEPT ![w] = TRUE]
    /\ UNCHANGED <<paid, rewarded>>

Pay(w) ==
    /\ earned[w] /\ paid[w] = 0
    /\ paid' = [paid EXCEPT ![w] = 1]
    /\ UNCHANGED <<earned, rewarded>>

Reward(w) ==
    /\ paid[w] = 1 /\ rewarded[w] = 0
    /\ rewarded' = [rewarded EXCEPT ![w] = 1]
    /\ UNCHANGED <<earned, paid>>

Next == \E w \in Work : Earn(w) \/ Pay(w) \/ Reward(w)

Spec == Init /\ [][Next]_vars

\* What is earned is paid and rewarded in the end.
EarningsArrive == \A w \in Work : earned[w] ~> (paid[w] = 1 /\ rewarded[w] = 1)

LiveSpec == Spec /\ EarningsArrive
=============================================================================
