-------------------------------- MODULE Ledger -------------------------------
(***************************************************************************)
(* The wallet: LedgerService, and the two places that act on a balance,    *)
(* the credit check of dispatch and the withdrawal.                        *)
(*                                                                         *)
(* The ledger_entries table is kept as what the code asks of it: the sum   *)
(* of netAmount per user and entry type.  A transaction is one step.       *)
(* Amounts are in paisa, rates in per cent.                                *)
(***************************************************************************)
EXTENDS Integers, FiniteSets, Functions

CONSTANTS
    Driver,          \* driver accounts
    Client,          \* accounts that do not drive: senders, restaurant owners
    Job,             \* job ids, of all four kinds
    Terms,           \* what a job can be worth
    Slot,            \* withdrawal requests that can be in flight together
    None,            \* null
    Amount,          \* bound: amounts topped up and withdrawn
    MaxTopUp,        \* bound: what one user is topped up with in all
    CommissionRate,  \* COMMISSION_RATE
    CreditLimit,     \* DRIVER_CREDIT_LIMIT_PKR; 0 disables the cap
    OneAtATime,      \* whether a user waits for one withdrawal before the next
    MayAssign        \* whether dispatchers assign jobs by hand

User == Driver \cup Client
Kind == {"TRIP", "DELIVERY", "FOOD_ORDER", "ERRAND"}

\* fare: fare, delivery fee or service fee.  tip: a trip's.  cod: a parcel's.
\* items, rate: a food order's items and its restaurant's commission rate.
JobTerms == [kind : Kind, fare : Nat, tip : Nat, cod : Nat, items : Nat, rate : 0..100]

ASSUME LedgerAssumption ==
    /\ Driver \cap Client = {} /\ None \notin Driver \cup Client
    /\ IsFiniteSet(Driver) /\ IsFiniteSet(Client)
    /\ Terms \subseteq JobTerms
    /\ Amount \subseteq Nat \ {0}
    /\ MaxTopUp \in Nat
    /\ CommissionRate \in 0..100
    /\ CreditLimit \in Nat
    /\ OneAtATime \in BOOLEAN /\ MayAssign \in BOOLEAN

VARIABLES
    job,        \* the job tables: state, driver, client, terms
    net,        \* the ledger: sum of netAmount per user and type
    withdrawal  \* requestWithdrawal calls between their check and their row

vars == <<job, net, withdrawal>>

-----------------------------------------------------------------------------
EntryType ==
    {"TRIP_PAYOUT", "TRIP_CASH_COLLECTED", "TRIP_TIP", "DELIVERY_PAYOUT",
     "DELIVERY_COD_LIABILITY", "PARCEL_COD_CREDIT", "FOOD_ORDER_DRIVER_PAYOUT",
     "FOOD_ORDER_RESTAURANT_PAYOUT", "ERRAND_PAYOUT", "WALLET_TOPUP", "WALLET_WITHDRAWAL"}

NoWithdrawal == [user |-> None, amount |-> 0]

TypeOK ==
    /\ job \in [Job -> [state : {"open", "offered", "taken", "settled"},
                        driver : Driver \cup {None}, client : Client, terms : Terms]]
    /\ \A j \in Job : job[j].state # "open" => job[j].driver \in Driver
    /\ net \in [User -> [EntryType -> Int]]
    /\ withdrawal \in [Slot -> [user : User, amount : Amount] \cup {NoWithdrawal}]

Init ==
    /\ \E client \in [Job -> Client], terms \in [Job -> Terms] :
          job = [j \in Job |-> [state |-> "open", driver |-> None,
                                client |-> client[j], terms |-> terms[j]]]
    /\ net = [u \in User |-> [type \in EntryType |-> 0]]
    /\ withdrawal = [s \in Slot |-> NoWithdrawal]

-----------------------------------------------------------------------------
(* splitFare and getBalance.                                               *)

\* Math.round(gross * rate * 100) / 100, half a paisa rounding up.
CommissionOn(gross, rate) == (gross * rate + 50) \div 100
NetOf(gross, rate) == gross - CommissionOn(gross, rate)

\* The aggregate over the entries of one user.
Total(sums) ==
    sums["TRIP_PAYOUT"] + sums["TRIP_CASH_COLLECTED"] + sums["TRIP_TIP"]
  + sums["DELIVERY_PAYOUT"] + sums["DELIVERY_COD_LIABILITY"] + sums["PARCEL_COD_CREDIT"]
  + sums["FOOD_ORDER_DRIVER_PAYOUT"] + sums["FOOD_ORDER_RESTAURANT_PAYOUT"]
  + sums["ERRAND_PAYOUT"] + sums["WALLET_TOPUP"] + sums["WALLET_WITHDRAWAL"]
Balance(u) == Total(net[u])

Owed(b) == IF b < 0 THEN -b ELSE 0
Blocked(b) == CreditLimit # 0 /\ b <= -CreditLimit

\* What the driver app shows: owed / limit against 0.5 and 0.75.
Level(b) ==
    IF Blocked(b) THEN "blocked"
    ELSE IF CreditLimit # 0 /\ 4 * Owed(b) >= 3 * CreditLimit THEN "warning"
    ELSE IF CreditLimit # 0 /\ 2 * Owed(b) >= CreditLimit THEN "notice"
    ELSE "ok"
RemainingCredit(b) == IF CreditLimit - Owed(b) > 0 THEN CreditLimit - Owed(b) ELSE 0

-----------------------------------------------------------------------------
(* Dispatch, as far as money decides it.                                   *)

\* Mutant: the limit itself still counts as within it.
OverLimitStrictly(b) == CreditLimit # 0 /\ b < -CreditLimit
\* LocationService.driversOverCreditLimit, which repeats the wallet's test.
OverCreditLimit(b) == CreditLimit # 0 /\ b <= -CreditLimit

\* LocationService.driversOnAJob: a trip on offer names no driver on its row.
OnAJob(d) ==
    \E i \in Job : /\ job[i].driver = d
                   /\ \/ job[i].state = "taken"
                      \/ job[i].state = "offered" /\ job[i].terms.kind # "TRIP"

\* The search: free, and within credit.  The rest of filterEligible is left open.
Offer(j, d) ==
    /\ job[j].state = "open"
    /\ ~OnAJob(d)
    /\ ~OverCreditLimit(Balance(d))
    /\ job' = [job EXCEPT ![j] = [@ EXCEPT !.state = "offered", !.driver = d]]
    /\ UNCHANGED <<net, withdrawal>>

\* The offer lapses or is declined.
OfferLapses(j) ==
    /\ job[j].state = "offered"
    /\ job' = [job EXCEPT ![j] = [@ EXCEPT !.state = "open", !.driver = None]]
    /\ UNCHANGED <<net, withdrawal>>

\* The accept asks nothing about money any more, and that of a ride does not ask to whom
\* the ride was offered.
Accept(j, d) ==
    /\ job[j].state = "offered"
    /\ d = job[j].driver \/ job[j].terms.kind = "TRIP"
    /\ job' = [job EXCEPT ![j] = [@ EXCEPT !.state = "taken", !.driver = d]]
    /\ UNCHANGED <<net, withdrawal>>

\* Mutant: the assignment writes the status and not the driver.
AssignsNobody(j, d) ==
    /\ MayAssign
    /\ job[j].state \in {"open", "offered"}
    /\ job' = [job EXCEPT ![j].state = "taken"]
    /\ UNCHANGED <<net, withdrawal>>
\* AdminService.manuallyAssign never asks.
ManuallyAssign(j, d) ==
    /\ MayAssign
    /\ job[j].state \in {"open", "offered"}
    /\ job' = [job EXCEPT ![j] = [@ EXCEPT !.state = "taken", !.driver = d]]
    /\ UNCHANGED <<net, withdrawal>>

-----------------------------------------------------------------------------
(* Settlement: one transaction per job.                                    *)

\* recordTripPayout: the driver has the fare in cash.
TripRows(w) ==
    [TRIP_PAYOUT |-> NetOf(w.fare, CommissionRate), TRIP_CASH_COLLECTED |-> -w.fare,
     TRIP_TIP |-> w.tip]

\* Mutant: the sender's half of the cash on delivery is missing.
LiabilityOnly(w) ==
    [DELIVERY_PAYOUT |-> NetOf(w.fare, CommissionRate), DELIVERY_COD_LIABILITY |-> -w.cod,
     PARCEL_COD_CREDIT |-> 0]
\* recordDeliveryPayout.
DeliveryRows(w) ==
    [DELIVERY_PAYOUT |-> NetOf(w.fare, CommissionRate), DELIVERY_COD_LIABILITY |-> -w.cod,
     PARCEL_COD_CREDIT |-> w.cod]

\* recordFoodOrderPayouts: driver and restaurant, from two pools.
FoodOrderRows(w) ==
    [FOOD_ORDER_DRIVER_PAYOUT |-> NetOf(w.fare, CommissionRate),
     FOOD_ORDER_RESTAURANT_PAYOUT |-> NetOf(w.items, w.rate)]

\* recordErrandPayout.
ErrandRows(w) == [ERRAND_PAYOUT |-> NetOf(w.fare, CommissionRate)]

Rows(w) ==
    CASE w.kind = "TRIP" -> TripRows(w)
      [] w.kind = "DELIVERY" -> DeliveryRows(w)
      [] w.kind = "FOOD_ORDER" -> FoodOrderRows(w)
      [] w.kind = "ERRAND" -> ErrandRows(w)

ClientTypes == {"PARCEL_COD_CREDIT", "FOOD_ORDER_RESTAURANT_PAYOUT"}
Post(sums, rows, types) ==
    [type \in EntryType |-> IF type \in types \cap DOMAIN rows THEN sums[type] + rows[type]
                            ELSE sums[type]]

Settle(j) ==
    LET w == job[j].terms  d == job[j].driver  c == job[j].client IN
    /\ job[j].state = "taken"
    /\ job' = [job EXCEPT ![j].state = "settled"]
    /\ net' = [net EXCEPT ![d] = Post(@, Rows(w), EntryType \ ClientTypes),
                          ![c] = Post(@, Rows(w), ClientTypes)]
    /\ UNCHANGED withdrawal

-----------------------------------------------------------------------------
(* The wallet's own movements.                                             *)

\* An administrator's credit; how a driver settles a debt.
TopUp(u, amount) ==
    /\ net[u]["WALLET_TOPUP"] + amount <= MaxTopUp
    /\ net' = [net EXCEPT ![u]["WALLET_TOPUP"] = @ + amount]
    /\ UNCHANGED <<job, withdrawal>>

\* Mutant: the balance check is dropped, as if the client had checked.
AnyAmount(u, amount) == TRUE
Covered(u, amount) == amount <= Balance(u)

\* requestWithdrawal: the balance is read and checked ...
WithdrawCheck(s, u, amount) ==
    /\ withdrawal[s] = NoWithdrawal
    /\ OneAtATime => \A r \in Slot : withdrawal[r].user # u
    /\ Covered(u, amount)
    /\ withdrawal' = [withdrawal EXCEPT ![s] = [user |-> u, amount |-> amount]]
    /\ UNCHANGED <<job, net>>

\* ... and the row written after it, whatever the balance has become.
WithdrawWrite(s) ==
    /\ withdrawal[s] # NoWithdrawal
    /\ net' = [net EXCEPT ![withdrawal[s].user]["WALLET_WITHDRAWAL"] = @ - withdrawal[s].amount]
    /\ withdrawal' = [withdrawal EXCEPT ![s] = NoWithdrawal]
    /\ UNCHANGED job

Next ==
    \/ \E j \in Job, d \in Driver : Offer(j, d) \/ Accept(j, d) \/ ManuallyAssign(j, d)
    \/ \E j \in Job : OfferLapses(j) \/ Settle(j)
    \/ \E u \in User, amount \in Amount : TopUp(u, amount)
    \/ \E s \in Slot, u \in User, amount \in Amount : WithdrawCheck(s, u, amount)
    \/ \E s \in Slot : WithdrawWrite(s)

Spec == Init /\ [][Next]_vars

-----------------------------------------------------------------------------
\* What a user holds of cash on delivery, and is owed of it.
CodOf(u) == net[u]["DELIVERY_COD_LIABILITY"] + net[u]["PARCEL_COD_CREDIT"]

\* Cash on delivery only changes hands: what drivers are debited for the cash
\* they hold is what senders are credited, at every moment, although each
\* delivery writes the two rows to different users (recordDeliveryPayout).
CodNetsToZero == SumFunctionOnSet([u \in User |-> CodOf(u)], User) = 0

\* A user who does not drive, and lets one withdrawal finish before asking for
\* the next, never owes the platform: the balance checked by requestWithdrawal
\* is stale when its row is written, but nothing else takes from it meanwhile.
ClientsNeverOwe == OneAtATime => \A c \in Client : Balance(c) >= 0

\* The wallet and dispatch, which each compute the block, agree to the paisa: a
\* driver is passed over by the search exactly when the app shows them no credit
\* left and the level "blocked".
WalletAgreesWithDispatch ==
    CreditLimit # 0 =>
        \A d \in Driver :
            LET b == Balance(d) IN
            /\ OverCreditLimit(b) <=> RemainingCredit(b) = 0
            /\ OverCreditLimit(b) <=> Level(b) = "blocked"
=============================================================================
