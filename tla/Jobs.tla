-------------------------------- MODULE Jobs ---------------------------------
(***************************************************************************)
(* Parcels, errands and food orders: DeliveryService, ErrandsService and   *)
(* FoodOrdersService, three copies of one dispatch, with the dispatcher's  *)
(* manual assignment.                                                      *)
(*                                                                         *)
(* Unlike a ride, a job is offered to one driver at a time, whose id is on *)
(* the row while they decide.  A decline starts the next search itself, so *)
(* it can run beside the search that the offer's timer starts: searches,   *)
(* timers and requests are all tasks, each at some await.                  *)
(***************************************************************************)
EXTENDS Integers, FiniteSets

CONSTANTS
    Job,          \* job ids
    Kinds,        \* bound: the kinds of job that are booked
    Driver,       \* approved, active driver accounts
    TestDriver,   \* the drivers with isTestAccount = true
    None,         \* null
    Task,         \* bound: searches, timers and requests pending at once
    Endpoints,    \* bound: the endpoints that are called at all
    MayFailAt,    \* bound: where a query of a request or a search may reject
    MaxRestarts   \* bound: restarts of the process

ASSUME JobsAssumption ==
    /\ TestDriver \subseteq Driver
    /\ None \notin Driver /\ None \notin Job
    /\ Kinds \subseteq {"DELIVERY", "ERRAND", "FOOD_ORDER"}
    /\ Endpoints \subseteq {"kitchen", "accept", "decline", "report", "deliver", "cancel", "assign"}
    /\ MayFailAt \subseteq {"read", "exclusions", "search", "offer", "timer", "excluding", "resetting",
                       "clearing", "advancing", "delivering", "paying", "awarding", "cancelling"}
    /\ MaxRestarts \in Nat

VARIABLES
    job,       \* the three job tables
    excluded,  \* Redis: match:excluded:<kind>:<id>
    task,      \* what is pending between two awaits
    restarts,  \* restarts so far
    \* History, read only by properties
    stranded,  \* jobs whose open offer lost its timer to a rejected query
    books      \* whether the job was ever delivered, its payouts and awards

vars == <<job, excluded, task, restarts, stranded, books>>

-----------------------------------------------------------------------------
(* The three state machines.                                               *)

Created(kind) == IF kind = "FOOD_ORDER" THEN "PLACED" ELSE "REQUESTED"

\* The job looks for a driver and no offer is open.
Waiting(kind) == IF kind = "FOOD_ORDER" THEN "READY" ELSE "REQUESTED"

Claimed(kind) ==
    CASE kind = "DELIVERY" -> "MATCHED"
      [] kind = "ERRAND" -> "ACCEPTED"
      [] kind = "FOOD_ORDER" -> "ASSIGNED"

\* The steps a driver reports: markPickedUp, markInTransit, startShopping,
\* markOnTheWay.
DriverSteps ==
    {<<"DELIVERY", "MATCHED", "PICKED_UP">>, <<"DELIVERY", "PICKED_UP", "IN_TRANSIT">>,
     <<"ERRAND", "ACCEPTED", "SHOPPING">>, <<"ERRAND", "SHOPPING", "ON_THE_WAY">>,
     <<"FOOD_ORDER", "ASSIGNED", "PICKED_UP">>}

\* The steps a restaurant reports: acceptOrder, markReady.
KitchenSteps == {<<"FOOD_ORDER", "PLACED", "ACCEPTED">>, <<"FOOD_ORDER", "ACCEPTED", "READY">>}

\* What markDelivered accepts.
Deliverable(kind) ==
    CASE kind = "DELIVERY" -> {"PICKED_UP", "IN_TRANSIT"}
      [] kind = "ERRAND" -> {"ON_THE_WAY"}
      [] kind = "FOOD_ORDER" -> {"PICKED_UP"}

Cancellable(kind) ==
    CASE kind = "DELIVERY" -> {"REQUESTED", "MATCHING", "MATCHED"}
      [] kind = "ERRAND" -> {"REQUESTED", "MATCHING", "ACCEPTED"}
      [] kind = "FOOD_ORDER" -> {"PLACED", "ACCEPTED", "READY", "MATCHING"}

\* What LocationService.driversOnAJob takes for being on a job.
Occupying(kind) ==
    CASE kind = "DELIVERY" -> {"MATCHING", "MATCHED", "PICKED_UP", "IN_TRANSIT"}
      [] kind = "ERRAND" -> {"MATCHING", "ACCEPTED", "SHOPPING", "ON_THE_WAY"}
      [] kind = "FOOD_ORDER" -> {"MATCHING", "ASSIGNED", "PICKED_UP"}

Status == {"NONE", "PLACED", "REQUESTED", "READY", "MATCHING", "MATCHED", "ACCEPTED", "ASSIGNED",
           "SHOPPING", "PICKED_UP", "IN_TRANSIT", "ON_THE_WAY", "DELIVERED", "CANCELLED"}

-----------------------------------------------------------------------------
JobRow == [kind : Kinds, isTest : BOOLEAN, status : Status, driverId : Driver \cup {None}]

TaskPC == {"idle", "read", "exclusions", "search", "offer", "timer", "excluding", "resetting",
           "clearing", "advancing", "delivering", "paying", "awarding", "cancelling"}

\* unguarded: the task runs in an offer's timer, where nobody catches its rejection.
TaskState == [pc : TaskPC, job : Job \cup {None}, driver : Driver \cup {None},
              known : SUBSET Driver, to : Status, unguarded : BOOLEAN]
Idle == [pc |-> "idle", job |-> None, driver |-> None, known |-> {}, to |-> "NONE",
         unguarded |-> FALSE]

AboutADriver == {"offer", "timer", "excluding", "resetting"}

TypeOK ==
    /\ job \in [Job -> JobRow]
    /\ excluded \in [Job -> SUBSET Driver]
    /\ task \in [Task -> TaskState]
    /\ \A k \in Task : /\ task[k].pc # "idle" => task[k].job \in Job
                       /\ task[k].pc \in AboutADriver => task[k].driver \in Driver
    /\ restarts \in 0..MaxRestarts
    /\ stranded \subseteq Job
    /\ books \in [Job -> [delivered : BOOLEAN, payouts : Nat, awards : Nat]]

Init ==
    /\ \E kind \in [Job -> Kinds], isTest \in [Job -> BOOLEAN] :
          job = [j \in Job |-> [kind |-> kind[j], isTest |-> isTest[j],
                                status |-> "NONE", driverId |-> None]]
    /\ excluded = [j \in Job |-> {}]
    /\ task = [k \in Task |-> Idle]
    /\ restarts = 0
    /\ stranded = {}
    /\ books = [j \in Job |-> [delivered |-> FALSE, payouts |-> 0, awards |-> 0]]

At(k, pc) == task[k].pc = pc
Begin(k, pc, j) == task[k] = Idle /\ task' = [task EXCEPT ![k] = [Idle EXCEPT !.pc = pc, !.job = j]]
Goto(k, pc) == task' = [task EXCEPT ![k].pc = pc]
End(k) == task' = [task EXCEPT ![k] = Idle]
Store(j, row) == job' = [job EXCEPT ![j] = row]

-----------------------------------------------------------------------------
(* Booking and the kitchen.                                                *)

Create(j, kind) ==
    /\ job[j].status = "NONE" /\ job[j].kind = kind
    /\ Store(j, [job[j] EXCEPT !.status = Created(kind)])
    /\ UNCHANGED <<excluded, restarts, stranded, books>>

\* A parcel or an errand starts a search; an order waits for the restaurant.
CreateDelivery(k, j) == Create(j, "DELIVERY") /\ Begin(k, "read", j)
CreateErrand(k, j) == Create(j, "ERRAND") /\ Begin(k, "read", j)
CreateOrder(j) == Create(j, "FOOD_ORDER") /\ UNCHANGED task

\* The check of a driver's or a restaurant's report.  The write comes later.
Report(k, j, steps) ==
    \E step \in steps :
        /\ job[j].kind = step[1] /\ job[j].status = step[2]
        /\ task[k] = Idle
        /\ task' = [task EXCEPT ![k] = [Idle EXCEPT !.pc = "advancing", !.job = j, !.to = step[3]]]
        /\ UNCHANGED <<job, excluded, restarts, stranded, books>>

DriverReports(k, j, d) == job[j].driverId = d /\ Report(k, j, DriverSteps)
KitchenReports(k, j) == Report(k, j, KitchenSteps)

\* markReady goes on to search, without awaiting it.
Advance(k) ==
    /\ At(k, "advancing")
    /\ Store(task[k].job, [job[task[k].job] EXCEPT !.status = task[k].to])
    /\ IF task[k].to = "READY" THEN Goto(k, "read") ELSE End(k)
    /\ UNCHANGED <<excluded, restarts, stranded, books>>

-----------------------------------------------------------------------------
(* The search: attemptMatch, offerToDriver and the 15-second timer.        *)

Looking(j) == job[j].status \in {Waiting(job[j].kind), "MATCHING"}

MatchRead(k) ==
    /\ At(k, "read")
    /\ IF Looking(task[k].job) THEN Goto(k, "exclusions") ELSE End(k)
    /\ UNCHANGED <<job, excluded, restarts, stranded, books>>

MatchExclusions(k) ==
    /\ At(k, "exclusions")
    /\ task' = [task EXCEPT ![k] = [@ EXCEPT !.pc = "search", !.known = excluded[task[k].job]]]
    /\ UNCHANGED <<job, excluded, restarts, stranded, books>>

\* LocationService.driversOnAJob, for the three job tables.
OnAJob(d) == \E i \in Job : job[i].driverId = d /\ job[i].status \in Occupying(job[i].kind)

InFleet(d, isTest) == (d \in TestDriver) = isTest

\* Mutant: the fleet flag falls back to its default, false.
EligibleRealFleet(k) == {d \in Driver : d \notin TestDriver /\ ~OnAJob(d)} \ task[k].known
\* Drivers filterEligible may let through; which of them are near, online, in the
\* right mode, fresh and within credit is left open.
Eligible(k) ==
    {d \in Driver : InFleet(d, job[task[k].job].isTest) /\ ~OnAJob(d)} \ task[k].known

\* The radius loop: the nearest eligible driver, or nobody, and the search ends.
MatchSearch(k) ==
    /\ At(k, "search")
    /\ \/ \E d \in Eligible(k) : task' = [task EXCEPT ![k] = [@ EXCEPT !.pc = "offer", !.driver = d]]
       \/ End(k)
    /\ UNCHANGED <<job, excluded, restarts, stranded, books>>

\* Mutant: the offer is made and its timer forgotten.
OfferUntimed(k) == Idle
\* Mutant: the timer's closure does not capture the driver it was set for.
TimerForNobody(k) == [task[k] EXCEPT !.pc = "timer", !.driver = None, !.known = {}, !.unguarded = TRUE]
\* The search is over; its timer remains.
OfferTimer(k) == [task[k] EXCEPT !.pc = "timer", !.known = {}, !.unguarded = TRUE]

\* offerToDriver: an update with no condition on the row.
OfferToDriver(k) ==
    LET j == task[k].job IN
    /\ At(k, "offer")
    /\ Store(j, [job[j] EXCEPT !.status = "MATCHING", !.driverId = task[k].driver])
    /\ task' = [task EXCEPT ![k] = OfferTimer(k)]
    /\ stranded' = stranded \ {j}
    /\ UNCHANGED <<excluded, restarts, books>>

OfferedTo(j, d) == job[j].status = "MATCHING" /\ job[j].driverId = d

\* Mutant: the timer tests for a null driver, as the rides' timer does.
NobodyClaimed(k) == OfferedTo(task[k].job, None)
StillOffered(k) == OfferedTo(task[k].job, task[k].driver)

OfferTimeout(k) ==
    /\ At(k, "timer")
    /\ IF StillOffered(k) THEN Goto(k, "excluding") ELSE End(k)
    /\ UNCHANGED <<job, excluded, restarts, stranded, books>>

\* handleDeclineOrTimeout, from the timer or from a decline: exclude, reset the
\* row whatever it has become, search again.
ExcludeDriver(k) ==
    /\ At(k, "excluding")
    /\ excluded' = [excluded EXCEPT ![task[k].job] = @ \cup {task[k].driver}]
    /\ Goto(k, "resetting")
    /\ UNCHANGED <<job, restarts, stranded, books>>

ResetToWaiting(k) ==
    LET j == task[k].job IN
    /\ At(k, "resetting")
    /\ Store(j, [job[j] EXCEPT !.status = Waiting(job[j].kind), !.driverId = None])
    /\ Goto(k, "read")
    /\ UNCHANGED <<excluded, restarts, stranded, books>>

-----------------------------------------------------------------------------
(* Requests.                                                               *)

\* acceptDelivery and acceptOffer: the check and the claim are one updateMany.
Accept(k, j, d) ==
    /\ OfferedTo(j, d)
    /\ Store(j, [job[j] EXCEPT !.status = Claimed(job[j].kind)])
    /\ Begin(k, "clearing", j)
    /\ UNCHANGED <<excluded, restarts, stranded, books>>

\* The last await of accept and of cancel.
ClearExclusions(k) ==
    /\ At(k, "clearing")
    /\ excluded' = [excluded EXCEPT ![task[k].job] = {}]
    /\ End(k)
    /\ UNCHANGED <<job, restarts, stranded, books>>

Decline(k, j, d) ==
    /\ OfferedTo(j, d)
    /\ task[k] = Idle
    /\ task' = [task EXCEPT ![k] = [Idle EXCEPT !.pc = "excluding", !.job = j, !.driver = d]]
    /\ UNCHANGED <<job, excluded, restarts, stranded, books>>

ClaimsDelivery(j) == job[j].status \in Deliverable(job[j].kind)

MarkDelivered(k, j, d) ==
    /\ job[j].driverId = d
    /\ job[j].status \in Deliverable(job[j].kind)
    /\ Begin(k, "delivering", j)
    /\ UNCHANGED <<job, excluded, restarts, stranded, books>>

\* The updateMany that decides which of several markDelivered calls settles.
DeliverClaim(k) ==
    LET j == task[k].job IN
    /\ At(k, "delivering")
    /\ IF ClaimsDelivery(j)
       THEN /\ Store(j, [job[j] EXCEPT !.status = "DELIVERED"])
            /\ books' = [books EXCEPT ![j].delivered = @ \/ job[j].status \in Deliverable(job[j].kind)]
            /\ Goto(k, "paying")
       ELSE End(k) /\ UNCHANGED <<job, books>>
    /\ UNCHANGED <<excluded, restarts, stranded>>

\* Mutant: the unique index on (job, type) does not exist.
NoIndex(j) == FALSE
\* Mutant: a job counts as paid as soon as it is delivered.
PaidOnceDelivered(j) == books[j].delivered
\* The unique indexes on ledger_entries, one per kind of job.
AlreadyPaid(j) == books[j].payouts > 0

\* recordDeliveryPayout, recordErrandPayout or recordFoodOrderPayouts: one
\* transaction, refused as a whole when the job has been paid before.
RecordPayout(k) ==
    LET j == task[k].job IN
    /\ At(k, "paying")
    /\ IF AlreadyPaid(j)
       THEN End(k) /\ UNCHANGED books
       ELSE books' = [books EXCEPT ![j].payouts = @ + 1] /\ Goto(k, "awarding")
    /\ UNCHANGED <<job, excluded, restarts, stranded>>

AwardDeliveryCompletionPoints(k) ==
    /\ At(k, "awarding")
    /\ books' = [books EXCEPT ![task[k].job].awards = @ + 1]
    /\ End(k)
    /\ UNCHANGED <<job, excluded, restarts, stranded>>

\* The owner may always be the one who cancels, so the caller is left out.
Cancel(k, j) ==
    /\ job[j].status \in Cancellable(job[j].kind)
    /\ Begin(k, "cancelling", j)
    /\ UNCHANGED <<job, excluded, restarts, stranded, books>>

CancelWrite(k) ==
    /\ At(k, "cancelling")
    /\ Store(task[k].job, [job[task[k].job] EXCEPT !.status = "CANCELLED"])
    /\ Goto(k, "clearing")
    /\ UNCHANGED <<excluded, restarts, stranded, books>>

\* Mutant: the dispatcher's updateMany loses its condition on the status.
AssignableClaimed(j) == Looking(j) \/ job[j].status = Claimed(job[j].kind)
Assignable(j) == Looking(j)

\* AdminService.manuallyAssign.
ManuallyAssign(j, d) ==
    /\ InFleet(d, job[j].isTest)
    /\ Assignable(j)
    /\ Store(j, [job[j] EXCEPT !.status = Claimed(job[j].kind), !.driverId = d])
    /\ UNCHANGED <<excluded, task, restarts, stranded, books>>

\* A query rejects and ends the task.  A request answers with an error, and the
\* searches that bookings and kitchens start are caught.  A timer's rejection nobody
\* catches: with Sentry on (instrument.ts) it is reported and the process lives on,
\* the offer still open; without, it ends the process, which is Restart.
TaskFailed(k) ==
    /\ task[k].pc \in MayFailAt
    /\ End(k)
    /\ stranded' = IF /\ task[k].unguarded /\ StillOffered(k)
                      /\ task[k].pc \in {"timer", "excluding", "resetting"}
                   THEN stranded \cup {task[k].job} ELSE stranded
    /\ UNCHANGED <<job, excluded, restarts, books>>

\* Nothing at start-up looks for jobs to resume.
Restart ==
    /\ restarts < MaxRestarts
    /\ restarts' = restarts + 1
    /\ task' = [k \in Task |-> Idle]
    /\ UNCHANGED <<job, excluded, stranded, books>>

-----------------------------------------------------------------------------
TaskStep(k) ==
    \/ MatchRead(k) \/ MatchExclusions(k) \/ MatchSearch(k) \/ OfferToDriver(k)
    \/ OfferTimeout(k) \/ ExcludeDriver(k) \/ ResetToWaiting(k)
    \/ Advance(k) \/ ClearExclusions(k) \/ DeliverClaim(k) \/ RecordPayout(k)
    \/ AwardDeliveryCompletionPoints(k) \/ CancelWrite(k)

DriverCall(k, j, d) ==
    \/ "accept" \in Endpoints /\ Accept(k, j, d)
    \/ "decline" \in Endpoints /\ Decline(k, j, d)
    \/ "report" \in Endpoints /\ DriverReports(k, j, d)
    \/ "deliver" \in Endpoints /\ MarkDelivered(k, j, d)

OwnerCall(k, j) ==
    \/ CreateDelivery(k, j) \/ CreateErrand(k, j)
    \/ "kitchen" \in Endpoints /\ KitchenReports(k, j)
    \/ "cancel" \in Endpoints /\ Cancel(k, j)

Next ==
    \/ \E k \in Task, j \in Job : OwnerCall(k, j)
    \/ \E j \in Job : CreateOrder(j)
    \/ \E k \in Task, j \in Job, d \in Driver : DriverCall(k, j, d)
    \/ \E j \in Job, d \in Driver : "assign" \in Endpoints /\ ManuallyAssign(j, d)
    \/ \E k \in Task : TaskStep(k) \/ TaskFailed(k)
    \/ Restart

Spec == Init /\ [][Next]_vars

(* Due timers fire and awaited queries return; people act when they like.  *)
FairSpec == Spec /\ \A k \in Task : WF_vars(TaskStep(k))

-----------------------------------------------------------------------------
(* What holds however the tasks interleave.                                *)

\* A job on offer names the driver who is asked, and the timer of that very offer
\* is pending or already resetting the row, although other searches for the job
\* come and go and declines may die half-way.  Only a restart, or a rejected query of
\* that very timer, takes it away.
OpenOfferIsTimed ==
    \A j \in Job : job[j].status = "MATCHING" =>
        /\ job[j].driverId # None
        /\ restarts = 0 /\ j \notin stranded =>
              \E k \in Task : /\ task[k].pc \in {"timer", "excluding", "resetting"}
                              /\ task[k].job = j /\ task[k].driver = job[j].driverId
                              /\ task[k].unguarded

\* A reviewer's job is offered and given only to the review fleet, a customer's
\* only to real drivers, whichever search or dispatcher finds the driver.
FleetsAreSegregated ==
    \A j \in Job : job[j].driverId # None => InFleet(job[j].driverId, job[j].isTest)

\* A driver on a job (claimed, under way or delivered) is replaced only after the
\* row has gone back to the search: neither an accept nor a dispatcher stomps it.
Taken(row) == row.status \in (Occupying(row.kind) \ {"MATCHING"}) \cup {"DELIVERED"}
MatchIsNotStomped ==
    [][\A j \in Job : Taken(job[j]) /\ Taken(job'[j]) => job'[j].driverId = job[j].driverId]_vars

\* While the process stays up, an offer stays open for ever only if a query of its
\* own timer was rejected: declines and other searches for the job may fail half-way.
OffersEnd ==
    \A j \in Job : job[j].status = "MATCHING" ~>
        (job[j].status # "MATCHING" \/ restarts > 0 \/ j \in stranded)

\* While the process stays up and the payout's queries succeed, a delivered job
\* ends up paid and rewarded exactly once.
DeliveriesAreSettled ==
    \A j \in Job : books[j].delivered ~>
        ((books[j].payouts = 1 /\ books[j].awards = 1) \/ restarts > 0)

-----------------------------------------------------------------------------
(* The jobs settle as Settlement promises.                                 *)

Settle == INSTANCE Settlement WITH
    Work <- Job,
    earned <- [j \in Job |-> books[j].delivered],
    paid <- [j \in Job |-> books[j].payouts],
    rewarded <- [j \in Job |-> books[j].awards]

\* However many markDelivered calls race with late reports and cancels, a job is
\* paid at most once, for a delivery, and rewarded at most once, after the payout.
SettlesOnce == Settle!Spec
=============================================================================
