------------------------------ MODULE JobsProofs ------------------------------
(***************************************************************************)
(* Proofs of the safety properties of Jobs, and that Jobs implements       *)
(* Settlement, for every set of jobs, drivers and tasks and every value of *)
(* the bounds.                                                             *)
(***************************************************************************)
EXTENDS Jobs, TLAPS

-----------------------------------------------------------------------------
(* The three state machines.                                               *)

LEMMA KindIsOneOfThree ==
  ASSUME NEW kind \in Kinds
  PROVE  kind \in {"DELIVERY", "ERRAND", "FOOD_ORDER"}
  BY JobsAssumption

LEMMA ClaimedIs ==
  /\ Claimed("DELIVERY") = "MATCHED" /\ Claimed("ERRAND") = "ACCEPTED"
  /\ Claimed("FOOD_ORDER") = "ASSIGNED"
  BY DEF Claimed

LEMMA OccupyingIs ==
  /\ Occupying("DELIVERY") = {"MATCHING", "MATCHED", "PICKED_UP", "IN_TRANSIT"}
  /\ Occupying("ERRAND") = {"MATCHING", "ACCEPTED", "SHOPPING", "ON_THE_WAY"}
  /\ Occupying("FOOD_ORDER") = {"MATCHING", "ASSIGNED", "PICKED_UP"}
  BY DEF Occupying

\* How the statuses a job is created, waits and is claimed in lie to each other.
LEMMA KindStatuses ==
  ASSUME NEW kind \in Kinds
  PROVE  /\ {Created(kind), Waiting(kind), Claimed(kind)} \subseteq Status \ {"MATCHING", "NONE"}
         /\ {Waiting(kind), "MATCHING"} \cap ((Occupying(kind) \ {"MATCHING"}) \cup {"DELIVERED"}) = {}
  BY KindIsOneOfThree, ClaimedIs, OccupyingIs DEF Created, Waiting, Status

-----------------------------------------------------------------------------
(* Type correctness.                                                       *)

LEMMA RowUpdates ==
  ASSUME NEW row \in JobRow
  PROVE  /\ row.kind \in Kinds /\ row.isTest \in BOOLEAN
         /\ \A st \in Status : [row EXCEPT !.status = st] \in JobRow
         /\ \A st \in Status, d \in Driver \cup {None} :
               [row EXCEPT !.status = st, !.driverId = d] \in JobRow
  BY DEF JobRow

LEMMA StoreType ==
  ASSUME TypeOK, NEW j \in Job, NEW row \in JobRow, Store(j, row)
  PROVE  job' \in [Job -> JobRow]
  BY DEF TypeOK, Store

LEMMA IdleType == Idle \in TaskState /\ Idle.pc = "idle" /\ ~Idle.unguarded
  BY DEF Idle, TaskState, TaskPC, Status

WellFormed(r) ==
    /\ r.pc # "idle" => r.job \in Job
    /\ r.pc \in AboutADriver => r.driver \in Driver

\* One task moves.
LEMMA TaskMoves ==
  ASSUME TypeOK, NEW k \in Task, NEW r \in TaskState, WellFormed(r), task' = [task EXCEPT ![k] = r]
  PROVE  /\ task' \in [Task -> TaskState]
         /\ \A b \in Task : WellFormed(task'[b])
  BY DEF TypeOK, WellFormed

LEMMA TaskFacts ==
  ASSUME TypeOK, NEW k \in Task
  PROVE  task[k] \in TaskState /\ WellFormed(task[k])
  BY DEF TypeOK, WellFormed

\* The ways in which tasks move.
LEMMA GotoType ==
  ASSUME TypeOK, NEW k \in Task, NEW pc \in TaskPC, task[k].pc # "idle", Goto(k, pc),
         pc \in AboutADriver => task[k].driver \in Driver
  PROVE  /\ task' \in [Task -> TaskState]
         /\ \A b \in Task : WellFormed(task'[b])
<1>1. task[k] \in TaskState /\ WellFormed(task[k])
  BY TaskFacts
<1>2. PICK r : r = [task[k] EXCEPT !.pc = pc]
  OBVIOUS
<1>3. r \in TaskState /\ r.pc = pc /\ r.job = task[k].job /\ r.driver = task[k].driver
  BY <1>1, <1>2 DEF TaskState
<1>4. WellFormed(r)
  BY <1>1, <1>3 DEF WellFormed
<1>5. task' = [task EXCEPT ![k] = r]
  BY <1>2 DEF Goto, TypeOK
<1> QED  BY <1>3, <1>4, <1>5, TaskMoves

LEMMA EndType ==
  ASSUME TypeOK, NEW k \in Task, End(k)
  PROVE  /\ task' \in [Task -> TaskState]
         /\ \A b \in Task : WellFormed(task'[b])
<1>1. WellFormed(Idle)
  BY IdleType DEF WellFormed, AboutADriver
<1> QED  BY <1>1, IdleType, TaskMoves DEF End

LEMMA BeginType ==
  ASSUME TypeOK, NEW k \in Task, NEW pc \in TaskPC \ AboutADriver, NEW j \in Job, Begin(k, pc, j)
  PROVE  /\ task' \in [Task -> TaskState]
         /\ \A b \in Task : WellFormed(task'[b])
<1>1. [Idle EXCEPT !.pc = pc, !.job = j] \in TaskState
  BY IdleType DEF TaskState
<1>2. WellFormed([Idle EXCEPT !.pc = pc, !.job = j])
  BY IdleType DEF WellFormed, TaskState
<1> QED  BY <1>1, <1>2, TaskMoves DEF Begin

LEMMA InitTypeOK == Init => TypeOK
<1> SUFFICES ASSUME Init PROVE TypeOK
  OBVIOUS
<1>1. job \in [Job -> JobRow]
  <2>1. PICK kind \in [Job -> Kinds], isTest \in [Job -> BOOLEAN] :
          job = [j \in Job |-> [kind |-> kind[j], isTest |-> isTest[j],
                                status |-> "NONE", driverId |-> None]]
    BY DEF Init
  <2> QED  BY <2>1 DEF JobRow, Status
<1>2. /\ task \in [Task -> TaskState]
      /\ \A k \in Task : task[k].pc = "idle"
  BY IdleType DEF Init
<1>3. restarts \in 0..MaxRestarts
  BY JobsAssumption DEF Init
<1> QED  BY <1>1, <1>2, <1>3 DEF Init, TypeOK, AboutADriver

\* What TypeOK asks of tasks, in the lemmas' words.
LEMMA TypeFromParts ==
  ASSUME job' \in [Job -> JobRow], excluded' \in [Job -> SUBSET Driver],
         task' \in [Task -> TaskState], \A k \in Task : WellFormed(task'[k]),
         restarts' \in 0..MaxRestarts, stranded' \subseteq Job,
         books' \in [Job -> [delivered : BOOLEAN, payouts : Nat, awards : Nat]]
  PROVE  TypeOK'
  BY DEF TypeOK, WellFormed

\* The parts of TypeOK, to start from.
LEMMA TypeParts ==
  ASSUME TypeOK
  PROVE  /\ job \in [Job -> JobRow] /\ excluded \in [Job -> SUBSET Driver]
         /\ task \in [Task -> TaskState] /\ \A b \in Task : WellFormed(task[b])
         /\ restarts \in 0..MaxRestarts /\ stranded \subseteq Job
         /\ books \in [Job -> [delivered : BOOLEAN, payouts : Nat, awards : Nat]]
  BY TaskFacts DEF TypeOK

LEMMA CreateType ==
  ASSUME TypeOK, NEW j \in Job, NEW kind, Create(j, kind)
  PROVE  job' \in [Job -> JobRow] /\ UNCHANGED <<excluded, restarts, stranded, books>>
<1>1. job[j] \in JobRow
  BY TypeParts
<1>2. kind \in Kinds
  BY <1>1, RowUpdates DEF Create
<1>3. [job[j] EXCEPT !.status = Created(kind)] \in JobRow
  BY <1>1, <1>2, RowUpdates, KindStatuses
<1> QED  BY <1>3, StoreType DEF Create

\* An order that is placed, and the dispatcher's assignment.
LEMMA TasklessTypeOK ==
  ASSUME TypeOK, NEW j \in Job, CreateOrder(j) \/ \E d \in Driver : ManuallyAssign(j, d)
  PROVE  TypeOK'
<1>1. CASE CreateOrder(j)
  BY <1>1, CreateType, TypeParts, TypeFromParts DEF CreateOrder
<1>2. ASSUME NEW d \in Driver, ManuallyAssign(j, d)
      PROVE  TypeOK'
  <2>1. [job[j] EXCEPT !.status = Claimed(job[j].kind), !.driverId = d] \in JobRow
    BY TypeParts, RowUpdates, KindStatuses
  <2>2. job' \in [Job -> JobRow]
    BY <1>2, <2>1, StoreType DEF ManuallyAssign
  <2> QED  BY TypeParts, <1>2, <2>2, TypeFromParts DEF ManuallyAssign
<1> QED  BY <1>1, <1>2

\* Booking, reports and the other calls that begin a task.
LEMMA CallTypeOK ==
  ASSUME TypeOK, NEW j \in Job, NEW k \in Task,
         OwnerCall(k, j) \/ \E d \in Driver : DriverCall(k, j, d)
  PROVE  TypeOK'
<1>0. job[j] \in JobRow
  BY TypeParts
<1>1. CASE CreateDelivery(k, j) \/ CreateErrand(k, j)
  <2>1. Begin(k, "read", j) /\ \E kind : Create(j, kind)
    BY <1>1 DEF CreateDelivery, CreateErrand
  <2>2. "read" \in TaskPC \ AboutADriver
    BY DEF TaskPC, AboutADriver
  <2> QED  BY <2>1, <2>2, CreateType, BeginType, TypeParts, TypeFromParts
<1>2. ASSUME NEW steps, steps \in {DriverSteps, KitchenSteps}, Report(k, j, steps)
      PROVE  TypeOK'
  <2>1. PICK step \in steps :
          /\ task' = [task EXCEPT ![k] = [Idle EXCEPT !.pc = "advancing", !.job = j, !.to = step[3]]]
          /\ UNCHANGED <<job, excluded, restarts, stranded, books>>
    BY <1>2 DEF Report
  <2>2. step[3] \in Status
    BY <1>2 DEF DriverSteps, KitchenSteps, Status
  <2>3. PICK to \in Status : to = step[3]
    BY <2>2
  <2>4. [Idle EXCEPT !.pc = "advancing", !.job = j, !.to = to] \in TaskState
    BY IdleType DEF TaskState, TaskPC
  <2>5. WellFormed([Idle EXCEPT !.pc = "advancing", !.job = j, !.to = to])
    BY IdleType DEF WellFormed, TaskState, AboutADriver
  <2> QED  BY TypeParts, <2>1, <2>3, <2>4, <2>5, TaskMoves, TypeFromParts
<1>3. CASE Cancel(k, j)
  <2>1. "cancelling" \in TaskPC \ AboutADriver
    BY DEF TaskPC, AboutADriver
  <2> QED  BY TypeParts, <1>3, <2>1, BeginType, TypeFromParts DEF Cancel
<1>4. ASSUME NEW d \in Driver, Accept(k, j, d)
      PROVE  TypeOK'
  <2>1. [job[j] EXCEPT !.status = Claimed(job[j].kind)] \in JobRow
    BY <1>0, RowUpdates, KindStatuses
  <2>2. job' \in [Job -> JobRow]
    BY <1>4, <2>1, StoreType DEF Accept
  <2>3. "clearing" \in TaskPC \ AboutADriver
    BY DEF TaskPC, AboutADriver
  <2> QED  BY TypeParts, <1>4, <2>2, <2>3, BeginType, TypeFromParts DEF Accept
<1>5. ASSUME NEW d \in Driver, Decline(k, j, d)
      PROVE  TypeOK'
  <2>1. [Idle EXCEPT !.pc = "excluding", !.job = j, !.driver = d] \in TaskState
    BY IdleType DEF TaskState, TaskPC
  <2>2. WellFormed([Idle EXCEPT !.pc = "excluding", !.job = j, !.driver = d])
    BY IdleType DEF WellFormed, TaskState, AboutADriver
  <2> QED  BY TypeParts, <1>5, <2>1, <2>2, TaskMoves, TypeFromParts DEF Decline
<1>6. ASSUME NEW d \in Driver, MarkDelivered(k, j, d)
      PROVE  TypeOK'
  <2>1. "delivering" \in TaskPC \ AboutADriver
    BY DEF TaskPC, AboutADriver
  <2> QED  BY TypeParts, <1>6, <2>1, BeginType, TypeFromParts DEF MarkDelivered
<1> QED
  BY <1>1, <1>2, <1>3, <1>4, <1>5, <1>6
     DEF OwnerCall, KitchenReports, DriverCall, DriverReports

\* The steps of a task.
LEMMA TaskTypeOK ==
  ASSUME TypeOK, NEW k \in Task, TaskStep(k) \/ TaskFailed(k)
  PROVE  TypeOK'
<1> DEFINE j == task[k].job
           row == job[j]
<1>0. /\ job \in [Job -> JobRow] /\ excluded \in [Job -> SUBSET Driver]
      /\ restarts \in 0..MaxRestarts /\ stranded \subseteq Job
      /\ books \in [Job -> [delivered : BOOLEAN, payouts : Nat, awards : Nat]]
  BY DEF TypeOK
<1>1. task[k] \in TaskState /\ WellFormed(task[k])
  BY TaskFacts
<1>2. task[k].pc # "idle"
  BY JobsAssumption
     DEF TaskStep, TaskFailed, MatchRead, MatchExclusions, MatchSearch, OfferToDriver, OfferTimeout,
         ExcludeDriver, ResetToWaiting, Advance, ClearExclusions, DeliverClaim, RecordPayout,
         AwardDeliveryCompletionPoints, CancelWrite, At
<1>3. j \in Job /\ row \in JobRow
  BY <1>0, <1>1, <1>2 DEF WellFormed
<1>4. \A st \in Status : [row EXCEPT !.status = st] \in JobRow
  BY <1>3, RowUpdates
<1>5. \A d \in Driver \cup {None}, st \in Status : [row EXCEPT !.status = st, !.driverId = d] \in JobRow
  BY <1>3, RowUpdates
<1>6. /\ {Waiting(row.kind), Claimed(row.kind)} \subseteq Status
      /\ {"MATCHING", "DELIVERED", "CANCELLED"} \subseteq Status
  BY <1>3, RowUpdates, KindStatuses DEF Status
<1> HIDE DEF j, row
<1>7. CASE MatchRead(k)
  <2>1. Goto(k, "exclusions") \/ End(k)
    BY <1>7 DEF MatchRead
  <2>2. "exclusions" \in TaskPC \ AboutADriver
    BY DEF TaskPC, AboutADriver
  <2> QED  BY <1>0, <1>2, <1>7, <2>1, <2>2, GotoType, EndType, TypeFromParts DEF MatchRead
<1>8. CASE MatchExclusions(k)
  <2>1. PICK known \in SUBSET Driver : known = excluded[j]
    BY <1>0, <1>3
  <2>2. task' = [task EXCEPT ![k] = [task[k] EXCEPT !.pc = "search", !.known = known]]
    BY <1>8, <2>1 DEF MatchExclusions, TypeOK, j
  <2>3. [task[k] EXCEPT !.pc = "search", !.known = known] \in TaskState
    BY <1>1 DEF TaskState, TaskPC
  <2>4. WellFormed([task[k] EXCEPT !.pc = "search", !.known = known])
    BY <1>1, <1>2 DEF WellFormed, TaskState, AboutADriver
  <2> QED  BY <1>0, <1>8, <2>2, <2>3, <2>4, TaskMoves, TypeFromParts DEF MatchExclusions
<1>9. CASE MatchSearch(k)
  <2>1. ASSUME NEW d \in Driver, task' = [task EXCEPT ![k] = [task[k] EXCEPT !.pc = "offer", !.driver = d]]
        PROVE  TypeOK'
    <3>1. [task[k] EXCEPT !.pc = "offer", !.driver = d] \in TaskState
      BY <1>1 DEF TaskState, TaskPC
    <3>2. WellFormed([task[k] EXCEPT !.pc = "offer", !.driver = d])
      BY <1>1, <1>2 DEF WellFormed, TaskState
    <3> QED  BY <1>0, <1>9, <2>1, <3>1, <3>2, TaskMoves, TypeFromParts DEF MatchSearch
  <2>2. CASE End(k)
    BY <1>0, <1>9, <2>2, EndType, TypeFromParts DEF MatchSearch
  <2>3. \/ End(k)
        \/ \E d \in Driver : task' = [task EXCEPT ![k] = [task[k] EXCEPT !.pc = "offer", !.driver = d]]
    BY <1>9 DEF MatchSearch, Eligible, TypeOK
  <2> QED  BY <2>1, <2>2, <2>3
<1>10. CASE OfferToDriver(k)
  <2>1. job' \in [Job -> JobRow]
    BY <1>1, <1>3, <1>5, <1>6, <1>10, StoreType DEF OfferToDriver, At, WellFormed, AboutADriver, j, row
  <2>2. OfferTimer(k) \in TaskState /\ WellFormed(OfferTimer(k))
    BY <1>1, <1>10 DEF OfferToDriver, At, OfferTimer, TaskState, TaskPC, WellFormed, AboutADriver
  <2> QED  BY <1>0, <1>10, <2>1, <2>2, TaskMoves, TypeFromParts DEF OfferToDriver
<1>11. CASE OfferTimeout(k)
  <2>1. (Goto(k, "excluding") \/ End(k)) /\ task[k].driver \in Driver
    BY <1>1, <1>11 DEF OfferTimeout, At, WellFormed, AboutADriver
  <2>2. "excluding" \in TaskPC
    BY DEF TaskPC
  <2> QED  BY <1>0, <1>2, <1>11, <2>1, <2>2, GotoType, EndType, TypeFromParts DEF OfferTimeout
<1>12. CASE ExcludeDriver(k)
  <2>1. Goto(k, "resetting") /\ task[k].driver \in Driver
    BY <1>1, <1>12 DEF ExcludeDriver, At, WellFormed, AboutADriver
  <2>2. excluded' \in [Job -> SUBSET Driver]
    BY <1>0, <1>3, <1>12, <2>1 DEF ExcludeDriver, j
  <2>3. "resetting" \in TaskPC
    BY DEF TaskPC
  <2> QED  BY <1>0, <1>2, <1>12, <2>1, <2>2, <2>3, GotoType, TypeFromParts DEF ExcludeDriver
<1>13. CASE ResetToWaiting(k)
  <2>1. job' \in [Job -> JobRow]
    BY <1>3, <1>5, <1>6, <1>13, StoreType DEF ResetToWaiting, j, row
  <2>2. "read" \in TaskPC \ AboutADriver
    BY DEF TaskPC, AboutADriver
  <2> QED  BY <1>0, <1>2, <1>13, <2>1, <2>2, GotoType, TypeFromParts DEF ResetToWaiting
<1>14. CASE Advance(k)
  <2>1. job' \in [Job -> JobRow]
    <3>1. task[k].to \in Status
      BY <1>1 DEF TaskState
    <3> QED  BY <1>3, <1>4, <1>14, <3>1, StoreType DEF Advance, j, row
  <2>2. "read" \in TaskPC \ AboutADriver
    BY DEF TaskPC, AboutADriver
  <2>3. Goto(k, "read") \/ End(k)
    BY <1>14 DEF Advance
  <2> QED  BY <1>0, <1>2, <1>14, <2>1, <2>2, <2>3, GotoType, EndType, TypeFromParts DEF Advance
<1>15. CASE ClearExclusions(k)
  BY <1>0, <1>15, EndType, TypeFromParts DEF ClearExclusions
<1>16. CASE DeliverClaim(k)
  <2>1. CASE ClaimsDelivery(j)
    <3>1. job' \in [Job -> JobRow]
      BY <1>3, <1>4, <1>6, <1>16, <2>1, StoreType DEF DeliverClaim, j, row
    <3>2. books' \in [Job -> [delivered : BOOLEAN, payouts : Nat, awards : Nat]]
      <4>1. PICK b \in BOOLEAN : b = (books[j].delivered \/ job[j].status \in Deliverable(job[j].kind))
        OBVIOUS
      <4>2. books' = [books EXCEPT ![j].delivered = b]
        BY <1>16, <2>1, <4>1, Zenon DEF DeliverClaim, j
      <4> QED  BY <1>0, <4>2
    <3>3. "paying" \in TaskPC \ AboutADriver /\ Goto(k, "paying")
      BY <1>16, <2>1 DEF TaskPC, AboutADriver, DeliverClaim, j
    <3> QED  BY <1>0, <1>2, <1>16, <3>1, <3>2, <3>3, GotoType, TypeFromParts DEF DeliverClaim
  <2>2. CASE ~ClaimsDelivery(j)
    BY <1>0, <1>16, <2>2, EndType, TypeFromParts DEF DeliverClaim, j
  <2> QED  BY <2>1, <2>2
<1>17. CASE RecordPayout(k)
  <2>1. CASE AlreadyPaid(j)
    BY <1>0, <1>17, <2>1, EndType, TypeFromParts DEF RecordPayout, j
  <2>2. CASE ~AlreadyPaid(j)
    <3>1. books' = [books EXCEPT ![j].payouts = @ + 1] /\ Goto(k, "awarding")
      BY <1>17, <2>2 DEF RecordPayout, j
    <3>2. books[j].payouts + 1 \in Nat
      BY <1>0, <1>3
    <3>3. books' \in [Job -> [delivered : BOOLEAN, payouts : Nat, awards : Nat]]
      BY <1>0, <1>3, <3>1, <3>2
    <3>4. "awarding" \in TaskPC \ AboutADriver
      BY DEF TaskPC, AboutADriver
    <3> QED  BY <1>0, <1>2, <1>17, <3>1, <3>3, <3>4, GotoType, TypeFromParts DEF RecordPayout
  <2> QED  BY <2>1, <2>2
<1>18. CASE AwardDeliveryCompletionPoints(k)
  <2>1. books' = [books EXCEPT ![j].awards = @ + 1] /\ End(k)
    BY <1>18 DEF AwardDeliveryCompletionPoints, j
  <2>2. books[j].awards + 1 \in Nat
    BY <1>0, <1>3
  <2>3. books' \in [Job -> [delivered : BOOLEAN, payouts : Nat, awards : Nat]]
    BY <1>0, <1>3, <2>1, <2>2
  <2> QED  BY <1>0, <1>18, <2>1, <2>3, EndType, TypeFromParts DEF AwardDeliveryCompletionPoints
<1>19. CASE CancelWrite(k)
  <2>1. job' \in [Job -> JobRow]
    BY <1>3, <1>4, <1>6, <1>19, StoreType DEF CancelWrite, j, row
  <2>2. "clearing" \in TaskPC \ AboutADriver
    BY DEF TaskPC, AboutADriver
  <2> QED  BY <1>0, <1>2, <1>19, <2>1, <2>2, GotoType, TypeFromParts DEF CancelWrite
<1>20. CASE TaskFailed(k)
  <2>1. stranded' \subseteq Job
    BY <1>0, <1>3, <1>20 DEF TaskFailed, j
  <2> QED  BY <1>0, <1>20, <2>1, EndType, TypeFromParts DEF TaskFailed
<1> QED
  BY <1>7, <1>8, <1>9, <1>10, <1>11, <1>12, <1>13, <1>14, <1>15, <1>16, <1>17, <1>18, <1>19, <1>20
     DEF TaskStep

LEMMA StepTypeOK ==
  ASSUME TypeOK, [Next]_vars
  PROVE  TypeOK'
<1>1. CASE Restart
  <2>1. restarts' \in 0..MaxRestarts
    BY <1>1, JobsAssumption DEF Restart, TypeOK
  <2>2. /\ task' \in [Task -> TaskState]
        /\ \A k \in Task : WellFormed(task'[k])
    BY <1>1, IdleType DEF Restart, WellFormed, AboutADriver
  <2> QED  BY <1>1, <2>1, <2>2, TypeFromParts DEF Restart, TypeOK
<1>2. CASE UNCHANGED vars
  BY <1>2 DEF vars, TypeOK
<1> QED  BY <1>1, <1>2, TasklessTypeOK, CallTypeOK, TaskTypeOK DEF Next

LEMMA TypeInvariant == Spec => []TypeOK
<1>1. TypeOK /\ [Next]_vars => TypeOK'
  BY StepTypeOK
<1> QED  BY <1>1, InitTypeOK, PTL DEF Spec

-----------------------------------------------------------------------------
(* What a step may do to a job.                                            *)

\* A report that is under way does not put the job on offer.
ReportsNeverOffer == \A k \in Task : task[k].pc = "advancing" => task[k].to # "MATCHING"

SameJob(j) == job'[j].kind = job[j].kind /\ job'[j].isTest = job[j].isTest

Moves(j) ==
    SameJob(j) /\ job'[j].driverId = job[j].driverId /\ job'[j].status # "MATCHING"

Offers(j) ==
    /\ SameJob(j) /\ job'[j].status = "MATCHING"
    /\ \E k \in Task : /\ task[k].pc = "offer" /\ task[k].job = j
                       /\ job'[j].driverId = task[k].driver
                       /\ task' = [task EXCEPT ![k] = OfferTimer(k)]

Resets(j) ==
    SameJob(j) /\ job'[j].status = Waiting(job[j].kind) /\ job'[j].driverId = None

Assigns(j) ==
    /\ SameJob(j) /\ Looking(j)
    /\ job'[j].status = Claimed(job[j].kind)
    /\ job'[j].driverId \in Driver /\ InFleet(job'[j].driverId, job[j].isTest)

LEMMA StoredRow ==
  ASSUME TypeOK, NEW i \in Job, NEW row, Store(i, row), NEW j \in Job
  PROVE  job'[j] = IF j = i THEN row ELSE job[j]
  BY DEF TypeOK, Store

\* An update that is about the status only.
LEMMA StatusUpdate ==
  ASSUME TypeOK, NEW i \in Job, NEW st \in Status \ {"MATCHING"},
         Store(i, [job[i] EXCEPT !.status = st]), NEW j \in Job
  PROVE  job'[j] = job[j] \/ Moves(j)
<1>1. job[i] \in JobRow
  BY TypeParts
<1>2. job'[j] = IF j = i THEN [job[i] EXCEPT !.status = st] ELSE job[j]
  BY StoredRow
<1> QED  BY <1>1, <1>2 DEF JobRow, Moves, SameJob

LEMMA RowChanges ==
  ASSUME TypeOK, ReportsNeverOffer, [Next]_vars, NEW j \in Job
  PROVE  job'[j] = job[j] \/ Moves(j) \/ Offers(j) \/ Resets(j) \/ Assigns(j)
<1>0. /\ \A i \in Job : job[i] \in JobRow /\ job[i].kind \in Kinds
      /\ \A i \in Job : {Created(job[i].kind), Waiting(job[i].kind), Claimed(job[i].kind)}
                           \subseteq Status \ {"MATCHING"}
      /\ {"DELIVERED", "CANCELLED"} \subseteq Status \ {"MATCHING"}
      /\ \A k \in Task : task[k] \in TaskState /\ WellFormed(task[k])
  BY TypeParts, TaskFacts, RowUpdates, KindStatuses DEF Status
<1>1. ASSUME NEW i \in Job, NEW kind, Create(i, kind)
      PROVE  job'[j] = job[j] \/ Moves(j)
  BY <1>0, <1>1, StatusUpdate DEF Create
<1>2. ASSUME NEW i \in Job, NEW d \in Driver, NEW k \in Task, Accept(k, i, d)
      PROVE  job'[j] = job[j] \/ Moves(j)
  BY <1>0, <1>2, StatusUpdate DEF Accept
<1>3. ASSUME NEW i \in Job, NEW d \in Driver, ManuallyAssign(i, d)
      PROVE  job'[j] = job[j] \/ Assigns(j)
  <2>1. job'[j] = IF j = i THEN [job[i] EXCEPT !.status = Claimed(job[i].kind), !.driverId = d]
                  ELSE job[j]
    BY <1>3, StoredRow DEF ManuallyAssign
  <2>2. InFleet(d, job[i].isTest) /\ Looking(i)
    BY <1>3 DEF ManuallyAssign, Assignable
  <2> QED  BY <1>0, <2>1, <2>2 DEF JobRow, Assigns, SameJob
<1>4. ASSUME NEW k \in Task, OfferToDriver(k)
      PROVE  job'[j] = job[j] \/ Offers(j)
  <2>1. task[k].job \in Job
    BY <1>0, <1>4 DEF OfferToDriver, At, WellFormed
  <2>2. job'[j] = IF j = task[k].job
                  THEN [job[task[k].job] EXCEPT !.status = "MATCHING", !.driverId = task[k].driver]
                  ELSE job[j]
    BY <1>4, <2>1, StoredRow DEF OfferToDriver
  <2> QED  BY <1>0, <1>4, <2>2 DEF OfferToDriver, At, JobRow, Offers, SameJob
<1>5. ASSUME NEW k \in Task, ResetToWaiting(k)
      PROVE  job'[j] = job[j] \/ Resets(j)
  <2>1. task[k].job \in Job
    BY <1>0, <1>5 DEF ResetToWaiting, At, WellFormed
  <2>2. job'[j] = IF j = task[k].job
                  THEN [job[task[k].job] EXCEPT !.status = Waiting(job[task[k].job].kind), !.driverId = None]
                  ELSE job[j]
    BY <1>5, <2>1, StoredRow DEF ResetToWaiting
  <2> QED  BY <1>0, <2>2 DEF JobRow, Resets, SameJob
<1>6. ASSUME NEW k \in Task, Advance(k) \/ DeliverClaim(k) \/ CancelWrite(k)
      PROVE  job'[j] = job[j] \/ Moves(j)
  <2>1. task[k].job \in Job
    BY <1>0, <1>6 DEF Advance, DeliverClaim, CancelWrite, At, WellFormed
  <2>2. CASE Advance(k)
    <3>1. task[k].to \in Status \ {"MATCHING"}
      BY <1>0, <2>2 DEF Advance, At, TaskState, ReportsNeverOffer
    <3> QED  BY <2>1, <2>2, <3>1, StatusUpdate DEF Advance
  <2>3. CASE DeliverClaim(k)
    BY <1>0, <2>1, <2>3, StatusUpdate DEF DeliverClaim
  <2>4. CASE CancelWrite(k)
    BY <1>0, <2>1, <2>4, StatusUpdate DEF CancelWrite
  <2> QED  BY <1>6, <2>2, <2>3, <2>4
<1> QED
  BY <1>1, <1>2, <1>3, <1>4, <1>5, <1>6
     DEF Next, vars, OwnerCall, CreateDelivery, CreateErrand, CreateOrder, KitchenReports, Report,
         Cancel, DriverCall, Decline, DriverReports, MarkDelivered, TaskStep, MatchRead,
         MatchExclusions, MatchSearch, OfferTimeout, ExcludeDriver, ClearExclusions, RecordPayout,
         AwardDeliveryCompletionPoints, TaskFailed, Restart

-----------------------------------------------------------------------------
(* What a step may do to a task.                                           *)

LEMMA OneTaskMoves ==
  ASSUME TypeOK, NEW k \in Task
  PROVE  /\ \A pc : Goto(k, pc) => task'[k] = [task[k] EXCEPT !.pc = pc] /\ task'[k].pc = pc
         /\ End(k) => task'[k] = Idle
         /\ \A pc, j : Begin(k, pc, j) => task'[k].pc = pc
         /\ \A b \in Task \ {k} : /\ \A pc : Goto(k, pc) => task'[b] = task[b]
                                  /\ End(k) => task'[b] = task[b]
                                  /\ \A pc, j : Begin(k, pc, j) => task'[b] = task[b]
<1>1. task[k] \in TaskState /\ Idle \in TaskState
  BY TaskFacts, IdleType
<1> QED  BY <1>1 DEF TypeOK, Goto, End, Begin, TaskState

\* Reports and offers that are under way were begun by Report and MatchSearch.
LEMMA TaskChanges ==
  ASSUME TypeOK, [Next]_vars, NEW k \in Task
  PROVE  \/ task'[k] = task[k]
         \/ task'[k].pc \notin {"advancing", "offer"}
         \/ \E j \in Job : Report(k, j, DriverSteps) \/ Report(k, j, KitchenSteps)
         \/ MatchSearch(k)
<1>0. Idle.pc = "idle"
  BY IdleType
<1>1. ASSUME NEW b \in Task, NEW j \in Job, OwnerCall(b, j) \/ \E d \in Driver : DriverCall(b, j, d)
      PROVE  \/ task'[k] = task[k]
             \/ task'[k].pc \notin {"advancing", "offer"}
             \/ \E i \in Job : Report(k, i, DriverSteps) \/ Report(k, i, KitchenSteps)
  <2>1. CASE CreateDelivery(b, j) \/ CreateErrand(b, j) \/ Cancel(b, j)
    <3>1. Begin(b, "read", j) \/ Begin(b, "cancelling", j)
      BY <2>1 DEF CreateDelivery, CreateErrand, Cancel
    <3> QED  BY <3>1, OneTaskMoves
  <2>2. ASSUME NEW d \in Driver, Accept(b, j, d) \/ MarkDelivered(b, j, d)
        PROVE  task'[k] = task[k] \/ task'[k].pc \notin {"advancing", "offer"}
    <3>1. Begin(b, "clearing", j) \/ Begin(b, "delivering", j)
      BY <2>2 DEF Accept, MarkDelivered
    <3> QED  BY <3>1, OneTaskMoves
  <2>3. ASSUME NEW d \in Driver, Decline(b, j, d)
        PROVE  task'[k] = task[k] \/ task'[k].pc \notin {"advancing", "offer"}
    <3>1. [Idle EXCEPT !.pc = "excluding", !.job = j, !.driver = d].pc = "excluding"
      BY IdleType DEF TaskState
    <3> QED  BY <2>3, <3>1 DEF Decline, TypeOK
  <2>4. ASSUME NEW steps, Report(b, j, steps), k # b
        PROVE  task'[k] = task[k]
    BY <2>4 DEF Report, TypeOK
  <2> QED
    BY <1>1, <2>1, <2>2, <2>3, <2>4 DEF OwnerCall, KitchenReports, DriverCall, DriverReports
<1>2. ASSUME NEW b \in Task, TaskStep(b) \/ TaskFailed(b)
      PROVE  task'[k] = task[k] \/ task'[k].pc \notin {"advancing", "offer"} \/ MatchSearch(k)
  <2>1. CASE MatchExclusions(b)
    <3>1. [task[b] EXCEPT !.pc = "search", !.known = excluded[task[b].job]].pc = "search"
      BY TaskFacts DEF TaskState
    <3> QED  BY <2>1, <3>1 DEF MatchExclusions, TypeOK
  <2>2. CASE OfferToDriver(b)
    <3>1. OfferTimer(b).pc = "timer"
      BY TaskFacts DEF OfferTimer, TaskState
    <3> QED  BY <2>2, <3>1 DEF OfferToDriver, TypeOK
  <2>3. CASE MatchSearch(b)
    BY <2>3, OneTaskMoves DEF MatchSearch, TypeOK
  <2>4. ASSUME NEW pc \in {"exclusions", "excluding", "resetting", "read", "paying", "awarding", "clearing"},
               Goto(b, pc)
        PROVE  task'[k] = task[k] \/ task'[k].pc \notin {"advancing", "offer"}
    BY <2>4, OneTaskMoves
  <2>5. CASE End(b)
    BY <1>0, <2>5, OneTaskMoves
  <2> QED
    BY <1>2, <2>1, <2>2, <2>3, <2>4, <2>5
       DEF TaskStep, MatchRead, OfferTimeout, ExcludeDriver, ResetToWaiting, Advance,
           ClearExclusions, DeliverClaim, RecordPayout, AwardDeliveryCompletionPoints, CancelWrite,
           TaskFailed
<1>3. CASE Restart
  BY <1>0, <1>3 DEF Restart
<1>4. CASE task' = task
  BY <1>4
<1> QED
  BY <1>1, <1>2, <1>3, <1>4 DEF Next, vars, CreateOrder, ManuallyAssign

\* A task that times the offer on a job, and the driver it is for.
Timing(k, j) ==
    /\ task[k].pc \in {"timer", "excluding", "resetting"}
    /\ task[k].job = j /\ task[k].driver = job[j].driverId
    /\ task[k].unguarded

\* It goes on timing it for as long as the offer is open, unless it strands the job.
LEMMA TimersGoOn ==
  ASSUME TypeOK, [Next]_vars, restarts' = restarts, NEW j \in Job, j \notin stranded',
         NEW k \in Task, Timing(k, j),
         job[j].status = "MATCHING", job'[j].status = "MATCHING",
         job'[j].driverId = job[j].driverId
  PROVE  Timing(k, j)'
<1>0. /\ task[k] \in TaskState /\ task[k].pc # "idle" /\ task[k] # Idle
      /\ Idle.pc = "idle"
      /\ job[j] \in JobRow
  BY TaskFacts, TypeParts, IdleType DEF Timing
<1>1. ASSUME NEW pc \in {"excluding", "resetting"}, Goto(k, pc)
      PROVE  Timing(k, j)'
  BY <1>0, <1>1, OneTaskMoves DEF Timing, TaskState
<1>2. CASE OfferTimeout(k)
  <2>1. StillOffered(k)
    BY DEF StillOffered, OfferedTo, Timing
  <2> QED  BY <1>1, <1>2, <2>1 DEF OfferTimeout
<1>3. CASE ExcludeDriver(k)
  BY <1>1, <1>3 DEF ExcludeDriver
<1>4. CASE ResetToWaiting(k)
  <2>1. job'[j] = [job[j] EXCEPT !.status = Waiting(job[j].kind), !.driverId = None]
    BY <1>4, StoredRow DEF ResetToWaiting, Timing
  <2>2. job'[j].status = Waiting(job[j].kind)
    BY <1>0, <2>1 DEF JobRow
  <2> QED  BY <1>0, <2>2, KindStatuses DEF JobRow
<1>5. ASSUME task'[k] = task[k]
      PROVE  Timing(k, j)'
  BY <1>5 DEF Timing
<1>6. ASSUME NEW b \in Task, NEW i \in Job, OwnerCall(b, i) \/ \E d \in Driver : DriverCall(b, i, d)
      PROVE  task'[k] = task[k]
  <2>1. /\ task[b] = Idle
        /\ task' = [task EXCEPT ![b] = task'[b]]
    <3>1. CASE \E pc : Begin(b, pc, i)
      BY <3>1 DEF Begin, TypeOK
    <3>2. ASSUME NEW steps, Report(b, i, steps)
          PROVE  task[b] = Idle /\ task' = [task EXCEPT ![b] = task'[b]]
      BY <3>2 DEF Report, TypeOK
    <3>3. ASSUME NEW d \in Driver, Decline(b, i, d)
          PROVE  task[b] = Idle /\ task' = [task EXCEPT ![b] = task'[b]]
      BY <3>3 DEF Decline, TypeOK
    <3> QED
      BY <1>6, <3>1, <3>2, <3>3
         DEF OwnerCall, CreateDelivery, CreateErrand, KitchenReports, Cancel, DriverCall, Accept,
             DriverReports, MarkDelivered
  <2> QED  BY <1>0, <2>1 DEF TypeOK
<1>7. ASSUME NEW b \in Task, TaskStep(b) \/ TaskFailed(b)
      PROVE  OfferTimeout(k) \/ ExcludeDriver(k) \/ ResetToWaiting(k) \/ task'[k] = task[k]
  <2>1. task' = [task EXCEPT ![b] = task'[b]]
    BY <1>7
       DEF TaskStep, MatchRead, MatchExclusions, MatchSearch, OfferToDriver, OfferTimeout,
           ExcludeDriver, ResetToWaiting, Advance, ClearExclusions, DeliverClaim, RecordPayout,
           AwardDeliveryCompletionPoints, CancelWrite, TaskFailed, Goto, End, TypeOK
  <2>2. CASE b # k
    BY <2>1, <2>2 DEF TypeOK
  <2>3. CASE b = k
    <3>1. ~TaskFailed(k)
      BY DEF TaskFailed, Timing, StillOffered, OfferedTo
    <3> QED
      BY <1>7, <2>3, <3>1
         DEF TaskStep, MatchRead, MatchExclusions, MatchSearch, OfferToDriver, Advance,
             ClearExclusions, DeliverClaim, RecordPayout, AwardDeliveryCompletionPoints,
             CancelWrite, At, Timing
  <2> QED  BY <2>2, <2>3
<1>8. ~Restart
  BY DEF Restart, TypeOK
<1> QED
  BY <1>2, <1>3, <1>4, <1>5, <1>6, <1>7, <1>8 DEF Next, vars, CreateOrder, ManuallyAssign

-----------------------------------------------------------------------------
(* The invariant.                                                          *)

\* The driver a search has chosen is of the job's fleet.
OffersFit ==
    \A k \in Task : task[k].pc = "offer" => InFleet(task[k].driver, job[task[k].job].isTest)

LEMMA OffersFitStep ==
  ASSUME TypeOK, ReportsNeverOffer, OffersFit, [Next]_vars
  PROVE  ReportsNeverOffer' /\ OffersFit'
<1>0. \A j \in Job : job'[j].isTest = job[j].isTest
  BY RowChanges DEF Moves, Offers, Resets, Assigns, SameJob
<1>1. ASSUME NEW k \in Task, task'[k].pc = "advancing"
      PROVE  task'[k].to # "MATCHING"
  <2>1. CASE task'[k] = task[k]
    BY <1>1, <2>1 DEF ReportsNeverOffer
  <2>2. ASSUME NEW j \in Job, NEW steps \in {DriverSteps, KitchenSteps}, Report(k, j, steps)
        PROVE  task'[k].to # "MATCHING"
    <3>1. PICK step \in steps :
             task' = [task EXCEPT ![k] = [Idle EXCEPT !.pc = "advancing", !.job = j, !.to = step[3]]]
      BY <2>2 DEF Report
    <3>2. PICK to \in Status : to = step[3] /\ to # "MATCHING"
      BY DEF DriverSteps, KitchenSteps, Status
    <3>3. task'[k] = [Idle EXCEPT !.pc = "advancing", !.job = j, !.to = to]
      BY <3>1, <3>2 DEF TypeOK
    <3> QED  BY <3>2, <3>3, IdleType DEF TaskState
  <2>3. CASE MatchSearch(k)
    <3>1. task'[k] = Idle \/ \E d \in Driver : task'[k] = [task[k] EXCEPT !.pc = "offer", !.driver = d]
      BY <2>3, OneTaskMoves DEF MatchSearch, Eligible, TypeOK
    <3>2. task'[k].pc \in {"idle", "offer"}
      BY <3>1, IdleType, TaskFacts DEF TaskState
    <3> QED  BY <1>1, <3>2
  <2> QED  BY <1>1, <2>1, <2>2, <2>3, TaskChanges
<1>2. ASSUME NEW k \in Task, task'[k].pc = "offer"
      PROVE  InFleet(task'[k].driver, job'[task'[k].job].isTest)
  <2>1. CASE task'[k] = task[k]
    <3>1. task[k].job \in Job
      BY <1>2, <2>1, TaskFacts DEF WellFormed
    <3> QED  BY <1>0, <1>2, <2>1, <3>1 DEF OffersFit, InFleet
  <2>2. ASSUME NEW j \in Job, NEW steps, Report(k, j, steps)
        PROVE  FALSE
    <3>1. PICK step \in steps :
             task' = [task EXCEPT ![k] = [Idle EXCEPT !.pc = "advancing", !.job = j, !.to = step[3]]]
      BY <2>2 DEF Report
    <3>2. task'[k].pc = "advancing"
      BY <3>1, IdleType DEF TypeOK, TaskState
    <3> QED  BY <1>2, <3>2
  <2>3. CASE MatchSearch(k)
    <3>1. task[k].job \in Job /\ task[k] \in TaskState /\ job' = job
      BY <2>3, TaskFacts DEF MatchSearch, At, WellFormed
    <3>2. ~End(k)
      BY <1>2, OneTaskMoves, IdleType
    <3>3. PICK d \in Driver : /\ task'[k] = [task[k] EXCEPT !.pc = "offer", !.driver = d]
                             /\ InFleet(d, job[task[k].job].isTest)
      BY <2>3, <3>2 DEF MatchSearch, Eligible, TypeOK
    <3>4. task'[k].driver = d /\ task'[k].job = task[k].job
      BY <3>1, <3>3 DEF TaskState
    <3> QED  BY <3>1, <3>3, <3>4
  <2> QED  BY <1>2, <2>1, <2>2, <2>3, TaskChanges
<1> QED  BY <1>1, <1>2 DEF ReportsNeverOffer, OffersFit

LEMMA NoRestart ==
  ASSUME TypeOK, [Next]_vars, restarts' = 0
  PROVE  restarts = 0 /\ restarts' = restarts
<1>1. restarts \in Nat
  BY JobsAssumption DEF TypeOK
<1>2. CASE Restart
  BY <1>1, <1>2 DEF Restart
<1>3. restarts' = restarts \/ Restart
  BY DEF Next, vars, OwnerCall, CreateDelivery, CreateErrand, Create, KitchenReports, Report, Cancel,
         CreateOrder, DriverCall, Accept, Decline, DriverReports, MarkDelivered, ManuallyAssign,
         TaskStep, MatchRead, MatchExclusions, MatchSearch, OfferToDriver, OfferTimeout,
         ExcludeDriver, ResetToWaiting, Advance, ClearExclusions, DeliverClaim, RecordPayout,
         AwardDeliveryCompletionPoints, CancelWrite, TaskFailed
<1> QED  BY <1>2, <1>3

\* Only a new offer makes good for a timer that was lost.
LEMMA StrandedStays ==
  ASSUME TypeOK, [Next]_vars, NEW j \in stranded
  PROVE  j \in stranded' \/ Offers(j)
<1>1. ASSUME NEW k \in Task, OfferToDriver(k)
      PROVE  j \in stranded' \/ Offers(j)
  <2>1. CASE task[k].job = j
    <3>1. j \in Job
      BY TypeParts
    <3>2. task[k].pc = "offer" /\ job' = [job EXCEPT ![j] =
             [job[j] EXCEPT !.status = "MATCHING", !.driverId = task[k].driver]]
      BY <1>1, <2>1 DEF OfferToDriver, At, Store
    <3> QED  BY <1>1, <2>1, <3>1, <3>2, TypeParts DEF Offers, OfferToDriver, JobRow, SameJob
  <2>2. CASE task[k].job # j
    BY <1>1, <2>2 DEF OfferToDriver
  <2> QED  BY <2>1, <2>2
<1>2. ASSUME NEW k \in Task, TaskFailed(k)
      PROVE  j \in stranded'
  BY <1>2 DEF TaskFailed
<1> QED
  BY <1>1, <1>2
     DEF Next, vars, OwnerCall, CreateDelivery, CreateErrand, Create, KitchenReports, Report, Cancel,
         CreateOrder, DriverCall, Accept, Decline, DriverReports, MarkDelivered, ManuallyAssign,
         TaskStep, MatchRead, MatchExclusions, MatchSearch, OfferTimeout, ExcludeDriver,
         ResetToWaiting, Advance, ClearExclusions, DeliverClaim, RecordPayout,
         AwardDeliveryCompletionPoints, CancelWrite, Restart

LEMMA OpenOfferStep ==
  ASSUME TypeOK, ReportsNeverOffer, OpenOfferIsTimed, [Next]_vars
  PROVE  OpenOfferIsTimed'
<1> SUFFICES ASSUME NEW j \in Job, job'[j].status = "MATCHING"
             PROVE  /\ job'[j].driverId # None
                    /\ restarts' = 0 /\ j \notin stranded' => \E k \in Task : Timing(k, j)'
  BY DEF OpenOfferIsTimed, Timing
<1>0. job[j] \in JobRow /\ job[j].kind \in Kinds
  BY TypeParts, RowUpdates
<1>1. CASE job'[j] = job[j] /\ ~Offers(j)
  <2>1. job'[j].driverId # None
    BY <1>1 DEF OpenOfferIsTimed
  <2>2. ASSUME restarts' = 0, j \notin stranded'
        PROVE  \E k \in Task : Timing(k, j)'
    <3>1. restarts = 0 /\ restarts' = restarts
      BY <2>2, NoRestart
    <3>2. j \notin stranded
      BY <1>1, <2>2, StrandedStays
    <3>3. PICK k \in Task : Timing(k, j)
      BY <1>1, <3>1, <3>2 DEF OpenOfferIsTimed, Timing
    <3> QED  BY <1>1, <2>2, <3>1, <3>3, TimersGoOn
  <2> QED  BY <2>1, <2>2
<1>2. CASE Offers(j)
  <2>1. PICK k \in Task : /\ task[k].pc = "offer" /\ task[k].job = j
                         /\ job'[j].driverId = task[k].driver
                         /\ task'[k] = OfferTimer(k)
    BY <1>2 DEF Offers, TypeOK
  <2>2. task[k] \in TaskState /\ task[k].driver \in Driver
    BY <2>1, TaskFacts DEF WellFormed, AboutADriver
  <2>3. /\ task'[k].pc = "timer" /\ task'[k].job = j
        /\ task'[k].driver = task[k].driver /\ task'[k].unguarded
    BY <2>1, <2>2 DEF OfferTimer, TaskState
  <2> QED  BY <2>1, <2>2, <2>3, JobsAssumption DEF Timing
<1>3. ~(Moves(j) \/ Resets(j) \/ Assigns(j))
  BY <1>0, KindStatuses DEF Moves, Resets, Assigns
<1> QED  BY <1>1, <1>2, <1>3, RowChanges

LEMMA FleetsStep ==
  ASSUME TypeOK, ReportsNeverOffer, OffersFit, FleetsAreSegregated, [Next]_vars
  PROVE  FleetsAreSegregated'
<1> SUFFICES ASSUME NEW j \in Job, job'[j].driverId # None
             PROVE  InFleet(job'[j].driverId, job'[j].isTest)
  BY DEF FleetsAreSegregated, InFleet
<1>1. job'[j].isTest = job[j].isTest
  BY RowChanges DEF Moves, Offers, Resets, Assigns, SameJob
<1> QED
  BY <1>1, RowChanges DEF Moves, Offers, Resets, Assigns, FleetsAreSegregated, OffersFit

-----------------------------------------------------------------------------
JobsInv == TypeOK /\ ReportsNeverOffer /\ OffersFit /\ OpenOfferIsTimed /\ FleetsAreSegregated

LEMMA JobsInvariant == Spec => []JobsInv
<1>1. Init => JobsInv
  <2> SUFFICES ASSUME Init PROVE JobsInv
    OBVIOUS
  <2>1. \A j \in Job : job[j].status = "NONE" /\ job[j].driverId = None
    BY DEF Init
  <2>2. \A k \in Task : task[k].pc = "idle"
    BY IdleType DEF Init
  <2> QED
    BY <2>1, <2>2, InitTypeOK
       DEF JobsInv, ReportsNeverOffer, OffersFit, OpenOfferIsTimed, FleetsAreSegregated
<1>2. JobsInv /\ [Next]_vars => JobsInv'
  BY StepTypeOK, OffersFitStep, OpenOfferStep, FleetsStep DEF JobsInv
<1> QED  BY <1>1, <1>2, PTL DEF Spec

\* Every reachable state of Jobs is well typed, for any jobs of the three kinds, any
\* drivers and any number of searches, timers and requests in flight.
THEOREM TypeCorrect == Spec => []TypeOK
  BY JobsInvariant, PTL DEF JobsInv

\* A job on offer (offerToDriver) names the driver who is asked, and the timer of that
\* very offer goes on, beside the searches and timers of earlier offers that a decline
\* leaves behind; only a restart, or a rejected query of its own, loses it.
THEOREM OffersAreTimed == Spec => []OpenOfferIsTimed
  BY JobsInvariant, PTL DEF JobsInv

\* A reviewer's job is only ever offered to, given to or won by the review fleet, and a
\* customer's by real drivers, through the search, accept and manuallyAssign alike.
THEOREM FleetsStayApart == Spec => []FleetsAreSegregated
  BY JobsInvariant, PTL DEF JobsInv

\* No step of any handler replaces the driver of a job that is claimed, under way or
\* delivered in place: accept and manuallyAssign take only a job that nobody has, and an
\* offer puts the job back on offer.
THEOREM MatchesAreNotStomped == Spec => MatchIsNotStomped
<1>1. ASSUME JobsInv, [Next]_vars, NEW j \in Job, Taken(job[j]), Taken(job'[j])
      PROVE  job'[j].driverId = job[j].driverId
  <2>1. /\ job[j].kind \in Kinds
        /\ {Waiting(job[j].kind), "MATCHING"}
              \cap ((Occupying(job[j].kind) \ {"MATCHING"}) \cup {"DELIVERED"}) = {}
    BY <1>1, TypeParts, RowUpdates, KindStatuses DEF JobsInv
  <2> QED
    BY <1>1, <2>1, RowChanges
       DEF JobsInv, Moves, Offers, Resets, Assigns, SameJob, Taken, Looking
<1>2. JobsInv /\ [Next]_vars =>
         [\A j \in Job : Taken(job[j]) /\ Taken(job'[j]) => job'[j].driverId = job[j].driverId]_vars
  BY <1>1
<1> QED  BY <1>2, JobsInvariant, PTL DEF Spec, MatchIsNotStomped

-----------------------------------------------------------------------------
(* Jobs implements Settlement.                                             *)

\* A step settles a job only through the claim, the payout and the award.
LEMMA SettlingSteps ==
  ASSUME TypeOK, [Next]_vars
  PROVE  \/ \E k \in Task : DeliverClaim(k) \/ RecordPayout(k) \/ AwardDeliveryCompletionPoints(k)
         \/ /\ books' = books
            /\ \A k \in Task : task'[k].pc \in {"paying", "awarding"} => task'[k] = task[k]
<1>0. Idle.pc = "idle"
  BY IdleType
<1>1. ASSUME NEW b \in Task, NEW j \in Job, OwnerCall(b, j) \/ \E d \in Driver : DriverCall(b, j, d)
      PROVE  /\ books' = books
             /\ \A k \in Task : task'[k].pc \in {"paying", "awarding"} => task'[k] = task[k]
  <2>1. ASSUME NEW pc \in {"read", "cancelling", "clearing", "delivering"}, Begin(b, pc, j)
        PROVE  \A k \in Task : task'[k].pc \in {"paying", "awarding"} => task'[k] = task[k]
    BY <2>1, OneTaskMoves
  <2>2. ASSUME NEW d \in Driver, Decline(b, j, d)
        PROVE  \A k \in Task : task'[k].pc \in {"paying", "awarding"} => task'[k] = task[k]
    <3>1. [Idle EXCEPT !.pc = "excluding", !.job = j, !.driver = d].pc = "excluding"
      BY IdleType DEF TaskState
    <3> QED  BY <2>2, <3>1 DEF Decline, TypeOK
  <2>3. ASSUME NEW steps \in {DriverSteps, KitchenSteps}, Report(b, j, steps)
        PROVE  \A k \in Task : task'[k].pc \in {"paying", "awarding"} => task'[k] = task[k]
    <3>1. PICK step \in steps :
             task' = [task EXCEPT ![b] = [Idle EXCEPT !.pc = "advancing", !.job = j, !.to = step[3]]]
      BY <2>3 DEF Report
    <3>2. task'[b].pc = "advancing"
      BY <3>1, IdleType DEF TypeOK, TaskState
    <3> QED  BY <3>1, <3>2 DEF TypeOK
  <2>4. \/ \E pc \in {"read", "cancelling", "clearing", "delivering"} : Begin(b, pc, j)
        \/ \E d \in Driver : Decline(b, j, d)
        \/ \E steps \in {DriverSteps, KitchenSteps} : Report(b, j, steps)
    BY <1>1 DEF OwnerCall, CreateDelivery, CreateErrand, KitchenReports, Cancel, DriverCall, Accept,
                DriverReports, MarkDelivered
  <2>5. books' = books
    BY <1>1 DEF OwnerCall, CreateDelivery, CreateErrand, Create, KitchenReports, Report, Cancel,
                DriverCall, Accept, Decline, DriverReports, MarkDelivered
  <2> QED  BY <2>1, <2>2, <2>3, <2>4, <2>5
<1>2. ASSUME NEW b \in Task, TaskStep(b) \/ TaskFailed(b),
             ~(DeliverClaim(b) \/ RecordPayout(b) \/ AwardDeliveryCompletionPoints(b))
      PROVE  /\ books' = books
             /\ \A k \in Task : task'[k].pc \in {"paying", "awarding"} => task'[k] = task[k]
  <2>1. task' = [task EXCEPT ![b] = task'[b]] /\ books' = books
    BY <1>2
       DEF TaskStep, MatchRead, MatchExclusions, MatchSearch, OfferToDriver, OfferTimeout,
           ExcludeDriver, ResetToWaiting, Advance, ClearExclusions, CancelWrite, TaskFailed, Goto,
           End, TypeOK
  <2>2. CASE MatchExclusions(b) \/ MatchSearch(b) \/ OfferToDriver(b)
    <3>1. task[b] \in TaskState
      BY TaskFacts
    <3>2. \/ task'[b] = [task[b] EXCEPT !.pc = "search", !.known = excluded[task[b].job]]
          \/ \E d : task'[b] = [task[b] EXCEPT !.pc = "offer", !.driver = d]
          \/ task'[b] = Idle
          \/ task'[b] = OfferTimer(b)
      BY <2>2 DEF MatchExclusions, MatchSearch, OfferToDriver, End, TypeOK
    <3>3. task'[b].pc \in {"search", "offer", "idle", "timer"}
      BY <1>0, <3>1, <3>2 DEF OfferTimer, TaskState
    <3> QED  BY <2>1, <3>3 DEF TypeOK
  <2>3. ASSUME NEW pc \in {"exclusions", "excluding", "resetting", "read", "clearing"}, Goto(b, pc)
        PROVE  \A k \in Task : task'[k].pc \in {"paying", "awarding"} => task'[k] = task[k]
    BY <2>3, OneTaskMoves
  <2>4. CASE End(b)
    <3>1. task'[b] = Idle
      BY <2>4, OneTaskMoves
    <3> QED  BY <1>0, <2>1, <3>1 DEF TypeOK
  <2> QED
    BY <1>2, <2>1, <2>2, <2>3, <2>4
       DEF TaskStep, MatchRead, OfferTimeout, ExcludeDriver, ResetToWaiting, Advance,
           ClearExclusions, CancelWrite, TaskFailed
<1>3. CASE Restart
  BY <1>0, <1>3 DEF Restart
<1>4. CASE UNCHANGED <<task, books>>
  BY <1>4
<1> QED
  BY <1>1, <1>2, <1>3, <1>4 DEF Next, vars, CreateOrder, Create, ManuallyAssign

\* At most one payout of a job, for a delivery, and at most one award, after the payout;
\* and at most one markDelivered is between the two.
SettleInv ==
    /\ \A j \in Job :
          /\ books[j].payouts \in {0, 1} /\ books[j].awards \in {0, 1}
          /\ books[j].payouts = 1 => books[j].delivered
          /\ books[j].awards = 1 => books[j].payouts = 1
    /\ \A k \in Task : task[k].pc = "paying" => books[task[k].job].delivered
    /\ \A k \in Task : task[k].pc = "awarding" =>
                          books[task[k].job].payouts = 1 /\ books[task[k].job].awards = 0
    /\ \A k, b \in Task :
          task[k].pc = "awarding" /\ task[b].pc = "awarding" /\ task[k].job = task[b].job => k = b

\* What the three steps do, in one form.
LEMMA SettlingEffects ==
  ASSUME TypeOK, SettleInv, NEW k \in Task,
         DeliverClaim(k) \/ RecordPayout(k) \/ AwardDeliveryCompletionPoints(k)
  PROVE  LET j == task[k].job IN
         /\ j \in Job
         /\ \A b \in Task \ {k} : task'[b] = task[b]
         /\ \A i \in Job \ {j} : books'[i] = books[i]
         /\ books' \in [Job -> [delivered : BOOLEAN, payouts : Nat, awards : Nat]]
         /\ \/ task'[k].pc = "idle" /\ books' = books
            \/ /\ task'[k].pc = "paying" /\ task'[k].job = j
               /\ books'[j].delivered
               /\ books'[j].payouts = books[j].payouts /\ books'[j].awards = books[j].awards
            \/ /\ task[k].pc = "paying" /\ task'[k].pc = "awarding" /\ task'[k].job = j
               /\ books[j].payouts = 0 /\ books'[j].payouts = 1
               /\ books'[j].delivered = books[j].delivered /\ books'[j].awards = books[j].awards
            \/ /\ task[k].pc = "awarding" /\ task'[k].pc = "idle"
               /\ books[j].payouts = 1 /\ books[j].awards = 0
               /\ books'[j].awards = 1
               /\ books'[j].delivered = books[j].delivered /\ books'[j].payouts = books[j].payouts
<1> DEFINE j == task[k].job
<1>0. /\ j \in Job /\ task[k] \in TaskState
      /\ books \in [Job -> [delivered : BOOLEAN, payouts : Nat, awards : Nat]]
      /\ books' \in [Job -> [delivered : BOOLEAN, payouts : Nat, awards : Nat]]
  BY TaskFacts, TypeParts, TaskTypeOK
     DEF DeliverClaim, RecordPayout, AwardDeliveryCompletionPoints, At, WellFormed, TaskStep, TypeOK
<1>1. \A b \in Task \ {k} : task'[b] = task[b]
  BY OneTaskMoves DEF DeliverClaim, RecordPayout, AwardDeliveryCompletionPoints
<1>2. ASSUME End(k), books' = books
      PROVE  task'[k].pc = "idle" /\ books' = books
  BY <1>2, OneTaskMoves, IdleType
<1>3. ASSUME NEW pc, Goto(k, pc)
      PROVE  task'[k].pc = pc /\ task'[k].job = j
  BY <1>0, <1>3, OneTaskMoves DEF TaskState
<1>4. CASE DeliverClaim(k)
  <2>1. CASE ClaimsDelivery(j)
    <3>1. Goto(k, "paying") /\ job[j].status \in Deliverable(job[j].kind)
      BY <1>4, <2>1 DEF DeliverClaim, ClaimsDelivery
    <3>2. books' = [books EXCEPT ![j].delivered = TRUE]
      BY <1>4, <2>1, <3>1 DEF DeliverClaim
    <3>3. /\ books'[j].delivered
          /\ books'[j].payouts = books[j].payouts /\ books'[j].awards = books[j].awards
          /\ \A i \in Job \ {j} : books'[i] = books[i]
      BY <1>0, <3>2
    <3>4. task'[k].pc = "paying" /\ task'[k].job = j
      BY <1>3, <3>1
    <3> QED  BY <1>0, <1>1, <3>3, <3>4
  <2>2. CASE ~ClaimsDelivery(j)
    BY <1>0, <1>1, <1>2, <1>4, <2>2 DEF DeliverClaim
  <2> QED  BY <2>1, <2>2
<1>5. CASE RecordPayout(k)
  <2>1. CASE AlreadyPaid(j)
    BY <1>0, <1>1, <1>2, <1>5, <2>1 DEF RecordPayout
  <2>2. CASE ~AlreadyPaid(j)
    <3>1. books[j].payouts = 0
      BY <1>0, <2>2 DEF AlreadyPaid, SettleInv
    <3>2. books' = [books EXCEPT ![j].payouts = 1] /\ Goto(k, "awarding") /\ task[k].pc = "paying"
      BY <1>5, <2>2, <3>1 DEF RecordPayout, At
    <3>3. /\ books'[j].payouts = 1
          /\ books'[j].delivered = books[j].delivered /\ books'[j].awards = books[j].awards
          /\ \A i \in Job \ {j} : books'[i] = books[i]
      BY <1>0, <3>2
    <3> QED  BY <1>0, <1>1, <1>3, <3>1, <3>2, <3>3
  <2> QED  BY <2>1, <2>2
<1>6. CASE AwardDeliveryCompletionPoints(k)
  <2>1. task[k].pc = "awarding" /\ books[j].payouts = 1 /\ books[j].awards = 0
    BY <1>6 DEF AwardDeliveryCompletionPoints, At, SettleInv
  <2>2. books' = [books EXCEPT ![j].awards = 1] /\ End(k)
    BY <1>6, <2>1 DEF AwardDeliveryCompletionPoints
  <2>3. /\ books'[j].awards = 1
        /\ books'[j].delivered = books[j].delivered /\ books'[j].payouts = books[j].payouts
        /\ \A i \in Job \ {j} : books'[i] = books[i]
    BY <1>0, <2>2
  <2>4. task'[k].pc = "idle"
    BY <2>2, OneTaskMoves, IdleType
  <2> QED  BY <1>0, <1>1, <2>1, <2>3, <2>4
<1> QED  BY <1>4, <1>5, <1>6

LEMMA SettleStep ==
  ASSUME TypeOK, SettleInv, [Next]_vars
  PROVE  SettleInv' /\ [Settle!Next]_Settle!vars
<1>0. /\ \A b \in Task : task[b].pc \in {"paying", "awarding"} => task[b].job \in Job
      /\ books \in [Job -> [delivered : BOOLEAN, payouts : Nat, awards : Nat]]
  BY TypeParts DEF WellFormed
<1>1. ASSUME books' = books,
             \A k \in Task : task'[k].pc \in {"paying", "awarding"} => task'[k] = task[k]
      PROVE  SettleInv' /\ [Settle!Next]_Settle!vars
  BY <1>1 DEF SettleInv, Settle!vars
<1>2. ASSUME NEW k \in Task, DeliverClaim(k) \/ RecordPayout(k) \/ AwardDeliveryCompletionPoints(k)
      PROVE  SettleInv' /\ [Settle!Next]_Settle!vars
  <2>0. PICK j : j = task[k].job
    OBVIOUS
  <2>1. /\ j \in Job
        /\ \A b \in Task \ {k} : task'[b] = task[b]
        /\ \A i \in Job \ {j} : books'[i] = books[i]
        /\ books' \in [Job -> [delivered : BOOLEAN, payouts : Nat, awards : Nat]]
    BY <1>2, <2>0, SettlingEffects
  <2>2. CASE task'[k].pc = "idle" /\ books' = books
    BY <2>1, <2>2, <1>1
  <2>3. CASE /\ task'[k].pc = "paying" /\ task'[k].job = j
             /\ books'[j].delivered
             /\ books'[j].payouts = books[j].payouts /\ books'[j].awards = books[j].awards
    <3>1. SettleInv'
      <4>1. ASSUME NEW i \in Job
            PROVE  /\ books'[i].payouts \in {0, 1} /\ books'[i].awards \in {0, 1}
                   /\ books'[i].payouts = 1 => books'[i].delivered
                   /\ books'[i].awards = 1 => books'[i].payouts = 1
        BY <1>0, <2>0, <2>1, <2>3 DEF SettleInv
      <4>2. ASSUME NEW b \in Task, task'[b].pc = "paying"
            PROVE  books'[task'[b].job].delivered
        BY <4>2, <1>0, <2>0, <2>1, <2>3 DEF SettleInv
      <4>3. ASSUME NEW b \in Task, task'[b].pc = "awarding"
            PROVE  books'[task'[b].job].payouts = 1 /\ books'[task'[b].job].awards = 0
        BY <4>3, <1>0, <2>0, <2>1, <2>3 DEF SettleInv
      <4>4. ASSUME NEW b \in Task, NEW c \in Task, task'[b].pc = "awarding",
                   task'[c].pc = "awarding", task'[b].job = task'[c].job
            PROVE  b = c
        BY <4>4, <1>0, <2>0, <2>1, <2>3 DEF SettleInv
      <4> QED  BY <4>1, <4>2, <4>3, <4>4 DEF SettleInv
    <3>2. CASE books[j].delivered
      <4>1. \A i \in Job : /\ books'[i].delivered = books[i].delivered
                          /\ books'[i].payouts = books[i].payouts
                          /\ books'[i].awards = books[i].awards
        BY <1>0, <2>1, <2>3, <3>2
      <4> QED  BY <3>1, <4>1 DEF Settle!vars
    <3>3. CASE ~books[j].delivered
      <4>1. [i \in Job |-> books'[i].delivered]
               = [[i \in Job |-> books[i].delivered] EXCEPT ![j] = TRUE]
        BY <1>0, <2>1, <2>3
      <4>2. /\ [i \in Job |-> books'[i].payouts] = [i \in Job |-> books[i].payouts]
            /\ [i \in Job |-> books'[i].awards] = [i \in Job |-> books[i].awards]
        BY <2>1, <2>3
      <4>3. Settle!Earn(j)
        BY <2>1, <3>3, <4>1, <4>2 DEF Settle!Earn
      <4>4. Settle!Next
        BY <2>1, <4>3 DEF Settle!Next
      <4> QED  BY <3>1, <4>4
    <3> QED  BY <3>2, <3>3
  <2>4. CASE /\ task[k].pc = "paying" /\ task'[k].pc = "awarding" /\ task'[k].job = j
             /\ books[j].payouts = 0 /\ books'[j].payouts = 1
             /\ books'[j].delivered = books[j].delivered /\ books'[j].awards = books[j].awards
    <3>1. books[j].delivered /\ books[j].awards = 0
      BY <2>0, <2>1, <2>4 DEF SettleInv
    <3>2. SettleInv'
      <4>1. ASSUME NEW i \in Job
            PROVE  /\ books'[i].payouts \in {0, 1} /\ books'[i].awards \in {0, 1}
                   /\ books'[i].payouts = 1 => books'[i].delivered
                   /\ books'[i].awards = 1 => books'[i].payouts = 1
        BY <1>0, <2>0, <2>1, <2>4, <3>1 DEF SettleInv
      <4>2. ASSUME NEW b \in Task, task'[b].pc = "paying"
            PROVE  books'[task'[b].job].delivered
        <5>1. b # k /\ task'[b] = task[b] /\ task[b].job \in Job
          BY <4>2, <1>0, <2>1, <2>4
        <5>2. CASE task[b].job = j
          BY <2>4, <3>1, <5>1, <5>2
        <5>3. CASE task[b].job # j
          BY <4>2, <2>1, <5>1, <5>3 DEF SettleInv
        <5> QED  BY <5>2, <5>3
      <4>3. ASSUME NEW b \in Task, task'[b].pc = "awarding"
            PROVE  books'[task'[b].job].payouts = 1 /\ books'[task'[b].job].awards = 0
        BY <4>3, <1>0, <2>0, <2>1, <2>4, <3>1 DEF SettleInv
      <4>4. ASSUME NEW b \in Task, NEW c \in Task, task'[b].pc = "awarding",
                   task'[c].pc = "awarding", task'[b].job = task'[c].job
            PROVE  b = c
        BY <4>4, <1>0, <2>0, <2>1, <2>4, <3>1 DEF SettleInv
      <4> QED  BY <4>1, <4>2, <4>3, <4>4 DEF SettleInv
    <3>3. [i \in Job |-> books'[i].payouts] = [[i \in Job |-> books[i].payouts] EXCEPT ![j] = 1]
      BY <2>1, <2>4
    <3>4. /\ [i \in Job |-> books'[i].delivered] = [i \in Job |-> books[i].delivered]
          /\ [i \in Job |-> books'[i].awards] = [i \in Job |-> books[i].awards]
      BY <2>1, <2>4
    <3>5. Settle!Pay(j)
      BY <2>1, <2>4, <3>1, <3>3, <3>4 DEF Settle!Pay
    <3>6. Settle!Next
      BY <2>1, <3>5 DEF Settle!Next
    <3> QED  BY <3>2, <3>6
  <2>5. CASE /\ task[k].pc = "awarding" /\ task'[k].pc = "idle"
             /\ books[j].payouts = 1 /\ books[j].awards = 0
             /\ books'[j].awards = 1
             /\ books'[j].delivered = books[j].delivered /\ books'[j].payouts = books[j].payouts
    <3>1. \A b \in Task \ {k} : task[b].pc = "awarding" => task[b].job # j
      BY <2>0, <2>5 DEF SettleInv
    <3>2. SettleInv'
      BY <1>0, <2>0, <2>1, <2>5, <3>1 DEF SettleInv
    <3>3. [i \in Job |-> books'[i].awards] = [[i \in Job |-> books[i].awards] EXCEPT ![j] = 1]
      BY <2>1, <2>5
    <3>4. /\ [i \in Job |-> books'[i].delivered] = [i \in Job |-> books[i].delivered]
          /\ [i \in Job |-> books'[i].payouts] = [i \in Job |-> books[i].payouts]
      BY <2>1, <2>5
    <3>5. Settle!Reward(j)
      BY <2>1, <2>5, <3>3, <3>4 DEF Settle!Reward
    <3>6. Settle!Next
      BY <2>1, <3>5 DEF Settle!Next
    <3> QED  BY <3>2, <3>6
  <2> QED  BY <1>2, <2>0, <2>2, <2>3, <2>4, <2>5, SettlingEffects
<1> QED  BY <1>1, <1>2, SettlingSteps

\* Jobs implements Settlement: markDelivered, retried and raced by late reports, cancels
\* and restarts, pays a delivered job at most once and rewards it at most once, after
\* the payout (the claim of DELIVERED lets one call through, recordPayout and the award
\* are that call's own).
THEOREM JobsSettleOnce == Spec => SettlesOnce
<1>1. Init => SettleInv /\ Settle!Init
  <2> SUFFICES ASSUME Init PROVE SettleInv /\ Settle!Init
    OBVIOUS
  <2>1. \A k \in Task : task[k].pc = "idle"
    BY IdleType DEF Init
  <2>2. books = [j \in Job |-> [delivered |-> FALSE, payouts |-> 0, awards |-> 0]]
    BY DEF Init
  <2>3. SettleInv
    BY <2>1, <2>2 DEF SettleInv
  <2>4. Settle!Init
    BY <2>2 DEF Settle!Init
  <2> QED  BY <2>3, <2>4
<1>2. TypeOK /\ SettleInv /\ [Next]_vars => SettleInv' /\ [Settle!Next]_Settle!vars
  BY SettleStep
<1> QED  BY <1>1, <1>2, TypeInvariant, PTL DEF Spec, SettlesOnce, Settle!Spec
=============================================================================
