----------------------------- MODULE TripsProofs -----------------------------
(***************************************************************************)
(* Proofs of the safety properties of Trips, for every set of trips,       *)
(* drivers and requests and every value of the bounds.                     *)
(***************************************************************************)
EXTENDS Trips, FiniteSetTheorems, TLAPS

-----------------------------------------------------------------------------
(* Type correctness.                                                       *)

LEMMA RowTypes == \A isTest \in BOOLEAN : Unbooked(isTest) \in TripRow
  BY TripsAssumption DEF TripRow, Status, Unbooked

LEMMA OfferedRowType ==
  ASSUME NEW row \in TripRow
  PROVE  OfferedRow(row) \in TripRow
<1>0. row.offerCount \in Nat
  BY DEF TripRow
<1>1. PICK n \in Nat : n = row.offerCount + 1
  BY <1>0
<1>2. [row EXCEPT !.status = "MATCHING", !.driverId = None, !.offerCount = n] \in TripRow
  BY DEF TripRow, Status
<1>3. OfferedRow(row) = [row EXCEPT !.status = "MATCHING", !.driverId = None, !.offerCount = n]
  BY <1>1 DEF OfferedRow
<1> QED  BY <1>2, <1>3

\* The other updates of a row.
LEMMA UpdatedRowTypes ==
  ASSUME NEW row \in TripRow
  PROVE  /\ \A st \in Status : [row EXCEPT !.status = st] \in TripRow
         /\ \A d \in Driver :
              [row EXCEPT !.status = "MATCHED", !.driverId = d, !.matchedAt = TRUE] \in TripRow
         /\ [row EXCEPT !.noDriverFoundAt = TRUE] \in TripRow
         /\ [row EXCEPT !.finalFare = TRUE] \in TripRow
         /\ \A b \in BOOLEAN : [row EXCEPT !.opsAlertedAt = TRUE, !.opsEscalatedAt = @ \/ b] \in TripRow
         /\ \A by \in {"RIDER", "DRIVER"}, n \in Nat :
              [row EXCEPT !.status = "CANCELLED", !.cancelledBy = by, !.cancellationFee = n] \in TripRow
  BY DEF TripRow, Status

LEMMA StoreType ==
  ASSUME TypeOK, NEW t \in Trip, NEW row \in TripRow, Store(t, row)
  PROVE  trip' \in [Trip -> TripRow]
  BY DEF TypeOK, Store

LEMMA InitTypeOK == Init => TypeOK
<1> SUFFICES ASSUME Init PROVE TypeOK
  OBVIOUS
<1> USE DEF Init
<1>1. trip \in [Trip -> TripRow]  BY RowTypes
<1>2. matcher \in [Trip -> Matcher]  BY DEF Matcher, MatcherPC, NoMatcher
<1>3. escalation \in [Trip -> [Escalator -> EscalationPC]]  BY DEF EscalationPC
<1>4. req \in [Slot -> Request] /\ \A s \in Slot : WellFormed(req[s])
  BY DEF Request, RequestPC, Idle, WellFormed
<1>5. restarts \in 0..MaxRestarts /\ age \in [Trip -> 0..MaxAge]  BY TripsAssumption
<1>6. books \in [Trip -> [completions : Nat, payouts : Nat, awards : Nat]]  OBVIOUS
<1> QED  BY <1>1, <1>2, <1>3, <1>4, <1>5, <1>6 DEF TypeOK

LEMMA MatcherTypeOK ==
  ASSUME TypeOK, NEW t \in Trip, MatcherStep(t) \/ MatchingFailed(t) \/ OfferRoundFailed(t)
  PROVE  TypeOK'
<1> USE DEF TypeOK, MatcherAt, MatcherTo, history
<1>0. /\ \A pc \in MatcherPC : [matcher EXCEPT ![t].pc = pc] \in [Trip -> Matcher]
      /\ \A m \in Matcher : [matcher EXCEPT ![t] = m] \in [Trip -> Matcher]
      /\ \A pc \in MatcherPC : [NoMatcher EXCEPT !.pc = pc] \in Matcher
      /\ \A pc \in MatcherPC : [matcher[t] EXCEPT !.pc = pc] \in Matcher
      /\ NoMatcher \in Matcher
      /\ matcher[t] \in Matcher
      /\ trip[t] \in TripRow
  <2>1. NoMatcher \in Matcher /\ \A pc \in MatcherPC : [NoMatcher EXCEPT !.pc = pc] \in Matcher
    BY DEF Matcher, MatcherPC, NoMatcher
  <2>2. matcher[t] \in Matcher /\ trip[t] \in TripRow
    OBVIOUS
  <2>3. \A pc \in MatcherPC : [matcher[t] EXCEPT !.pc = pc] \in Matcher
    BY <2>2 DEF Matcher
  <2>4. \A m \in Matcher : [matcher EXCEPT ![t] = m] \in [Trip -> Matcher]
    OBVIOUS
  <2>5. \A pc \in MatcherPC : [matcher EXCEPT ![t].pc = pc] \in [Trip -> Matcher]
    BY <2>2, <2>3, <2>4
  <2> QED  BY <2>1, <2>2, <2>3, <2>4, <2>5
<1>1. CASE MatchRead(t)
  BY <1>0, <1>1 DEF MatchRead, MatcherPC
<1>2. CASE MatchExclusions(t)
  BY <1>2 DEF MatchExclusions, Matcher, MatcherPC
<1>3. CASE MatchSearch(t)
  <2>1. \A best \in SUBSET Driver :
          [matcher[t] EXCEPT !.pc = "offer", !.offered = best] \in Matcher
    BY DEF Matcher, MatcherPC
  <2>2. CASE MatcherTo(t, "nobody")
    BY <1>0, <1>3, <2>2 DEF MatchSearch, MatcherPC
  <2>3. CASE \E best \in SUBSET Eligible(t) : matcher' =
               [matcher EXCEPT ![t] = [@ EXCEPT !.pc = "offer", !.offered = best]]
    <3>1. PICK best \in SUBSET Driver : matcher' =
               [matcher EXCEPT ![t] = [matcher[t] EXCEPT !.pc = "offer", !.offered = best]]
      BY <2>3 DEF Eligible
    <3> QED  BY <1>0, <1>3, <2>1, <3>1 DEF MatchSearch
  <2> QED  BY <1>3, <2>2, <2>3 DEF MatchSearch
<1>4. CASE MatchNobody(t)
  <2>1. trip' \in [Trip -> TripRow]
    BY <1>0, <1>4, StoreType, UpdatedRowTypes DEF MatchNobody
  <2>2. matcher' \in [Trip -> Matcher]
    BY <1>0, <1>4 DEF MatchNobody, MatcherPC
  <2>3. escalation' \in [Trip -> [Escalator -> EscalationPC]]
    BY <1>4 DEF MatchNobody, EscalationPC
  <2> QED  BY <1>4, <2>1, <2>2, <2>3 DEF MatchNobody
<1>5. CASE OfferToDrivers(t)
  <2>1. trip' \in [Trip -> TripRow]
    BY <1>0, <1>5, StoreType, OfferedRowType DEF OfferToDrivers
  <2>2. matcher' \in [Trip -> Matcher]
    BY <1>0, <1>5 DEF OfferToDrivers, MatcherPC
  <2>3. shown' \in [Trip -> SUBSET Driver] /\ lapsed' \in [Trip -> SUBSET Driver]
    BY <1>5 DEF OfferToDrivers, Matcher
  <2> QED  BY <1>5, <2>1, <2>2, <2>3 DEF OfferToDrivers
<1>6. CASE OfferTimeout(t)
  BY <1>0, <1>6 DEF OfferTimeout, MatcherPC
<1>7. CASE ExcludeOffered(t)
  <2>1. CASE MatcherTo(t, "reset") /\ UNCHANGED excluded
    BY <1>0, <1>7, <2>1 DEF ExcludeOffered, MatcherPC
  <2>2. CASE \E d \in ToExclude(t) :
               /\ excluded' = [excluded EXCEPT ![t] = @ \cup {d}]
               /\ matcher' = [matcher EXCEPT ![t].offered = @ \ {d}]
    <3>1. PICK d \in Driver :
               /\ excluded' = [excluded EXCEPT ![t] = @ \cup {d}]
               /\ matcher' = [matcher EXCEPT ![t].offered = @ \ {d}]
      BY <1>0, <2>2 DEF ToExclude, Matcher
    <3>2. matcher' \in [Trip -> Matcher]
      BY <3>1 DEF Matcher
    <3>3. excluded' \in [Trip -> SUBSET Driver]
      BY <3>1
    <3> QED  BY <1>7, <3>2, <3>3 DEF ExcludeOffered
  <2> QED  BY <1>7, <2>1, <2>2 DEF ExcludeOffered
<1>8. CASE ResetToRequested(t)
  <2>1. trip' \in [Trip -> TripRow]
    BY <1>0, <1>8, StoreType, UpdatedRowTypes DEF ResetToRequested, Status
  <2>2. matcher' \in [Trip -> Matcher]
    BY <1>0, <1>8 DEF ResetToRequested, MatcherPC
  <2>3. escalation' \in [Trip -> [Escalator -> EscalationPC]]
    BY <1>8 DEF ResetToRequested, EscalationPC
  <2> QED  BY <1>8, <2>1, <2>2, <2>3 DEF ResetToRequested
<1>9. CASE MatchEscalated(t)
  BY <1>0, <1>9 DEF MatchEscalated, MatcherPC
<1>10. CASE MatchingFailed(t)
  <2>1. escalation' \in [Trip -> [Escalator -> EscalationPC]]
    BY <1>10 DEF MatchingFailed, EscalationPC
  <2> QED  BY <1>0, <1>10, <2>1 DEF MatchingFailed
<1>11. CASE OfferRoundFailed(t)
  <2>1. escalation' \in [Trip -> [Escalator -> EscalationPC]]
    BY <1>11 DEF OfferRoundFailed, EscalationPC
  <2> QED  BY <1>0, <1>11, <2>1 DEF OfferRoundFailed, MatcherPC
<1> QED
  BY <1>1, <1>2, <1>3, <1>4, <1>5, <1>6, <1>7, <1>8, <1>9, <1>10, <1>11 DEF MatcherStep

\* What the three request helpers do to req.
LEMMA RequestTypes ==
  ASSUME TypeOK, NEW s \in Slot
  PROVE  /\ \A pc \in RequestPC, t \in Trip, by \in Driver \cup {Rider}, fee \in Nat :
              Begin(s, pc, t, by, fee) /\ (pc = "declining" => by \in Driver) =>
                req' \in [Slot -> Request] /\ \A r \in Slot : WellFormed(req'[r])
         /\ \A pc \in RequestPC \ {"declining"} :
              Continue(s, pc) /\ req[s].pc # "idle" =>
                req' \in [Slot -> Request] /\ \A r \in Slot : WellFormed(req'[r])
         /\ Finish(s) =>
                req' \in [Slot -> Request] /\ \A r \in Slot : WellFormed(req'[r])
<1> USE DEF TypeOK
<1>0. \A q \in Request : WellFormed(q) =>
        /\ [req EXCEPT ![s] = q] \in [Slot -> Request]
        /\ \A r \in Slot : WellFormed([req EXCEPT ![s] = q][r])
  OBVIOUS
<1>1. Idle \in Request /\ WellFormed(Idle)
  BY DEF Idle, Request, RequestPC, WellFormed
<1>2. \A pc \in RequestPC, t \in Trip, by \in Driver \cup {Rider}, fee \in Nat :
         (pc = "declining" => by \in Driver) =>
           /\ [pc |-> pc, trip |-> t, by |-> by, fee |-> fee] \in Request
           /\ WellFormed([pc |-> pc, trip |-> t, by |-> by, fee |-> fee])
  <2> SUFFICES ASSUME NEW pc \in RequestPC, NEW t \in Trip, NEW by \in Driver \cup {Rider},
                      NEW fee \in Nat, pc = "declining" => by \in Driver
               PROVE  /\ [pc |-> pc, trip |-> t, by |-> by, fee |-> fee] \in Request
                      /\ WellFormed([pc |-> pc, trip |-> t, by |-> by, fee |-> fee])
    OBVIOUS
  <2>1. [pc |-> pc, trip |-> t, by |-> by, fee |-> fee] \in Request
    BY DEF Request
  <2>2. WellFormed([pc |-> pc, trip |-> t, by |-> by, fee |-> fee])
    BY DEF WellFormed
  <2> QED  BY <2>1, <2>2
<1>3. \A pc \in RequestPC, t \in Trip, by \in Driver \cup {Rider}, fee \in Nat :
         Begin(s, pc, t, by, fee) /\ (pc = "declining" => by \in Driver) =>
           req' \in [Slot -> Request] /\ \A r \in Slot : WellFormed(req'[r])
  <2> HIDE DEF TypeOK
  <2> SUFFICES ASSUME NEW pc \in RequestPC, NEW t \in Trip, NEW by \in Driver \cup {Rider},
                      NEW fee \in Nat, Begin(s, pc, t, by, fee), pc = "declining" => by \in Driver
               PROVE  req' \in [Slot -> Request] /\ \A r \in Slot : WellFormed(req'[r])
    BY Zenon
  <2> DEFINE q == [pc |-> pc, trip |-> t, by |-> by, fee |-> fee]
  <2>1. q \in Request /\ WellFormed(q)
    BY <1>2
  <2>2. req' = [req EXCEPT ![s] = q]
    BY DEF Begin
  <2> HIDE DEF q
  <2> QED  BY <1>0, <2>1, <2>2
<1>4. \A pc \in RequestPC \ {"declining"} : Continue(s, pc) /\ req[s].pc # "idle" =>
           req' \in [Slot -> Request] /\ \A r \in Slot : WellFormed(req'[r])
  <2> SUFFICES ASSUME NEW pc \in RequestPC \ {"declining"}, Continue(s, pc), req[s].pc # "idle"
               PROVE  req' \in [Slot -> Request] /\ \A r \in Slot : WellFormed(req'[r])
    OBVIOUS
  <2>1. req[s] \in Request /\ WellFormed(req[s])
    OBVIOUS
  <2>2. [req[s] EXCEPT !.pc = pc] \in Request
    BY <2>1 DEF Request
  <2>3. WellFormed([req[s] EXCEPT !.pc = pc])
    BY <2>1 DEF Request, WellFormed
  <2>4. req' = [req EXCEPT ![s] = [req[s] EXCEPT !.pc = pc]]
    BY DEF Continue
  <2> QED  BY <1>0, <2>2, <2>3, <2>4
<1>5. Finish(s) =>
           req' \in [Slot -> Request] /\ \A r \in Slot : WellFormed(req'[r])
  <2> HIDE DEF TypeOK
  <2> QED  BY <1>0, <1>1 DEF Finish
<1> QED
  <2> HIDE DEF TypeOK
  <2> QED  BY <1>3, <1>4, <1>5

\* Counting one more completion, payout or award.
LEMMA BooksTypes ==
  ASSUME TypeOK, NEW t \in Trip
  PROVE  /\ [books EXCEPT ![t].completions = @ + 1] \in [Trip -> [completions : Nat, payouts : Nat, awards : Nat]]
         /\ [books EXCEPT ![t].payouts = @ + 1] \in [Trip -> [completions : Nat, payouts : Nat, awards : Nat]]
         /\ [books EXCEPT ![t].awards = @ + 1] \in [Trip -> [completions : Nat, payouts : Nat, awards : Nat]]
<1> USE DEF TypeOK
<1>1. books[t].completions + 1 \in Nat /\ books[t].payouts + 1 \in Nat /\ books[t].awards + 1 \in Nat
  <2>1. books[t].completions \in Nat /\ books[t].payouts \in Nat /\ books[t].awards \in Nat
    OBVIOUS
  <2> QED  BY <2>1
<1>2. \A n \in Nat :
        /\ [books EXCEPT ![t].completions = n] \in [Trip -> [completions : Nat, payouts : Nat, awards : Nat]]
        /\ [books EXCEPT ![t].payouts = n] \in [Trip -> [completions : Nat, payouts : Nat, awards : Nat]]
        /\ [books EXCEPT ![t].awards = n] \in [Trip -> [completions : Nat, payouts : Nat, awards : Nat]]
  OBVIOUS
<1> QED  BY <1>1, <1>2

LEMMA RequestTypeOK ==
  ASSUME TypeOK, NEW s \in Slot, RequestStep(s) \/ RequestFailed(s)
  PROVE  TypeOK'
<1> DEFINE t == req[s].trip
<1> USE DEF TypeOK, history
<1>0. ASSUME req[s].pc # "idle"
      PROVE  /\ t \in Trip
             /\ trip[t] \in TripRow
             /\ req[s] \in Request
             /\ req[s].pc = "declining" => req[s].by \in Driver
             /\ req[s].fee \in Nat
             /\ books[t] \in [completions : Nat, payouts : Nat, awards : Nat]
  BY <1>0 DEF WellFormed, Request
<1>1. CASE ClearExclusions(s)
  BY <1>0, <1>1, RequestTypes DEF ClearExclusions
<1>2. CASE DeclineWrite(s)
  <2>1. excluded' \in [Trip -> SUBSET Driver]
    BY <1>0, <1>2 DEF DeclineWrite
  <2> QED  BY <1>2, <2>1, RequestTypes DEF DeclineWrite
<1>3. CASE StartWrite(s)
  <2>1. trip' \in [Trip -> TripRow]
    BY <1>0, <1>3, StoreType, UpdatedRowTypes DEF StartWrite, Status
  <2> QED  BY <1>3, <2>1, RequestTypes DEF StartWrite
<1>4. CASE CompleteClaim(s)
  <2>1. req' \in [Slot -> Request] /\ \A r \in Slot : WellFormed(req'[r])
    BY <1>4, RequestTypes DEF CompleteClaim, RequestPC
  <2>2. trip' \in [Trip -> TripRow]
    BY <1>0, <1>4, StoreType, UpdatedRowTypes DEF CompleteClaim, Status
  <2>3. books' \in [Trip -> [completions : Nat, payouts : Nat, awards : Nat]]
    <3>1. books' = [books EXCEPT ![t].completions = @ + 1] \/ UNCHANGED books
      BY <1>4 DEF CompleteClaim, ClaimsCompletion
    <3>2. t \in Trip
      BY <1>0, <1>4 DEF CompleteClaim
    <3>3. [books EXCEPT ![t].completions = @ + 1]
            \in [Trip -> [completions : Nat, payouts : Nat, awards : Nat]]
      BY <3>2, BooksTypes
    <3>4. CASE UNCHANGED books
      BY <3>4
    <3> QED  BY <3>1, <3>3, <3>4
  <2> QED  BY <1>4, <2>1, <2>2, <2>3 DEF CompleteClaim
<1>5. CASE StampFinalFare(s)
  <2>1. req' \in [Slot -> Request] /\ \A r \in Slot : WellFormed(req'[r])
    BY <1>5, RequestTypes DEF StampFinalFare, RequestPC
  <2>2. trip' \in [Trip -> TripRow]
    BY <1>0, <1>5, StoreType, UpdatedRowTypes DEF StampFinalFare
  <2> QED  BY <1>5, <2>1, <2>2 DEF StampFinalFare
<1>6. CASE RecordTripPayout(s)
  <2>1. req' \in [Slot -> Request] /\ \A r \in Slot : WellFormed(req'[r])
    BY <1>6, RequestTypes DEF RecordTripPayout, RequestPC
  <2>2. books' \in [Trip -> [completions : Nat, payouts : Nat, awards : Nat]]
    <3>1. books' = [books EXCEPT ![t].payouts = @ + 1] \/ UNCHANGED books
      BY <1>6 DEF RecordTripPayout
    <3>2. t \in Trip
      BY <1>0, <1>6 DEF RecordTripPayout
    <3>3. [books EXCEPT ![t].payouts = @ + 1]
            \in [Trip -> [completions : Nat, payouts : Nat, awards : Nat]]
      BY <3>2, BooksTypes
    <3>4. CASE UNCHANGED books
      BY <3>4
    <3> QED  BY <3>1, <3>3, <3>4
  <2> QED  BY <1>6, <2>1, <2>2 DEF RecordTripPayout
<1>7. CASE AwardTripCompletionPoints(s)
  <2>1. books' \in [Trip -> [completions : Nat, payouts : Nat, awards : Nat]]
    BY <1>0, <1>7, BooksTypes DEF AwardTripCompletionPoints
  <2> QED  BY <1>7, <2>1, RequestTypes DEF AwardTripCompletionPoints
<1>8. CASE CancelWrite(s)
  <2>1. req' \in [Slot -> Request] /\ \A r \in Slot : WellFormed(req'[r])
    BY <1>8, RequestTypes DEF CancelWrite, RequestPC
  <2>2. trip' \in [Trip -> TripRow]
    BY <1>0, <1>8, StoreType, UpdatedRowTypes DEF CancelWrite
  <2> QED  BY <1>8, <2>1, <2>2 DEF CancelWrite
<1>9. CASE RequestFailed(s)
  BY <1>9, RequestTypes DEF RequestFailed
<1> QED  BY <1>1, <1>2, <1>3, <1>4, <1>5, <1>6, <1>7, <1>8, <1>9 DEF RequestStep

LEMMA CallTypeOK ==
  ASSUME TypeOK, NEW s \in Slot, NEW t \in Trip, NEW by \in Driver \cup {Rider},
         \/ by \in Driver /\ DriverCall(s, t, by)
         \/ \E graceOver \in BOOLEAN : CancelTrip(s, t, by, graceOver)
  PROVE  TypeOK'
<1> USE DEF TypeOK, history
<1>0. trip[t] \in TripRow
  OBVIOUS
<1>1. CASE by \in Driver /\ AcceptTrip(s, t, by)
  <2>1. trip' \in [Trip -> TripRow]
    BY <1>0, <1>1, StoreType, UpdatedRowTypes DEF AcceptTrip
  <2>2. req' \in [Slot -> Request] /\ \A r \in Slot : WellFormed(req'[r])
    BY <1>1, RequestTypes DEF AcceptTrip, RequestPC
  <2> QED  BY <1>1, <2>1, <2>2 DEF AcceptTrip
<1>2. CASE by \in Driver /\ DeclineTrip(s, t, by)
  BY <1>2, RequestTypes DEF DeclineTrip, RequestPC
<1>3. CASE by \in Driver /\ StartTrip(s, t, by)
  BY <1>3, RequestTypes DEF StartTrip, RequestPC
<1>4. CASE by \in Driver /\ CompleteTrip(s, t, by)
  BY <1>4, RequestTypes DEF CompleteTrip, RequestPC
<1>5. CASE \E graceOver \in BOOLEAN : CancelTrip(s, t, by, graceOver)
  <2>1. PICK graceOver \in BOOLEAN : CancelTrip(s, t, by, graceOver)
    BY <1>5
  <2>2. CancellationFee(t, by, graceOver) \in Nat
    BY TripsAssumption DEF CancellationFee
  <2> QED  BY <2>1, <2>2, RequestTypes DEF CancelTrip, RequestPC
<1> QED  BY <1>1, <1>2, <1>3, <1>4, <1>5 DEF DriverCall

LEMMA EscalationTypeOK ==
  ASSUME TypeOK, NEW t \in Trip, NEW e \in Escalator,
         EscalateRead(t, e) \/ EscalateWrite(t, e) \/ EscalationFailed(t, e)
  PROVE  TypeOK'
<1> USE DEF TypeOK, history
<1>0. \A pc \in EscalationPC :
        [escalation EXCEPT ![t][e] = pc] \in [Trip -> [Escalator -> EscalationPC]]
  OBVIOUS
<1>1. CASE EscalateRead(t, e)
  BY <1>0, <1>1 DEF EscalateRead, EscalationStep, EscalationPC
<1>2. CASE EscalateWrite(t, e)
  <2>1. trip' \in [Trip -> TripRow]
    BY <1>2, StoreType, UpdatedRowTypes DEF EscalateWrite
  <2>2. escalation' \in [Trip -> [Escalator -> EscalationPC]]
    BY <1>0, <1>2 DEF EscalateWrite, EscalationPC
  <2> QED  BY <1>2, <2>1, <2>2 DEF EscalateWrite
<1>3. CASE EscalationFailed(t, e)
  BY <1>0, <1>3 DEF EscalationFailed, EscalationPC
<1> QED  BY <1>1, <1>2, <1>3

LEMMA NextTypeOK == TypeOK /\ [Next]_vars => TypeOK'
<1> SUFFICES ASSUME TypeOK, [Next]_vars PROVE TypeOK'
  OBVIOUS
<1> USE DEF TypeOK, history
<1>1. ASSUME NEW t \in Trip, CreateTrip(t)
      PROVE  TypeOK'
  <2>1. trip' \in [Trip -> TripRow]
    BY <1>1, StoreType, UpdatedRowTypes DEF CreateTrip, Status
  <2>2. matcher' \in [Trip -> Matcher]
    <3>1. matcher[t] \in Matcher
      OBVIOUS
    <3>2. [matcher[t] EXCEPT !.pc = "read"] \in Matcher
      BY <3>1 DEF Matcher, MatcherPC
    <3> QED  BY <1>1, <3>2 DEF CreateTrip
  <2>3. escalation' \in [Trip -> [Escalator -> EscalationPC]]
    BY <1>1 DEF CreateTrip, Timers, EscalationPC
  <2> QED  BY <1>1, <2>1, <2>2, <2>3 DEF CreateTrip
<1>2. ASSUME NEW t \in Trip, TimePasses(t)
      PROVE  TypeOK'
  <2>1. age' \in [Trip -> 0..MaxAge]
    BY <1>2, TripsAssumption DEF TimePasses
  <2> QED  BY <1>2, <2>1 DEF TimePasses
<1>3. ASSUME NEW t \in Trip, NEW d \in Driver, ManuallyAssign(t, d)
      PROVE  TypeOK'
  <2>1. trip' \in [Trip -> TripRow]
    BY <1>3, StoreType, UpdatedRowTypes DEF ManuallyAssign
  <2> QED  BY <1>3, <2>1 DEF ManuallyAssign
<1>4. CASE Restart
  <2>1. matcher' \in [Trip -> Matcher]
    BY <1>4 DEF Restart, Matcher, MatcherPC, NoMatcher
  <2>2. escalation' \in [Trip -> [Escalator -> EscalationPC]]
    BY <1>4 DEF Restart, EscalationPC
  <2>3. req' \in [Slot -> Request] /\ \A r \in Slot : WellFormed(req'[r])
    BY <1>4 DEF Restart, Idle, Request, RequestPC, WellFormed
  <2>4. restarts' \in 0..MaxRestarts
    BY <1>4, TripsAssumption DEF Restart
  <2> QED  BY <1>4, <2>1, <2>2, <2>3, <2>4 DEF Restart
<1>5. CASE UNCHANGED vars
  BY <1>5 DEF vars
<1> HIDE DEF TypeOK, history
<1>6. ASSUME NEW t \in Trip, MatcherStep(t) \/ MatchingFailed(t) \/ OfferRoundFailed(t)
      PROVE  TypeOK'
  BY <1>6, MatcherTypeOK
<1>7. ASSUME NEW t \in Trip, NEW e \in Escalator,
             EscalateRead(t, e) \/ EscalateWrite(t, e) \/ EscalationFailed(t, e)
      PROVE  TypeOK'
  BY <1>7, EscalationTypeOK
<1>8. ASSUME NEW s \in Slot, NEW t \in Trip, NEW d \in Driver, DriverCall(s, t, d)
      PROVE  TypeOK'
  BY <1>8, CallTypeOK
<1>9. ASSUME NEW s \in Slot, NEW t \in Trip, NEW by \in Driver \cup {Rider},
             NEW graceOver \in BOOLEAN, CancelTrip(s, t, by, graceOver)
      PROVE  TypeOK'
  <2>1. \E g \in BOOLEAN : CancelTrip(s, t, by, g)
    BY <1>9
  <2> QED  BY <2>1, CallTypeOK
<1>10. ASSUME NEW s \in Slot, RequestStep(s) \/ RequestFailed(s)
       PROVE  TypeOK'
  BY <1>10, RequestTypeOK
<1> QED
  BY <1>1, <1>2, <1>3, <1>4, <1>5, <1>6, <1>7, <1>8, <1>9, <1>10 DEF Next

\* Rows, searches, requests and counters keep their types in every reachable
\* state, whatever handlers interleave.
THEOREM TypeCorrect == Spec => []TypeOK
  BY InitTypeOK, NextTypeOK, PTL DEF Spec

-----------------------------------------------------------------------------
(* Offers.  OpenOfferIsTimed is inductive together with the types: the     *)
(* only step that writes MATCHING clears driverId and arms the timer, and  *)
(* the timer's path leads to the reset unless it reads a claimed row or    *)
(* breaks, after which no search runs for the trip.                        *)

LEMMA OfferNext == TypeOK /\ OpenOfferIsTimed /\ [Next]_vars => OpenOfferIsTimed'
<1> DEFINE Timed(u) == /\ trip[u].driverId = None
                       /\ restarts = 0 => matcher[u].pc \in {"armed", "excluding", "reset", "broken"}
<1> SUFFICES ASSUME TypeOK, OpenOfferIsTimed, [Next]_vars,
                    NEW u \in Trip, (trip[u].status = "MATCHING")'
             PROVE  Timed(u)'
  BY DEF OpenOfferIsTimed
<1>0. /\ trip[u].status = "MATCHING" => Timed(u)
      /\ trip \in [Trip -> TripRow] /\ trip[u] \in TripRow
      /\ matcher \in [Trip -> Matcher] /\ matcher[u] \in Matcher
      /\ req \in [Slot -> Request]
      /\ \A s \in Slot : req[s].pc # "idle" => req[s].trip \in Trip
      /\ restarts \in Nat
  BY DEF OpenOfferIsTimed, TypeOK, WellFormed
<1>a. restarts + 1 # 0
  BY <1>0
<1> USE <1>0 DEF Store, TripRow, Matcher, history, MatcherAt, MatcherTo, NoMatcher, Looking,
                 Unclaimed
<1>1. ASSUME NEW t \in Trip, CreateTrip(t)
      PROVE  Timed(u)'
  BY <1>1 DEF CreateTrip
<1>2. ASSUME NEW t \in Trip, TimePasses(t)
      PROVE  Timed(u)'
  BY <1>2 DEF TimePasses
<1>3. ASSUME NEW t \in Trip, MatcherStep(t) \/ MatchingFailed(t) \/ OfferRoundFailed(t)
      PROVE  Timed(u)'
  <2>1. CASE MatchRead(t)  BY <2>1 DEF MatchRead
  <2>2. CASE MatchExclusions(t)  BY <2>2 DEF MatchExclusions
  <2>3. CASE MatchSearch(t)  BY <2>3 DEF MatchSearch
  <2>4. CASE MatchNobody(t)  BY <2>4 DEF MatchNobody
  <2>5. CASE OfferToDrivers(t)  BY <2>5 DEF OfferToDrivers, OfferedRow
  <2>6. CASE OfferTimeout(t)  BY <2>6 DEF OfferTimeout
  <2>7. CASE ExcludeOffered(t)
    <3>1. \/ matcher' = [matcher EXCEPT ![t].pc = "reset"]
          \/ \E d \in ToExclude(t) : matcher' = [matcher EXCEPT ![t].offered = @ \ {d}]
      BY <2>7 DEF ExcludeOffered
    <3>2. matcher'[u].pc = matcher[u].pc \/ (t = u /\ matcher'[u].pc = "reset")
      <4>1. CASE matcher' = [matcher EXCEPT ![t].pc = "reset"]
        BY <4>1
      <4>2. ASSUME NEW d \in ToExclude(t), matcher' = [matcher EXCEPT ![t].offered = @ \ {d}]
            PROVE  matcher'[u].pc = matcher[u].pc
        BY <4>2
      <4> QED  BY <3>1, <4>1, <4>2
    <3> QED  BY <2>7, <3>2 DEF ExcludeOffered
  <2>8. CASE ResetToRequested(t)  BY <2>8 DEF ResetToRequested
  <2>9. CASE MatchEscalated(t)  BY <2>9 DEF MatchEscalated
  <2>10. CASE MatchingFailed(t)  BY <2>10 DEF MatchingFailed
  <2>11. CASE OfferRoundFailed(t)  BY <2>11 DEF OfferRoundFailed
  <2> QED
    BY <1>3, <2>1, <2>2, <2>3, <2>4, <2>5, <2>6, <2>7, <2>8, <2>9, <2>10, <2>11 DEF MatcherStep
<1>4. ASSUME NEW t \in Trip, NEW e \in Escalator,
             EscalateRead(t, e) \/ EscalateWrite(t, e) \/ EscalationFailed(t, e)
      PROVE  Timed(u)'
  <2>1. CASE EscalateRead(t, e)  BY <2>1 DEF EscalateRead
  <2>2. CASE EscalateWrite(t, e)  BY <2>2 DEF EscalateWrite
  <2>3. CASE EscalationFailed(t, e)  BY <2>3 DEF EscalationFailed
  <2> QED  BY <1>4, <2>1, <2>2, <2>3
<1>5. ASSUME NEW s \in Slot, RequestStep(s) \/ RequestFailed(s)
      PROVE  Timed(u)'
  <2>1. CASE ClearExclusions(s)  BY <2>1 DEF ClearExclusions
  <2>2. CASE DeclineWrite(s)  BY <2>2 DEF DeclineWrite
  <2>3. CASE StartWrite(s)  BY <2>3 DEF StartWrite
  <2>4. CASE CompleteClaim(s)
    <3>1. trip' = [trip EXCEPT ![req[s].trip] = [trip[req[s].trip] EXCEPT !.status = "COMPLETED"]]
          \/ UNCHANGED trip
      BY <2>4 DEF CompleteClaim
    <3>2. CASE UNCHANGED trip
      BY <2>4, <3>2 DEF CompleteClaim
    <3>3. CASE trip' = [trip EXCEPT ![req[s].trip] =
                          [trip[req[s].trip] EXCEPT !.status = "COMPLETED"]]
      <4>1. trip[u].status = "MATCHING" /\ UNCHANGED trip[u]
        BY <3>3
      <4> QED  BY <2>4, <4>1 DEF CompleteClaim
    <3> QED  BY <3>1, <3>2, <3>3
  <2>5. CASE StampFinalFare(s)  BY <2>5 DEF StampFinalFare
  <2>6. CASE RecordTripPayout(s)  BY <2>6 DEF RecordTripPayout
  <2>7. CASE AwardTripCompletionPoints(s)  BY <2>7 DEF AwardTripCompletionPoints
  <2>8. CASE CancelWrite(s)  BY <2>8 DEF CancelWrite
  <2>9. CASE RequestFailed(s)  BY <2>9 DEF RequestFailed
  <2> QED  BY <1>5, <2>1, <2>2, <2>3, <2>4, <2>5, <2>6, <2>7, <2>8, <2>9 DEF RequestStep
<1>6. ASSUME NEW s \in Slot, NEW t \in Trip, NEW d \in Driver, DriverCall(s, t, d)
      PROVE  Timed(u)'
  <2>1. CASE AcceptTrip(s, t, d)  BY <2>1 DEF AcceptTrip
  <2>2. CASE DeclineTrip(s, t, d)  BY <2>2 DEF DeclineTrip
  <2>3. CASE StartTrip(s, t, d)  BY <2>3 DEF StartTrip
  <2>4. CASE CompleteTrip(s, t, d)  BY <2>4 DEF CompleteTrip
  <2> QED  BY <1>6, <2>1, <2>2, <2>3, <2>4 DEF DriverCall
<1>7. ASSUME NEW s \in Slot, NEW t \in Trip, NEW by \in Driver \cup {Rider},
             NEW graceOver \in BOOLEAN, CancelTrip(s, t, by, graceOver)
      PROVE  Timed(u)'
  BY <1>7 DEF CancelTrip
<1>8. ASSUME NEW t \in Trip, NEW d \in Driver, ManuallyAssign(t, d)
      PROVE  Timed(u)'
  BY <1>8 DEF ManuallyAssign
<1>9. CASE Restart
  <2>1. restarts' # 0
    BY <1>9, <1>a DEF Restart
  <2>2. UNCHANGED trip
    BY <1>9 DEF Restart
  <2> QED  BY <2>1, <2>2
<1>10. CASE UNCHANGED vars
  BY <1>10 DEF vars
<1> HIDE <1>0 DEF Timed
<1> QED
  BY <1>1, <1>2, <1>3, <1>4, <1>5, <1>6, <1>7, <1>8, <1>9, <1>10 DEF Next

\* A trip on offer is unclaimed and, until a restart, its timer is pending or
\* already resetting it, or had a query rejected.
THEOREM OffersAreTimed == Spec => []OpenOfferIsTimed
<1>1. Init => OpenOfferIsTimed
  <2> SUFFICES ASSUME Init, NEW t \in Trip PROVE trip[t].status # "MATCHING"
    BY DEF OpenOfferIsTimed
  <2>1. PICK isTest \in [Trip -> BOOLEAN] : trip[t] = Unbooked(isTest[t])
    BY DEF Init
  <2>2. Unbooked(isTest[t]).status = "NONE"
    BY DEF Unbooked
  <2> QED  BY <2>1, <2>2
<1> QED  BY <1>1, OfferNext, TypeCorrect, PTL DEF Spec

-----------------------------------------------------------------------------
(* What a step can do to one row.                                          *)

\* The driver changes only when the row goes on offer or is claimed from the
\* search, by the driver's own accept or within the fleet; the fee and its author change only when a pending cancel is written.
RowChange(u) ==
    /\ trip'[u].isTest = trip[u].isTest
    /\ trip'[u].status = "NONE" => trip[u].status = "NONE"
    /\ trip[u].matchedAt => trip'[u].matchedAt
    /\ trip[u].finalFare => trip'[u].finalFare
    /\ \/ trip'[u].driverId = trip[u].driverId
       \/ trip'[u].driverId = None /\ trip'[u].status = "MATCHING"
       \/ /\ trip'[u].status = "MATCHED" /\ Looking(u)
          /\ \/ InFleet(trip'[u].driverId, trip[u].isTest)
             \/ \E s \in Slot : AcceptTrip(s, u, trip'[u].driverId)
    /\ \/ /\ trip'[u].cancellationFee = trip[u].cancellationFee
          /\ trip'[u].cancelledBy = trip[u].cancelledBy
       \/ \E s \in Slot :
            /\ req[s].pc = "cancelling" /\ req[s].trip = u
            /\ trip'[u].cancellationFee = req[s].fee
            /\ trip'[u].cancelledBy = IF req[s].by = Rider THEN "RIDER" ELSE "DRIVER"

LEMMA RowStep ==
  ASSUME TypeOK, [Next]_vars, NEW u \in Trip
  PROVE  RowChange(u)
<1>0. /\ trip \in [Trip -> TripRow] /\ trip[u] \in TripRow
      /\ \A s \in Slot : req[s].pc # "idle" => req[s].trip \in Trip
  BY DEF TypeOK, WellFormed
<1>a. ASSUME trip'[u] = trip[u]
      PROVE  RowChange(u)
  BY <1>a DEF RowChange
<1>c. ASSUME NEW t \in Trip, NEW st \in Status \ {"NONE"}, Store(t, [trip[t] EXCEPT !.status = st])
      PROVE  RowChange(u)
  <2>1. CASE t = u
    BY <1>0, <1>c, <2>1 DEF Store, RowChange, TripRow
  <2>2. CASE t # u
    BY <1>0, <1>a, <1>c, <2>2 DEF Store
  <2> QED  BY <2>1, <2>2
<1>1. ASSUME NEW t \in Trip, CreateTrip(t)
      PROVE  RowChange(u)
  BY <1>1, <1>c DEF CreateTrip, Status
<1>2. ASSUME NEW t \in Trip, TimePasses(t)
      PROVE  RowChange(u)
  BY <1>2, <1>a DEF TimePasses
<1>3. ASSUME NEW t \in Trip, MatcherStep(t) \/ MatchingFailed(t) \/ OfferRoundFailed(t)
      PROVE  RowChange(u)
  <2>1. CASE MatchRead(t)  BY <2>1, <1>a DEF MatchRead
  <2>2. CASE MatchExclusions(t)  BY <2>2, <1>a DEF MatchExclusions
  <2>3. CASE MatchSearch(t)  BY <2>3, <1>a DEF MatchSearch
  <2>4. CASE MatchNobody(t)
    <3>1. CASE t = u  BY <1>0, <2>4, <3>1 DEF MatchNobody, Store, RowChange, TripRow
    <3>2. CASE t # u  BY <1>0, <1>a, <2>4, <3>2 DEF MatchNobody, Store
    <3> QED  BY <3>1, <3>2
  <2>5. CASE OfferToDrivers(t)
    <3>1. CASE t = u  BY <1>0, <2>5, <3>1 DEF OfferToDrivers, OfferedRow, Store, RowChange, TripRow
    <3>2. CASE t # u  BY <1>0, <1>a, <2>5, <3>2 DEF OfferToDrivers, Store
    <3> QED  BY <3>1, <3>2
  <2>6. CASE OfferTimeout(t)  BY <2>6, <1>a DEF OfferTimeout
  <2>7. CASE ExcludeOffered(t)  BY <2>7, <1>a DEF ExcludeOffered
  <2>8. CASE ResetToRequested(t)  BY <2>8, <1>c DEF ResetToRequested, Status
  <2>9. CASE MatchEscalated(t)  BY <2>9, <1>a DEF MatchEscalated
  <2>10. CASE MatchingFailed(t)  BY <2>10, <1>a DEF MatchingFailed
  <2>11. CASE OfferRoundFailed(t)  BY <2>11, <1>a DEF OfferRoundFailed
  <2> QED
    BY <1>3, <2>1, <2>2, <2>3, <2>4, <2>5, <2>6, <2>7, <2>8, <2>9, <2>10, <2>11 DEF MatcherStep
<1>4. ASSUME NEW t \in Trip, NEW e \in Escalator,
             EscalateRead(t, e) \/ EscalateWrite(t, e) \/ EscalationFailed(t, e)
      PROVE  RowChange(u)
  <2>1. CASE EscalateRead(t, e)  BY <2>1, <1>a DEF EscalateRead
  <2>2. CASE EscalateWrite(t, e)
    <3>1. CASE t = u  BY <1>0, <2>2, <3>1 DEF EscalateWrite, Store, RowChange, TripRow
    <3>2. CASE t # u  BY <1>0, <1>a, <2>2, <3>2 DEF EscalateWrite, Store
    <3> QED  BY <3>1, <3>2
  <2>3. CASE EscalationFailed(t, e)  BY <2>3, <1>a DEF EscalationFailed
  <2> QED  BY <1>4, <2>1, <2>2, <2>3
<1>5. ASSUME NEW s \in Slot, RequestStep(s) \/ RequestFailed(s)
      PROVE  RowChange(u)
  <2> DEFINE t == req[s].trip
  <2>1. CASE ClearExclusions(s)  BY <2>1, <1>a DEF ClearExclusions
  <2>2. CASE DeclineWrite(s)  BY <2>2, <1>a, <1>0 DEF DeclineWrite, history
  <2>3. CASE StartWrite(s)
    <3>1. t \in Trip /\ "IN_PROGRESS" \in Status \ {"NONE"}  BY <1>0, <2>3 DEF StartWrite, Status
    <3> QED  BY <2>3, <1>c, <3>1 DEF StartWrite
  <2>4. CASE CompleteClaim(s)
    <3>1. t \in Trip /\ "COMPLETED" \in Status \ {"NONE"}  BY <1>0, <2>4 DEF CompleteClaim, Status
    <3>2. UNCHANGED trip \/ Store(t, [trip[t] EXCEPT !.status = "COMPLETED"])
      BY <2>4 DEF CompleteClaim
    <3> QED  BY <1>a, <1>c, <3>1, <3>2
  <2>5. CASE StampFinalFare(s)
    <3>1. t \in Trip  BY <1>0, <2>5 DEF StampFinalFare
    <3>2. CASE t = u  BY <1>0, <2>5, <3>2 DEF StampFinalFare, Store, RowChange, TripRow
    <3>3. CASE t # u  BY <1>0, <1>a, <2>5, <3>1, <3>3 DEF StampFinalFare, Store
    <3> QED  BY <3>2, <3>3
  <2>6. CASE RecordTripPayout(s)  BY <2>6, <1>a DEF RecordTripPayout
  <2>7. CASE AwardTripCompletionPoints(s)  BY <2>7, <1>a DEF AwardTripCompletionPoints
  <2>8. CASE CancelWrite(s)
    <3>1. t \in Trip  BY <1>0, <2>8 DEF CancelWrite
    <3>2. CASE t = u  BY <1>0, <2>8, <3>2 DEF CancelWrite, Store, RowChange, TripRow
    <3>3. CASE t # u  BY <1>0, <1>a, <2>8, <3>1, <3>3 DEF CancelWrite, Store
    <3> QED  BY <3>2, <3>3
  <2>9. CASE RequestFailed(s)  BY <2>9, <1>a DEF RequestFailed
  <2> QED  BY <1>5, <2>1, <2>2, <2>3, <2>4, <2>5, <2>6, <2>7, <2>8, <2>9 DEF RequestStep
<1>6. ASSUME NEW s \in Slot, NEW t \in Trip, NEW d \in Driver, DriverCall(s, t, d)
      PROVE  RowChange(u)
  <2>1. CASE AcceptTrip(s, t, d)
    <3>1. CASE t = u
      <4>1. trip'[u].driverId = d /\ AcceptTrip(s, u, trip'[u].driverId)
        BY <1>0, <2>1, <3>1 DEF AcceptTrip, Store, TripRow
      <4>2. Looking(u) /\ trip'[u] = [trip[u] EXCEPT !.status = "MATCHED", !.driverId = d,
                                                     !.matchedAt = TRUE]
        BY <1>0, <2>1, <3>1 DEF AcceptTrip, Unclaimed, Looking, Store
      <4> QED  BY <1>0, <4>1, <4>2 DEF RowChange, TripRow
    <3>2. CASE t # u  BY <1>0, <1>a, <2>1, <3>2 DEF AcceptTrip, Store
    <3> QED  BY <3>1, <3>2
  <2>2. CASE DeclineTrip(s, t, d)  BY <2>2, <1>a DEF DeclineTrip
  <2>3. CASE StartTrip(s, t, d)  BY <2>3, <1>a DEF StartTrip
  <2>4. CASE CompleteTrip(s, t, d)  BY <2>4, <1>a DEF CompleteTrip
  <2> QED  BY <1>6, <2>1, <2>2, <2>3, <2>4 DEF DriverCall
<1>7. ASSUME NEW s \in Slot, NEW t \in Trip, NEW by \in Driver \cup {Rider},
             NEW graceOver \in BOOLEAN, CancelTrip(s, t, by, graceOver)
      PROVE  RowChange(u)
  BY <1>7, <1>a DEF CancelTrip
<1>8. ASSUME NEW t \in Trip, NEW d \in Driver, ManuallyAssign(t, d)
      PROVE  RowChange(u)
  <2>1. CASE t = u
    BY <1>0, <1>8, <2>1 DEF ManuallyAssign, Assignable, Looking, Store, RowChange, TripRow
  <2>2. CASE t # u  BY <1>0, <1>a, <1>8, <2>2 DEF ManuallyAssign, Store
  <2> QED  BY <2>1, <2>2
<1>9. CASE Restart
  BY <1>9, <1>a DEF Restart
<1>10. CASE UNCHANGED vars
  BY <1>10, <1>a DEF vars
<1> QED
  BY <1>1, <1>2, <1>3, <1>4, <1>5, <1>6, <1>7, <1>8, <1>9, <1>10 DEF Next

\* Neither an accept nor a dispatcher takes a matched trip from its driver: the
\* row must have gone back to the search in between.
THEOREM MatchesAreNotStomped == Spec => MatchIsNotStomped
<1>1. ASSUME TypeOK, [Next]_vars, NEW t \in Trip,
             trip[t].status \in {"MATCHED", "IN_PROGRESS", "COMPLETED"},
             trip'[t].status \in {"MATCHED", "IN_PROGRESS", "COMPLETED"}
      PROVE  trip'[t].driverId = trip[t].driverId
  BY <1>1, RowStep DEF RowChange, Looking
<1>2. TypeOK /\ [Next]_vars =>
        [\A t \in Trip :
          /\ trip[t].status \in {"MATCHED", "IN_PROGRESS", "COMPLETED"}
          /\ trip'[t].status \in {"MATCHED", "IN_PROGRESS", "COMPLETED"}
          => trip'[t].driverId = trip[t].driverId]_vars
  BY <1>1
<1> QED  BY <1>2, TypeCorrect, PTL DEF Spec, MatchIsNotStomped

-----------------------------------------------------------------------------
(* What a step can do to the requests and to the books.                    *)

Quiet == UNCHANGED books /\ \A s \in Slot : req'[s] \in {req[s], Idle}
OtherCall ==
    /\ UNCHANGED books
    /\ \E s \in Slot, pc \in {"clearing", "declining", "starting", "completing"},
          t \in Trip, by \in Driver : Begin(s, pc, t, by, 0)
CancelCall ==
    \E s \in Slot, t \in Trip, by \in Driver \cup {Rider}, graceOver \in BOOLEAN :
       CancelTrip(s, t, by, graceOver)
Settling(s) ==
    CompleteClaim(s) \/ StampFinalFare(s) \/ RecordTripPayout(s) \/ AwardTripCompletionPoints(s)

RequestChange == Quiet \/ OtherCall \/ CancelCall \/ \E s \in Slot : Settling(s) \/ CancelWrite(s)

LEMMA RequestStepChange ==
  ASSUME TypeOK, [Next]_vars
  PROVE  RequestChange
<1>0. req \in [Slot -> Request]
  BY DEF TypeOK
<1>a. ASSUME UNCHANGED <<req, books>>
      PROVE  Quiet
  BY <1>a DEF Quiet
<1>b. ASSUME NEW s \in Slot, Finish(s), UNCHANGED books
      PROVE  Quiet
  BY <1>0, <1>b DEF Quiet, Finish
<1>c. ASSUME NEW s \in Slot, NEW pc \in {"clearing", "declining", "starting", "completing"},
             NEW t \in Trip, NEW by \in Driver, Begin(s, pc, t, by, 0), UNCHANGED books
      PROVE  OtherCall
  BY <1>c DEF OtherCall
<1> USE DEF history
<1>1. ASSUME NEW t \in Trip, CreateTrip(t) \/ TimePasses(t)
      PROVE  Quiet
  BY <1>1, <1>a DEF CreateTrip, TimePasses
<1>2. ASSUME NEW t \in Trip, MatcherStep(t) \/ MatchingFailed(t) \/ OfferRoundFailed(t)
      PROVE  Quiet
  BY <1>2, <1>a
  DEF MatcherStep, MatchRead, MatchExclusions, MatchSearch, MatchNobody, OfferToDrivers,
      OfferTimeout, ExcludeOffered, ResetToRequested, MatchEscalated, MatchingFailed,
      OfferRoundFailed
<1>3. ASSUME NEW t \in Trip, NEW e \in Escalator,
             EscalateRead(t, e) \/ EscalateWrite(t, e) \/ EscalationFailed(t, e)
      PROVE  Quiet
  BY <1>3, <1>a DEF EscalateRead, EscalateWrite, EscalationFailed
<1>4. ASSUME NEW s \in Slot, RequestStep(s) \/ RequestFailed(s)
      PROVE  RequestChange
  <2>1. CASE ClearExclusions(s)  BY <1>b, <2>1 DEF ClearExclusions, RequestChange
  <2>2. CASE DeclineWrite(s)  BY <1>b, <2>2 DEF DeclineWrite, RequestChange
  <2>3. CASE StartWrite(s)  BY <1>b, <2>3 DEF StartWrite, RequestChange
  <2>4. CASE Settling(s) \/ CancelWrite(s)  BY <2>4 DEF RequestChange
  <2>5. CASE RequestFailed(s)  BY <1>b, <2>5 DEF RequestFailed, RequestChange
  <2> QED  BY <1>4, <2>1, <2>2, <2>3, <2>4, <2>5 DEF RequestStep, Settling
<1>5. ASSUME NEW s \in Slot, NEW t \in Trip, NEW d \in Driver, DriverCall(s, t, d)
      PROVE  OtherCall
  <2>1. CASE AcceptTrip(s, t, d)  BY <1>c, <2>1 DEF AcceptTrip
  <2>2. CASE DeclineTrip(s, t, d)  BY <1>c, <2>2 DEF DeclineTrip
  <2>3. CASE StartTrip(s, t, d)  BY <1>c, <2>3 DEF StartTrip
  <2>4. CASE CompleteTrip(s, t, d)  BY <1>c, <2>4 DEF CompleteTrip
  <2> QED  BY <1>5, <2>1, <2>2, <2>3, <2>4 DEF DriverCall
<1>6. ASSUME NEW t \in Trip, NEW d \in Driver, ManuallyAssign(t, d)
      PROVE  Quiet
  BY <1>6, <1>a DEF ManuallyAssign
<1>7. CASE Restart
  BY <1>7 DEF Restart, Quiet, RequestChange
<1>8. CASE UNCHANGED vars
  BY <1>8, <1>a DEF vars, RequestChange
<1> QED
  BY <1>1, <1>2, <1>3, <1>4, <1>5, <1>6, <1>7, <1>8 DEF Next, RequestChange, CancelCall

-----------------------------------------------------------------------------
(* Cancellation fees.  The fee travels in the request from the read to the *)
(* write, so the invariant speaks of pending cancels as well.              *)

\* What entitles a fee: nothing that happens between the read and the write of a
\* cancel takes any of it back.
PendingFee(s) ==
    req[s].pc = "cancelling" /\ req[s].fee > 0 =>
        /\ req[s].by = Rider
        /\ ~trip[req[s].trip].isTest
        /\ trip[req[s].trip].matchedAt
FeeInv == FeeIsRidersAfterMatch /\ \A s \in Slot : PendingFee(s)

LEMMA FeeNext == TypeOK /\ FeeInv /\ [Next]_vars => FeeInv'
<1> SUFFICES ASSUME TypeOK, FeeInv, [Next]_vars
             PROVE  FeeInv'
  OBVIOUS
<1>0. /\ req \in [Slot -> Request]
      /\ \A s \in Slot : req[s].pc # "idle" => req[s].trip \in Trip
      /\ trip \in [Trip -> TripRow]
  BY DEF TypeOK, WellFormed
<1>r. \A u \in Trip : RowChange(u)
  BY RowStep
<1>1. ASSUME NEW u \in Trip, trip'[u].cancellationFee > 0
      PROVE  trip'[u].cancelledBy = "RIDER" /\ ~trip'[u].isTest /\ trip'[u].matchedAt
  <2>1. CASE /\ trip'[u].cancellationFee = trip[u].cancellationFee
             /\ trip'[u].cancelledBy = trip[u].cancelledBy
    BY <1>1, <1>r, <2>1 DEF FeeInv, FeeIsRidersAfterMatch, RowChange
  <2>2. ASSUME NEW s \in Slot, req[s].pc = "cancelling", req[s].trip = u,
               trip'[u].cancellationFee = req[s].fee,
               trip'[u].cancelledBy = IF req[s].by = Rider THEN "RIDER" ELSE "DRIVER"
        PROVE  trip'[u].cancelledBy = "RIDER" /\ ~trip'[u].isTest /\ trip'[u].matchedAt
    BY <1>1, <1>r, <2>2 DEF FeeInv, PendingFee, RowChange
  <2> QED  BY <1>r, <2>1, <2>2 DEF RowChange
<1>2. ASSUME NEW s \in Slot
      PROVE  PendingFee(s)'
  <2>1. CASE req'[s] = req[s]
    BY <1>0, <1>r, <2>1 DEF FeeInv, PendingFee, RowChange
  <2>2. CASE req'[s].pc # "cancelling"
    BY <2>2 DEF PendingFee
  <2>3. ASSUME NEW t \in Trip, NEW by \in Driver \cup {Rider}, NEW graceOver \in BOOLEAN,
               CancelTrip(s, t, by, graceOver)
        PROVE  PendingFee(s)'
    <3>1. /\ req'[s].trip = t /\ req'[s].by = by
          /\ req'[s].fee = CancellationFee(t, by, graceOver)
          /\ trip' = trip
      BY <1>0, <2>3 DEF CancelTrip, Begin
    <3> QED  BY <3>1 DEF PendingFee, CancellationFee
  <2>4. \/ req'[s] = req[s] \/ req'[s].pc # "cancelling"
        \/ \E t \in Trip, by \in Driver \cup {Rider}, graceOver \in BOOLEAN :
             CancelTrip(s, t, by, graceOver)
    <3>1. Idle.pc # "cancelling"
      BY DEF Idle
    <3>2. CASE Quiet
      BY <3>1, <3>2 DEF Quiet
    <3>3. CASE OtherCall
      BY <1>0, <3>3 DEF OtherCall, Begin
    <3>4. CASE CancelCall
      <4>1. PICK r \in Slot, t \in Trip, by \in Driver \cup {Rider}, graceOver \in BOOLEAN :
              CancelTrip(r, t, by, graceOver)
        BY <3>4 DEF CancelCall
      <4>2. CASE r # s
        BY <1>0, <4>1, <4>2 DEF CancelTrip, Begin
      <4> QED  BY <4>1, <4>2
    <3>5. ASSUME NEW r \in Slot, Settling(r) \/ CancelWrite(r)
          PROVE  req'[s] = req[s] \/ req'[s].pc # "cancelling"
      <4>1. \/ Finish(r)
            \/ \E pc \in {"stamping", "paying", "awarding", "clearing"} : Continue(r, pc)
        BY <3>5 DEF Settling, CompleteClaim, StampFinalFare, RecordTripPayout,
                    AwardTripCompletionPoints, CancelWrite
      <4> QED  BY <1>0, <3>1, <4>1 DEF Finish, Continue, Request
    <3> QED  BY <3>2, <3>3, <3>4, <3>5, RequestStepChange DEF RequestChange
  <2> QED  BY <2>1, <2>2, <2>3, <2>4
<1> QED  BY <1>1, <1>2 DEF FeeInv, FeeIsRidersAfterMatch

\* Racing cancels included, a fee on the row is a rider's, on a real trip that a
\* driver had been matched to.
THEOREM FeesAreRidersAfterMatch == Spec => []FeeIsRidersAfterMatch
<1>1. Init => FeeInv
  <2> SUFFICES ASSUME Init PROVE FeeInv
    OBVIOUS
  <2>1. ASSUME NEW t \in Trip PROVE trip[t].cancellationFee = 0
    <3>1. PICK isTest \in [Trip -> BOOLEAN] : trip[t] = Unbooked(isTest[t])
      BY DEF Init
    <3>2. Unbooked(isTest[t]).cancellationFee = 0
      BY DEF Unbooked
    <3> QED  BY <3>1, <3>2
  <2>2. ASSUME NEW s \in Slot PROVE req[s].pc = "idle"
    BY DEF Init, Idle
  <2>3. FeeIsRidersAfterMatch
    BY <2>1 DEF FeeIsRidersAfterMatch
  <2> QED  BY <2>2, <2>3 DEF FeeInv, PendingFee
<1>2. FeeInv => FeeIsRidersAfterMatch
  BY DEF FeeInv
<1> QED  BY <1>1, <1>2, FeeNext, TypeCorrect, PTL DEF Spec

-----------------------------------------------------------------------------
(* The two fleets.  A trip reaches a driver through the search, which keeps *)
(* to one fleet, or through a dispatcher, whose endpoint checks it; that a  *)
(* driver of the other fleet takes it is that driver's own call.            *)

\* What a step can add to the drivers a trip is shown to.
AudienceChange(u) ==
    /\ shown'[u] \subseteq shown[u] \cup matcher[u].offered
    /\ matcher'[u].offered \subseteq matcher[u].offered \cup Eligible(u)

LEMMA AudienceStep ==
  ASSUME TypeOK, [Next]_vars, NEW u \in Trip
  PROVE  AudienceChange(u)
<1>0. /\ shown \in [Trip -> SUBSET Driver]
      /\ matcher \in [Trip -> Matcher] /\ matcher[u] \in Matcher
  BY DEF TypeOK
<1>a. ASSUME UNCHANGED shown, matcher'[u].offered \subseteq matcher[u].offered
      PROVE  AudienceChange(u)
  BY <1>a DEF AudienceChange
<1>b. ASSUME UNCHANGED <<shown, matcher>>
      PROVE  AudienceChange(u)
  BY <1>a, <1>b
<1>c. NoMatcher.offered = {} /\ \A pc : [NoMatcher EXCEPT !.pc = pc].offered = {}
  BY DEF NoMatcher
<1> USE DEF history, MatcherTo
<1>1. ASSUME NEW t \in Trip, CreateTrip(t) \/ TimePasses(t)
      PROVE  AudienceChange(u)
  <2>1. CASE CreateTrip(t)  BY <1>0, <1>a, <2>1 DEF CreateTrip, Matcher
  <2>2. CASE TimePasses(t)  BY <1>b, <2>2 DEF TimePasses
  <2> QED  BY <1>1, <2>1, <2>2
<1>2. ASSUME NEW t \in Trip, MatcherStep(t) \/ MatchingFailed(t) \/ OfferRoundFailed(t)
      PROVE  AudienceChange(u)
  <2>1. CASE MatchRead(t)  BY <1>0, <1>a, <1>c, <2>1 DEF MatchRead
  <2>2. CASE MatchExclusions(t)  BY <1>0, <1>a, <2>2 DEF MatchExclusions, Matcher
  <2>3. CASE MatchSearch(t)
    <3>1. UNCHANGED shown
      BY <2>3 DEF MatchSearch
    <3>2. CASE MatcherTo(t, "nobody")
      BY <1>0, <1>a, <3>1, <3>2 DEF Matcher
    <3>3. ASSUME NEW best \in SUBSET Eligible(t),
                 matcher' = [matcher EXCEPT ![t] = [@ EXCEPT !.pc = "offer", !.offered = best]]
          PROVE  AudienceChange(u)
      <4>1. matcher'[u].offered \subseteq matcher[u].offered \cup Eligible(u)
        BY <1>0, <3>3 DEF Matcher
      <4> QED  BY <3>1, <4>1 DEF AudienceChange
    <3> QED  BY <2>3, <3>2, <3>3 DEF MatchSearch
  <2>4. CASE MatchNobody(t)  BY <1>0, <1>a, <2>4 DEF MatchNobody, Matcher
  <2>5. CASE OfferToDrivers(t)
    BY <1>0, <2>5 DEF OfferToDrivers, Matcher, AudienceChange
  <2>6. CASE OfferTimeout(t)  BY <1>0, <1>a, <1>c, <2>6 DEF OfferTimeout, Matcher
  <2>7. CASE ExcludeOffered(t)
    <3>1. UNCHANGED shown
      BY <2>7 DEF ExcludeOffered
    <3>2. CASE MatcherTo(t, "reset")
      BY <1>0, <1>a, <3>1, <3>2 DEF Matcher
    <3>3. ASSUME NEW d, matcher' = [matcher EXCEPT ![t].offered = @ \ {d}]
          PROVE  AudienceChange(u)
      BY <1>0, <1>a, <3>1, <3>3 DEF Matcher
    <3> QED  BY <2>7, <3>2, <3>3 DEF ExcludeOffered
  <2>8. CASE ResetToRequested(t)  BY <1>0, <1>a, <2>8 DEF ResetToRequested, Matcher
  <2>9. CASE MatchEscalated(t)  BY <1>0, <1>a, <1>c, <2>9 DEF MatchEscalated
  <2>10. CASE MatchingFailed(t)  BY <1>0, <1>a, <1>c, <2>10 DEF MatchingFailed
  <2>11. CASE OfferRoundFailed(t)  BY <1>0, <1>a, <1>c, <2>11 DEF OfferRoundFailed
  <2> QED
    BY <1>2, <2>1, <2>2, <2>3, <2>4, <2>5, <2>6, <2>7, <2>8, <2>9, <2>10, <2>11 DEF MatcherStep
<1>3. ASSUME NEW t \in Trip, NEW e \in Escalator,
             EscalateRead(t, e) \/ EscalateWrite(t, e) \/ EscalationFailed(t, e)
      PROVE  AudienceChange(u)
  BY <1>3, <1>b DEF EscalateRead, EscalateWrite, EscalationFailed
<1>4. ASSUME NEW s \in Slot, RequestStep(s) \/ RequestFailed(s)
      PROVE  AudienceChange(u)
  BY <1>4, <1>b
  DEF RequestStep, ClearExclusions, DeclineWrite, StartWrite, CompleteClaim, StampFinalFare,
      RecordTripPayout, AwardTripCompletionPoints, CancelWrite, RequestFailed
<1>5. ASSUME NEW s \in Slot, NEW t \in Trip, NEW d \in Driver, DriverCall(s, t, d)
      PROVE  AudienceChange(u)
  BY <1>5, <1>b DEF DriverCall, AcceptTrip, DeclineTrip, StartTrip, CompleteTrip
<1>6. ASSUME NEW s \in Slot, NEW t \in Trip, NEW by \in Driver \cup {Rider},
             NEW graceOver \in BOOLEAN, CancelTrip(s, t, by, graceOver)
      PROVE  AudienceChange(u)
  BY <1>6, <1>b DEF CancelTrip
<1>7. ASSUME NEW t \in Trip, NEW d \in Driver, ManuallyAssign(t, d)
      PROVE  AudienceChange(u)
  BY <1>7, <1>b DEF ManuallyAssign
<1>8. CASE Restart
  BY <1>a, <1>c, <1>8 DEF Restart
<1>9. CASE UNCHANGED vars
  BY <1>b, <1>9 DEF vars
<1> QED
  BY <1>1, <1>2, <1>3, <1>4, <1>5, <1>6, <1>7, <1>8, <1>9 DEF Next

\* The drivers a search is about to ask, or has asked, are of the trip's fleet,
\* and a request that pays or rewards does so for a real trip.
FleetInv ==
    /\ FleetsShownApart
    /\ \A t \in Trip : \A d \in matcher[t].offered : InFleet(d, trip[t].isTest)
    /\ \A s \in Slot : req[s].pc \in {"paying", "awarding"} => ~trip[req[s].trip].isTest

LEMMA FleetNext == TypeOK /\ FleetInv /\ [Next]_vars => FleetInv'
<1> SUFFICES ASSUME TypeOK, FleetInv, [Next]_vars
             PROVE  FleetInv'
  OBVIOUS
<1>0. /\ req \in [Slot -> Request]
      /\ \A s \in Slot : req[s].pc # "idle" => req[s].trip \in Trip
      /\ trip \in [Trip -> TripRow]
      /\ books \in [Trip -> [completions : Nat, payouts : Nat, awards : Nat]]
  BY DEF TypeOK, WellFormed
<1>r. \A u \in Trip : RowChange(u) /\ AudienceChange(u)
  BY RowStep, AudienceStep
<1>1. ASSUME NEW t \in Trip, NEW d \in shown'[t]
      PROVE  InFleet(d, trip[t].isTest)'
  BY <1>1, <1>r DEF FleetInv, FleetsShownApart, AudienceChange, RowChange, InFleet
<1>2. ASSUME NEW t \in Trip, NEW d \in matcher'[t].offered
      PROVE  InFleet(d, trip[t].isTest)'
  BY <1>2, <1>r DEF FleetInv, AudienceChange, RowChange, InFleet, Eligible
<1>3. ASSUME NEW t \in Trip, trip'[t].isTest
      PROVE  books'[t].payouts = 0 /\ books'[t].awards = 0
  <2>1. books[t].payouts = 0 /\ books[t].awards = 0
    BY <1>3, <1>r DEF FleetInv, FleetsShownApart, RowChange
  <2>2. CASE UNCHANGED books
    BY <2>1, <2>2
  <2>3. ASSUME NEW s \in Slot, Settling(s)
        PROVE  books'[t].payouts = 0 /\ books'[t].awards = 0
    <3>1. CASE CompleteClaim(s)  BY <1>0, <2>1, <3>1 DEF CompleteClaim
    <3>2. CASE StampFinalFare(s)  BY <2>1, <3>2 DEF StampFinalFare, history
    <3>3. CASE RecordTripPayout(s)
      <4>1. req[s].trip # t
        BY <1>3, <1>r, <3>3 DEF FleetInv, RowChange, RecordTripPayout
      <4> QED  BY <1>0, <2>1, <3>3, <4>1 DEF RecordTripPayout
    <3>4. CASE AwardTripCompletionPoints(s)
      <4>1. req[s].trip # t
        BY <1>3, <1>r, <3>4 DEF FleetInv, RowChange, AwardTripCompletionPoints
      <4> QED  BY <1>0, <2>1, <3>4, <4>1 DEF AwardTripCompletionPoints
    <3> QED  BY <2>3, <3>1, <3>2, <3>3, <3>4 DEF Settling
  <2> QED
    BY <2>2, <2>3, RequestStepChange
    DEF RequestChange, Quiet, OtherCall, CancelCall, CancelTrip, CancelWrite, history
<1>4. ASSUME NEW s \in Slot, req'[s].pc \in {"paying", "awarding"}
      PROVE  ~trip'[req'[s].trip].isTest
  <2>1. Idle.pc = "idle"
    BY DEF Idle
  <2>2. CASE req'[s] = req[s]
    BY <1>0, <1>4, <1>r, <2>2 DEF FleetInv, RowChange
  <2>3. CASE req'[s] # req[s]
    <3>1. ~Quiet /\ ~OtherCall /\ ~CancelCall
      BY <1>0, <1>4, <2>1, <2>3 DEF Quiet, OtherCall, CancelCall, CancelTrip, Begin
    <3>2. PICK r \in Slot : Settling(r) \/ CancelWrite(r)
      BY <3>1, RequestStepChange DEF RequestChange
    <3>3. ~Finish(r)
      BY <1>0, <1>4, <2>1, <2>3 DEF Finish
    <3>4. CASE CompleteClaim(r)
      BY <1>0, <1>4, <2>3, <3>3, <3>4 DEF CompleteClaim, Continue, Request
    <3>5. CASE StampFinalFare(r)
      <4>1. r = s /\ req'[s].trip = req[s].trip /\ MovesMoney(req[s].trip)
        BY <1>0, <1>4, <2>3, <3>3, <3>5 DEF StampFinalFare, Continue, Request
      <4>2. req[s].trip \in Trip
        BY <1>0, <3>5, <4>1 DEF StampFinalFare
      <4> QED  BY <1>r, <4>1, <4>2 DEF MovesMoney, RowChange
    <3>6. CASE RecordTripPayout(r)
      <4>1. r = s /\ req'[s].trip = req[s].trip /\ req[s].pc = "paying"
        BY <1>0, <1>4, <2>3, <3>3, <3>6 DEF RecordTripPayout, Continue, Request
      <4> QED  BY <1>0, <1>r, <4>1 DEF FleetInv, RowChange
    <3>7. CASE AwardTripCompletionPoints(r)  BY <3>3, <3>7 DEF AwardTripCompletionPoints
    <3>8. CASE CancelWrite(r)
      BY <1>0, <1>4, <2>3, <3>8 DEF CancelWrite, Continue, Request
    <3> QED  BY <3>2, <3>4, <3>5, <3>6, <3>7, <3>8 DEF Settling
  <2> QED  BY <2>2, <2>3
<1> QED  BY <1>1, <1>2, <1>3, <1>4 DEF FleetInv, FleetsShownApart

LEMMA FleetInvariant == Spec => []FleetInv
<1>1. Init => FleetInv
  <2> SUFFICES ASSUME Init PROVE FleetInv
    OBVIOUS
  <2>1. ASSUME NEW s \in Slot PROVE req[s].pc = "idle"
    BY DEF Init, Idle
  <2>2. ASSUME NEW t \in Trip
        PROVE  /\ shown[t] = {} /\ matcher[t].offered = {}
               /\ books[t].payouts = 0 /\ books[t].awards = 0
    BY DEF Init, NoMatcher
  <2> QED  BY <2>1, <2>2 DEF FleetInv, FleetsShownApart
<1> QED  BY <1>1, FleetNext, TypeCorrect, PTL DEF Spec

\* No search shows a trip to the other fleet and no dispatcher gives it one; a trip
\* that changes fleet is taken by its new driver's own accept call, and a test trip
\* moves no money even then.
THEOREM FleetsStayApart == Spec => FleetsAreSegregated
<1>1. FleetInv' => FleetsShownApart'
  BY DEF FleetInv
<1>2. ASSUME TypeOK, [Next]_vars, NEW t \in Trip,
             trip'[t].driverId \notin {None, trip[t].driverId},
             ~InFleet(trip'[t].driverId, trip[t].isTest)
      PROVE  \E s \in Slot : AcceptTrip(s, t, trip'[t].driverId)
  BY <1>2, RowStep DEF RowChange
<1>3. TypeOK /\ [Next]_vars => GivenApart \/ UNCHANGED vars
  BY <1>2 DEF GivenApart
<1> QED  BY <1>1, <1>3, FleetInvariant, TypeCorrect, PTL DEF Spec, FleetsAreSegregated

-----------------------------------------------------------------------------
(* Lapsed offers.  A search knows the exclusions it read, which may be old *)
(* by the time it offers; the invariant follows a lapsed driver from the   *)
(* offer into the exclusions and from there into what the next round read. *)

LapsedInv(u) ==
    /\ trip[u].status = "NONE" => matcher[u].pc = "idle" /\ lapsed[u] = {}
    /\ matcher[u].pc \in {"armed", "excluding"} =>
          lapsed[u] \subseteq excluded[u] \cup matcher[u].offered
    /\ matcher[u].pc \in {"read", "exclusions", "reset", "escalateThenMatch"} =>
          lapsed[u] \subseteq excluded[u]
    /\ matcher[u].pc \in {"search", "offer"} =>
          lapsed[u] \subseteq excluded[u] \cap matcher[u].known
    /\ matcher[u].pc = "offer" => matcher[u].offered \cap matcher[u].known = {}

LEMMA LapsedNext ==
  ASSUME TypeOK, [Next]_vars, NEW u \in Trip, LapsedInv(u)
  PROVE  LapsedInv(u)'
<1>0. /\ excluded \in [Trip -> SUBSET Driver] /\ lapsed \in [Trip -> SUBSET Driver]
      /\ matcher \in [Trip -> Matcher] /\ matcher[u] \in Matcher
      /\ req \in [Slot -> Request]
      /\ \A s \in Slot : req[s].pc # "idle" => req[s].trip \in Trip
  BY DEF TypeOK, WellFormed
<1>r. trip'[u].status = "NONE" => trip[u].status = "NONE"
  BY RowStep DEF RowChange
<1>a. ASSUME matcher'[u] = matcher[u], lapsed'[u] = lapsed[u], excluded[u] \subseteq excluded'[u]
      PROVE  LapsedInv(u)'
  BY <1>a, <1>r DEF LapsedInv
<1>b. ASSUME UNCHANGED <<matcher, lapsed, excluded>>
      PROVE  LapsedInv(u)'
  BY <1>a, <1>b
<1>c. NoMatcher.pc = "idle" /\ \A pc : [NoMatcher EXCEPT !.pc = pc].pc = pc
  BY DEF NoMatcher
<1>d. ASSUME matcher'[u].pc = "idle", lapsed'[u] = lapsed[u]
      PROVE  LapsedInv(u)'
  BY <1>d, <1>r DEF LapsedInv
<1> USE DEF history, MatcherTo, MatcherAt
<1>1. ASSUME NEW t \in Trip, CreateTrip(t) \/ TimePasses(t)
      PROVE  LapsedInv(u)'
  <2>1. CASE CreateTrip(t) /\ t = u
    <3>1. trip'[u].status = "REQUESTED"
      BY <2>1 DEF CreateTrip, Store, TypeOK, TripRow
    <3>2. matcher'[u].pc = "read" /\ UNCHANGED <<excluded, lapsed>> /\ lapsed[u] = {}
      BY <1>0, <2>1 DEF CreateTrip, LapsedInv, Matcher
    <3> QED  BY <3>1, <3>2 DEF LapsedInv
  <2>2. CASE CreateTrip(t) /\ t # u  BY <1>0, <1>a, <2>2 DEF CreateTrip
  <2>3. CASE TimePasses(t)  BY <1>b, <2>3 DEF TimePasses
  <2> QED  BY <1>1, <2>1, <2>2, <2>3
<1>2. ASSUME NEW t \in Trip, MatcherStep(t) \/ MatchingFailed(t) \/ OfferRoundFailed(t)
      PROVE  LapsedInv(u)'
  <2>a. CASE t # u
    <3>1. matcher'[u] = matcher[u]
      BY <1>0, <1>2, <2>a DEF MatcherStep, MatchRead, MatchExclusions, MatchSearch, MatchNobody,
        OfferToDrivers, OfferTimeout, ExcludeOffered, ResetToRequested, MatchEscalated, MatchingFailed,
        OfferRoundFailed
    <3>2. lapsed'[u] = lapsed[u]
      BY <1>0, <1>2, <2>a DEF MatcherStep, MatchRead, MatchExclusions, MatchSearch, MatchNobody,
        OfferToDrivers, OfferTimeout, ExcludeOffered, ResetToRequested, MatchEscalated, MatchingFailed,
        OfferRoundFailed
    <3>3. excluded'[u] = excluded[u]
      BY <1>0, <1>2, <2>a DEF MatcherStep, MatchRead, MatchExclusions, MatchSearch, MatchNobody,
        OfferToDrivers, OfferTimeout, ExcludeOffered, ResetToRequested, MatchEscalated, MatchingFailed,
        OfferRoundFailed
    <3> QED  BY <1>a, <3>1, <3>2, <3>3
  <2>b. CASE t = u
    <3>0. matcher[u].pc # "idle" => trip[u].status # "NONE"
      BY DEF LapsedInv
    <3>1. CASE MatchRead(u)
      BY <1>0, <1>c, <1>r, <3>0, <3>1 DEF MatchRead, LapsedInv
    <3>2. CASE MatchExclusions(u)
      BY <1>0, <1>r, <3>0, <3>2 DEF MatchExclusions, LapsedInv, Matcher
    <3>3. CASE MatchSearch(u)
      <4>1. UNCHANGED <<lapsed, excluded>>
        BY <3>3 DEF MatchSearch
      <4>2. CASE MatcherTo(u, "nobody")
        BY <1>0, <1>r, <3>0, <3>3, <4>1, <4>2 DEF MatchSearch, LapsedInv, Matcher
      <4>3. ASSUME NEW best \in SUBSET Eligible(u),
                   matcher' = [matcher EXCEPT ![u] = [@ EXCEPT !.pc = "offer", !.offered = best]]
            PROVE  LapsedInv(u)'
        <5>1. /\ matcher'[u].pc = "offer" /\ matcher'[u].offered = best
              /\ matcher'[u].known = matcher[u].known
          BY <1>0, <4>3 DEF Matcher
        <5>2. best \cap matcher[u].known = {}
          BY <4>3 DEF Eligible
        <5> QED  BY <1>r, <3>0, <3>3, <4>1, <5>1, <5>2 DEF MatchSearch, LapsedInv
      <4> QED  BY <3>3, <4>2, <4>3 DEF MatchSearch
    <3>4. CASE MatchNobody(u)
      BY <1>0, <1>r, <3>0, <3>4 DEF MatchNobody, LapsedInv, Matcher
    <3>5. CASE OfferToDrivers(u)
      BY <1>0, <1>r, <3>0, <3>5 DEF OfferToDrivers, LapsedInv, Matcher
    <3>6. CASE OfferTimeout(u)
      BY <1>0, <1>c, <1>r, <3>0, <3>6 DEF OfferTimeout, LapsedInv, Matcher
    <3>7. CASE ExcludeOffered(u)
      <4>1. UNCHANGED lapsed /\ matcher[u].pc = "excluding"
        BY <3>7 DEF ExcludeOffered
      <4>2. CASE ToExclude(u) = {}
        <5>1. matcher'[u].pc = "reset" /\ UNCHANGED excluded
          BY <1>0, <3>7, <4>2 DEF ExcludeOffered, Matcher
        <5> QED  BY <1>r, <3>0, <4>1, <4>2, <5>1 DEF LapsedInv, ToExclude
      <4>3. ASSUME NEW d, excluded' = [excluded EXCEPT ![u] = @ \cup {d}],
                   matcher' = [matcher EXCEPT ![u].offered = @ \ {d}]
            PROVE  LapsedInv(u)'
        <5>1. /\ matcher'[u].pc = "excluding" /\ matcher'[u].offered = matcher[u].offered \ {d}
              /\ excluded'[u] = excluded[u] \cup {d}
          BY <1>0, <4>1, <4>3 DEF Matcher
        <5> QED  BY <1>r, <3>0, <4>1, <5>1 DEF LapsedInv
      <4> QED  BY <3>7, <4>2, <4>3 DEF ExcludeOffered
    <3>8. CASE ResetToRequested(u)
      BY <1>0, <1>r, <3>0, <3>8 DEF ResetToRequested, LapsedInv, Matcher
    <3>9. CASE MatchEscalated(u)
      BY <1>0, <1>c, <1>r, <3>0, <3>9 DEF MatchEscalated, LapsedInv
    <3>10. CASE MatchingFailed(u)
      BY <1>0, <1>c, <1>d, <3>10 DEF MatchingFailed
    <3>11. CASE OfferRoundFailed(u)
      <4>1. trip[u].status # "NONE"
        BY <3>0, <3>11 DEF OfferRoundFailed
      <4>2. matcher'[u].pc = "broken" /\ UNCHANGED lapsed
        BY <1>0, <1>c, <3>11 DEF OfferRoundFailed
      <4> QED  BY <1>r, <4>1, <4>2 DEF LapsedInv
    <3> QED
      BY <1>2, <2>b, <3>1, <3>2, <3>3, <3>4, <3>5, <3>6, <3>7, <3>8, <3>9, <3>10, <3>11
      DEF MatcherStep
  <2> QED  BY <2>a, <2>b
<1>3. ASSUME NEW t \in Trip, NEW e \in Escalator,
             EscalateRead(t, e) \/ EscalateWrite(t, e) \/ EscalationFailed(t, e)
      PROVE  LapsedInv(u)'
  BY <1>3, <1>b DEF EscalateRead, EscalateWrite, EscalationFailed
<1>4. ASSUME NEW s \in Slot, RequestStep(s) \/ RequestFailed(s)
      PROVE  LapsedInv(u)'
  <2>1. CASE ClearExclusions(s)
    <3>1. UNCHANGED matcher /\ (lapsed'[u] = {} \/ (lapsed'[u] = lapsed[u] /\ excluded'[u] = excluded[u]))
      BY <1>0, <2>1 DEF ClearExclusions
    <3>2. CASE lapsed'[u] = {}
      BY <1>r, <3>1, <3>2 DEF LapsedInv
    <3> QED  BY <1>a, <3>1, <3>2
  <2>2. CASE DeclineWrite(s)
    BY <1>0, <1>a, <2>2 DEF DeclineWrite
  <2>3. CASE StartWrite(s) \/ CompleteClaim(s) \/ StampFinalFare(s) \/ RecordTripPayout(s)
             \/ AwardTripCompletionPoints(s) \/ CancelWrite(s) \/ RequestFailed(s)
    BY <1>b, <2>3 DEF StartWrite, CompleteClaim, StampFinalFare, RecordTripPayout,
      AwardTripCompletionPoints, CancelWrite, RequestFailed
  <2> QED  BY <1>4, <2>1, <2>2, <2>3 DEF RequestStep
<1>5. ASSUME NEW s \in Slot, NEW t \in Trip, NEW d \in Driver, DriverCall(s, t, d)
      PROVE  LapsedInv(u)'
  BY <1>b, <1>5 DEF DriverCall, AcceptTrip, DeclineTrip, StartTrip, CompleteTrip
<1>6. ASSUME NEW s \in Slot, NEW t \in Trip, NEW by \in Driver \cup {Rider},
             NEW graceOver \in BOOLEAN, CancelTrip(s, t, by, graceOver)
      PROVE  LapsedInv(u)'
  BY <1>6, <1>b DEF CancelTrip
<1>7. ASSUME NEW t \in Trip, NEW d \in Driver, ManuallyAssign(t, d)
      PROVE  LapsedInv(u)'
  BY <1>b, <1>7 DEF ManuallyAssign
<1>8. CASE Restart
  BY <1>c, <1>d, <1>8 DEF Restart
<1>9. CASE UNCHANGED vars
  BY <1>b, <1>9 DEF vars
<1> QED
  BY <1>1, <1>2, <1>3, <1>4, <1>5, <1>6, <1>7, <1>8, <1>9 DEF Next

\* Old as the exclusions a search works from may be, it never chooses a driver
\* who let an offer of this trip lapse.
THEOREM LapsedDriversAreNotReoffered == Spec => []LapsedAreNotReoffered
<1> DEFINE Inv == \A u \in Trip : LapsedInv(u)
<1>1. Init => Inv
  <2> SUFFICES ASSUME Init, NEW u \in Trip PROVE LapsedInv(u)
    OBVIOUS
  <2>1. matcher[u].pc = "idle" /\ lapsed[u] = {}
    BY DEF Init, NoMatcher
  <2> QED  BY <2>1 DEF LapsedInv
<1>2. TypeOK /\ Inv /\ [Next]_vars => Inv'
  BY LapsedNext
<1>3. Inv => LapsedAreNotReoffered
  BY DEF LapsedInv, LapsedAreNotReoffered
<1> HIDE DEF Inv
<1> QED  BY <1>1, <1>2, <1>3, TypeCorrect, PTL DEF Spec

-----------------------------------------------------------------------------
(* Payouts.  A complete call that won the claim and has not paid yet       *)
(* stands for a completion that is not paid yet, and one that has paid and *)
(* not rewarded yet for a payout without its award.                        *)

ToPay(t) == {s \in Slot : req[s].trip = t /\ req[s].pc \in {"stamping", "paying"}}
ToAward(t) == {s \in Slot : req[s].trip = t /\ req[s].pc = "awarding"}

BooksInv(t) ==
    /\ books[t].payouts + Cardinality(ToPay(t)) <= books[t].completions
    /\ books[t].awards + Cardinality(ToAward(t)) <= books[t].payouts
    /\ books[t].payouts > 0 => trip[t].finalFare
    /\ \A s \in Slot : req[s].trip = t /\ req[s].pc = "paying" => trip[t].finalFare

LEMMA SlotSets ==
  ASSUME NEW t
  PROVE  /\ IsFiniteSet(ToPay(t)) /\ IsFiniteSet(ToAward(t))
         /\ Cardinality(ToPay(t)) \in Nat /\ Cardinality(ToAward(t)) \in Nat
<1>1. ToPay(t) \subseteq Slot /\ ToAward(t) \subseteq Slot
  BY DEF ToPay, ToAward
<1>2. IsFiniteSet(ToPay(t)) /\ IsFiniteSet(ToAward(t))
  BY <1>1, TripsAssumption, FS_Subset
<1> QED  BY <1>2, FS_CardinalityType

\* A step that leaves the books of a trip alone and brings no request nearer to
\* paying for it.
LEMMA BooksKept ==
  ASSUME TypeOK, NEW t \in Trip, BooksInv(t), RowChange(t), books'[t] = books[t],
         \A s \in Slot : req'[s].pc \in {"stamping", "paying", "awarding"} => req'[s] = req[s]
  PROVE  BooksInv(t)'
<1>1. ToPay(t)' \subseteq ToPay(t) /\ ToAward(t)' \subseteq ToAward(t)
  BY DEF ToPay, ToAward
<1>2. /\ Cardinality(ToPay(t)') \in Nat /\ Cardinality(ToPay(t)') <= Cardinality(ToPay(t))
      /\ Cardinality(ToAward(t)') \in Nat /\ Cardinality(ToAward(t)') <= Cardinality(ToAward(t))
  <2>1. IsFiniteSet(ToPay(t)') /\ IsFiniteSet(ToAward(t)')
    BY <1>1, SlotSets, FS_Subset
  <2> QED  BY <1>1, <2>1, SlotSets, FS_Subset, FS_CardinalityType
<1>3. books[t] \in [completions : Nat, payouts : Nat, awards : Nat]
  BY DEF TypeOK
<1>4. /\ books'[t].payouts + Cardinality(ToPay(t)') <= books'[t].completions
      /\ books'[t].awards + Cardinality(ToAward(t)') <= books'[t].payouts
  <2> DEFINE p == Cardinality(ToPay(t))  pp == Cardinality(ToPay(t)')
             a == Cardinality(ToAward(t))  aa == Cardinality(ToAward(t)')
  <2>1. p \in Nat /\ a \in Nat /\ pp \in Nat /\ aa \in Nat /\ pp <= p /\ aa <= a
    BY <1>2, SlotSets
  <2>2. books[t].payouts + p <= books[t].completions /\ books[t].awards + a <= books[t].payouts
    BY DEF BooksInv
  <2> HIDE DEF p, pp, a, aa
  <2>3. books'[t].payouts + pp <= books'[t].completions /\ books'[t].awards + aa <= books'[t].payouts
    BY <1>3, <2>1, <2>2
  <2> QED  BY <2>3 DEF pp, aa
<1>5. books'[t].payouts > 0 => trip'[t].finalFare
  BY DEF BooksInv, RowChange
<1>6. \A s \in Slot : req'[s].trip = t /\ req'[s].pc = "paying" => trip'[t].finalFare
  BY DEF BooksInv, RowChange
<1> QED  BY <1>4, <1>5, <1>6 DEF BooksInv

LEMMA BooksNext ==
  ASSUME TypeOK, [Next]_vars, NEW t \in Trip, BooksInv(t)
  PROVE  BooksInv(t)'
<1>0. /\ req \in [Slot -> Request]
      /\ books \in [Trip -> [completions : Nat, payouts : Nat, awards : Nat]]
      /\ books[t] \in [completions : Nat, payouts : Nat, awards : Nat]
      /\ trip \in [Trip -> TripRow]
  BY DEF TypeOK
<1>r. RowChange(t)
  BY RowStep
<1>i. Idle.pc = "idle"
  BY DEF Idle
<1> DEFINE Nearer(s) == req'[s].pc \in {"stamping", "paying", "awarding"} => req'[s] = req[s]
           p == Cardinality(ToPay(t))  a == Cardinality(ToAward(t))
<1>n. p \in Nat /\ a \in Nat
  BY SlotSets
<1>p. books[t].payouts + p <= books[t].completions /\ books[t].awards + a <= books[t].payouts
  BY DEF BooksInv
<1>k. ASSUME books'[t] = books[t], \A s \in Slot : Nearer(s)
      PROVE  BooksInv(t)'
  BY <1>k, <1>r, BooksKept
<1>f. ASSUME NEW s \in Slot, Finish(s), books'[t] = books[t]
      PROVE  BooksInv(t)'
  <2>1. \A q \in Slot : Nearer(q)
    BY <1>0, <1>i, <1>f DEF Finish
  <2> QED  BY <1>f, <1>k, <2>1
<1>1. CASE Quiet
  BY <1>1, <1>i, <1>k DEF Quiet
<1>2. CASE OtherCall
  BY <1>0, <1>2, <1>k DEF OtherCall, Begin
<1>3. CASE CancelCall
  BY <1>0, <1>3, <1>k DEF CancelCall, CancelTrip, Begin, history
<1>4. ASSUME NEW s \in Slot, CancelWrite(s)
      PROVE  BooksInv(t)'
  BY <1>0, <1>4, <1>k DEF CancelWrite, Continue, Request, history
<1>5. ASSUME NEW s \in Slot, CompleteClaim(s)
      PROVE  BooksInv(t)'
  <2>1. CASE Finish(s) /\ UNCHANGED books
    BY <1>f, <2>1
  <2>2. CASE Continue(s, "stamping") /\ req[s].trip # t
    <3>1. books'[t] = books[t]
      BY <1>0, <1>5, <2>2 DEF CompleteClaim
    <3>2. ToPay(t)' = ToPay(t) /\ ToAward(t)' = ToAward(t)
      BY <1>0, <1>5, <2>2 DEF CompleteClaim, Continue, Request, ToPay, ToAward
    <3>3. \A q \in Slot : req'[q].trip = t /\ req'[q].pc = "paying" => req[q].trip = t /\ req[q].pc = "paying"
      BY <1>0, <2>2 DEF Continue, Request
    <3> QED  BY <1>r, <3>1, <3>2, <3>3 DEF BooksInv, RowChange
  <2>3. CASE Continue(s, "stamping") /\ req[s].trip = t /\ ClaimsCompletion(t)
    <3>1. /\ books'[t].completions = books[t].completions + 1
          /\ books'[t].payouts = books[t].payouts /\ books'[t].awards = books[t].awards
      BY <1>0, <1>5, <1>i, <2>3 DEF CompleteClaim, ClaimsCompletion, Finish, Continue
    <3>2. ToPay(t)' = ToPay(t) \cup {s} /\ s \notin ToPay(t) /\ ToAward(t)' = ToAward(t)
      BY <1>0, <1>5, <2>3 DEF CompleteClaim, Continue, Request, ToPay, ToAward
    <3>3. Cardinality(ToPay(t)') = p + 1
      BY <3>2, SlotSets, FS_AddElement
    <3>4. \A q \in Slot : req'[q].trip = t /\ req'[q].pc = "paying" => req[q].trip = t /\ req[q].pc = "paying"
      BY <1>0, <2>3 DEF Continue, Request
    <3> HIDE DEF p, a
    <3>5. books'[t].payouts + (p + 1) <= books'[t].completions
      BY <1>0, <1>n, <1>p, <3>1
    <3> QED  BY <1>r, <3>1, <3>2, <3>3, <3>4, <3>5 DEF BooksInv, RowChange
  <2> QED  BY <1>5, <2>1, <2>2, <2>3 DEF CompleteClaim
<1>6. ASSUME NEW s \in Slot, StampFinalFare(s)
      PROVE  BooksInv(t)'
  <2>1. books' = books
    BY <1>6 DEF StampFinalFare, history
  <2>2. CASE Finish(s)
    BY <1>f, <2>1, <2>2
  <2>3. CASE Continue(s, "paying")
    <3>1. ToPay(t)' = ToPay(t) /\ ToAward(t)' = ToAward(t)
      BY <1>0, <1>6, <2>3 DEF StampFinalFare, Continue, Request, ToPay, ToAward
    <3>2. ASSUME req[s].trip = t PROVE trip'[t].finalFare
      <4>1. trip' = [trip EXCEPT ![t] = [trip[t] EXCEPT !.finalFare = TRUE]]
        BY <1>6, <3>2 DEF StampFinalFare, Store
      <4>2. trip'[t] = [trip[t] EXCEPT !.finalFare = TRUE]
        BY <1>0, <4>1
      <4> QED  BY <1>0, <4>2 DEF TripRow
    <3>3. \A q \in Slot : req'[q].trip = t /\ req'[q].pc = "paying" =>
             q = s \/ (req[q].trip = t /\ req[q].pc = "paying")
      BY <1>0, <2>3 DEF Continue, Request
    <3>4. req'[s].trip = req[s].trip
      BY <1>0, <2>3 DEF Continue, Request
    <3> QED  BY <1>r, <2>1, <3>1, <3>2, <3>3, <3>4 DEF BooksInv, RowChange
  <2> QED  BY <1>6, <2>2, <2>3 DEF StampFinalFare
<1>7. ASSUME NEW s \in Slot, RecordTripPayout(s)
      PROVE  BooksInv(t)'
  <2>f. CASE AlreadyPaid(req[s].trip)
    BY <1>7, <1>f, <2>f DEF RecordTripPayout
  <2> SUFFICES ASSUME ~AlreadyPaid(req[s].trip) PROVE BooksInv(t)'
    BY <2>f
  <2>1. req[s].pc = "paying" /\ Continue(s, "awarding") /\ UNCHANGED trip
    BY <1>7 DEF RecordTripPayout
  <2>2. \A q \in Slot : req'[q].trip = t /\ req'[q].pc = "paying" => req[q].trip = t /\ req[q].pc = "paying"
    BY <1>0, <2>1 DEF Continue, Request
  <2>3. CASE req[s].trip # t
    <3>1. books'[t] = books[t]
      BY <1>0, <1>7, <2>3 DEF RecordTripPayout
    <3>2. ToPay(t)' = ToPay(t) /\ ToAward(t)' = ToAward(t)
      BY <1>0, <2>1, <2>3 DEF Continue, Request, ToPay, ToAward
    <3> QED  BY <1>r, <2>2, <3>1, <3>2 DEF BooksInv, RowChange
  <2>4. CASE req[s].trip = t
    <3>1. /\ books'[t].payouts = books[t].payouts + 1
          /\ books'[t].completions = books[t].completions /\ books'[t].awards = books[t].awards
      BY <1>0, <1>7, <2>4 DEF RecordTripPayout
    <3>2. /\ ToPay(t)' = ToPay(t) \ {s} /\ s \in ToPay(t)
          /\ ToAward(t)' = ToAward(t) \cup {s} /\ s \notin ToAward(t)
      BY <1>0, <2>1, <2>4 DEF Continue, Request, ToPay, ToAward
    <3>3. Cardinality(ToPay(t)') = p - 1 /\ Cardinality(ToAward(t)') = a + 1
      <4>1. Cardinality(ToPay(t) \ {s}) = p - 1
        BY <3>2, SlotSets, FS_RemoveElement
      <4>2. Cardinality(ToAward(t) \cup {s}) = a + 1
        BY <3>2, SlotSets, FS_AddElement
      <4> QED  BY <3>2, <4>1, <4>2
    <3>4. trip[t].finalFare
      BY <2>1, <2>4 DEF BooksInv
    <3> HIDE DEF p, a
    <3>5. /\ books'[t].payouts + (p - 1) <= books'[t].completions
          /\ books'[t].awards + (a + 1) <= books'[t].payouts
      BY <1>0, <1>n, <1>p, <3>1
    <3> QED  BY <2>1, <2>2, <3>3, <3>4, <3>5 DEF BooksInv
  <2> QED  BY <2>3, <2>4
<1>8. ASSUME NEW s \in Slot, AwardTripCompletionPoints(s)
      PROVE  BooksInv(t)'
  <2>1. req[s].pc = "awarding" /\ Finish(s) /\ UNCHANGED trip
    BY <1>8 DEF AwardTripCompletionPoints
  <2>2. CASE req[s].trip # t
    <3>1. books'[t] = books[t]
      BY <1>0, <1>8, <2>2 DEF AwardTripCompletionPoints
    <3> QED  BY <1>f, <2>1, <3>1
  <2>3. CASE req[s].trip = t
    <3>1. /\ books'[t].awards = books[t].awards + 1
          /\ books'[t].completions = books[t].completions /\ books'[t].payouts = books[t].payouts
      BY <1>0, <1>8, <2>3 DEF AwardTripCompletionPoints
    <3>2. ToPay(t)' = ToPay(t) /\ ToAward(t)' = ToAward(t) \ {s} /\ s \in ToAward(t)
      BY <1>0, <1>i, <2>1, <2>3 DEF Finish, ToPay, ToAward
    <3>3. Cardinality(ToAward(t)') = a - 1
      BY <3>2, SlotSets, FS_RemoveElement
    <3>4. \A q \in Slot : req'[q].trip = t /\ req'[q].pc = "paying" => req[q].trip = t /\ req[q].pc = "paying"
      BY <1>0, <1>i, <2>1 DEF Finish
    <3> HIDE DEF p, a
    <3>5. books'[t].awards + (a - 1) <= books'[t].payouts
      BY <1>0, <1>n, <1>p, <3>1
    <3> QED  BY <2>1, <3>1, <3>2, <3>3, <3>4, <3>5 DEF BooksInv
  <2> QED  BY <2>2, <2>3
<1> QED
  BY <1>1, <1>2, <1>3, <1>4, <1>5, <1>6, <1>7, <1>8, RequestStepChange DEF RequestChange, Settling

AllBooksInv == \A t \in Trip : BooksInv(t)

LEMMA BooksInvariant == Spec => []AllBooksInv
<1>1. Init => AllBooksInv
  <2> SUFFICES ASSUME Init, NEW t \in Trip PROVE BooksInv(t)
    BY DEF AllBooksInv
  <2>1. /\ books[t].completions = 0 /\ books[t].payouts = 0 /\ books[t].awards = 0
        /\ \A s \in Slot : req[s].pc = "idle"
    BY DEF Init, Idle
  <2>2. ToPay(t) = {} /\ ToAward(t) = {}
    BY <2>1 DEF ToPay, ToAward
  <2> QED  BY <2>1, <2>2, FS_EmptySet DEF BooksInv
<1>2. TypeOK /\ AllBooksInv /\ [Next]_vars => AllBooksInv'
  BY BooksNext DEF AllBooksInv
<1> QED  BY <1>1, <1>2, TypeCorrect, PTL DEF Spec

LEMMA BackedBooks ==
  ASSUME TypeOK, NEW t \in Trip, BooksInv(t)
  PROVE  /\ books[t] \in [completions : Nat, payouts : Nat, awards : Nat]
         /\ books[t].payouts <= books[t].completions
         /\ books[t].awards <= books[t].payouts
         /\ books[t].payouts > 0 => trip[t].finalFare
         /\ ToPay(t) # {} => books[t].payouts < books[t].completions
         /\ ToAward(t) # {} => books[t].awards < books[t].payouts
<1> DEFINE p == Cardinality(ToPay(t))  a == Cardinality(ToAward(t))
<1>1. p \in Nat /\ a \in Nat /\ (ToPay(t) # {} => p # 0) /\ (ToAward(t) # {} => a # 0)
  BY SlotSets, FS_EmptySet
<1>2. /\ books[t].payouts + p <= books[t].completions /\ books[t].awards + a <= books[t].payouts
      /\ books[t].payouts > 0 => trip[t].finalFare
  BY DEF BooksInv
<1>3. books[t] \in [completions : Nat, payouts : Nat, awards : Nat]
  BY DEF TypeOK
<1> HIDE DEF p, a
<1> QED  BY <1>1, <1>2, <1>3

\* However many complete calls race and however often the trip is reopened, each
\* payout has a completion of its own and each award a payout of its own.
THEOREM PayoutsStayBacked == Spec => []PayoutsAreBacked
<1>1. TypeOK /\ AllBooksInv => PayoutsAreBacked
  BY BackedBooks DEF AllBooksInv, PayoutsAreBacked
<1> QED  BY <1>1, BooksInvariant, TypeCorrect, PTL

-----------------------------------------------------------------------------
(* Trips implements Settlement.  The unique index keeps a trip to one      *)
(* payout; what the requests in flight stand for (BooksInv) and the fleets *)
(* (FleetInv) give the rest.                                               *)

PaidOnce == \A t \in Trip : books[t].payouts <= 1

LEMMA SettleStep ==
  ASSUME TypeOK, FleetInv, AllBooksInv, PaidOnce, [Next]_vars
  PROVE  PaidOnce' /\ [Settle!Next]_Settle!vars
<1>0. /\ req \in [Slot -> Request]
      /\ \A s \in Slot : req[s].pc # "idle" => req[s].trip \in Trip
      /\ books \in [Trip -> [completions : Nat, payouts : Nat, awards : Nat]]
  BY DEF TypeOK, WellFormed
<1>1. \A t \in Trip : trip'[t].isTest = trip[t].isTest
  BY RowStep DEF RowChange
<1>2. CASE books' = books
  BY <1>1, <1>2 DEF PaidOnce, Settle!vars
<1>3. ASSUME NEW s \in Slot, CompleteClaim(s), books' # books
      PROVE  PaidOnce' /\ [Settle!Next]_Settle!vars
  <2>1. PICK t \in Trip, n \in Nat :
           /\ n >= books[t].completions
           /\ n > 0
           /\ books' = [books EXCEPT ![t].completions = n]
    <3>1. PICK t \in Trip : t = req[s].trip
      BY <1>0, <1>3 DEF CompleteClaim
    <3>2. books[t].completions \in Nat
      BY <1>0
    <3>3. books' = [books EXCEPT ![t].completions = @ + 1]
      BY <1>3, <3>1 DEF CompleteClaim, ClaimsCompletion
    <3>4. PICK n \in Nat : n = books[t].completions + 1
      BY <3>2
    <3>5. books' = [books EXCEPT ![t].completions = n]
      BY <3>3, <3>4
    <3>6. n >= books[t].completions /\ n > 0
      BY <3>2, <3>4
    <3> QED  BY <3>5, <3>6
  <2>2. /\ books'[t].completions = n
        /\ books'[t].payouts = books[t].payouts /\ books'[t].awards = books[t].awards
        /\ \A u \in Trip \ {t} : books'[u] = books[u]
    BY <1>0, <2>1
  <2>3. PaidOnce'
    BY <2>2 DEF PaidOnce
  <2>4. /\ [u \in Trip |-> books'[u].payouts] = [u \in Trip |-> books[u].payouts]
        /\ [u \in Trip |-> books'[u].awards] = [u \in Trip |-> books[u].awards]
    BY <2>2
  <2>5. CASE books[t].completions > 0 \/ trip[t].isTest
    <3>1. [u \in Trip |-> books'[u].completions > 0 /\ ~trip'[u].isTest]
             = [u \in Trip |-> books[u].completions > 0 /\ ~trip[u].isTest]
      BY <1>0, <1>1, <2>1, <2>2, <2>5
    <3> QED  BY <2>3, <2>4, <3>1 DEF Settle!vars
  <2>6. CASE ~(books[t].completions > 0) /\ ~trip[t].isTest
    <3>1. [u \in Trip |-> books'[u].completions > 0 /\ ~trip'[u].isTest]
             = [[u \in Trip |-> books[u].completions > 0 /\ ~trip[u].isTest] EXCEPT ![t] = TRUE]
      BY <1>0, <1>1, <2>1, <2>2, <2>6
    <3>2. Settle!Earn(t)
      BY <2>4, <2>6, <3>1 DEF Settle!Earn
    <3> QED  BY <2>1, <2>3, <3>2 DEF Settle!Next
  <2> QED  BY <2>5, <2>6
<1>4. ASSUME NEW s \in Slot, RecordTripPayout(s), books' # books
      PROVE  PaidOnce' /\ [Settle!Next]_Settle!vars
  <2>1. PICK t \in Trip : t = req[s].trip /\ s \in ToPay(t)
    BY <1>0, <1>4 DEF RecordTripPayout, ToPay
  <2>2. /\ ~AlreadyPaid(t) /\ books' = [books EXCEPT ![t].payouts = @ + 1]
    BY <1>4, <2>1 DEF RecordTripPayout
  <2>3. books[t].payouts = 0 /\ books[t].completions > 0
    <3>1. books[t].payouts < books[t].completions
      BY <2>1, BackedBooks DEF AllBooksInv
    <3> QED  BY <1>0, <2>2, <3>1 DEF AlreadyPaid
  <2>4. ~trip[t].isTest
    BY <1>4, <2>1 DEF RecordTripPayout, FleetInv
  <2>5. /\ books'[t].payouts = 1
        /\ books'[t].completions = books[t].completions /\ books'[t].awards = books[t].awards
        /\ \A u \in Trip \ {t} : books'[u] = books[u]
    BY <1>0, <2>2, <2>3
  <2>6. PaidOnce'
    BY <2>5 DEF PaidOnce
  <2>7. /\ [u \in Trip |-> books'[u].payouts] = [[u \in Trip |-> books[u].payouts] EXCEPT ![t] = 1]
        /\ [u \in Trip |-> books'[u].awards] = [u \in Trip |-> books[u].awards]
        /\ [u \in Trip |-> books'[u].completions > 0 /\ ~trip'[u].isTest]
             = [u \in Trip |-> books[u].completions > 0 /\ ~trip[u].isTest]
    BY <1>1, <2>5
  <2>8. Settle!Pay(t)
    BY <2>3, <2>4, <2>7 DEF Settle!Pay
  <2> QED  BY <2>6, <2>8 DEF Settle!Next
<1>5. ASSUME NEW s \in Slot, AwardTripCompletionPoints(s)
      PROVE  PaidOnce' /\ [Settle!Next]_Settle!vars
  <2>1. PICK t \in Trip : t = req[s].trip /\ s \in ToAward(t)
    BY <1>0, <1>5 DEF AwardTripCompletionPoints, ToAward
  <2>2. books' = [books EXCEPT ![t].awards = @ + 1]
    BY <1>5, <2>1 DEF AwardTripCompletionPoints
  <2>3. books[t].awards = 0 /\ books[t].payouts = 1
    <3>1. books[t].awards < books[t].payouts /\ books[t].payouts <= 1
      BY <2>1, BackedBooks DEF AllBooksInv, PaidOnce
    <3> QED  BY <1>0, <3>1
  <2>5. /\ books'[t].awards = 1
        /\ books'[t].completions = books[t].completions /\ books'[t].payouts = books[t].payouts
        /\ \A u \in Trip \ {t} : books'[u] = books[u]
    BY <1>0, <2>2, <2>3
  <2>6. PaidOnce'
    BY <2>5 DEF PaidOnce
  <2>7. /\ [u \in Trip |-> books'[u].awards] = [[u \in Trip |-> books[u].awards] EXCEPT ![t] = 1]
        /\ [u \in Trip |-> books'[u].payouts] = [u \in Trip |-> books[u].payouts]
        /\ [u \in Trip |-> books'[u].completions > 0 /\ ~trip'[u].isTest]
             = [u \in Trip |-> books[u].completions > 0 /\ ~trip[u].isTest]
    BY <1>1, <2>5
  <2>8. Settle!Reward(t)
    BY <2>3, <2>7 DEF Settle!Reward
  <2> QED  BY <2>6, <2>8 DEF Settle!Next
<1>6. \/ books' = books
      \/ \E s \in Slot : CompleteClaim(s) \/ RecordTripPayout(s) \/ AwardTripCompletionPoints(s)
  BY RequestStepChange
     DEF RequestChange, Quiet, OtherCall, CancelCall, CancelTrip, CancelWrite, Settling,
         StampFinalFare, history
<1> QED  BY <1>2, <1>3, <1>4, <1>5, <1>6

\* Trips implements Settlement: however starts, completes and cancels race and however
\* often a completed ride is reopened, a real ride is paid at most once and rewarded at
\* most once, after its payout (completeTrip's claim, the ledger's unique index), and a
\* test ride never is.
THEOREM TripsSettleOnce == Spec => SettlesOnce
<1>1. Init => PaidOnce /\ Settle!Init
  <2> SUFFICES ASSUME Init PROVE PaidOnce /\ Settle!Init
    OBVIOUS
  <2>1. books = [t \in Trip |-> [completions |-> 0, payouts |-> 0, awards |-> 0]]
    BY DEF Init
  <2>2. ASSUME NEW t \in Trip
        PROVE  /\ ~(books[t].completions > 0)
               /\ books[t].payouts = 0 /\ books[t].awards = 0
    BY <2>1
  <2>3. PaidOnce
    BY <2>2 DEF PaidOnce
  <2>4. /\ [t \in Trip |-> books[t].completions > 0 /\ ~trip[t].isTest] = [t \in Trip |-> FALSE]
        /\ [t \in Trip |-> books[t].payouts] = [t \in Trip |-> 0]
        /\ [t \in Trip |-> books[t].awards] = [t \in Trip |-> 0]
    BY <2>2
  <2> QED  BY <2>3, <2>4 DEF Settle!Init
<1>2. TypeOK /\ FleetInv /\ AllBooksInv /\ PaidOnce /\ [Next]_vars
         => PaidOnce' /\ [Settle!Next]_Settle!vars
  BY SettleStep
<1> QED
  BY <1>1, <1>2, TypeCorrect, FleetInvariant, BooksInvariant, PTL DEF Spec, SettlesOnce, Settle!Spec
=============================================================================
