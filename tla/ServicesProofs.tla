---------------------------- MODULE ServicesProofs ----------------------------
(***************************************************************************)
(* Proofs about Safety, Loyalty, Ratings and Booking, and that what is     *)
(* proved of a component by itself holds of the services together.         *)
(***************************************************************************)
EXTENDS Services, PartsProofs, SumTheorems

-----------------------------------------------------------------------------
(* Safety.                                                                 *)

SosState ==
    [pc : {"none", "refused", "create", "notify", "emit", "done", "failed"},
     user : Caller \cup {None}, job : Job \cup {None}, context : Claim]
IncidentState ==
    [status : {"none", "OPEN", "ACKNOWLEDGED", "RESOLVED"}, user : Caller \cup {None},
     context : Claim, unverified : Job \cup {None}, handled : BOOLEAN, after : SUBSET Call]

SafetyTypeOK ==
    /\ onJob \in [Job -> Caller \cup {None}]
    /\ everOn \in [Job -> SUBSET Caller]
    /\ sos \in [Call -> SosState]
    /\ incident \in [Call -> IncidentState]
    /\ notified \in [Call -> SUBSET Admin]
    /\ alerted \in [Call -> SUBSET Admin]

\* everOn knows whoever may own a context.
EveryoneIsKnown ==
    \A j \in Job : {Requester[j], onJob[j]} \ {None} \subseteq everOn[j]

\* How far a request has got: r, with its incident i.
Verified(user, context) == context.type # None => user \in everOn[context.job]
SosProgress(r, i) ==
    /\ r.pc \in {"none", "refused"} => i.status = "none"
    /\ r.pc = "create" => /\ i.status = "none"
                          /\ r.context = NoClaim \/ r.context.job = r.job
                          /\ Verified(r.user, r.context)
    /\ r.pc \in {"notify", "emit", "done"} =>
          /\ i.status # "none" /\ i.user = r.user
          /\ r.job \in {i.context.job, i.unverified}
    /\ i.status \in {"ACKNOWLEDGED", "RESOLVED"} => i.handled
    /\ Verified(i.user, i.context)
SosReach(r, told, live) ==
    /\ r.pc \in {"emit", "done"} => told = Admin
    /\ r.pc = "done" => live = Admin

SafetyInv ==
    /\ SafetyTypeOK
    /\ EveryoneIsKnown
    /\ \A c \in Call : SosProgress(sos[c], incident[c]) /\ SosReach(sos[c], notified[c], alerted[c])

LEMMA SosTypes ==
  /\ NoClaim \in Claim /\ NoClaim.type = None /\ NoClaim.job = None
  /\ \A claim \in Claim : claim.job \in Job \cup {None} /\ (claim.type # None => claim.job \in Job)
  /\ NoSos \in SosState /\ NoSos.pc = "none"
  /\ SosFailed \in SosState /\ SosFailed.pc = "failed"
  /\ NoIncident \in IncidentState /\ NoIncident.status = "none" /\ NoIncident.context = NoClaim
  BY DEF NoSos, SosFailed, NoIncident, NoClaim, Claim, SosState, IncidentState

LEMMA SafetyInitInv == SafetyInit => SafetyInv
<1> SUFFICES ASSUME SafetyInit PROVE SafetyInv
  OBVIOUS
<1>1. SafetyTypeOK
  BY SosTypes, SafetyAssumption DEF SafetyInit, SafetyTypeOK
<1>2. EveryoneIsKnown
  BY SafetyAssumption DEF SafetyInit, EveryoneIsKnown
<1>3. \A c \in Call : SosProgress(sos[c], incident[c]) /\ SosReach(sos[c], notified[c], alerted[c])
  BY SosTypes DEF SafetyInit, SosProgress, SosReach, Verified
<1> QED  BY <1>1, <1>2, <1>3 DEF SafetyInv

\* A request that goes on, with what it changes; the others stay where they were.
LEMMA OneSosMoves ==
  ASSUME SafetyInv, NEW c \in Call,
         sos' \in [Call -> SosState], incident' \in [Call -> IncidentState],
         notified' \in [Call -> SUBSET Admin], alerted' \in [Call -> SUBSET Admin],
         UNCHANGED <<onJob, everOn>>,
         \A b \in Call \ {c} : /\ sos'[b] = sos[b] /\ incident'[b] = incident[b]
                               /\ notified'[b] = notified[b] /\ alerted'[b] = alerted[b],
         SosProgress(sos[c], incident[c])', SosReach(sos[c], notified[c], alerted[c])'
  PROVE  SafetyInv'
<1>1. ASSUME NEW b \in Call
      PROVE  SosProgress(sos[b], incident[b])' /\ SosReach(sos[b], notified[b], alerted[b])'
  <2>1. CASE b = c
    BY <2>1
  <2>2. CASE b # c
    BY <2>2 DEF SafetyInv, SosProgress, SosReach, Verified
  <2> QED  BY <2>1, <2>2
<1> QED  BY <1>1 DEF SafetyInv, SafetyTypeOK, EveryoneIsKnown

LEMMA SafetyStep ==
  ASSUME SafetyInv, [SafetyNext]_safetyVars
  PROVE  SafetyInv'
<1>0. /\ \A c \in Call : sos[c] \in SosState /\ incident[c] \in IncidentState
      /\ \A c \in Call : SosProgress(sos[c], incident[c]) /\ SosReach(sos[c], notified[c], alerted[c])
      /\ SafetyTypeOK /\ EveryoneIsKnown
  BY DEF SafetyInv, SafetyTypeOK
<1>1. ASSUME NEW j \in Job, NEW d \in (Caller \ {Requester[j]}) \cup {None}, JobIsDriven(j, d)
      PROVE  SafetyInv'
  <2>1. /\ onJob' = [onJob EXCEPT ![j] = d]
        /\ everOn' = [everOn EXCEPT ![j] = @ \cup ({d} \ {None})]
        /\ UNCHANGED <<sos, incident, notified, alerted>>
    BY <1>1 DEF JobIsDriven
  <2>2. SafetyTypeOK' /\ \A i \in Job : everOn[i] \subseteq everOn'[i]
    BY <1>0, <2>1 DEF SafetyTypeOK
  <2>3. EveryoneIsKnown'
    BY <1>0, <2>1, <2>2 DEF SafetyTypeOK, EveryoneIsKnown
  <2>4. ASSUME NEW c \in Call
        PROVE  SosProgress(sos[c], incident[c])' /\ SosReach(sos[c], notified[c], alerted[c])'
    <3>1. /\ sos[c].context.type # None => sos[c].context.job \in Job
          /\ incident[c].context.type # None => incident[c].context.job \in Job
      BY <1>0, SosTypes DEF SosState, IncidentState
    <3> QED  BY <1>0, <2>1, <2>2, <3>1 DEF SosProgress, SosReach, Verified
  <2> QED  BY <2>2, <2>3, <2>4 DEF SafetyInv
<1>2. ASSUME NEW c \in Call, NEW u \in Caller, NEW claim \in Claim, NEW readable \in BOOLEAN,
             RaiseIncident(c, u, claim, readable)
      PROVE  SafetyInv'
  <2> DEFINE r(context) == [pc |-> "create", user |-> u, job |-> claim.job, context |-> context]
  <2>1. PICK context \in {claim, NoClaim} :
          /\ sos' = [sos EXCEPT ![c] = r(context)]
          /\ context = NoClaim \/ OwnsContext(u, claim)
    BY <1>2 DEF RaiseIncident
  <2>2. r(context) \in SosState
    BY <2>1, SosTypes DEF SosState
  <2>3. sos'[c] = r(context)
    BY <2>1 DEF SafetyInv, SafetyTypeOK
  <2>4. UNCHANGED <<onJob, everOn, incident, notified, alerted>> /\ sos[c].pc = "none"
    BY <1>2 DEF RaiseIncident
  <2>5. Verified(u, context)
    <3>1. CASE context = NoClaim
      BY <3>1, SosTypes DEF Verified
    <3>2. CASE context = claim /\ OwnsContext(u, claim)
      <4>1. claim.type # None => claim.job \in Job
        BY SosTypes
      <4> QED  BY <1>0, <3>2, <4>1, SafetyAssumption DEF OwnsContext, EveryoneIsKnown, Verified
    <3> QED  BY <2>1, <3>1, <3>2
  <2>6. /\ sos'[c].pc = "create" /\ sos'[c].user = u /\ sos'[c].job = claim.job
        /\ sos'[c].context = context
    BY <2>3
  <2>7. SosProgress(sos[c], incident[c])' /\ SosReach(sos[c], notified[c], alerted[c])'
    BY <1>0, <2>1, <2>4, <2>5, <2>6 DEF SosProgress, SosReach, Verified
  <2> QED  BY <1>0, <2>1, <2>2, <2>4, <2>7, OneSosMoves DEF SafetyTypeOK
<1>3. ASSUME NEW c \in Call, CreateIncident(c)
      PROVE  SafetyInv'
  <2> DEFINE i == [status |-> "OPEN", user |-> sos[c].user, context |-> sos[c].context,
                   unverified |-> IF sos[c].context = NoClaim THEN sos[c].job ELSE None,
                   handled |-> FALSE, after |-> {b \in Call : incident[b].status # "none"}]
  <2>1. /\ sos[c].pc = "create" /\ incident' = [incident EXCEPT ![c] = i]
        /\ sos' = [sos EXCEPT ![c].pc = "notify"]
        /\ UNCHANGED <<onJob, everOn, notified, alerted>>
    BY <1>3 DEF CreateIncident
  <2>2. i \in IncidentState /\ [sos[c] EXCEPT !.pc = "notify"] \in SosState
    BY <1>0 DEF IncidentState, SosState
  <2>3. incident'[c] = i /\ sos'[c] = [sos[c] EXCEPT !.pc = "notify"]
    BY <2>1 DEF SafetyInv, SafetyTypeOK
  <2>4. /\ sos'[c].pc = "notify" /\ sos'[c].user = sos[c].user /\ sos'[c].job = sos[c].job
        /\ incident'[c].status = "OPEN" /\ incident'[c].user = sos[c].user
        /\ incident'[c].context = sos[c].context
        /\ sos[c].context = NoClaim => incident'[c].unverified = sos[c].job
    BY <1>0, <2>3 DEF SosState
  <2>5. SosProgress(sos[c], incident[c])' /\ SosReach(sos[c], notified[c], alerted[c])'
    BY <1>0, <2>1, <2>4 DEF SosProgress, SosReach, Verified
  <2> QED  BY <1>0, <2>1, <2>2, <2>5, OneSosMoves DEF SafetyTypeOK
<1>4. ASSUME NEW c \in Call, NEW reached \in SUBSET Admin, NotifyAdmins(c, reached)
      PROVE  SafetyInv'
  <2>1. /\ sos[c].pc = "notify" /\ notified' = [notified EXCEPT ![c] = reached]
        /\ UNCHANGED <<onJob, everOn, incident, alerted>>
    BY <1>4 DEF NotifyAdmins
  <2>2. PICK r : /\ sos' = [sos EXCEPT ![c] = r]
                 /\ \/ reached = Admin /\ r = [sos[c] EXCEPT !.pc = "emit"]
                    \/ r = SosFailed
    BY <1>4 DEF NotifyAdmins, SafetyInv, SafetyTypeOK
  <2>3. r \in SosState /\ [sos[c] EXCEPT !.pc = "emit"] \in SosState
    BY <1>0, <2>2, SosTypes DEF SosState
  <2>4. \/ /\ r.pc = "emit" /\ reached = Admin
           /\ r.user = sos[c].user /\ r.job = sos[c].job
        \/ r.pc = "failed"
    BY <1>0, <2>2, SosTypes DEF SosState
  <2>5. sos'[c] = r /\ notified'[c] = reached
    BY <2>1, <2>2 DEF SafetyInv, SafetyTypeOK
  <2>6. SosProgress(sos[c], incident[c])' /\ SosReach(sos[c], notified[c], alerted[c])'
    BY <1>0, <2>1, <2>4, <2>5 DEF SosProgress, SosReach, Verified
  <2> QED  BY <1>0, <2>1, <2>2, <2>3, <2>6, OneSosMoves DEF SafetyTypeOK
<1>5. ASSUME NEW c \in Call, EmitToAdmins(c)
      PROVE  SafetyInv'
  <2>1. /\ sos[c].pc = "emit" /\ alerted' = [alerted EXCEPT ![c] = Admin]
        /\ sos' = [sos EXCEPT ![c].pc = "done"]
        /\ UNCHANGED <<onJob, everOn, incident, notified>>
    BY <1>5 DEF EmitToAdmins
  <2>2. [sos[c] EXCEPT !.pc = "done"] \in SosState
    BY <1>0 DEF SosState
  <2>3. sos'[c] = [sos[c] EXCEPT !.pc = "done"] /\ alerted'[c] = Admin
    BY <2>1 DEF SafetyInv, SafetyTypeOK
  <2>4. sos'[c].pc = "done" /\ sos'[c].user = sos[c].user /\ sos'[c].job = sos[c].job
    BY <1>0, <2>3 DEF SosState
  <2>5. SosProgress(sos[c], incident[c])' /\ SosReach(sos[c], notified[c], alerted[c])'
    BY <1>0, <2>1, <2>3, <2>4 DEF SosProgress, SosReach, Verified
  <2> QED  BY <1>0, <2>1, <2>2, <2>5, OneSosMoves DEF SafetyTypeOK
<1>6. ASSUME NEW c \in Call, SosFails(c)
      PROVE  SafetyInv'
  <2>1. /\ sos' = [sos EXCEPT ![c] = SosFailed]
        /\ UNCHANGED <<onJob, everOn, incident, notified, alerted>>
    BY <1>6 DEF SosFails
  <2>2. sos'[c].pc = "failed"
    BY <2>1, SosTypes DEF SafetyInv, SafetyTypeOK
  <2>3. SosProgress(sos[c], incident[c])' /\ SosReach(sos[c], notified[c], alerted[c])'
    BY <1>0, <2>1, <2>2 DEF SosProgress, SosReach, Verified
  <2> QED  BY <1>0, <2>1, <2>3, SosTypes, OneSosMoves DEF SafetyTypeOK
<1>7. ASSUME NEW c \in Call, NEW status \in {"ACKNOWLEDGED", "RESOLVED"}, UpdateStatus(c, status)
      PROVE  SafetyInv'
  <2>1. /\ incident[c].status # "none"
        /\ incident' = [incident EXCEPT ![c].status = status, ![c].handled = TRUE]
        /\ UNCHANGED <<onJob, everOn, sos, notified, alerted>>
    BY <1>7 DEF UpdateStatus
  <2>2. [incident[c] EXCEPT !.status = status, !.handled = TRUE] \in IncidentState
    <3>1. status \in {"none", "OPEN", "ACKNOWLEDGED", "RESOLVED"} /\ TRUE \in BOOLEAN
      OBVIOUS
    <3>2. incident[c] \in IncidentState
      BY <1>0
    <3> QED  BY <3>1, <3>2 DEF IncidentState
  <2>3. incident' = [incident EXCEPT ![c] = [incident[c] EXCEPT !.status = status, !.handled = TRUE]]
    BY <2>1 DEF SafetyInv, SafetyTypeOK
  <2>4. /\ incident'[c].status = status /\ incident'[c].handled
        /\ incident'[c].user = incident[c].user /\ incident'[c].context = incident[c].context
        /\ incident'[c].unverified = incident[c].unverified
    BY <1>0, <2>3 DEF SafetyInv, SafetyTypeOK, IncidentState
  <2>5. SosProgress(sos[c], incident[c])' /\ SosReach(sos[c], notified[c], alerted[c])'
    BY <1>0, <2>1, <2>4 DEF SosProgress, SosReach, Verified
  <2> QED  BY <1>0, <2>1, <2>2, <2>3, <2>5, OneSosMoves DEF SafetyTypeOK
<1>8. ASSUME NEW c \in Call, RefuseMalformed(c)
      PROVE  SafetyInv'
  <2>1. /\ sos[c].pc = "none" /\ sos' = [sos EXCEPT ![c].pc = "refused"]
        /\ UNCHANGED <<onJob, everOn, incident, notified, alerted>>
    BY <1>8 DEF RefuseMalformed
  <2>2. [sos[c] EXCEPT !.pc = "refused"] \in SosState
    BY <1>0 DEF SosState
  <2>3. sos'[c] = [sos[c] EXCEPT !.pc = "refused"]
    BY <2>1 DEF SafetyInv, SafetyTypeOK
  <2>4. sos'[c].pc = "refused"
    BY <1>0, <2>3 DEF SosState
  <2>5. SosProgress(sos[c], incident[c])' /\ SosReach(sos[c], notified[c], alerted[c])'
    BY <1>0, <2>1, <2>4 DEF SosProgress, SosReach, Verified
  <2> QED  BY <1>0, <2>1, <2>2, <2>5, OneSosMoves DEF SafetyTypeOK
<1>9. CASE UNCHANGED safetyVars
  BY <1>9 DEF safetyVars, SafetyInv, SafetyTypeOK, EveryoneIsKnown, SosProgress, SosReach, Verified
<1> QED
  BY <1>1, <1>2, <1>3, <1>4, <1>5, <1>6, <1>7, <1>8, <1>9 DEF SafetyNext

\* An SOS the DTO lets in and whose request ends well has its incident, its notifications
\* and its events (raiseIncident), whatever ops do to the incident meanwhile, and it is
\* listed until it was handled or as many newer ones as the list takes are open; and no
\* incident has a job with its type as its context that its caller was never on.
THEOREM SosIsAlwaysHeard == SafetySpec => []SosIsHeard
<1>1. SafetyInv /\ [SafetyNext]_safetyVars => SafetyInv'
  BY SafetyStep
<1>2. SafetyInv => SosIsHeard
  <2> SUFFICES ASSUME SafetyInv, NEW c \in Call
               PROVE  /\ sos[c].pc = "done" =>
                           /\ incident[c].user = sos[c].user
                           /\ sos[c].job \in {incident[c].context.job, incident[c].unverified}
                           /\ c \notin ListOpen => incident[c].handled \/ Crowded(c)
                           /\ notified[c] = Admin /\ alerted[c] = Admin
                      /\ incident[c].context.type # None =>
                           incident[c].user \in everOn[incident[c].context.job]
    BY DEF SosIsHeard
  <2>1. SosProgress(sos[c], incident[c]) /\ SosReach(sos[c], notified[c], alerted[c])
    BY DEF SafetyInv
  <2>2. incident[c].status \in {"none", "OPEN", "ACKNOWLEDGED", "RESOLVED"}
    BY DEF SafetyInv, SafetyTypeOK, IncidentState
  <2> QED  BY <2>1, <2>2 DEF SosProgress, SosReach, Verified, ListOpen, Open
<1> QED  BY <1>1, <1>2, SafetyInitInv, PTL DEF SafetySpec

-----------------------------------------------------------------------------
(* Loyalty.                                                                *)

MintState == [pc : {"idle"}] \cup [pc : {"mint"}, user : User, attempt : Nat]

\* A user whose mints never overlapped: one request writes their only code.
MintsOnce(u) ==
    /\ handedOut[u] \subseteq {referralCode[u]}
    /\ \A c \in Minting(u) : referralCode[u] = None
    /\ \A b, c \in Minting(u) : b = c

LoyaltyInv ==
    /\ referralCode \in [User -> ReferralCode \cup {None}]
    /\ handedOut \in [User -> SUBSET ReferralCode]
    /\ minting \in [Call -> MintState]
    /\ \A u \in User \ doubled : MintsOnce(u)

LEMMA LoyaltyInitInv == LoyaltyInit => LoyaltyInv
<1> SUFFICES ASSUME LoyaltyInit PROVE LoyaltyInv
  OBVIOUS
<1>1. Idle \in MintState /\ Idle.pc = "idle"
  BY DEF Idle, MintState
<1>2. \A u \in User : Minting(u) = {}
  BY <1>1 DEF LoyaltyInit, Minting
<1> QED  BY <1>1, <1>2 DEF LoyaltyInit, LoyaltyInv, MintsOnce

LEMMA LoyaltyStep ==
  ASSUME LoyaltyInv, [LoyaltyNext]_loyaltyVars
  PROVE  LoyaltyInv'
<1>0. Idle \in MintState /\ Idle.pc = "idle"
  BY DEF Idle, MintState
<1>1. CASE UNCHANGED <<referralCode, handedOut, minting, doubled>>
  BY <1>1 DEF LoyaltyInv, MintsOnce, Minting
<1>2. ASSUME NEW u \in User, ReferralCodeIsThere(u)
      PROVE  LoyaltyInv'
  <2>1. /\ referralCode[u] # None
        /\ handedOut' = [handedOut EXCEPT ![u] = @ \cup {referralCode[u]}]
        /\ UNCHANGED <<referralCode, minting, doubled>>
    BY <1>2 DEF ReferralCodeIsThere, MustMint
  <2>2. handedOut' \in [User -> SUBSET ReferralCode]
    BY <2>1 DEF LoyaltyInv
  <2>3. ASSUME NEW v \in User \ doubled'
        PROVE  MintsOnce(v)'
    BY <2>1, <2>3 DEF LoyaltyInv, MintsOnce, Minting
  <2> QED  BY <2>1, <2>2, <2>3 DEF LoyaltyInv
<1>3. ASSUME NEW c \in Call, NEW u \in User, EnsureReferralCode(c, u)
      PROVE  LoyaltyInv'
  <2> DEFINE m == [pc |-> "mint", user |-> u, attempt |-> 0]
  <2>1. /\ minting[c].pc = "idle" /\ referralCode[u] = None
        /\ minting' = [minting EXCEPT ![c] = m]
        /\ doubled' = IF Minting(u) = {} THEN doubled ELSE doubled \cup {u}
        /\ UNCHANGED <<referralCode, handedOut>>
    BY <1>3 DEF EnsureReferralCode, MustMint
  <2>2. m \in MintState
    BY DEF MintState
  <2>3. minting' \in [Call -> MintState] /\ minting'[c] = m
    BY <2>1, <2>2 DEF LoyaltyInv
  <2>4. Minting(u)' = Minting(u) \cup {c}
    BY <2>1, <2>3 DEF LoyaltyInv, Minting
  <2>5. ASSUME NEW v \in User, v # u PROVE Minting(v)' = Minting(v)
    BY <2>1, <2>3, <2>5 DEF LoyaltyInv, Minting
  <2>6. ASSUME NEW v \in User \ doubled'
        PROVE  MintsOnce(v)'
    <3>1. CASE v = u
      BY <2>1, <2>4, <2>6, <3>1 DEF LoyaltyInv, MintsOnce
    <3>2. CASE v # u
      BY <2>1, <2>5, <2>6, <3>2 DEF LoyaltyInv, MintsOnce
    <3> QED  BY <3>1, <3>2
  <2> QED  BY <2>1, <2>3, <2>6 DEF LoyaltyInv
<1>4. ASSUME NEW c \in Call, NEW k \in ReferralCode, WriteCode(c, k)
      PROVE  LoyaltyInv'
  <2>1. PICK u \in User :
          /\ minting[c].pc = "mint" /\ minting[c].user = u
          /\ referralCode' = [referralCode EXCEPT ![u] = k]
          /\ handedOut' = [handedOut EXCEPT ![u] = @ \cup {k}]
          /\ minting' = [minting EXCEPT ![c] = Idle]
          /\ UNCHANGED doubled
    <3>1. minting[c].pc = "mint" /\ minting[c] \in MintState
      BY <1>4 DEF WriteCode, LoyaltyInv
    <3>2. minting[c].user \in User
      BY <3>1 DEF MintState
    <3> QED  BY <1>4, <3>2 DEF WriteCode
  <2>2. /\ referralCode' \in [User -> ReferralCode \cup {None}]
        /\ handedOut' \in [User -> SUBSET ReferralCode]
        /\ minting' \in [Call -> MintState]
    BY <1>0, <2>1 DEF LoyaltyInv
  <2>3. \A v \in User : Minting(v)' = Minting(v) \ {c}
    BY <1>0, <2>1 DEF LoyaltyInv, Minting
  <2>4. ASSUME NEW v \in User \ doubled'
        PROVE  MintsOnce(v)'
    <3>0. MintsOnce(v)
      BY <2>1 DEF LoyaltyInv
    <3>1. CASE v = u
      <4>1. c \in Minting(u)
        BY <2>1 DEF Minting
      <4>2. handedOut[u] = {}
        BY <3>0, <3>1, <4>1, LoyaltyAssumption DEF MintsOnce, LoyaltyInv
      <4>3. handedOut'[u] = {k} /\ referralCode'[u] = k
        BY <2>1, <4>2 DEF LoyaltyInv
      <4>4. Minting(u)' = {}
        BY <2>3, <3>0, <3>1, <4>1 DEF MintsOnce
      <4> QED  BY <3>1, <4>3, <4>4 DEF MintsOnce
    <3>2. CASE v # u
      BY <2>1, <2>3, <3>0, <3>2 DEF LoyaltyInv, MintsOnce
    <3> QED  BY <3>1, <3>2
  <2> QED  BY <2>2, <2>4 DEF LoyaltyInv
<1>5. ASSUME NEW c \in Call, NEW k \in ReferralCode, CodeCollides(c, k)
      PROVE  LoyaltyInv'
  <2>1. PICK m : /\ minting[c].pc = "mint"
                 /\ m = Idle \/ m = [minting[c] EXCEPT !.attempt = @ + 1]
                 /\ minting' = [minting EXCEPT ![c] = m]
                 /\ UNCHANGED <<referralCode, handedOut, doubled>>
    BY <1>5 DEF CodeCollides
  <2>2. minting[c] \in [pc : {"mint"}, user : User, attempt : Nat]
    BY <2>1 DEF LoyaltyInv, MintState
  <2>3. /\ m \in MintState
        /\ m = Idle \/ (m.pc = "mint" /\ m.user = minting[c].user)
    <3>1. PICK n \in Nat : n = minting[c].attempt + 1
      BY <2>2
    <3>2. CASE m = Idle
      BY <1>0, <3>2
    <3>3. CASE m = [minting[c] EXCEPT !.attempt = n]
      BY <2>2, <3>3 DEF MintState
    <3> QED  BY <2>1, <3>1, <3>2, <3>3
  <2>4. minting' \in [Call -> MintState] /\ minting'[c] = m
    BY <2>1, <2>3 DEF LoyaltyInv
  <2>5. \A v \in User : Minting(v)' \subseteq Minting(v)
    BY <1>0, <2>1, <2>3, <2>4 DEF LoyaltyInv, Minting
  <2> QED  BY <2>1, <2>4, <2>5 DEF LoyaltyInv, MintsOnce
<1>6. ASSUME NEW c \in Call,
             \/ \E u \in User, k \in ReferralCode \cup {None} : RequestOtp(c, u, k)
             \/ CreateUser(c) \/ FindReferrer(c) \/ LinkReferral(c)
             \/ AwardReferral(c) \/ SignUpFails(c)
      PROVE  LoyaltyInv'
  BY <1>1, <1>6 DEF RequestOtp, CreateUser, FindReferrer, LinkReferral, AwardReferral, SignUpFails
<1>7. CASE UNCHANGED loyaltyVars
  BY <1>1, <1>7 DEF loyaltyVars
<1> QED
  BY <1>2, <1>3, <1>4, <1>5, <1>6, <1>7 DEF LoyaltyNext

\* The referral code a user was shown (ensureReferralCode) goes on naming them: among
\* however many concurrent requests of however many users, only two mints for the
\* same user at the same time can replace it.
THEOREM CodesGoOnWorking == LoyaltySpec => []CodesKeepWorking
<1>1. LoyaltyInv /\ [LoyaltyNext]_loyaltyVars => LoyaltyInv'
  BY LoyaltyStep
<1>2. LoyaltyInv => CodesKeepWorking
  BY DEF LoyaltyInv, MintsOnce, CodesKeepWorking
<1> QED  BY <1>1, <1>2, LoyaltyInitInv, PTL DEF LoyaltySpec

-----------------------------------------------------------------------------
(* Loyalty: referrals.                                                     *)

SignUpState ==
    [pc : {"idle"}]
    \cup [pc : {"create", "find", "link", "award"}, user : User,
          code : ReferralCode \cup {None}, referrer : User \cup {None}]

ReferralTypeOK ==
    /\ account \subseteq User
    /\ referredBy \in [User -> User \cup {None}]
    /\ bonuses \in [User -> Nat] /\ lostBonus \in [User -> Nat]
    /\ signUp \in [Call -> SignUpState]

\* A request that may still name a referrer is the only one to do so for an account
\* that has none.
Referring(r) == r.pc \in {"find", "link"}
ReferringInv ==
    /\ \A c \in Call : Referring(signUp[c]) =>
          signUp[c].user \in account /\ referredBy[signUp[c].user] = None
    /\ \A b, c \in Call :
          Referring(signUp[b]) /\ Referring(signUp[c]) /\ signUp[b].user = signUp[c].user => b = c
    /\ \A c \in Call : signUp[c].pc \in {"link", "award"} => signUp[c].referrer \in User
    /\ \A u \in User \ account : referredBy[u] = None

Referred(u) == {v \in User : referredBy[v] = u}
ReferralInv == ReferralTypeOK /\ ReferringInv /\ BonusesMatchReferrals

LEMMA IdleSignUp == Idle \in SignUpState /\ Idle.pc = "idle"
BY DEF Idle, SignUpState

LEMMA ReferralInitInv == LoyaltyInit => ReferralInv
<1> SUFFICES ASSUME LoyaltyInit PROVE ReferralInv
  OBVIOUS
<1>1. ReferralTypeOK /\ ReferringInv
  BY IdleSignUp DEF LoyaltyInit, ReferralTypeOK, ReferringInv, Referring
<1>2. ASSUME NEW u \in User
      PROVE  {v \in User : referredBy[v] = u} = {} /\ Awarding(u) = {}
  BY IdleSignUp, PeopleAssumption DEF LoyaltyInit, Awarding
<1>3. Cardinality({}) = 0
  BY FS_EmptySet
<1>4. ASSUME NEW u \in User
      PROVE  Cardinality({v \in User : referredBy[v] = u}) =
                bonuses[u] + Cardinality(Awarding(u)) + lostBonus[u]
  BY <1>2, <1>3 DEF LoyaltyInit
<1>5. BonusesMatchReferrals
  BY <1>4 DEF BonusesMatchReferrals
<1> QED  BY <1>1, <1>5 DEF ReferralInv

LEMMA ReferralsAreFinite ==
  ASSUME NEW u
  PROVE  /\ IsFiniteSet(Referred(u)) /\ IsFiniteSet(Awarding(u))
         /\ Cardinality(Referred(u)) \in Nat /\ Cardinality(Awarding(u)) \in Nat
<1>1. IsFiniteSet(User) /\ IsFiniteSet(Call)
  BY LoyaltyAssumption
<1>2. Referred(u) \subseteq User /\ Awarding(u) \subseteq Call
  BY DEF Referred, Awarding
<1>3. IsFiniteSet(Referred(u)) /\ IsFiniteSet(Awarding(u))
  BY <1>1, <1>2, FS_Subset
<1> QED  BY <1>3, FS_CardinalityType

\* One request moves to r.
LEMMA AwardingMoves ==
  ASSUME ReferralTypeOK, NEW c \in Call, NEW r \in SignUpState, signUp' = [signUp EXCEPT ![c] = r]
  PROVE  /\ signUp' \in [Call -> SignUpState] /\ signUp'[c] = r
         /\ \A b \in Call \ {c} : signUp'[b] = signUp[b]
         /\ \A u \in User : (signUp[c].pc # "award" \/ signUp[c].referrer # u)
                            /\ (r.pc # "award" \/ r.referrer # u) => Awarding(u)' = Awarding(u)
         /\ \A u \in User : signUp[c].pc # "award" /\ r.pc = "award" /\ r.referrer = u =>
                              c \notin Awarding(u) /\ Awarding(u)' = Awarding(u) \cup {c}
         /\ \A u \in User : signUp[c].pc = "award" /\ r.pc # "award" /\ signUp[c].referrer = u =>
                              c \in Awarding(u) /\ Awarding(u)' = Awarding(u) \ {c}
<1>1. /\ signUp' \in [Call -> SignUpState] /\ signUp'[c] = r
      /\ \A b \in Call \ {c} : signUp'[b] = signUp[b]
  BY DEF ReferralTypeOK
<1>2. ASSUME NEW u \in User, signUp[c].pc # "award" \/ signUp[c].referrer # u,
             r.pc # "award" \/ r.referrer # u
      PROVE  Awarding(u)' = Awarding(u)
  BY <1>1, <1>2 DEF Awarding
<1>3. ASSUME NEW u \in User, signUp[c].pc # "award", r.pc = "award", r.referrer = u
      PROVE  c \notin Awarding(u) /\ Awarding(u)' = Awarding(u) \cup {c}
  BY <1>1, <1>3 DEF Awarding
<1>4. ASSUME NEW u \in User, signUp[c].pc = "award", r.pc # "award", signUp[c].referrer = u
      PROVE  c \in Awarding(u) /\ Awarding(u)' = Awarding(u) \ {c}
  BY <1>1, <1>4 DEF Awarding
<1> QED  BY <1>1, <1>2, <1>3, <1>4

\* A move on which no referral is made, paid or lost.
LEMMA NoReferral ==
  ASSUME BonusesMatchReferrals, UNCHANGED <<referredBy, bonuses, lostBonus>>,
         \A u \in User : Awarding(u)' = Awarding(u)
  PROVE  BonusesMatchReferrals'
BY DEF BonusesMatchReferrals

\* A move of one request to r that names no new referrer.
LEMMA ReferringMoves ==
  ASSUME ReferralTypeOK, ReferringInv, NEW c \in Call, NEW r \in SignUpState,
         signUp' = [signUp EXCEPT ![c] = r], UNCHANGED <<account, referredBy>>,
         Referring(r) => Referring(signUp[c]) /\ r.user = signUp[c].user,
         r.pc \in {"link", "award"} => r.referrer \in User
  PROVE  ReferringInv'
<1>1. /\ signUp'[c] = r /\ \A b \in Call \ {c} : signUp'[b] = signUp[b]
  BY AwardingMoves
<1>2. \A b \in Call : Referring(signUp'[b]) =>
                        Referring(signUp[b]) /\ signUp'[b].user = signUp[b].user
  BY <1>1
<1>3. \A b \in Call : signUp'[b].pc \in {"link", "award"} => signUp'[b].referrer \in User
  BY <1>1 DEF ReferringInv
<1> HIDE DEF Referring
<1> QED  BY <1>2, <1>3 DEF ReferringInv

LEMMA ReferralStep ==
  ASSUME ReferralInv, [LoyaltyNext]_loyaltyVars
  PROVE  ReferralInv'
<1>0. ReferralTypeOK /\ ReferringInv /\ BonusesMatchReferrals
  BY DEF ReferralInv
<1>1. CASE UNCHANGED <<account, referredBy, bonuses, signUp, lostBonus>>
  BY <1>1 DEF ReferralInv, ReferralTypeOK, ReferringInv, BonusesMatchReferrals, Awarding
<1>2. ASSUME NEW c \in Call, NEW u \in User, NEW k \in ReferralCode \cup {None}, RequestOtp(c, u, k)
      PROVE  ReferralInv'
  <2> DEFINE r == [pc |-> "create", user |-> u, code |-> k, referrer |-> None]
  <2>1. /\ signUp[c].pc = "idle" /\ signUp' = [signUp EXCEPT ![c] = r]
        /\ UNCHANGED <<account, referredBy, bonuses, lostBonus>>
    BY <1>2 DEF RequestOtp, AfterLookup
  <2>2. r \in SignUpState /\ r.pc = "create"
    BY DEF SignUpState
  <2> HIDE DEF r
  <2>3. signUp' \in [Call -> SignUpState] /\ \A v \in User : Awarding(v)' = Awarding(v)
    BY <1>0, <2>1, <2>2, AwardingMoves
  <2>4. ReferringInv'
    BY <1>0, <2>1, <2>2, ReferringMoves DEF Referring
  <2>5. BonusesMatchReferrals'
    BY <1>0, <2>1, <2>3, NoReferral
  <2> QED  BY <1>0, <2>1, <2>3, <2>4, <2>5 DEF ReferralInv, ReferralTypeOK
<1>3. ASSUME NEW c \in Call, CreateUser(c)
      PROVE  ReferralInv'
  <2>1. /\ signUp[c].pc = "create" /\ signUp[c].user \notin account
        /\ account' = account \cup {signUp[c].user}
        /\ UNCHANGED <<referredBy, bonuses, lostBonus>>
    BY <1>3 DEF CreateUser
  <2>2. PICK r : /\ r = Idle \/ r = [signUp[c] EXCEPT !.pc = "find"]
                 /\ signUp' = [signUp EXCEPT ![c] = r]
    BY <1>3 DEF CreateUser, SignUpDone, SignUpAt
  <2>3. signUp[c] \in SignUpState /\ signUp[c].user \in User
    BY <1>0, <2>1 DEF ReferralTypeOK, SignUpState
  <2>4. /\ r \in SignUpState
        /\ r.pc = "idle" \/ (r.pc = "find" /\ r.user = signUp[c].user)
    <3>1. CASE r = Idle
      BY <3>1, IdleSignUp
    <3>2. CASE r = [signUp[c] EXCEPT !.pc = "find"]
      BY <2>1, <2>3, <3>2 DEF SignUpState
    <3> QED  BY <2>2, <3>1, <3>2
  <2>5. /\ signUp' \in [Call -> SignUpState] /\ signUp'[c] = r
        /\ \A b \in Call \ {c} : signUp'[b] = signUp[b]
        /\ \A v \in User : Awarding(v)' = Awarding(v)
    BY <1>0, <2>1, <2>2, <2>4, AwardingMoves
  <2>6. \A b \in Call \ {c} : Referring(signUp'[b]) => signUp'[b].user # signUp[c].user
    BY <1>0, <2>1, <2>5 DEF ReferringInv
  <2>7. ReferringInv'
    BY <1>0, <2>1, <2>3, <2>4, <2>5, <2>6 DEF ReferringInv, Referring
  <2>8. BonusesMatchReferrals'
    BY <1>0, <2>1, <2>5, NoReferral
  <2> QED  BY <1>0, <2>1, <2>3, <2>5, <2>7, <2>8 DEF ReferralInv, ReferralTypeOK
<1>4. ASSUME NEW c \in Call, FindReferrer(c)
      PROVE  ReferralInv'
  <2>1. signUp[c].pc = "find" /\ UNCHANGED <<account, referredBy, bonuses, lostBonus>>
    BY <1>4 DEF FindReferrer
  <2>2. PICK r : /\ \/ r = Idle
                    \/ \E v \in User : r = [[signUp[c] EXCEPT !.referrer = v] EXCEPT !.pc = "link"]
                 /\ signUp' = [signUp EXCEPT ![c] = r]
    BY <1>4 DEF FindReferrer, SignUpDone, SignUpAt, CodeNames
  <2>3. signUp[c] \in SignUpState
    BY <1>0 DEF ReferralTypeOK
  <2>4. /\ r \in SignUpState
        /\ r.pc = "idle" \/ (r.pc = "link" /\ r.user = signUp[c].user /\ r.referrer \in User)
    <3>1. CASE r = Idle
      BY <3>1, IdleSignUp
    <3>2. ASSUME NEW v \in User, r = [[signUp[c] EXCEPT !.referrer = v] EXCEPT !.pc = "link"]
          PROVE  r \in SignUpState /\ r.pc = "link" /\ r.user = signUp[c].user /\ r.referrer \in User
      BY <2>1, <2>3, <3>2 DEF SignUpState
    <3> QED  BY <2>2, <3>1, <3>2
  <2>5. signUp' \in [Call -> SignUpState] /\ \A v \in User : Awarding(v)' = Awarding(v)
    BY <1>0, <2>1, <2>2, <2>4, AwardingMoves
  <2>6. ReferringInv'
    BY <1>0, <2>1, <2>2, <2>4, ReferringMoves DEF Referring
  <2>7. BonusesMatchReferrals'
    BY <1>0, <2>1, <2>5, NoReferral
  <2> QED  BY <1>0, <2>1, <2>5, <2>6, <2>7 DEF ReferralInv, ReferralTypeOK
<1>5. ASSUME NEW c \in Call, LinkReferral(c)
      PROVE  ReferralInv'
  <2> DEFINE r == [signUp[c] EXCEPT !.pc = "award"]
  <2>1. PICK v, w : /\ v = signUp[c].user /\ w = signUp[c].referrer
                    /\ signUp[c].pc = "link" /\ referredBy' = [referredBy EXCEPT ![v] = w]
                    /\ signUp' = [signUp EXCEPT ![c] = r]
                    /\ UNCHANGED <<account, bonuses, lostBonus>>
    BY <1>5 DEF LinkReferral, SignUpAt
  <2>2. /\ signUp[c] \in SignUpState /\ v \in User /\ w \in User
        /\ v \in account /\ referredBy[v] = None
    BY <1>0, <2>1 DEF ReferralTypeOK, SignUpState, ReferringInv, Referring
  <2>3. r \in SignUpState /\ r.pc = "award" /\ r.user = v /\ r.referrer = w
    BY <2>1, <2>2 DEF SignUpState
  <2> HIDE DEF r
  <2>4. /\ signUp' \in [Call -> SignUpState] /\ signUp'[c] = r
        /\ \A b \in Call \ {c} : signUp'[b] = signUp[b]
        /\ \A u \in User \ {w} : Awarding(u)' = Awarding(u)
        /\ c \notin Awarding(w) /\ Awarding(w)' = Awarding(w) \cup {c}
    BY <1>0, <2>1, <2>2, <2>3, AwardingMoves
  <2>5. /\ referredBy' \in [User -> User \cup {None}] /\ referredBy'[v] = w
        /\ \A u \in User \ {v} : referredBy'[u] = referredBy[u]
    BY <1>0, <2>1, <2>2 DEF ReferralTypeOK
  <2>6. ReferringInv'
    <3>1. \A b \in Call \ {c} : Referring(signUp[b]) => signUp[b].user # v
      BY <1>0, <2>1 DEF ReferringInv, Referring
    <3> QED  BY <1>0, <2>1, <2>2, <2>3, <2>4, <2>5, <3>1 DEF ReferringInv, Referring
  <2>7. BonusesMatchReferrals'
    <3>1. ASSUME NEW u \in User, u # w
          PROVE  Cardinality(Referred(u))' = (bonuses[u] + Cardinality(Awarding(u)) + lostBonus[u])'
      <4>1. Referred(u)' = Referred(u)
        BY <2>2, <2>5, <3>1, PeopleAssumption DEF Referred
      <4>2. Awarding(u)' = Awarding(u)
        BY <2>4, <3>1
      <4> QED  BY <1>0, <2>1, <4>1, <4>2 DEF BonusesMatchReferrals, Referred
    <3>2. Cardinality(Referred(w))' = (bonuses[w] + Cardinality(Awarding(w)) + lostBonus[w])'
      <4>1. v \notin Referred(w) /\ Referred(w)' = Referred(w) \cup {v}
        BY <2>2, <2>5, PeopleAssumption DEF Referred
      <4>2. Cardinality(Referred(w))' = Cardinality(Referred(w)) + 1
        BY <4>1, ReferralsAreFinite, FS_AddElement
      <4>3. Cardinality(Awarding(w))' = Cardinality(Awarding(w)) + 1
        BY <2>4, ReferralsAreFinite, FS_AddElement
      <4>4. Cardinality(Referred(w)) = bonuses[w] + Cardinality(Awarding(w)) + lostBonus[w]
        BY <1>0, <2>2 DEF BonusesMatchReferrals, Referred
      <4>5. bonuses[w] \in Nat /\ lostBonus[w] \in Nat /\ Cardinality(Awarding(w)) \in Nat
        BY <1>0, <2>2, ReferralsAreFinite DEF ReferralTypeOK
      <4> QED  BY <2>1, <4>2, <4>3, <4>4, <4>5
    <3> QED  BY <3>1, <3>2 DEF BonusesMatchReferrals, Referred
  <2> QED  BY <1>0, <2>1, <2>4, <2>5, <2>6, <2>7 DEF ReferralInv, ReferralTypeOK
<1>6. ASSUME NEW c \in Call, AwardReferral(c) \/ SignUpFails(c)
      PROVE  ReferralInv'
  <2>1. /\ signUp' = [signUp EXCEPT ![c] = Idle] /\ signUp[c].pc # "idle"
        /\ UNCHANGED <<account, referredBy>>
    BY <1>6 DEF AwardReferral, SignUpFails, SignUpDone
  <2>2. ReferringInv'
    BY <1>0, <2>1, IdleSignUp, ReferringMoves DEF Referring
  <2>3. signUp' \in [Call -> SignUpState]
    BY <1>0, <2>1, IdleSignUp, AwardingMoves
  <2>4. CASE signUp[c].pc # "award"
    <3>1. UNCHANGED <<bonuses, lostBonus>>
      BY <1>6, <2>4 DEF AwardReferral, SignUpFails
    <3>2. \A u \in User : Awarding(u)' = Awarding(u)
      BY <1>0, <2>1, <2>4, IdleSignUp, AwardingMoves
    <3>3. BonusesMatchReferrals'
      BY <1>0, <2>1, <3>1, <3>2, NoReferral
    <3> QED  BY <1>0, <2>1, <2>2, <2>3, <3>1, <3>3 DEF ReferralInv, ReferralTypeOK
  <2>5. CASE signUp[c].pc = "award"
    <3>1. PICK w : w = signUp[c].referrer
      OBVIOUS
    <3>2. w \in User
      BY <1>0, <2>5, <3>1 DEF ReferringInv
    <3>3. /\ \A u \in User \ {w} : Awarding(u)' = Awarding(u)
          /\ c \in Awarding(w) /\ Awarding(w)' = Awarding(w) \ {c}
      BY <1>0, <2>1, <2>5, <3>1, <3>2, IdleSignUp, AwardingMoves
    <3>4. \/ bonuses' = [bonuses EXCEPT ![w] = @ + 1] /\ lostBonus' = lostBonus
          \/ bonuses' = bonuses /\ lostBonus' = [lostBonus EXCEPT ![w] = @ + 1]
      BY <1>6, <2>5, <3>1 DEF AwardReferral, SignUpFails
    <3>5. bonuses[w] \in Nat /\ lostBonus[w] \in Nat
      BY <1>0, <3>2 DEF ReferralTypeOK
    <3>6. /\ bonuses' \in [User -> Nat] /\ lostBonus' \in [User -> Nat]
          /\ \A u \in User \ {w} : bonuses'[u] = bonuses[u] /\ lostBonus'[u] = lostBonus[u]
          /\ bonuses'[w] + lostBonus'[w] = bonuses[w] + lostBonus[w] + 1
      BY <1>0, <3>2, <3>4, <3>5 DEF ReferralTypeOK
    <3>7. BonusesMatchReferrals'
      <4>1. ASSUME NEW u \in User, u # w
            PROVE  Cardinality(Referred(u))' = (bonuses[u] + Cardinality(Awarding(u)) + lostBonus[u])'
        BY <1>0, <2>1, <3>3, <3>6, <4>1 DEF BonusesMatchReferrals, Referred
      <4>2. Cardinality(Referred(w))' = (bonuses[w] + Cardinality(Awarding(w)) + lostBonus[w])'
        <5>1. Cardinality(Awarding(w))' = Cardinality(Awarding(w)) - 1
          BY <3>3, ReferralsAreFinite, FS_RemoveElement
        <5>2. Cardinality(Referred(w)) = bonuses[w] + Cardinality(Awarding(w)) + lostBonus[w]
          BY <1>0, <3>2 DEF BonusesMatchReferrals, Referred
        <5>3. bonuses'[w] \in Nat /\ lostBonus'[w] \in Nat /\ Cardinality(Awarding(w)) \in Nat
          BY <3>2, <3>6, ReferralsAreFinite
        <5>4. Referred(w)' = Referred(w)
          BY <2>1 DEF Referred
        <5> QED  BY <3>5, <3>6, <5>1, <5>2, <5>3, <5>4
      <4> QED  BY <4>1, <4>2 DEF BonusesMatchReferrals, Referred
    <3> QED  BY <1>0, <2>1, <2>2, <2>3, <3>6, <3>7 DEF ReferralInv, ReferralTypeOK
  <2> QED  BY <2>4, <2>5
<1>7. CASE \/ \E u \in User : ReferralCodeIsThere(u)
           \/ \E c \in Call, u \in User : EnsureReferralCode(c, u)
           \/ \E c \in Call, k \in ReferralCode : WriteCode(c, k) \/ CodeCollides(c, k)
           \/ UNCHANGED loyaltyVars
  BY <1>1, <1>7 DEF ReferralCodeIsThere, EnsureReferralCode, WriteCode, CodeCollides, loyaltyVars
<1> QED
  BY <1>2, <1>3, <1>4, <1>5, <1>6, <1>7 DEF LoyaltyNext

\* applyReferral and awardReferralBonus pay one bonus for every account that names a
\* referrer, whatever the interleaving of sign-ups, but those broken off or under way.
THEOREM BonusesFollowReferrals == LoyaltySpec => []BonusesMatchReferrals
<1>1. ReferralInv /\ [LoyaltyNext]_loyaltyVars => ReferralInv'
  BY ReferralStep
<1>2. ReferralInv => BonusesMatchReferrals
  BY DEF ReferralInv
<1> QED  BY <1>1, <1>2, ReferralInitInv, PTL DEF LoyaltySpec

-----------------------------------------------------------------------------
(* Ratings.                                                                *)

RateState == {NoRate} \cup [pc : {"aggregate"}, of : User]
                      \cup [pc : {"write"}, of : User, average : Int]

RatingsTypeOK ==
    /\ score \in [RatedJob -> GivenScore \cup {None}]
    /\ userRating \in [User -> Int]
    /\ rateCall \in [Call -> RateState]
    /\ blurred \in [User -> BOOLEAN]

\* Of a user whose ratings never overlapped one is in work at most, what it read is
\* still the average, and when none is, the average is written.
Settled(u) ==
    /\ \A b, c \in InFlight(u) : b = c
    /\ \A c \in InFlight(u) : rateCall[c].pc = "write" => rateCall[c].average = AverageFor(u)
    /\ InFlight(u) = {} => Received(u) = {} \/ userRating[u] = AverageFor(u)

RatingsInv == RatingsTypeOK /\ \A u \in User : ~blurred[u] => Settled(u)

LEMMA RateTypes ==
  /\ NoRate.pc = "idle" /\ NoRate \in RateState
  /\ \A r \in RateState : /\ r.pc \in {"idle", "aggregate", "write"}
                          /\ r.pc # "idle" => r.of \in User
                          /\ r.pc = "write" => r.average \in Int
  BY DEF NoRate, RateState

LEMMA StarsAreFinite ==
  ASSUME RatingsTypeOK, NEW u \in User
  PROVE  /\ IsFiniteSet(Received(u)) /\ Cardinality(Received(u)) \in Nat
         /\ Cardinality(Received(u)) = 0 <=> Received(u) = {}
         /\ \A j \in Received(u) : score[j] \in Int
         /\ StarsTo(u) \in Int /\ AverageFor(u) \in Int
<1>1. Received(u) \subseteq RatedJob
  BY DEF Received
<1>2. IsFiniteSet(Received(u))
  BY <1>1, RatingsAssumption, FS_Subset
<1>3. Cardinality(Received(u)) \in Nat /\ (Cardinality(Received(u)) = 0 <=> Received(u) = {})
  BY <1>2, FS_CardinalityType, FS_EmptySet
<1>4. ASSUME NEW j \in Received(u) PROVE score[j] \in Int
  <2>1. score[j] \in GivenScore
    BY DEF Received, RatingsTypeOK
  <2>2. GivenScore \subseteq Int
    <3>1. GivenScore \subseteq 1..5 /\ 1..5 \subseteq Int
      BY RatingsAssumption
    <3> QED  BY <3>1
  <2> QED  BY <2>1, <2>2
<1>5. StarsTo(u) \in Int
  BY <1>2, <1>4, SumIsInt DEF StarsTo
<1>6. AverageFor(u) \in Int
  <2>1. PICK n \in Nat : n = Cardinality(Received(u))
    BY <1>3
  <2>2. PICK total \in Int : total = StarsTo(u)
    BY <1>5
  <2>3. AverageFor(u) = IF n = 0 THEN 500 ELSE (200 * total + n) \div (2 * n)
    BY <2>1, <2>2 DEF AverageFor
  <2>4. n # 0 => (200 * total + n) \div (2 * n) \in Int
    OBVIOUS
  <2> QED  BY <2>3, <2>4
<1> QED  BY <1>2, <1>3, <1>4, <1>5, <1>6

\* What a user has received counts, and nothing else.
LEMMA AverageStays ==
  ASSUME RatingsTypeOK, NEW u \in User, Received(u)' = Received(u),
         \A j \in Received(u) : score'[j] = score[j]
  PROVE  AverageFor(u)' = AverageFor(u)
<1>1. IsFiniteSet(Received(u)) /\ \A j \in Received(u) : score[j] \in Int
  BY StarsAreFinite
<1>2. StarsTo(u)' = StarsTo(u)
  BY <1>1, SumsAgree DEF StarsTo
<1> QED  BY <1>2 DEF AverageFor

LEMMA RatingsInitInv == RatingsInit => RatingsInv
<1> SUFFICES ASSUME RatingsInit PROVE RatingsInv
  OBVIOUS
<1>1. RatingsTypeOK
  BY RateTypes DEF RatingsInit, RatingsTypeOK
<1>2. \A u \in User : InFlight(u) = {} /\ Received(u) = {}
  BY RateTypes DEF RatingsInit, InFlight, Received
<1> QED  BY <1>1, <1>2 DEF RatingsInv, Settled

\* A step of one request: the others, and the users it is not about, stay as they were.
LEMMA OthersStaySettled ==
  ASSUME RatingsInv, NEW c \in Call, NEW r, NEW v \in User,
         rateCall' = [rateCall EXCEPT ![c] = r],
         rateCall[c].pc # "idle" => rateCall[c].of = v,
         r.pc # "idle" => r.of = v,
         \A u \in User \ {v} : Received(u)' = Received(u) /\ userRating'[u] = userRating[u],
         \A u \in User \ {v} : \A j \in Received(u) : score'[j] = score[j],
         \A u \in User \ {v} : blurred'[u] = blurred[u],
         ~blurred'[v] => Settled(v)'
  PROVE  \A u \in User : ~blurred'[u] => Settled(u)'
<1> SUFFICES ASSUME NEW u \in User \ {v}, ~blurred'[u] PROVE Settled(u)'
  OBVIOUS
<1>1. Settled(u) /\ RatingsTypeOK
  BY DEF RatingsInv
<1>2. AverageFor(u)' = AverageFor(u)
  BY <1>1, AverageStays
<1>3. \A b \in Call \ {c} : rateCall'[b] = rateCall[b]
  BY <1>1 DEF RatingsTypeOK
<1>4. c \notin InFlight(u) /\ c \notin InFlight(u)'
  BY <1>1 DEF RatingsTypeOK, InFlight
<1>5. InFlight(u)' = InFlight(u)
  BY <1>3, <1>4 DEF InFlight
<1>6. \A b \in InFlight(u) : rateCall'[b] = rateCall[b]
  BY <1>3, <1>4 DEF InFlight
<1> QED  BY <1>1, <1>2, <1>5, <1>6 DEF Settled

LEMMA RatingsStep ==
  ASSUME RatingsInv, [RatingsNext]_ratingsVars
  PROVE  RatingsInv'
<1>0. RatingsTypeOK /\ \A c \in Call : rateCall[c] \in RateState
  BY DEF RatingsInv, RatingsTypeOK
<1>1. CASE UNCHANGED <<score, userRating, rateCall, blurred>>
  <2>1. \A u \in User : Settled(u)' <=> Settled(u)
    BY <1>1 DEF Settled, InFlight, Received, AverageFor, StarsTo
  <2> QED  BY <1>0, <1>1, <2>1 DEF RatingsInv, RatingsTypeOK
<1>2. ASSUME NEW c \in Call, NEW j \in RatedJob, NEW rater \in User, NEW given \in GivenScore,
             Rate(c, j, rater, given)
      PROVE  RatingsInv'
  <2>1. PICK v : v = DrivenBy[j]
    OBVIOUS
  <2> DEFINE r == [pc |-> "aggregate", of |-> v]
  <2>2. /\ v \in User /\ rateCall[c].pc = "idle" /\ score[j] = None
        /\ score' = [score EXCEPT ![j] = given]
        /\ rateCall' = [rateCall EXCEPT ![c] = r]
        /\ blurred' = [blurred EXCEPT ![v] = InFlight(v) # {}]
        /\ userRating' = userRating
    BY <1>2, <2>1, RatingsAssumption DEF Rate
  <2>3. r \in RateState /\ r.pc = "aggregate" /\ r.of = v
    BY <2>2 DEF RateState
  <2> HIDE DEF r
  <2>4. RatingsTypeOK'
    BY <1>0, <2>2, <2>3 DEF RatingsTypeOK
  <2>5. \A u \in User \ {v} : /\ Received(u)' = Received(u)
                              /\ \A i \in Received(u) : score'[i] = score[i]
    BY <1>0, <2>1, <2>2 DEF RatingsTypeOK, Received
  <2>6. \A u \in User \ {v} : blurred'[u] = blurred[u]
    BY <1>0, <2>2 DEF RatingsTypeOK
  <2>7. ASSUME ~blurred'[v] PROVE Settled(v)'
    <3>1. InFlight(v) = {}
      BY <1>0, <2>2, <2>7 DEF RatingsTypeOK
    <3>2. rateCall'[c] = r /\ \A b \in Call \ {c} : rateCall'[b] = rateCall[b]
      BY <1>0, <2>2 DEF RatingsTypeOK
    <3>3. InFlight(v)' = {c}
      BY <2>3, <3>1, <3>2 DEF InFlight
    <3> QED  BY <2>3, <3>2, <3>3 DEF Settled
  <2>8. \A u \in User : ~blurred'[u] => Settled(u)'
    BY <2>2, <2>3, <2>5, <2>6, <2>7, OthersStaySettled
  <2> QED  BY <2>4, <2>8 DEF RatingsInv
<1>3. ASSUME NEW c \in Call, Aggregate(c)
      PROVE  RatingsInv'
  <2>1. PICK v : v = rateCall[c].of
    OBVIOUS
  <2> DEFINE r == [pc |-> "write", of |-> v, average |-> AverageFor(v)]
  <2>2. /\ rateCall[c].pc = "aggregate" /\ rateCall' = [rateCall EXCEPT ![c] = r]
        /\ UNCHANGED <<score, userRating, blurred>>
    BY <1>3, <2>1 DEF Aggregate
  <2>3. v \in User /\ AverageFor(v) \in Int
    BY <1>0, <2>1, <2>2, RateTypes, StarsAreFinite
  <2>4. r \in RateState /\ r.pc = "write" /\ r.of = v /\ r.average = AverageFor(v)
    BY <2>3 DEF RateState
  <2> HIDE DEF r
  <2>5. RatingsTypeOK'
    BY <1>0, <2>2, <2>4 DEF RatingsTypeOK
  <2>6. \A u \in User : Received(u)' = Received(u) /\ AverageFor(u)' = AverageFor(u)
    BY <2>2 DEF Received, AverageFor, StarsTo
  <2>7. ASSUME ~blurred'[v] PROVE Settled(v)'
    <3>1. Settled(v)
      BY <2>2, <2>3, <2>7 DEF RatingsInv
    <3>2. rateCall'[c] = r /\ \A b \in Call \ {c} : rateCall'[b] = rateCall[b]
      BY <1>0, <2>2 DEF RatingsTypeOK
    <3>3. c \in InFlight(v) /\ InFlight(v)' = InFlight(v)
      BY <2>1, <2>2, <2>4, <3>2 DEF InFlight
    <3> QED  BY <2>3, <2>4, <2>6, <3>1, <3>2, <3>3 DEF Settled
  <2>8. \A u \in User : ~blurred'[u] => Settled(u)'
    BY <2>1, <2>2, <2>3, <2>4, <2>6, <2>7, OthersStaySettled
  <2> QED  BY <2>5, <2>8 DEF RatingsInv
<1>4. ASSUME NEW c \in Call, WriteAverage(c)
      PROVE  RatingsInv'
  <2>1. PICK v : v = rateCall[c].of
    OBVIOUS
  <2>2. /\ rateCall[c].pc = "write" /\ rateCall' = [rateCall EXCEPT ![c] = NoRate]
        /\ userRating' = [userRating EXCEPT ![v] = rateCall[c].average]
        /\ UNCHANGED <<score, blurred>>
    BY <1>4, <2>1 DEF WriteAverage
  <2>3. v \in User /\ rateCall[c].average \in Int
    BY <1>0, <2>1, <2>2, RateTypes
  <2>4. RatingsTypeOK'
    BY <1>0, <2>2, <2>3, RateTypes DEF RatingsTypeOK
  <2>5. \A u \in User : Received(u)' = Received(u) /\ AverageFor(u)' = AverageFor(u)
    BY <2>2 DEF Received, AverageFor, StarsTo
  <2>6. userRating'[v] = rateCall[c].average /\ \A u \in User \ {v} : userRating'[u] = userRating[u]
    BY <1>0, <2>2, <2>3 DEF RatingsTypeOK
  <2>7. ASSUME ~blurred'[v] PROVE Settled(v)'
    <3>1. Settled(v)
      BY <2>2, <2>3, <2>7 DEF RatingsInv
    <3>2. c \in InFlight(v)
      BY <2>1, <2>2 DEF InFlight
    <3>3. InFlight(v) = {c} /\ rateCall[c].average = AverageFor(v)
      BY <2>2, <3>1, <3>2 DEF Settled
    <3>4. rateCall'[c] = NoRate /\ \A b \in Call \ {c} : rateCall'[b] = rateCall[b]
      BY <1>0, <2>2 DEF RatingsTypeOK
    <3>5. InFlight(v)' = {}
      BY <3>3, <3>4, RateTypes DEF InFlight
    <3> QED  BY <2>3, <2>5, <2>6, <3>3, <3>5 DEF Settled
  <2>8. \A u \in User : ~blurred'[u] => Settled(u)'
    BY <2>1, <2>2, <2>3, <2>5, <2>6, <2>7, RateTypes, OthersStaySettled
  <2> QED  BY <2>4, <2>8 DEF RatingsInv
<1>5. ASSUME NEW c \in Call, RateBreaksOff(c)
      PROVE  RatingsInv'
  <2>1. PICK v : v = rateCall[c].of
    OBVIOUS
  <2>2. /\ rateCall[c].pc # "idle" /\ rateCall' = [rateCall EXCEPT ![c] = NoRate]
        /\ blurred' = [blurred EXCEPT ![v] = TRUE]
        /\ UNCHANGED <<score, userRating>>
    BY <1>5, <2>1 DEF RateBreaksOff
  <2>3. v \in User
    BY <1>0, <2>1, <2>2, RateTypes
  <2>4. RatingsTypeOK'
    BY <1>0, <2>2, <2>3, RateTypes DEF RatingsTypeOK
  <2>5. blurred'[v] /\ \A u \in User \ {v} : blurred'[u] = blurred[u]
    BY <1>0, <2>2, <2>3 DEF RatingsTypeOK
  <2>6. \A u \in User : Received(u)' = Received(u)
    BY <2>2 DEF Received
  <2>7. \A u \in User : ~blurred'[u] => Settled(u)'
    BY <2>1, <2>2, <2>3, <2>5, <2>6, RateTypes, OthersStaySettled
  <2> QED  BY <2>4, <2>7 DEF RatingsInv
<1>6. CASE UNCHANGED ratingsVars
  BY <1>1, <1>6 DEF ratingsVars
<1>7. ASSUME NEW j \in RatedJob, JobFinishes(j) PROVE RatingsInv'
  BY <1>1, <1>7 DEF JobFinishes
<1> QED
  BY <1>2, <1>3, <1>4, <1>5, <1>6, <1>7 DEF RatingsNext

\* recalculateAverage leaves users.rating at the average of all ratings to the nearest
\* hundredth, for any number of ratings and requests that do not overlap.
THEOREM AverageStaysExact == RatingsSpec => []AverageIsExact
<1>1. RatingsInv /\ [RatingsNext]_ratingsVars => RatingsInv'
  BY RatingsStep
<1>2. RatingsInv => AverageIsExact
  <2> SUFFICES ASSUME RatingsInv, NEW u \in User, InFlight(u) = {}, ~blurred[u],
                      Cardinality(Received(u)) > 0
               PROVE  200 * StarsTo(u) - 2 * Cardinality(Received(u)) * userRating[u]
                        \in -Cardinality(Received(u))..Cardinality(Received(u))
    BY DEF AverageIsExact
  <2>1. RatingsTypeOK /\ Settled(u)
    BY DEF RatingsInv
  <2>2. PICK n \in Nat : n = Cardinality(Received(u))
    BY <2>1, StarsAreFinite
  <2>3. PICK total \in Int : total = StarsTo(u)
    BY <2>1, StarsAreFinite
  <2>4. n # 0 /\ Received(u) # {}
    BY <2>1, <2>2, StarsAreFinite
  <2>5. userRating[u] = (200 * total + n) \div (2 * n)
    BY <2>1, <2>2, <2>3, <2>4 DEF Settled, AverageFor
  <2>6. PICK a \in Int, b \in Nat \ {0} : a = 200 * total + n /\ b = 2 * n
    BY <2>4
  <2>7. PICK q \in Int : q = a \div b
    BY QuotientBounds
  <2>8. b * q <= a /\ a < b * q + b
    BY <2>7, QuotientBounds
  <2>9. 200 * total - 2 * n * q \in -n..n
    <3>1. b * q = 2 * n * q
      BY <2>6
    <3> QED  BY <2>6, <2>8, <3>1
  <2> QED  BY <2>2, <2>3, <2>5, <2>6, <2>7, <2>9
<1> QED  BY <1>1, <1>2, RatingsInitInv, PTL DEF RatingsSpec

-----------------------------------------------------------------------------
(* Bookings: the hours, and the fares.                                     *)

\* A booking under way was allowed by the policy, and priced by its service.
Booked ==
    /\ policy \in Policies
    /\ ride.stage = "quoted" =>
          /\ ride.request \in Requests /\ ride.request.service = "RIDES"
          /\ IsOpenNow(ride.request.hour)
          /\ ride.fare = RideFare(ride.request)
    /\ ride.stage = "job" =>
          /\ ride.request \in Requests /\ ride.request.service # "RIDES"
          /\ ride.fare = JobFare(ride.request)

LEMMA BookedInit == BookingInit => Booked
  BY DEF BookingInit, Booked, NoRide

LEMMA BookedStep ==
  ASSUME Booked, [BookingNext]_bookingVars
  PROVE  Booked'
<1>1. ASSUME NEW r \in Attempted, CreateTrip(r)
      PROVE  Booked'
  <2>1. r \in Requests
    BY BookingAssumption DEF Attempted
  <2>2. ride' = [stage |-> "quoted", request |-> r, fare |-> RideFare(r)]
    BY <1>1 DEF CreateTrip
  <2>3. ride'.stage = "quoted" /\ ride'.request = r /\ ride'.fare = RideFare(r)
    BY <2>2
  <2>4. policy' = policy /\ r.service = "RIDES" /\ IsOpenNow(r.hour)
    BY <1>1 DEF CreateTrip, RideAllowed
  <2> QED  BY <2>1, <2>3, <2>4 DEF Booked, IsOpenNow
<1>2. ASSUME NEW r \in Attempted, CreateJob(r)
      PROVE  Booked'
  <2>1. r \in Requests
    BY BookingAssumption DEF Attempted
  <2>2. ride' = [stage |-> "job", request |-> r, fare |-> JobFare(r)]
    BY <1>2 DEF CreateJob
  <2>3. ride'.stage = "job" /\ ride'.request = r /\ ride'.fare = JobFare(r)
    BY <2>2
  <2>4. policy' = policy /\ r.service # "RIDES"
    BY <1>2 DEF CreateJob
  <2> QED  BY <2>1, <2>3, <2>4 DEF Booked
<1>3. CASE policy' = policy /\ (ride' = ride \/ ride'.stage \in {"none", "offered", "taken"})
  BY <1>3 DEF Booked, IsOpenNow
<1>4. CASE \E counts \in BOOLEAN : Dispatch(counts)
  <2>1. PICK counts \in BOOLEAN : Dispatch(counts)
    BY <1>4
  <2>2. ASSUME NEW at, NEW best, OfferToDrivers(at, best, counts)
        PROVE  policy' = policy /\ ride'.stage = "offered"
    BY <2>2 DEF OfferToDrivers
  <2>3. ASSUME NEW d, AcceptTrip(d, counts)
        PROVE  policy' = policy /\ ride'.stage = "taken"
    BY <2>3 DEF AcceptTrip
  <2>4. ASSUME DriverCancels(counts) \/ CompleteTrip(counts)
        PROVE  policy' = policy /\ ride'.stage = "none"
    BY <2>4 DEF DriverCancels, CompleteTrip, NoRide
  <2> QED  BY <1>3, <2>1, <2>2, <2>3, <2>4 DEF Dispatch
<1>5. CASE \/ \E d \in Driver : ManuallyAssign(d) \/ Waits(d)
           \/ Ends \/ UNCHANGED bookingVars
  BY <1>3, <1>5 DEF ManuallyAssign, Waits, Ends, NoRide, bookingVars
<1> QED  BY <1>1, <1>2, <1>4, <1>5 DEF BookingNext

\* An hour is open exactly when one meets it walking from the opening hour.
LEMMA HoursOfAWindow ==
  ASSUME NEW from \in 0..23, NEW to \in 0..24, NEW hour \in 0..23,
         NEW length, length = IF from <= to THEN to - from ELSE to + 24 - from,
         NEW open, open = {(from + k) % 24 : k \in 0..(length - 1)}
  PROVE  hour \in open <=> IF from <= to THEN hour >= from /\ hour < to
                           ELSE hour >= from \/ hour < to
<1>0. length \in Int /\ from \in Int /\ to \in Int /\ hour \in Int
  OBVIOUS
<1>1. CASE from <= to
  <2>1. ASSUME hour >= from, hour < to
        PROVE  hour \in open
    <3>1. hour - from \in 0..(length - 1) /\ (from + (hour - from)) % 24 = hour
      BY <1>1, <2>1
    <3> QED  BY <3>1
  <2>2. ASSUME hour \in open
        PROVE  hour >= from /\ hour < to
    <3>1. PICK k \in 0..(length - 1) : hour = (from + k) % 24
      BY <2>2
    <3> QED  BY <1>1, <3>1
  <2> QED  BY <1>1, <2>1, <2>2
<1>2. CASE ~(from <= to)
  <2>0. length = to + 24 - from /\ from > to
    BY <1>2
  <2>1. ASSUME hour >= from
        PROVE  hour \in open
    <3>1. hour - from \in 0..(length - 1) /\ (from + (hour - from)) % 24 = hour
      BY <2>0, <2>1
    <3> QED  BY <3>1
  <2>2. ASSUME hour < to
        PROVE  hour \in open
    <3>1. hour + 24 - from \in 0..(length - 1) /\ (from + (hour + 24 - from)) % 24 = hour
      BY <2>0, <2>2
    <3> QED  BY <3>1
  <2>3. ASSUME hour \in open
        PROVE  hour >= from \/ hour < to
    <3>1. PICK k \in 0..(length - 1) : hour = (from + k) % 24
      BY <2>3
    <3> QED  BY <2>0, <3>1
  <2> QED  BY <1>2, <2>1, <2>2, <2>3
<1> QED  BY <1>1, <1>2

\* isOpenNow is open for the hours from LAUNCH_OPEN_HOUR to LAUNCH_CLOSE_HOUR and no
\* others, whatever hours of the day these are, and no ride is booked outside them.
THEOREM RidesAreBookedInHours ==
  ASSUME \A p \in Policies : p.openHour \in 0..23 /\ p.closeHour \in 0..24
  PROVE  BookingSpec => []RidesKeepHours
<1>1. Booked => RidesKeepHours
  <2> SUFFICES ASSUME Booked, policy.hours,
                      NEW length, length = IF policy.openHour <= policy.closeHour
                                           THEN policy.closeHour - policy.openHour
                                           ELSE policy.closeHour + 24 - policy.openHour,
                      NEW open, open = {(policy.openHour + k) % 24 : k \in 0..(length - 1)}
               PROVE  /\ \A hour \in 0..23 : IsOpenNow(hour) <=> hour \in open
                      /\ ride.stage = "quoted" => ride.request.hour \in open
    BY DEF RidesKeepHours
  <2>1. policy.openHour \in 0..23 /\ policy.closeHour \in 0..24
    BY DEF Booked
  <2>2. ASSUME NEW hour \in 0..23 PROVE IsOpenNow(hour) <=> hour \in open
    <3>1. PICK from \in 0..23, to \in 0..24 : from = policy.openHour /\ to = policy.closeHour
      BY <2>1
    <3>2. /\ length = IF from <= to THEN to - from ELSE to + 24 - from
          /\ open = {(from + k) % 24 : k \in 0..(length - 1)}
      BY <3>1
    <3>3. hour \in open <=> IF from <= to THEN hour >= from /\ hour < to
                            ELSE hour >= from \/ hour < to
      BY <3>2, HoursOfAWindow
    <3> QED  BY <3>1, <3>3 DEF IsOpenNow
  <2>3. ride.stage = "quoted" => ride.request.hour \in 0..23 /\ IsOpenNow(ride.request.hour)
    BY BookingAssumption DEF Booked, RequestTypes
  <2> QED  BY <2>2, <2>3
<1>2. Booked /\ [BookingNext]_bookingVars => Booked'
  BY BookedStep
<1> QED  BY <1>1, <1>2, BookedInit, PTL DEF BookingSpec

LEMMA Tariffs ==
  ASSUME NEW kind \in DOMAIN FareConfig
  PROVE  LET t == FareConfig[kind]
         IN  /\ t.base \in Nat /\ t.perKm \in Nat /\ t.tenthsPerMin \in Nat
             /\ t.minimum \in Nat /\ t.minimum % 5 = 0
  BY DEF FareConfig, Tariff

LEMMA RoundingTo5 ==
  ASSUME NEW a \in Nat, NEW b \in Nat, a <= b
  PROVE  /\ RoundedTo5(a) \in Nat /\ RoundedTo5(a) % 5 = 0 /\ RoundedTo5(a) <= RoundedTo5(b)
<1>1. PICK p \in Nat, q \in Nat : p = (a + 2500) \div 5000 /\ q = (b + 2500) \div 5000
  OBVIOUS
<1>2. p <= q
  BY <1>1
<1>3. RoundedTo5(a) = 5 * p /\ RoundedTo5(b) = 5 * q
  BY <1>1 DEF RoundedTo5
<1> QED  BY <1>2, <1>3

\* estimateFare: payable in fives, at least the minimum, and never less for a longer ride.
LEMMA FareGrowsWithDistance ==
  ASSUME NEW kind \in DOMAIN FareConfig, NEW metres \in Nat, NEW farther \in Nat,
         metres <= farther, NEW minutes \in Nat
  PROVE  /\ EstimateFare(kind, metres, minutes) \in Nat
         /\ EstimateFare(kind, metres, minutes) % 5 = 0
         /\ EstimateFare(kind, metres, minutes) <= EstimateFare(kind, farther, minutes)
<1>1. PICK base \in Nat, perKm \in Nat, tenths \in Nat, minimum \in Nat :
        /\ minimum % 5 = 0
        /\ FareConfig[kind].base = base /\ FareConfig[kind].perKm = perKm
        /\ FareConfig[kind].tenthsPerMin = tenths /\ FareConfig[kind].minimum = minimum
  BY Tariffs
<1>2. PICK a \in Nat : a = ExactFare(FareConfig[kind], metres, minutes)
  <2>1. perKm * metres \in Nat /\ tenths * minutes \in Nat
    OBVIOUS
  <2> QED  BY <1>1, <2>1 DEF ExactFare
<1>3. PICK b \in Nat : b = ExactFare(FareConfig[kind], farther, minutes)
  <2>1. perKm * farther \in Nat /\ tenths * minutes \in Nat
    OBVIOUS
  <2> QED  BY <1>1, <2>1 DEF ExactFare
<1>4. a <= b
  <2>1. PICK x \in Nat, y \in Nat, z \in Int :
          x = perKm * metres /\ y = perKm * farther /\ z = 1000 * base + 100 * tenths * minutes
    OBVIOUS
  <2>2. x <= y
    BY <2>1
  <2>3. a = z + x /\ b = z + y
    BY <1>1, <1>2, <1>3, <2>1 DEF ExactFare
  <2> QED  BY <2>2, <2>3
<1>5. RoundedTo5(a) \in Nat /\ RoundedTo5(a) % 5 = 0 /\ RoundedTo5(b) \in Nat
      /\ RoundedTo5(a) <= RoundedTo5(b)
  BY <1>4, RoundingTo5
<1>6. /\ EstimateFare(kind, metres, minutes) = IF RoundedTo5(a) > minimum THEN RoundedTo5(a) ELSE minimum
      /\ EstimateFare(kind, farther, minutes) = IF RoundedTo5(b) > minimum THEN RoundedTo5(b) ELSE minimum
  BY <1>1, <1>2, <1>3 DEF EstimateFare
<1> QED  BY <1>1, <1>5, <1>6

\* createTrip, createDelivery, createErrand and createOrder charge a fare in the band,
\* whatever the distance, the claim and the tariff.
THEOREM FaresKeepTheirBand == BookingSpec => []FaresStayInBand
<1>1. Booked => FaresStayInBand
  <2> SUFFICES ASSUME Booked, Priced, NEW r, r = ride.request,
                      NEW least, least = (98 * r.straight) \div 100
               PROVE  /\ ride.fare % 5 = 0
                      /\ ride.fare >= EstimateFare(Kind(r), least, RideMinutes(r))
                      /\ ride.fare <= EstimateFare(Kind(r), 3 * r.straight, RideMinutes(r))
    BY DEF FaresStayInBand
  <2>1. r \in Requests /\ r \in RequestTypes /\ r.fareType = "FIXED"
    BY BookingAssumption DEF Booked, Priced
  <2>2. PICK straight \in Nat : straight = r.straight
    BY <2>1 DEF RequestTypes
  <2>3. RideMinutes(r) \in Nat /\ Kind(r) \in DOMAIN FareConfig
    BY <2>1, BookingAssumption DEF RequestTypes, RideMinutes, Kind, Vehicle, FareConfig
  <2>4. least \in Nat /\ 3 * straight \in Nat
    BY <2>2
  <2>5. ASSUME NEW metres \in Nat, metres >= least, metres <= 3 * straight,
               ride.fare = EstimateFare(Kind(r), metres, RideMinutes(r))
        PROVE  /\ ride.fare % 5 = 0
               /\ ride.fare >= EstimateFare(Kind(r), least, RideMinutes(r))
               /\ ride.fare <= EstimateFare(Kind(r), 3 * r.straight, RideMinutes(r))
    <3>1. /\ ride.fare \in Nat /\ ride.fare % 5 = 0
          /\ EstimateFare(Kind(r), metres, RideMinutes(r))
               <= EstimateFare(Kind(r), 3 * straight, RideMinutes(r))
      BY <2>3, <2>4, <2>5, FareGrowsWithDistance
    <3>2. /\ EstimateFare(Kind(r), least, RideMinutes(r)) \in Nat
          /\ EstimateFare(Kind(r), least, RideMinutes(r))
               <= EstimateFare(Kind(r), metres, RideMinutes(r))
      BY <2>3, <2>4, <2>5, FareGrowsWithDistance
    <3> QED  BY <2>2, <2>5, <3>1, <3>2
  <2>6. CASE ride.stage = "quoted"
    <3>1. ride.fare = EstimateFare(Kind(r), RideMetres(r), RideMinutes(r))
      BY <2>1, <2>6 DEF Booked, RideFare, Kind
    <3>2. RideMetres(r) \in Nat /\ RideMetres(r) >= least /\ RideMetres(r) <= 3 * straight
      <4>1. CASE Plausible(r)
        <5>1. PICK claimed \in Nat : claimed = r.claimed
          BY <2>1, <4>1 DEF RequestTypes, Plausible
        <5>2. 100 * claimed >= 98 * straight /\ claimed <= 3 * straight
          BY <2>2, <4>1, <5>1 DEF Plausible
        <5> QED  BY <2>2, <4>1, <5>1, <5>2 DEF RideMetres
      <4>2. CASE ~Plausible(r)
        <5>1. RideMetres(r) = (14 * straight) \div 10
          BY <2>2, <4>2 DEF RideMetres, RoadEstimate
        <5> QED  BY <2>2, <5>1
      <4> QED  BY <4>1, <4>2
    <3> QED  BY <2>5, <3>1, <3>2
  <2>7. CASE ride.stage = "job"
    <3>1. ride.fare = EstimateFare(Kind(r), straight, 0) /\ Kind(r) = r.service
      BY <2>2, <2>7 DEF Booked, JobFare, Kind
    <3>2. FareConfig[Kind(r)].tenthsPerMin = 0
      BY <2>1, <2>7, <3>1 DEF Booked, RequestTypes, FareConfig, Tariff
    <3>3. EstimateFare(Kind(r), straight, 0) = EstimateFare(Kind(r), straight, RideMinutes(r))
      BY <2>3, <3>2 DEF EstimateFare, ExactFare
    <3>4. straight >= least /\ straight <= 3 * straight
      BY <2>2
    <3> QED  BY <2>5, <3>1, <3>3, <3>4
  <2> QED  BY <2>6, <2>7 DEF Priced
<1>2. Booked /\ [BookingNext]_bookingVars => Booked'
  BY BookedStep
<1> QED  BY <1>1, <1>2, BookedInit, PTL DEF BookingSpec

-----------------------------------------------------------------------------
(* Bookings: the ranking.                                                  *)

RepState == [sent : Nat, accepted : Nat, cancelled : Nat, idle : Nat \cup {None}]
RankTypes == rep \in [Driver -> RepState] /\ stars \in [Driver -> Stars]

LEMMA RankTypesInit == BookingInit => RankTypes
<1>1. NoRecord \in RepState
  BY DEF NoRecord, RepState
<1> QED  BY <1>1 DEF BookingInit, RankTypes

LEMMA RankTypesStep ==
  ASSUME RankTypes, [BookingNext]_bookingVars
  PROVE  RankTypes'
<1>1. CASE rep' = rep /\ stars' = stars
  BY <1>1 DEF RankTypes
<1>2. ASSUME NEW ds, NEW field \in {"sent", "accepted", "cancelled"}, NEW counts,
             Counted(ds, field, counts), stars' = stars
      PROVE  RankTypes'
  <2>1. ASSUME NEW d \in Driver PROVE [rep[d] EXCEPT ![field] = @ + 1] \in RepState
    <3>1. PICK n \in Nat : n = rep[d][field] + 1
      BY DEF RankTypes, RepState
    <3>2. [rep[d] EXCEPT ![field] = n] \in RepState
      BY DEF RankTypes, RepState
    <3> QED  BY <3>1, <3>2
  <2> QED  BY <1>2, <2>1 DEF RankTypes, Counted
<1>3. ASSUME NEW d, rep' = [rep EXCEPT ![d].idle = 0], stars' = stars
      PROVE  RankTypes'
  BY <1>3 DEF RankTypes, RepState
<1>4. ASSUME NEW d \in Driver, Waits(d)
      PROVE  RankTypes'
  <2>1. rep[d].idle \in Nat \cup {None} /\ rep[d].idle # None
    BY <1>4 DEF Waits, RankTypes, RepState
  <2>2. PICK n \in Nat : n = rep[d].idle + 45
    BY <2>1
  <2>3. rep' = [rep EXCEPT ![d].idle = n] /\ stars' = stars
    BY <1>4, <2>2 DEF Waits
  <2> QED  BY <2>3 DEF RankTypes, RepState
<1>5. CASE \E counts \in BOOLEAN : Dispatch(counts)
  <2>1. PICK counts \in BOOLEAN : Dispatch(counts)
    BY <1>5
  <2>2. ASSUME NEW at, NEW best, OfferToDrivers(at, best, counts)
        PROVE  RankTypes'
    BY <1>2, <2>2 DEF OfferToDrivers
  <2>3. ASSUME NEW d, AcceptTrip(d, counts)
        PROVE  RankTypes'
    BY <1>2, <2>3 DEF AcceptTrip
  <2>4. ASSUME DriverCancels(counts)
        PROVE  RankTypes'
    BY <1>2, <2>4 DEF DriverCancels
  <2>5. ASSUME CompleteTrip(counts)
        PROVE  RankTypes'
    BY <1>1, <1>3, <2>5 DEF CompleteTrip
  <2> QED  BY <2>1, <2>2, <2>3, <2>4, <2>5 DEF Dispatch
<1>6. CASE \/ \E r \in Attempted : CreateTrip(r) \/ CreateJob(r)
           \/ \E d \in Driver : ManuallyAssign(d)
           \/ Ends \/ UNCHANGED bookingVars
  BY <1>1, <1>6 DEF CreateTrip, CreateJob, ManuallyAssign, Ends, bookingVars
<1> QED  BY <1>4, <1>5, <1>6 DEF BookingNext

LEMMA LesserOfTwo ==
  ASSUME NEW a \in Int, NEW b \in Int
  PROVE  Min({a, b}) = IF a <= b THEN a ELSE b
BY DEF Min

LEMMA PartOfWeight ==
  ASSUME NEW weight \in Nat, NEW of \in Nat \ {0}, NEW n \in 0..of
  PROVE  (weight * n) \div of \in 0..weight
<1>1. PICK a \in Nat : a = weight * n
  OBVIOUS
<1>2. 0 <= a /\ a <= weight * of
  BY <1>1
<1>3. PICK q \in Int : q = a \div of
  OBVIOUS
<1>4. of * q <= a /\ a < of * q + of
  BY <1>3, QuotientBounds
<1>5. ASSUME q < 0 PROVE FALSE
  <2>1. of * q <= -of
    BY <1>5
  <2> QED  BY <1>2, <1>4, <2>1
<1>6. ASSUME q > weight PROVE FALSE
  <2>1. of * q >= of * (weight + 1)
    BY <1>6
  <2>2. of * (weight + 1) = weight * of + of
    OBVIOUS
  <2> QED  BY <1>2, <1>4, <2>1, <2>2
<1> QED  BY <1>1, <1>3, <1>5, <1>6

\* A share is part of its weight, and half of it for want of a history.
LEMMA SharesOfWeight ==
  ASSUME NEW weight \in Nat, NEW n \in Nat, NEW of \in Nat
  PROVE  /\ Share(weight, n, of) \in 0..weight
         /\ of < MinOffersForRate => Share(weight, n, of) = weight \div 2
<1>1. CASE of < MinOffersForRate
  BY <1>1 DEF Share
<1>2. CASE ~(of < MinOffersForRate)
  <2>1. of \in Nat \ {0}
    BY <1>2, BookingAssumption
  <2>2. PICK least \in 0..of : least = Min({n, of})
    BY LesserOfTwo
  <2>3. (weight * least) \div of \in 0..weight
    BY <2>1, PartOfWeight
  <2> QED  BY <1>2, <2>2, <2>3 DEF Share
<1> QED  BY <1>1, <1>2

\* scoreDriver: 30 per cent at most for the record, and 12.5 at least without one.
Nearness(metres) == 140 * (5000 - Min({metres, 5000}))
LEMMA ScoreBounds ==
  ASSUME RankTypes, NEW d \in Driver, NEW metres \in Nat
  PROVE  /\ Score(d, metres) \in Int
         /\ Score(d, metres) <= Nearness(metres) + 30 * PerCent
         /\ Unproven(rep[d]) => 2 * Score(d, metres) >= 2 * Nearness(metres) + 25 * PerCent
<1>1. PICK p : p = rep[d]
  OBVIOUS
<1>2. /\ p \in RepState /\ p.sent \in Nat /\ p.accepted \in Nat /\ p.cancelled \in Nat
      /\ p.idle \in Nat \cup {None}
      /\ stars[d] \in Stars
  BY <1>1 DEF RankTypes, RepState
<1>3. stars[d] \in 100..500
  BY <1>2, BookingAssumption
<1>4. PICK kept \in Nat : kept = IF p.cancelled > p.accepted THEN 0 ELSE p.accepted - p.cancelled
  BY <1>2
<1>5. PICK e \in Nat : e = PerCent /\ 2 * ((5 * e) \div 2) = 5 * e
  BY DEF PerCent
<1>6. PICK acceptance \in 0..(12 * e) :
        /\ acceptance = Share(12 * e, p.accepted, p.sent)
        /\ p.sent < MinOffersForRate => acceptance = 6 * e
  <2>1. 12 * e \in Nat /\ (12 * e) \div 2 = 6 * e
    OBVIOUS
  <2> QED  BY <1>2, <2>1, SharesOfWeight
<1>7. PICK reliability \in 0..(8 * e) :
        /\ reliability = Share(8 * e, kept, p.accepted)
        /\ p.accepted < MinOffersForRate => reliability = 4 * e
  <2>1. 8 * e \in Nat /\ (8 * e) \div 2 = 4 * e
    OBVIOUS
  <2> QED  BY <1>2, <2>1, SharesOfWeight
<1>8. PICK rating \in 0..(5 * e) :
        rating = IF stars[d] < 350 THEN 0 ELSE (5 * e * (stars[d] - 350)) \div 150
  <2>1. 5 * e \in Nat /\ 150 \in Nat \ {0}
    OBVIOUS
  <2>2. CASE stars[d] < 350
    BY <2>1, <2>2
  <2>3. CASE ~(stars[d] < 350)
    <3>1. stars[d] - 350 \in 0..150
      BY <1>3, <2>3
    <3>2. (5 * e * (stars[d] - 350)) \div 150 \in 0..(5 * e)
      BY <2>1, <3>1, PartOfWeight
    <3> QED  BY <2>3, <3>2
  <2> QED  BY <2>2, <2>3
<1>9. PICK idle \in 0..(5 * e) :
        /\ idle = IF p.idle = None THEN (5 * e) \div 2 ELSE (5 * e * Min({p.idle, 45})) \div 45
        /\ p.idle = None => 2 * idle = 5 * e
  <2>1. CASE p.idle = None
    <3>1. (5 * e) \div 2 \in 0..(5 * e)
      OBVIOUS
    <3> QED  BY <1>5, <2>1, <3>1
  <2>2. CASE p.idle # None
    <3>1. PICK m \in 0..45 : m = Min({p.idle, 45})
      <4>1. PICK i \in Nat : i = p.idle
        BY <1>2, <2>2
      <4>2. Min({i, 45}) = IF i <= 45 THEN i ELSE 45
        BY LesserOfTwo
      <4>3. Min({i, 45}) \in 0..45
        BY <4>2
      <4> QED  BY <4>1, <4>3
    <3>2. 5 * e \in Nat /\ 45 \in Nat \ {0}
      OBVIOUS
    <3>3. (5 * e * m) \div 45 \in 0..(5 * e)
      BY <3>1, <3>2, PartOfWeight
    <3> QED  BY <2>2, <3>1, <3>3
  <2> QED  BY <2>1, <2>2
<1>10. PICK near \in Int : near = Nearness(metres)
  BY LesserOfTwo DEF Nearness
<1>11. Score(d, metres) = near + acceptance + reliability + rating + idle
  BY <1>1, <1>4, <1>5, <1>6, <1>7, <1>8, <1>9, <1>10 DEF Score, Nearness
<1>12. Unproven(p) => acceptance = 6 * e /\ reliability = 4 * e /\ 2 * idle = 5 * e
  BY <1>6, <1>7, <1>9 DEF Unproven
<1>13. PICK total \in Int : total = near + acceptance + reliability + rating + idle
  OBVIOUS
<1>14. total <= near + 30 * e
  BY <1>13
<1>15. Unproven(p) => 2 * total >= 2 * near + 25 * e
  BY <1>12, <1>13
<1> QED  BY <1>1, <1>5, <1>10, <1>11, <1>13, <1>14, <1>15

\* rankCandidates never passes over a driver without a history for one who is 1250 m or
\* more farther away, however many drivers there are and whatever their records, when
\* what lies beyond 5 km counts as 5 km.
THEOREM NewcomersComeFirstNearby == BookingSpec => NewcomersAreAsked
<1>1. RankTypes /\ [BookingNext]_bookingVars =>
        (ride.stage = "quoted" /\ ride'.stage = "offered" =>
          \A d \in Driver \ ride'.to, e \in ride'.to :
              Unproven(rep[d]) => Weighed(ride'.at[e]) < Weighed(ride'.at[d]) + 1250)
  <2> SUFFICES ASSUME RankTypes, [BookingNext]_bookingVars,
                      ride.stage = "quoted", ride'.stage = "offered",
                      NEW d \in Driver \ ride'.to, NEW e \in ride'.to,
                      Unproven(rep[d])
               PROVE  Weighed(ride'.at[e]) < Weighed(ride'.at[d]) + 1250
    OBVIOUS
  <2>1. PICK counts \in BOOLEAN, at \in [Driver -> Metres], best \in SUBSET Driver :
          OfferToDrivers(at, best, counts)
    <3>1. CASE \E counts \in BOOLEAN : Dispatch(counts)
      <4>1. PICK counts \in BOOLEAN : Dispatch(counts)
        BY <3>1
      <4>2. ASSUME NEW x, AcceptTrip(x, counts) PROVE FALSE
        BY <4>2 DEF AcceptTrip
      <4>3. ~DriverCancels(counts) /\ ~CompleteTrip(counts)
        BY DEF DriverCancels, CompleteTrip
      <4> QED  BY <4>1, <4>2, <4>3 DEF Dispatch
    <3>2. CASE \E r \in Attempted : CreateTrip(r) \/ CreateJob(r)
      BY <3>2 DEF CreateTrip, CreateJob
    <3>3. CASE \/ \E x \in Driver : ManuallyAssign(x) \/ Waits(x)
               \/ Ends \/ UNCHANGED bookingVars
      BY <3>3 DEF ManuallyAssign, Waits, Ends, NoRide, bookingVars
    <3> QED  BY <3>1, <3>2, <3>3 DEF BookingNext
  <2>2. best \in Shortlists(at) /\ ride'.to = best /\ ride'.at = at
    BY <2>1 DEF OfferToDrivers
  <2>3. e \in Driver /\ Before(e, d, at)
    BY <2>2 DEF Shortlists
  <2>4. PICK near \in Nat, far \in Nat : near = at[d] /\ far = at[e]
    <3>1. PICK near, far : near = at[d] /\ far = at[e]
      OBVIOUS
    <3>2. near \in Metres /\ far \in Metres
      BY <2>3, <3>1
    <3>3. Metres \subseteq Nat
      BY BookingAssumption
    <3>4. near \in Nat /\ far \in Nat
      BY <3>2, <3>3
    <3> QED  BY <3>1, <3>4
  <2>5. PICK n \in Int, f \in Int : n = Weighed(near) /\ f = Weighed(far)
    BY LesserOfTwo DEF Weighed
  <2>6. PICK sd \in Int, se \in Int : sd = Score(d, near) /\ se = Score(e, far)
    BY <2>3, <2>4, ScoreBounds
  <2>7. se <= Nearness(far) + 30 * PerCent /\ 2 * sd >= 2 * Nearness(near) + 25 * PerCent
    BY <2>3, <2>4, <2>6, ScoreBounds
  <2>8. Nearness(far) = 140 * (5000 - f) /\ Nearness(near) = 140 * (5000 - n)
    BY <2>5 DEF Nearness, Weighed
  <2>9. se > sd \/ (se = sd /\ f <= n)
    <3>1. se > sd \/ (se = sd /\ far <= near)
      BY <2>3, <2>4, <2>6 DEF Before
    <3>2. far <= near => f <= n
      BY <2>4, <2>5, LesserOfTwo DEF Weighed
    <3> QED  BY <3>1, <3>2
  <2>10. f < n + 1250
    <3>1. PICK a \in Int, b \in Int : a = 140 * (5000 - f) /\ b = 140 * (5000 - n)
      BY <2>5
    <3>2. 35 * PerCent = 280 * 1250
      BY DEF PerCent
    <3>3. PICK p \in Nat : p = PerCent
      BY DEF PerCent
    <3>4. se <= a + 30 * p /\ 2 * sd >= 2 * b + 25 * p /\ 35 * p = 280 * 1250
      BY <2>7, <2>8, <3>1, <3>2, <3>3
    <3> QED  BY <2>5, <2>6, <2>9, <3>1, <3>3, <3>4
  <2> QED  BY <2>2, <2>4, <2>5, <2>10
<1>2. RankTypes /\ [BookingNext]_bookingVars => RankTypes'
  BY RankTypesStep
<1> QED  BY <1>1, <1>2, RankTypesInit, PTL DEF BookingSpec, NewcomersAreAsked

-----------------------------------------------------------------------------
(* The services together.                                                  *)

\* What happens in one part of Services is a step of that part and stutters in the others.
LEMMA PartsMoveApart ==
  ASSUME [Next]_vars
  PROVE  /\ [BookingNext]_bookingVars /\ [RatingsNext]_ratingsVars
         /\ [LoyaltyNext]_loyaltyVars /\ [ChatNext]_chatVars /\ [PushNext]_pushVars
         /\ [SafetyNext]_safetyVars /\ [OnboardingNext]_onboardingVars
         /\ [RestaurantsNext]_restaurantsVars
BY DEF Next, vars

\* Services implements each of its components, so what is proved of a component by
\* itself is true of the services together.
THEOREM ServicesImplementTheirParts ==
  Spec => /\ BookingSpec /\ RatingsSpec /\ LoyaltySpec /\ ChatSpec
          /\ PushSpec /\ SafetySpec /\ OnboardingSpec /\ RestaurantsSpec
<1>1. Init => /\ BookingInit /\ RatingsInit /\ LoyaltyInit /\ ChatInit
              /\ PushInit /\ SafetyInit /\ OnboardingInit /\ RestaurantsInit
  BY DEF Init
<1>2. [Next]_vars => /\ [BookingNext]_bookingVars /\ [RatingsNext]_ratingsVars
                     /\ [LoyaltyNext]_loyaltyVars /\ [ChatNext]_chatVars /\ [PushNext]_pushVars
                     /\ [SafetyNext]_safetyVars /\ [OnboardingNext]_onboardingVars
                     /\ [RestaurantsNext]_restaurantsVars
  BY PartsMoveApart
<1> QED
  BY <1>1, <1>2, PTL DEF Spec, BookingSpec, RatingsSpec, LoyaltySpec, ChatSpec, PushSpec,
                         SafetySpec, OnboardingSpec, RestaurantsSpec

\* A referral code (ensureReferralCode) and a share link (createShareLink) a user was
\* handed to pass on go on working, unless two first requests for it overlapped.
THEOREM HandedOutGoesOnWorking == Spec => []HandedOutKeepsWorking
<1>1. CodesKeepWorking /\ LinksKeepWorking => HandedOutKeepsWorking
  BY DEF HandedOutKeepsWorking
<1> QED
  BY <1>1, CodesGoOnWorking, LinksGoOnWorking, ServicesImplementTheirParts, PTL

\* What the components promise one by one holds of the services together, for any
\* number of users, requests, jobs, drivers and devices.  (RidesKeepHours asks something
\* of the launch policies: see RidesAreBookedInHours.)
THEOREM ServicesKeepTheirPromises ==
  Spec => /\ [](FaresStayInBand /\ AverageIsExact /\ BonusesMatchReferrals /\ ReadIsEarned)
          /\ [](BearerIsLive /\ PushesFollowThePhone /\ SosIsHeard /\ OrdersAreCurrent)
          /\ NewcomersAreAsked /\ OnlyOpenAccountsAreApproved /\ AnAdminRemains
<1>1. BookingSpec => []FaresStayInBand /\ NewcomersAreAsked
  BY FaresKeepTheirBand, NewcomersComeFirstNearby
<1>2. ChatSpec /\ PushSpec => [](ReadIsEarned /\ BearerIsLive /\ PushesFollowThePhone)
  BY ReadsAreEarned, BearersStayLive, PushesReachTheirOwner, PTL
<1>3. OnboardingSpec => OnlyOpenAccountsAreApproved /\ AnAdminRemains
  BY ApprovalsAreOfOpenAccounts, AdminsRemain
<1> QED
  BY <1>1, <1>2, <1>3, AverageStaysExact, BonusesFollowReferrals, SosIsAlwaysHeard,
     OrdersStayCurrent, ServicesImplementTheirParts, PTL
=============================================================================
