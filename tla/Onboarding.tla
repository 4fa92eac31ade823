----------------------------- MODULE Onboarding -------------------------------
(***************************************************************************)
(* Driver applications (UsersService), the ops queue that decides them     *)
(* (AdminService.listPendingDrivers), and the script that makes and        *)
(* revokes the admins who may decide (scripts/make-admin.js).  A request   *)
(* that reads before it writes is two steps.                               *)
(***************************************************************************)
EXTENDS People, Naturals, FiniteSets

CONSTANT Applicant   \* the accounts that signed up as drivers, and stay drivers

ASSUME OnboardingAssumption == Applicant \subseteq User

VARIABLES
    role,       \* users.role
    kyc,        \* users.kycStatus of the drivers; nobody else's is read
    active,     \* users.isActive
    filed,      \* what of a driver's application is filled in, of Fields
    submitted,  \* drivers whose submittedForReviewAt is set: nothing reads it
    task,       \* requests and scripts past their read
    crossed     \* history: two revocations of admins overlapped

onboardingVars == <<role, kyc, active, filed, submitted, task, crossed>>

\* REQUIRED_FOR_REVIEW, and the name: what is saved together is one field.
Fields == {"name", "vehicle", "documents"}
\* closed: an approval's account was closed since the read.
NoTask == [op |-> "idle", user |-> None, closed |-> FALSE]
Start(c, op, u) == task' = [task EXCEPT ![c] = [op |-> op, user |-> u, closed |-> FALSE]]
Done(c) == task' = [task EXCEPT ![c] = NoTask]
Admins == {u \in User : role[u] = "ADMIN"}
\* RolesGuard and JwtStrategy: see Sessions.
AnAdminActs == \E a \in Admins : active[a]

-----------------------------------------------------------------------------
(* The driver.                                                             *)

\* updateProfile of a driver; a blank name is allowed and counts as missing.
UpdateProfile(u, blank) ==
    /\ active[u]
    /\ filed' = [filed EXCEPT ![u] = IF blank THEN @ \ {"name"} ELSE @ \cup {"name"}]
    /\ UNCHANGED <<role, kyc, active, submitted, task, crossed>>

\* saveOnboarding and upsertVehicle: the rest, filled in or blanked, at any time.
SaveOnboarding(u, saved) ==
    /\ active[u]
    /\ filed' = [filed EXCEPT ![u] = (@ \cap {"name"}) \cup saved]
    /\ UNCHANGED <<role, kyc, active, submitted, task, crossed>>

\* submitForReview reads getOnboardingStatus,
SubmitForReview(c, u) ==
    /\ task[c].op = "idle"
    /\ active[u]
    /\ filed[u] = Fields
    /\ kyc[u] # "APPROVED"
    /\ Start(c, "submit", u)
    /\ UNCHANGED <<role, kyc, active, filed, submitted, crossed>>

\* and stamps submittedForReviewAt; kycStatus stays what it is.
StampSubmission(c) ==
    /\ task[c].op = "submit"
    /\ submitted' = submitted \cup {task[c].user}
    /\ Done(c)
    /\ UNCHANGED <<role, kyc, active, filed, crossed>>

-----------------------------------------------------------------------------
(* Ops.                                                                    *)

\* listPendingDrivers.
ListPendingDrivers == {u \in Applicant : kyc[u] = "PENDING" /\ active[u]}

\* Mutant: isActive is not looked at.
AnyDriver(u) == u \in Applicant
\* approveDriverKyc's checks; that the application is complete is not one of them.
MayBeApproved(u) == u \in Applicant /\ active[u]

ApproveDriverKyc(c, u) ==
    /\ task[c].op = "idle"
    /\ AnAdminActs /\ MayBeApproved(u)
    /\ Start(c, "approve", u)
    /\ UNCHANGED <<role, kyc, active, filed, submitted, crossed>>

WriteApproval(c) ==
    /\ task[c].op = "approve"
    /\ kyc' = [kyc EXCEPT ![task[c].user] = "APPROVED"]
    /\ Done(c)
    /\ UNCHANGED <<role, active, filed, submitted, crossed>>

\* rejectDriverKyc looks at nothing.
RejectDriverKyc(u) ==
    /\ AnAdminActs
    /\ kyc' = [kyc EXCEPT ![u] = "REJECTED"]
    /\ UNCHANGED <<role, active, filed, submitted, task, crossed>>

Close(u) ==
    /\ active' = [active EXCEPT ![u] = FALSE]
    /\ task' = [c \in Call |-> IF task[c].op = "approve" /\ task[c].user = u
                                THEN [task[c] EXCEPT !.closed = TRUE] ELSE task[c]]

\* setUserActive.
SetUserActive(u, isActive) ==
    /\ AnAdminActs /\ active[u] # isActive
    /\ IF isActive THEN active' = [active EXCEPT ![u] = TRUE] /\ UNCHANGED task ELSE Close(u)
    /\ UNCHANGED <<role, kyc, filed, submitted, crossed>>

\* deleteOwnAccount: the name becomes "Deleted user", the documents go.
DeleteOwnAccount(u) ==
    /\ active[u]
    /\ Close(u)
    /\ filed' = [d \in Applicant |->
                    IF d = u THEN (filed[d] \cup {"name"}) \ {"documents"} ELSE filed[d]]
    /\ UNCHANGED <<role, kyc, submitted, crossed>>

-----------------------------------------------------------------------------
(* make-admin.js.                                                          *)

\* Promotes an account, or creates one; a driver is refused.
MakeAdmin(u) ==
    /\ role[u] = "RIDER"
    /\ role' = [role EXCEPT ![u] = "ADMIN"]
    /\ active' = [active EXCEPT ![u] = TRUE]
    /\ UNCHANGED <<kyc, filed, submitted, task, crossed>>

\* Mutant: off by one.
AtLeastOneAdmin == Cardinality(Admins) >= 1
\* The only admin is not revoked.
MoreAdmins == Cardinality(Admins) > 1

\* --revoke counts,
CountAdmins(c, u) ==
    /\ task[c].op = "idle"
    /\ role[u] = "ADMIN" /\ MoreAdmins
    /\ Start(c, "revoke", u)
    /\ crossed' = (crossed \/ \E b \in Call : task[b].op = "revoke")
    /\ UNCHANGED <<role, kyc, active, filed, submitted>>

\* and revokes.
RevokeAdmin(c) ==
    /\ task[c].op = "revoke"
    /\ role' = [role EXCEPT ![task[c].user] = "RIDER"]
    /\ Done(c)
    /\ UNCHANGED <<kyc, active, filed, submitted, crossed>>

TaskBreaksOff(c) ==
    /\ task[c].op # "idle"
    /\ Done(c)
    /\ UNCHANGED <<role, kyc, active, filed, submitted, crossed>>

OnboardingInit ==
    /\ role = [u \in User |-> IF u \in Applicant THEN "DRIVER" ELSE "RIDER"]
    /\ kyc = [d \in Applicant |-> "PENDING"]
    /\ active = [u \in User |-> TRUE]
    /\ filed = [d \in Applicant |-> {}]
    /\ submitted = {}
    /\ task = [c \in Call |-> NoTask]
    /\ crossed = FALSE

OnboardingNext ==
    \/ \E u \in User : \/ \E isActive \in BOOLEAN : SetUserActive(u, isActive)
                       \/ MakeAdmin(u) \/ DeleteOwnAccount(u)
    \/ \E d \in Applicant :
          \/ RejectDriverKyc(d)
          \/ \E blank \in BOOLEAN : UpdateProfile(d, blank)
          \/ \E saved \in SUBSET (Fields \ {"name"}) : SaveOnboarding(d, saved)
          \/ \E c \in Call : SubmitForReview(c, d)
    \/ \E c \in Call, u \in User : ApproveDriverKyc(c, u) \/ CountAdmins(c, u)
    \/ \E c \in Call : \/ StampSubmission(c) \/ WriteApproval(c) \/ RevokeAdmin(c)
                       \/ TaskBreaksOff(c)

OnboardingSpec == OnboardingInit /\ [][OnboardingNext]_onboardingVars

\* "That account has been deleted or suspended — it can't be approved": a driver
\* becomes APPROVED while closed only by an approval that had begun before.
OnlyOpenAccountsAreApproved ==
    [][\A u \in Applicant :
          (kyc[u] # "APPROVED" /\ kyc'[u] = "APPROVED") =>
              \/ active[u]
              \/ \E c \in Call : task[c].op = "approve" /\ task[c].user = u /\ task[c].closed
      ]_onboardingVars

\* "Refuse to remove the last admin — that locks everyone out of ops": unless two
\* revocations overlap, revoking never leaves the platform without an admin.
AnAdminRemains ==
    [][Admins # {} => Admins' # {} \/ crossed]_onboardingVars
=============================================================================
