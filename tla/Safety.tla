------------------------------- MODULE Safety ---------------------------------
(***************************************************************************)
(* SafetyService: an SOS is checked against the job it names, recorded,    *)
(* and announced to every admin by a notification and a socket event; ops  *)
(* acknowledge and resolve it.  Every await is a step that may fail.       *)
(***************************************************************************)
EXTENDS People, Naturals, FiniteSets

CONSTANTS
    Admin,      \* accounts with role ADMIN
    Job,        \* jobs an SOS may name
    Caller,     \* bound: accounts that raise an SOS or have a job
    Requester,  \* the customer of each job
    ListLimit   \* take: 100, the length of the list of open incidents

ASSUME SafetyAssumption ==
    Requester \in [Job -> Caller] /\ None \notin Job \cup Caller /\ ListLimit \in Nat \ {0}

VARIABLES
    onJob,      \* the driver of each job, or None
    everOn,     \* history: whoever was on each job
    sos,        \* raiseIncident requests
    incident,   \* incidents: one per request that got that far
    notified,   \* admins with a notification of the incident
    alerted     \* admins sent the live event

safetyVars == <<onJob, everOn, sos, incident, notified, alerted>>

\* What an SOS says of its job, if anything: contextType, which may be missing, that of
\* the job or another, and contextId.
NoClaim == [type |-> None, job |-> None]
Claim == {NoClaim} \cup [type : {None, "right", "wrong"}, job : Job]

\* job: the one the SOS names; context: what is kept of its claim.
NoSos == [pc |-> "none", user |-> None, job |-> None, context |-> NoClaim]
SosFailed == [NoSos EXCEPT !.pc = "failed"]
\* after: the incidents there were before.
NoIncident == [status |-> "none", user |-> None, context |-> NoClaim, unverified |-> None,
               handled |-> FALSE, after |-> {}]

\* The job changes hands: see Trips and Jobs.
JobIsDriven(j, d) ==
    /\ onJob[j] # d
    /\ onJob' = [onJob EXCEPT ![j] = d]
    /\ everOn' = [everOn EXCEPT ![j] = @ \cup ({d} \ {None})]
    /\ UNCHANGED <<sos, incident, notified, alerted>>

\* ownsContext: a claim without a type is not looked up; otherwise the
\* row must exist in the table of that type, with the caller on it.
OwnsContext(u, claim) ==
    \/ claim.type = None
    \/ claim.type = "right" /\ u \in {Requester[claim.job], onJob[claim.job]}

\* CreateIncidentDto refuses an unknown type, coordinates off the globe, a note over
\* 500 characters: there is no incident.
RefuseMalformed(c) ==
    /\ sos[c].pc = "none"
    /\ sos' = [sos EXCEPT ![c].pc = "refused"]
    /\ UNCHANGED <<onJob, everOn, incident, notified, alerted>>

\* Mutant: an SOS with a claim that fails the check is refused.
RefuseSos(c, u, claim, readable) ==
    /\ sos[c].pc = "none"
    /\ sos' = [sos EXCEPT ![c] =
                 [pc |-> IF readable /\ OwnsContext(u, claim) THEN "create" ELSE "done",
                  user |-> u, job |-> claim.job, context |-> claim]]
    /\ UNCHANGED <<onJob, everOn, incident, notified, alerted>>
\* raiseIncident checks the context; a check that throws counts as failed.
RaiseIncident(c, u, claim, readable) ==
    /\ sos[c].pc = "none"
    /\ sos' = [sos EXCEPT ![c] =
                 [pc |-> "create", user |-> u, job |-> claim.job,
                  context |-> IF OwnsContext(u, claim) /\ (readable \/ claim.type = None)
                              THEN claim ELSE NoClaim]]
    /\ UNCHANGED <<onJob, everOn, incident, notified, alerted>>

\* The incident is recorded, with the job if it passed and with a note of it if not.
CreateIncident(c) ==
    /\ sos[c].pc = "create"
    /\ incident' = [incident EXCEPT ![c] =
                      [status |-> "OPEN", user |-> sos[c].user, context |-> sos[c].context,
                       unverified |-> IF sos[c].context = NoClaim THEN sos[c].job ELSE None,
                       handled |-> FALSE, after |-> {b \in Call : incident[b].status # "none"}]]
    /\ sos' = [sos EXCEPT ![c].pc = "notify"]
    /\ UNCHANGED <<onJob, everOn, notified, alerted>>

\* Promise.all over the admins: the inserts that work are there; if one fails the
\* request throws.
NotifyAdmins(c, reached) ==
    /\ sos[c].pc = "notify"
    /\ notified' = [notified EXCEPT ![c] = reached]
    /\ sos' = [sos EXCEPT ![c] = IF reached = Admin THEN [@ EXCEPT !.pc = "emit"] ELSE SosFailed]
    /\ UNCHANGED <<onJob, everOn, incident, alerted>>

\* The events go out without an await in between.
EmitToAdmins(c) ==
    /\ sos[c].pc = "emit"
    /\ alerted' = [alerted EXCEPT ![c] = Admin]
    /\ sos' = [sos EXCEPT ![c].pc = "done"]
    /\ UNCHANGED <<onJob, everOn, incident, notified>>

\* The database or the process fails.
SosFails(c) ==
    /\ sos[c].pc \in {"create", "notify", "emit"}
    /\ sos' = [sos EXCEPT ![c] = SosFailed]
    /\ UNCHANGED <<onJob, everOn, incident, notified, alerted>>

\* updateStatus, from any status to either.
UpdateStatus(c, status) ==
    /\ incident[c].status # "none"
    /\ incident' = [incident EXCEPT ![c].status = status, ![c].handled = TRUE]
    /\ UNCHANGED <<onJob, everOn, sos, notified, alerted>>

\* listOpen: the newest open incidents, as many as the list takes.
Open == {c \in Call : incident[c].status \in {"OPEN", "ACKNOWLEDGED"}}
Crowded(c) == Cardinality({b \in Open : c \in incident[b].after}) >= ListLimit
ListOpen == {c \in Open : ~Crowded(c)}

SafetyInit ==
    /\ onJob = [j \in Job |-> None]
    /\ everOn = [j \in Job |-> {Requester[j]}]
    /\ sos = [c \in Call |-> NoSos]
    /\ incident = [c \in Call |-> NoIncident]
    /\ notified = [c \in Call |-> {}]
    /\ alerted = [c \in Call |-> {}]

SafetyNext ==
    \/ \E j \in Job : \E d \in (Caller \ {Requester[j]}) \cup {None} : JobIsDriven(j, d)
    \/ \E c \in Call, u \in Caller, claim \in Claim, readable \in BOOLEAN :
           RaiseIncident(c, u, claim, readable)
    \/ \E c \in Call : RefuseMalformed(c) \/ CreateIncident(c) \/ EmitToAdmins(c) \/ SosFails(c)
    \/ \E c \in Call, reached \in SUBSET Admin : NotifyAdmins(c, reached)
    \/ \E c \in Call, status \in {"ACKNOWLEDGED", "RESOLVED"} : UpdateStatus(c, status)

SafetySpec == SafetyInit /\ [][SafetyNext]_safetyVars

\* "The incident is ALWAYS recorded either way", once the DTO has let the SOS in: one
\* whose request ended without a failure has an incident, has reached every admin twice
\* over, keeps the job it named, and stays in the list ops watch until someone handles it
\* or as many newer ones are open as the list takes.  A context of a job with its type
\* names a job the caller was on, so that ops are not sent to somebody else; the job of a
\* claim without a type is kept as it came.
SosIsHeard ==
    \A c \in Call :
        /\ sos[c].pc = "done" =>
              /\ incident[c].user = sos[c].user
              /\ sos[c].job \in {incident[c].context.job, incident[c].unverified}
              /\ c \notin ListOpen => incident[c].handled \/ Crowded(c)
              /\ notified[c] = Admin /\ alerted[c] = Admin
        /\ incident[c].context.type # None =>
              incident[c].user \in everOn[incident[c].context.job]
=============================================================================
