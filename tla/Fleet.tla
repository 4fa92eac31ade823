-------------------------------- MODULE Fleet --------------------------------
(***************************************************************************)
(* Who is on the map: LocationGateway (a driver's sockets and pings),      *)
(* LocationService (the search and its evictions), ReviewFleetService (the *)
(* test drivers it keeps online) and the operations that take a driver off *)
(* it.  Jobs and debts are modelled by Trips, Jobs and Ledger; here a      *)
(* driver simply becomes busy or over the limit.                           *)
(***************************************************************************)
EXTENDS Integers, FiniteSets

CONSTANTS
    Driver,      \* driver accounts
    TestDriver,  \* the drivers with isTestAccount = true
    JobKind,     \* what a driver can be on a job for: rides, parcels, food orders, errands
    Forgiven,    \* those whose query may fail unnoticed: food orders and errands
    Socket,      \* bound: connections and review-fleet ticks at work together
    Search,      \* bound: searches that can run together
    None,        \* null
    MaxChanges   \* bound: how often ops, jobs and debts change a driver's standing

ASSUME FleetAssumption ==
    /\ TestDriver \subseteq Driver
    /\ None \notin Driver
    /\ Forgiven \subseteq JobKind
    /\ JobKind \cap {"suspended", "overLimit", "offline", "noFix"} = {}
    /\ MaxChanges \in Nat

VARIABLES
    geo,      \* Redis: members of drivers:geo
    seen,     \* Redis: drivers whose driver:lastseen:<id> is at most 3 minutes old
    online,   \* DriverProfile.isOnline
    standing, \* what else bars a driver: suspension, debt, a job
    lowering, \* suspensions whose second write, to isOnline, is still to come
    socket,   \* socket connections and their handlers
    search,   \* findNearbyDriversForMode, between two awaits
    changes   \* changes of standing so far

vars == <<geo, seen, online, standing, lowering, socket, search, changes>>
map == <<geo, seen>>
driver == <<standing, lowering, changes>>

-----------------------------------------------------------------------------
\* "suspended" stands for an inactive or unapproved account.
Standing == {"suspended", "overLimit"} \cup JobKind
\* Why a driver may not be offered work.
Reason == Standing \cup {"offline", "noFix"}

\* link: the connection ("tick": none, the review fleet's timer).  enter, ping,
\* leave: what its handlers still have to do; they run side by side.
SocketState == [driver : Driver \cup {None}, link : {"new", "up", "down", "tick"},
                enter : {"account", "raise", "done"}, ping : {"position", "lastSeen", "done"},
                leave : {"map", "lower", "done"}]
NewSocket == [driver |-> None, link |-> "new", enter |-> "done", ping |-> "done", leave |-> "done"]

SearchPC == {"idle", "fixes", "evictStale", "accounts", "debts", "jobs", "evict", "profiles", "found"}

\* found: the drivers still in.  fresh: those with a fresh fix.  rejected: those to
\* evict.  History, read only by properties: failed, the queries of jobs that failed and
\* were forgiven; unfit, the candidates each reason has applied to ever since the search
\* began.
SearchState == [pc : SearchPC, test : BOOLEAN, found : SUBSET Driver, fresh : SUBSET Driver,
                rejected : SUBSET Driver, failed : SUBSET Forgiven,
                unfit : [Reason -> SUBSET Driver]]
NoSearch == [pc |-> "idle", test |-> FALSE, found |-> {}, fresh |-> {}, rejected |-> {},
             failed |-> {}, unfit |-> [r \in Reason |-> {}]]

TypeOK ==
    /\ geo \subseteq Driver
    /\ seen \subseteq Driver
    /\ online \subseteq Driver
    /\ standing \in [Standing -> SUBSET Driver]
    /\ lowering \subseteq Driver
    /\ socket \in [Socket -> SocketState]
    /\ \A k \in Socket : socket[k].link # "new" => socket[k].driver \in Driver
    /\ search \in [Search -> SearchState]
    /\ changes \in 0..MaxChanges

Init ==
    /\ geo = {}
    /\ seen = {}
    /\ online = {}
    /\ standing = [r \in Standing |-> {}]
    /\ lowering = {}
    /\ socket = [k \in Socket |-> NewSocket]
    /\ search = [q \in Search |-> NoSearch]
    /\ changes = 0

\* The drivers a reason applies to now.
Unfit(r) == CASE r = "offline" -> Driver \ online
              [] r = "noFix"   -> Driver \ seen
              [] OTHER         -> standing[r]

\* A reason stops applying to a driver, in the history of every search.
Lifted(r, d) == search' = [q \in Search |-> [search[q] EXCEPT !.unfit[r] = @ \ {d}]]

-----------------------------------------------------------------------------
(* Sockets: handleConnection, onDriverLocation, handleDisconnect.          *)

\* A socket that is down, or a tick, is forgotten when its handlers are done.
Settled(s) == IF s.link # "up" /\ s.enter = "done" /\ s.ping = "done" /\ s.leave = "done"
              THEN NewSocket ELSE s

\* Mutant: a socket whose token names nobody is let in.
ConnectNobody(k, d) ==
    /\ socket[k].link = "new"
    /\ socket' = [socket EXCEPT ![k] = [@ EXCEPT !.link = "up", !.enter = "account"]]
    /\ UNCHANGED <<map, online, driver, search>>

Connect(k, d) ==
    /\ socket[k].link = "new"
    /\ socket' = [socket EXCEPT ![k] = [@ EXCEPT !.link = "up", !.driver = d, !.enter = "account"]]
    /\ UNCHANGED <<map, online, driver, search>>

\* The connection goes down: handleDisconnect starts, whatever else is running.
Down(s) == IF s.link = "up" THEN [s EXCEPT !.link = "down", !.leave = "map"] ELSE s

\* handleConnection reads the account and drops an unapproved driver ...
CheckAccount(k) ==
    /\ socket[k].enter = "account"
    /\ socket' = [socket EXCEPT ![k] = IF socket[k].driver \in standing["suspended"]
                                       THEN Settled([Down(@) EXCEPT !.enter = "done"])
                                       ELSE [@ EXCEPT !.enter = "raise"]]
    /\ UNCHANGED <<map, online, driver, search>>

\* ... or flips isOnline, even if the connection is down by now.
RaiseOnline(k) ==
    /\ socket[k].enter = "raise"
    /\ socket[k].link = "tick" => socket[k].ping = "done"
    /\ socket' = [socket EXCEPT ![k] = Settled([@ EXCEPT !.enter = "done"])]
    /\ online' = online \cup {socket[k].driver}
    /\ Lifted("offline", socket[k].driver)
    /\ UNCHANGED <<map, driver>>

\* A ping is two Redis writes.
PingPosition(k) ==
    /\ \/ socket[k].link = "up" /\ socket[k].ping = "done"
       \/ socket[k].ping = "position"
    /\ geo' = geo \cup {socket[k].driver}
    /\ socket' = [socket EXCEPT ![k].ping = "lastSeen"]
    /\ UNCHANGED <<seen, online, driver, search>>

PingLastSeen(k) ==
    /\ socket[k].ping = "lastSeen"
    /\ seen' = seen \cup {socket[k].driver}
    /\ socket' = [socket EXCEPT ![k] = Settled([@ EXCEPT !.ping = "done"])]
    /\ Lifted("noFix", socket[k].driver)
    /\ UNCHANGED <<geo, online, driver>>

\* The server gives the connection up, as a rule long after the phone has.
Disconnect(k) ==
    /\ socket[k].link = "up"
    /\ socket' = [socket EXCEPT ![k] = Down(@)]
    /\ UNCHANGED <<map, online, driver, search>>

\* removeDriver, for one or several drivers at once.
Remove(drivers) ==
    /\ geo' = geo \ drivers
    /\ seen' = seen \ drivers

\* handleDisconnect: the driver leaves the map, then isOnline falls, whatever other
\* sockets the driver has.
LeaveMap(k) ==
    /\ socket[k].leave = "map"
    /\ Remove({socket[k].driver})
    /\ socket' = [socket EXCEPT ![k].leave = "lower"]
    /\ UNCHANGED <<online, driver, search>>

LowerOnline(k) ==
    /\ socket[k].leave = "lower"
    /\ online' = online \ {socket[k].driver}
    /\ socket' = [socket EXCEPT ![k] = Settled([@ EXCEPT !.leave = "done"])]
    /\ UNCHANGED <<map, driver, search>>

\* ReviewFleetService.tick, every 4 seconds for each active test driver: a ping, and
\* then isOnline.
ReviewTick(k, d) ==
    /\ socket[k].link = "new"
    /\ d \in TestDriver \ standing["suspended"]
    /\ socket' = [socket EXCEPT ![k] = [@ EXCEPT !.link = "tick", !.driver = d,
                                                 !.enter = "raise", !.ping = "position"]]
    /\ UNCHANGED <<map, online, driver, search>>

SocketStep(k) ==
    \/ CheckAccount(k) \/ RaiseOnline(k) \/ PingPosition(k) \/ PingLastSeen(k)
    \/ Disconnect(k) \/ LeaveMap(k) \/ LowerOnline(k)

-----------------------------------------------------------------------------
(* Time, ops, jobs and debts.                                              *)

\* Three minutes without a ping.  That the key expires after fifteen makes no
\* difference to a search.
FixAges(d) ==
    /\ d \in seen
    /\ seen' = seen \ {d}
    /\ UNCHANGED <<geo, online, driver, socket, search>>

Change == changes < MaxChanges /\ changes' = changes + 1

\* setUserActive(false), whose write to isOnline comes later ...
Suspend(d) ==
    /\ Change
    /\ standing' = [standing EXCEPT !["suspended"] = @ \cup {d}]
    /\ lowering' = lowering \cup {d}
    /\ UNCHANGED <<map, online, socket, search>>

SuspendedGoOffline(d) ==
    /\ d \in lowering
    /\ online' = online \ {d}
    /\ lowering' = lowering \ {d}
    /\ UNCHANGED <<map, standing, changes, socket, search>>

\* ... deleteOwnAccount, which does both at once ...
DeleteAccount(d) ==
    /\ Change
    /\ standing' = [standing EXCEPT !["suspended"] = @ \cup {d}]
    /\ online' = online \ {d}
    /\ UNCHANGED <<map, lowering, socket, search>>

\* ... and what leaves isOnline alone: rejectDriverKyc, a job, a debt over the limit.
Bar(r, d) ==
    /\ Change
    /\ d \notin standing[r]
    /\ standing' = [standing EXCEPT ![r] = @ \cup {d}]
    /\ UNCHANGED <<map, online, lowering, socket, search>>

\* The account is reactivated or approved, the job ends, the debt is settled.
Unbar(r, d) ==
    /\ Change
    /\ d \in standing[r]
    /\ standing' = [standing EXCEPT ![r] = @ \ {d}]
    /\ Lifted(r, d)
    /\ UNCHANGED <<map, online, lowering, socket>>

-----------------------------------------------------------------------------
(* The search.                                                             *)

SearchAt(q, pc) == search[q].pc = pc
SearchTo(q, record) == search' = [search EXCEPT ![q] = record]

\* GEOSEARCH: whoever of the map is within the radius.
GeoSearch(q, test) ==
    /\ SearchAt(q, "idle")
    /\ \E near \in SUBSET geo :
          SearchTo(q, [NoSearch EXCEPT !.pc = IF near = {} THEN "found" ELSE "fixes", !.test = test,
                                       !.found = near, !.unfit = [r \in Reason |-> near \cap Unfit(r)]])
    /\ UNCHANGED <<map, online, driver, socket>>

\* filterFreshFixes: one MGET ...
ReadFixes(q) ==
    LET fresh == search[q].found \cap seen IN
    /\ SearchAt(q, "fixes")
    /\ SearchTo(q, [search[q] EXCEPT !.pc = "evictStale", !.found = fresh, !.fresh = fresh,
                                     !.rejected = @ \cup (search[q].found \ fresh)])
    /\ UNCHANGED <<map, online, driver, socket>>

\* ... and the stale are evicted, even if they have pinged since.
EvictStale(q) ==
    /\ SearchAt(q, "evictStale")
    /\ Remove(search[q].rejected)
    /\ SearchTo(q, [search[q] EXCEPT !.pc = IF search[q].found = {} THEN "found" ELSE "accounts",
                                     !.rejected = {}])
    /\ UNCHANGED <<online, driver, socket>>

InFleet(d, test) == (d \in TestDriver) = test

\* Mutant: being on the map and online is enough, as it once was.
AllowedOnline(q) == {d \in search[q].fresh : d \in online /\ InFleet(d, search[q].test)}
\* filterEligible's query: active, approved, online, of the right fleet.
Allowed(q) == {d \in search[q].fresh : /\ d \notin standing["suspended"] /\ d \in online
                                       /\ InFleet(d, search[q].test)}

ReadAccounts(q) ==
    /\ SearchAt(q, "accounts")
    /\ SearchTo(q, [search[q] EXCEPT !.pc = "debts", !.found = Allowed(q),
                                     !.rejected = search[q].fresh \ Allowed(q)])
    /\ UNCHANGED <<map, online, driver, socket>>

\* Drivers over the limit drop out, and the eviction spares them ...
ReadDebts(q) ==
    LET over == standing["overLimit"] IN
    /\ SearchAt(q, "debts")
    /\ SearchTo(q, [search[q] EXCEPT !.pc = "jobs", !.found = @ \ over, !.rejected = @ \ over])
    /\ UNCHANGED <<map, online, driver, socket>>

\* driversOnAJob: a failed query that is forgiven finds nobody.
OnAJob(failed) == {d \in Driver : \E r \in JobKind \ failed : d \in standing[r]}

\* Mutant: the busy are evicted with the rest.
EvictTheBusy(q, busy) == search[q].rejected \cup (search[q].fresh \cap busy)
SpareTheBusy(q, busy) == search[q].rejected \ busy

\* ... and so do drivers on a job.
ReadJobs(q) ==
    /\ SearchAt(q, "jobs")
    /\ \E failed \in SUBSET Forgiven :
          LET busy == OnAJob(failed) IN
          SearchTo(q, [search[q] EXCEPT !.pc = "evict", !.found = @ \ busy,
                                        !.rejected = SpareTheBusy(q, busy), !.failed = failed])
    /\ UNCHANGED <<map, online, driver, socket>>

Evict(q) ==
    /\ SearchAt(q, "evict")
    /\ Remove(search[q].rejected)
    /\ SearchTo(q, [search[q] EXCEPT !.pc = IF search[q].found = {} THEN "found" ELSE "profiles",
                                     !.fresh = {}, !.rejected = {}])
    /\ UNCHANGED <<online, driver, socket>>

\* findNearbyDriversForMode, for food and errands: still online, and in the right
\* queue.  Rides and parcels do not ask.
ReadProfiles(q) ==
    /\ SearchAt(q, "profiles")
    /\ \E inMode \in SUBSET online \cup {Driver} :
          SearchTo(q, [search[q] EXCEPT !.pc = "found", !.found = @ \cap inMode])
    /\ UNCHANGED <<map, online, driver, socket>>

\* The caller takes the result.
Return(q) ==
    /\ SearchAt(q, "found")
    /\ SearchTo(q, NoSearch)
    /\ UNCHANGED <<map, online, driver, socket>>

\* Any other query that fails takes the search with it.
FailSearch(q) ==
    /\ search[q].pc \notin {"idle", "found"}
    /\ SearchTo(q, NoSearch)
    /\ UNCHANGED <<map, online, driver, socket>>

SearchStep(q) ==
    \/ ReadFixes(q) \/ EvictStale(q) \/ ReadAccounts(q) \/ ReadDebts(q) \/ ReadJobs(q)
    \/ Evict(q) \/ ReadProfiles(q) \/ Return(q) \/ FailSearch(q)

Next ==
    \/ \E k \in Socket, d \in Driver : Connect(k, d) \/ ReviewTick(k, d)
    \/ \E k \in Socket : SocketStep(k)
    \/ \E d \in Driver : FixAges(d) \/ Suspend(d) \/ SuspendedGoOffline(d) \/ DeleteAccount(d)
    \/ \E r \in Standing, d \in Driver : Bar(r, d) \/ Unbar(r, d)
    \/ \E q \in Search, test \in BOOLEAN : GeoSearch(q, test)
    \/ \E q \in Search : SearchStep(q)

Spec == Init /\ [][Next]_vars

-----------------------------------------------------------------------------
\* No search ends with a driver who was suspended, over the credit limit, on a job,
\* offline or without a fresh fix all the while it ran, or with one of the other fleet:
\* a stale place on the map never hands the next passenger to a driver ops has suspended
\* (findNearbyDrivers, filterEligible).  The exception is a driver on a food order or an
\* errand, if the query for these failed: its error is taken for "nobody".
FoundAreEntitled ==
    \A q \in Search : SearchAt(q, "found") =>
        \A d \in search[q].found :
            /\ InFleet(d, search[q].test)
            /\ \A r \in Reason : d \in search[q].unfit[r] => r \in search[q].failed

\* A search takes nobody off the map who was over the limit or on a job all the
\* while it ran and whose fix it found fresh, unless the query for that job failed:
\* they "become matchable again on their own" (filterEligible).
SpareWhoReturns ==
    \A q \in Search : Evict(q) =>
        \A d \in geo \ geo' : \A r \in {"overLimit"} \cup JobKind :
            d \in search[q].unfit[r] => r \in search[q].failed
EvictionSpares == [][SpareWhoReturns]_vars
=============================================================================
