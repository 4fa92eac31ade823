----------------------------- MODULE FleetProofs ------------------------------
(***************************************************************************)
(* Proofs about the search of Fleet, for every set of drivers, sockets and *)
(* searches.                                                               *)
(***************************************************************************)
EXTENDS Fleet, TLAPS

-----------------------------------------------------------------------------
(* Sockets.                                                                *)

\* A connection or a tick at work, for a driver.
AtWork(s) == s \in SocketState /\ s.link # "new" /\ s.driver \in Driver
SocketsOK == /\ socket \in [Socket -> SocketState]
             /\ \A k \in Socket : socket[k] = NewSocket \/ AtWork(socket[k])

LEMMA NewSocketType ==
  /\ NewSocket \in SocketState /\ NewSocket.link = "new"
  /\ NewSocket.enter = "done" /\ NewSocket.ping = "done" /\ NewSocket.leave = "done"
  BY DEF NewSocket, SocketState

LEMMA SocketUpdates ==
  ASSUME NEW s, AtWork(s)
  PROVE  /\ \A enter \in {"account", "raise", "done"} : AtWork([s EXCEPT !.enter = enter])
         /\ \A ping \in {"position", "lastSeen", "done"} : AtWork([s EXCEPT !.ping = ping])
         /\ \A leave \in {"map", "lower", "done"} : AtWork([s EXCEPT !.leave = leave])
         /\ AtWork(Down(s))
         /\ Settled(s) = NewSocket \/ AtWork(Settled(s))
  BY DEF AtWork, SocketState, Down, Settled

LEMMA SocketMoves ==
  ASSUME SocketsOK, NEW k \in Socket, NEW s, s = NewSocket \/ AtWork(s),
         socket' = [socket EXCEPT ![k] = s]
  PROVE  SocketsOK'
<1>1. s \in SocketState
  BY NewSocketType DEF AtWork
<1> QED  BY <1>1 DEF SocketsOK

\* Whoever has a handler to run is at work.
LEMMA BusySockets ==
  ASSUME SocketsOK, NEW k \in Socket,
         \/ socket[k].link # "new" \/ socket[k].enter # "done"
         \/ socket[k].ping # "done" \/ socket[k].leave # "done"
  PROVE  AtWork(socket[k]) /\ socket[k].driver \in Driver
  BY NewSocketType DEF SocketsOK, AtWork

-----------------------------------------------------------------------------
(* Reasons, and the history of a search.                                   *)

LEMMA UnfitIs ==
  /\ Unfit("offline") = Driver \ online /\ Unfit("noFix") = Driver \ seen
  /\ \A r \in Standing : Unfit(r) = standing[r]
<1>1. \A r \in Standing : r # "offline" /\ r # "noFix"
  BY FleetAssumption DEF Standing
<1> QED  BY <1>1 DEF Unfit

LEMMA UnfitWillBe ==
  /\ Unfit("offline")' = Driver \ online' /\ Unfit("noFix")' = Driver \ seen'
  /\ \A r \in Standing : Unfit(r)' = standing'[r]
<1>1. \A r \in Standing : r # "offline" /\ r # "noFix"
  BY FleetAssumption DEF Standing
<1> QED  BY <1>1 DEF Unfit

LEMMA NoSearchType ==
  /\ NoSearch \in SearchState /\ NoSearch.pc = "idle" /\ NoSearch.found = {}
  /\ NoSearch.fresh = {} /\ NoSearch.rejected = {} /\ NoSearch.failed = {}
  /\ NoSearch.unfit = [r \in Reason |-> {}]
  BY DEF NoSearch, SearchState, SearchPC

-----------------------------------------------------------------------------
(* Type correctness.                                                       *)

FleetTypeOK == TypeOK /\ SocketsOK

LEMMA SearchMoves ==
  ASSUME TypeOK, NEW q \in Search, NEW s \in SearchState, SearchTo(q, s)
  PROVE  search' \in [Search -> SearchState] /\ search'[q] = s
  BY DEF TypeOK, SearchTo

\* A reason that stops applying leaves the searches where they are and their history shorter.
Forgets(s, t, r, d) ==
    /\ t.pc = s.pc /\ t.test = s.test /\ t.found = s.found /\ t.fresh = s.fresh
    /\ t.rejected = s.rejected /\ t.failed = s.failed
    /\ t.unfit[r] = s.unfit[r] \ {d}
    /\ \A other \in Reason \ {r} : t.unfit[other] = s.unfit[other]

LEMMA LiftedType ==
  ASSUME TypeOK, NEW r \in Reason, NEW d, Lifted(r, d)
  PROVE  /\ search' \in [Search -> SearchState]
         /\ \A q \in Search : Forgets(search[q], search'[q], r, d)
<1> DEFINE t(q) == [search[q] EXCEPT !.unfit[r] = @ \ {d}]
<1>1. ASSUME NEW q \in Search
      PROVE  t(q) \in SearchState /\ Forgets(search[q], t(q), r, d)
  <2>1. search[q] \in SearchState
    BY DEF TypeOK
  <2>2. search[q].unfit \in [Reason -> SUBSET Driver]
    BY <2>1 DEF SearchState
  <2>3. t(q) \in SearchState
    BY <2>1, <2>2 DEF SearchState
  <2>4. Forgets(search[q], t(q), r, d)
    BY <2>1, <2>2 DEF SearchState, Forgets
  <2> QED  BY <2>3, <2>4
<1>2. search' = [q \in Search |-> t(q)]
  BY DEF Lifted
<1> HIDE DEF t
<1> QED  BY <1>1, <1>2

LEMMA FleetInitType == Init => FleetTypeOK
<1> SUFFICES ASSUME Init PROVE FleetTypeOK
  OBVIOUS
<1>1. socket \in [Socket -> SocketState] /\ \A k \in Socket : socket[k] = NewSocket
  BY NewSocketType DEF Init
<1>2. search \in [Search -> SearchState]
  BY NoSearchType DEF Init
<1>3. standing \in [Standing -> SUBSET Driver] /\ changes \in 0..MaxChanges
  BY FleetAssumption DEF Init
<1> QED  BY <1>1, <1>2, <1>3, NewSocketType DEF FleetTypeOK, TypeOK, SocketsOK, Init

\* Everything but the sockets, and the sockets.
LEMMA TypesTogether ==
  ASSUME SocketsOK',
         geo' \subseteq Driver, seen' \subseteq Driver, online' \subseteq Driver,
         standing' \in [Standing -> SUBSET Driver], lowering' \subseteq Driver,
         search' \in [Search -> SearchState], changes' \in 0..MaxChanges
  PROVE  FleetTypeOK'
  BY NewSocketType DEF FleetTypeOK, TypeOK, SocketsOK, AtWork

\* A handler of a socket, a new connection or a tick of the review fleet.
LEMMA SocketStepType ==
  ASSUME FleetTypeOK, NEW k \in Socket,
         \/ SocketStep(k) \/ \E d \in Driver : Connect(k, d) \/ ReviewTick(k, d)
  PROVE  FleetTypeOK'
<1>0. TypeOK /\ SocketsOK
  BY DEF FleetTypeOK
<1> USE DEF TypeOK, map, driver
<1>1. ASSUME NEW d \in Driver, Connect(k, d)
      PROVE  FleetTypeOK'
  <2> DEFINE s == [socket[k] EXCEPT !.link = "up", !.driver = d, !.enter = "account"]
  <2>1. AtWork(s)
    BY <1>0 DEF AtWork, SocketState
  <2>2. SocketsOK'
    BY <1>0, <1>1, <2>1, SocketMoves DEF Connect
  <2> QED  BY <1>0, <1>1, <2>2, TypesTogether DEF Connect
<1>2. ASSUME NEW d \in Driver, ReviewTick(k, d)
      PROVE  FleetTypeOK'
  <2> DEFINE s == [socket[k] EXCEPT !.link = "tick", !.driver = d, !.enter = "raise", !.ping = "position"]
  <2>1. AtWork(s)
    BY <1>0 DEF AtWork, SocketState
  <2>2. SocketsOK'
    BY <1>0, <1>2, <2>1, SocketMoves DEF ReviewTick
  <2> QED  BY <1>0, <1>2, <2>2, TypesTogether DEF ReviewTick
<1>3. ASSUME CheckAccount(k)
      PROVE  FleetTypeOK'
  <2>1. AtWork(socket[k])
    BY <1>0, <1>3, BusySockets DEF CheckAccount
  <2>2. AtWork([Down(socket[k]) EXCEPT !.enter = "done"])
    BY <2>1, SocketUpdates
  <2>3. PICK s : /\ s = NewSocket \/ AtWork(s)
                 /\ socket' = [socket EXCEPT ![k] = s]
    BY <1>3, <2>1, <2>2, SocketUpdates DEF CheckAccount
  <2>4. SocketsOK'
    BY <1>0, <2>3, SocketMoves
  <2> QED  BY <1>0, <1>3, <2>4, TypesTogether DEF CheckAccount
<1>4. ASSUME RaiseOnline(k)
      PROVE  FleetTypeOK'
  <2>1. AtWork(socket[k]) /\ socket[k].driver \in Driver
    BY <1>0, <1>4, BusySockets DEF RaiseOnline
  <2>2. AtWork([socket[k] EXCEPT !.enter = "done"])
    BY <2>1, SocketUpdates
  <2>3. SocketsOK'
    BY <1>0, <1>4, <2>2, SocketUpdates, SocketMoves DEF RaiseOnline
  <2>4. search' \in [Search -> SearchState]
    BY <1>0, <1>4, LiftedType DEF RaiseOnline, Reason
  <2> QED  BY <1>0, <1>4, <2>1, <2>3, <2>4, TypesTogether DEF RaiseOnline
<1>5. ASSUME PingPosition(k)
      PROVE  FleetTypeOK'
  <2>1. AtWork(socket[k]) /\ socket[k].driver \in Driver
    BY <1>0, <1>5, BusySockets DEF PingPosition
  <2>2. AtWork([socket[k] EXCEPT !.ping = "lastSeen"])
    BY <2>1, SocketUpdates
  <2>3. SocketsOK'
    BY <1>0, <1>5, <2>2, SocketMoves DEF PingPosition
  <2> QED  BY <1>0, <1>5, <2>1, <2>3, TypesTogether DEF PingPosition
<1>6. ASSUME PingLastSeen(k)
      PROVE  FleetTypeOK'
  <2>1. AtWork(socket[k]) /\ socket[k].driver \in Driver
    BY <1>0, <1>6, BusySockets DEF PingLastSeen
  <2>2. AtWork([socket[k] EXCEPT !.ping = "done"])
    BY <2>1, SocketUpdates
  <2>3. SocketsOK'
    BY <1>0, <1>6, <2>2, SocketUpdates, SocketMoves DEF PingLastSeen
  <2>4. search' \in [Search -> SearchState]
    BY <1>0, <1>6, LiftedType DEF PingLastSeen, Reason
  <2> QED  BY <1>0, <1>6, <2>1, <2>3, <2>4, TypesTogether DEF PingLastSeen
<1>7. ASSUME Disconnect(k)
      PROVE  FleetTypeOK'
  <2>1. AtWork(Down(socket[k]))
    BY <1>0, <1>7, BusySockets, SocketUpdates DEF Disconnect
  <2>2. SocketsOK'
    BY <1>0, <1>7, <2>1, SocketMoves DEF Disconnect
  <2> QED  BY <1>0, <1>7, <2>2, TypesTogether DEF Disconnect
<1>8. ASSUME LeaveMap(k)
      PROVE  FleetTypeOK'
  <2>1. AtWork([socket[k] EXCEPT !.leave = "lower"])
    BY <1>0, <1>8, BusySockets, SocketUpdates DEF LeaveMap
  <2>2. SocketsOK'
    BY <1>0, <1>8, <2>1, SocketMoves DEF LeaveMap
  <2> QED  BY <1>0, <1>8, <2>2, TypesTogether DEF LeaveMap, Remove
<1>9. ASSUME LowerOnline(k)
      PROVE  FleetTypeOK'
  <2>1. AtWork([socket[k] EXCEPT !.leave = "done"])
    BY <1>0, <1>9, BusySockets, SocketUpdates DEF LowerOnline
  <2>2. SocketsOK'
    BY <1>0, <1>9, <2>1, SocketUpdates, SocketMoves DEF LowerOnline
  <2> QED  BY <1>0, <1>9, <2>2, TypesTogether DEF LowerOnline
<1> QED
  BY <1>1, <1>2, <1>3, <1>4, <1>5, <1>6, <1>7, <1>8, <1>9 DEF SocketStep

\* Time, ops, jobs and debts.
LEMMA StandingStepType ==
  ASSUME FleetTypeOK, NEW d \in Driver,
         \/ FixAges(d) \/ Suspend(d) \/ SuspendedGoOffline(d) \/ DeleteAccount(d)
         \/ \E r \in Standing : Bar(r, d) \/ Unbar(r, d)
  PROVE  FleetTypeOK'
<1>0. TypeOK /\ SocketsOK
  BY DEF FleetTypeOK
<1>1. ASSUME socket' = socket PROVE SocketsOK'
  BY <1>0, <1>1 DEF SocketsOK
<1>2. ASSUME Change PROVE changes' \in 0..MaxChanges
  BY <1>0, <1>2, FleetAssumption DEF Change, TypeOK
<1> USE DEF TypeOK, map, driver
<1>3. CASE FixAges(d)
  BY <1>0, <1>1, <1>3, TypesTogether DEF FixAges
<1>4. CASE Suspend(d)
  BY <1>0, <1>1, <1>2, <1>4, TypesTogether DEF Suspend, Standing
<1>5. CASE SuspendedGoOffline(d)
  BY <1>0, <1>1, <1>5, TypesTogether DEF SuspendedGoOffline
<1>6. CASE DeleteAccount(d)
  BY <1>0, <1>1, <1>2, <1>6, TypesTogether DEF DeleteAccount, Standing
<1>7. ASSUME NEW r \in Standing, Bar(r, d) PROVE FleetTypeOK'
  BY <1>0, <1>1, <1>2, <1>7, TypesTogether DEF Bar
<1>8. ASSUME NEW r \in Standing, Unbar(r, d) PROVE FleetTypeOK'
  <2>1. search' \in [Search -> SearchState]
    BY <1>0, <1>8, LiftedType DEF Unbar, Reason
  <2> QED  BY <1>0, <1>1, <1>2, <1>8, <2>1, TypesTogether DEF Unbar
<1> QED  BY <1>3, <1>4, <1>5, <1>6, <1>7, <1>8

-----------------------------------------------------------------------------
(* What a search knows of the drivers it carries.                          *)

Fresh(s) == s.pc \in {"evictStale", "accounts", "debts", "jobs", "evict", "profiles", "found"}
Vetted(s) == s.pc \in {"debts", "jobs", "evict", "profiles", "found"}
Solvent(s) == s.pc \in {"jobs", "evict", "profiles", "found"}
Free(s) == s.pc \in {"evict", "profiles", "found"}

\* None of the drivers has been kept out by the reason ever since the search began.
Cleared(s, drivers, r) == drivers \cap s.unfit[r] = {}

\* Every read of a search clears whom it keeps: of a stale fix, of the account's reasons,
\* of debt, of the jobs it could see; the last two reads clear those to be evicted, too.
ReadsClear(s) ==
    /\ Fresh(s) => Cleared(s, s.found \cup s.fresh, "noFix")
    /\ Vetted(s) => /\ Cleared(s, s.found, "suspended") /\ Cleared(s, s.found, "offline")
                    /\ \A d \in s.found : InFleet(d, s.test)
    /\ Solvent(s) => Cleared(s, s.found \cup s.rejected, "overLimit")
    /\ Free(s) => \A r \in JobKind \ s.failed : Cleared(s, s.found \cup s.rejected, r)

\* The history of a search never claims more than is the case.
HistoryHolds(s) == \A r \in Reason : s.unfit[r] \subseteq Unfit(r)

SearchInv ==
    /\ FleetTypeOK
    /\ \A q \in Search : ReadsClear(search[q]) /\ HistoryHolds(search[q])

LEMMA SearchInitInv == Init => SearchInv
<1> SUFFICES ASSUME Init PROVE SearchInv
  OBVIOUS
<1>1. ReadsClear(NoSearch)
  BY NoSearchType DEF ReadsClear, Fresh, Vetted, Solvent, Free
<1>2. HistoryHolds(NoSearch)
  BY NoSearchType DEF HistoryHolds
<1> QED  BY <1>1, <1>2, FleetInitType DEF Init, SearchInv

\* A step that leaves the searches alone and bars nobody less than before.
LEMMA SearchesWait ==
  ASSUME SearchInv, FleetTypeOK', search' = search,
         online' \subseteq online, seen' \subseteq seen,
         \A r \in Standing : standing[r] \subseteq standing'[r]
  PROVE  SearchInv'
<1>1. \A r \in Reason : Unfit(r) \subseteq Unfit(r)'
  BY UnfitIs, UnfitWillBe DEF Reason
<1>2. ASSUME NEW q \in Search
      PROVE  ReadsClear(search[q])' /\ HistoryHolds(search[q])'
  <2>1. ReadsClear(search[q]) /\ HistoryHolds(search[q]) /\ search'[q] = search[q]
    BY DEF SearchInv
  <2>2. ReadsClear(search[q])'
    BY <2>1 DEF ReadsClear, Fresh, Vetted, Solvent, Free, Cleared, InFleet
  <2>3. HistoryHolds(search[q])'
    BY <1>1, <2>1 DEF HistoryHolds
  <2> QED  BY <2>2, <2>3
<1> QED  BY <1>2 DEF SearchInv

\* A reason that stops applying to a driver, and is struck from every history.
LEMMA SearchesForget ==
  ASSUME SearchInv, FleetTypeOK', NEW r \in Reason, NEW d, Lifted(r, d),
         \A other \in Reason \ {r} : Unfit(other) \subseteq Unfit(other)',
         Unfit(r) \ {d} \subseteq Unfit(r)'
  PROVE  SearchInv'
<1>1. ASSUME NEW q \in Search
      PROVE  ReadsClear(search[q])' /\ HistoryHolds(search[q])'
  <2> DEFINE s == search[q]
             t == search'[q]
  <2>1. Forgets(s, t, r, d)
    BY LiftedType DEF SearchInv, FleetTypeOK
  <2>2. ReadsClear(s) /\ HistoryHolds(s)
    BY DEF SearchInv
  <2>3. \A other \in Reason : t.unfit[other] \subseteq s.unfit[other]
    BY <2>1 DEF Forgets
  <2>4. {"noFix", "suspended", "offline", "overLimit"} \cup JobKind \subseteq Reason
    BY DEF Reason, Standing
  <2>5. ReadsClear(t)
    BY <2>1, <2>2, <2>3, <2>4 DEF Forgets, ReadsClear, Fresh, Vetted, Solvent, Free, Cleared
  <2>6. HistoryHolds(search[q])'
    BY <2>1, <2>2 DEF Forgets, HistoryHolds
  <2>7. ReadsClear(search[q])'
    BY <2>5 DEF ReadsClear, Fresh, Vetted, Solvent, Free, Cleared, InFleet
  <2> QED  BY <2>6, <2>7
<1> QED  BY <1>1 DEF SearchInv

LEMMA SocketStepInv ==
  ASSUME SearchInv, NEW k \in Socket,
         \/ SocketStep(k) \/ \E d \in Driver : Connect(k, d) \/ ReviewTick(k, d)
  PROVE  SearchInv'
<1>0. FleetTypeOK'
  BY SocketStepType DEF SearchInv
<1> USE DEF map, driver
<1>1. CASE \E d \in Driver : Connect(k, d) \/ ReviewTick(k, d)
  BY <1>0, <1>1, SearchesWait DEF Connect, ReviewTick
<1>2. CASE CheckAccount(k) \/ PingPosition(k) \/ Disconnect(k) \/ LeaveMap(k) \/ LowerOnline(k)
  BY <1>0, <1>2, SearchesWait
     DEF CheckAccount, PingPosition, Disconnect, LeaveMap, LowerOnline, Remove
<1>3. CASE RaiseOnline(k)
  <2>1. \A other \in Reason \ {"offline"} : Unfit(other) \subseteq Unfit(other)'
    BY <1>3, UnfitIs, UnfitWillBe DEF RaiseOnline, Reason
  <2>2. Unfit("offline") \ {socket[k].driver} \subseteq Unfit("offline")'
    BY <1>3, UnfitIs, UnfitWillBe DEF RaiseOnline
  <2>3. Lifted("offline", socket[k].driver) /\ "offline" \in Reason
    BY <1>3 DEF RaiseOnline, Reason
  <2> QED  BY <1>0, <2>1, <2>2, <2>3, SearchesForget
<1>4. CASE PingLastSeen(k)
  <2>1. \A other \in Reason \ {"noFix"} : Unfit(other) \subseteq Unfit(other)'
    BY <1>4, UnfitIs, UnfitWillBe DEF PingLastSeen, Reason
  <2>2. Unfit("noFix") \ {socket[k].driver} \subseteq Unfit("noFix")'
    BY <1>4, UnfitIs, UnfitWillBe DEF PingLastSeen
  <2>3. Lifted("noFix", socket[k].driver) /\ "noFix" \in Reason
    BY <1>4 DEF PingLastSeen, Reason
  <2> QED  BY <1>0, <2>1, <2>2, <2>3, SearchesForget
<1> QED  BY <1>1, <1>2, <1>3, <1>4 DEF SocketStep

LEMMA StandingStepInv ==
  ASSUME SearchInv, NEW d \in Driver,
         \/ FixAges(d) \/ Suspend(d) \/ SuspendedGoOffline(d) \/ DeleteAccount(d)
         \/ \E r \in Standing : Bar(r, d) \/ Unbar(r, d)
  PROVE  SearchInv'
<1>0. FleetTypeOK' /\ standing \in [Standing -> SUBSET Driver]
  BY StandingStepType DEF SearchInv, FleetTypeOK, TypeOK
<1> USE DEF map, driver
<1>1. CASE FixAges(d) \/ SuspendedGoOffline(d)
  BY <1>0, <1>1, SearchesWait DEF FixAges, SuspendedGoOffline
<1>2. CASE Suspend(d) \/ DeleteAccount(d)
  BY <1>0, <1>2, SearchesWait DEF Suspend, DeleteAccount
<1>3. ASSUME NEW r \in Standing, Bar(r, d) PROVE SearchInv'
  BY <1>0, <1>3, SearchesWait DEF Bar
<1>4. ASSUME NEW r \in Standing, Unbar(r, d) PROVE SearchInv'
  <2>1. /\ standing' = [standing EXCEPT ![r] = @ \ {d}] /\ Lifted(r, d)
        /\ online' = online /\ seen' = seen
    BY <1>4 DEF Unbar
  <2>2. \A other \in Reason \ {r} : Unfit(other) \subseteq Unfit(other)'
    BY <1>0, <2>1, UnfitIs, UnfitWillBe DEF Reason
  <2>3. Unfit(r) \ {d} \subseteq Unfit(r)'
    BY <1>0, <2>1, UnfitIs, UnfitWillBe
  <2> QED  BY <1>0, <2>1, <2>2, <2>3, SearchesForget DEF Reason
<1> QED  BY <1>1, <1>2, <1>3, <1>4

\* One search moves, and nobody is barred less than before.
LEMMA SearchMovesOn ==
  ASSUME SearchInv, NEW q \in Search, NEW s \in SearchState, SearchTo(q, s),
         geo' \subseteq geo, seen' \subseteq seen, UNCHANGED <<online, driver, socket>>,
         ReadsClear(s), HistoryHolds(s)
  PROVE  SearchInv'
<1>1. /\ search' \in [Search -> SearchState] /\ search'[q] = s
      /\ \A p \in Search \ {q} : search'[p] = search[p]
  BY DEF SearchInv, FleetTypeOK, TypeOK, SearchTo
<1>2. SocketsOK'
  BY DEF SearchInv, FleetTypeOK, SocketsOK
<1>3. FleetTypeOK'
  BY <1>1, <1>2, TypesTogether DEF SearchInv, FleetTypeOK, TypeOK, driver
<1>4. \A r \in Reason : Unfit(r) \subseteq Unfit(r)'
  BY UnfitIs, UnfitWillBe DEF Reason, driver
<1>5. ASSUME NEW p \in Search
      PROVE  ReadsClear(search[p])' /\ HistoryHolds(search[p])'
  <2>1. ReadsClear(search'[p]) /\ HistoryHolds(search'[p])
    <3>1. CASE p = q
      BY <1>1, <3>1
    <3>2. CASE p # q
      BY <1>1, <3>2 DEF SearchInv
    <3> QED  BY <3>1, <3>2
  <2>2. ReadsClear(search[p])'
    BY <2>1 DEF ReadsClear, Fresh, Vetted, Solvent, Free, Cleared, InFleet
  <2>3. HistoryHolds(search[p])'
    BY <1>4, <2>1 DEF HistoryHolds
  <2> QED  BY <2>2, <2>3
<1> QED  BY <1>3, <1>5 DEF SearchInv

LEMMA SearchStepInv ==
  ASSUME SearchInv, NEW q \in Search,
         SearchStep(q) \/ \E test \in BOOLEAN : GeoSearch(q, test)
  PROVE  SearchInv'
<1> DEFINE old == search[q]
<1>0. /\ old \in SearchState /\ ReadsClear(old) /\ HistoryHolds(old)
      /\ old.found \subseteq Driver /\ old.fresh \subseteq Driver /\ old.rejected \subseteq Driver
      /\ old.unfit \in [Reason -> SUBSET Driver]
      /\ TypeOK
  BY DEF SearchInv, FleetTypeOK, TypeOK, SearchState
<1> USE DEF map, driver, SearchAt
<1>1. ASSUME NEW test \in BOOLEAN, GeoSearch(q, test)
      PROVE  SearchInv'
  <2>1. PICK near \in SUBSET geo :
          SearchTo(q, [NoSearch EXCEPT !.pc = IF near = {} THEN "found" ELSE "fixes", !.test = test,
                                       !.found = near, !.unfit = [r \in Reason |-> near \cap Unfit(r)]])
    BY <1>1 DEF GeoSearch
  <2> DEFINE s == [NoSearch EXCEPT !.pc = IF near = {} THEN "found" ELSE "fixes", !.test = test,
                                   !.found = near, !.unfit = [r \in Reason |-> near \cap Unfit(r)]]
  <2>2. near \in SUBSET Driver /\ [r \in Reason |-> near \cap Unfit(r)] \in [Reason -> SUBSET Driver]
    BY <1>0 DEF TypeOK
  <2>3. /\ s \in SearchState /\ s.found = near /\ s.fresh = {} /\ s.rejected = {}
        /\ s.unfit = [r \in Reason |-> near \cap Unfit(r)]
        /\ s.pc = IF near = {} THEN "found" ELSE "fixes"
    BY <2>2, NoSearchType DEF SearchState, SearchPC
  <2>4. ReadsClear(s)
    BY <2>3 DEF ReadsClear, Fresh, Vetted, Solvent, Free, Cleared
  <2>5. HistoryHolds(s)
    BY <2>3 DEF HistoryHolds
  <2> QED  BY <1>1, <2>1, <2>3, <2>4, <2>5, SearchMovesOn DEF GeoSearch
<1>2. ASSUME ReadFixes(q)
      PROVE  SearchInv'
  <2> DEFINE fresh == old.found \cap seen
             s == [old EXCEPT !.pc = "evictStale", !.found = fresh, !.fresh = fresh,
                              !.rejected = @ \cup (old.found \ fresh)]
  <2>1. /\ s \in SearchState /\ s.found = fresh /\ s.fresh = fresh
        /\ s.unfit = old.unfit /\ s.pc = "evictStale"
    BY <1>0 DEF SearchState, SearchPC
  <2>2. old.unfit["noFix"] \subseteq Driver \ seen
    BY <1>0, UnfitIs DEF HistoryHolds, Reason
  <2>3. ReadsClear(s)
    BY <2>1, <2>2 DEF ReadsClear, Fresh, Vetted, Solvent, Free, Cleared
  <2>4. HistoryHolds(s)
    BY <1>0, <2>1 DEF HistoryHolds
  <2> QED  BY <1>2, <2>1, <2>3, <2>4, SearchMovesOn DEF ReadFixes
<1>3. ASSUME EvictStale(q)
      PROVE  SearchInv'
  <2> DEFINE s == [old EXCEPT !.pc = IF old.found = {} THEN "found" ELSE "accounts", !.rejected = {}]
  <2>1. /\ s \in SearchState /\ s.found = old.found /\ s.fresh = old.fresh /\ s.rejected = {}
        /\ s.unfit = old.unfit /\ s.pc = IF old.found = {} THEN "found" ELSE "accounts"
    BY <1>0 DEF SearchState, SearchPC
  <2>2. Cleared(old, old.found \cup old.fresh, "noFix")
    BY <1>0, <1>3 DEF EvictStale, ReadsClear, Fresh
  <2>3. ReadsClear(s)
    BY <2>1, <2>2 DEF ReadsClear, Fresh, Vetted, Solvent, Free, Cleared
  <2>4. HistoryHolds(s)
    BY <1>0, <2>1 DEF HistoryHolds
  <2> QED  BY <1>3, <2>1, <2>3, <2>4, SearchMovesOn DEF EvictStale, Remove
<1>4. ASSUME ReadAccounts(q)
      PROVE  SearchInv'
  <2> DEFINE s == [old EXCEPT !.pc = "debts", !.found = Allowed(q), !.rejected = old.fresh \ Allowed(q)]
  <2>1. Allowed(q) \subseteq old.fresh
    BY DEF Allowed
  <2>2. /\ s \in SearchState /\ s.found = Allowed(q) /\ s.fresh = old.fresh
        /\ s.unfit = old.unfit /\ s.pc = "debts" /\ s.test = old.test
    BY <1>0, <2>1 DEF SearchState, SearchPC
  <2>3. old.unfit["suspended"] \subseteq standing["suspended"] /\ old.unfit["offline"] \cap online = {}
    BY <1>0, UnfitIs DEF HistoryHolds, Reason, Standing
  <2>4. Cleared(old, old.found \cup old.fresh, "noFix")
    BY <1>0, <1>4 DEF ReadAccounts, ReadsClear, Fresh
  <2>5. \A d \in Allowed(q) : d \notin standing["suspended"] /\ d \in online /\ InFleet(d, old.test)
    BY DEF Allowed
  <2>6. ReadsClear(s)
    BY <2>1, <2>2, <2>3, <2>4, <2>5 DEF ReadsClear, Fresh, Vetted, Solvent, Free, Cleared
  <2>7. HistoryHolds(s)
    BY <1>0, <2>2 DEF HistoryHolds
  <2> QED  BY <1>4, <2>2, <2>6, <2>7, SearchMovesOn DEF ReadAccounts
<1>5. ASSUME ReadDebts(q)
      PROVE  SearchInv'
  <2> DEFINE over == standing["overLimit"]
             s == [old EXCEPT !.pc = "jobs", !.found = @ \ over, !.rejected = @ \ over]
  <2>1. /\ s \in SearchState /\ s.found = old.found \ over /\ s.rejected = old.rejected \ over
        /\ s.fresh = old.fresh /\ s.unfit = old.unfit /\ s.pc = "jobs" /\ s.test = old.test
    BY <1>0 DEF SearchState, SearchPC
  <2>2. old.unfit["overLimit"] \subseteq over
    BY <1>0, UnfitIs DEF HistoryHolds, Reason, Standing
  <2>3. Fresh(old) /\ Vetted(old)
    BY <1>5 DEF ReadDebts, Fresh, Vetted
  <2>4. ReadsClear(s)
    BY <1>0, <2>1, <2>2, <2>3 DEF ReadsClear, Solvent, Free, Cleared
  <2>5. HistoryHolds(s)
    BY <1>0, <2>1 DEF HistoryHolds
  <2> QED  BY <1>5, <2>1, <2>4, <2>5, SearchMovesOn DEF ReadDebts
<1>6. ASSUME ReadJobs(q)
      PROVE  SearchInv'
  <2>1. PICK failed \in SUBSET Forgiven :
          SearchTo(q, [old EXCEPT !.pc = "evict", !.found = @ \ OnAJob(failed),
                                  !.rejected = SpareTheBusy(q, OnAJob(failed)), !.failed = failed])
    BY <1>6 DEF ReadJobs
  <2> DEFINE busy == OnAJob(failed)
             s == [old EXCEPT !.pc = "evict", !.found = @ \ busy,
                              !.rejected = SpareTheBusy(q, busy), !.failed = failed]
  <2>2. SpareTheBusy(q, busy) = old.rejected \ busy
    BY DEF SpareTheBusy
  <2>3. /\ s \in SearchState /\ s.found = old.found \ busy /\ s.rejected = old.rejected \ busy
        /\ s.fresh = old.fresh /\ s.unfit = old.unfit /\ s.pc = "evict" /\ s.test = old.test
        /\ s.failed = failed
    <3> HIDE DEF busy
    <3> QED  BY <1>0, <2>2 DEF SearchState, SearchPC
  <2>4. ASSUME NEW r \in JobKind \ failed PROVE old.unfit[r] \subseteq busy
    <3>1. r \in Standing /\ r \in Reason
      BY DEF Reason, Standing
    <3>2. old.unfit[r] \subseteq standing[r] /\ old.unfit[r] \subseteq Driver
      BY <1>0, <3>1, UnfitIs DEF HistoryHolds
    <3> QED  BY <3>2 DEF OnAJob
  <2>5. Fresh(old) /\ Vetted(old) /\ Solvent(old)
    BY <1>6 DEF ReadJobs, Fresh, Vetted, Solvent
  <2> HIDE DEF busy, s
  <2>6. ReadsClear(s)
    BY <1>0, <2>3, <2>4, <2>5 DEF ReadsClear, Free, Cleared
  <2>7. HistoryHolds(s)
    BY <1>0, <2>3 DEF HistoryHolds
  <2> QED  BY <1>6, <2>1, <2>3, <2>6, <2>7, SearchMovesOn DEF ReadJobs, s, busy
<1>7. ASSUME Evict(q)
      PROVE  SearchInv'
  <2> DEFINE s == [old EXCEPT !.pc = IF old.found = {} THEN "found" ELSE "profiles",
                              !.fresh = {}, !.rejected = {}]
  <2>1. /\ s \in SearchState /\ s.found = old.found /\ s.rejected = {} /\ s.fresh = {}
        /\ s.unfit = old.unfit /\ s.pc \in {"found", "profiles"} /\ s.test = old.test
        /\ s.failed = old.failed
    BY <1>0 DEF SearchState, SearchPC
  <2>2. Fresh(old) /\ Vetted(old) /\ Solvent(old) /\ Free(old)
    BY <1>7 DEF Evict, Fresh, Vetted, Solvent, Free
  <2>3. ReadsClear(s)
    BY <1>0, <2>1, <2>2 DEF ReadsClear, Cleared
  <2>4. HistoryHolds(s)
    BY <1>0, <2>1 DEF HistoryHolds
  <2> QED  BY <1>7, <2>1, <2>3, <2>4, SearchMovesOn DEF Evict, Remove
<1>8. ASSUME ReadProfiles(q)
      PROVE  SearchInv'
  <2>1. PICK inMode : SearchTo(q, [search[q] EXCEPT !.pc = "found", !.found = @ \cap inMode])
    BY <1>8 DEF ReadProfiles
  <2> DEFINE s == [old EXCEPT !.pc = "found", !.found = @ \cap inMode]
  <2>2. /\ s \in SearchState /\ s.found = old.found \cap inMode /\ s.rejected = old.rejected
        /\ s.fresh = old.fresh /\ s.unfit = old.unfit /\ s.pc = "found" /\ s.test = old.test
        /\ s.failed = old.failed
    BY <1>0 DEF SearchState, SearchPC
  <2>3. Fresh(old) /\ Vetted(old) /\ Solvent(old) /\ Free(old)
    BY <1>8 DEF ReadProfiles, Fresh, Vetted, Solvent, Free
  <2>4. ReadsClear(s)
    BY <1>0, <2>2, <2>3 DEF ReadsClear, Cleared
  <2>5. HistoryHolds(s)
    BY <1>0, <2>2 DEF HistoryHolds
  <2> QED  BY <1>8, <2>1, <2>2, <2>4, <2>5, SearchMovesOn DEF ReadProfiles
<1>9. ASSUME Return(q) \/ FailSearch(q)
      PROVE  SearchInv'
  <2>1. ReadsClear(NoSearch)
    BY NoSearchType DEF ReadsClear, Fresh, Vetted, Solvent, Free
  <2>2. HistoryHolds(NoSearch)
    BY NoSearchType DEF HistoryHolds
  <2> QED  BY <1>9, <2>1, <2>2, NoSearchType, SearchMovesOn DEF Return, FailSearch
<1> QED
  BY <1>1, <1>2, <1>3, <1>4, <1>5, <1>6, <1>7, <1>8, <1>9 DEF SearchStep

LEMMA FleetStepInv ==
  ASSUME SearchInv, [Next]_vars
  PROVE  SearchInv'
<1>1. CASE UNCHANGED vars
  <2>1. FleetTypeOK'
    BY <1>1, TypesTogether DEF SearchInv, FleetTypeOK, TypeOK, SocketsOK, vars
  <2> QED  BY <1>1, <2>1, SearchesWait DEF vars
<1>2. CASE Next
  <2>1. ASSUME NEW d \in Driver,
               \/ FixAges(d) \/ Suspend(d) \/ SuspendedGoOffline(d) \/ DeleteAccount(d)
               \/ \E r \in Standing : Bar(r, d) \/ Unbar(r, d)
        PROVE  SearchInv'
    BY <2>1, StandingStepInv
  <2>2. ASSUME NEW k \in Socket,
               \/ SocketStep(k) \/ \E d \in Driver : Connect(k, d) \/ ReviewTick(k, d)
        PROVE  SearchInv'
    BY <2>2, SocketStepInv
  <2>3. ASSUME NEW q \in Search,
               SearchStep(q) \/ \E test \in BOOLEAN : GeoSearch(q, test)
        PROVE  SearchInv'
    BY <2>3, SearchStepInv
  <2> QED  BY <1>2, <2>1, <2>2, <2>3 DEF Next
<1> QED  BY <1>1, <1>2

-----------------------------------------------------------------------------
(* The theorems.                                                           *)

\* Whatever sockets, ticks, ops and searches do to each other, the columns, keys and
\* handlers of LocationGateway and LocationService stay what they are declared to be.
THEOREM TypeCorrect == Spec => []TypeOK
<1>1. SearchInv /\ [Next]_vars => SearchInv'
  BY FleetStepInv
<1>2. SearchInv => TypeOK
  BY DEF SearchInv, FleetTypeOK
<1> QED  BY <1>1, <1>2, SearchInitInv, PTL DEF Spec

\* However many drivers, connections and searches there are, findNearbyDrivers never
\* returns a driver who was suspended, in debt, on a ride or parcel, offline or without a
\* fix all the while it ran, or one of the other fleet, and returns one on a food order
\* or an errand all the while only if that query failed.
THEOREM SearchesFindTheEntitled == Spec => []FoundAreEntitled
<1>1. SearchInv /\ [Next]_vars => SearchInv'
  BY FleetStepInv
<1>2. SearchInv => FoundAreEntitled
  <2> SUFFICES ASSUME SearchInv, NEW q \in Search, SearchAt(q, "found"), NEW d \in search[q].found
               PROVE  /\ InFleet(d, search[q].test)
                      /\ \A r \in Reason : d \in search[q].unfit[r] => r \in search[q].failed
    BY DEF FoundAreEntitled
  <2>1. ReadsClear(search[q]) /\ search[q].pc = "found"
    BY DEF SearchInv, SearchAt
  <2> QED
    BY <2>1 DEF ReadsClear, Fresh, Vetted, Solvent, Free, Cleared, Reason, Standing
<1> QED  BY <1>1, <1>2, SearchInitInv, PTL DEF Spec

\* An eviction (filterEligible) never takes off the map a driver whose fix was fresh and
\* who was over the limit, or on a job whose query did not fail, all the while the search
\* ran.
THEOREM EvictionsSpareWhoReturns == Spec => EvictionSpares
<1>1. SearchInv /\ [Next]_vars => SearchInv'
  BY FleetStepInv
<1>2. SearchInv /\ [Next]_vars => [SpareWhoReturns]_vars
  <2> SUFFICES ASSUME SearchInv, NEW q \in Search, Evict(q), NEW d \in geo \ geo',
                      NEW r \in {"overLimit"} \cup JobKind, d \in search[q].unfit[r]
               PROVE  r \in search[q].failed
    BY DEF SpareWhoReturns
  <2>1. ReadsClear(search[q]) /\ search[q].pc = "evict" /\ d \in search[q].rejected
    BY DEF SearchInv, Evict, SearchAt, Remove
  <2> QED  BY <2>1 DEF ReadsClear, Solvent, Free, Cleared
<1> QED  BY <1>1, <1>2, SearchInitInv, PTL DEF Spec, EvictionSpares
=============================================================================
