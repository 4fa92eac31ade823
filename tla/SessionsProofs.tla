---------------------------- MODULE SessionsProofs -----------------------------
(***************************************************************************)
(* Proofs about Sessions, for every set of users, any number of handlers   *)
(* in flight and any number of codes, tokens and passwords.                *)
(***************************************************************************)
EXTENDS Sessions, FiniteSetTheorems, TLAPS

-----------------------------------------------------------------------------
(* Requests in flight.                                                     *)

\* A request names a user, and a sign-in about to issue tokens a password at most.
RequestOK(r) ==
    /\ r \in Request
    /\ r.pc # "idle" => r.user \in User
    /\ r.pc \in {"revoking", "issuing"} => r.item \in 0..MaxPasswords
RequestsOK == req \in [Slot -> Request] /\ \A s \in Slot : RequestOK(req[s])

PC == {"idle"} \cup SignIn \cup Access \cup Closing

LEMMA IdleType ==
  /\ RequestOK(Idle) /\ Idle.pc = "idle" /\ Idle.bars = {} /\ Idle.user = None
  /\ Idle.item = 0 /\ Idle.blind = FALSE
  BY DEF RequestOK, Idle, Request, SignIn

\* What the guards rely on: a request knows of no bar that is not there, and of none at
\* all that a guard it has passed asks for.
BarsHold(r) ==
    r.pc # "idle" => /\ "closed" \in r.bars => ~account[r.user].active
                     /\ "revoked" \in r.bars => r.user \in denied
PastTheGuards(r) ==
    /\ r.pc = "admitted" => "closed" \notin r.bars
    /\ r.pc \in {"askingDatabase", "admitted"} /\ "revoked" \in r.bars => r.blind

SessionsTypeOK == TypeOK /\ RequestsOK
GuardInv ==
    /\ SessionsTypeOK
    /\ \A s \in Slot : BarsHold(req[s]) /\ PastTheGuards(req[s])

\* What a sign-in has read of its user, who does nothing else meanwhile.
SignInKnows(r) ==
    /\ r.pc \in SignIn => ~account[r.user].deleted
    /\ r.pc = "issuing" => tokens[r.user].open = {}
    /\ r.pc = "sendingCode" => codes[r.user].open = {}
    /\ r.pc = "consumingCode" => r.item \in codes[r.user].open

AtMostOne(S) == \A x, y \in S : x = y

\* The rows of one user: one open token, or none after the deletion; one open code, and
\* codes that are open or still to come have opened nothing.
RowsInOrder(u) ==
    /\ AtMostOne(tokens[u].open)
    /\ account[u].deleted => tokens[u].open = {}
    /\ AtMostOne(codes[u].open)
    /\ \A c \in 1..MaxCodes : /\ uses[u][c] <= 1
                              /\ c \in codes[u].open \/ c > codes[u].last => uses[u][c] = 0

\* Nobody but s is signing u in.
Alone(s, u) == \A t \in Slot \ {s} : ~(req[t].pc \in SignIn /\ req[t].user = u)

SignInInv ==
    /\ SessionsTypeOK
    /\ Sequential =>
          /\ \A s \in Slot : req[s].pc \in SignIn => Alone(s, req[s].user)
          /\ \A s \in Slot : SignInKnows(req[s])
          /\ \A u \in User : RowsInOrder(u)

-----------------------------------------------------------------------------
(* How a request moves.                                                    *)

Others(s) == \A t \in Slot \ {s} : req'[t] = req[t]
IsAt(r, pc, u, item) == r.pc = pc /\ r.user = u /\ r.item = item
Keeps(r, old) == r.blind = old.blind /\ r.bars = old.bars
ItemFits(pc, item) == item \in Nat /\ (pc \in {"revoking", "issuing"} => item \in 0..MaxPasswords)

LEMMA RequestSet ==
  ASSUME RequestsOK, NEW s \in Slot, NEW r, RequestOK(r), req' = [req EXCEPT ![s] = r]
  PROVE  RequestsOK' /\ req'[s] = r /\ Others(s)
<1>1. r \in Request
  BY DEF RequestOK
<1>2. req' \in [Slot -> Request] /\ req'[s] = r /\ \A t \in Slot \ {s} : req'[t] = req[t]
  BY <1>1 DEF RequestsOK
<1>3. ASSUME NEW t \in Slot PROVE RequestOK(req'[t])
  <2>1. CASE t = s
    BY <1>2, <2>1
  <2>2. CASE t # s
    BY <1>2, <2>2 DEF RequestsOK
  <2> QED  BY <2>1, <2>2
<1> QED  BY <1>2, <1>3 DEF RequestsOK, Others, RequestOK

LEMMA BeginMoves ==
  ASSUME RequestsOK, NEW s \in Slot, NEW u \in User, NEW pc \in PC \ {"idle"}, NEW item,
         ItemFits(pc, item), Begin(s, pc, u, item)
  PROVE  /\ RequestsOK' /\ IsAt(req'[s], pc, u, item) /\ Keeps(req'[s], Idle) /\ Others(s)
         /\ req[s].pc = "idle"
<1> DEFINE r == [Idle EXCEPT !.pc = pc, !.user = u, !.item = item]
<1>1. RequestOK(r) /\ IsAt(r, pc, u, item) /\ Keeps(r, Idle)
  BY DEF RequestOK, Request, Idle, PC, IsAt, Keeps, ItemFits
<1> QED  BY <1>1, RequestSet, IdleType DEF Begin

LEMMA SwitchMoves ==
  ASSUME RequestsOK, NEW s \in Slot, NEW pc \in PC \ {"idle"}, NEW item, ItemFits(pc, item),
         req[s].pc # "idle",
         req' = [req EXCEPT ![s] = [@ EXCEPT !.pc = pc, !.item = item]]
  PROVE  /\ RequestsOK' /\ IsAt(req'[s], pc, req[s].user, item) /\ Keeps(req'[s], req[s])
         /\ Others(s)
<1> DEFINE r == [req[s] EXCEPT !.pc = pc, !.item = item]
<1>1. req[s] \in Request /\ req[s].user \in User
  BY DEF RequestsOK, RequestOK
<1>2. RequestOK(r) /\ IsAt(r, pc, req[s].user, item) /\ Keeps(r, req[s])
  BY <1>1 DEF RequestOK, Request, PC, IsAt, Keeps, ItemFits
<1> QED  BY <1>2, RequestSet

LEMMA GotoMoves ==
  ASSUME RequestsOK, NEW s \in Slot, NEW pc \in PC \ {"idle"}, req[s].pc # "idle",
         ItemFits(pc, req[s].item), Goto(s, pc)
  PROVE  /\ RequestsOK' /\ IsAt(req'[s], pc, req[s].user, req[s].item) /\ Keeps(req'[s], req[s])
         /\ Others(s)
<1> DEFINE r == [req[s] EXCEPT !.pc = pc]
<1>1. req[s] \in Request /\ req[s].user \in User
  BY DEF RequestsOK, RequestOK
<1>2. RequestOK(r) /\ IsAt(r, pc, req[s].user, req[s].item) /\ Keeps(r, req[s])
  BY <1>1 DEF RequestOK, Request, PC, IsAt, Keeps, ItemFits
<1> QED  BY <1>2, RequestSet DEF Goto

LEMMA EndMoves ==
  ASSUME RequestsOK, NEW s \in Slot, End(s)
  PROVE  RequestsOK' /\ req'[s] = Idle /\ Others(s)
BY IdleType, RequestSet DEF End

\* Other requests stay where they are and may lose bars.
OthersLoseBars(s) ==
    \A t \in Slot \ {s} : /\ IsAt(req'[t], req[t].pc, req[t].user, req[t].item)
                          /\ req'[t].blind = req[t].blind
                          /\ req'[t].bars \subseteq req[t].bars
Lifted(u, bar) == \A t \in Slot : req'[t].user = u => bar \notin req'[t].bars

\* Lift after one request has moved.
LEMMA LiftMoves ==
  ASSUME RequestsOK, NEW s \in Slot, NEW r, RequestOK(r), NEW u, NEW bar,
         NEW next, next = [req EXCEPT ![s] = r], req' = Lift(next, u, bar)
  PROVE  /\ RequestsOK'
         /\ IsAt(req'[s], r.pc, r.user, r.item)
         /\ req'[s].blind = r.blind /\ req'[s].bars \subseteq r.bars
         /\ OthersLoseBars(s) /\ Lifted(u, bar)
<1>1. /\ next \in [Slot -> Request] /\ next[s] = r
      /\ \A t \in Slot \ {s} : next[t] = req[t]
      /\ \A t \in Slot : RequestOK(next[t])
  <2>1. r \in Request
    BY DEF RequestOK
  <2> QED  BY <2>1 DEF RequestsOK
<1>2. req' = [t \in Slot |-> IF next[t].user = u THEN [next[t] EXCEPT !.bars = @ \ {bar}] ELSE next[t]]
  BY DEF Lift
<1>3. ASSUME NEW t \in Slot
      PROVE  /\ RequestOK(req'[t]) /\ IsAt(req'[t], next[t].pc, next[t].user, next[t].item)
             /\ req'[t].blind = next[t].blind /\ req'[t].bars \subseteq next[t].bars
             /\ req'[t].user = u => bar \notin req'[t].bars
  <2>1. CASE next[t].user = u
    <3>1. req'[t] = [next[t] EXCEPT !.bars = @ \ {bar}]
      BY <1>2, <2>1
    <3>2. PICK n : n = next[t] /\ RequestOK(n)
      BY <1>1
    <3>3. PICK q : q = req'[t] /\ q = [n EXCEPT !.bars = @ \ {bar}]
      BY <3>1, <3>2
    <3>4. /\ RequestOK(q) /\ IsAt(q, n.pc, n.user, n.item)
          /\ q.blind = n.blind /\ q.bars = n.bars \ {bar}
      BY <3>2, <3>3 DEF RequestOK, Request, IsAt
    <3> QED  BY <3>2, <3>3, <3>4
  <2>2. CASE next[t].user # u
    <3>1. req'[t] = next[t]
      BY <1>2, <2>2
    <3> QED  BY <1>1, <2>2, <3>1 DEF IsAt
  <2> QED  BY <2>1, <2>2
<1>4. RequestsOK'
  BY <1>2, <1>3 DEF RequestsOK, RequestOK
<1> QED  BY <1>1, <1>3, <1>4 DEF OthersLoseBars, Lifted

-----------------------------------------------------------------------------
(* Type correctness.                                                       *)

LEMMA SessionsInitType == Init => SessionsTypeOK
<1> SUFFICES ASSUME Init PROVE SessionsTypeOK
  OBVIOUS
<1>1. NoAccount \in Account /\ 0 \in 0..MaxPasswords /\ 0 \in 0..MaxTokens /\ 0 \in 0..MaxCodes
  BY SessionsAssumption DEF NoAccount, Account
<1>2. RequestsOK
  BY IdleType DEF Init, RequestsOK, RequestOK
<1>3. /\ account \in [User -> Account]
      /\ tokens \in [User -> Issued(MaxTokens)] /\ codes \in [User -> Issued(MaxCodes)]
      /\ \A u \in User : tokens[u].open = {} /\ codes[u].open = {}
      /\ uses \in [User -> [1..MaxCodes -> Nat]] /\ login \in [User -> 0..MaxPasswords]
  BY <1>1 DEF Init, Issued
<1> QED  BY <1>2, <1>3, IdleType DEF SessionsTypeOK, TypeOK, Init, RequestsOK

\* The requests beside the other variables.
LEMMA TypesTogether ==
  ASSUME RequestsOK',
         account' \in [User -> Account],
         tokens' \in [User -> Issued(MaxTokens)], codes' \in [User -> Issued(MaxCodes)],
         \A u \in User : /\ tokens'[u].open \subseteq 1..tokens'[u].last
                         /\ codes'[u].open \subseteq 1..codes'[u].last,
         denied' \subseteq User, redisUp' \in BOOLEAN,
         uses' \in [User -> [1..MaxCodes -> Nat]], login' \in [User -> 0..MaxPasswords]
  PROVE  SessionsTypeOK'
BY DEF SessionsTypeOK, TypeOK, RequestsOK, RequestOK

\* A new row of codes or tokens.
LEMMA OpenedType ==
  ASSUME NEW max \in Nat, NEW rows \in Issued(max), rows.open \subseteq 1..rows.last,
         rows.last < max
  PROVE  /\ Opened(rows) \in Issued(max) /\ Opened(rows).last = rows.last + 1
         /\ Opened(rows).open = rows.open \cup {rows.last + 1}
         /\ Opened(rows).open \subseteq 1..Opened(rows).last
BY DEF Opened, Issued

\* Rows that are closed.
LEMMA CodesClosed ==
  ASSUME TypeOK, NEW u \in User, NEW row \in Issued(MaxCodes),
         row.open \subseteq codes[u].open, row.last = codes[u].last,
         codes' = [codes EXCEPT ![u] = row]
  PROVE  /\ codes' \in [User -> Issued(MaxCodes)]
         /\ codes'[u].open = row.open /\ codes'[u].last = codes[u].last
         /\ \A v \in User \ {u} : codes'[v] = codes[v]
         /\ \A v \in User : codes'[v].open \subseteq 1..codes'[v].last
BY DEF TypeOK

LEMMA TokensClosed ==
  ASSUME TypeOK, NEW u \in User, NEW row \in Issued(MaxTokens),
         row.open \subseteq tokens[u].open, row.last = tokens[u].last,
         tokens' = [tokens EXCEPT ![u] = row]
  PROVE  /\ tokens' \in [User -> Issued(MaxTokens)]
         /\ tokens'[u].open = row.open /\ tokens'[u].last = tokens[u].last
         /\ \A v \in User \ {u} : tokens'[v] = tokens[v]
         /\ \A v \in User : tokens'[v].open \subseteq 1..tokens'[v].last
BY DEF TypeOK

\* Where a sign-in begins.
LEMMA SignInBegins ==
  ASSUME SessionsTypeOK, NEW s \in Slot, NEW u \in User,
         \/ Register(s, u) \/ RequestOtp(s, u) \/ Login(s, u)
         \/ \E c \in 1..MaxCodes : VerifyOtp(s, u, c)
         \/ \E r \in 1..MaxTokens : Refresh(s, u, r)
  PROVE  /\ SessionsTypeOK' /\ req[s].pc = "idle" /\ Others(s) /\ MaySignIn(u)
         /\ UNCHANGED <<account, tokens, codes, denied, redisUp, uses, login>>
         /\ req'[s].pc \in SignIn \ {"sendingCode", "issuing"} /\ req'[s].user = u
         /\ Keeps(req'[s], Idle)
         /\ req'[s].pc = "consumingCode" => req'[s].item \in codes[u].open
         /\ account[u].deleted => \E r \in tokens[u].open : TRUE
<1>0. RequestsOK /\ TypeOK
  BY DEF SessionsTypeOK
<1> DEFINE Enters == \E item : \E pc \in SignIn \ {"sendingCode", "issuing"} :
                       /\ ItemFits(pc, item) /\ Begin(s, pc, u, item)
                       /\ pc = "consumingCode" => item \in codes[u].open
<1>1. Enters
  <2>1. account[u].password \in 0..MaxPasswords
    BY <1>0 DEF TypeOK, Account
  <2>2. CASE Register(s, u) \/ RequestOtp(s, u)
    BY <2>2, SessionsAssumption DEF Register, RequestOtp, SignIn, ItemFits
  <2>3. CASE Login(s, u)
    BY <2>1, <2>3 DEF Login, SignIn, ItemFits
  <2>4. ASSUME NEW c \in 1..MaxCodes, VerifyOtp(s, u, c) PROVE Enters
    BY <2>4 DEF VerifyOtp, Latest, SignIn, ItemFits
  <2>5. ASSUME NEW r \in 1..MaxTokens, Refresh(s, u, r) PROVE Enters
    BY <2>5 DEF Refresh, SignIn, ItemFits
  <2> QED  BY <2>2, <2>3, <2>4, <2>5
<1>2. PICK item : \E pc \in SignIn \ {"sendingCode", "issuing"} :
         /\ ItemFits(pc, item) /\ Begin(s, pc, u, item)
         /\ pc = "consumingCode" => item \in codes[u].open
  BY <1>1
<1>3. PICK pc \in SignIn \ {"sendingCode", "issuing"} :
         /\ ItemFits(pc, item) /\ Begin(s, pc, u, item)
         /\ pc = "consumingCode" => item \in codes[u].open
  BY <1>2
<1>4. pc \in PC \ {"idle"}
  BY DEF PC, SignIn
<1>5. /\ RequestsOK' /\ IsAt(req'[s], pc, u, item) /\ Keeps(req'[s], Idle) /\ Others(s)
      /\ req[s].pc = "idle"
  BY <1>0, <1>3, <1>4, BeginMoves
<1>6. /\ UNCHANGED <<account, tokens, codes, denied, redisUp, uses, login>> /\ MaySignIn(u)
      /\ account[u].deleted => \E r \in tokens[u].open : TRUE
  BY DEF Register, RequestOtp, Login, VerifyOtp, Refresh, Found, history
<1>7. SessionsTypeOK'
  BY <1>0, <1>5, <1>6, TypesTogether DEF TypeOK
<1> QED  BY <1>3, <1>5, <1>6, <1>7 DEF IsAt

\* A step of a sign-in ends it or takes it on.
GoesOn(s) ==
    /\ req[s].pc \in SignIn /\ req[s].user \in User /\ Others(s)
    /\ \/ req'[s] = Idle
       \/ /\ req'[s].pc \in SignIn /\ req'[s].user = req[s].user
          /\ Keeps(req'[s], req[s])

SameStanding ==
    \A v \in User : account'[v].active = account[v].active /\ account'[v].deleted = account[v].deleted

LEMMA AccountChanges ==
  ASSUME SessionsTypeOK, NEW u \in User, NEW a \in Account, account' = [account EXCEPT ![u] = a],
         a.active = account[u].active, a.deleted = account[u].deleted
  PROVE  account' \in [User -> Account] /\ SameStanding
BY DEF SessionsTypeOK, TypeOK, SameStanding

LEMMA StoreAccountDoes ==
  ASSUME SessionsTypeOK, NEW s \in Slot, StoreAccount(s)
  PROVE  /\ SessionsTypeOK' /\ GoesOn(s) /\ SameStanding /\ UNCHANGED <<tokens, codes, denied, uses>>
         /\ req'[s].pc \in {"idle", "revoking"}
<1> DEFINE u == req[s].user
           password == account[u].password + 1
<1>0. /\ RequestsOK /\ TypeOK /\ RequestOK(req[s]) /\ u \in User /\ account[u] \in Account
      /\ req[s].pc \in SignIn
  BY DEF SessionsTypeOK, RequestsOK, RequestOK, TypeOK, StoreAccount, SignIn
<1>1. CASE End(s) /\ UNCHANGED account
  <2>1. SameStanding
    BY <1>1 DEF SameStanding
  <2> QED
    BY <1>0, <1>1, <2>1, EndMoves, IdleType, TypesTogether DEF StoreAccount, history, TypeOK, GoesOn
<1>2. CASE /\ password <= MaxPasswords
           /\ account' = [account EXCEPT ![u] = [@ EXCEPT !.exists = TRUE, !.password = password]]
           /\ req' = [req EXCEPT ![s] = [@ EXCEPT !.pc = "revoking", !.item = password]]
  <2> DEFINE a == [account[u] EXCEPT !.exists = TRUE, !.password = password]
  <2>0. password \in 0..MaxPasswords
    BY <1>0, <1>2, SessionsAssumption DEF Account
  <2>1. a \in Account /\ a.active = account[u].active /\ a.deleted = account[u].deleted
    <3>1. PICK n \in 0..MaxPasswords : n = password
      BY <2>0
    <3> QED  BY <1>0, <3>1 DEF Account
  <2>2. account' \in [User -> Account] /\ SameStanding
    BY <1>0, <1>2, <2>1, AccountChanges
  <2>3. ItemFits("revoking", password) /\ "revoking" \in PC \ {"idle"} /\ "revoking" \in SignIn
    BY <2>0, SessionsAssumption DEF ItemFits, PC, SignIn
  <2>4. /\ RequestsOK' /\ IsAt(req'[s], "revoking", u, password) /\ Keeps(req'[s], req[s])
        /\ Others(s)
    BY <1>0, <1>2, <2>3, SwitchMoves DEF SignIn
  <2> QED
    BY <1>0, <2>2, <2>3, <2>4, TypesTogether DEF StoreAccount, history, TypeOK, GoesOn, IsAt
<1> QED  BY <1>1, <1>2 DEF StoreAccount

LEMMA OpenByCodeDoes ==
  ASSUME SessionsTypeOK, NEW s \in Slot, OpenByCode(s)
  PROVE  /\ SessionsTypeOK' /\ GoesOn(s) /\ SameStanding /\ UNCHANGED <<tokens, codes, denied, uses>>
         /\ req'[s].pc \in {"idle", "spendingCodes"}
<1> DEFINE u == req[s].user
<1>0. /\ RequestsOK /\ TypeOK /\ RequestOK(req[s]) /\ u \in User /\ account[u] \in Account
      /\ req[s].pc \in SignIn /\ req[s].pc = "openingByCode"
  BY DEF SessionsTypeOK, RequestsOK, RequestOK, TypeOK, OpenByCode, SignIn, At
<1>1. CASE End(s) /\ UNCHANGED account
  <2>1. SameStanding
    BY <1>1 DEF SameStanding
  <2> QED
    BY <1>0, <1>1, <2>1, EndMoves, IdleType, TypesTogether DEF OpenByCode, history, TypeOK, GoesOn
<1>2. CASE account' = [account EXCEPT ![u].exists = TRUE] /\ Goto(s, "spendingCodes")
  <2> DEFINE a == [account[u] EXCEPT !.exists = TRUE]
  <2>1. /\ a \in Account /\ account' = [account EXCEPT ![u] = a]
        /\ a.active = account[u].active /\ a.deleted = account[u].deleted
    BY <1>0, <1>2 DEF Account
  <2>2. account' \in [User -> Account] /\ SameStanding
    BY <1>0, <2>1, AccountChanges
  <2>3. /\ ItemFits("spendingCodes", req[s].item) /\ "spendingCodes" \in PC \ {"idle"}
        /\ "spendingCodes" \in SignIn
    BY <1>0 DEF ItemFits, PC, SignIn, RequestOK, Request
  <2>4. /\ RequestsOK' /\ IsAt(req'[s], "spendingCodes", u, req[s].item) /\ Keeps(req'[s], req[s])
        /\ Others(s)
    BY <1>0, <1>2, <2>3, GotoMoves
  <2> QED
    BY <1>0, <2>2, <2>3, <2>4, TypesTogether DEF OpenByCode, history, TypeOK, GoesOn, IsAt
<1> QED  BY <1>1, <1>2 DEF OpenByCode

LEMMA SpendCodesDoes ==
  ASSUME SessionsTypeOK, NEW s \in Slot, NEW u, u = req[s].user, SpendCodes(s)
  PROVE  /\ SessionsTypeOK' /\ GoesOn(s) /\ SameStanding /\ UNCHANGED <<tokens, denied, uses>>
         /\ req'[s].pc = "sendingCode" /\ req'[s].user = u
         /\ codes'[u].open = {} /\ codes'[u].last = codes[u].last
         /\ \A v \in User \ {u} : codes'[v] = codes[v]
<1>0. /\ RequestsOK /\ TypeOK /\ RequestOK(req[s]) /\ u \in User
      /\ req[s].pc \in SignIn /\ req[s].pc = "spendingCodes"
  BY DEF SessionsTypeOK, RequestsOK, RequestOK, TypeOK, SpendCodes, SignIn, At
<1>1. /\ ItemFits("sendingCode", req[s].item) /\ "sendingCode" \in PC \ {"idle"}
      /\ "sendingCode" \in SignIn
  BY <1>0 DEF ItemFits, PC, SignIn, RequestOK, Request
<1>2. /\ RequestsOK' /\ IsAt(req'[s], "sendingCode", u, req[s].item) /\ Keeps(req'[s], req[s])
      /\ Others(s)
  BY <1>0, <1>1, GotoMoves DEF SpendCodes
<1>3. /\ codes' \in [User -> Issued(MaxCodes)] /\ codes'[u].open = {} /\ codes'[u].last = codes[u].last
      /\ \A v \in User \ {u} : codes'[v] = codes[v]
      /\ \A v \in User : codes'[v].open \subseteq 1..codes'[v].last
  <2> DEFINE row == [codes[u] EXCEPT !.open = {}]
  <2>1. row \in Issued(MaxCodes) /\ row.open = {} /\ row.last = codes[u].last
    BY <1>0 DEF TypeOK, Issued
  <2>2. codes' = [codes EXCEPT ![u] = row]
    BY DEF SpendCodes
  <2> HIDE DEF row
  <2> QED  BY <1>0, <2>1, <2>2, CodesClosed
<1>4. SessionsTypeOK'
  BY <1>0, <1>2, <1>3, TypesTogether DEF SpendCodes, history, TypeOK
<1> QED
  BY <1>0, <1>1, <1>2, <1>3, <1>4 DEF SpendCodes, history, GoesOn, IsAt, SameStanding

LEMMA StoreCodeDoes ==
  ASSUME SessionsTypeOK, NEW s \in Slot, NEW u, u = req[s].user, StoreCode(s)
  PROVE  /\ SessionsTypeOK' /\ GoesOn(s) /\ SameStanding /\ UNCHANGED <<tokens, denied, uses>>
         /\ req'[s] = Idle /\ req[s].pc = "sendingCode"
         /\ codes'[u].open = codes[u].open \cup {codes[u].last + 1}
         /\ codes'[u].last = codes[u].last + 1 /\ codes[u].last \in Nat
         /\ \A v \in User \ {u} : codes'[v] = codes[v]
<1>0. /\ RequestsOK /\ TypeOK /\ RequestOK(req[s]) /\ u \in User
      /\ req[s].pc \in SignIn /\ req[s].pc = "sendingCode"
  BY DEF SessionsTypeOK, RequestsOK, RequestOK, TypeOK, StoreCode, SignIn, At
<1>1. RequestsOK' /\ req'[s] = Idle /\ Others(s)
  BY <1>0, EndMoves DEF StoreCode
<1>2. /\ codes[u] \in Issued(MaxCodes) /\ codes[u].open \subseteq 1..codes[u].last
      /\ codes[u].last < MaxCodes /\ MaxCodes \in Nat /\ codes[u].last \in Nat
  BY <1>0, SessionsAssumption DEF TypeOK, StoreCode, Issued
<1>3. /\ Opened(codes[u]) \in Issued(MaxCodes) /\ Opened(codes[u]).last = codes[u].last + 1
      /\ Opened(codes[u]).open = codes[u].open \cup {codes[u].last + 1}
      /\ Opened(codes[u]).open \subseteq 1..Opened(codes[u]).last
  BY <1>2, OpenedType
<1>4. codes' = [codes EXCEPT ![u] = Opened(codes[u])]
  BY DEF StoreCode
<1>5. /\ codes' \in [User -> Issued(MaxCodes)] /\ codes'[u] = Opened(codes[u])
      /\ \A v \in User \ {u} : codes'[v] = codes[v]
  BY <1>0, <1>3, <1>4 DEF TypeOK
<1>6. \A v \in User : codes'[v].open \subseteq 1..codes'[v].last
  BY <1>0, <1>3, <1>5 DEF TypeOK
<1>7. SessionsTypeOK'
  BY <1>0, <1>1, <1>5, <1>6, TypesTogether DEF StoreCode, history, TypeOK
<1> QED
  BY <1>0, <1>1, <1>2, <1>3, <1>5, <1>7 DEF StoreCode, history, GoesOn, SameStanding

\* A code of u has been good for one more sign-in.
Counted(u, code) ==
    \A c \in 1..MaxCodes : uses'[u][c] = IF c = code THEN uses[u][c] + 1 ELSE uses[u][c]

LEMMA ConsumeCodeDoes ==
  ASSUME SessionsTypeOK, NEW s \in Slot, NEW u, u = req[s].user, ConsumeCode(s)
  PROVE  /\ SessionsTypeOK' /\ GoesOn(s) /\ SameStanding /\ UNCHANGED <<tokens, denied>>
         /\ req'[s].pc = "revoking" /\ req[s].pc = "consumingCode"
         /\ codes'[u].open = codes[u].open \ {req[s].item} /\ codes'[u].last = codes[u].last
         /\ Counted(u, req[s].item)
         /\ \A v \in User \ {u} : codes'[v] = codes[v] /\ uses'[v] = uses[v]
<1>0. /\ RequestsOK /\ TypeOK /\ RequestOK(req[s]) /\ u \in User
      /\ req[s].pc \in SignIn /\ req[s].pc = "consumingCode"
  BY DEF SessionsTypeOK, RequestsOK, RequestOK, TypeOK, ConsumeCode, SignIn, At
<1>1. ItemFits("revoking", 0) /\ "revoking" \in PC \ {"idle"} /\ "revoking" \in SignIn
  BY SessionsAssumption DEF ItemFits, PC, SignIn
<1>2. /\ RequestsOK' /\ IsAt(req'[s], "revoking", u, 0) /\ Keeps(req'[s], req[s])
      /\ Others(s)
  BY <1>0, <1>1, SwitchMoves DEF ConsumeCode
<1>3. /\ codes' \in [User -> Issued(MaxCodes)] /\ codes'[u].open = codes[u].open \ {req[s].item}
      /\ codes'[u].last = codes[u].last
      /\ \A v \in User \ {u} : codes'[v] = codes[v]
      /\ \A v \in User : codes'[v].open \subseteq 1..codes'[v].last
  <2> DEFINE row == [codes[u] EXCEPT !.open = LeftOpen(s)]
  <2>0. LeftOpen(s) = codes[u].open \ {req[s].item}
    BY DEF LeftOpen
  <2>1. row \in Issued(MaxCodes) /\ row.open = LeftOpen(s) /\ row.last = codes[u].last
    BY <1>0, <2>0 DEF TypeOK, Issued
  <2>2. codes' = [codes EXCEPT ![u] = row]
    BY DEF ConsumeCode
  <2> HIDE DEF row
  <2> QED  BY <1>0, <2>0, <2>1, <2>2, CodesClosed
<1>4. /\ uses' \in [User -> [1..MaxCodes -> Nat]]
      /\ \A v \in User \ {u} : uses'[v] = uses[v]
      /\ \A c \in 1..MaxCodes :
           uses'[u][c] = IF c = req[s].item THEN uses[u][c] + 1 ELSE uses[u][c]
  <2> DEFINE used == [c \in 1..MaxCodes |-> IF c = req[s].item THEN uses[u][c] + 1 ELSE uses[u][c]]
  <2>0. uses \in [User -> [1..MaxCodes -> Nat]] /\ uses[u] \in [1..MaxCodes -> Nat]
    BY <1>0 DEF TypeOK
  <2>1. used \in [1..MaxCodes -> Nat]
    <3>1. PICK f \in [1..MaxCodes -> Nat] : f = uses[u]
      BY <2>0
    <3>2. \A c \in 1..MaxCodes : f[c] \in Nat
      OBVIOUS
    <3>3. \A c \in 1..MaxCodes : (IF c = req[s].item THEN f[c] + 1 ELSE f[c]) \in Nat
      BY <3>2
    <3> QED  BY <3>1, <3>3
  <2>2. uses' = [uses EXCEPT ![u] = used]
    BY DEF ConsumeCode
  <2> QED  BY <1>0, <2>0, <2>1, <2>2
<1>5. SessionsTypeOK'
  BY <1>0, <1>2, <1>3, <1>4, TypesTogether DEF ConsumeCode, TypeOK
<1> QED
  BY <1>0, <1>1, <1>2, <1>3, <1>4, <1>5 DEF Counted, ConsumeCode, GoesOn, IsAt, SameStanding

LEMMA RotateTokenDoes ==
  ASSUME SessionsTypeOK, NEW s \in Slot, NEW u, u = req[s].user, RotateToken(s)
  PROVE  /\ SessionsTypeOK' /\ GoesOn(s) /\ SameStanding /\ UNCHANGED <<codes, denied, uses>>
         /\ req'[s].pc = "revoking"
         /\ tokens'[u].open \subseteq tokens[u].open
         /\ \A v \in User \ {u} : tokens'[v] = tokens[v]
<1>0. /\ RequestsOK /\ TypeOK /\ RequestOK(req[s]) /\ u \in User
      /\ req[s].pc \in SignIn /\ req[s].pc = "rotating"
  BY DEF SessionsTypeOK, RequestsOK, RequestOK, TypeOK, RotateToken, SignIn, At
<1>1. ItemFits("revoking", 0) /\ "revoking" \in PC \ {"idle"} /\ "revoking" \in SignIn
  BY SessionsAssumption DEF ItemFits, PC, SignIn
<1>2. /\ RequestsOK' /\ IsAt(req'[s], "revoking", u, 0) /\ Keeps(req'[s], req[s])
      /\ Others(s)
  BY <1>0, <1>1, SwitchMoves DEF RotateToken
<1>3. /\ tokens' \in [User -> Issued(MaxTokens)] /\ tokens'[u].open \subseteq tokens[u].open
      /\ \A v \in User \ {u} : tokens'[v] = tokens[v]
      /\ \A v \in User : tokens'[v].open \subseteq 1..tokens'[v].last
  <2> DEFINE left == tokens[u].open \ {req[s].item}
             row == [tokens[u] EXCEPT !.open = left]
  <2>1. row \in Issued(MaxTokens) /\ row.open = left /\ row.last = tokens[u].last
    BY <1>0 DEF TypeOK, Issued
  <2>2. tokens' = [tokens EXCEPT ![u] = row]
    BY DEF RotateToken
  <2>3. left \subseteq tokens[u].open
    OBVIOUS
  <2> HIDE DEF row, left
  <2> QED  BY <1>0, <2>1, <2>2, <2>3, TokensClosed
<1>4. SessionsTypeOK'
  BY <1>0, <1>2, <1>3, TypesTogether DEF RotateToken, history, TypeOK
<1> QED
  BY <1>0, <1>1, <1>2, <1>3, <1>4 DEF RotateToken, history, GoesOn, IsAt, SameStanding

LEMMA RevokeTokensDoes ==
  ASSUME SessionsTypeOK, NEW s \in Slot, NEW u, u = req[s].user, RevokeTokens(s)
  PROVE  /\ SessionsTypeOK' /\ GoesOn(s) /\ SameStanding /\ UNCHANGED <<codes, denied, uses>>
         /\ req'[s].pc = "issuing" /\ req'[s].user = u /\ tokens'[u].open = {}
         /\ \A v \in User \ {u} : tokens'[v] = tokens[v]
<1>0. /\ RequestsOK /\ TypeOK /\ RequestOK(req[s]) /\ u \in User
      /\ req[s].pc \in SignIn /\ req[s].pc = "revoking"
  BY DEF SessionsTypeOK, RequestsOK, RequestOK, TypeOK, RevokeTokens, SignIn, At
<1>1. ItemFits("issuing", req[s].item) /\ "issuing" \in PC \ {"idle"} /\ "issuing" \in SignIn
  BY <1>0, SessionsAssumption DEF ItemFits, PC, SignIn, RequestOK
<1>2. /\ RequestsOK' /\ IsAt(req'[s], "issuing", u, req[s].item) /\ Keeps(req'[s], req[s])
      /\ Others(s)
  BY <1>0, <1>1, GotoMoves DEF RevokeTokens
<1>3. /\ tokens' \in [User -> Issued(MaxTokens)] /\ tokens'[u].open = {}
      /\ \A v \in User \ {u} : tokens'[v] = tokens[v]
      /\ \A v \in User : tokens'[v].open \subseteq 1..tokens'[v].last
  <2> DEFINE row == [tokens[u] EXCEPT !.open = {}]
  <2>1. row \in Issued(MaxTokens) /\ row.open = {} /\ row.last = tokens[u].last
    BY <1>0 DEF TypeOK, Issued
  <2>2. tokens' = [tokens EXCEPT ![u] = row]
    BY DEF RevokeTokens, OpenAfterRevoke
  <2> HIDE DEF row
  <2> QED  BY <1>0, <2>1, <2>2, TokensClosed
<1>4. SessionsTypeOK'
  BY <1>0, <1>2, <1>3, TypesTogether DEF RevokeTokens, history, TypeOK
<1> QED
  BY <1>0, <1>1, <1>2, <1>3, <1>4 DEF RevokeTokens, history, GoesOn, IsAt, SameStanding

LEMMA StoreTokenDoes ==
  ASSUME SessionsTypeOK, NEW s \in Slot, NEW u, u = req[s].user, StoreToken(s)
  PROVE  /\ SessionsTypeOK' /\ GoesOn(s) /\ SameStanding /\ UNCHANGED <<codes, denied, uses>>
         /\ req'[s] = Idle /\ req[s].pc = "issuing"
         /\ tokens'[u].open = tokens[u].open \cup {tokens[u].last + 1}
         /\ \A v \in User \ {u} : tokens'[v] = tokens[v]
<1>0. /\ RequestsOK /\ TypeOK /\ RequestOK(req[s]) /\ u \in User
      /\ req[s].pc \in SignIn /\ req[s].pc = "issuing"
  BY DEF SessionsTypeOK, RequestsOK, RequestOK, TypeOK, StoreToken, SignIn, At
<1>1. RequestsOK' /\ req'[s] = Idle /\ Others(s)
  BY <1>0, EndMoves DEF StoreToken
<1>2. /\ tokens[u] \in Issued(MaxTokens) /\ tokens[u].open \subseteq 1..tokens[u].last
      /\ tokens[u].last < MaxTokens /\ MaxTokens \in Nat
  BY <1>0, SessionsAssumption DEF TypeOK, StoreToken
<1>3. /\ Opened(tokens[u]) \in Issued(MaxTokens) /\ Opened(tokens[u]).last = tokens[u].last + 1
      /\ Opened(tokens[u]).open = tokens[u].open \cup {tokens[u].last + 1}
      /\ Opened(tokens[u]).open \subseteq 1..Opened(tokens[u]).last
  BY <1>2, OpenedType
<1>4. tokens' = [tokens EXCEPT ![u] = Opened(tokens[u])]
  BY DEF StoreToken
<1>5. /\ tokens' \in [User -> Issued(MaxTokens)] /\ tokens'[u] = Opened(tokens[u])
      /\ \A v \in User \ {u} : tokens'[v] = tokens[v]
  BY <1>0, <1>3, <1>4 DEF TypeOK
<1>6. \A v \in User : tokens'[v].open \subseteq 1..tokens'[v].last
  BY <1>0, <1>3, <1>5 DEF TypeOK
<1>7. login' \in [User -> 0..MaxPasswords]
  <2>1. req[s].item \in 0..MaxPasswords /\ login \in [User -> 0..MaxPasswords]
    BY <1>0 DEF RequestOK, TypeOK
  <2> QED  BY <1>0, <2>1 DEF StoreToken
<1>8. SessionsTypeOK'
  BY <1>0, <1>1, <1>5, <1>6, <1>7, TypesTogether DEF StoreToken, TypeOK
<1> QED
  BY <1>0, <1>1, <1>3, <1>5, <1>8 DEF StoreToken, GoesOn, SameStanding

\* A step that leaves codes and tokens alone.
LEMMA OtherTypes ==
  ASSUME SessionsTypeOK, RequestsOK', UNCHANGED <<tokens, codes, uses, login>>,
         account' \in [User -> Account], denied' \subseteq User, redisUp' \in BOOLEAN
  PROVE  SessionsTypeOK'
BY TypesTogether DEF SessionsTypeOK, TypeOK

\* A handler of a request under way ends or passes one more check.
LEMMA AccessDoes ==
  ASSUME SessionsTypeOK, NEW s \in Slot, AccessStep(s)
  PROVE  /\ SessionsTypeOK' /\ Others(s) /\ req[s].pc # "idle" /\ req[s].user \in User
         /\ UNCHANGED <<account, tokens, codes, denied, uses>>
         /\ \/ req'[s] = Idle
            \/ /\ req'[s].pc \in Access /\ req'[s].user = req[s].user /\ req'[s].bars = req[s].bars
               /\ \/ /\ req'[s].pc = "askingDatabase"
                     /\ req[s].user \notin denied \/ req'[s].blind
                  \/ /\ req'[s].pc = "admitted" /\ req[s].pc = "askingDatabase"
                     /\ account[req[s].user].active /\ req'[s].blind = req[s].blind
<1>0. /\ RequestsOK /\ TypeOK /\ RequestOK(req[s]) /\ req[s].user \in User
      /\ req[s].pc \in Access /\ req[s].pc # "idle"
  BY DEF SessionsTypeOK, RequestsOK, RequestOK, AccessStep, AskDenylist, AskDatabase, Serve,
         Access, At
<1>1. UNCHANGED <<account, tokens, codes, denied, redisUp, uses, login>>
  BY DEF AccessStep, AskDenylist, AskDatabase, Serve, history
<1>2. ASSUME RequestsOK' PROVE SessionsTypeOK'
  BY <1>0, <1>1, <1>2, OtherTypes DEF TypeOK
<1>3. CASE End(s)
  BY <1>0, <1>1, <1>2, <1>3, EndMoves
<1>4. CASE /\ ~(redisUp /\ req[s].user \in denied)
           /\ req' = [req EXCEPT ![s] = [@ EXCEPT !.pc = "askingDatabase", !.blind = ~redisUp]]
  <2> DEFINE r == [req[s] EXCEPT !.pc = "askingDatabase", !.blind = ~redisUp]
  <2>1. req[s] \in Request /\ redisUp \in BOOLEAN
    BY <1>0 DEF RequestOK, TypeOK
  <2>2. /\ RequestOK(r) /\ r.pc = "askingDatabase" /\ r.user = req[s].user
        /\ r.bars = req[s].bars /\ r.blind = ~redisUp
    BY <1>0, <2>1 DEF RequestOK, Request, Access
  <2>3. RequestsOK' /\ req'[s] = r /\ Others(s)
    BY <1>0, <1>4, <2>2, RequestSet
  <2> HIDE DEF r
  <2> QED  BY <1>0, <1>1, <1>2, <1>4, <2>2, <2>3 DEF Access
<1>5. CASE At(s, "askingDatabase") /\ account[req[s].user].active /\ Goto(s, "admitted")
  <2>1. "admitted" \in PC \ {"idle"} /\ ItemFits("admitted", req[s].item)
    BY <1>0 DEF PC, Access, ItemFits, RequestOK, Request
  <2>2. /\ RequestsOK' /\ IsAt(req'[s], "admitted", req[s].user, req[s].item)
        /\ Keeps(req'[s], req[s]) /\ Others(s)
    BY <1>0, <1>5, <2>1, GotoMoves
  <2> QED  BY <1>0, <1>1, <1>2, <1>5, <2>2 DEF Access, IsAt, Keeps, At
<1> QED  BY <1>3, <1>4, <1>5 DEF AccessStep, AskDenylist, AskDatabase, StillAllowed, Serve

LEMMA SendRequestDoes ==
  ASSUME SessionsTypeOK, NEW s \in Slot, NEW u \in User, SendRequest(s, u)
  PROVE  /\ SessionsTypeOK' /\ Others(s) /\ UNCHANGED <<account, tokens, codes, denied, uses>>
         /\ req'[s].pc = "askingDenylist" /\ req'[s].user = u
         /\ "closed" \in req'[s].bars => ~account[u].active
         /\ "revoked" \in req'[s].bars => u \in denied
<1> DEFINE r == [Idle EXCEPT !.pc = "askingDenylist", !.user = u, !.bars = Bars(u)]
<1>1. RequestOK(r) /\ r.pc = "askingDenylist" /\ r.user = u /\ r.bars = Bars(u)
  BY DEF RequestOK, Request, Idle, Access, Bars
<1>2. req' = [req EXCEPT ![s] = r] /\ UNCHANGED <<account, tokens, codes, denied, redisUp, uses, login>>
  BY DEF SendRequest, history
<1> HIDE DEF r
<1>3. RequestsOK' /\ req'[s] = r /\ Others(s)
  BY <1>1, <1>2, RequestSet DEF SessionsTypeOK
<1>4. SessionsTypeOK'
  BY <1>2, <1>3, OtherTypes DEF SessionsTypeOK, TypeOK
<1> QED  BY <1>1, <1>2, <1>3, <1>4 DEF Bars

\* setUserActive(false) and resetUserPassword leave a denial to come.
LEMMA ClosingDoes ==
  ASSUME SessionsTypeOK, NEW s \in Slot, NEW u \in User, Suspend(s, u) \/ ResetUserPassword(s, u)
  PROVE  /\ SessionsTypeOK' /\ Others(s) /\ UNCHANGED <<tokens, codes, denied, uses>>
         /\ req'[s].pc = "denying" /\ req'[s].user = u /\ req'[s].bars = {}
         /\ \A v \in User : /\ account'[v].active => account[v].active
                            /\ account'[v].deleted = account[v].deleted
<1>0. RequestsOK /\ TypeOK /\ account[u] \in Account /\ account \in [User -> Account]
  BY DEF SessionsTypeOK, TypeOK
<1>1. PICK a \in Account : /\ account' = [account EXCEPT ![u] = a]
                           /\ a.active => account[u].active
                           /\ a.deleted = account[u].deleted
  <2>1. CASE Suspend(s, u)
    <3> DEFINE a == [account[u] EXCEPT !.active = FALSE]
    <3>1. a \in Account /\ a.active = FALSE /\ a.deleted = account[u].deleted
      BY <1>0 DEF Account
    <3>2. account' = [account EXCEPT ![u] = a]
      BY <2>1 DEF Suspend
    <3> QED  BY <3>1, <3>2
  <2>2. CASE ResetUserPassword(s, u)
    <3>1. PICK n \in 0..MaxPasswords : n = account[u].password + 1
      BY <1>0, <2>2, SessionsAssumption DEF ResetUserPassword, Account
    <3> DEFINE a == [account[u] EXCEPT !.password = n]
    <3>2. a \in Account /\ a.active = account[u].active /\ a.deleted = account[u].deleted
      BY <1>0 DEF Account
    <3>3. account' = [account EXCEPT ![u] = a]
      BY <2>2, <3>1 DEF ResetUserPassword
    <3> QED  BY <3>2, <3>3
  <2> QED  BY <2>1, <2>2
<1>2. account' \in [User -> Account] /\ \A v \in User : /\ account'[v].active => account[v].active
                                                       /\ account'[v].deleted = account[v].deleted
  BY <1>0, <1>1
<1>3. /\ Begin(s, "denying", u, 0)
      /\ UNCHANGED <<tokens, codes, denied, redisUp, uses, login>>
  BY DEF Suspend, ResetUserPassword, history
<1>4. ItemFits("denying", 0) /\ "denying" \in PC \ {"idle"}
  BY DEF ItemFits, PC, Closing
<1>5. /\ RequestsOK' /\ IsAt(req'[s], "denying", u, 0) /\ Keeps(req'[s], Idle) /\ Others(s)
  BY <1>0, <1>3, <1>4, BeginMoves
<1>6. SessionsTypeOK'
  BY <1>0, <1>2, <1>3, <1>5, OtherTypes DEF TypeOK
<1> QED  BY <1>2, <1>3, <1>5, <1>6, IdleType DEF IsAt, Keeps

LEMMA DeleteDoes ==
  ASSUME SessionsTypeOK, NEW s \in Slot, NEW u, u = req[s].user, DeleteOwnAccount(s)
  PROVE  /\ SessionsTypeOK' /\ MaySignIn(u) /\ u \in User /\ Others(s) /\ UNCHANGED <<denied, uses>>
         /\ req[s].pc = "admitted" /\ req'[s].pc = "denying" /\ req'[s].user = u
         /\ Keeps(req'[s], req[s])
         /\ tokens'[u].open = {} /\ codes'[u].open = {} /\ codes'[u].last = codes[u].last
         /\ ~account'[u].active
         /\ \A v \in User \ {u} : /\ account'[v] = account[v] /\ tokens'[v] = tokens[v]
                                  /\ codes'[v] = codes[v]
<1>0. /\ RequestsOK /\ TypeOK /\ RequestOK(req[s]) /\ req[s].pc = "admitted" /\ u \in User
      /\ MaySignIn(u) /\ UNCHANGED <<denied, redisUp, uses, login>>
      /\ account[u] \in Account /\ account \in [User -> Account]
  BY DEF SessionsTypeOK, RequestsOK, RequestOK, TypeOK, DeleteOwnAccount, At, history
<1>1. ItemFits("denying", req[s].item) /\ "denying" \in PC \ {"idle"}
  BY <1>0 DEF ItemFits, PC, Closing, RequestOK, Request
<1>2. /\ RequestsOK' /\ IsAt(req'[s], "denying", u, req[s].item) /\ Keeps(req'[s], req[s])
      /\ Others(s)
  BY <1>0, <1>1, GotoMoves DEF DeleteOwnAccount
<1>3. /\ account' \in [User -> Account] /\ ~account'[u].active
      /\ \A v \in User \ {u} : account'[v] = account[v]
  <2>0. PICK n \in 0..MaxPasswords : n = 0
    BY SessionsAssumption
  <2> DEFINE a == [account[u] EXCEPT !.active = FALSE, !.deleted = TRUE, !.password = n]
  <2>1. a \in Account /\ ~a.active
    BY <1>0 DEF Account
  <2>2. account' = [account EXCEPT ![u] = a]
    BY <2>0 DEF DeleteOwnAccount
  <2> HIDE DEF a
  <2> QED  BY <1>0, <2>1, <2>2
<1>4. /\ codes' \in [User -> Issued(MaxCodes)] /\ codes'[u].open = {} /\ codes'[u].last = codes[u].last
      /\ \A v \in User \ {u} : codes'[v] = codes[v]
      /\ \A v \in User : codes'[v].open \subseteq 1..codes'[v].last
  <2> DEFINE row == [codes[u] EXCEPT !.open = {}]
  <2>1. row \in Issued(MaxCodes) /\ row.open = {} /\ row.last = codes[u].last
    BY <1>0 DEF TypeOK, Issued
  <2>2. codes' = [codes EXCEPT ![u] = row]
    BY DEF DeleteOwnAccount
  <2> HIDE DEF row
  <2> QED  BY <1>0, <2>1, <2>2, CodesClosed
<1>5. /\ tokens' \in [User -> Issued(MaxTokens)] /\ tokens'[u].open = {}
      /\ \A v \in User \ {u} : tokens'[v] = tokens[v]
      /\ \A v \in User : tokens'[v].open \subseteq 1..tokens'[v].last
  <2> DEFINE row == [tokens[u] EXCEPT !.open = {}]
  <2>1. row \in Issued(MaxTokens) /\ row.open = {} /\ row.last = tokens[u].last
    BY <1>0 DEF TypeOK, Issued
  <2>2. tokens' = [tokens EXCEPT ![u] = row]
    BY DEF DeleteOwnAccount
  <2> HIDE DEF row
  <2> QED  BY <1>0, <2>1, <2>2, TokensClosed
<1>6. SessionsTypeOK'
  BY <1>0, <1>2, <1>3, <1>4, <1>5, TypesTogether DEF TypeOK
<1> QED  BY <1>0, <1>2, <1>3, <1>4, <1>5, <1>6 DEF IsAt

LEMMA DenyDoes ==
  ASSUME SessionsTypeOK, NEW s \in Slot, Deny(s)
  PROVE  /\ SessionsTypeOK' /\ Others(s) /\ req'[s] = Idle /\ denied \subseteq denied'
         /\ UNCHANGED <<account, tokens, codes, uses>>
<1>1. RequestsOK' /\ req'[s] = Idle /\ Others(s)
  BY EndMoves DEF SessionsTypeOK, Deny
<1>2. req[s].user \in User
  BY DEF SessionsTypeOK, TypeOK, Deny, At
<1>3. /\ UNCHANGED <<account, tokens, codes, redisUp, uses, login>>
      /\ denied' = denied \/ denied' = denied \cup {req[s].user}
  BY DEF Deny, history
<1> QED  BY <1>1, <1>2, <1>3, OtherTypes DEF SessionsTypeOK, TypeOK

LEMMA ReactivateDoes ==
  ASSUME SessionsTypeOK, NEW s \in Slot, NEW u \in User, Reactivate(s, u)
  PROVE  /\ SessionsTypeOK' /\ OthersLoseBars(s) /\ Lifted(u, "closed")
         /\ UNCHANGED <<tokens, codes, denied, uses>>
         /\ req'[s].pc = "restoring" /\ req'[s].user = u /\ req'[s].bars = {}
         /\ \A v \in User \ {u} : account'[v] = account[v]
         /\ account'[u].deleted = account[u].deleted
<1>0. RequestsOK /\ TypeOK /\ account[u] \in Account /\ account \in [User -> Account]
  BY DEF SessionsTypeOK, TypeOK
<1>1. /\ account' \in [User -> Account] /\ \A v \in User \ {u} : account'[v] = account[v]
      /\ account'[u].deleted = account[u].deleted
  <2> DEFINE a == [account[u] EXCEPT !.active = TRUE]
  <2>1. a \in Account /\ a.deleted = account[u].deleted
    BY <1>0 DEF Account
  <2>2. account' = [account EXCEPT ![u] = a]
    BY DEF Reactivate
  <2> HIDE DEF a
  <2> QED  BY <1>0, <2>1, <2>2
<1> DEFINE r == [Idle EXCEPT !.pc = "restoring", !.user = u]
<1>2. RequestOK(r) /\ r.pc = "restoring" /\ r.user = u /\ r.bars = {}
  BY DEF RequestOK, Request, Idle, Closing
<1> DEFINE next == [req EXCEPT ![s] = r]
<1>3. /\ next = [req EXCEPT ![s] = r] /\ req' = Lift(next, u, "closed")
      /\ UNCHANGED <<tokens, codes, denied, redisUp, uses, login>>
  BY DEF Reactivate, history
<1> HIDE DEF r, next
<1>4. /\ RequestsOK' /\ IsAt(req'[s], r.pc, r.user, r.item) /\ req'[s].bars \subseteq r.bars
      /\ OthersLoseBars(s) /\ Lifted(u, "closed")
  BY <1>0, <1>2, <1>3, LiftMoves
<1>5. SessionsTypeOK'
  BY <1>0, <1>1, <1>3, <1>4, OtherTypes DEF TypeOK
<1> QED  BY <1>1, <1>2, <1>3, <1>4, <1>5 DEF IsAt

LEMMA RestoreDoes ==
  ASSUME SessionsTypeOK, NEW s \in Slot, NEW u, u = req[s].user, Restore(s)
  PROVE  /\ SessionsTypeOK' /\ OthersLoseBars(s) /\ req'[s].pc = "idle"
         /\ UNCHANGED <<account, tokens, codes, uses>>
         /\ denied' = denied \/ (denied' = denied \ {u} /\ Lifted(u, "revoked"))
<1>0. RequestsOK /\ TypeOK
  BY DEF SessionsTypeOK
<1>1. UNCHANGED <<account, tokens, codes, redisUp, uses, login>>
  BY DEF Restore, history
<1>2. CASE redisUp
  <2>1. denied' = denied \ {u} /\ req' = Lift([req EXCEPT ![s] = Idle], u, "revoked")
    BY <1>2 DEF Restore
  <2> DEFINE next == [req EXCEPT ![s] = Idle]
  <2>2. next = [req EXCEPT ![s] = Idle] /\ req' = Lift(next, u, "revoked")
    BY <2>1
  <2> HIDE DEF next
  <2>3. /\ RequestsOK' /\ IsAt(req'[s], Idle.pc, Idle.user, Idle.item)
        /\ OthersLoseBars(s) /\ Lifted(u, "revoked")
    BY <1>0, <2>2, LiftMoves, IdleType
  <2>4. SessionsTypeOK'
    BY <1>0, <1>1, <2>1, <2>3, OtherTypes DEF TypeOK
  <2> QED  BY <1>1, <2>1, <2>3, <2>4, IdleType DEF IsAt
<1>3. CASE ~redisUp
  <2>1. denied' = denied /\ req' = [req EXCEPT ![s] = Idle]
    BY <1>3 DEF Restore
  <2>2. RequestsOK' /\ req'[s] = Idle /\ Others(s)
    BY <1>0, <2>1, IdleType, RequestSet
  <2>3. OthersLoseBars(s)
    BY <2>2 DEF Others, OthersLoseBars, IsAt
  <2>4. SessionsTypeOK'
    BY <1>0, <1>1, <2>1, <2>2, OtherTypes DEF TypeOK
  <2> QED  BY <1>1, <2>1, <2>2, <2>3, <2>4, IdleType
<1> QED  BY <1>2, <1>3

LEMMA FlipDoes ==
  ASSUME SessionsTypeOK, RedisFlips
  PROVE  SessionsTypeOK' /\ UNCHANGED <<account, tokens, codes, denied, req, uses>>
<1>1. /\ UNCHANGED <<account, tokens, codes, denied, req, uses, login>> /\ redisUp' \in BOOLEAN
  BY DEF RedisFlips, history
<1>2. RequestsOK'
  BY <1>1 DEF SessionsTypeOK, RequestsOK
<1> QED  BY <1>1, <1>2, OtherTypes DEF SessionsTypeOK, TypeOK

-----------------------------------------------------------------------------
(* The guards.                                                             *)

\* A step of one handler: the accounts that are closed and the revocations stay.
LEMMA GuardStep ==
  ASSUME GuardInv, SessionsTypeOK', NEW s \in Slot, Others(s), denied \subseteq denied',
         \A v \in User : account'[v].active => account[v].active,
         BarsHold(req[s])', PastTheGuards(req[s])'
  PROVE  GuardInv'
<1>1. ASSUME NEW t \in Slot, t # s
      PROVE  BarsHold(req[t])' /\ PastTheGuards(req[t])'
  <2>1. req'[t] = req[t] /\ BarsHold(req[t]) /\ PastTheGuards(req[t])
    BY <1>1 DEF Others, GuardInv
  <2>2. req[t].pc # "idle" => req[t].user \in User
    BY DEF GuardInv, SessionsTypeOK, TypeOK
  <2> QED  BY <2>1, <2>2 DEF BarsHold, PastTheGuards
<1> QED  BY <1>1 DEF GuardInv

\* Bars of a user lifted, with what they stood for.
LEMMA GuardLift ==
  ASSUME GuardInv, SessionsTypeOK', NEW s \in Slot, NEW u, OthersLoseBars(s),
         req'[s].pc \in {"idle", "restoring"}, req'[s].pc = "restoring" => req'[s].bars = {},
         \/ /\ denied' = denied /\ Lifted(u, "closed")
            /\ \A v \in User \ {u} : account'[v] = account[v]
         \/ account' = account /\ denied' = denied
         \/ account' = account /\ denied' = denied \ {u} /\ Lifted(u, "revoked")
  PROVE  GuardInv'
<1>1. BarsHold(req[s])' /\ PastTheGuards(req[s])'
  BY DEF BarsHold, PastTheGuards
<1>2. ASSUME NEW t \in Slot, t # s
      PROVE  BarsHold(req[t])' /\ PastTheGuards(req[t])'
  <2>1. /\ req'[t].pc = req[t].pc /\ req'[t].user = req[t].user
        /\ req'[t].blind = req[t].blind /\ req'[t].bars \subseteq req[t].bars
    BY <1>2 DEF OthersLoseBars, IsAt
  <2>2. BarsHold(req[t]) /\ PastTheGuards(req[t])
    BY DEF GuardInv
  <2>3. req[t].pc # "idle" => req[t].user \in User
    BY DEF GuardInv, SessionsTypeOK, TypeOK
  <2>4. PastTheGuards(req[t])'
    BY <2>1, <2>2 DEF PastTheGuards
  <2>5. BarsHold(req[t])'
    BY <2>1, <2>2, <2>3 DEF BarsHold, Lifted
  <2> QED  BY <2>4, <2>5
<1> QED  BY <1>1, <1>2 DEF GuardInv

LEMMA SignInKeepsGuards ==
  ASSUME GuardInv, SessionsTypeOK', NEW s \in Slot, GoesOn(s), SameStanding, denied' = denied
  PROVE  GuardInv'
<1>1. BarsHold(req[s]) /\ req[s].pc # "idle" /\ req[s].user \in User
  BY DEF GuardInv, GoesOn, SignIn
<1>2. BarsHold(req[s])' /\ PastTheGuards(req[s])'
  <2>1. CASE req'[s] = Idle
    BY <2>1, IdleType DEF BarsHold, PastTheGuards
  <2>2. CASE /\ req'[s].pc \in SignIn /\ req'[s].user = req[s].user
             /\ Keeps(req'[s], req[s])
    BY <1>1, <2>2 DEF BarsHold, PastTheGuards, Keeps, SignIn, SameStanding
  <2> QED  BY <2>1, <2>2 DEF GoesOn
<1> QED  BY <1>2, GuardStep DEF GoesOn, SameStanding

\* The steps of the specification, by what the lemmas above say of them.
Begins(s, u) ==
    \/ Register(s, u) \/ RequestOtp(s, u) \/ Login(s, u)
    \/ \E c \in 1..MaxCodes : VerifyOtp(s, u, c)
    \/ \E r \in 1..MaxTokens : Refresh(s, u, r)

LEMMA StepCases ==
  ASSUME [Next]_vars
  PROVE  \/ \E s \in Slot : \/ SignInStep(s) \/ AccessStep(s) \/ Deny(s) \/ Restore(s)
                            \/ DeleteOwnAccount(s)
         \/ \E s \in Slot, u \in User : \/ Begins(s, u) \/ Suspend(s, u) \/ ResetUserPassword(s, u)
                                        \/ Reactivate(s, u)
         \/ \E s \in Slot, u \in User : SendRequest(s, u)
         \/ RedisFlips
         \/ UNCHANGED vars
BY DEF Next, Begins

LEMMA SignInStepDoes ==
  ASSUME SessionsTypeOK, NEW s \in Slot, SignInStep(s)
  PROVE  SessionsTypeOK' /\ GoesOn(s) /\ SameStanding /\ denied' = denied
BY StoreAccountDoes, OpenByCodeDoes, SpendCodesDoes, StoreCodeDoes, ConsumeCodeDoes,
   RotateTokenDoes, RevokeTokensDoes, StoreTokenDoes DEF SignInStep

LEMMA BeginsDoes ==
  ASSUME SessionsTypeOK, NEW s \in Slot, NEW u \in User, Begins(s, u)
  PROVE  /\ SessionsTypeOK' /\ req[s].pc = "idle" /\ Others(s) /\ MaySignIn(u)
         /\ UNCHANGED <<account, tokens, codes, denied, redisUp, uses, login>>
         /\ req'[s].pc \in SignIn \ {"sendingCode", "issuing"} /\ req'[s].user = u
         /\ Keeps(req'[s], Idle)
         /\ req'[s].pc = "consumingCode" => req'[s].item \in codes[u].open
         /\ account[u].deleted => \E r \in tokens[u].open : TRUE
BY SignInBegins DEF Begins

LEMMA StuttersDo ==
  ASSUME SessionsTypeOK, UNCHANGED vars
  PROVE  /\ SessionsTypeOK'
         /\ UNCHANGED <<account, tokens, codes, denied, redisUp, req, uses, login>>
<1>1. UNCHANGED <<account, tokens, codes, denied, redisUp, req, uses, login>>
  BY DEF vars
<1>2. RequestsOK'
  BY <1>1 DEF SessionsTypeOK, RequestsOK
<1> QED  BY <1>1, <1>2, OtherTypes DEF SessionsTypeOK, TypeOK

LEMMA GuardNext == GuardInv /\ [Next]_vars => GuardInv'
<1> SUFFICES ASSUME GuardInv, [Next]_vars PROVE GuardInv'
  OBVIOUS
<1>0. SessionsTypeOK
  BY DEF GuardInv
<1>1. ASSUME NEW s \in Slot, SignInStep(s) PROVE GuardInv'
  BY <1>0, <1>1, SignInStepDoes, SignInKeepsGuards
<1>2. ASSUME NEW s \in Slot, AccessStep(s) PROVE GuardInv'
  <2>1. /\ SessionsTypeOK' /\ Others(s) /\ req[s].pc # "idle" /\ UNCHANGED <<account, denied>>
        /\ \/ req'[s] = Idle
           \/ /\ req'[s].pc \in Access /\ req'[s].user = req[s].user /\ req'[s].bars = req[s].bars
              /\ \/ /\ req'[s].pc = "askingDatabase"
                    /\ req[s].user \notin denied \/ req'[s].blind
                 \/ /\ req'[s].pc = "admitted" /\ req[s].pc = "askingDatabase"
                    /\ account[req[s].user].active /\ req'[s].blind = req[s].blind
    BY <1>0, <1>2, AccessDoes
  <2>2. BarsHold(req[s]) /\ PastTheGuards(req[s])
    BY DEF GuardInv
  <2>3. BarsHold(req[s])' /\ PastTheGuards(req[s])'
    <3>1. CASE req'[s] = Idle
      BY <3>1, IdleType DEF BarsHold, PastTheGuards
    <3>2. CASE req'[s] # Idle
      BY <2>1, <2>2, <3>2 DEF BarsHold, PastTheGuards
    <3> QED  BY <3>1, <3>2
  <2> QED  BY <2>1, <2>3, GuardStep
<1>3. ASSUME NEW s \in Slot, Deny(s) PROVE GuardInv'
  <2>1. /\ SessionsTypeOK' /\ Others(s) /\ req'[s] = Idle /\ denied \subseteq denied'
        /\ account' = account
    BY <1>0, <1>3, DenyDoes
  <2>2. BarsHold(req[s])' /\ PastTheGuards(req[s])'
    BY <2>1, IdleType DEF BarsHold, PastTheGuards
  <2> QED  BY <2>1, <2>2, GuardStep
<1>4. ASSUME NEW s \in Slot, Restore(s) PROVE GuardInv'
  <2>1. PICK u : u = req[s].user
    OBVIOUS
  <2>2. /\ SessionsTypeOK' /\ OthersLoseBars(s) /\ req'[s].pc = "idle" /\ account' = account
        /\ denied' = denied \/ (denied' = denied \ {u} /\ Lifted(u, "revoked"))
    BY <1>0, <1>4, <2>1, RestoreDoes
  <2> QED  BY <2>2, GuardLift
<1>5. ASSUME NEW s \in Slot, DeleteOwnAccount(s) PROVE GuardInv'
  <2>1. PICK u : u = req[s].user
    OBVIOUS
  <2>2. /\ SessionsTypeOK' /\ Others(s) /\ denied' = denied /\ u \in User
        /\ req[s].pc = "admitted" /\ req'[s].pc = "denying" /\ req'[s].user = u
        /\ Keeps(req'[s], req[s]) /\ ~account'[u].active
        /\ \A v \in User \ {u} : account'[v] = account[v]
    BY <1>0, <1>5, <2>1, DeleteDoes
  <2>3. BarsHold(req[s])
    BY DEF GuardInv
  <2>4. BarsHold(req[s])' /\ PastTheGuards(req[s])'
    BY <2>1, <2>2, <2>3 DEF BarsHold, PastTheGuards, Keeps
  <2> QED  BY <2>2, <2>4, GuardStep
<1>6. ASSUME NEW s \in Slot, NEW u \in User, Begins(s, u) PROVE GuardInv'
  <2>1. /\ SessionsTypeOK' /\ Others(s) /\ UNCHANGED <<account, denied>>
        /\ req'[s].pc \in SignIn /\ Keeps(req'[s], Idle)
    BY <1>0, <1>6, BeginsDoes
  <2>2. BarsHold(req[s])' /\ PastTheGuards(req[s])'
    BY <2>1, IdleType DEF BarsHold, PastTheGuards, Keeps, SignIn
  <2> QED  BY <2>1, <2>2, GuardStep
<1>7. ASSUME NEW s \in Slot, NEW u \in User, Suspend(s, u) \/ ResetUserPassword(s, u)
      PROVE  GuardInv'
  <2>1. /\ SessionsTypeOK' /\ Others(s) /\ denied' = denied
        /\ req'[s].pc = "denying" /\ req'[s].bars = {}
        /\ \A v \in User : account'[v].active => account[v].active
    BY <1>0, <1>7, ClosingDoes
  <2>2. BarsHold(req[s])' /\ PastTheGuards(req[s])'
    BY <2>1 DEF BarsHold, PastTheGuards
  <2> QED  BY <2>1, <2>2, GuardStep
<1>8. ASSUME NEW s \in Slot, NEW u \in User, Reactivate(s, u) PROVE GuardInv'
  <2>1. /\ SessionsTypeOK' /\ OthersLoseBars(s) /\ Lifted(u, "closed") /\ denied' = denied
        /\ req'[s].pc = "restoring" /\ req'[s].bars = {}
        /\ \A v \in User \ {u} : account'[v] = account[v]
    BY <1>0, <1>8, ReactivateDoes
  <2> QED  BY <2>1, GuardLift
<1>9. ASSUME NEW s \in Slot, NEW u \in User, SendRequest(s, u)
      PROVE  GuardInv'
  <2>1. /\ SessionsTypeOK' /\ Others(s) /\ UNCHANGED <<account, denied>>
        /\ req'[s].pc = "askingDenylist" /\ req'[s].user = u
        /\ "closed" \in req'[s].bars => ~account[u].active
        /\ "revoked" \in req'[s].bars => u \in denied
    BY <1>0, <1>9, SendRequestDoes
  <2>2. BarsHold(req[s])' /\ PastTheGuards(req[s])'
    BY <2>1 DEF BarsHold, PastTheGuards
  <2> QED  BY <2>1, <2>2, GuardStep
<1>10. CASE RedisFlips \/ UNCHANGED vars
  <2>1. SessionsTypeOK' /\ UNCHANGED <<account, denied, req>>
    BY <1>0, <1>10, FlipDoes, StuttersDo
  <2> QED  BY <2>1 DEF GuardInv, BarsHold, PastTheGuards
<1> QED
  BY <1>1, <1>2, <1>3, <1>4, <1>5, <1>6, <1>7, <1>8, <1>9, <1>10, StepCases

LEMMA GuardInit == Init => GuardInv
BY SessionsInitType, IdleType DEF GuardInv, BarsHold, PastTheGuards, Init

\* The variables of Sessions keep their types, whatever the interleaving.
THEOREM TypeCorrect == Spec => []TypeOK
<1>1. GuardInv => TypeOK
  BY DEF GuardInv, SessionsTypeOK
<1> QED  BY <1>1, GuardInit, GuardNext, PTL DEF Spec

\* Nobody gets through JwtStrategy.validate who was suspended or deleted when the request
\* was sent, nor, unless Redis failed when the denylist was asked, who was revoked.
THEOREM GuardsRefuseTheBarred == Spec => []BarredAreRefused
<1>1. GuardInv => BarredAreRefused
  BY DEF GuardInv, BarredAreRefused, PastTheGuards, At
<1> QED  BY <1>1, GuardInit, GuardNext, PTL DEF Spec

-----------------------------------------------------------------------------
(* One sign-in at a time.                                                  *)

SameRows(v) ==
    /\ account'[v].deleted = account[v].deleted /\ tokens'[v] = tokens[v]
    /\ codes'[v] = codes[v] /\ uses'[v] = uses[v]

LEMMA RowsStay ==
  ASSUME NEW v \in User, RowsInOrder(v), SameRows(v)
  PROVE  RowsInOrder(v)'
BY DEF RowsInOrder, SameRows, AtMostOne

LEMMA KnowledgeStays ==
  ASSUME SessionsTypeOK, NEW t \in Slot, SignInKnows(req[t]), SameRows(req[t].user),
         IsAt(req'[t], req[t].pc, req[t].user, req[t].item)
  PROVE  SignInKnows(req[t])'
BY DEF SignInKnows, SameRows, IsAt

\* A step that signs nobody in.
LEMMA QuietStep ==
  ASSUME SignInInv, SessionsTypeOK', \A v \in User : SameRows(v),
         \A t \in Slot : req'[t].pc \in SignIn =>
                           IsAt(req'[t], req[t].pc, req[t].user, req[t].item)
  PROVE  SignInInv'
<1> SUFFICES ASSUME Sequential
             PROVE  /\ \A s \in Slot : req'[s].pc \in SignIn => Alone(s, req[s].user)'
                    /\ \A s \in Slot : SignInKnows(req[s])'
                    /\ \A u \in User : RowsInOrder(u)'
  BY DEF SignInInv
<1>1. ASSUME NEW s \in Slot, req'[s].pc \in SignIn PROVE Alone(s, req[s].user)'
  BY <1>1 DEF SignInInv, Alone, IsAt
<1>2. ASSUME NEW s \in Slot PROVE SignInKnows(req[s])'
  <2>1. CASE req'[s].pc \in SignIn
    <3>1. IsAt(req'[s], req[s].pc, req[s].user, req[s].item) /\ req[s].user \in User
      BY <2>1 DEF SignInInv, SessionsTypeOK, TypeOK, IsAt, SignIn
    <3> QED  BY <3>1, KnowledgeStays DEF SignInInv
  <2>2. CASE req'[s].pc \notin SignIn
    BY <2>2 DEF SignInKnows, SignIn
  <2> QED  BY <2>1, <2>2
<1>3. ASSUME NEW u \in User PROVE RowsInOrder(u)'
  BY RowsStay DEF SignInInv
<1> QED  BY <1>1, <1>2, <1>3

\* A step that signs one user in, or closes one account: nobody else does so meanwhile.
LEMMA OneMoves ==
  ASSUME SignInInv, SessionsTypeOK', NEW s \in Slot, NEW u \in User, Others(s),
         \A v \in User \ {u} : SameRows(v),
         Sequential => Alone(s, u),
         req'[s].pc \in SignIn => req'[s].user = u,
         Sequential => SignInKnows(req[s])' /\ RowsInOrder(u)'
  PROVE  SignInInv'
<1> SUFFICES ASSUME Sequential
             PROVE  /\ \A t \in Slot : req'[t].pc \in SignIn => Alone(t, req[t].user)'
                    /\ \A t \in Slot : SignInKnows(req[t])'
                    /\ \A v \in User : RowsInOrder(v)'
  BY DEF SignInInv
<1>1. ASSUME NEW t \in Slot, req'[t].pc \in SignIn PROVE Alone(t, req[t].user)'
  <2>1. CASE t = s
    BY <1>1, <2>1 DEF Alone, Others
  <2>2. CASE t # s
    <3>1. req'[t] = req[t] /\ Alone(t, req[t].user) /\ req[t].user # u
      BY <1>1, <2>2 DEF Others, SignInInv, Alone
    <3> QED  BY <2>2, <3>1 DEF Alone, Others
  <2> QED  BY <2>1, <2>2
<1>2. ASSUME NEW t \in Slot, t # s PROVE SignInKnows(req[t])'
  <2>1. req'[t] = req[t]
    BY <1>2 DEF Others
  <2>2. CASE req[t].pc \in SignIn
    <3>1. req[t].user \in User \ {u}
      BY <1>2, <2>2 DEF Alone, SignInInv, SessionsTypeOK, TypeOK, SignIn
    <3> QED  BY <2>1, <3>1, KnowledgeStays DEF SignInInv, IsAt
  <2>3. CASE req[t].pc \notin SignIn
    BY <2>1, <2>3 DEF SignInKnows, SignIn
  <2> QED  BY <2>2, <2>3
<1>3. ASSUME NEW v \in User PROVE RowsInOrder(v)'
  BY RowsStay DEF SignInInv
<1> QED  BY <1>1, <1>2, <1>3

LEMMA SignInInit == Init => SignInInv
<1> SUFFICES ASSUME Init PROVE SignInInv
  OBVIOUS
<1>1. SessionsTypeOK
  BY SessionsInitType
<1>2. \A s \in Slot : req[s].pc = "idle"
  BY IdleType DEF Init
<1>3. \A u \in User : RowsInOrder(u)
  BY DEF Init, RowsInOrder, AtMostOne, NoAccount
<1> QED  BY <1>1, <1>2, <1>3 DEF SignInInv, SignInKnows, SignIn

\* What a sign-in under way may rely on.
LEMMA UnderWay ==
  ASSUME SignInInv, NEW s \in Slot, req[s].pc \in SignIn, NEW u, u = req[s].user
  PROVE  /\ u \in User
         /\ Sequential => Alone(s, u) /\ SignInKnows(req[s]) /\ RowsInOrder(u) /\ ~account[u].deleted
BY DEF SignInInv, SessionsTypeOK, TypeOK, SignInKnows, SignIn

LEMMA SignInStepKeepsOne ==
  ASSUME SignInInv, NEW s \in Slot, SignInStep(s)
  PROVE  SignInInv'
<1>0. SessionsTypeOK
  BY DEF SignInInv
<1>1. SessionsTypeOK' /\ GoesOn(s) /\ SameStanding
  BY <1>0, SignInStepDoes
<1>2. PICK u : u = req[s].user
  OBVIOUS
<1>3. /\ u \in User
      /\ Sequential => Alone(s, u) /\ SignInKnows(req[s]) /\ RowsInOrder(u) /\ ~account[u].deleted
  BY <1>1, <1>2, UnderWay DEF GoesOn
<1>4. /\ Others(s) /\ account'[u].deleted = account[u].deleted
      /\ req'[s].pc \in SignIn => req'[s].user = u
      /\ \A v \in User : account'[v].deleted = account[v].deleted
  BY <1>1, <1>2, <1>3, IdleType DEF GoesOn, SameStanding, SignIn
<1> DEFINE Goal == /\ \A v \in User \ {u} : tokens'[v] = tokens[v] /\ codes'[v] = codes[v]
                                            /\ uses'[v] = uses[v]
                   /\ Sequential => SignInKnows(req[s])' /\ RowsInOrder(u)'
<1>5. ASSUME StoreAccount(s) \/ OpenByCode(s) PROVE Goal
  <2>1. UNCHANGED <<tokens, codes, uses>> /\ req'[s].pc \in {"idle", "revoking", "spendingCodes"}
    BY <1>0, <1>5, StoreAccountDoes, OpenByCodeDoes
  <2>2. Sequential => RowsInOrder(u)'
    BY <1>3, <1>4, <2>1, RowsStay DEF SameRows
  <2>3. Sequential => SignInKnows(req[s])'
    BY <1>3, <1>4, <2>1 DEF SignInKnows, SignIn
  <2> QED  BY <2>1, <2>2, <2>3
<1>6. ASSUME SpendCodes(s) PROVE Goal
  <2>1. /\ UNCHANGED <<tokens, uses>> /\ req'[s].pc = "sendingCode" /\ req'[s].user = u
        /\ codes'[u].open = {} /\ codes'[u].last = codes[u].last
        /\ \A v \in User \ {u} : codes'[v] = codes[v]
    BY <1>0, <1>2, <1>6, SpendCodesDoes
  <2>2. Sequential => RowsInOrder(u)'
    BY <1>3, <1>4, <2>1 DEF RowsInOrder, AtMostOne
  <2>3. Sequential => SignInKnows(req[s])'
    BY <1>3, <1>4, <2>1 DEF SignInKnows, SignIn
  <2> QED  BY <2>1, <2>2, <2>3
<1>7. ASSUME StoreCode(s) PROVE Goal
  <2>1. /\ UNCHANGED <<tokens, uses>> /\ req'[s] = Idle /\ req[s].pc = "sendingCode"
        /\ codes'[u].open = codes[u].open \cup {codes[u].last + 1}
        /\ codes'[u].last = codes[u].last + 1 /\ codes[u].last \in Nat
        /\ \A v \in User \ {u} : codes'[v] = codes[v]
    BY <1>0, <1>2, <1>7, StoreCodeDoes
  <2>2. ASSUME Sequential PROVE RowsInOrder(u)'
    <3>1. codes[u].open = {} /\ codes'[u].open = {codes[u].last + 1}
      BY <1>2, <1>3, <2>1, <2>2 DEF SignInKnows
    <3>2. \A c \in 1..MaxCodes : /\ uses'[u][c] <= 1
                                 /\ c \in codes'[u].open \/ c > codes'[u].last => uses'[u][c] = 0
      BY <1>3, <2>1, <2>2, <3>1 DEF RowsInOrder
    <3> QED  BY <1>3, <1>4, <2>1, <2>2, <3>1, <3>2 DEF RowsInOrder, AtMostOne
  <2>3. SignInKnows(req[s])'
    BY <2>1, IdleType DEF SignInKnows, SignIn
  <2> QED  BY <2>1, <2>2, <2>3
<1>8. ASSUME ConsumeCode(s) PROVE Goal
  <2>1. /\ tokens' = tokens /\ req'[s].pc = "revoking" /\ req[s].pc = "consumingCode"
        /\ codes'[u].open = codes[u].open \ {req[s].item} /\ codes'[u].last = codes[u].last
        /\ Counted(u, req[s].item)
        /\ \A v \in User \ {u} : codes'[v] = codes[v] /\ uses'[v] = uses[v]
    BY <1>0, <1>2, <1>8, ConsumeCodeDoes
  <2>2. ASSUME Sequential PROVE RowsInOrder(u)'
    <3>1. req[s].item \in codes[u].open /\ codes[u].open \subseteq 1..codes[u].last
      BY <1>0, <1>2, <1>3, <2>1, <2>2 DEF SignInKnows, SessionsTypeOK, TypeOK
    <3>2. codes[u].last \in Nat
      BY <1>0, <1>3, SessionsAssumption DEF SessionsTypeOK, TypeOK, Issued
    <3>3. ASSUME NEW c \in 1..MaxCodes
          PROVE  /\ uses'[u][c] <= 1
                 /\ c \in codes'[u].open \/ c > codes'[u].last => uses'[u][c] = 0
      BY <1>3, <2>1, <2>2, <3>1, <3>2 DEF RowsInOrder, Counted
    <3> QED  BY <1>3, <1>4, <2>1, <2>2, <3>3 DEF RowsInOrder, AtMostOne
  <2>3. Sequential => SignInKnows(req[s])'
    BY <1>3, <1>4, <2>1 DEF SignInKnows, SignIn
  <2> QED  BY <2>1, <2>2, <2>3
<1>9. ASSUME RotateToken(s) PROVE Goal
  <2>1. /\ UNCHANGED <<codes, uses>> /\ req'[s].pc = "revoking"
        /\ tokens'[u].open \subseteq tokens[u].open
        /\ \A v \in User \ {u} : tokens'[v] = tokens[v]
    BY <1>0, <1>2, <1>9, RotateTokenDoes
  <2>2. Sequential => RowsInOrder(u)'
    BY <1>3, <1>4, <2>1 DEF RowsInOrder, AtMostOne
  <2>3. Sequential => SignInKnows(req[s])'
    BY <1>3, <1>4, <2>1 DEF SignInKnows, SignIn
  <2> QED  BY <2>1, <2>2, <2>3
<1>10. ASSUME RevokeTokens(s) PROVE Goal
  <2>1. /\ UNCHANGED <<codes, uses>> /\ req'[s].pc = "issuing" /\ req'[s].user = u
        /\ tokens'[u].open = {}
        /\ \A v \in User \ {u} : tokens'[v] = tokens[v]
    BY <1>0, <1>2, <1>10, RevokeTokensDoes
  <2>2. Sequential => RowsInOrder(u)'
    BY <1>3, <1>4, <2>1 DEF RowsInOrder, AtMostOne
  <2>3. Sequential => SignInKnows(req[s])'
    BY <1>3, <1>4, <2>1 DEF SignInKnows, SignIn
  <2> QED  BY <2>1, <2>2, <2>3
<1>11. ASSUME StoreToken(s) PROVE Goal
  <2>1. /\ UNCHANGED <<codes, uses>> /\ req'[s] = Idle /\ req[s].pc = "issuing"
        /\ tokens'[u].open = tokens[u].open \cup {tokens[u].last + 1}
        /\ \A v \in User \ {u} : tokens'[v] = tokens[v]
    BY <1>0, <1>2, <1>11, StoreTokenDoes
  <2>2. ASSUME Sequential PROVE RowsInOrder(u)'
    <3>1. tokens[u].open = {} /\ tokens'[u].open = {tokens[u].last + 1}
      BY <1>2, <1>3, <2>1, <2>2 DEF SignInKnows
    <3> QED  BY <1>3, <1>4, <2>1, <2>2, <3>1 DEF RowsInOrder, AtMostOne
  <2>3. SignInKnows(req[s])'
    BY <2>1, IdleType DEF SignInKnows, SignIn
  <2> QED  BY <2>1, <2>2, <2>3
<1>12. Goal
  BY <1>5, <1>6, <1>7, <1>8, <1>9, <1>10, <1>11 DEF SignInStep
<1>13. \A v \in User \ {u} : SameRows(v)
  BY <1>4, <1>12 DEF SameRows
<1> HIDE DEF Goal
<1>14. Sequential => SignInKnows(req[s])' /\ RowsInOrder(u)'
  BY <1>12 DEF Goal
<1> QED  BY <1>1, <1>3, <1>4, <1>13, <1>14, OneMoves

LEMMA BeginsKeepsOne ==
  ASSUME SignInInv, NEW s \in Slot, NEW u \in User, Begins(s, u)
  PROVE  SignInInv'
<1>1. /\ SessionsTypeOK' /\ Others(s) /\ MaySignIn(u)
      /\ UNCHANGED <<account, tokens, codes, uses>>
      /\ req'[s].pc \in SignIn \ {"sendingCode", "issuing"} /\ req'[s].user = u
      /\ req'[s].pc = "consumingCode" => req'[s].item \in codes[u].open
      /\ account[u].deleted => \E r \in tokens[u].open : TRUE
  BY BeginsDoes DEF SignInInv
<1>2. \A v \in User : SameRows(v)
  BY <1>1 DEF SameRows
<1>3. Sequential => Alone(s, u)
  BY <1>1 DEF MaySignIn, Alone
<1>4. Sequential => RowsInOrder(u) /\ ~account[u].deleted
  BY <1>1 DEF SignInInv, RowsInOrder
<1>5. Sequential => SignInKnows(req[s])' /\ RowsInOrder(u)'
  BY <1>1, <1>2, <1>4, RowsStay DEF SignInKnows
<1> QED  BY <1>1, <1>2, <1>3, <1>5, OneMoves

LEMMA DeleteKeepsOne ==
  ASSUME SignInInv, NEW s \in Slot, DeleteOwnAccount(s)
  PROVE  SignInInv'
<1>1. PICK u : u = req[s].user
  OBVIOUS
<1>2. /\ SessionsTypeOK' /\ MaySignIn(u) /\ u \in User /\ Others(s) /\ uses' = uses
      /\ req'[s].pc = "denying"
      /\ tokens'[u].open = {} /\ codes'[u].open = {} /\ codes'[u].last = codes[u].last
      /\ \A v \in User \ {u} : /\ account'[v] = account[v] /\ tokens'[v] = tokens[v]
                               /\ codes'[v] = codes[v]
  BY <1>1, DeleteDoes DEF SignInInv
<1>3. \A v \in User \ {u} : SameRows(v)
  BY <1>2 DEF SameRows
<1>4. Sequential => Alone(s, u)
  BY <1>2 DEF MaySignIn, Alone
<1>5. Sequential => RowsInOrder(u)'
  BY <1>2 DEF SignInInv, RowsInOrder, AtMostOne
<1>6. SignInKnows(req[s])'
  BY <1>2 DEF SignInKnows, SignIn
<1> QED  BY <1>2, <1>3, <1>4, <1>5, <1>6, OneMoves DEF SignIn

LEMMA SignInNext == SignInInv /\ [Next]_vars => SignInInv'
<1> SUFFICES ASSUME SignInInv, [Next]_vars PROVE SignInInv'
  OBVIOUS
<1>0. SessionsTypeOK
  BY DEF SignInInv
<1> DEFINE NobodySignsIn == \A t \in Slot : req'[t].pc \in SignIn =>
                              IsAt(req'[t], req[t].pc, req[t].user, req[t].item)
<1>1. ASSUME NEW s \in Slot, Others(s), req'[s].pc \notin SignIn PROVE NobodySignsIn
  BY <1>1 DEF Others, IsAt
<1>2. ASSUME NEW s \in Slot, OthersLoseBars(s), req'[s].pc \notin SignIn PROVE NobodySignsIn
  BY <1>2 DEF OthersLoseBars
<1>3. ASSUME NEW s \in Slot, AccessStep(s) \/ Deny(s) PROVE SignInInv'
  <2>1. /\ SessionsTypeOK' /\ Others(s) /\ UNCHANGED <<account, tokens, codes, uses>>
        /\ req'[s] = Idle \/ req'[s].pc \in Access
    BY <1>0, <1>3, AccessDoes, DenyDoes
  <2>2. NobodySignsIn
    BY <1>1, <2>1, IdleType DEF Access, SignIn
  <2>3. \A v \in User : SameRows(v)
    BY <2>1 DEF SameRows
  <2> QED  BY <2>1, <2>2, <2>3, QuietStep
<1>4. ASSUME NEW s \in Slot, Restore(s) PROVE SignInInv'
  <2>1. PICK u : u = req[s].user
    OBVIOUS
  <2>2. /\ SessionsTypeOK' /\ OthersLoseBars(s) /\ req'[s].pc = "idle"
        /\ UNCHANGED <<account, tokens, codes, uses>>
    BY <1>0, <1>4, <2>1, RestoreDoes
  <2>3. NobodySignsIn
    BY <1>2, <2>2 DEF SignIn
  <2>4. \A v \in User : SameRows(v)
    BY <2>2 DEF SameRows
  <2> QED  BY <2>2, <2>3, <2>4, QuietStep
<1>5. ASSUME NEW s \in Slot, NEW u \in User, Suspend(s, u) \/ ResetUserPassword(s, u)
      PROVE  SignInInv'
  <2>1. /\ SessionsTypeOK' /\ Others(s) /\ UNCHANGED <<tokens, codes, uses>>
        /\ req'[s].pc = "denying"
        /\ \A v \in User : account'[v].deleted = account[v].deleted
    BY <1>0, <1>5, ClosingDoes
  <2>2. NobodySignsIn
    BY <1>1, <2>1 DEF SignIn
  <2>3. \A v \in User : SameRows(v)
    BY <2>1 DEF SameRows
  <2> QED  BY <2>1, <2>2, <2>3, QuietStep
<1>6. ASSUME NEW s \in Slot, NEW u \in User, Reactivate(s, u) PROVE SignInInv'
  <2>1. /\ SessionsTypeOK' /\ OthersLoseBars(s) /\ UNCHANGED <<tokens, codes, uses>>
        /\ req'[s].pc = "restoring"
        /\ \A v \in User \ {u} : account'[v] = account[v]
        /\ account'[u].deleted = account[u].deleted
    BY <1>0, <1>6, ReactivateDoes
  <2>2. NobodySignsIn
    BY <1>2, <2>1 DEF SignIn
  <2>3. \A v \in User : SameRows(v)
    BY <2>1 DEF SameRows
  <2> QED  BY <2>1, <2>2, <2>3, QuietStep
<1>7. ASSUME NEW s \in Slot, NEW u \in User, SendRequest(s, u)
      PROVE  SignInInv'
  <2>1. /\ SessionsTypeOK' /\ Others(s) /\ UNCHANGED <<account, tokens, codes, uses>>
        /\ req'[s].pc = "askingDenylist"
    BY <1>0, <1>7, SendRequestDoes
  <2>2. NobodySignsIn
    BY <1>1, <2>1 DEF SignIn
  <2>3. \A v \in User : SameRows(v)
    BY <2>1 DEF SameRows
  <2> QED  BY <2>1, <2>2, <2>3, QuietStep
<1>8. CASE RedisFlips \/ UNCHANGED vars
  <2>1. SessionsTypeOK' /\ UNCHANGED <<account, tokens, codes, req, uses>>
    BY <1>0, <1>8, FlipDoes, StuttersDo
  <2>2. NobodySignsIn /\ \A v \in User : SameRows(v)
    BY <2>1 DEF SameRows, IsAt
  <2> QED  BY <2>1, <2>2, QuietStep
<1> HIDE DEF NobodySignsIn
<1> QED
  BY <1>3, <1>4, <1>5, <1>6, <1>7, <1>8, SignInStepKeepsOne, BeginsKeepsOne, DeleteKeepsOne,
     StepCases

LEMMA AtMostOneCounts ==
  ASSUME NEW S, AtMostOne(S)
  PROVE  Cardinality(S) <= 1
<1>1. CASE S = {}
  BY <1>1, FS_EmptySet
<1>2. ASSUME NEW x \in S PROVE Cardinality(S) <= 1
  <2>1. S = {x}
    BY <1>2 DEF AtMostOne
  <2>2. Cardinality({x}) = 1
    BY FS_Singleton
  <2> QED  BY <2>1, <2>2
<1> QED  BY <1>1, <1>2

\* issueTokens leaves a user who signs in on one device at a time one refresh token that
\* works, and deleteOwnAccount none.
THEOREM OneSessionPerUser == Spec => []OneSession
<1>1. SignInInv => OneSession
  BY AtMostOneCounts DEF SignInInv, OneSession, RowsInOrder
<1> QED  BY <1>1, SignInInit, SignInNext, PTL DEF Spec

\* verifyOtp takes a code once and requestOtp leaves one code open, for such a user.
THEOREM CodesOpenOneSession == Spec => []CodesWorkOnce
<1>1. SignInInv => CodesWorkOnce
  BY AtMostOneCounts DEF SignInInv, CodesWorkOnce, RowsInOrder
<1> QED  BY <1>1, SignInInit, SignInNext, PTL DEF Spec
=============================================================================
