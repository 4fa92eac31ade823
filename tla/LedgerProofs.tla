----------------------------- MODULE LedgerProofs ----------------------------
(***************************************************************************)
(* Proofs about Ledger, for any drivers, clients, jobs, amounts and limit. *)
(***************************************************************************)
EXTENDS Ledger, SumTheorems

-----------------------------------------------------------------------------
(* The arithmetic: splitFare and the credit ladder.                        *)

\* splitFare divides a gross amount without remainder: the commission, however
\* it rounds, is part of the gross, and what is left for the payee is not negative.
LEMMA SplitFare ==
    ASSUME NEW gross \in Nat, NEW rate \in 0..100
    PROVE  /\ CommissionOn(gross, rate) \in 0..gross
           /\ NetOf(gross, rate) \in Nat
           /\ NetOf(gross, rate) + CommissionOn(gross, rate) = gross
<1> DEFINE p == gross * rate
<1>1. p \in Nat
  OBVIOUS
<1>2. p <= gross * 100
  OBVIOUS
<1> HIDE DEF p
<1>3. (p + 50) \div 100 \in 0..gross
  BY <1>1, <1>2
<1> QED
  BY <1>3 DEF CommissionOn, NetOf, p

\* getBalance's ladder never steps back as a debt grows: a lower balance never
\* shows a milder level.
Severity(level) ==
    IF level = "blocked" THEN 3 ELSE IF level = "warning" THEN 2 ELSE IF level = "notice" THEN 1 ELSE 0
THEOREM LadderIsMonotone ==
    ASSUME NEW a \in Int, NEW b \in Int, a <= b
    PROVE  Severity(Level(b)) <= Severity(Level(a))
<1>1. CreditLimit \in Nat /\ Owed(a) \in Nat /\ Owed(b) \in Nat /\ Owed(b) <= Owed(a)
  BY LedgerAssumption DEF Owed
<1>2. Blocked(b) => Blocked(a)
  BY <1>1 DEF Blocked
<1>3. CASE Blocked(a)
  <2>1. Severity(Level(a)) = 3
    BY <1>3 DEF Severity, Level
  <2> QED
    BY <2>1 DEF Severity
<1>4. CASE ~Blocked(a)
  BY <1>1, <1>2, <1>4 DEF Severity, Level
<1> QED
  BY <1>3, <1>4

-----------------------------------------------------------------------------
(* The rows of a settlement.                                               *)

\* Every row a settlement writes has a type of the ledger and an integer amount,
\* and the client's rows (COD credit, restaurant payout) are never negative.
LEMMA SettlementRows ==
    ASSUME NEW w \in Terms
    PROVE  /\ DOMAIN Rows(w) \subseteq EntryType
           /\ \A type \in DOMAIN Rows(w) : Rows(w)[type] \in Int
           /\ \A type \in DOMAIN Rows(w) \cap ClientTypes : Rows(w)[type] >= 0
<1>1. /\ w \in JobTerms /\ CommissionRate \in 0..100
      /\ w.fare \in Nat /\ w.tip \in Nat /\ w.cod \in Nat /\ w.items \in Nat /\ w.rate \in 0..100
  BY LedgerAssumption DEF JobTerms
<1>2. NetOf(w.fare, CommissionRate) \in Nat /\ NetOf(w.items, w.rate) \in Nat
  BY <1>1, SplitFare
<1>3. CASE w.kind = "TRIP"
  BY <1>1, <1>2, <1>3 DEF Rows, TripRows, EntryType, ClientTypes
<1>4. CASE w.kind = "DELIVERY"
  BY <1>1, <1>2, <1>4 DEF Rows, DeliveryRows, EntryType, ClientTypes
<1>5. CASE w.kind = "FOOD_ORDER"
  BY <1>1, <1>2, <1>5 DEF Rows, FoodOrderRows, EntryType, ClientTypes
<1>6. CASE w.kind = "ERRAND"
  BY <1>1, <1>2, <1>6 DEF Rows, ErrandRows, EntryType, ClientTypes
<1> QED
  BY <1>1, <1>3, <1>4, <1>5, <1>6 DEF JobTerms, Kind

\* Posting keeps the sums integers; posting the client's rows lowers none of them.
LEMMA PostedSums ==
    ASSUME NEW sums \in [EntryType -> Int], NEW w \in Terms, NEW types
    PROVE  /\ Post(sums, Rows(w), types) \in [EntryType -> Int]
           /\ \A type \in EntryType : Post(sums, Rows(w), ClientTypes)[type] >= sums[type]
  BY SettlementRows DEF Post

-----------------------------------------------------------------------------
(* Type correctness.                                                       *)

LEMMA TypeInit == Init => TypeOK
<1> SUFFICES ASSUME Init PROVE TypeOK
  OBVIOUS
<1> USE DEF Init, User
<1>1. /\ job \in [Job -> [state : {"open", "offered", "taken", "settled"},
                         driver : Driver \cup {None}, client : Client, terms : Terms]]
      /\ \A j \in Job : job[j].state # "open" => job[j].driver \in Driver
  OBVIOUS
<1> QED
  BY <1>1 DEF TypeOK

LEMMA TypeStep == TypeOK /\ [Next]_vars => TypeOK'
<1> SUFFICES ASSUME TypeOK, [Next]_vars PROVE TypeOK'
  OBVIOUS
<1> USE DEF TypeOK
<1>1. ASSUME NEW j \in Job, NEW d \in Driver, Offer(j, d) PROVE TypeOK'
  BY <1>1 DEF Offer
<1>2. ASSUME NEW j \in Job, NEW d \in Driver, ManuallyAssign(j, d) PROVE TypeOK'
  BY <1>2 DEF ManuallyAssign
<1>3. ASSUME NEW j \in Job, OfferLapses(j) PROVE TypeOK'
  BY <1>3 DEF OfferLapses
<1>4. ASSUME NEW j \in Job, NEW d \in Driver, Accept(j, d) PROVE TypeOK'
  BY <1>4 DEF Accept
<1>5. ASSUME NEW j \in Job, Settle(j) PROVE TypeOK'
  <2> DEFINE w == job[j].terms
             d == job[j].driver
             c == job[j].client
  <2>1. w \in Terms /\ d \in Driver /\ c \in Client /\ w \in JobTerms
    BY <1>5, LedgerAssumption DEF Settle
  <2>2. net' \in [User -> [EntryType -> Int]]
    <3>1. Post(net[d], Rows(w), EntryType \ ClientTypes) \in [EntryType -> Int]
      BY <2>1, PostedSums DEF User
    <3>2. c # d
      BY <2>1, LedgerAssumption
    <3>3. Post(net[c], Rows(w), ClientTypes) \in [EntryType -> Int]
      BY <2>1, PostedSums DEF User
    <3> QED
      BY <1>5, <3>1, <3>2, <3>3 DEF Settle, User
  <2>3. /\ job' \in [Job -> [state : {"open", "offered", "taken", "settled"},
                           driver : Driver \cup {None}, client : Client, terms : Terms]]
        /\ \A i \in Job : job'[i].state # "open" => job'[i].driver \in Driver
    <3>1. job' = [job EXCEPT ![j].state = "settled"] /\ d \in Driver
      BY <1>5, <2>1 DEF Settle
    <3> QED
      BY <3>1
  <2>4. withdrawal' = withdrawal
    BY <1>5 DEF Settle
  <2> HIDE DEF w, d, c
  <2> QED
    BY <2>2, <2>3, <2>4
<1>6. ASSUME NEW u \in User, NEW amount \in Amount, TopUp(u, amount) PROVE TypeOK'
  <2>1. net[u]["WALLET_TOPUP"] + amount \in Int
    BY LedgerAssumption DEF EntryType
  <2> QED
    BY <1>6, <2>1 DEF TopUp
<1>7. ASSUME NEW s \in Slot, NEW u \in User, NEW amount \in Amount, WithdrawCheck(s, u, amount)
      PROVE  TypeOK'
  BY <1>7 DEF WithdrawCheck
<1>8. ASSUME NEW s \in Slot, WithdrawWrite(s) PROVE TypeOK'
  <2>1. withdrawal[s].user \in User /\ withdrawal[s].amount \in Nat
    BY <1>8, LedgerAssumption DEF WithdrawWrite
  <2>2. net[withdrawal[s].user]["WALLET_WITHDRAWAL"] - withdrawal[s].amount \in Int
    BY <2>1 DEF EntryType
  <2> QED
    BY <1>8, <2>1, <2>2 DEF WithdrawWrite
<1>9. CASE UNCHANGED vars
  BY <1>9 DEF vars
<1> QED
  BY <1>1, <1>2, <1>3, <1>4, <1>5, <1>6, <1>7, <1>8, <1>9 DEF Next

\* The sums stay integers, withdrawals keep a user and an amount, and a job that is
\* past its search has a driver.
THEOREM TypeCorrect == Spec => []TypeOK
  BY TypeInit, TypeStep, PTL DEF Spec

-----------------------------------------------------------------------------
(* Clients never owe.  The invariant adds what makes the stale check safe: *)
(* the amount of a withdrawal in flight is still covered, and the user has *)
(* no other.                                                               *)

WithdrawalsCovered ==
    \A s \in Slot : withdrawal[s].user \in Client =>
        /\ withdrawal[s].amount <= Balance(withdrawal[s].user)
        /\ \A r \in Slot : withdrawal[r].user = withdrawal[s].user => r = s

WalletInv ==
    OneAtATime => (\A c \in Client : Balance(c) >= 0) /\ WithdrawalsCovered

LEMMA TotalInt == ASSUME NEW sums \in [EntryType -> Int] PROVE Total(sums) \in Int
<1>1. \A type \in EntryType : sums[type] \in Int
  OBVIOUS
<1> HIDE DEF Total
<1> QED
  BY <1>1 DEF Total, EntryType

LEMMA TotalMonotone ==
    ASSUME NEW a \in [EntryType -> Int], NEW b \in [EntryType -> Int],
           \A type \in EntryType : a[type] <= b[type]
    PROVE  Total(a) <= Total(b)
<1>1. \A type \in EntryType : a[type] \in Int /\ b[type] \in Int /\ a[type] <= b[type]
  OBVIOUS
<1> QED
  BY <1>1 DEF Total, EntryType

LEMMA BalanceInt == ASSUME TypeOK, NEW u \in User PROVE Balance(u) \in Int
  BY TotalInt DEF TypeOK, Balance

LEMMA TotalWithdraw ==
    ASSUME NEW sums \in [EntryType -> Int], NEW amount \in Int
    PROVE  Total([sums EXCEPT !["WALLET_WITHDRAWAL"] = @ - amount]) = Total(sums) - amount
<1> DEFINE after == [sums EXCEPT !["WALLET_WITHDRAWAL"] = @ - amount]
<1>1. \A type \in EntryType : sums[type] \in Int
  OBVIOUS
<1>2. \A type \in EntryType \ {"WALLET_WITHDRAWAL"} : after[type] = sums[type]
  OBVIOUS
<1>3. after["WALLET_WITHDRAWAL"] = sums["WALLET_WITHDRAWAL"] - amount
  BY DEF EntryType
<1> HIDE DEF after
<1>4. Total(after) = Total(sums) - amount
  BY <1>1, <1>2, <1>3 DEF Total, EntryType
<1> QED
  BY <1>4 DEF after

LEMMA WithdrawalTypes ==
    ASSUME TypeOK, NEW s \in Slot
    PROVE  /\ withdrawal[s].amount \in Nat
           /\ withdrawal[s] # NoWithdrawal => withdrawal[s].user \in User
           /\ withdrawal[s] = NoWithdrawal => withdrawal[s].user = None
<1>1. withdrawal[s] \in [user : User, amount : Amount] \cup {NoWithdrawal}
  BY DEF TypeOK
<1>2. CASE withdrawal[s] = NoWithdrawal
  BY <1>2 DEF NoWithdrawal
<1>3. CASE withdrawal[s] \in [user : User, amount : Amount] /\ withdrawal[s] # NoWithdrawal
  BY <1>3, LedgerAssumption
<1> QED
  BY <1>1, <1>2, <1>3

\* A step that lowers no client's balance and neither starts nor ends a withdrawal.
LEMMA WalletKept ==
    ASSUME TypeOK, TypeOK', WalletInv, withdrawal' = withdrawal,
           \A c \in Client : Balance(c)' >= Balance(c)
    PROVE  WalletInv'
<1>1. \A c \in Client : Balance(c) \in Int
  BY BalanceInt DEF User
<1>2. \A c \in Client : Balance(c)' \in Int
  BY TotalInt DEF User, TypeOK, Balance
<1>3. \A s \in Slot : withdrawal[s].amount \in Nat
  BY WithdrawalTypes
<1> SUFFICES ASSUME OneAtATime PROVE (\A c \in Client : Balance(c)' >= 0) /\ WithdrawalsCovered'
  BY DEF WalletInv
<1>4. \A c \in Client : Balance(c)' >= 0
  BY <1>1, <1>2 DEF WalletInv
<1>5. WithdrawalsCovered'
  <2> SUFFICES ASSUME NEW s \in Slot, withdrawal[s].user \in Client
               PROVE  /\ withdrawal[s].amount <= Balance(withdrawal[s].user)'
                      /\ \A r \in Slot : withdrawal[r].user = withdrawal[s].user => r = s
    BY DEF WithdrawalsCovered
  <2>1. /\ withdrawal[s].amount <= Balance(withdrawal[s].user)
        /\ \A r \in Slot : withdrawal[r].user = withdrawal[s].user => r = s
    BY DEF WalletInv, WithdrawalsCovered
  <2> DEFINE c == withdrawal[s].user
  <2>2. Balance(withdrawal[s].user)' = Total(net'[c])
    BY DEF Balance
  <2>3. c \in Client /\ Total(net'[c]) \in Int /\ Total(net[c]) \in Int /\ Total(net'[c]) >= Total(net[c])
    BY <1>1, <1>2 DEF Balance
  <2> QED
    BY <1>3, <2>1, <2>2, <2>3 DEF Balance
<1> QED
  BY <1>4, <1>5

LEMMA WalletInit == Init => WalletInv
<1> SUFFICES ASSUME Init PROVE (\A c \in Client : Balance(c) >= 0) /\ WithdrawalsCovered
  BY DEF WalletInv
<1>1. \A c \in Client : Balance(c) = 0
  BY DEF Init, Balance, Total, EntryType, User
<1>2. \A s \in Slot : withdrawal[s].user \notin Client
  BY LedgerAssumption DEF Init, NoWithdrawal
<1> QED
  BY <1>1, <1>2 DEF WithdrawalsCovered

LEMMA WalletStep == TypeOK /\ TypeOK' /\ WalletInv /\ [Next]_vars => WalletInv'
<1> SUFFICES ASSUME TypeOK, TypeOK', WalletInv, [Next]_vars PROVE WalletInv'
  OBVIOUS
<1>a. \A c \in Client : Balance(c) \in Int /\ c \in User
  BY BalanceInt DEF User
<1>1. CASE net' = net /\ withdrawal' = withdrawal
  BY <1>1, <1>a, WalletKept DEF Balance
<1>2. ASSUME NEW j \in Job, Settle(j) PROVE WalletInv'
  <2> DEFINE w == job[j].terms
             d == job[j].driver
             c == job[j].client
  <2>1. w \in Terms /\ d \in Driver /\ c \in Client /\ c # d /\ c \in User
    BY <1>2, LedgerAssumption DEF Settle, TypeOK, User
  <2>2. withdrawal' = withdrawal
    BY <1>2 DEF Settle
  <2>3. net' = [net EXCEPT ![d] = Post(@, Rows(w), EntryType \ ClientTypes),
                           ![c] = Post(@, Rows(w), ClientTypes)]
    BY <1>2 DEF Settle
  <2> HIDE DEF w, d, c
  <2>4. net[c] \in [EntryType -> Int] /\ net'[c] \in [EntryType -> Int]
    BY <2>1 DEF TypeOK
  <2>5. net'[c] = Post(net[c], Rows(w), ClientTypes)
    BY <2>1, <2>3 DEF TypeOK
  <2>6. Total(net[c]) <= Total(net'[c])
    <3>1. \A type \in EntryType : net'[c][type] >= net[c][type]
      BY <2>1, <2>4, <2>5, PostedSums
    <3>2. \A type \in EntryType : net'[c][type] \in Int /\ net[c][type] \in Int
      BY <2>4
    <3>3. \A type \in EntryType : net[c][type] <= net'[c][type]
      BY <3>1, <3>2
    <3> QED
      BY <2>4, <3>3, TotalMonotone
  <2>7. \A x \in Client : x # c => net'[x] = net[x]
    BY <2>1, <2>3, LedgerAssumption DEF TypeOK, User
  <2>8. \A x \in Client : Balance(x)' >= Balance(x)
    <3> SUFFICES ASSUME NEW x \in Client PROVE Total(net'[x]) >= Total(net[x])
      BY DEF Balance
    <3>1. Total(net[x]) \in Int /\ Total(net'[x]) \in Int
      BY TotalInt DEF TypeOK, User
    <3>2. CASE x = c
      BY <3>1, <3>2, <2>6
    <3>3. CASE x # c
      BY <3>1, <3>3, <2>7
    <3> QED
      BY <3>2, <3>3
  <2> QED
    BY <2>2, <2>8, WalletKept
<1>3. ASSUME NEW u \in User, NEW amount \in Amount, TopUp(u, amount) PROVE WalletInv'
  <2>1. withdrawal' = withdrawal /\ net' = [net EXCEPT ![u]["WALLET_TOPUP"] = @ + amount]
    BY <1>3 DEF TopUp
  <2>2. amount \in Nat /\ "WALLET_TOPUP" \in EntryType
    BY LedgerAssumption DEF EntryType
  <2>3. \A x \in Client : Balance(x)' >= Balance(x)
    <3> SUFFICES ASSUME NEW x \in Client PROVE Total(net'[x]) >= Total(net[x])
      BY DEF Balance
    <3>1. net[x] \in [EntryType -> Int] /\ net'[x] \in [EntryType -> Int] /\ x \in User
      BY DEF TypeOK, User
    <3>2. \A type \in EntryType : net[x][type] <= net'[x][type]
      <4>1. \A type \in EntryType : net[x][type] \in Int /\ net[u][type] \in Int
        BY <3>1 DEF TypeOK
      <4>2. CASE x # u
        BY <2>1, <3>1, <4>1, <4>2 DEF TypeOK
      <4>3. CASE x = u
        <5>1. net'[x] = [net[x] EXCEPT !["WALLET_TOPUP"] = @ + amount]
          BY <2>1, <3>1, <4>3 DEF TypeOK
        <5> QED
          BY <2>2, <3>1, <4>1, <5>1
      <4> QED
        BY <4>2, <4>3
    <3>3. Total(net[x]) <= Total(net'[x]) /\ Total(net[x]) \in Int /\ Total(net'[x]) \in Int
      BY <3>1, <3>2, TotalMonotone, TotalInt
    <3> QED
      BY <3>3
  <2> QED
    BY <2>1, <2>3, WalletKept
<1>4. ASSUME NEW s \in Slot, NEW u \in User, NEW amount \in Amount, WithdrawCheck(s, u, amount)
      PROVE  WalletInv'
  <2> SUFFICES ASSUME OneAtATime PROVE (\A c \in Client : Balance(c)' >= 0) /\ WithdrawalsCovered'
    BY DEF WalletInv
  <2>1. /\ net' = net /\ amount <= Balance(u) /\ (\A r \in Slot : withdrawal[r].user # u)
        /\ withdrawal' = [withdrawal EXCEPT ![s] = [user |-> u, amount |-> amount]]
    BY <1>4 DEF WithdrawCheck, Covered
  <2>2. \A x \in User : Balance(x)' = Balance(x)
    BY <2>1 DEF Balance
  <2>3. \A r \in Slot : withdrawal'[r] = IF r = s THEN [user |-> u, amount |-> amount] ELSE withdrawal[r]
    BY <2>1 DEF TypeOK
  <2>4. (\A c \in Client : Balance(c) >= 0) /\ WithdrawalsCovered
    BY DEF WalletInv
  <2>5. \A c \in Client : Balance(c)' >= 0
    BY <2>2, <2>4, <1>a
  <2>6. WithdrawalsCovered'
    <3> SUFFICES ASSUME NEW r \in Slot, withdrawal'[r].user \in Client
                 PROVE  /\ withdrawal'[r].amount <= Total(net[withdrawal'[r].user])
                        /\ \A q \in Slot : withdrawal'[q].user = withdrawal'[r].user => q = r
      BY <2>1 DEF WithdrawalsCovered, Balance
    <3>1. CASE r = s
      BY <2>1, <2>3, <3>1 DEF Balance
    <3>2. CASE r # s
      BY <2>1, <2>3, <2>4, <3>2 DEF WithdrawalsCovered, Balance
    <3> QED
      BY <3>1, <3>2
  <2> QED
    BY <2>5, <2>6
<1>5. ASSUME NEW s \in Slot, WithdrawWrite(s) PROVE WalletInv'
  <2> SUFFICES ASSUME OneAtATime PROVE (\A c \in Client : Balance(c)' >= 0) /\ WithdrawalsCovered'
    BY DEF WalletInv
  <2> DEFINE u == withdrawal[s].user
             amount == withdrawal[s].amount
  <2>1. /\ net' = [net EXCEPT ![u]["WALLET_WITHDRAWAL"] = @ - amount]
        /\ withdrawal' = [withdrawal EXCEPT ![s] = NoWithdrawal]
    BY <1>5 DEF WithdrawWrite
  <2>2. u \in User /\ amount \in Nat
    BY <1>5, WithdrawalTypes DEF WithdrawWrite
  <2>3. (\A c \in Client : Balance(c) >= 0) /\ WithdrawalsCovered
    BY DEF WalletInv
  <2>4. u \in Client => amount <= Total(net[u]) /\ \A r \in Slot : withdrawal[r].user = u => r = s
    BY <2>3 DEF WithdrawalsCovered, Balance
  <2>5. \A r \in Slot : withdrawal'[r] = IF r = s THEN NoWithdrawal ELSE withdrawal[r]
    BY <2>1 DEF TypeOK
  <2> HIDE DEF u, amount
  <2>6. \A x \in User : x # u => net'[x] = net[x]
    BY <2>1, <2>2 DEF TypeOK
  <2>7. Total(net'[u]) = Total(net[u]) - amount /\ Total(net[u]) \in Int
    <3>1. net'[u] = [net[u] EXCEPT !["WALLET_WITHDRAWAL"] = @ - amount] /\ net[u] \in [EntryType -> Int]
      BY <2>1, <2>2 DEF TypeOK
    <3> QED
      BY <2>2, <3>1, TotalWithdraw, TotalInt
  <2>8. \A c \in Client : Balance(c)' >= 0
    <3> SUFFICES ASSUME NEW c \in Client PROVE Total(net'[c]) >= 0
      BY DEF Balance
    <3>1. CASE c = u
      BY <2>2, <2>4, <2>7, <3>1
    <3>2. CASE c # u
      BY <1>a, <2>3, <2>6, <3>2 DEF Balance
    <3> QED
      BY <3>1, <3>2
  <2>9. WithdrawalsCovered'
    <3> SUFFICES ASSUME NEW r \in Slot, withdrawal'[r].user \in Client
                 PROVE  /\ withdrawal'[r].amount <= Total(net'[withdrawal'[r].user])
                        /\ \A q \in Slot : withdrawal'[q].user = withdrawal'[r].user => q = r
      BY DEF WithdrawalsCovered, Balance
    <3>1. NoWithdrawal.user \notin Client
      BY LedgerAssumption DEF NoWithdrawal
    <3>2. r # s /\ withdrawal'[r] = withdrawal[r]
      BY <2>5, <3>1
    <3>3. withdrawal[r].user # u
      BY <2>4, <3>2
    <3>4. net'[withdrawal[r].user] = net[withdrawal[r].user]
      BY <1>a, <2>6, <3>2, <3>3
    <3>5. /\ withdrawal[r].amount <= Total(net[withdrawal[r].user])
          /\ \A q \in Slot : withdrawal[q].user = withdrawal[r].user => q = r
      BY <2>3, <3>2 DEF WithdrawalsCovered, Balance
    <3> QED
      BY <2>5, <3>1, <3>2, <3>4, <3>5
  <2> QED
    BY <2>8, <2>9
<1>6. CASE UNCHANGED vars
  BY <1>1, <1>6 DEF vars
<1> QED
  BY <1>1, <1>2, <1>3, <1>4, <1>5, <1>6
     DEF Next, Offer, ManuallyAssign, OfferLapses, Accept

\* ClientsNeverOwe for any number of users, jobs and withdrawals: the balance that
\* requestWithdrawal checked still covers the row it writes later.
THEOREM ClientsStaySolvent == Spec => []ClientsNeverOwe
<1>1. WalletInv => ClientsNeverOwe
  BY DEF WalletInv, ClientsNeverOwe
<1> QED
  BY <1>1, TypeCorrect, WalletInit, WalletStep, PTL DEF Spec

-----------------------------------------------------------------------------
(* Cash on delivery nets to zero.                                          *)

\* The cash on delivery that a job moves from its driver to its sender.
CodMoved(w) == IF w.kind = "DELIVERY" THEN w.cod ELSE 0
CodIn(sums) == sums["DELIVERY_COD_LIABILITY"] + sums["PARCEL_COD_CREDIT"]

\* The driver's rows take away what the client's rows give.
LEMMA CodRows ==
  ASSUME NEW w \in Terms, NEW sums \in [EntryType -> Int]
  PROVE  /\ CodMoved(w) \in Int
         /\ CodIn(Post(sums, Rows(w), EntryType \ ClientTypes)) = CodIn(sums) - CodMoved(w)
         /\ CodIn(Post(sums, Rows(w), ClientTypes)) = CodIn(sums) + CodMoved(w)
<1>1. w \in JobTerms /\ w.cod \in Nat /\ w.kind \in Kind
  BY LedgerAssumption DEF JobTerms
<1>2. PICK a \in Int, b \in Int : sums["DELIVERY_COD_LIABILITY"] = a /\ sums["PARCEL_COD_CREDIT"] = b
  BY DEF EntryType
<1>3. CASE w.kind = "DELIVERY"
  <2>1. /\ DOMAIN Rows(w) = {"DELIVERY_PAYOUT", "DELIVERY_COD_LIABILITY", "PARCEL_COD_CREDIT"}
        /\ Rows(w)["DELIVERY_COD_LIABILITY"] = -w.cod /\ Rows(w)["PARCEL_COD_CREDIT"] = w.cod
    BY <1>3 DEF Rows, DeliveryRows
  <2>2. /\ Post(sums, Rows(w), EntryType \ ClientTypes)["DELIVERY_COD_LIABILITY"] = a + -w.cod
        /\ Post(sums, Rows(w), EntryType \ ClientTypes)["PARCEL_COD_CREDIT"] = b
        /\ Post(sums, Rows(w), ClientTypes)["DELIVERY_COD_LIABILITY"] = a
        /\ Post(sums, Rows(w), ClientTypes)["PARCEL_COD_CREDIT"] = b + w.cod
    BY <1>2, <2>1 DEF Post, EntryType, ClientTypes
  <2>3. CodMoved(w) = w.cod
    BY <1>3 DEF CodMoved
  <2> QED  BY <1>1, <1>2, <2>2, <2>3 DEF CodIn
<1>4. CASE w.kind # "DELIVERY"
  <2>1. DOMAIN Rows(w) \cap {"DELIVERY_COD_LIABILITY", "PARCEL_COD_CREDIT"} = {}
    BY <1>1, <1>4 DEF Rows, TripRows, FoodOrderRows, ErrandRows, Kind
  <2>2. \A types : /\ Post(sums, Rows(w), types)["DELIVERY_COD_LIABILITY"] = a
                   /\ Post(sums, Rows(w), types)["PARCEL_COD_CREDIT"] = b
    BY <1>2, <2>1 DEF Post, EntryType
  <2>3. CodMoved(w) = 0
    BY <1>4 DEF CodMoved
  <2> QED  BY <1>2, <2>2, <2>3 DEF CodIn
<1> QED  BY <1>3, <1>4

Cod == [u \in User |-> CodOf(u)]

LEMMA CodTypes ==
  ASSUME TypeOK
  PROVE  IsFiniteSet(User) /\ \A u \in User : Cod[u] \in Int /\ Cod[u] = CodIn(net[u])
<1>1. IsFiniteSet(User)
  BY LedgerAssumption, FS_Union DEF User
<1>2. ASSUME NEW u \in User PROVE Cod[u] \in Int /\ Cod[u] = CodIn(net[u])
  <2>1. net[u]["DELIVERY_COD_LIABILITY"] \in Int /\ net[u]["PARCEL_COD_CREDIT"] \in Int
    BY DEF TypeOK, EntryType
  <2> QED  BY <2>1 DEF Cod, CodOf, CodIn
<1> QED  BY <1>1, <1>2

LEMMA CodInit == Init => CodNetsToZero
<1> SUFFICES ASSUME Init PROVE SumFunctionOnSet(Cod, User) = 0
  BY DEF CodNetsToZero, Cod
<1>1. IsFiniteSet(User)
  BY LedgerAssumption, FS_Union DEF User
<1>2. ASSUME NEW u \in User PROVE Cod[u] = 0
  <2>1. net[u]["DELIVERY_COD_LIABILITY"] = 0 /\ net[u]["PARCEL_COD_CREDIT"] = 0
    BY DEF Init, EntryType
  <2> QED  BY <2>1 DEF Cod, CodOf
<1> QED  BY <1>1, <1>2, SumOfZeros

LEMMA CodStep == TypeOK /\ TypeOK' /\ CodNetsToZero /\ [Next]_vars => CodNetsToZero'
<1> SUFFICES ASSUME TypeOK, TypeOK', CodNetsToZero, [Next]_vars
             PROVE  SumFunctionOnSet(Cod', User) = 0
  BY DEF CodNetsToZero, Cod, User
<1>0. /\ IsFiniteSet(User) /\ SumFunctionOnSet(Cod, User) = 0
      /\ \A u \in User : Cod[u] \in Int /\ Cod[u] = CodIn(net[u]) /\ Cod'[u] = CodIn(net'[u])
  BY CodTypes DEF CodNetsToZero, Cod, CodOf, CodIn
<1>1. ASSUME \A u \in User : Cod'[u] = Cod[u]
      PROVE  SumFunctionOnSet(Cod', User) = 0
  BY <1>0, <1>1, SumsAgree
<1>2. ASSUME NEW j \in Job, Settle(j)
      PROVE  SumFunctionOnSet(Cod', User) = 0
  <2>1. PICK w, d, c :
          /\ w = job[j].terms /\ d = job[j].driver /\ c = job[j].client
          /\ net' = [net EXCEPT ![d] = Post(@, Rows(w), EntryType \ ClientTypes),
                                ![c] = Post(@, Rows(w), ClientTypes)]
    BY <1>2 DEF Settle
  <2>2. w \in Terms /\ d \in User /\ c \in User /\ c # d
    BY <1>2, <2>1, LedgerAssumption DEF Settle, TypeOK, User
  <2>3. /\ net'[d] = Post(net[d], Rows(w), EntryType \ ClientTypes)
        /\ net'[c] = Post(net[c], Rows(w), ClientTypes)
        /\ \A u \in User \ {d, c} : net'[u] = net[u]
    BY <2>1, <2>2 DEF TypeOK
  <2>4. net[d] \in [EntryType -> Int] /\ net[c] \in [EntryType -> Int]
    BY <2>2 DEF TypeOK
  <2>5. PICK k : k = CodMoved(w)
    OBVIOUS
  <2>6. k \in Int /\ Cod'[d] = Cod[d] - k /\ Cod'[c] = Cod[c] + k
    BY <1>0, <2>2, <2>3, <2>4, <2>5, CodRows
  <2>7. \A u \in User \ {d, c} : Cod'[u] = Cod[u]
    BY <1>0, <2>3
  <2> DEFINE half == [Cod EXCEPT ![d] = Cod'[d]]
  <2>8. /\ half[d] = Cod[d] + -k
        /\ \A u \in User \ {d} : half[u] = Cod[u]
    BY <1>0, <2>2, <2>6 DEF Cod
  <2>9. \A u \in User : half[u] \in Int
    BY <1>0, <2>2, <2>6, <2>8
  <2>10. /\ Cod'[c] = half[c] + k
         /\ \A u \in User \ {c} : Cod'[u] = half[u]
    <3>1. half[d] = Cod'[d]
      BY <1>0, <2>2, <2>6, <2>8
    <3> QED  BY <2>2, <2>6, <2>7, <2>8, <3>1
  <2> HIDE DEF half
  <2>11. SumFunctionOnSet(half, User) = SumFunctionOnSet(Cod, User) + -k
    BY <1>0, <2>2, <2>6, <2>8, SumMovesWith
  <2>12. SumFunctionOnSet(Cod', User) = SumFunctionOnSet(half, User) + k
    BY <1>0, <2>2, <2>6, <2>9, <2>10, SumMovesWith
  <2> QED  BY <1>0, <2>6, <2>11, <2>12
<1>3. ASSUME NEW u \in User, NEW amount \in Amount, TopUp(u, amount)
      PROVE  SumFunctionOnSet(Cod', User) = 0
  <2>1. \A v \in User : /\ net'[v]["DELIVERY_COD_LIABILITY"] = net[v]["DELIVERY_COD_LIABILITY"]
                         /\ net'[v]["PARCEL_COD_CREDIT"] = net[v]["PARCEL_COD_CREDIT"]
    BY <1>3 DEF TopUp, TypeOK, EntryType
  <2> QED  BY <1>0, <1>1, <2>1 DEF CodIn
<1>4. ASSUME NEW s \in Slot, WithdrawWrite(s)
      PROVE  SumFunctionOnSet(Cod', User) = 0
  <2>1. PICK u : net' = [net EXCEPT ![u]["WALLET_WITHDRAWAL"] = @ - withdrawal[s].amount]
    BY <1>4 DEF WithdrawWrite
  <2>2. \A v \in User : /\ net'[v]["DELIVERY_COD_LIABILITY"] = net[v]["DELIVERY_COD_LIABILITY"]
                         /\ net'[v]["PARCEL_COD_CREDIT"] = net[v]["PARCEL_COD_CREDIT"]
    BY <2>1 DEF TypeOK, EntryType
  <2> QED  BY <1>0, <1>1, <2>2 DEF CodIn
<1>5. CASE net' = net
  BY <1>0, <1>1, <1>5
<1> QED
  BY <1>2, <1>3, <1>4, <1>5
     DEF Next, vars, Offer, ManuallyAssign, OfferLapses, Accept, WithdrawCheck

\* CodNetsToZero for any number of users and jobs, whatever their worth: the two rows of
\* recordDeliveryPayout always cancel out, and nothing else posts to either type.
THEOREM CodOnlyChangesHands == Spec => []CodNetsToZero
  BY TypeCorrect, CodInit, CodStep, PTL DEF Spec

-----------------------------------------------------------------------------
(* The two places that draw the credit limit.                              *)

\* WalletAgreesWithDispatch for any credit limit and any balance: getBalance and
\* driversOverCreditLimit draw the line at the same paisa.
THEOREM WalletAndDispatchAgree == Spec => []WalletAgreesWithDispatch
<1>1. TypeOK => WalletAgreesWithDispatch
  <2> SUFFICES ASSUME TypeOK, CreditLimit # 0, NEW d \in Driver
               PROVE  LET b == Balance(d) IN
                      /\ OverCreditLimit(b) <=> RemainingCredit(b) = 0
                      /\ OverCreditLimit(b) <=> Level(b) = "blocked"
    BY DEF WalletAgreesWithDispatch
  <2> DEFINE b == Balance(d)
  <2>1. b \in Int /\ CreditLimit \in Nat
    BY BalanceInt, LedgerAssumption DEF User
  <2> HIDE DEF b
  <2>2. OverCreditLimit(b) <=> RemainingCredit(b) = 0
    BY <2>1 DEF OverCreditLimit, RemainingCredit, Owed
  <2>3. OverCreditLimit(b) <=> Level(b) = "blocked"
    BY <2>1 DEF OverCreditLimit, Level, Blocked
  <2> QED
    BY <2>2, <2>3 DEF b
<1> QED
  BY <1>1, TypeCorrect, PTL
=============================================================================
