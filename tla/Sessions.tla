------------------------------- MODULE Sessions ------------------------------
(***************************************************************************)
(* Who may act: AuthService (one-time codes, passwords, refresh tokens),   *)
(* TokenDenylistService, the check every request passes, and the           *)
(* operations that close an account: suspension, password reset, deletion. *)
(*                                                                         *)
(* As in Trips, a step is the code between two awaits and req holds what a *)
(* handler carries across one.  Access tokens are stateless and outlive    *)
(* the model, so a user who has signed in once can send requests for ever. *)
(***************************************************************************)
EXTENDS Integers, FiniteSets

CONSTANTS
    User,          \* people with a phone number
    Slot,          \* handlers that can be in flight together
    None,          \* null
    Sequential,    \* whether a user waits for one sign-in before the next
    RedisMayFail,  \* whether Redis can become unreachable
    MaxTokens,     \* bound: refresh tokens issued to one user
    MaxCodes,      \* bound: one-time codes sent to one user
    MaxPasswords   \* bound: passwords one user has had

ASSUME SessionsAssumption ==
    /\ None \notin User
    /\ Sequential \in BOOLEAN /\ RedisMayFail \in BOOLEAN
    /\ MaxTokens \in Nat /\ MaxCodes \in Nat /\ MaxPasswords \in Nat \ {0}

VARIABLES
    account,  \* the users table
    tokens,   \* refresh_tokens: how many were issued, which are not revoked
    codes,    \* otp_codes: how many were sent, which are not consumed
    denied,   \* Redis: auth:revoked:<user>
    redisUp,  \* whether Redis answers
    req,      \* handlers between two awaits
    \* History, read only by properties
    uses,     \* sign-ins that each one-time code was good for
    login     \* the password of a user's last completed password login

vars == <<account, tokens, codes, denied, redisUp, req, uses, login>>
history == <<uses, login>>

-----------------------------------------------------------------------------
\* password counts the passwords the account has had; 0 is no password.
Account == [exists : BOOLEAN, active : BOOLEAN, deleted : BOOLEAN, password : 0..MaxPasswords]
NoAccount == [exists |-> FALSE, active |-> TRUE, deleted |-> FALSE, password |-> 0]

\* Rows are numbered in the order of their creation.
Issued(max) == [last : 0..max, open : SUBSET (1..max)]

SignIn == {"creating", "upgrading", "openingByCode", "spendingCodes", "sendingCode",
           "consumingCode", "rotating", "revoking", "issuing"}
Access == {"askingDenylist", "askingDatabase", "admitted"}
Closing == {"denying", "restoring"}

\* item: the code, the token or the password the handler works with.  History: bars, why
\* the request had to be refused when it began, as far as nothing has lifted it since;
\* blind, whether Redis failed when the denylist was asked.
Request == [pc : {"idle"} \cup SignIn \cup Access \cup Closing, user : User \cup {None},
            item : Nat, blind : BOOLEAN, bars : SUBSET {"closed", "revoked"}]
Idle == [pc |-> "idle", user |-> None, item |-> 0, blind |-> FALSE, bars |-> {}]

TypeOK ==
    /\ account \in [User -> Account]
    /\ tokens \in [User -> Issued(MaxTokens)]
    /\ codes \in [User -> Issued(MaxCodes)]
    /\ \A u \in User : /\ tokens[u].open \subseteq 1..tokens[u].last
                       /\ codes[u].open \subseteq 1..codes[u].last
    /\ denied \subseteq User
    /\ redisUp \in BOOLEAN
    /\ req \in [Slot -> Request]
    /\ \A s \in Slot : req[s].pc # "idle" => req[s].user \in User
    /\ uses \in [User -> [1..MaxCodes -> Nat]]
    /\ login \in [User -> 0..MaxPasswords]

Init ==
    /\ account = [u \in User |-> NoAccount]
    /\ tokens = [u \in User |-> [last |-> 0, open |-> {}]]
    /\ codes = [u \in User |-> [last |-> 0, open |-> {}]]
    /\ denied = {}
    /\ redisUp = TRUE
    /\ req = [s \in Slot |-> Idle]
    /\ uses = [u \in User |-> [c \in 1..MaxCodes |-> 0]]
    /\ login = [u \in User |-> 0]

At(s, pc) == req[s].pc = pc
Begin(s, pc, u, item) ==
    /\ req[s] = Idle
    /\ req' = [req EXCEPT ![s] = [Idle EXCEPT !.pc = pc, !.user = u, !.item = item]]
Goto(s, pc) == req' = [req EXCEPT ![s].pc = pc]
End(s) == req' = [req EXCEPT ![s] = Idle]

\* The conduct of a user who signs in on one device at a time.
MaySignIn(u) == Sequential => \A s \in Slot : ~(req[s].user = u /\ req[s].pc \in SignIn)

\* The account is found by its phone number.
Found(u) == account[u].exists /\ ~account[u].deleted

-----------------------------------------------------------------------------
(* Accounts and one-time codes.                                            *)

\* register: a new account, or a password for one that only ever used codes.
Register(s, u) ==
    /\ MaySignIn(u)
    /\ ~account[u].deleted
    /\ account[u].password = 0
    /\ Begin(s, IF account[u].exists THEN "upgrading" ELSE "creating", u, 0)
    /\ UNCHANGED <<account, tokens, codes, denied, redisUp, history>>

\* The unique phone number refuses the second of two creations; an upgrade writes
\* over whatever password there is by now.
StoreAccount(s) ==
    LET u == req[s].user  password == account[u].password + 1 IN
    /\ req[s].pc \in {"creating", "upgrading"}
    /\ IF At(s, "creating") /\ account[u].exists
       THEN End(s) /\ UNCHANGED account
       ELSE /\ password <= MaxPasswords
            /\ account' = [account EXCEPT ![u] = [@ EXCEPT !.exists = TRUE, !.password = password]]
            /\ req' = [req EXCEPT ![s] = [@ EXCEPT !.pc = "revoking", !.item = password]]
    /\ UNCHANGED <<tokens, codes, denied, redisUp, history>>

\* requestOtp: the first request creates the account ...
RequestOtp(s, u) ==
    /\ MaySignIn(u)
    /\ ~account[u].deleted
    /\ codes[u].last < MaxCodes
    /\ Begin(s, IF account[u].exists THEN "spendingCodes" ELSE "openingByCode", u, 0)
    /\ UNCHANGED <<account, tokens, codes, denied, redisUp, history>>

OpenByCode(s) ==
    LET u == req[s].user IN
    /\ At(s, "openingByCode")
    /\ IF account[u].exists
       THEN End(s) /\ UNCHANGED account
       ELSE account' = [account EXCEPT ![u].exists = TRUE] /\ Goto(s, "spendingCodes")
    /\ UNCHANGED <<tokens, codes, denied, redisUp, history>>

\* ... the codes sent before are spent, and a new one is stored and sent.
SpendCodes(s) ==
    /\ At(s, "spendingCodes")
    /\ codes' = [codes EXCEPT ![req[s].user].open = {}]
    /\ Goto(s, "sendingCode")
    /\ UNCHANGED <<account, tokens, denied, redisUp, history>>

\* Mutant: the row is opened under a number that is not taken.
OpenedUnnumbered(rows) == [rows EXCEPT !.open = @ \cup {rows.last + 1}]
\* A new row, open.
Opened(rows) == [last |-> rows.last + 1, open |-> rows.open \cup {rows.last + 1}]

StoreCode(s) ==
    LET u == req[s].user IN
    /\ At(s, "sendingCode")
    /\ codes[u].last < MaxCodes
    /\ codes' = [codes EXCEPT ![u] = Opened(@)]
    /\ End(s)
    /\ UNCHANGED <<account, tokens, denied, redisUp, history>>

Latest(u, c) == c \in codes[u].open /\ \A e \in codes[u].open : e <= c

\* verifyOtp: the code must be the latest open one.  Suspension is not asked.
VerifyOtp(s, u, c) ==
    /\ MaySignIn(u)
    /\ Found(u)
    /\ Latest(u, c)
    /\ Begin(s, "consumingCode", u, c)
    /\ UNCHANGED <<account, tokens, codes, denied, redisUp, history>>

\* Mutant: the code stays open until it expires.
KeptOpen(s) == codes[req[s].user].open
LeftOpen(s) == codes[req[s].user].open \ {req[s].item}

ConsumeCode(s) ==
    LET u == req[s].user IN
    /\ At(s, "consumingCode")
    /\ codes' = [codes EXCEPT ![u].open = LeftOpen(s)]
    /\ uses' = [uses EXCEPT ![u] = [c \in 1..MaxCodes |-> IF c = req[s].item THEN @[c] + 1 ELSE @[c]]]
    /\ req' = [req EXCEPT ![s] = [@ EXCEPT !.pc = "revoking", !.item = 0]]
    /\ UNCHANGED <<account, tokens, denied, redisUp, login>>

-----------------------------------------------------------------------------
(* Passwords and refresh tokens.                                           *)

\* login: the account and its hash are read, the tokens come later.  item is the
\* password that was checked.
Login(s, u) ==
    /\ MaySignIn(u)
    /\ Found(u) /\ account[u].active /\ account[u].password > 0
    /\ Begin(s, "revoking", u, account[u].password)
    /\ UNCHANGED <<account, tokens, codes, denied, redisUp, history>>

\* refresh: the token is looked up among the open ones ...
Refresh(s, u, r) ==
    /\ MaySignIn(u)
    /\ r \in tokens[u].open
    /\ Begin(s, "rotating", u, r)
    /\ UNCHANGED <<account, tokens, codes, denied, redisUp, history>>

\* ... and revoked later, whether or not it is still open.
RotateToken(s) ==
    LET u == req[s].user IN
    /\ At(s, "rotating")
    /\ tokens' = [tokens EXCEPT ![u].open = @ \ {req[s].item}]
    /\ req' = [req EXCEPT ![s] = [@ EXCEPT !.pc = "revoking", !.item = 0]]
    /\ UNCHANGED <<account, codes, denied, redisUp, history>>

\* Mutant: every sign-in adds a token and revokes none.
KeepTokens(u) == tokens[u].open
OpenAfterRevoke(u) == {}

\* issueTokens: revoke every open token of the user, then store a new one.
RevokeTokens(s) ==
    /\ At(s, "revoking")
    /\ tokens' = [tokens EXCEPT ![req[s].user].open = OpenAfterRevoke(req[s].user)]
    /\ Goto(s, "issuing")
    /\ UNCHANGED <<account, codes, denied, redisUp, history>>

StoreToken(s) ==
    LET u == req[s].user IN
    /\ At(s, "issuing")
    /\ tokens[u].last < MaxTokens
    /\ tokens' = [tokens EXCEPT ![u] = Opened(@)]
    /\ login' = [login EXCEPT ![u] = IF req[s].item > 0 THEN req[s].item ELSE @]
    /\ End(s)
    /\ UNCHANGED <<account, codes, denied, redisUp, uses>>

-----------------------------------------------------------------------------
(* A request with an access token.  On routes that move money or change    *)
(* access SensitiveActionGuard is to refuse while Redis is down, but it is *)
(* a global guard and runs before the controller's JwtAuthGuard: it finds  *)
(* no user on the request and lets it pass.  JwtStrategy.validate is what  *)
(* is left, the same on every route.                                       *)

Bars(u) == {b \in {"closed", "revoked"} : IF b = "closed" THEN ~account[u].active ELSE u \in denied}

\* Anyone who ever signed in holds an access token.
SendRequest(s, u) ==
    /\ tokens[u].last > 0
    /\ req[s] = Idle
    /\ req' = [req EXCEPT ![s] = [Idle EXCEPT !.pc = "askingDenylist", !.user = u, !.bars = Bars(u)]]
    /\ UNCHANGED <<account, tokens, codes, denied, redisUp, history>>

\* isRevoked lets everyone pass while Redis is down.
AskDenylist(s) ==
    /\ At(s, "askingDenylist")
    /\ IF redisUp /\ req[s].user \in denied
       THEN End(s)
       ELSE req' = [req EXCEPT ![s] = [@ EXCEPT !.pc = "askingDatabase", !.blind = ~redisUp]]
    /\ UNCHANGED <<account, tokens, codes, denied, redisUp, history>>

\* Mutant: the database is asked only whether the account still exists.
StillExists(u) == ~account[u].deleted
StillAllowed(u) == account[u].active

AskDatabase(s) ==
    /\ At(s, "askingDatabase")
    /\ IF StillAllowed(req[s].user) THEN Goto(s, "admitted") ELSE End(s)
    /\ UNCHANGED <<account, tokens, codes, denied, redisUp, history>>

Serve(s) ==
    /\ At(s, "admitted")
    /\ End(s)
    /\ UNCHANGED <<account, tokens, codes, denied, redisUp, history>>

-----------------------------------------------------------------------------
(* Closing and reopening accounts.                                         *)

\* Requests of the user that are in flight need not be refused for this any more.
Lift(requests, u, bar) ==
    [s \in Slot |-> IF requests[s].user = u THEN [requests[s] EXCEPT !.bars = @ \ {bar}] ELSE requests[s]]

\* setUserActive(false): the flag, then the denylist.
Suspend(s, u) ==
    /\ account[u].exists
    /\ account' = [account EXCEPT ![u].active = FALSE]
    /\ Begin(s, "denying", u, 0)
    /\ UNCHANGED <<tokens, codes, denied, redisUp, history>>

\* setUserActive(true).
Reactivate(s, u) ==
    /\ account[u].exists
    /\ account' = [account EXCEPT ![u].active = TRUE]
    /\ req[s] = Idle
    /\ req' = Lift([req EXCEPT ![s] = [Idle EXCEPT !.pc = "restoring", !.user = u]], u, "closed")
    /\ UNCHANGED <<tokens, codes, denied, redisUp, history>>

\* resetUserPassword: a temporary password, then the denylist.
ResetUserPassword(s, u) ==
    /\ account[u].exists
    /\ account[u].password < MaxPasswords
    /\ account' = [account EXCEPT ![u].password = @ + 1]
    /\ Begin(s, "denying", u, 0)
    /\ UNCHANGED <<tokens, codes, denied, redisUp, history>>

\* deleteOwnAccount, an admitted request: one transaction, then the denylist.  The
\* phone number is gone, so no sign-in finds the account again.  The code does not ask
\* MaySignIn: a Sequential user does not delete the account in the middle of a sign-in.
DeleteOwnAccount(s) ==
    LET u == req[s].user IN
    /\ At(s, "admitted")
    /\ MaySignIn(u)
    /\ account' = [account EXCEPT ![u] =
                      [@ EXCEPT !.active = FALSE, !.deleted = TRUE, !.password = 0]]
    /\ tokens' = [tokens EXCEPT ![u].open = {}]
    /\ codes' = [codes EXCEPT ![u].open = {}]
    /\ Goto(s, "denying")
    /\ UNCHANGED <<denied, redisUp, history>>

\* revoke and restore log a Redis failure and go on.
Deny(s) ==
    /\ At(s, "denying")
    /\ denied' = IF redisUp THEN denied \cup {req[s].user} ELSE denied
    /\ End(s)
    /\ UNCHANGED <<account, tokens, codes, redisUp, history>>

Restore(s) ==
    LET u == req[s].user  done == [req EXCEPT ![s] = Idle] IN
    /\ At(s, "restoring")
    /\ denied' = IF redisUp THEN denied \ {u} ELSE denied
    /\ req' = IF redisUp THEN Lift(done, u, "revoked") ELSE done
    /\ UNCHANGED <<account, tokens, codes, redisUp, history>>

\* Redis becomes unreachable, or answers again.
RedisFlips ==
    /\ RedisMayFail
    /\ redisUp' = ~redisUp
    /\ UNCHANGED <<account, tokens, codes, denied, req, history>>

-----------------------------------------------------------------------------
SignInStep(s) ==
    \/ StoreAccount(s) \/ OpenByCode(s) \/ SpendCodes(s) \/ StoreCode(s) \/ ConsumeCode(s)
    \/ RotateToken(s) \/ RevokeTokens(s) \/ StoreToken(s)
AccessStep(s) == AskDenylist(s) \/ AskDatabase(s) \/ Serve(s)

Next ==
    \/ \E s \in Slot : SignInStep(s) \/ AccessStep(s) \/ Deny(s) \/ Restore(s) \/ DeleteOwnAccount(s)
    \/ \E s \in Slot, u \in User :
          \/ Register(s, u) \/ RequestOtp(s, u) \/ Login(s, u)
          \/ Suspend(s, u) \/ Reactivate(s, u) \/ ResetUserPassword(s, u) \/ SendRequest(s, u)
    \/ \E s \in Slot, u \in User, c \in 1..MaxCodes : VerifyOtp(s, u, c)
    \/ \E s \in Slot, u \in User, r \in 1..MaxTokens : Refresh(s, u, r)
    \/ RedisFlips

Spec == Init /\ [][Next]_vars

-----------------------------------------------------------------------------
\* A request sent after the account was suspended or deleted gets through nowhere unless
\* ops reactivates the account meanwhile, however often Redis fails: a revocation that
\* was never written, or cannot be read, is made up for by the account's flag.  One sent
\* after a revocation landed gets through only if Redis fails as the denylist is asked.
\* That holds for ordinary and sensitive routes alike.
BarredAreRefused ==
    \A s \in Slot : At(s, "admitted") =>
        "closed" \notin req[s].bars /\ ("revoked" \in req[s].bars => req[s].blind)

\* A user who signs in on one device at a time has at most one refresh token that
\* works ("single-session-per-user", issueTokens), and none once the account is
\* deleted, whatever ops does meanwhile.
OneSession ==
    Sequential => \A u \in User :
        /\ Cardinality(tokens[u].open) <= 1
        /\ account[u].deleted => tokens[u].open = {}

\* For such a user a one-time code opens at most one session, and a newer code
\* leaves no older one open.
CodesWorkOnce ==
    Sequential => \A u \in User :
        /\ \A c \in 1..MaxCodes : uses[u][c] <= 1
        /\ Cardinality(codes[u].open) <= 1
=============================================================================
