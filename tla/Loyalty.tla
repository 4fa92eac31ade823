------------------------------- MODULE Loyalty --------------------------------
(***************************************************************************)
(* LoyaltyService: referral codes minted on demand, and the bonus a        *)
(* referrer gets when requestOtp creates an account with their code.       *)
(* Every await is a step; a step may fail, which ends the request.  The    *)
(* points of completed jobs are in Trips and Jobs ("rewarded").            *)
(***************************************************************************)
EXTENDS People, Integers, FiniteSets

CONSTANTS
    ReferralCode,   \* bound: what generateCode may draw
    MaxAttempts     \* the 5 of ensureReferralCode

ASSUME LoyaltyAssumption ==
    /\ None \notin ReferralCode /\ MaxAttempts \in Nat \ {0}
    /\ IsFiniteSet(User) /\ IsFiniteSet(Call)

VARIABLES
    account,       \* people who have an account
    referralCode,  \* users.referralCode
    referredBy,    \* users.referredById
    bonuses,       \* users.loyaltyPoints, in units of REFERRAL_BONUS_POINTS
    signUp,        \* requestOtp requests
    minting,       \* ensureReferralCode requests
    handedOut,     \* history: the codes each user was told are theirs
    doubled,       \* history: users who were minted for twice at a time
    lostBonus      \* history: referrers whose bonus broke off

loyaltyVars ==
    <<account, referralCode, referredBy, bonuses, signUp, minting, handedOut, doubled, lostBonus>>

Idle == [pc |-> "idle"]
SignUpAt(c, pc, record) == signUp' = [signUp EXCEPT ![c] = [record EXCEPT !.pc = pc]]
SignUpDone(c) == signUp' = [signUp EXCEPT ![c] = Idle]
CodeNames(k) == {u \in User : referralCode[u] = k}

-----------------------------------------------------------------------------
(* Signing up with a referral code.                                        *)

\* Mutant: a code is applied to an account that was there.
AppliedAgain(u, k) == IF u \notin account THEN "create" ELSE "find"
\* isNewUser: a repeated request for a code only sends another code (see Sessions).
AfterLookup(u, k) == IF u \notin account THEN "create" ELSE "done"

\* requestOtp looks the phone up.
RequestOtp(c, u, k) ==
    /\ signUp[c].pc = "idle" /\ minting[c].pc = "idle"
    /\ AfterLookup(u, k) # "done"
    /\ signUp' = [signUp EXCEPT ![c] =
                    [pc |-> AfterLookup(u, k), user |-> u, code |-> k, referrer |-> None]]
    /\ UNCHANGED <<account, referralCode, referredBy, bonuses, minting, handedOut, doubled, lostBonus>>

\* The account is created; phone is unique, so of two requests one fails here.
CreateUser(c) ==
    /\ signUp[c].pc = "create"
    /\ signUp[c].user \notin account
    /\ account' = account \cup {signUp[c].user}
    /\ IF signUp[c].code = None THEN SignUpDone(c) ELSE SignUpAt(c, "find", signUp[c])
    /\ UNCHANGED <<referralCode, referredBy, bonuses, minting, handedOut, doubled, lostBonus>>

\* applyReferral: who has the code; nobody, or the user themselves, ends it.
FindReferrer(c) ==
    /\ signUp[c].pc = "find"
    /\ LET found == CodeNames(signUp[c].code) \ {signUp[c].user}
       IN  IF found = {} THEN SignUpDone(c)
           ELSE \E r \in found : SignUpAt(c, "link", [signUp[c] EXCEPT !.referrer = r])
    /\ UNCHANGED <<account, referralCode, referredBy, bonuses, minting, handedOut, doubled, lostBonus>>

LinkReferral(c) ==
    /\ signUp[c].pc = "link"
    /\ referredBy' = [referredBy EXCEPT ![signUp[c].user] = signUp[c].referrer]
    /\ SignUpAt(c, "award", signUp[c])
    /\ UNCHANGED <<account, referralCode, bonuses, minting, handedOut, doubled, lostBonus>>

AwardReferral(c) ==
    /\ signUp[c].pc = "award"
    /\ bonuses' = [bonuses EXCEPT ![signUp[c].referrer] = @ + 1]
    /\ SignUpDone(c)
    /\ UNCHANGED <<account, referralCode, referredBy, minting, handedOut, doubled, lostBonus>>

\* One of its steps fails, or the phone was taken meanwhile.
SignUpFails(c) ==
    /\ signUp[c].pc # "idle"
    /\ lostBonus' = IF signUp[c].pc = "award"
                    THEN [lostBonus EXCEPT ![signUp[c].referrer] = @ + 1] ELSE lostBonus
    /\ SignUpDone(c)
    /\ UNCHANGED <<account, referralCode, referredBy, bonuses, minting, handedOut, doubled>>

-----------------------------------------------------------------------------
(* Referral codes.                                                         *)

Minting(u) == {c \in Call : minting[c].pc = "mint" /\ minting[c].user = u}

\* Mutant: a new code at every request.
AlwaysMint(u) == TRUE
\* if (user.referralCode) return user.referralCode
MustMint(u) == referralCode[u] = None

\* getLoyalty or another caller asks, and the code is there.
ReferralCodeIsThere(u) ==
    /\ u \in account /\ ~MustMint(u)
    /\ handedOut' = [handedOut EXCEPT ![u] = @ \cup {referralCode[u]}]
    /\ UNCHANGED <<account, referralCode, referredBy, bonuses, signUp, minting, doubled, lostBonus>>

EnsureReferralCode(c, u) ==
    /\ minting[c].pc = "idle" /\ signUp[c].pc = "idle"
    /\ u \in account /\ MustMint(u)
    /\ minting' = [minting EXCEPT ![c] = [pc |-> "mint", user |-> u, attempt |-> 0]]
    /\ doubled' = IF Minting(u) = {} THEN doubled ELSE doubled \cup {u}
    /\ UNCHANGED <<account, referralCode, referredBy, bonuses, signUp, handedOut, lostBonus>>

\* One attempt: the column is unique, and a code of one's own is replaced.
WriteCode(c, k) ==
    /\ minting[c].pc = "mint"
    /\ CodeNames(k) \subseteq {minting[c].user}
    /\ referralCode' = [referralCode EXCEPT ![minting[c].user] = k]
    /\ handedOut' = [handedOut EXCEPT ![minting[c].user] = @ \cup {k}]
    /\ minting' = [minting EXCEPT ![c] = Idle]
    /\ UNCHANGED <<account, referredBy, bonuses, signUp, doubled, lostBonus>>

\* P2002: another attempt, or after the last one an error.
CodeCollides(c, k) ==
    /\ minting[c].pc = "mint"
    /\ CodeNames(k) \ {minting[c].user} # {}
    /\ minting' = [minting EXCEPT ![c] =
                     IF minting[c].attempt + 1 < MaxAttempts
                     THEN [minting[c] EXCEPT !.attempt = @ + 1] ELSE Idle]
    /\ UNCHANGED <<account, referralCode, referredBy, bonuses, signUp, handedOut, doubled, lostBonus>>

LoyaltyInit ==
    /\ account = {}
    /\ referralCode = [u \in User |-> None]
    /\ referredBy = [u \in User |-> None]
    /\ bonuses = [u \in User |-> 0]
    /\ signUp = [c \in Call |-> Idle]
    /\ minting = [c \in Call |-> Idle]
    /\ handedOut = [u \in User |-> {}]
    /\ doubled = {}
    /\ lostBonus = [u \in User |-> 0]

LoyaltyNext ==
    \/ \E c \in Call, u \in User, k \in ReferralCode \cup {None} : RequestOtp(c, u, k)
    \/ \E c \in Call : \/ CreateUser(c) \/ FindReferrer(c) \/ LinkReferral(c)
                       \/ AwardReferral(c) \/ SignUpFails(c)
    \/ \E u \in User : ReferralCodeIsThere(u)
    \/ \E c \in Call, u \in User : EnsureReferralCode(c, u)
    \/ \E c \in Call, k \in ReferralCode : WriteCode(c, k) \/ CodeCollides(c, k)

LoyaltySpec == LoyaltyInit /\ [][LoyaltyNext]_loyaltyVars

Awarding(u) == {c \in Call : signUp[c].pc = "award" /\ signUp[c].referrer = u}

\* "A referral can't be claimed twice", and is paid: a user has one bonus for every
\* account that names them as its referrer, except those being awarded and those
\* whose award broke off, however many requests for a code the new user sent.
BonusesMatchReferrals ==
    \A u \in User :
        Cardinality({v \in User : referredBy[v] = u}) =
            bonuses[u] + Cardinality(Awarding(u)) + lostBonus[u]

\* A code a user was told is theirs goes on naming them, unless two requests minted
\* for them at the same time (then the second code replaces the first).
CodesKeepWorking ==
    \A u \in User \ doubled : handedOut[u] \subseteq {referralCode[u]}
=============================================================================
