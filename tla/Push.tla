-------------------------------- MODULE Push ----------------------------------
(***************************************************************************)
(* PushService and NotificationsService.notify: the row in the inbox, the  *)
(* devices of the addressee, one send per device, and the OAuth token for  *)
(* FCM, cached by the process with a margin.  FCM, Google's token endpoint *)
(* and the phones are external.  A network leg takes at most MaxLeg units  *)
(* of time; the database is immediate.                                     *)
(***************************************************************************)
EXTENDS People, Integers, FiniteSets

CONSTANTS
    Device,    \* FCM registration tokens, one per phone
    Lifetime,  \* expires_in of an access token (60 minutes)
    Margin,    \* the 300 seconds taken off it
    MaxLeg,    \* how long a request or a response may be under way
    MaxTime,   \* bound: the clock
    PhoneUser  \* bound: who uses the phones

ASSUME PushAssumption ==
    /\ Lifetime \in Nat /\ Margin \in Nat /\ MaxLeg \in Nat /\ MaxTime \in Nat
    /\ 2 * MaxLeg <= Margin /\ Margin < Lifetime
    /\ PhoneUser \subseteq User

VARIABLES
    now,        \* the time
    holder,     \* who is signed in on each phone, or None
    registry,   \* device_tokens: rows <<device, user>>, device is unique
    entering,   \* registerDevice requests under way, <<device, user>>
    leaving,    \* phones with an unregisterDevice request under way
    bearer,     \* accessToken: when it was issued, and expiresAt (0 for none)
    send,       \* sends under way, one per call
    \* History, read only by properties
    known       \* phones of which the server knows who holds them: the last request to
                \* arrive was their holder's registration, or took the row away

requests == <<entering, leaving>>
pushVars == <<now, holder, registry, requests, bearer, send, known>>

\* moved (history): the phone had changed hands and the server did not know, or has
\* changed hands since the devices were read.
NoSend == [pc |-> "idle", to |-> None, device |-> None, moved |-> FALSE, since |-> 0, issued |-> 0]
NoBearer == [issued |-> 0, expiresAt |-> 0]
SendAt(c, pc) == send' = [send EXCEPT ![c].pc = pc, ![c].since = now]
Rows(device) == {r \in registry : r[1] = device}

-----------------------------------------------------------------------------
(* The registry.                                                           *)

\* Mutant: one row per user and device.
SecondRow(device, u) == registry \cup {<<device, u>>}
\* registerDevice: an upsert on the token moves the row to the new owner.
Upsert(device, u) == (registry \ Rows(device)) \cup {<<device, u>>}

\* Signing in on a phone does not register it ...
SignIn(device, u) ==
    /\ holder[device] = None
    /\ holder' = [holder EXCEPT ![device] = u]
    /\ send' = [c \in Call |->
                  IF send[c].pc # "idle" /\ send[c].device = device
                  THEN [send[c] EXCEPT !.moved = TRUE] ELSE send[c]]
    /\ UNCHANGED <<now, registry, requests, bearer, known>>

\* ... the app asks for that at every start; the request may be late, and one that never
\* arrives is lost.
AppStarts(device) ==
    /\ holder[device] # None
    /\ entering' = entering \cup {<<device, holder[device]>>}
    /\ UNCHANGED <<now, holder, registry, leaving, bearer, send, known>>

RegisterDevice(device, u) ==
    /\ <<device, u>> \in entering
    /\ registry' = Upsert(device, u)
    /\ entering' = entering \ {<<device, u>>}
    /\ known' = IF holder[device] = u THEN known \cup {device} ELSE known \ {device}
    /\ UNCHANGED <<now, holder, leaving, bearer, send>>

\* Signing out calls unregisterDevice, which may be late, or never arrive.
SignOut(device, asks) ==
    /\ holder[device] # None
    /\ holder' = [holder EXCEPT ![device] = None]
    /\ leaving' = IF asks THEN leaving \cup {device} ELSE leaving
    /\ known' = known \ {device}
    /\ UNCHANGED <<now, registry, entering, bearer, send>>

\* It deletes the row of the token, whoever has it by then.
UnregisterDevice(device) ==
    /\ device \in leaving
    /\ registry' = registry \ Rows(device)
    /\ leaving' = leaving \ {device}
    /\ known' = known \cup {device}
    /\ UNCHANGED <<now, holder, entering, bearer, send>>

-----------------------------------------------------------------------------
(* Sending.                                                                *)

\* notify has written its row; sendToUser reads the devices, and each call sends to
\* one of them.
SendToUser(c, u, device) ==
    /\ send[c].pc = "idle"
    /\ <<device, u>> \in registry
    /\ send' = [send EXCEPT ![c] = [pc |-> "token", to |-> u, device |-> device,
                                    moved |-> device \notin known, since |-> 0, issued |-> 0]]
    /\ UNCHANGED <<now, holder, registry, requests, bearer, known>>

Cached == now < bearer.expiresAt

\* getAccessToken: the cached one,
UseCached(c) ==
    /\ send[c].pc = "token" /\ Cached
    /\ send' = [send EXCEPT ![c].pc = "sending", ![c].since = now, ![c].issued = bearer.issued]
    /\ UNCHANGED <<now, holder, registry, requests, bearer, known>>

\* or an exchange; every send that finds nothing in the cache asks for itself,
AskForToken(c) ==
    /\ send[c].pc = "token" /\ ~Cached
    /\ SendAt(c, "asking")
    /\ UNCHANGED <<now, holder, registry, requests, bearer, known>>

\* Google issues one (external),
TokenIsIssued(c) ==
    /\ send[c].pc = "asking"
    /\ send' = [send EXCEPT ![c].pc = "issued", ![c].since = now, ![c].issued = now]
    /\ UNCHANGED <<now, holder, registry, requests, bearer, known>>

\* Mutant: cached for as long as it is good.
ToTheEnd(t) == t + Lifetime
\* Date.now() + (expires_in - 300) * 1000, when the answer is there.
CachedUntil(t) == t + Lifetime - Margin

\* and the answer is cached, even over a later one.
TokenArrives(c) ==
    /\ send[c].pc = "issued"
    /\ bearer' = [issued |-> send[c].issued, expiresAt |-> CachedUntil(now)]
    /\ SendAt(c, "sending")
    /\ UNCHANGED <<now, holder, registry, requests, known>>

\* FCM calls the token dead (404, UNREGISTERED, INVALID_ARGUMENT),
FcmSaysDead(c) ==
    /\ send[c].pc = "sending"
    /\ send' = [send EXCEPT ![c].pc = "dead", ![c].since = 0, ![c].issued = 0]
    /\ UNCHANGED <<now, holder, registry, requests, bearer, known>>

\* and the row is deleted, whoever has it by then.
PruneToken(c) ==
    /\ send[c].pc = "dead"
    /\ registry' = registry \ Rows(send[c].device)
    /\ send' = [send EXCEPT ![c] = NoSend]
    /\ UNCHANGED <<now, holder, requests, bearer, known>>

\* FCM takes the message; or FCM, Google or the key fails, which is logged.
SendEnds(c) ==
    /\ send[c].pc \in {"asking", "issued", "sending"}
    /\ send' = [send EXCEPT ![c] = NoSend]
    /\ UNCHANGED <<now, holder, registry, requests, bearer, known>>

Tick ==
    /\ now < MaxTime
    /\ \A c \in Call : send[c].pc \in {"asking", "issued", "sending"} => now < send[c].since + MaxLeg
    /\ now' = now + 1
    /\ UNCHANGED <<holder, registry, requests, bearer, send, known>>

PushInit ==
    /\ now = 0
    /\ holder = [device \in Device |-> None]
    /\ registry = {} /\ entering = {} /\ leaving = {}
    /\ bearer = NoBearer
    /\ send = [c \in Call |-> NoSend]
    /\ known = Device

PushNext ==
    \/ \E device \in Device, u \in PhoneUser : SignIn(device, u) \/ RegisterDevice(device, u)
    \/ \E device \in Device, asks \in BOOLEAN : SignOut(device, asks)
    \/ \E device \in Device : AppStarts(device) \/ UnregisterDevice(device)
    \/ \E c \in Call, u \in PhoneUser, device \in Device : SendToUser(c, u, device)
    \/ \E c \in Call : \/ UseCached(c) \/ AskForToken(c) \/ TokenIsIssued(c) \/ TokenArrives(c)
                       \/ FcmSaysDead(c) \/ PruneToken(c) \/ SendEnds(c)
    \/ Tick

PushSpec == PushInit /\ [][PushNext]_pushVars

\* "So a token does not expire mid-flight on a slow request": whatever FCM gets before
\* a send has taken MaxLeg carries a token Google still honours, also when several
\* sends renewed it at once and an older answer came last.
BearerIsLive ==
    \A c \in Call : send[c].pc = "sending" => now < send[c].issued + Lifetime

\* "A shared phone changing hands must move the token to the new owner": while a push
\* is under way to a phone, the phone is its addressee's, or nobody's, or it changed
\* hands after the devices were read or without the server's knowledge.  The server
\* knows as soon as either the sign-out of the last holder or the registration of the new
\* one has arrived, and no later request has undone it; until then "the next person to
\* use this phone receives the previous user's notifications" (unregisterDevice).
PushesFollowThePhone ==
    \A c \in Call :
        send[c].pc # "idle" =>
            holder[send[c].device] \in {send[c].to, None} \/ send[c].moved
=============================================================================
