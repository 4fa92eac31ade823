----------------------------- MODULE PartsProofs ------------------------------
(***************************************************************************)
(* Proofs about Push, Chat, Onboarding and Restaurants, each by itself.    *)
(***************************************************************************)
EXTENDS Push, Chat, Onboarding, Restaurants, FiniteSetTheorems, TLAPS

-----------------------------------------------------------------------------
(* Push: tokens, phones and the bearer token of FCM.                       *)

(* Type correctness.                                                       *)

SendPC == {"idle", "token", "asking", "issued", "sending", "dead"}
SendState == [pc : SendPC, to : User \cup {None}, device : Device \cup {None}, moved : BOOLEAN,
              since : Nat, issued : Nat]

PushTypeOK ==
    /\ now \in Nat
    /\ holder \in [Device -> User \cup {None}]
    /\ registry \subseteq Device \X User
    /\ entering \subseteq Device \X User
    /\ known \subseteq Device
    /\ bearer \in [issued : Nat, expiresAt : Nat]
    /\ send \in [Call -> SendState]

LEMMA NoSendType == NoSend \in SendState
  BY DEF NoSend, SendState, SendPC

LEMMA CacheTimes ==
  ASSUME NEW t \in Nat
  PROVE  CachedUntil(t) \in Nat /\ CachedUntil(t) = t + Lifetime - Margin
  BY PushAssumption DEF CachedUntil

LEMMA PushInitType == PushInit => PushTypeOK
  BY NoSendType DEF PushInit, PushTypeOK, NoBearer

LEMMA PushStepType ==
  ASSUME PushTypeOK, [PushNext]_pushVars
  PROVE  PushTypeOK'
<1> USE DEF PushTypeOK, requests
<1>0. /\ \A c \in Call : send[c] \in SendState
      /\ \A c \in Call, s \in SendState : [send EXCEPT ![c] = s] \in [Call -> SendState]
  OBVIOUS
<1>1. ASSUME NEW device \in Device, NEW u \in User, SignIn(device, u)
      PROVE  PushTypeOK'
  <2>1. \A c \in Call : [send[c] EXCEPT !.moved = TRUE] \in SendState
    BY <1>0 DEF SendState
  <2>2. send' \in [Call -> SendState]
    BY <1>1, <1>0, <2>1 DEF SignIn
  <2> QED  BY <1>1, <2>2 DEF SignIn
<1>2. ASSUME NEW device \in Device, NEW u \in User, RegisterDevice(device, u)
      PROVE  PushTypeOK'
  <2>1. registry' \subseteq Device \X User
    BY <1>2 DEF RegisterDevice, Upsert, Rows
  <2> QED  BY <1>2, <2>1 DEF RegisterDevice
<1>3. ASSUME NEW device \in Device,
             \/ AppStarts(device) \/ UnregisterDevice(device)
             \/ \E asks \in BOOLEAN : SignOut(device, asks)
      PROVE  PushTypeOK'
  <2>1. CASE AppStarts(device)
    BY <2>1 DEF AppStarts
  <2>2. CASE UnregisterDevice(device)
    BY <2>2 DEF UnregisterDevice, Rows
  <2>3. CASE \E asks \in BOOLEAN : SignOut(device, asks)
    BY <2>3 DEF SignOut
  <2> QED  BY <1>3, <2>1, <2>2, <2>3
<1>4. ASSUME NEW c \in Call, NEW u \in User, NEW device \in Device, SendToUser(c, u, device)
      PROVE  PushTypeOK'
  <2>1. [pc |-> "token", to |-> u, device |-> device, moved |-> device \notin known,
         since |-> 0, issued |-> 0] \in SendState
    BY DEF SendState, SendPC
  <2> QED  BY <1>0, <1>4, <2>1 DEF SendToUser
<1>5. ASSUME NEW c \in Call,
             UseCached(c) \/ AskForToken(c) \/ TokenIsIssued(c) \/ TokenArrives(c)
               \/ FcmSaysDead(c) \/ PruneToken(c) \/ SendEnds(c)
      PROVE  PushTypeOK'
  <2>1. \A pc \in SendPC, since \in Nat : [send[c] EXCEPT !.pc = pc, !.since = since] \in SendState
    BY <1>0 DEF SendState
  <2>2. \A pc \in SendPC, since \in Nat, issued \in Nat :
           [send[c] EXCEPT !.pc = pc, !.since = since, !.issued = issued] \in SendState
    BY <1>0 DEF SendState
  <2>3. CASE UseCached(c)
    BY <1>0, <2>2, <2>3 DEF UseCached, SendPC
  <2>4. CASE AskForToken(c)
    BY <1>0, <2>1, <2>4 DEF AskForToken, SendAt, SendPC
  <2>5. CASE TokenIsIssued(c)
    BY <1>0, <2>2, <2>5 DEF TokenIsIssued, SendPC
  <2>6. CASE TokenArrives(c)
    <3>1. bearer' \in [issued : Nat, expiresAt : Nat]
      <4>1. send[c].issued \in Nat /\ CachedUntil(now) \in Nat
        BY <1>0, CacheTimes DEF SendState
      <4> QED  BY <2>6, <4>1 DEF TokenArrives
    <3> QED  BY <1>0, <2>1, <2>6, <3>1 DEF TokenArrives, SendAt, SendPC
  <2>7. CASE FcmSaysDead(c)
    BY <1>0, <2>2, <2>7 DEF FcmSaysDead, SendPC
  <2>8. CASE PruneToken(c)
    BY <1>0, NoSendType, <2>8 DEF PruneToken, Rows
  <2>9. CASE SendEnds(c)
    BY <1>0, NoSendType, <2>9 DEF SendEnds
  <2> QED  BY <1>5, <2>3, <2>4, <2>5, <2>6, <2>7, <2>8, <2>9
<1>6. CASE Tick
  BY <1>6 DEF Tick
<1>7. CASE UNCHANGED pushVars
  BY <1>7 DEF pushVars
<1> QED  BY <1>1, <1>2, <1>3, <1>4, <1>5, <1>6, <1>7, PushAssumption DEF PushNext

-----------------------------------------------------------------------------
(* The token in the cache.                                                 *)

\* How late each step of a send may be, counted from when its token was issued.
Punctual(c) ==
    /\ send[c].pc \in {"asking", "issued", "sending"} =>
          send[c].since <= now /\ now <= send[c].since + MaxLeg
    /\ send[c].pc = "issued" => send[c].issued = send[c].since
    /\ send[c].pc = "sending" => send[c].since < send[c].issued + MaxLeg + Lifetime - Margin

TokensAreFresh ==
    /\ \A c \in Call : Punctual(c)
    /\ bearer.expiresAt <= bearer.issued + MaxLeg + Lifetime - Margin

LEMMA FreshIsLive ==
  ASSUME PushTypeOK, TokensAreFresh
  PROVE  BearerIsLive
<1> SUFFICES ASSUME NEW c \in Call, send[c].pc = "sending"
             PROVE  now < send[c].issued + Lifetime
  BY DEF BearerIsLive
<1>1. now \in Nat /\ send[c].since \in Nat /\ send[c].issued \in Nat
  BY DEF PushTypeOK, SendState
<1>2. /\ now <= send[c].since + MaxLeg
      /\ send[c].since < send[c].issued + MaxLeg + Lifetime - Margin
  BY DEF TokensAreFresh, Punctual
<1> QED  BY <1>1, <1>2, PushAssumption

LEMMA FreshInit == PushInit => TokensAreFresh
  BY PushAssumption DEF PushInit, TokensAreFresh, Punctual, NoSend, NoBearer

\* A step of one send leaves the others as punctual as they were.
LEMMA OthersStayPunctual ==
  ASSUME NEW b \in Call, Punctual(b), send'[b] = send[b], now' = now
  PROVE  Punctual(b)'
  BY DEF Punctual

LEMMA FreshStep ==
  ASSUME PushTypeOK, TokensAreFresh, [PushNext]_pushVars
  PROVE  TokensAreFresh'
<1>0. /\ now \in Nat /\ bearer.issued \in Nat /\ bearer.expiresAt \in Nat
      /\ \A c \in Call : send[c].since \in Nat /\ send[c].issued \in Nat
  BY DEF PushTypeOK, SendState
<1>1. ASSUME NEW device \in Device, NEW u \in User, SignIn(device, u)
      PROVE  TokensAreFresh'
  <2>1. \A c \in Call : /\ send'[c].pc = send[c].pc /\ send'[c].since = send[c].since
                        /\ send'[c].issued = send[c].issued
    <3> SUFFICES ASSUME NEW c \in Call
                 PROVE  /\ send'[c].pc = send[c].pc /\ send'[c].since = send[c].since
                        /\ send'[c].issued = send[c].issued
      OBVIOUS
    <3>1. send'[c] = send[c] \/ send'[c] = [send[c] EXCEPT !.moved = TRUE]
      BY <1>1 DEF SignIn
    <3> QED  BY <3>1 DEF PushTypeOK, SendState
  <2>2. UNCHANGED <<now, bearer>>
    BY <1>1 DEF SignIn
  <2> QED  BY <2>1, <2>2 DEF TokensAreFresh, Punctual
<1>2. ASSUME NEW c \in Call, send' = [send EXCEPT ![c] = send'[c]],
             now' = now, Punctual(c)', bearer'.expiresAt <= bearer'.issued + MaxLeg + Lifetime - Margin
      PROVE  TokensAreFresh'
  <2>1. ASSUME NEW b \in Call PROVE Punctual(b)'
    <3>1. CASE b = c
      BY <1>2, <3>1
    <3>2. CASE b # c
      <4>1. send'[b] = send[b]
        BY <1>2, <3>2 DEF PushTypeOK
      <4> QED  BY <1>2, <4>1, OthersStayPunctual DEF TokensAreFresh
    <3> QED  BY <3>1, <3>2
  <2> QED  BY <1>2, <2>1 DEF TokensAreFresh
<1>3. ASSUME NEW c \in Call, NEW u \in User, NEW device \in Device, SendToUser(c, u, device)
      PROVE  TokensAreFresh'
  <2>1. send'[c].pc = "token"
    BY <1>3 DEF SendToUser, PushTypeOK
  <2>2. Punctual(c)'
    BY <2>1 DEF Punctual
  <2>3. send' = [send EXCEPT ![c] = send'[c]] /\ UNCHANGED <<now, bearer>>
    BY <1>3 DEF SendToUser, PushTypeOK
  <2> QED  BY <1>2, <2>2, <2>3 DEF TokensAreFresh
<1>4. ASSUME NEW c \in Call, UseCached(c)
      PROVE  TokensAreFresh'
  <2>1. send'[c] = [send[c] EXCEPT !.pc = "sending", !.since = now, !.issued = bearer.issued]
    BY <1>4 DEF UseCached, PushTypeOK
  <2>2. send'[c].pc = "sending" /\ send'[c].since = now /\ send'[c].issued = bearer.issued
    BY <2>1 DEF PushTypeOK, SendState
  <2>3. send' = [send EXCEPT ![c] = send'[c]] /\ UNCHANGED <<now, bearer>>
    BY <1>4, <2>1 DEF UseCached, PushTypeOK
  <2>4. now < bearer.issued + MaxLeg + Lifetime - Margin
    BY <1>0, <1>4, PushAssumption DEF UseCached, Cached, TokensAreFresh
  <2>5. Punctual(c)'
    BY <1>0, <2>2, <2>3, <2>4, PushAssumption DEF Punctual
  <2> QED  BY <1>2, <2>3, <2>5 DEF TokensAreFresh
<1>5. ASSUME NEW c \in Call, AskForToken(c)
      PROVE  TokensAreFresh'
  <2>1. send'[c].pc = "asking" /\ send'[c].since = now
    BY <1>5 DEF AskForToken, SendAt, PushTypeOK, SendState
  <2>2. send' = [send EXCEPT ![c] = send'[c]] /\ UNCHANGED <<now, bearer>>
    BY <1>5 DEF AskForToken, SendAt, PushTypeOK
  <2>3. Punctual(c)'
    BY <1>0, <2>1, <2>2, PushAssumption DEF Punctual
  <2> QED  BY <1>2, <2>2, <2>3 DEF TokensAreFresh
<1>6. ASSUME NEW c \in Call, TokenIsIssued(c)
      PROVE  TokensAreFresh'
  <2>1. send'[c].pc = "issued" /\ send'[c].since = now /\ send'[c].issued = now
    BY <1>6 DEF TokenIsIssued, PushTypeOK, SendState
  <2>2. send' = [send EXCEPT ![c] = send'[c]] /\ UNCHANGED <<now, bearer>>
    BY <1>6 DEF TokenIsIssued, PushTypeOK
  <2>3. Punctual(c)'
    BY <1>0, <2>1, <2>2, PushAssumption DEF Punctual
  <2> QED  BY <1>2, <2>2, <2>3 DEF TokensAreFresh
<1>7. ASSUME NEW c \in Call, TokenArrives(c)
      PROVE  TokensAreFresh'
  <2>1. send'[c].pc = "sending" /\ send'[c].since = now /\ send'[c].issued = send[c].issued
    BY <1>7 DEF TokenArrives, SendAt, PushTypeOK, SendState
  <2>2. send' = [send EXCEPT ![c] = send'[c]] /\ now' = now
    BY <1>7 DEF TokenArrives, SendAt, PushTypeOK
  <2>3. bearer'.issued = send[c].issued /\ bearer'.expiresAt = now + Lifetime - Margin
    BY <1>0, <1>7, CacheTimes DEF TokenArrives
  <2>4. now <= send[c].issued + MaxLeg
    BY <1>7 DEF TokenArrives, TokensAreFresh, Punctual
  <2>5. now < send[c].issued + MaxLeg + Lifetime - Margin
    BY <1>0, <2>4, PushAssumption
  <2>6. Punctual(c)'
    BY <1>0, <2>1, <2>2, <2>5, PushAssumption DEF Punctual
  <2>7. bearer'.expiresAt <= bearer'.issued + MaxLeg + Lifetime - Margin
    BY <1>0, <2>3, <2>4, PushAssumption
  <2> QED  BY <1>2, <2>2, <2>6, <2>7
<1>8. ASSUME NEW c \in Call, FcmSaysDead(c) \/ PruneToken(c) \/ SendEnds(c)
      PROVE  TokensAreFresh'
  <2>1. send'[c].pc \in {"idle", "dead"}
    BY <1>8 DEF FcmSaysDead, PruneToken, SendEnds, NoSend, PushTypeOK, SendState
  <2>2. Punctual(c)'
    BY <2>1 DEF Punctual
  <2>3. send' = [send EXCEPT ![c] = send'[c]] /\ UNCHANGED <<now, bearer>>
    BY <1>8 DEF FcmSaysDead, PruneToken, SendEnds, PushTypeOK
  <2> QED  BY <1>2, <2>2, <2>3 DEF TokensAreFresh
<1>9. CASE Tick
  <2>1. \A c \in Call : send[c].pc \in {"asking", "issued", "sending"} =>
                           send[c].since <= now' /\ now' <= send[c].since + MaxLeg
    BY <1>0, <1>9, PushAssumption DEF Tick, TokensAreFresh, Punctual
  <2> QED  BY <1>9, <2>1 DEF Tick, TokensAreFresh, Punctual
<1>10. ASSUME UNCHANGED <<now, bearer, send>>
       PROVE  TokensAreFresh'
  BY <1>10 DEF TokensAreFresh, Punctual
<1>11. ASSUME NEW device \in Device,
              \/ AppStarts(device) \/ UnregisterDevice(device)
              \/ \E u \in User : RegisterDevice(device, u)
              \/ \E asks \in BOOLEAN : SignOut(device, asks)
       PROVE  TokensAreFresh'
  <2>1. UNCHANGED <<now, bearer, send>>
    BY <1>11 DEF AppStarts, UnregisterDevice, RegisterDevice, SignOut
  <2> QED  BY <1>10, <2>1
<1>12. CASE UNCHANGED pushVars
  BY <1>10, <1>12 DEF pushVars
<1> QED
  BY <1>1, <1>3, <1>4, <1>5, <1>6, <1>7, <1>8, <1>9, <1>11, <1>12, PushAssumption DEF PushNext

-----------------------------------------------------------------------------
(* The owner of a phone.                                                   *)

\* Nobody but its holder is registered for a phone the server knows about.
RegistryFollowsThePhone ==
    \A device \in known, u \in User : <<device, u>> \in registry => holder[device] = u

PhoneInv == RegistryFollowsThePhone /\ PushesFollowThePhone

LEMMA PhoneStep ==
  ASSUME PushTypeOK, PhoneInv, [PushNext]_pushVars
  PROVE  PhoneInv'
<1> USE DEF PhoneInv, RegistryFollowsThePhone, PushesFollowThePhone, PushTypeOK
<1>1. ASSUME NEW device \in Device, NEW u \in User, SignIn(device, u)
      PROVE  PhoneInv'
  <2>1. RegistryFollowsThePhone'
    BY <1>1, PeopleAssumption DEF SignIn
  <2>2. ASSUME NEW c \in Call, send'[c].pc # "idle"
        PROVE  holder'[send'[c].device] \in {send'[c].to, None} \/ send'[c].moved
    <3>1. CASE send[c].pc # "idle" /\ send[c].device = device
      BY <1>1, <3>1 DEF SignIn, SendState
    <3>2. CASE ~(send[c].pc # "idle" /\ send[c].device = device)
      <4>1. send'[c] = send[c]
        BY <1>1, <3>2 DEF SignIn
      <4>2. holder'[send[c].device] = holder[send[c].device]
        BY <1>1, <2>2, <3>2, <4>1 DEF SignIn
      <4> QED  BY <2>2, <4>1, <4>2
    <3> QED  BY <3>1, <3>2
  <2> QED  BY <2>1, <2>2
<1>2. ASSUME NEW device \in Device, NEW u \in User, RegisterDevice(device, u)
      PROVE  PhoneInv'
  BY <1>2 DEF RegisterDevice, Upsert, Rows
<1>3. ASSUME NEW device \in Device,
             \/ AppStarts(device) \/ UnregisterDevice(device)
             \/ \E asks \in BOOLEAN : SignOut(device, asks)
      PROVE  PhoneInv'
  <2>1. CASE AppStarts(device)
    BY <2>1 DEF AppStarts
  <2>2. CASE UnregisterDevice(device)
    BY <2>2 DEF UnregisterDevice, Rows
  <2>3. CASE \E asks \in BOOLEAN : SignOut(device, asks)
    BY <2>3 DEF SignOut
  <2> QED  BY <1>3, <2>1, <2>2, <2>3
<1>4. ASSUME NEW c \in Call, NEW u \in User, NEW device \in Device, SendToUser(c, u, device)
      PROVE  PhoneInv'
  <2>1. \A b \in Call : b # c => send'[b] = send[b]
    BY <1>4 DEF SendToUser
  <2>2. send'[c].to = u /\ send'[c].device = device
    BY <1>4 DEF SendToUser
  <2>3. /\ UNCHANGED <<holder, registry, known>>
        /\ holder[device] \in {u, None} \/ send'[c].moved
    BY <1>4 DEF SendToUser
  <2> QED  BY <2>1, <2>2, <2>3
<1>5. ASSUME NEW c \in Call,
             UseCached(c) \/ AskForToken(c) \/ TokenIsIssued(c) \/ TokenArrives(c)
               \/ FcmSaysDead(c) \/ PruneToken(c) \/ SendEnds(c)
      PROVE  PhoneInv'
  <2>1. \A b \in Call : b # c => send'[b] = send[b]
    BY <1>5 DEF UseCached, AskForToken, TokenIsIssued, TokenArrives, FcmSaysDead, PruneToken,
                SendEnds, SendAt
  <2>2. \/ send'[c].pc = "idle"
        \/ /\ send[c].pc # "idle"
           /\ send'[c].to = send[c].to /\ send'[c].device = send[c].device
           /\ send'[c].moved = send[c].moved
    BY <1>5 DEF UseCached, AskForToken, TokenIsIssued, TokenArrives, FcmSaysDead, PruneToken,
                SendEnds, SendAt, NoSend, SendState
  <2>3. holder' = holder /\ registry' \subseteq registry /\ known' = known
    BY <1>5 DEF UseCached, AskForToken, TokenIsIssued, TokenArrives, FcmSaysDead, PruneToken,
                SendEnds
  <2> QED  BY <2>1, <2>2, <2>3
<1>6. CASE Tick
  BY <1>6 DEF Tick
<1>7. CASE UNCHANGED pushVars
  BY <1>7 DEF pushVars
<1> QED  BY <1>1, <1>2, <1>3, <1>4, <1>5, <1>6, <1>7, PushAssumption DEF PushNext

-----------------------------------------------------------------------------
PushInv == PushTypeOK /\ TokensAreFresh /\ PhoneInv

LEMMA PushInvariant == PushSpec => []PushInv
<1>1. PushInit => PushInv
  BY PushInitType, FreshInit
     DEF PushInv, PhoneInv, PushInit, RegistryFollowsThePhone, PushesFollowThePhone, NoSend
<1>2. PushInv /\ [PushNext]_pushVars => PushInv'
  BY PushStepType, FreshStep, PhoneStep DEF PushInv
<1> QED  BY <1>1, <1>2, PTL DEF PushSpec

\* No message goes out with a token Google stopped honouring (getAccessToken's margin),
\* for any durations of which the margin covers two legs.
THEOREM BearersStayLive == PushSpec => []BearerIsLive
  BY PushInvariant, FreshIsLive, PTL DEF PushInv

\* A push under way is bound for its addressee's phone, or for one that has changed hands
\* since, or before a sign-out or the new owner's registerDevice could tell the server:
\* whichever of the two arrives first is enough.
THEOREM PushesReachTheirOwner == PushSpec => []PushesFollowThePhone
  BY PushInvariant, PTL DEF PushInv, PhoneInv

-----------------------------------------------------------------------------
(* Chat: threads, read receipts and shared links.                          *)

Someone == User \cup {None}

ChatTypeOK ==
    /\ driver \in Someone
    /\ replaced \in BOOLEAN
    /\ message \in [Message -> [sender : Someone, to : Someone, readBy : Someone]]
    /\ chatCall \in [Call -> [op : {"idle", "send", "read"}, user : Someone, to : Someone]]

LEMMA ChatInitType == ChatInit => ChatTypeOK
<1>1. None \in Someone
  BY DEF Someone
<1>2. /\ NotSent \in [sender : Someone, to : Someone, readBy : Someone]
      /\ NoChat \in [op : {"idle", "send", "read"}, user : Someone, to : Someone]
  BY <1>1 DEF NotSent, NoChat
<1> QED  BY <1>1, <1>2 DEF ChatInit, ChatTypeOK

\* Whoever takes part is somebody, and so is the other one while there is a driver.
LEMMA ParticipantsAreUsers ==
  ASSUME ChatTypeOK, NEW u \in Participants
  PROVE  u \in User /\ Other(u) \in Someone
  BY ChatAssumption, PeopleAssumption DEF ChatTypeOK, Participants, Other, Someone

LEMMA ChatStepType ==
  ASSUME ChatTypeOK, [ChatNext]_chatVars
  PROVE  ChatTypeOK'
<1> USE DEF ChatTypeOK
<1>1. ASSUME NEW d \in Someone, JobChangesHands(d) PROVE ChatTypeOK'
  BY <1>1 DEF JobChangesHands
<1>2. ASSUME NEW c \in Call, NEW u \in User, OpenToSend(c, u) \/ OpenToRead(c, u) PROVE ChatTypeOK'
  BY <1>2, ParticipantsAreUsers DEF OpenToSend, OpenToRead, Someone
<1>3. ASSUME NEW c \in Call, NEW m \in Message, SendMessage(c, m) PROVE ChatTypeOK'
  BY <1>3 DEF SendMessage, NoChat, Someone
<1>4. ASSUME NEW c \in Call, MarkRead(c) PROVE ChatTypeOK'
  BY <1>4 DEF MarkRead, NoChat, Someone
<1>5. ASSUME NEW c \in Call, ChatFails(c) PROVE ChatTypeOK'
  BY <1>5 DEF ChatFails, NoChat, Someone
<1>6. ASSUME UNCHANGED <<driver, replaced, message, chatCall>> PROVE ChatTypeOK'
  BY <1>6
<1> QED
  BY <1>1, <1>2, <1>3, <1>4, <1>5, <1>6
     DEF ChatNext, chatVars, Someone, ShareLinkIsThere, CreateShareLink, MintShareToken

-----------------------------------------------------------------------------
(* The thread.                                                             *)

\* As long as no driver was replaced, the driver and the customer are the only people
\* requests and messages are from and for.
Between(u, v) == driver # None /\ u # v /\ {u, v} = {Passenger, driver}

ThreadInv ==
    /\ driver # Passenger
    /\ ~replaced =>
          /\ \A c \in Call : chatCall[c].op # "idle" => chatCall[c].user \in Participants
          /\ \A c \in Call : chatCall[c].op = "send" => Between(chatCall[c].user, chatCall[c].to)
          /\ \A m \in Message : message[m] # NotSent => Between(message[m].sender, message[m].to)

ReadInv == ThreadInv /\ ReadIsEarned

LEMMA ReadStep ==
  ASSUME ChatTypeOK, ReadInv, [ChatNext]_chatVars
  PROVE  ReadInv'
<1> USE ChatAssumption, PeopleAssumption DEF ChatTypeOK, ReadInv, ThreadInv, Between, Participants, Someone
<1>1. ASSUME NEW d \in Someone, JobChangesHands(d) PROVE ReadInv'
  <2>1. driver # None => replaced'
    BY <1>1 DEF JobChangesHands
  <2>2. ThreadInv'
    BY <1>1, <2>1 DEF JobChangesHands
  <2>3. ReadIsEarned'
    BY <1>1 DEF JobChangesHands, ReadIsEarned
  <2> QED  BY <2>2, <2>3
<1>2. ASSUME NEW c \in Call, NEW u \in User, OpenToSend(c, u) \/ OpenToRead(c, u) PROVE ReadInv'
  <2>1. /\ u \in Participants
        /\ chatCall'[c].user = u
        /\ chatCall'[c].op = "send" => driver # None /\ chatCall'[c].to = Other(u)
        /\ \A b \in Call : b # c => chatCall'[b] = chatCall[b]
    BY <1>2 DEF OpenToSend, OpenToRead
  <2>2. UNCHANGED <<driver, replaced, message>>
    BY <1>2 DEF OpenToSend, OpenToRead
  <2>3. ASSUME driver # None PROVE Between(u, Other(u))
    <3>1. driver # Passenger /\ u \in {Passenger, driver}
      BY <2>1
    <3>2. CASE u = Passenger
      BY <2>3, <3>1, <3>2 DEF Other
    <3>3. CASE u = driver
      BY <2>3, <3>1, <3>3 DEF Other
    <3> QED  BY <3>1, <3>2, <3>3
  <2>4. ThreadInv'
    <3>1. ASSUME NEW b \in Call, chatCall'[b].op # "idle", ~replaced
          PROVE  chatCall'[b].user \in Participants
      BY <2>1, <3>1
    <3>2. ASSUME NEW b \in Call, chatCall'[b].op = "send", ~replaced
          PROVE  Between(chatCall'[b].user, chatCall'[b].to)
      <4>1. CASE b = c
        BY <2>1, <2>3, <3>2, <4>1
      <4>2. CASE b # c
        BY <2>1, <3>2, <4>2
      <4> QED  BY <4>1, <4>2
    <3> QED  BY <2>2, <3>1, <3>2
  <2>5. ReadIsEarned'
    BY <2>2 DEF ReadIsEarned
  <2> QED  BY <2>4, <2>5
<1>3. ASSUME NEW c \in Call, NEW m \in Message, SendMessage(c, m) PROVE ReadInv'
  <2>1. /\ message'[m] = [sender |-> chatCall[c].user, to |-> chatCall[c].to, readBy |-> None]
        /\ \A n \in Message : n # m => message'[n] = message[n]
    BY <1>3 DEF SendMessage
  <2>2. /\ \A b \in Call : b # c => chatCall'[b] = chatCall[b]
        /\ chatCall'[c].op = "idle" /\ chatCall[c].op = "send"
        /\ UNCHANGED <<driver, replaced>>
    BY <1>3 DEF SendMessage, NoChat
  <2>3. ASSUME ~replaced, NEW n \in Message, message'[n] # NotSent
        PROVE  Between(message'[n].sender, message'[n].to)
    <3>1. CASE n = m
      <4>1. Between(chatCall[c].user, chatCall[c].to)
        BY <2>2, <2>3
      <4>2. message'[n].sender = chatCall[c].user /\ message'[n].to = chatCall[c].to
        BY <2>1, <3>1
      <4> QED  BY <4>1, <4>2
    <3>2. CASE n # m
      BY <2>1, <2>3, <3>2
    <3> QED  BY <3>1, <3>2
  <2>4. \A b \in Call : chatCall'[b].op # "idle" => chatCall'[b] = chatCall[b]
    BY <2>2
  <2> HIDE DEF Between, Participants
  <2>5. Participants' = Participants /\ \A u, v : Between(u, v)' <=> Between(u, v)
    BY <2>2 DEF Participants, Between
  <2>6. ThreadInv'
    BY <2>2, <2>3, <2>4, <2>5
  <2>7. ReadIsEarned'
    BY <2>1, <2>2 DEF ReadIsEarned
  <2> QED  BY <2>6, <2>7
<1>4. ASSUME NEW c \in Call, MarkRead(c) PROVE ReadInv'
  <2> DEFINE u == chatCall[c].user
  <2>1. /\ \A b \in Call : b # c => chatCall'[b] = chatCall[b]
        /\ chatCall'[c].op = "idle" /\ chatCall[c].op = "read"
        /\ UNCHANGED <<driver, replaced>>
    BY <1>4 DEF MarkRead, NoChat
  <2>2. ASSUME NEW m \in Message
        PROVE  \/ message'[m] = message[m]
               \/ /\ message[m] # NotSent /\ message[m].sender # u
                  /\ message'[m].sender = message[m].sender /\ message'[m].to = message[m].to
                  /\ message'[m].readBy = u
    <3>1. CASE UnreadBy(m, u)
      <4>1. message'[m] = [message[m] EXCEPT !.readBy = u]
        BY <1>4, <3>1 DEF MarkRead
      <4>2. message[m] # NotSent /\ message[m].sender # u
        BY <3>1 DEF UnreadBy
      <4> QED  BY <4>1, <4>2
    <3>2. CASE ~UnreadBy(m, u)
      BY <1>4, <3>2 DEF MarkRead
    <3> QED  BY <3>1, <3>2
  <2>3. ThreadInv'
    <3>1. \A m \in Message : message'[m] # NotSent => message[m] # NotSent
      BY <2>2
    <3>2. \A m \in Message : /\ message'[m].sender = message[m].sender
                             /\ message'[m].to = message[m].to
      BY <2>2
    <3>3. \A b \in Call : chatCall'[b].op # "idle" => chatCall'[b] = chatCall[b]
      BY <2>1
    <3> HIDE DEF Between, Participants
    <3>4. Participants' = Participants /\ \A v, w : Between(v, w)' <=> Between(v, w)
      BY <2>1 DEF Participants, Between
    <3> QED  BY <2>1, <3>1, <3>2, <3>3, <3>4
  <2>4. ReadIsEarned'
    <3> SUFFICES ASSUME NEW m \in Message, message'[m].readBy # None
                 PROVE  /\ message'[m].readBy # message'[m].sender
                        /\ message'[m].readBy = message'[m].to \/ replaced'
      BY DEF ReadIsEarned
    <3>1. CASE message'[m] = message[m]
      BY <2>1, <3>1 DEF ReadIsEarned
    <3>2. CASE message'[m] # message[m]
      <4>1. replaced \/ u = message[m].to
        BY <2>1, <2>2, <3>2
      <4> QED  BY <2>1, <2>2, <3>2, <4>1
    <3> QED  BY <3>1, <3>2
  <2> QED  BY <2>3, <2>4
<1>5. ASSUME NEW c \in Call, ChatFails(c) PROVE ReadInv'
  <2>1. /\ \A b \in Call : b # c => chatCall'[b] = chatCall[b]
        /\ chatCall'[c].op = "idle"
        /\ UNCHANGED <<driver, replaced, message>>
    BY <1>5 DEF ChatFails, NoChat
  <2> QED  BY <2>1 DEF ReadIsEarned
<1>6. ASSUME UNCHANGED <<driver, replaced, message, chatCall>> PROVE ReadInv'
  BY <1>6 DEF ReadIsEarned
<1> QED
  BY <1>1, <1>2, <1>3, <1>4, <1>5, <1>6
     DEF ChatNext, chatVars, ShareLinkIsThere, CreateShareLink, MintShareToken

-----------------------------------------------------------------------------
(* The link.                                                               *)

LinkInv ==
    ~linkRaced =>
        /\ linksSent \subseteq {shareToken} \ {None}
        /\ linkCall # {} => shareToken = None
        /\ \A b, c \in linkCall : b = c

LEMMA LinkStep ==
  ASSUME LinkInv, [ChatNext]_chatVars
  PROVE  LinkInv'
<1> USE ChatAssumption DEF LinkInv
<1>1. ASSUME NEW u \in User, ShareLinkIsThere(u) PROVE LinkInv'
  BY <1>1 DEF ShareLinkIsThere, NoTokenYet
<1>2. ASSUME NEW c \in Call, NEW u \in User, CreateShareLink(c, u) PROVE LinkInv'
  BY <1>2 DEF CreateShareLink, NoTokenYet
<1>3. ASSUME NEW c \in Call, NEW k \in ShareToken, MintShareToken(c, k) PROVE LinkInv'
  BY <1>3 DEF MintShareToken
<1>4. ASSUME UNCHANGED <<shareToken, linkCall, linksSent, linkRaced>> PROVE LinkInv'
  BY <1>4
<1> QED
  BY <1>1, <1>2, <1>3, <1>4
     DEF ChatNext, chatVars, JobChangesHands, OpenToSend, OpenToRead, SendMessage, MarkRead,
         ChatFails

-----------------------------------------------------------------------------
ChatInv == ChatTypeOK /\ ReadInv /\ LinkInv

LEMMA ChatInvariant == ChatSpec => []ChatInv
<1>1. ChatInit => ChatInv
  BY ChatInitType, ChatAssumption, PeopleAssumption
     DEF ChatInv, ReadInv, ThreadInv, ReadIsEarned, LinkInv, ChatInit, NotSent, NoChat
<1>2. ChatInv /\ [ChatNext]_chatVars => ChatInv'
  BY ChatStepType, ReadStep, LinkStep DEF ChatInv
<1> QED  BY <1>1, <1>2, PTL DEF ChatSpec

\* markRead never lets a sender mark their own message, and lets nobody but the one a
\* message was for mark it, until a driver of the job is replaced.
THEOREM ReadsAreEarned == ChatSpec => []ReadIsEarned
  BY ChatInvariant, PTL DEF ChatInv, ReadInv

\* The link createShareLink gave out stays the trip's, unless two first requests overlap.
THEOREM LinksGoOnWorking == ChatSpec => []LinksKeepWorking
<1>1. LinkInv => LinksKeepWorking
  BY DEF LinkInv, LinksKeepWorking
<1> QED  BY <1>1, ChatInvariant, PTL DEF ChatInv

-----------------------------------------------------------------------------
(* Onboarding: applications, approvals and admins.                         *)

Tasks == [op : {"idle", "submit", "approve", "revoke"}, user : User \cup {None}, closed : BOOLEAN]

\* The role is typed too: a driver's account stays one.
OnboardingTypeOK ==
    /\ role \in [User -> {"DRIVER", "RIDER", "ADMIN"}]
    /\ kyc \in [Applicant -> {"PENDING", "APPROVED", "REJECTED"}]
    /\ active \in [User -> BOOLEAN]
    /\ task \in [Call -> Tasks]
    /\ \A c \in Call : task[c].op # "idle" => task[c].user \in User
    /\ \A c \in Call : task[c].op = "approve" => task[c].user \in Applicant
    /\ crossed \in BOOLEAN

\* The account an approval is about is open, or was closed after the approval began.
ApprovalsKnow ==
    \A c \in Call : task[c].op = "approve" => active[task[c].user] \/ task[c].closed

\* Until two revocations overlap there is one at a time, and an admin besides the one
\* it is about.
RevocationsLeaveOne ==
    ~crossed =>
        /\ \A b, c \in Call : task[b].op = "revoke" /\ task[c].op = "revoke" => b = c
        /\ \A c \in Call : task[c].op = "revoke" => \E a \in Admins : a # task[c].user

OnboardingInv == OnboardingTypeOK /\ ApprovalsKnow /\ RevocationsLeaveOne

LEMMA OnboardingInitInv == OnboardingInit => OnboardingInv
<1> SUFFICES ASSUME OnboardingInit PROVE OnboardingInv
  OBVIOUS
<1> USE DEF OnboardingInit
<1>1. NoTask \in Tasks /\ NoTask.op = "idle"
  BY DEF NoTask, Tasks
<1>2. OnboardingTypeOK
  BY <1>1 DEF OnboardingTypeOK
<1>3. ApprovalsKnow /\ RevocationsLeaveOne
  BY <1>1 DEF ApprovalsKnow, RevocationsLeaveOne
<1> QED  BY <1>2, <1>3 DEF OnboardingInv

\* A task that begins or ends leaves the others alone.
LEMMA StartSteps ==
  ASSUME OnboardingTypeOK, NEW c \in Call, NEW u \in User,
         NEW op \in {"submit", "approve", "revoke"}, Start(c, op, u)
  PROVE  /\ task'[c].op = op /\ task'[c].user = u
         /\ \A b \in Call : b # c => task'[b] = task[b]
         /\ task' \in [Call -> Tasks]
  BY DEF Start, OnboardingTypeOK, Tasks

LEMMA DoneSteps ==
  ASSUME OnboardingTypeOK, NEW c \in Call, Done(c)
  PROVE  /\ task'[c].op = "idle"
         /\ \A b \in Call : b # c => task'[b] = task[b]
         /\ task' \in [Call -> Tasks]
<1>1. NoTask \in Tasks /\ NoTask.op = "idle"
  BY DEF NoTask, Tasks
<1> QED  BY <1>1 DEF Done, OnboardingTypeOK

\* Of two admins or more, one is not u.
LEMMA AnotherAdmin ==
  ASSUME MoreAdmins, NEW u \in Admins
  PROVE  \E a \in Admins : a # u
<1> SUFFICES ASSUME \A a \in Admins : a = u PROVE FALSE
  OBVIOUS
<1>1. Admins = {u}
  OBVIOUS
<1>2. Cardinality(Admins) = 1
  BY <1>1, FS_Singleton
<1> QED  BY <1>2 DEF MoreAdmins

LEMMA CloseSteps ==
  ASSUME OnboardingInv, NEW u \in User, Close(u)
  PROVE  /\ task' \in [Call -> Tasks] /\ active' \in [User -> BOOLEAN]
         /\ \A c \in Call : task'[c].op = task[c].op /\ task'[c].user = task[c].user
         /\ ApprovalsKnow'
<1> USE DEF OnboardingInv, OnboardingTypeOK
<1>1. active' = [active EXCEPT ![u] = FALSE]
  BY DEF Close
<1>2. ASSUME NEW c \in Call
      PROVE  \/ task'[c] = task[c] /\ ~(task[c].op = "approve" /\ task[c].user = u)
             \/ task'[c] = [task[c] EXCEPT !.closed = TRUE]
  BY DEF Close
<1>3. \A c \in Call : [task[c] EXCEPT !.closed = TRUE] \in Tasks
  BY DEF Tasks
<1>4. task' = [c \in Call |-> task'[c]]
  BY DEF Close
<1>5. task' \in [Call -> Tasks]
  BY <1>2, <1>3, <1>4
<1>6. ASSUME NEW c \in Call
      PROVE  task'[c].op = task[c].op /\ task'[c].user = task[c].user
  <2>1. task[c] \in Tasks
    OBVIOUS
  <2> QED  BY <1>2, <2>1 DEF Tasks
<1>7. ApprovalsKnow'
  <2> SUFFICES ASSUME NEW c \in Call, task'[c].op = "approve"
               PROVE  active'[task'[c].user] \/ task'[c].closed
    BY DEF ApprovalsKnow
  <2>1. CASE task'[c] = task[c] /\ ~(task[c].op = "approve" /\ task[c].user = u)
    BY <1>1, <2>1 DEF ApprovalsKnow
  <2>2. CASE task'[c] = [task[c] EXCEPT !.closed = TRUE]
    BY <2>2 DEF Tasks
  <2> QED  BY <1>2, <2>1, <2>2
<1> QED  BY <1>1, <1>5, <1>6, <1>7

\* With the tasks' kinds and the roles, RevocationsLeaveOne stays.
LEMMA SameRevocations ==
  ASSUME RevocationsLeaveOne, UNCHANGED <<role, crossed>>,
         \A c \in Call : task'[c].op = "revoke" =>
                            task[c].op = "revoke" /\ task'[c].user = task[c].user
  PROVE  RevocationsLeaveOne'
  BY DEF RevocationsLeaveOne, Admins

LEMMA OnboardingStep ==
  ASSUME OnboardingInv, [OnboardingNext]_onboardingVars
  PROVE  OnboardingInv'
<1> USE OnboardingAssumption DEF OnboardingInv
<1>1. ASSUME NEW u \in User, NEW isActive \in BOOLEAN, SetUserActive(u, isActive)
      PROVE  OnboardingInv'
  <2>1. CASE isActive
    BY <1>1, <2>1 DEF SetUserActive, OnboardingTypeOK, ApprovalsKnow, RevocationsLeaveOne, Admins
  <2>2. CASE ~isActive
    <3>1. Close(u) /\ UNCHANGED <<role, kyc, crossed>>
      BY <1>1, <2>2 DEF SetUserActive
    <3>2. OnboardingTypeOK'
      BY <3>1, CloseSteps DEF OnboardingTypeOK
    <3>3. RevocationsLeaveOne'
      BY <3>1, CloseSteps, SameRevocations
    <3> QED  BY <3>1, <3>2, <3>3, CloseSteps
  <2> QED  BY <2>1, <2>2
<1>2. ASSUME NEW u \in User, DeleteOwnAccount(u)
      PROVE  OnboardingInv'
  <2>1. Close(u) /\ UNCHANGED <<role, kyc, crossed>>
    BY <1>2 DEF DeleteOwnAccount
  <2>2. OnboardingTypeOK'
    BY <2>1, CloseSteps DEF OnboardingTypeOK
  <2>3. RevocationsLeaveOne'
    BY <2>1, CloseSteps, SameRevocations
  <2> QED  BY <2>1, <2>2, <2>3, CloseSteps
<1>3. ASSUME NEW u \in User, MakeAdmin(u)
      PROVE  OnboardingInv'
  BY <1>3 DEF MakeAdmin, OnboardingTypeOK, ApprovalsKnow, RevocationsLeaveOne, Admins
<1>4. ASSUME NEW d \in Applicant, RejectDriverKyc(d)
      PROVE  OnboardingInv'
  BY <1>4 DEF RejectDriverKyc, OnboardingTypeOK, ApprovalsKnow, RevocationsLeaveOne, Admins
<1>5. ASSUME NEW c \in Call, NEW d \in Applicant, SubmitForReview(c, d)
      PROVE  OnboardingInv'
  <2>1. Start(c, "submit", d) /\ UNCHANGED <<role, kyc, active, crossed>>
    BY <1>5 DEF SubmitForReview
  <2>2. /\ task'[c].op = "submit" /\ task'[c].user = d
        /\ \A b \in Call : b # c => task'[b] = task[b]
        /\ task' \in [Call -> Tasks]
    BY <2>1, StartSteps
  <2> QED
    BY <2>1, <2>2 DEF OnboardingTypeOK, ApprovalsKnow, RevocationsLeaveOne, Admins
<1>6. ASSUME NEW c \in Call, NEW u \in User, ApproveDriverKyc(c, u)
      PROVE  OnboardingInv'
  <2>1. /\ Start(c, "approve", u) /\ UNCHANGED <<role, kyc, active, crossed>>
        /\ u \in Applicant /\ active[u]
    BY <1>6 DEF ApproveDriverKyc, MayBeApproved
  <2>2. /\ task'[c].op = "approve" /\ task'[c].user = u
        /\ \A b \in Call : b # c => task'[b] = task[b]
        /\ task' \in [Call -> Tasks]
    BY <2>1, StartSteps
  <2> QED
    BY <2>1, <2>2 DEF OnboardingTypeOK, ApprovalsKnow, RevocationsLeaveOne, Admins
<1>7. ASSUME NEW c \in Call, NEW u \in User, CountAdmins(c, u)
      PROVE  OnboardingInv'
  <2>1. /\ Start(c, "revoke", u) /\ UNCHANGED <<role, kyc, active>>
        /\ u \in Admins /\ MoreAdmins
        /\ crossed' = (crossed \/ \E b \in Call : task[b].op = "revoke")
    BY <1>7 DEF CountAdmins, Admins
  <2>2. /\ task'[c].op = "revoke" /\ task'[c].user = u
        /\ \A b \in Call : b # c => task'[b] = task[b]
        /\ task' \in [Call -> Tasks]
    BY <2>1, StartSteps
  <2>3. OnboardingTypeOK' /\ ApprovalsKnow'
    BY <2>1, <2>2 DEF OnboardingTypeOK, ApprovalsKnow
  <2>4. Admins' = Admins /\ \E a \in Admins : a # u
    BY <2>1, AnotherAdmin DEF Admins
  <2>5. ~crossed' => ~crossed /\ \A b \in Call : task[b].op # "revoke"
    BY <2>1
  <2>6. RevocationsLeaveOne'
    BY <2>2, <2>4, <2>5 DEF RevocationsLeaveOne
  <2> QED  BY <2>3, <2>6
<1>8. ASSUME NEW c \in Call, StampSubmission(c) \/ TaskBreaksOff(c)
      PROVE  OnboardingInv'
  <2>1. Done(c) /\ UNCHANGED <<role, kyc, active, crossed>>
    BY <1>8 DEF StampSubmission, TaskBreaksOff
  <2> QED
    BY <2>1, DoneSteps DEF OnboardingTypeOK, ApprovalsKnow, RevocationsLeaveOne, Admins
<1>9. ASSUME NEW c \in Call, WriteApproval(c)
      PROVE  OnboardingInv'
  <2>1. Done(c) /\ UNCHANGED <<role, active, crossed>>
    BY <1>9 DEF WriteApproval
  <2>2. kyc' \in [Applicant -> {"PENDING", "APPROVED", "REJECTED"}]
    BY <1>9 DEF WriteApproval, OnboardingTypeOK
  <2> QED
    BY <2>1, <2>2, DoneSteps DEF OnboardingTypeOK, ApprovalsKnow, RevocationsLeaveOne, Admins
<1>10. ASSUME NEW c \in Call, RevokeAdmin(c)
       PROVE  OnboardingInv'
  <2>1. Done(c) /\ UNCHANGED <<kyc, active, crossed>>
    BY <1>10 DEF RevokeAdmin
  <2>2. role' \in [User -> {"DRIVER", "RIDER", "ADMIN"}]
    BY <1>10 DEF RevokeAdmin, OnboardingTypeOK
  <2>3. ~crossed => \A b \in Call : task'[b].op # "revoke"
    BY <1>10, <2>1, DoneSteps DEF RevokeAdmin, RevocationsLeaveOne
  <2> QED
    BY <2>1, <2>2, <2>3, DoneSteps DEF OnboardingTypeOK, ApprovalsKnow, RevocationsLeaveOne
<1>11. ASSUME UNCHANGED <<role, kyc, active, task, crossed>>
       PROVE  OnboardingInv'
  BY <1>11 DEF OnboardingTypeOK, ApprovalsKnow, RevocationsLeaveOne, Admins
<1> QED
  BY <1>1, <1>2, <1>3, <1>4, <1>5, <1>6, <1>7, <1>8, <1>9, <1>10, <1>11
     DEF OnboardingNext, onboardingVars, UpdateProfile, SaveOnboarding

LEMMA OnboardingInvariant == OnboardingSpec => []OnboardingInv
<1>1. OnboardingInv /\ [OnboardingNext]_onboardingVars => OnboardingInv'
  BY OnboardingStep
<1> QED  BY <1>1, OnboardingInitInv, PTL DEF OnboardingSpec

-----------------------------------------------------------------------------
LEMMA ApprovalStep ==
  ASSUME OnboardingInv, [OnboardingNext]_onboardingVars, NEW u \in Applicant,
         kyc[u] # "APPROVED", kyc'[u] = "APPROVED"
  PROVE  active[u] \/ \E c \in Call : task[c].op = "approve" /\ task[c].user = u /\ task[c].closed
<1>1. ASSUME NEW d \in Applicant, RejectDriverKyc(d) PROVE FALSE
  BY <1>1 DEF RejectDriverKyc, OnboardingInv, OnboardingTypeOK
<1>2. ASSUME NEW c \in Call, WriteApproval(c)
      PROVE  task[c].op = "approve" /\ task[c].user = u
  BY <1>2 DEF WriteApproval, OnboardingInv, OnboardingTypeOK
<1>3. kyc' # kyc
  OBVIOUS
<1>4. \E c \in Call : WriteApproval(c)
  BY <1>1, <1>3
     DEF OnboardingNext, onboardingVars, SetUserActive, MakeAdmin, DeleteOwnAccount, UpdateProfile,
         SaveOnboarding, SubmitForReview, ApproveDriverKyc, CountAdmins, StampSubmission,
         RevokeAdmin, TaskBreaksOff
<1> QED  BY <1>2, <1>4 DEF OnboardingInv, ApprovalsKnow

LEMMA RevocationStep ==
  ASSUME OnboardingInv, [OnboardingNext]_onboardingVars, NEW a \in Admins, Admins' = {}
  PROVE  crossed
<1>1. ASSUME NEW u \in User, MakeAdmin(u) PROVE FALSE
  BY <1>1 DEF MakeAdmin, OnboardingInv, OnboardingTypeOK, Admins
<1>2. ASSUME NEW c \in Call, RevokeAdmin(c) PROVE crossed
  <2>1. CASE crossed
    BY <2>1
  <2>2. CASE ~crossed
    <3>1. PICK b \in Admins : b # task[c].user
      BY <1>2, <2>2 DEF RevokeAdmin, OnboardingInv, RevocationsLeaveOne
    <3>2. b \in Admins'
      BY <1>2, <3>1 DEF RevokeAdmin, OnboardingInv, OnboardingTypeOK, Admins
    <3> QED  BY <3>2
  <2> QED  BY <2>1, <2>2
<1>3. role' # role
  BY DEF Admins
<1> QED
  BY <1>1, <1>2, <1>3
     DEF OnboardingNext, onboardingVars, SetUserActive, DeleteOwnAccount, UpdateProfile,
         SaveOnboarding, SubmitForReview, ApproveDriverKyc, CountAdmins, StampSubmission,
         RejectDriverKyc, WriteApproval, TaskBreaksOff

\* approveDriverKyc never approves an account that was closed when it looked.
THEOREM ApprovalsAreOfOpenAccounts == OnboardingSpec => OnlyOpenAccountsAreApproved
<1>1. OnboardingInv /\ [OnboardingNext]_onboardingVars =>
         [\A u \in Applicant :
             (kyc[u] # "APPROVED" /\ kyc'[u] = "APPROVED") =>
                 \/ active[u]
                 \/ \E c \in Call : task[c].op = "approve" /\ task[c].user = u /\ task[c].closed
         ]_onboardingVars
  BY ApprovalStep
<1> QED  BY <1>1, OnboardingInvariant, PTL DEF OnboardingSpec, OnlyOpenAccountsAreApproved

\* make-admin.js --revoke never takes the last admin while one revocation runs at a time.
THEOREM AdminsRemain == OnboardingSpec => AnAdminRemains
<1>1. OnboardingInv /\ [OnboardingNext]_onboardingVars =>
         [Admins # {} => Admins' # {} \/ crossed]_onboardingVars
  BY RevocationStep
<1> QED  BY <1>1, OnboardingInvariant, PTL DEF OnboardingSpec, AnAdminRemains

-----------------------------------------------------------------------------
(* Restaurants: opening, menus and orders.                                 *)

\* The lines of an order: none yet, or a function of its items.
Lines == {<<>>} \cup UNION {[items -> Price \cup {None}] : items \in SUBSET Item}
DeskRequests == [op : {"idle", "toggle", "menu", "write"}, open : BOOLEAN, lines : Lines,
             changed : BOOLEAN]

RestaurantsTypeOK ==
    /\ desk \in [Call -> DeskRequests]
    /\ menu \in [Item -> [price : Price \cup {None}, available : BOOLEAN]]
    /\ door \in [status : {"none", "PENDING", "APPROVED", "SUSPENDED"}, open : BOOLEAN]

\* An order past the door found it open, unless told otherwise,
DoorIsOpen(r) == r.op \in {"menu", "write"} /\ ~r.changed => TakesOrders

\* and each line keeps the price of an item that can be ordered.
LineIsCurrent(r, i) == menu[i].available /\ menu[i].price = r.lines[i]
LinesAreCurrent(r) ==
    r.op = "write" /\ ~r.changed =>
        DOMAIN r.lines \subseteq Item /\ \A i \in DOMAIN r.lines : LineIsCurrent(r, i)

RestaurantsInv ==
    /\ RestaurantsTypeOK
    /\ \A c \in Call : DoorIsOpen(desk[c]) /\ LinesAreCurrent(desk[c])

LEMMA NoRequestType == NoRequest \in DeskRequests /\ NoRequest.op = "idle"
  BY DEF NoRequest, DeskRequests, Lines

LEMMA RestaurantsInitInv == RestaurantsInit => RestaurantsInv
  BY NoRequestType
     DEF RestaurantsInit, RestaurantsInv, RestaurantsTypeOK, DoorIsOpen, LinesAreCurrent

\* A request that is told of a change.
LEMMA ToldType ==
  ASSUME NEW r \in DeskRequests
  PROVE  /\ [r EXCEPT !.changed = TRUE] \in DeskRequests
         /\ [r EXCEPT !.changed = TRUE].changed
  BY DEF DeskRequests

\* A change tells the requests that had read what it changed, and is no news to others.
LEMMA ToldRequests ==
  ASSUME RestaurantsInv, NEW told \in SUBSET Call,
         desk' = [c \in Call |-> IF c \in told THEN [desk[c] EXCEPT !.changed = TRUE] ELSE desk[c]],
         \A c \in Call \ told : \/ DoorIsOpen(desk[c])' /\ LinesAreCurrent(desk[c])'
                              \/ desk'[c].op = "idle"
  PROVE  /\ desk' \in [Call -> DeskRequests]
         /\ \A c \in Call : DoorIsOpen(desk[c])' /\ LinesAreCurrent(desk[c])'
<1>1. \A c \in Call : desk[c] \in DeskRequests
  BY DEF RestaurantsInv, RestaurantsTypeOK
<1>2. desk' \in [Call -> DeskRequests]
  BY <1>1, ToldType
<1>3. \A c \in told : DoorIsOpen(desk[c])' /\ LinesAreCurrent(desk[c])'
  BY <1>1, ToldType DEF DoorIsOpen, LinesAreCurrent
<1> QED  BY <1>2, <1>3 DEF DoorIsOpen, LinesAreCurrent

\* A request goes on to its next step.
LEMMA GoesOn ==
  ASSUME RestaurantsTypeOK, NEW c \in Call, NEW op \in {"toggle", "menu", "write"},
         NEW open \in BOOLEAN, NEW lines \in Lines, DeskAt(c, op, open, lines)
  PROVE  /\ desk' \in [Call -> DeskRequests]
         /\ desk'[c].op = op /\ desk'[c].lines = lines /\ desk'[c].changed = desk[c].changed
         /\ \A b \in Call : b # c => desk'[b] = desk[b]
<1>1. desk[c] \in DeskRequests
  BY DEF RestaurantsTypeOK
<1>2. desk'[c] = [op |-> op, open |-> open, lines |-> lines, changed |-> desk[c].changed]
  BY <1>1 DEF DeskAt, RestaurantsTypeOK, DeskRequests
<1>3. desk'[c] \in DeskRequests
  BY <1>1, <1>2 DEF DeskRequests
<1> QED  BY <1>2, <1>3 DEF DeskAt, RestaurantsTypeOK

LEMMA RestaurantsStep ==
  ASSUME RestaurantsInv, [RestaurantsNext]_restaurantsVars
  PROVE  RestaurantsInv'
<1> USE DEF RestaurantsInv
<1>0. \A c \in Call : desk[c] \in DeskRequests
  BY DEF RestaurantsTypeOK
<1>1. CASE CreateRestaurant
  BY <1>1 DEF CreateRestaurant, RestaurantsTypeOK, DoorIsOpen, LinesAreCurrent, TakesOrders,
              LineIsCurrent
<1>2. CASE Approve
  BY <1>2 DEF Approve, RestaurantsTypeOK, DoorIsOpen, LinesAreCurrent, TakesOrders, LineIsCurrent
<1>3. CASE Suspend
  <2> DEFINE told == {c \in Call : desk[c].op # "idle"}
  <2>1. desk' = [c \in Call |-> IF c \in told THEN [desk[c] EXCEPT !.changed = TRUE] ELSE desk[c]]
    BY <1>3 DEF Suspend, DeskAfter, ReadTheDoor
  <2>2. \A c \in Call \ told : desk'[c].op = "idle"
    BY <2>1, <1>0 DEF DeskRequests
  <2> HIDE DEF told
  <2>3. /\ desk' \in [Call -> DeskRequests]
        /\ \A c \in Call : DoorIsOpen(desk[c])' /\ LinesAreCurrent(desk[c])'
    <3>1. told \in SUBSET Call
      BY DEF told
    <3> QED  BY <2>1, <2>2, <3>1, ToldRequests
  <2> QED  BY <1>3, <2>3 DEF Suspend, RestaurantsTypeOK
<1>4. ASSUME NEW c \in Call, NEW op \in {"toggle", "menu"}, NEW open \in BOOLEAN,
             DeskAt(c, op, open, <<>>), UNCHANGED <<door, menu>>, op = "menu" => TakesOrders
      PROVE  RestaurantsInv'
  <2>1. /\ desk' \in [Call -> DeskRequests] /\ desk'[c].op = op
        /\ \A b \in Call : b # c => desk'[b] = desk[b]
    BY <1>4, GoesOn DEF Lines
  <2> QED
    BY <1>4, <2>1 DEF RestaurantsTypeOK, DoorIsOpen, LinesAreCurrent, LineIsCurrent, TakesOrders
<1>5. ASSUME NEW c \in Call, ToggleOpen(c)
       PROVE  RestaurantsInv'
  <2>1. PICK open \in BOOLEAN : open = ~door.open
    OBVIOUS
  <2>2. DeskAt(c, "toggle", open, <<>>)
    BY <1>5, <2>1, Zenon DEF ToggleOpen
  <2>3. UNCHANGED <<door, menu>>
    BY <1>5 DEF ToggleOpen
  <2> QED  BY <1>4, <2>2, <2>3
<1>6. ASSUME NEW c \in Call, CreateOrder(c)
       PROVE  RestaurantsInv'
  BY <1>4, <1>6 DEF CreateOrder
<1>7. ASSUME NEW c \in Call, WriteOpen(c)
      PROVE  RestaurantsInv'
  <2>1. ASSUME NEW b \in Call
        PROVE  /\ desk'[b] \in DeskRequests
               /\ desk'[b].op = "idle" \/ desk'[b].changed
    <3>1. CASE b = c
      BY <1>7, <3>1, NoRequestType DEF WriteOpen
    <3>2. CASE b # c /\ desk[b].op = "idle"
      BY <1>7, <1>0, <3>2 DEF WriteOpen, ReadTheDoor
    <3>3. CASE b # c /\ desk[b].op # "idle"
      BY <1>7, <1>0, <3>3, ToldType DEF WriteOpen, ReadTheDoor
    <3> QED  BY <3>1, <3>2, <3>3
  <2>2. desk' \in [Call -> DeskRequests]
    BY <1>7, <2>1 DEF WriteOpen
  <2>3. menu' = menu /\ door' \in [status : {"none", "PENDING", "APPROVED", "SUSPENDED"}, open : BOOLEAN]
    BY <1>7, <1>0 DEF WriteOpen, RestaurantsTypeOK, DeskRequests
  <2> QED
    BY <2>1, <2>2, <2>3 DEF RestaurantsTypeOK, DoorIsOpen, LinesAreCurrent
<1>8. ASSUME NEW c \in Call, RequestEnds(c)
      PROVE  RestaurantsInv'
  BY <1>8, NoRequestType
     DEF RequestEnds, RestaurantsTypeOK, DoorIsOpen, LinesAreCurrent, LineIsCurrent, TakesOrders
<1>9. ASSUME NEW i \in Item, DeskAfter(LAMBDA r : ReadTheItem(r, i)), door' = door,
             menu' \in [Item -> [price : Price \cup {None}, available : BOOLEAN]],
             \A k \in Item : k # i => menu'[k] = menu[k]
      PROVE  RestaurantsInv'
  <2> DEFINE told == {c \in Call : i \in DOMAIN desk[c].lines}
  <2>1. desk' = [c \in Call |-> IF c \in told THEN [desk[c] EXCEPT !.changed = TRUE] ELSE desk[c]]
    BY <1>9 DEF DeskAfter, ReadTheItem
  <2>2. ASSUME NEW c \in Call \ told
        PROVE  DoorIsOpen(desk[c])' /\ LinesAreCurrent(desk[c])'
    <3>1. desk'[c] = desk[c] /\ i \notin DOMAIN desk[c].lines
      BY <2>1
    <3> HIDE DEF told
    <3>2. DoorIsOpen(desk[c])'
      BY <1>9, <3>1 DEF DoorIsOpen, TakesOrders
    <3>3. LinesAreCurrent(desk[c])'
      BY <1>9, <3>1 DEF LinesAreCurrent, LineIsCurrent
    <3> QED  BY <3>2, <3>3
  <2>3. told \in SUBSET Call
    OBVIOUS
  <2> HIDE DEF told
  <2>4. /\ desk' \in [Call -> DeskRequests]
        /\ \A c \in Call : DoorIsOpen(desk[c])' /\ LinesAreCurrent(desk[c])'
    BY <2>1, <2>2, <2>3, ToldRequests
  <2> QED  BY <1>9, <2>4 DEF RestaurantsTypeOK
<1>10. ASSUME NEW i \in Item, NEW price \in Price, NEW available \in BOOLEAN,
             WriteMenuItem(i, price, available)
      PROVE  RestaurantsInv'
  <2>1. DeskAfter(LAMBDA r : ReadTheItem(r, i)) /\ door' = door
    BY <1>10 DEF WriteMenuItem
  <2>2. /\ menu' \in [Item -> [price : Price \cup {None}, available : BOOLEAN]]
        /\ \A k \in Item : k # i => menu'[k] = menu[k]
    BY <1>10 DEF WriteMenuItem, RestaurantsTypeOK
  <2> QED  BY <1>9, <2>1, <2>2
<1>11. ASSUME NEW i \in Item, ArchiveMenuItem(i)
       PROVE  RestaurantsInv'
  <2>1. DeskAfter(LAMBDA r : ReadTheItem(r, i)) /\ door' = door
    BY <1>11 DEF ArchiveMenuItem
  <2>2. menu' = [menu EXCEPT ![i].available = FALSE]
    BY <1>11 DEF ArchiveMenuItem
  <2>3. /\ menu' \in [Item -> [price : Price \cup {None}, available : BOOLEAN]]
        /\ \A k \in Item : k # i => menu'[k] = menu[k]
    BY <2>2 DEF RestaurantsTypeOK
  <2> QED  BY <1>9, <2>1, <2>3
<1>12. ASSUME NEW c \in Call, NEW items \in (SUBSET Item) \ {{}}, PriceLines(c, items)
      PROVE  RestaurantsInv'
  <2> DEFINE lines == [i \in items |-> menu[i].price]
  <2>1. lines \in Lines
    BY DEF Lines, RestaurantsTypeOK
  <2>2. \A i \in items : menu[i].available /\ menu[i].price = lines[i]
    BY <1>12 DEF PriceLines, Orderable
  <2>3. DOMAIN lines = items
    OBVIOUS
  <2>4. DeskAt(c, "write", TRUE, lines) /\ desk[c].op = "menu" /\ UNCHANGED <<door, menu>>
    BY <1>12 DEF PriceLines
  <2> HIDE DEF lines
  <2>5. /\ desk' \in [Call -> DeskRequests]
        /\ desk'[c].op = "write" /\ desk'[c].lines = lines /\ desk'[c].changed = desk[c].changed
        /\ \A b \in Call : b # c => desk'[b] = desk[b]
    BY <2>1, <2>4, GoesOn
  <2>6. LinesAreCurrent(desk[c])'
    BY <2>2, <2>3, <2>4, <2>5 DEF LinesAreCurrent, LineIsCurrent
  <2>7. \A b \in Call : DoorIsOpen(desk[b])'
    BY <2>4, <2>5 DEF DoorIsOpen, TakesOrders
  <2>8. \A b \in Call : b # c => LinesAreCurrent(desk[b])'
    BY <2>4, <2>5 DEF LinesAreCurrent, LineIsCurrent
  <2> QED  BY <2>4, <2>5, <2>6, <2>7, <2>8 DEF RestaurantsTypeOK
<1>13. CASE UNCHANGED restaurantsVars
  BY <1>13 DEF restaurantsVars, RestaurantsTypeOK, DoorIsOpen, LinesAreCurrent, LineIsCurrent,
               TakesOrders
<1> QED
  BY <1>1, <1>2, <1>3, <1>5, <1>6, <1>7, <1>8, <1>10, <1>11, <1>12, <1>13 DEF RestaurantsNext

LEMMA RestaurantsInvariant == RestaurantsSpec => []RestaurantsInv
<1>1. RestaurantsInv /\ [RestaurantsNext]_restaurantsVars => RestaurantsInv'
  BY RestaurantsStep
<1> QED  BY <1>1, RestaurantsInitInv, PTL DEF RestaurantsSpec

\* createOrder never writes an order at a closed restaurant, of an item that is off the
\* menu or at a price that is not the menu's, unless it changed after the order read it.
THEOREM OrdersStayCurrent == RestaurantsSpec => []OrdersAreCurrent
<1>1. RestaurantsInv => OrdersAreCurrent
  BY DEF RestaurantsInv, OrdersAreCurrent, DoorIsOpen, LinesAreCurrent, LineIsCurrent, TakesOrders
<1> QED  BY <1>1, RestaurantsInvariant, PTL
=============================================================================
