-------------------------------- MODULE Chat ----------------------------------
(***************************************************************************)
(* ChatService on the thread of one job: its participants are read from    *)
(* the job at every request, and the job may change hands before the       *)
(* request writes.  And the link that shares a ride                        *)
(* (TripsService.createShareLink).                                         *)
(***************************************************************************)
EXTENDS People, Integers, FiniteSets

CONSTANTS
    Passenger,   \* the customer of the job
    Message,     \* bound: messages sent
    ShareToken   \* bound: tokens minted

ASSUME ChatAssumption == Passenger \in User /\ None \notin ShareToken

VARIABLES
    driver,      \* the driver of the job, or None
    replaced,    \* history: a driver who had the job lost it
    message,     \* chat_messages: the sender, whom it is for, and who marked it read
    chatCall,    \* requests to send or to mark read, past their check
    shareToken,  \* trips.shareToken
    linkCall,    \* createShareLink requests that found no token
    linksSent,   \* history: the tokens clients were given
    linkRaced    \* history: two of them minted at the same time

chatVars ==
    <<driver, replaced, message, chatCall, shareToken, linkCall, linksSent, linkRaced>>

NotSent == [sender |-> None, to |-> None, readBy |-> None]
NoChat == [op |-> "idle", user |-> None, to |-> None]
Participants == {Passenger, driver} \ {None}
\* Whoever of the participants is not u.
Other(u) == IF u = Passenger THEN driver ELSE Passenger

\* Matching, declining and reassigning, in Trips and Jobs.
JobChangesHands(d) ==
    /\ d # driver /\ d # Passenger
    /\ replaced' = (replaced \/ driver # None)
    /\ driver' = d
    /\ UNCHANGED <<message, chatCall, shareToken, linkCall, linksSent, linkRaced>>

\* sendMessage resolves the participants and refuses a thread with only one,
OpenToSend(c, u) ==
    /\ chatCall[c].op = "idle" /\ c \notin linkCall
    /\ u \in Participants /\ driver # None
    /\ chatCall' = [chatCall EXCEPT ![c] = [op |-> "send", user |-> u, to |-> Other(u)]]
    /\ UNCHANGED <<driver, replaced, message, shareToken, linkCall, linksSent, linkRaced>>

\* then writes the row, and tells the one it resolved.
SendMessage(c, m) ==
    /\ chatCall[c].op = "send" /\ message[m] = NotSent
    /\ message' = [message EXCEPT ![m] =
                     [sender |-> chatCall[c].user, to |-> chatCall[c].to, readBy |-> None]]
    /\ chatCall' = [chatCall EXCEPT ![c] = NoChat]
    /\ UNCHANGED <<driver, replaced, shareToken, linkCall, linksSent, linkRaced>>

\* markRead resolves the participants,
OpenToRead(c, u) ==
    /\ chatCall[c].op = "idle" /\ c \notin linkCall
    /\ u \in Participants
    /\ chatCall' = [chatCall EXCEPT ![c] = [op |-> "read", user |-> u, to |-> Other(u)]]
    /\ UNCHANGED <<driver, replaced, message, shareToken, linkCall, linksSent, linkRaced>>

\* Mutant: one's own messages count as unread too.
UnreadAtAll(m, u) == message[m] # NotSent /\ message[m].readBy = None
\* senderId: { not: readerId }, readAt: null
UnreadBy(m, u) ==
    message[m] # NotSent /\ message[m].sender # u /\ message[m].readBy = None

\* then marks everything others sent.
MarkRead(c) ==
    /\ chatCall[c].op = "read"
    /\ message' = [m \in Message |->
                     IF UnreadBy(m, chatCall[c].user)
                     THEN [message[m] EXCEPT !.readBy = chatCall[c].user] ELSE message[m]]
    /\ chatCall' = [chatCall EXCEPT ![c] = NoChat]
    /\ UNCHANGED <<driver, replaced, shareToken, linkCall, linksSent, linkRaced>>

ChatFails(c) ==
    /\ chatCall[c].op # "idle"
    /\ chatCall' = [chatCall EXCEPT ![c] = NoChat]
    /\ UNCHANGED <<driver, replaced, message, shareToken, linkCall, linksSent, linkRaced>>

-----------------------------------------------------------------------------
\* if (trip.shareToken) return { shareToken: trip.shareToken }
NoTokenYet == shareToken = None

ShareLinkIsThere(u) ==
    /\ u \in Participants /\ ~NoTokenYet
    /\ linksSent' = linksSent \cup {shareToken}
    /\ UNCHANGED <<driver, replaced, message, chatCall, shareToken, linkCall, linkRaced>>

\* createShareLink finds no token,
CreateShareLink(c, u) ==
    /\ c \notin linkCall /\ chatCall[c].op = "idle"
    /\ u \in Participants /\ NoTokenYet
    /\ linkRaced' = (linkRaced \/ linkCall # {})
    /\ linkCall' = linkCall \cup {c}
    /\ UNCHANGED <<driver, replaced, message, chatCall, shareToken, linksSent>>

\* and writes a new one.
MintShareToken(c, k) ==
    /\ c \in linkCall /\ k \notin linksSent
    /\ shareToken' = k
    /\ linksSent' = linksSent \cup {k}
    /\ linkCall' = linkCall \ {c}
    /\ UNCHANGED <<driver, replaced, message, chatCall, linkRaced>>

ChatInit ==
    /\ driver = None /\ replaced = FALSE
    /\ message = [m \in Message |-> NotSent]
    /\ chatCall = [c \in Call |-> NoChat]
    /\ shareToken = None
    /\ linkCall = {} /\ linksSent = {} /\ linkRaced = FALSE

ChatNext ==
    \/ \E d \in User \cup {None} : JobChangesHands(d)
    \/ \E c \in Call, u \in User : OpenToSend(c, u) \/ OpenToRead(c, u) \/ CreateShareLink(c, u)
    \/ \E c \in Call, m \in Message : SendMessage(c, m)
    \/ \E c \in Call : MarkRead(c) \/ ChatFails(c)
    \/ \E u \in User : ShareLinkIsThere(u)
    \/ \E c \in Call, k \in ShareToken : MintShareToken(c, k)

ChatSpec == ChatInit /\ [][ChatNext]_chatVars

\* "Read is the one that must be earned": only a message somebody else sent is marked
\* read, and, as long as no driver of the job was replaced, only by the one it was
\* for.  A new driver who opens the thread also marks what the old one wrote.
ReadIsEarned ==
    \A m \in Message :
        message[m].readBy # None =>
            /\ message[m].readBy # message[m].sender
            /\ message[m].readBy = message[m].to \/ replaced

\* "Stable for the life of the trip so a link already sent to family keeps working",
\* unless two first requests overlap: then the later token replaces the one sent.
LinksKeepWorking == linkRaced \/ linksSent \subseteq {shareToken}
=============================================================================
