------------------------------- MODULE MCFleet -------------------------------
(* Instances of Fleet for TLC, and what LocationGateway says a connection  *)
(* means.                                                                  *)
EXTENDS Fleet, TLC

\* Sockets are interchangeable, and so are searches.
Symmetry == Permutations(Socket) \cup Permutations(Search)

\* "This socket connection IS a driver going online, so flip it here rather than
\* leaving the column permanently false" (location.gateway.ts, handleConnection): a
\* driver in good standing with a connection, and no handler still at work for
\* them, is online.
ConnectedIsOnline ==
    \A d \in Driver :
        LET own == {k \in Socket : socket[k].driver = d} IN
        /\ d \notin standing["suspended"] \cup lowering
        /\ \E k \in own : socket[k].link = "up"
        /\ \A k \in own : socket[k].enter = "done" /\ socket[k].leave = "done"
        => d \in online
=============================================================================
