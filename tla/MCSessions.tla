----------------------------- MODULE MCSessions ------------------------------
(* Instances of Sessions for TLC, and what the repository says to a user   *)
(* whose password was reset.                                               *)
EXTENDS Sessions, TLC

\* Handlers are interchangeable.
Symmetry == Permutations(Slot)

\* "Sign in with the temporary password you were given, then change it"
\* (admin.service.ts, resetUserPassword): an active user who has signed in with the
\* current password, while nobody is closing the account, is not refused.
SignedInMayAct ==
    \A u \in User :
        /\ account[u].active
        /\ login[u] = account[u].password
        /\ \A s \in Slot : req[s].user = u => req[s].pc \notin Closing
        => u \notin denied
=============================================================================
