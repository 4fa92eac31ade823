------------------------------- MODULE People ---------------------------------
(* What the services beside the jobs have in common: accounts, and         *)
(* requests in progress, each of which gives way at every await.           *)
CONSTANTS
    User,   \* accounts, or people who may open one
    Call,   \* bound: requests in progress at one time
    None    \* null

ASSUME PeopleAssumption == None \notin User
=============================================================================
