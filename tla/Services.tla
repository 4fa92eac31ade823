------------------------------ MODULE Services --------------------------------
(***************************************************************************)
(* What surrounds the jobs: the applications that make a driver, bookings  *)
(* and their ranking, menus, messages, pushes, emergencies, ratings and    *)
(* referrals.  These components share no state, so a behaviour in which    *)
(* several of them move shows nothing that those in which each moves alone *)
(* do not: a behaviour is about one of them.                               *)
(***************************************************************************)
EXTENDS Booking, Ratings, Loyalty, Chat, Push, Safety, Onboarding, Restaurants

VARIABLE part   \* bound: the component the behaviour is about

vars == <<part, bookingVars, ratingsVars, loyaltyVars, chatVars, pushVars, safetyVars,
          onboardingVars, restaurantsVars>>

Parts == {"booking", "ratings", "loyalty", "chat", "push", "safety", "onboarding", "restaurants"}

\* What does not move starts in one way.
Init ==
    /\ part \in Parts
    /\ BookingInit /\ RatingsInit /\ LoyaltyInit /\ ChatInit
    /\ PushInit /\ SafetyInit /\ OnboardingInit /\ RestaurantsInit
    /\ part # "booking" => policy = (CHOOSE p \in Policies : TRUE)
                           /\ stars = [d \in Driver |-> CHOOSE s \in Stars : TRUE]

Next ==
    \/ part = "booking" /\ BookingNext
       /\ UNCHANGED <<part, ratingsVars, loyaltyVars, chatVars, pushVars, safetyVars,
                      onboardingVars, restaurantsVars>>
    \/ part = "ratings" /\ RatingsNext
       /\ UNCHANGED <<part, bookingVars, loyaltyVars, chatVars, pushVars, safetyVars,
                      onboardingVars, restaurantsVars>>
    \/ part = "loyalty" /\ LoyaltyNext
       /\ UNCHANGED <<part, bookingVars, ratingsVars, chatVars, pushVars, safetyVars,
                      onboardingVars, restaurantsVars>>
    \/ part = "chat" /\ ChatNext
       /\ UNCHANGED <<part, bookingVars, ratingsVars, loyaltyVars, pushVars, safetyVars,
                      onboardingVars, restaurantsVars>>
    \/ part = "push" /\ PushNext
       /\ UNCHANGED <<part, bookingVars, ratingsVars, loyaltyVars, chatVars, safetyVars,
                      onboardingVars, restaurantsVars>>
    \/ part = "safety" /\ SafetyNext
       /\ UNCHANGED <<part, bookingVars, ratingsVars, loyaltyVars, chatVars, pushVars,
                      onboardingVars, restaurantsVars>>
    \/ part = "onboarding" /\ OnboardingNext
       /\ UNCHANGED <<part, bookingVars, ratingsVars, loyaltyVars, chatVars, pushVars, safetyVars,
                      restaurantsVars>>
    \/ part = "restaurants" /\ RestaurantsNext
       /\ UNCHANGED <<part, bookingVars, ratingsVars, loyaltyVars, chatVars, pushVars, safetyVars,
                      onboardingVars>>

Spec == Init /\ [][Next]_vars

\* What a user was handed to pass on goes on working: see CodesKeepWorking in Loyalty
\* and LinksKeepWorking in Chat.
HandedOutKeepsWorking == CodesKeepWorking /\ LinksKeepWorking
=============================================================================
