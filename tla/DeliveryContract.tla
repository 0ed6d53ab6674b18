-------------------------- MODULE DeliveryContract --------------------------
(***************************************************************************)
(* What the notification half promises about one email to one user: the    *)
(* delivery is opened once, tried a bounded number of times, and closed    *)
(* once, as delivered (the provider accepted it) or as dead with one dead  *)
(* letter (every try was used).  The provider may accept a try late, even  *)
(* after the delivery was closed.                                          *)
(***************************************************************************)
EXTENDS Naturals

CONSTANTS Delivery, MaxSends

VARIABLES
    outcome,    \* "none", "open", "delivered" or "dead"
    tries,      \* attempts made so far
    accepted,   \* deliveries the provider accepted
    letters     \* dead letters written

contractVars == <<outcome, tries, accepted, letters>>

Init ==
    /\ outcome = [d \in Delivery |-> "none"]
    /\ tries = [d \in Delivery |-> 0]
    /\ accepted = {}
    /\ letters = [d \in Delivery |-> 0]

\* A job opens all its deliveries together.
Create(ds) ==
    /\ \A d \in ds : outcome[d] = "none"
    /\ outcome' = [d \in Delivery |-> IF d \in ds THEN "open" ELSE outcome[d]]
    /\ UNCHANGED <<tries, accepted, letters>>

Try(d) ==
    /\ outcome[d] = "open" /\ tries[d] < MaxSends
    /\ tries' = [tries EXCEPT ![d] = @ + 1]
    /\ UNCHANGED <<outcome, accepted, letters>>

Accept(d) ==
    /\ tries[d] > 0
    /\ accepted' = accepted \cup {d}
    /\ UNCHANGED <<outcome, tries, letters>>

Deliver(d) ==
    /\ outcome[d] = "open" /\ d \in accepted
    /\ outcome' = [outcome EXCEPT ![d] = "delivered"]
    /\ UNCHANGED <<tries, accepted, letters>>

GiveUp(d) ==
    /\ outcome[d] = "open" /\ tries[d] = MaxSends
    /\ outcome' = [outcome EXCEPT ![d] = "dead"]
    /\ letters' = [letters EXCEPT ![d] = @ + 1]
    /\ UNCHANGED <<tries, accepted>>

Next ==
    \/ \E ds \in SUBSET Delivery : Create(ds)
    \/ \E d \in Delivery : Try(d) \/ Accept(d) \/ Deliver(d) \/ GiveUp(d)

Spec == Init /\ [][Next]_contractVars

=============================================================================
