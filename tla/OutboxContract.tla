--------------------------- MODULE OutboxContract ---------------------------
(***************************************************************************)
(* What an outbox promises one consumer group, whatever its relays do: the  *)
(* module documentation of pyfly/eda/outbox.py in three variables.  An event *)
(* is owed to every subscription that matches it from the commit of its      *)
(* publishing unit on; a subscription stops being owed it for good, and only *)
(* once it is accounted for: it handled the event, was let go by the error   *)
(* strategy, or its failure is in the dead letters.                          *)
(***************************************************************************)
EXTENDS FiniteSets

CONSTANTS Events, Subs, Matching

VARIABLES
    published,   \* the events whose publishing unit committed
    owed,        \* owed[e]: the subscriptions e is still owed to
    accounted    \* accounted[e]: the subscriptions that answered for e

vars == <<published, owed, accounted>>

Init ==
    /\ published = {}
    /\ owed = [e \in Events |-> {}]
    /\ accounted = [e \in Events |-> {}]

Publish(e) ==
    /\ e \notin published
    /\ published' = published \cup {e}
    /\ owed' = [owed EXCEPT ![e] = Matching[e]]
    /\ UNCHANGED accounted

\* A subscription answers for an event: again, if it was handed it again.
Answer(e) ==
    /\ e \in published
    /\ \E S \in SUBSET Subs : accounted' = [accounted EXCEPT ![e] = @ \cup S]
    /\ UNCHANGED <<published, owed>>

\* A relay settles deliveries: each is owed to fewer subscriptions, and the ones
\* it is no longer owed to are accounted for, at the latest by this very step.
Settle ==
    /\ \E O \in [Events -> SUBSET Subs], A \in [Events -> SUBSET Subs] :
          /\ \A e \in Events :
                /\ O[e] \subseteq owed[e]
                /\ accounted[e] \subseteq A[e]
                /\ owed[e] \ O[e] \subseteq A[e]
                /\ A[e] # accounted[e] => e \in published
          /\ owed' = O
          /\ accounted' = A
    /\ UNCHANGED published

Next ==
    \/ \E e \in Events : Publish(e) \/ Answer(e)
    \/ Settle

Spec == Init /\ [][Next]_vars

=============================================================================
