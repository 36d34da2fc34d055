--------------------------- MODULE MCOutboxRelay ---------------------------
(* OutboxRelay on small instances. *)
EXTENDS OutboxRelay, TLC

\* One event both subscriptions match.
BothOfOne == (1 :> {1, 2})

\* Two events; three subscriptions match the second, which no claim covers.
OneAndThree == (1 :> {1}) @@ (2 :> {1, 2, 3})

RelaySymmetry == Permutations(Relays)
=============================================================================
