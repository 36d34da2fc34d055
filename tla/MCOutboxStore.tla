--------------------------- MODULE MCOutboxStore ---------------------------
(* OutboxStore on small instances. Destination 0 is every destination. *)
EXTENDS OutboxStore, TLC

CONSTANTS g, h, n1, n2

\* Two events of one destination; the first is owed to h as well.
DestOne == [e \in Events |-> 1]
IncludeH == (1 :> {h}) @@ (2 :> {})
\* The second is addressed to h.
DestEach == [e \in Events |-> e]
NamedH == (1 :> {}) @@ (2 :> {h})
NoneNamed == [e \in Events |-> {}]

OneGroup == [n \in Nodes |-> g]
NodeSymmetry == Permutations(Nodes)
=============================================================================
