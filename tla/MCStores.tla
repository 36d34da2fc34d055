-------------------------------- MODULE MCStores --------------------------------
(* The outbox's tables, or an event store: the two share no state. *)
EXTENDS OutboxStore, EventStore, TLC

CONSTANTS g, n1, n2, u1, u2, s1, s2, q1, q2
VARIABLE stored

\* One event, owed to whoever is registered for it.
DestOne == [e \in Events |-> 1]
NoneNamed == [e \in Events |-> {}]
OneGroup == [n \in Nodes |-> g]

storesVars == <<stored, vars, eventVars>>

\* The store that is not run is in one of its initial states.
StoresInit ==
  /\ Init /\ EventInit
  /\ \/ stored = "events"
     \/ stored = "outbox" /\ strategy = "head-row" /\ \A q, r \in Readers : storeOf[q] = storeOf[r]

OutboxTurn == stored = "outbox" /\ Next /\ UNCHANGED <<stored, eventVars>>
EventTurn == stored = "events" /\ EventNext /\ UNCHANGED <<stored, vars>>

StoresSpec == StoresInit /\ [][OutboxTurn \/ EventTurn]_storesVars

StoresTypeOK == TypeOK /\ EventTypeOK

MCSymmetry == {p @@ q @@ t @@ v : p \in Permutations(Nodes), q \in Permutations(Units),
                                  t \in Permutations(Readers), v \in Permutations(Stores)}
=================================================================================
