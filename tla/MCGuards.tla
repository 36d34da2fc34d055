------------------------------- MODULE MCGuards -------------------------------
(***************************************************************************)
(* What concurrent tasks share: a unit of work, a lease, a bulkhead or a   *)
(* circuit breaker.  A behaviour is one of one of them, for they share no  *)
(* state.                                                                  *)
(***************************************************************************)
EXTENDS CircuitBreaker, QueuedBulkhead, LeaseLock, UnitOfWork

CONSTANTS c1, c2, c3, c4, c5, n1, n2, root
VARIABLE guarded

MCHome == (c1 :> n1) @@ (c2 :> n1) @@ (c3 :> n2)

MCSymmetry == Permutations({c4, c5})

(* A unit that is marked outside every savepoint, or poisoned, is followed no  *)
(* further: it commits nothing, but for one whose commit was decided before an *)
(* operation in flight failed.                                                *)
MCConstraint == MayCommit

unshared == <<guarded, breakerVars, bulkheadVars, leaseVars, uowVars>>

Init ==
  /\ guarded \in {"unit", "lease", "bulkhead", "breaker"}
  /\ BreakerInit /\ (guarded # "breaker" => byRate = FALSE)
  /\ BulkheadInit /\ LeaseInit /\ UowInit

UnitTurn == UowNext /\ UNCHANGED <<breakerVars, bulkheadVars, leaseVars>>
LeaseTurn == LeaseNext /\ UNCHANGED <<breakerVars, bulkheadVars, uowVars>>
BulkheadTurn == BulkheadNext /\ UNCHANGED <<breakerVars, leaseVars, uowVars>>
BreakerTurn == BreakerNext /\ UNCHANGED <<bulkheadVars, leaseVars, uowVars>>

Next == /\ UNCHANGED guarded
        /\ \/ guarded = "unit" /\ UnitTurn
           \/ guarded = "lease" /\ LeaseTurn
           \/ guarded = "bulkhead" /\ BulkheadTurn
           \/ guarded = "breaker" /\ BreakerTurn

Spec == Init /\ [][Next]_unshared

TypeOK == BreakerTypeOK /\ BulkheadTypeOK /\ LeaseTypeOK /\ UowTypeOK

================================================================================
