---------------------------- MODULE MCTransactional ----------------------------
(* One execution of a saga, or one of a TCC, or the runners of a projection:   *)
(* the engines share no state.                                                 *)
EXTENDS SagaEngine, TccEngine, ProjectionRunner

CONSTANTS s1, s2, s3, p1, p2, p3, p4, q1, q2
VARIABLE engine

MCDeps == (s1 :> {}) @@ (s2 :> {}) @@ (s3 :> {s1})
MCOrder == <<p1, p2, p3, p4>>

vars == <<engine, sagaVars, tccVars, projectionVars>>

\* An engine that is not run is in one of its initial states.  The runners of an
\* empty stream that start at its latest event start at its earliest.
SagaIdle == recovering = "off" /\ limit = 0
ProjectionIdle == startFrom = "earliest" /\ stuck = 0

Init == /\ SagaInit /\ TccInit /\ ProjectionInit
        /\ \/ engine = "saga" /\ recovering = "no" /\ ProjectionIdle
           \/ engine = "tcc" /\ SagaIdle /\ ProjectionIdle
           \/ engine = "projection" /\ SagaIdle /\ (startFrom = "latest" <=> stuck = 0)

SagaTurn == engine = "saga" /\ SagaNext /\ UNCHANGED <<engine, tccVars, projectionVars>>
TccTurn == engine = "tcc" /\ TccNext /\ UNCHANGED <<engine, sagaVars, projectionVars>>
ProjectionTurn == engine = "projection" /\ ProjectionNext /\ UNCHANGED <<engine, sagaVars, tccVars>>

Spec == /\ Init /\ [][SagaTurn \/ TccTurn \/ ProjectionTurn]_vars
        /\ WF_sagaVars(engine = "saga" /\ SagaStep /\ UNCHANGED limit)
        /\ \A r \in Runners : WF_projectionVars(engine = "projection" /\ RunnerMoves(r))
        /\ WF_projectionVars(engine = "projection" /\ LeftLeaseEnds)

\* CatchesUp, of a run of the projection.
ProjectionCatchesUp == engine = "projection" => CatchesUp

TypeOK == SagaTypeOK /\ TccTypeOK /\ ProjectionTypeOK

================================================================================
