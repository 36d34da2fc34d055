------------------------------ MODULE MCConsumers ------------------------------
(* The consumer groups of the outbox, or one of Kafka: they share no state. *)
EXTENDS MCOutboxStore, KafkaListener

CONSTANTS m1, m2
VARIABLE source

consumersVars == <<source, vars, listenerVars>>

\* The source that is not run is in one of its initial states.
ConsumersInit ==
  /\ Init /\ ListenerInit
  /\ \/ source = "kafka"
     \/ source = "outbox" /\ reset = "earliest"

OutboxTurn == source = "outbox" /\ Next /\ UNCHANGED <<source, listenerVars>>
KafkaTurn == source = "kafka" /\ ListenerNext /\ UNCHANGED <<source, vars>>

ConsumersSpec ==
  /\ ConsumersInit /\ [][OutboxTurn \/ KafkaTurn]_consumersVars
  /\ \A m \in Members :
        /\ WF_listenerVars(source = "kafka" /\ (ListenerLoop(m) \/ Polls(m, resumes[m])))
        /\ WF_listenerVars(source = "kafka" /\ Coordinator(m))
  /\ WF_listenerVars(source = "kafka" /\ GroupBroker)

ConsumersTypeOK == TypeOK /\ ListenerTypeOK
=================================================================================
