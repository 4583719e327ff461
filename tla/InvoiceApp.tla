------------------------------ MODULE InvoiceApp ---------------------------
(***************************************************************************)
(* services/invoices/src/app.js: how a process of the invoices service     *)
(* comes up.  The producer, the consumer and the gRPC server are started   *)
(* one after the other.  Each Kafka client has one fixed time to become    *)
(* ready: a timer of 1 s for the producer and of 3 s for the consumer      *)
(* looks once, and a client that is late ends the process.  The consumer   *)
(* reads from the moment it is ready, before its timer has fired and       *)
(* before the gRPC server is there.                                        *)
(***************************************************************************)

VARIABLES phase,          \* which of the steps of initPromise is running
          producerReady,  \* KafkaProducer.ready
          consumerReady   \* KafkaConsumer.ready

appVars == <<phase, producerReady, consumerReady>>

Phases == {"producer", "consumer", "serving", "exited"}

\* A fresh process.  connect() of the producer is the first step.
AppInit ==
    /\ phase = "producer"
    /\ producerReady = FALSE
    /\ consumerReady = FALSE

ProducerReady ==
    /\ phase = "producer"
    /\ producerReady' = TRUE
    /\ UNCHANGED <<phase, consumerReady>>

\* Mutant of InTime: the timer starts the next step without looking.
InTimeAlways(ready) == TRUE

\* What a timer of connect looks at.
InTime(ready) == ready

\* initPromise goes on, or its catch runs to process.exit(1) without giving
\* way to another callback.
GoOn(ready, next) == phase' = IF InTime(ready) THEN next ELSE "exited"

\* The timer of the producer's connect.
ProducerTimer ==
    /\ phase = "producer"
    /\ GoOn(producerReady, "consumer")
    /\ UNCHANGED <<producerReady, consumerReady>>

\* subscribe and consume are called at once.
ConsumerReady ==
    /\ phase = "consumer"
    /\ consumerReady' = TRUE
    /\ UNCHANGED <<phase, producerReady>>

\* The timer of the consumer's connect; initGRPCServer starts the server in
\* the same turn of the event loop.
ConsumerTimer ==
    /\ phase = "consumer"
    /\ GoOn(consumerReady, "serving")
    /\ UNCHANGED <<producerReady, consumerReady>>

\* The deployment starts the service again, after an exit or a kill
\* (docker-compose.yml has no restart policy; no property needs this step).
AppRestart ==
    /\ phase' = "producer"
    /\ producerReady' = FALSE
    /\ consumerReady' = FALSE

AppStep == ProducerReady \/ ProducerTimer \/ ConsumerReady \/ ConsumerTimer

AppTypeOK ==
    /\ phase \in Phases
    /\ producerReady \in BOOLEAN
    /\ consumerReady \in BOOLEAN
=============================================================================
