----------------------------- MODULE MCShutdown -----------------------------
(* Two producers share a name, as two calls of the producer handler's init  *)
(* would; the consumer has its own.                                         *)
EXTENDS Shutdown

MCResources == {"producer1", "producer2", "consumer"}
MCNames == {"kafkaProducer", "kafkaConsumer"}
MCNameOf == [r \in MCResources |->
               IF r = "consumer" THEN "kafkaConsumer" ELSE "kafkaProducer"]

\* One resource per name, as the servers register them.
OneEach == {"producer1", "consumer"}
OneEachNameOf == [r \in OneEach |-> MCNameOf[r]]
=============================================================================
