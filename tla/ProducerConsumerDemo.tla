------------------------ MODULE ProducerConsumerDemo ------------------------
(***************************************************************************)
(* 06-stage6/producer-consumer-demo: producers that push their items one   *)
(* after the other, trying again while the ring buffer is full, and        *)
(* consumers that call popWait() until they have their share.  The counts  *)
(* of the threads are read off the history of the buffer.                  *)
(***************************************************************************)
EXTENDS Naturals, Sequences, FiniteSets

CONSTANTS Producers, Consumers,
          ItemsPerProducer, Capacity, Empty

VARIABLES obj, pc, log

Ring == INSTANCE RingBuffer WITH Threads <- Producers \union Consumers,
                                 Items <- Producers \X (1..ItemsPerProducer)

\* ITEMS_PER_CONSUMER, an integer division
Share == (ItemsPerProducer * Cardinality(Producers)) \div Cardinality(Consumers)

produced(p) == Cardinality({i \in DOMAIN log.in : log.in[i][1] = p})
consumed(c) == Cardinality({i \in DOMAIN log.out : log.out[i][1] = c})

producer(p) == produced(p) < ItemsPerProducer /\ Ring!Push(p, <<p, produced(p) + 1>>)
consumer(c) == consumed(c) < Share /\ (Ring!PopWait(c) \/ Ring!PopWake(c) \/ Ring!PopTimeout(c))

Init == Ring!Init
Next == (\E p \in Producers : producer(p)) \/ (\E c \in Consumers : consumer(c))

\* main() has joined them all.
Done == (\A p \in Producers : produced(p) = ItemsPerProducer) /\ (\A c \in Consumers : consumed(c) = Share)
=============================================================================
