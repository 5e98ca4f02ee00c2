--------------------------- MODULE MCBrokerFamily ---------------------------
(***************************************************************************)
(* The instances of BrokerFamily (subscribing) and PublishFamily for model *)
(* checking.  The two share no state: a behaviour is one of them, the one  *)
(* machine names, and the other stays in an initial state.                 *)
(***************************************************************************)
EXTENDS BrokerFamily

VARIABLES machine, pubCase, pubConnected, client, cache, made, of, up, done, pub, disc,
          panicked, calls, faults
pubVars == <<pubCase, pubConnected, client, cache, made, of, up, done, pub, disc,
             panicked, calls, faults>>

\* Brokers whose Unsubscribe acts on the subscriber's own consumer.
OwnConsumer == {"nats", "jetstream", "pulsar", "stomp", "azuresb", "gcpubsub",
                "sqs", "kafka", "redispubsub", "redisstream", "rocketv2",
                "aliyun", "nsq"}

\* Brokers that never read a client field a second time.
CopiesClient == {"nats", "jetstream", "stomp", "azuresb", "gcpubsub", "kafka",
                 "rocketv2", "rabbitmq"}

\* Brokers that open the new consumer before they unsubscribe the old one.
OpensFirst == {"nats", "jetstream", "pulsar", "stomp", "azuresb", "gcpubsub",
               "sqs", "kafka", "redispubsub", "redisstream", "rocketv2", "nsq"}

\* Brokers that, besides, close the client the consumers use.
CopiesAndCloses == CopiesClient \cap ClosesClient

CONSTANTS t1, c1
Case(members, layer, overlap, topics, callers) ==
    [member : members, layer : {layer}, overlap : {overlap}, topics : {topics},
     callers : {callers}]

BrokerCases ==
    Case(OwnConsumer, "transport", FALSE, Topics, {c1})
    \cup Case(CopiesClient, "transport", TRUE, {t1}, {c1})
    \cup Case(OpensFirst, "broker", FALSE, Topics, {c1})
    \cup Case(CopiesAndCloses, "broker", TRUE, {t1}, Callers)

\* They cache producers, and close those they drop.
Caching == {"pulsar", "kafkaMulti", "kafkaOne", "rocketv5", "rocketv5Async", "gcpubsub"}
\* Two publishers beside each other and beside Connect and Disconnect, or one alone.
Producing == INSTANCE PublishProfiles
PublishCases ==
    [member : DOMAIN Producing!Brokers, overlap : {TRUE}, publishers : {{1, 2}}]
    \cup [member : Caching, overlap : {FALSE}, publishers : {{1}}]

Pub == INSTANCE PublishFamily WITH
    Cases <- PublishCases, MaxThings <- 5, MaxCalls <- 3, MaxFaults <- 2,
    case <- pubCase, connected <- pubConnected, crashed <- panicked

ASSUME Pub!PublishAssumption

MCInit ==
    /\ machine \in {"subscribe", "publish"} /\ Init /\ Pub!Init
    /\ IF machine = "subscribe" THEN pubCase = CHOOSE c \in PublishCases : TRUE
                                ELSE case = CHOOSE c \in Cases : TRUE

MCNext ==
    \/ machine = "subscribe" /\ Next /\ UNCHANGED <<machine, pubVars>>
    \/ machine = "publish" /\ Pub!Next /\ UNCHANGED <<machine, vars>>

MCSpec == MCInit /\ [][MCNext]_<<machine, vars, pubVars>>

\* Publish, Connect and Disconnect meet no nil field and no closed channel.
NoPanic == Pub!NoPanic
\* Publishing leaves no producer and no client open that nobody would close.
NoLeak == Pub!NoLeak
\* What Publish returns is true.
ResultTrue == Pub!ResultTrue
=============================================================================
