---------------------------- MODULE MCBrokerLinks ---------------------------
(***************************************************************************)
(* The brokers that look after their connections: the instances of         *)
(* RabbitConnection, MqttSession, RedisRecv, NsqBroker and NatsDrain for   *)
(* model checking.  They share no state, so a behaviour is one of them,    *)
(* the one link names, while the others stay in their initial states,      *)
(* where none of their goroutines runs and fairness asks nothing of them.  *)
(***************************************************************************)
EXTENDS MqttSession, Sequences

VARIABLES
    link,
    conn, rabbitUp, nconn, connected, close, wait, closed, pubCh, loop, call, pub, sub,
    losses, fails, closes, crashed,
    pool, current, made, recv, ownConn, open, ended, health, faults,
    running, subscribers, producers, openProds, topicOf, consumer, gone, consumers,
    live, todo, failed, inConnect, connects, step, newSub, tp, nilUsed,
    status, natsUp, holder, natsCall, closeCh, callbacks, conns, disconnects, broken,
    publishes

rabbitVars == <<conn, rabbitUp, nconn, connected, close, wait, closed, pubCh, loop, call,
                pub, sub, losses, fails, closes, crashed>>
redisVars == <<pool, current, made, recv, ownConn, open, ended, health, faults>>
nsqVars == <<running, subscribers, producers, openProds, topicOf, consumer, gone,
             consumers, live, todo, failed, inConnect, connects, step, newSub, tp,
             nilUsed>>
natsVars == <<status, natsUp, holder, natsCall, closeCh, callbacks, conns, disconnects,
              broken, publishes>>
vars == <<link, rabbitVars, mqttVars, redisVars, nsqVars, natsVars>>

Rabbit == INSTANCE RabbitConnection WITH
    Subs <- {"s1"}, WhenSettled <- TRUE, Publishes <- TRUE,
    MaxLost <- 2, MaxFails <- 1, MaxConns <- 5, MaxCloses <- 1,
    up <- rabbitUp, lost <- losses

\* Two of the three subscribers of MqttSession share a topic.
SharedTopic == [s1 |-> "ta", s2 |-> "ta", s3 |-> "tb"]

Redis == INSTANCE RedisRecv WITH
    MaxSubs <- 2, Held <- TRUE, MaxFaults <- 3,
    pc <- recv, conn <- ownConn, closed <- ended

\* Once with no failing request, and once with any request failing.
Nsq == INSTANCE NsqBroker WITH
    Topics <- {"ta", "tb"}, Addrs <- 2, MayFail <- FALSE, Overlap <- FALSE,
    OwnerRemoves <- {TRUE}, MaxSubs <- 3, MaxConsumers <- 5, MaxConnects <- 2,
    closed <- gone, pc <- step, sub <- newSub, crashed <- nilUsed
NsqFailing == INSTANCE NsqBroker WITH
    Topics <- {"ta", "tb"}, Addrs <- 2, MayFail <- TRUE, Overlap <- FALSE,
    OwnerRemoves <- BOOLEAN, MaxSubs <- 2, MaxConsumers <- 4, MaxConnects <- 2,
    closed <- gone, pc <- step, sub <- newSub, crashed <- nilUsed

\* When the second Disconnect sends, the first one, the closing of two connections
\* and three losses may have filled all of the channel but one place.
Nats == INSTANCE NatsDrain WITH
    Callers <- {"c1", "c2"}, MaxConns <- 2, MaxDisconnects <- 2, MaxLost <- 3,
    MaxPublishes <- 1,
    connected <- natsUp, pc <- natsCall, lost <- broken

ASSUME /\ Rabbit!RabbitAssumption /\ Redis!RedisAssumption
       /\ Nsq!NsqAssumption /\ Nats!DrainAssumption

Init ==
    /\ link \in {"rabbitmq", "mqtt", "redis", "nsq", "nsq failing", "nats"}
    /\ Rabbit!Init /\ MqttInit /\ Redis!Init /\ Nsq!Init /\ Nats!Init

Next ==
    \/ /\ link = "rabbitmq" /\ Rabbit!Next
       /\ UNCHANGED <<link, mqttVars, redisVars, nsqVars, natsVars>>
    \/ /\ link = "mqtt" /\ MqttNext
       /\ UNCHANGED <<link, rabbitVars, redisVars, nsqVars, natsVars>>
    \/ /\ link = "redis" /\ Redis!Next
       /\ UNCHANGED <<link, rabbitVars, mqttVars, nsqVars, natsVars>>
    \/ /\ link = "nsq" /\ Nsq!Next
       /\ UNCHANGED <<link, rabbitVars, mqttVars, redisVars, natsVars>>
    \/ /\ link = "nsq failing" /\ NsqFailing!Next
       /\ UNCHANGED <<link, rabbitVars, mqttVars, redisVars, natsVars>>
    \/ /\ link = "nats" /\ Nats!Next
       /\ UNCHANGED <<link, rabbitVars, mqttVars, redisVars, nsqVars>>

Spec ==
    /\ Init /\ [][Next]_vars
    /\ Rabbit!Fairness /\ MqttFairness /\ Redis!Fairness /\ Nats!Fairness

\* After a loss a RabbitMQ subscriber consumes again (resubscribe), and MQTT
\* delivers to its subscriber again (onConnectionLost, loopConnect, onConnect).
RestoredAfterLoss == Rabbit!ResubscribesAfterLoss /\ MqttRestored
\* The goroutine of an unsubscribed Redis subscriber ends (recv), and a NATS broker
\* that drains its connection returns from Disconnect (closeCh).
ClosedEnds == Redis!ClosedEnds /\ Nats!LockComesFree
\* A connected NSQ broker consumes what is registered, and every consumer and
\* producer that is open can be stopped as long as no request fails (Connect,
\* Subscribe).
RegisteredConsumed == Nsq!RegisteredConsumed /\ (link = "nsq" => Nsq!NothingLeaked)
=============================================================================
