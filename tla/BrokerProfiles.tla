--------------------------- MODULE BrokerProfiles ---------------------------
(***************************************************************************)
(* What tells the brokers under broker/ apart when they subscribe and      *)
(* disconnect.  Every broker implements the same interface over a          *)
(* SubscriberSyncMap; they differ in the order of the steps, in what a     *)
(* step acts on and in what closing the client does to a consumer.  Each   *)
(* broker is a record of                                                   *)
(*   subscribe   the steps of Subscribe, in the order of the code;         *)
(*   disconnect  the steps of Disconnect, in the order of the code;        *)
(*   unsubscribe what Subscriber.Unsubscribe acts on: the subscriber's own *)
(*               consumer ("own"), or the topic of a client shared by all  *)
(*               subscribers ("topic"); "ownOnce" and "topicOnce" when a   *)
(*               closed subscriber returns at once.                        *)
(* Steps of Subscribe:                                                     *)
(*   client   return an error when there is no client                      *)
(*   ask      a request that may fail and starts nothing                   *)
(*   askNil   the same, through the client field, read again               *)
(*   open     start consuming through the client the call holds; may fail, *)
(*            and does fail once that client is closed                     *)
(*   openNil  the same, but the client field is read again: nil by now     *)
(*            when Disconnect has cleared it                               *)
(*   start    go receive through the client the call holds: cannot fail,   *)
(*            but receives nothing once that client is closed              *)
(*   startNil the same, but the client field is read again                 *)
(*   dial     start consuming over a connection of its own; may fail       *)
(*   dialIf   the same on a connected broker, and nothing on another       *)
(*   spawn    go receive over a connection of its own                      *)
(*   get, unsub, add   look up, unsubscribe and replace the map's entry    *)
(*   declare  declare the queue; on failure RemoveOnly(topic)              *)
(* Steps of Disconnect:                                                    *)
(*   guard    return when not connected                                    *)
(*   stopEach stop the consumer of every entry (NSQ)                       *)
(*   swap, unsubAll   SubscriberSyncMap.Clear                              *)
(*   close    close the client: every consumer on it dies                  *)
(*   drop     forget the client: consumers that hold it are not told       *)
(***************************************************************************)
EXTENDS Sequences

Clear == <<"swap", "unsubAll">>

\* Subscribe of the brokers that replace the map's entry last.
Replace == <<"get", "unsub", "add">>

\* Mutant: the old subscriber goes before the new one is there.
NatsSubscribeUnsubFirst == <<"client", "get", "unsub", "open", "add">>
NatsSubscribe == <<"client", "open">> \o Replace
NatsDisconnect == Clear \o <<"close">>
NatsUnsubscribe == "own"

JetStreamSubscribe == <<"client", "open">> \o Replace
JetStreamDisconnect == Clear \o <<"close">>

PulsarSubscribe == <<"client", "openNil">> \o Replace
PulsarDisconnect == <<"guard">> \o Clear \o <<"close">>
PulsarUnsubscribe == "ownOnce"

\* Mutant: the same.
StompSubscribeUnsubFirst == <<"client", "get", "unsub", "open", "add">>
StompSubscribe == <<"client", "open">> \o Replace
StompDisconnect == Clear \o <<"close">>
StompUnsubscribe == "own"

AzureSubscribe == <<"client", "open">> \o Replace
AzureDisconnect == <<"guard">> \o Clear \o <<"close">>
AzureUnsubscribe == "own"

GcpSubscribe == <<"client", "start">> \o Replace
GcpDisconnect == <<"guard">> \o Clear \o <<"close">>
GcpUnsubscribe == "own"

SqsSubscribe == <<"client", "ask", "startNil">> \o Replace
\* Mutant: subscribers are not cleared.
SqsDisconnectNoClear == <<"guard", "drop">>
SqsDisconnect == <<"guard">> \o Clear \o <<"drop">>
SqsUnsubscribe == "own"

\* Kafka asks nobody: the reader connects by itself, in the goroutine.
KafkaSubscribe == <<"spawn">> \o Replace
KafkaDisconnect == <<"guard">> \o Clear \o <<"drop">>
KafkaUnsubscribe == "own"

RedisPubSubSubscribe == <<"client", "openNil">> \o Replace
RedisPubSubDisconnect == <<"guard", "drop">> \o Clear
RedisPubSubUnsubscribe == "own"

RedisStreamSubscribe == <<"client", "askNil">> \o Replace \o <<"spawn">>
RedisStreamDisconnect == <<"guard", "drop">> \o Clear
RedisStreamUnsubscribe == "own"

\* RocketMQ 4 (rocketmq-client-go): Disconnect leaves the consumers alone.
RocketV2Subscribe == <<"dial">> \o Replace
RocketV2Disconnect == <<"guard", "drop">>
RocketV2Unsubscribe == "own"

RabbitSubscribe == Replace \o <<"declare", "spawn">>
\* A subscriber nobody closed can come back with the next connection.
RabbitDisconnect == Clear \o <<"drop">>
RabbitUnsubscribe == "own"

\* MQTT: one client for all topics; the old entry goes first.
MqttSubscribe == <<"client", "get", "unsub", "open", "add">>
MqttDisconnect == <<"guard", "close">> \o Clear
MqttUnsubscribe == "topic"

\* RocketMQ 5 (rocketmq-clients): one consumer for all topics; the map's
\* entry is overwritten, nobody unsubscribes it.
RocketV5Subscribe == <<"dial", "add">>
RocketV5Disconnect == <<"guard", "close">>
RocketV5Unsubscribe == "topicOnce"

\* NSQ: Subscribe on a broker that is not connected only enters the map.
NsqSubscribe == <<"dialIf">> \o Replace
NsqDisconnect == <<"guard", "stopEach">> \o Clear \o <<"drop">>
NsqUnsubscribe == "own"

\* Alibaba Cloud RocketMQ over HTTP: the map is not used at all.
AliyunSubscribe == <<"client", "startNil">>
AliyunDisconnect == <<"guard", "drop">>
AliyunUnsubscribe == "ownOnce"

Broker(s, d, u) == [subscribe |-> s, disconnect |-> d, unsubscribe |-> u]

Profile ==
    [ nats        |-> Broker(NatsSubscribe, NatsDisconnect, NatsUnsubscribe),
      jetstream   |-> Broker(JetStreamSubscribe, JetStreamDisconnect,
                             NatsUnsubscribe),
      pulsar      |-> Broker(PulsarSubscribe, PulsarDisconnect,
                             PulsarUnsubscribe),
      stomp       |-> Broker(StompSubscribe, StompDisconnect, StompUnsubscribe),
      azuresb     |-> Broker(AzureSubscribe, AzureDisconnect, AzureUnsubscribe),
      gcpubsub    |-> Broker(GcpSubscribe, GcpDisconnect, GcpUnsubscribe),
      sqs         |-> Broker(SqsSubscribe, SqsDisconnect, SqsUnsubscribe),
      kafka       |-> Broker(KafkaSubscribe, KafkaDisconnect, KafkaUnsubscribe),
      redispubsub |-> Broker(RedisPubSubSubscribe, RedisPubSubDisconnect,
                             RedisPubSubUnsubscribe),
      redisstream |-> Broker(RedisStreamSubscribe, RedisStreamDisconnect,
                             RedisStreamUnsubscribe),
      rocketv2    |-> Broker(RocketV2Subscribe, RocketV2Disconnect,
                             RocketV2Unsubscribe),
      rabbitmq    |-> Broker(RabbitSubscribe, RabbitDisconnect,
                             RabbitUnsubscribe),
      mqtt        |-> Broker(MqttSubscribe, MqttDisconnect, MqttUnsubscribe),
      rocketv5    |-> Broker(RocketV5Subscribe, RocketV5Disconnect,
                             RocketV5Unsubscribe),
      nsq         |-> Broker(NsqSubscribe, NsqDisconnect, NsqUnsubscribe),
      aliyun      |-> Broker(AliyunSubscribe, AliyunDisconnect,
                             AliyunUnsubscribe) ]

\* Connect starts the consumers of the map's open entries, or, by topic, of all.
NsqResumes == "open"
MqttResumes == "all"
Resumes == [nsq |-> NsqResumes, mqtt |-> MqttResumes]
=============================================================================
