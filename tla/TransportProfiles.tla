-------------------------- MODULE TransportProfiles -------------------------
(***************************************************************************)
(* The transport servers that own a broker.  Each is a record of           *)
(*   start     the steps of Start and doRegisterSubscriberMap;             *)
(*   stop      the steps of Stop before and after the broker's Disconnect; *)
(*   register  what RegisterSubscriber does: on a stopped server it caches *)
(*             the registration, on a started one doRegisterSubscriber     *)
(*             takes these steps after the broker's Subscribe.             *)
(* Steps of Start:                                                         *)
(*   connect    Init and Connect of the broker                             *)
(*   flag       set started                                                *)
(*   keepalive  go and start the keepalive server                          *)
(*   take       take the cached registrations, to be registered one by one *)
(* Steps of Stop (started is reset by the call itself):                    *)
(*   swapTable, unsubAll   unsubscribe everything in the server's table    *)
(*   keepalive  stop the keepalive server                                  *)
(* Steps of doRegisterSubscriber:                                          *)
(*   record     the critical section: enter the subscriber into the table  *)
(*   cleanup    unsubscribe what it replaced, or the late newcomer itself  *)
(***************************************************************************)
EXTENDS Sequences

StopSteps(before, after) == [before |-> before, after |-> after]

ActivemqStart == <<"connect", "flag", "keepalive", "take">>
ActivemqStop == StopSteps(<<"swapTable", "unsubAll">>, <<"keepalive">>)
ActivemqRegister == <<"record", "cleanup">>

AzuresbStart == <<"connect", "flag", "keepalive", "take">>
AzuresbStop == StopSteps(<<"swapTable", "unsubAll">>, <<"keepalive">>)
AzuresbRegister == <<"record", "cleanup">>

GcpubsubStart == <<"connect", "flag", "keepalive", "take">>
GcpubsubStop == StopSteps(<<"swapTable", "unsubAll">>, <<"keepalive">>)
GcpubsubRegister == <<"record", "cleanup">>

KafkaStart == <<"connect", "flag", "keepalive", "take">>
KafkaStop == StopSteps(<<"swapTable", "unsubAll">>, <<"keepalive">>)
KafkaRegister == <<"record", "cleanup">>

MqttStart == <<"connect", "flag", "keepalive", "take">>
MqttStop == StopSteps(<<"swapTable", "unsubAll">>, <<"keepalive">>)
MqttRegister == <<"record", "cleanup">>

NatsStart == <<"connect", "flag", "keepalive", "take">>
NatsStop == StopSteps(<<"swapTable", "unsubAll">>, <<"keepalive">>)
NatsRegister == <<"record", "cleanup">>

NsqStart == <<"connect", "flag", "keepalive", "take">>
NsqStop == StopSteps(<<"swapTable", "unsubAll">>, <<"keepalive">>)
NsqRegister == <<"record", "cleanup">>

PulsarStart == <<"connect", "flag", "keepalive", "take">>
PulsarStop == StopSteps(<<"swapTable", "unsubAll">>, <<"keepalive">>)
PulsarRegister == <<"record", "cleanup">>

RabbitmqStart == <<"connect", "flag", "keepalive", "take">>
RabbitmqStop == StopSteps(<<"swapTable", "unsubAll">>, <<"keepalive">>)
RabbitmqRegister == <<"record", "cleanup">>

RedisStart == <<"connect", "flag", "keepalive", "take">>
RedisStop == StopSteps(<<"swapTable", "unsubAll">>, <<"keepalive">>)
RedisRegister == <<"record", "cleanup">>

RocketmqStart == <<"connect", "flag", "keepalive", "take">>
RocketmqStop == StopSteps(<<"swapTable", "unsubAll">>, <<"keepalive">>)
RocketmqRegister == <<"record", "cleanup">>

SqsStart == <<"connect", "flag", "keepalive", "take">>
SqsStop == StopSteps(<<"swapTable", "unsubAll">>, <<"keepalive">>)
SqsRegister == <<"record", "cleanup">>

Server(s, p, r) == [start |-> s, stop |-> p, register |-> r]

Activemq == Server(ActivemqStart, ActivemqStop, ActivemqRegister)
Nats == Server(NatsStart, NatsStop, NatsRegister)
Redis == Server(RedisStart, RedisStop, RedisRegister)
Rocketmq == Server(RocketmqStart, RocketmqStop, RocketmqRegister)

\* The transport server of every broker.
Transport ==
    [ nats        |-> Nats,
      jetstream   |-> Nats,
      pulsar      |-> Server(PulsarStart, PulsarStop, PulsarRegister),
      stomp       |-> Activemq,
      azuresb     |-> Server(AzuresbStart, AzuresbStop, AzuresbRegister),
      gcpubsub    |-> Server(GcpubsubStart, GcpubsubStop, GcpubsubRegister),
      sqs         |-> Server(SqsStart, SqsStop, SqsRegister),
      kafka       |-> Server(KafkaStart, KafkaStop, KafkaRegister),
      redispubsub |-> Redis,
      redisstream |-> Redis,
      rocketv2    |-> Rocketmq,
      rocketv5    |-> Rocketmq,
      aliyun      |-> Rocketmq,
      rabbitmq    |-> Server(RabbitmqStart, RabbitmqStop, RabbitmqRegister),
      mqtt        |-> Server(MqttStart, MqttStop, MqttRegister),
      nsq         |-> Server(NsqStart, NsqStop, NsqRegister) ]
=============================================================================
