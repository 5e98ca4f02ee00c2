-------------------------- MODULE DeliveryProfiles --------------------------
(***************************************************************************)
(* How the brokers under broker/ deal with a message they receive.  Each   *)
(* is a record of                                                          *)
(*   server   what the message server does with a message it hands out:    *)
(*     "once"    forgets it (no acknowledgement, or the automatic one)     *)
(*     "single"  keeps it until it is settled and hands it out again       *)
(*     "offset"  keeps an offset per consumer group: to settle a message   *)
(*               settles those before it, and only a restart goes back     *)
(*     "batch"   takes one answer for all messages of a call               *)
(*   take     how many messages the receive loop holds (0: no limit)       *)
(*   workers  messages that are handled at the same time                   *)
(*   bad, fail, ok  the steps after Unmarshal failed, after the handler    *)
(*            failed and after it succeeded, with automatic acknowledgement*)
(*     err    the error is stored in the publication                       *)
(*     eh     the ErrorHandler is called with the publication              *)
(*     ack    the message is acknowledged                                  *)
(*     nack   it is given back; drop: it is refused for good               *)
(*     fault  the call will be answered with a failure                     *)
(*     xack   XACK with the identifier read from the reply                 *)
(***************************************************************************)
EXTENDS Naturals, Sequences

Outcome(b, f, o) == [bad |-> b, fail |-> f, ok |-> o]

Reported == <<"err", "eh">>
GivenBack == <<"err", "eh", "nack">>
Done == <<"err", "eh", "ack">>

NatsOutcome == Outcome(Reported, Reported, <<>>)

\* Mutant: the handler's failure falls through to Ack.
JetStreamOutcomeAcks == Outcome(GivenBack, Done, <<"ack">>)
JetStreamOutcome == Outcome(GivenBack, GivenBack, <<"ack">>)

PulsarOutcome == Outcome(GivenBack, GivenBack, <<"ack">>)

\* With the ackSuccess option; the error is stored after the ErrorHandler ran.
StompOutcome == Outcome(GivenBack, <<"eh", "nack", "err">>, <<"ack">>)

\* Mutant: a message that was handled is not completed.
AzureOutcomeKeeps == Outcome(GivenBack, GivenBack, <<>>)
AzureOutcome == Outcome(GivenBack, GivenBack, <<"ack">>)

\* The ErrorHandler does not hear of a message that cannot be decoded.
GcpOutcome == Outcome(<<"nack">>, GivenBack, <<"ack">>)

SqsOutcome == Outcome(Reported, Reported, <<"ack">>)

\* The publication's error is never set.
KafkaOutcome == Outcome(<<"eh">>, <<"eh">>, <<"ack">>)

\* With the ackSuccess option, without and with requeueOnError.
RabbitOutcome == Outcome(<<"err", "eh", "drop">>, <<"err", "eh", "drop">>, <<"ack">>)
RabbitRequeueOutcome == Outcome(GivenBack, GivenBack, <<"ack">>)

\* The client library acknowledges when the callback returns.
MqttOutcome == Outcome(Done, Done, <<"ack">>)

\* Mutant: a message that cannot be decoded is finished without a word.
NsqOutcomeSilent == Outcome(<<"ack">>, Done, <<"ack">>)
\* Failures are finished too: no redelivery.
NsqOutcome == Outcome(Done, Done, <<"ack">>)

RedisPubSubOutcome == Outcome(Reported, Reported, <<>>)

RedisStreamOutcome == Outcome(Reported, Reported, <<"xack">>)

RocketV2Outcome == Outcome(<<"err", "fault">>, <<"eh", "fault">>, <<>>)

RocketV5Outcome == Outcome(Reported, Reported, <<"ack">>)

AliyunOutcome == Outcome(<<"eh">>, <<"eh">>, <<"ack">>)

Receive(s, t, w) == [server |-> s, take |-> t, workers |-> w]

NatsReceive == Receive("once", 0, 1)
JetStreamReceive == Receive("single", 10, 1)
PulsarReceive == Receive("single", 100, 1)
StompReceive == Receive("single", 0, 2)
AzureReceive == Receive("single", 1, 1)
GcpReceive == Receive("single", 0, 2)
SqsReceive == Receive("single", 10, 1)
KafkaReceive == Receive("offset", 0, 1)
RabbitReceive == Receive("single", 0, 1)
MqttReceive == Receive("single", 1, 1)
NsqReceive == Receive("single", 0, 2)
RedisPubSubReceive == Receive("once", 1, 1)
RedisStreamReceive == Receive("single", 10, 1)
RocketV2Receive == Receive("batch", 0, 1)
RocketV5Receive == Receive("single", 16, 1)
AliyunReceive == Receive("single", 3, 1)

Brokers ==
    [ nats          |-> [r |-> NatsReceive, o |-> NatsOutcome],
      jetstream     |-> [r |-> JetStreamReceive, o |-> JetStreamOutcome],
      pulsar        |-> [r |-> PulsarReceive, o |-> PulsarOutcome],
      stomp         |-> [r |-> StompReceive, o |-> StompOutcome],
      azuresb       |-> [r |-> AzureReceive, o |-> AzureOutcome],
      gcpubsub      |-> [r |-> GcpReceive, o |-> GcpOutcome],
      sqs           |-> [r |-> SqsReceive, o |-> SqsOutcome],
      kafka         |-> [r |-> KafkaReceive, o |-> KafkaOutcome],
      rabbitmq      |-> [r |-> RabbitReceive, o |-> RabbitOutcome],
      rabbitRequeue |-> [r |-> RabbitReceive, o |-> RabbitRequeueOutcome],
      mqtt          |-> [r |-> MqttReceive, o |-> MqttOutcome],
      nsq           |-> [r |-> NsqReceive, o |-> NsqOutcome],
      redispubsub   |-> [r |-> RedisPubSubReceive, o |-> RedisPubSubOutcome],
      redisstream   |-> [r |-> RedisStreamReceive, o |-> RedisStreamOutcome],
      rocketv2      |-> [r |-> RocketV2Receive, o |-> RocketV2Outcome],
      rocketv5      |-> [r |-> RocketV5Receive, o |-> RocketV5Outcome],
      aliyun        |-> [r |-> AliyunReceive, o |-> AliyunOutcome] ]
=============================================================================
