-------------------------- MODULE PublishProfiles ---------------------------
(***************************************************************************)
(* How the brokers under broker/ publish, and what Connect and Disconnect  *)
(* do to the things they publish with: a client, and for some a cache of   *)
(* producers (one per topic).  A publishing profile is a record of         *)
(*   main     the steps of publish                                         *)
(*   fresh    the steps after the send failed on a producer just made      *)
(*   stale    ... on a producer that came from the cache                   *)
(*                                                                         *)
(*     nil      the client field is read without a lock; nil is an error   *)
(*     up       the connection is down: an error                           *)
(*     copy     nil check under the lock, and the client is kept           *)
(*     lookup   under the lock: the cached producer, or a new one of the   *)
(*              client field, which is cached                              *)
(*     lookupk  the same with a new one of the client that was kept        *)
(*     open     a producer of the client that was kept, for this call only *)
(*     send     with the producer that was looked up                       *)
(*     sendf    with the producer the field holds by now, without a lock   *)
(*     sendc    with the client the field holds by now, without a lock     *)
(*     sendk    with the client that was kept                              *)
(*     locked   nil check and send with the client, under the lock         *)
(*     post     the message is left to the producer; postk: nil check and  *)
(*              the message is left to the client, under the lock          *)
(*     again    the send once more, when the error is a temporary one;     *)
(*              againf: with the producer the field holds by now           *)
(*     drop     under the lock: close the producer, clear the cache entry  *)
(*     dropf    the same with the producer the field holds by now          *)
(*     remake   a new producer of the client field, not cached             *)
(*     resend   the send with that one                                     *)
(*     keep     cache it if that succeeded;  tidy: close it if it failed   *)
(*     close    close the producer                                         *)
(*                                                                         *)
(* A life cycle is a record of                                             *)
(*   client   who makes the client: "init", "connect", "none"              *)
(*   guard    Connect returns early when the connected flag is set         *)
(*            ("flag"), when the client field is ("nil"), never ("none")   *)
(*   off      Disconnect returns early by the same test                    *)
(*   steps    of Disconnect, each set under one lock: it closes the cached *)
(*            producers and empties the cache ("prods"; "prodsErr": a      *)
(*            failure to close one ends Disconnect), closes the client,    *)
(*            clears its field, clears the flag, closes the done channel   *)
(*   bound    producers are useless once their client is closed            *)
(***************************************************************************)
EXTENDS Naturals, Sequences

Sends(m, f, s) == [main |-> m, fresh |-> f, stale |-> s]

\* Mutant: a retry that failed leaves the new producer open.
PulsarPublishLeaks == Sends(<<"lookup", "send">>, <<>>, <<"drop", "remake", "resend", "keep">>)
PulsarPublish == Sends(<<"lookup", "send">>, <<>>, <<"drop", "remake", "resend", "keep", "tidy">>)

KafkaMultiPublish == Sends(<<"lookup", "send">>, <<"again">>,
                           <<"drop", "remake", "resend", "keep", "tidy">>)

KafkaOnePublish == Sends(<<"lookup", "sendf">>, <<"againf">>,
                         <<"dropf", "remake", "resend", "keep", "tidy">>)

\* The producer of a retry that failed is not shut down.
RocketV2Publish == Sends(<<"lookup", "send">>, <<>>, <<"drop", "remake", "resend", "keep">>)

RocketV5Publish == Sends(<<"lookup", "send">>, <<>>, <<>>)
\* With the SendAsync option.
RocketV5PublishAsync == Sends(<<"lookup", "post">>, <<>>, <<>>)

AliyunPublish == Sends(<<"nil", "lookup", "send">>, <<>>, <<>>)

GcpPublish == Sends(<<"copy", "lookupk", "send">>, <<>>, <<>>)

AzurePublish == Sends(<<"copy", "open", "send", "close">>, <<>>, <<>>)

SqsPublish == Sends(<<"nil", "sendc">>, <<>>, <<>>)

RedisPubSubPublish == Sends(<<"nil", "sendc">>, <<>>, <<>>)

RedisStreamPublish == Sends(<<"nil", "sendc">>, <<>>, <<>>)

StompPublish == Sends(<<"nil", "sendc">>, <<>>, <<>>)

MqttPublish == Sends(<<"up", "sendc">>, <<>>, <<>>)

\* Mutant: the producers are read without the lock, once to look whether there
\* is one and once to take it.
NsqPublishUnlocked == Sends(<<"nil", "sendc">>, <<>>, <<>>)
NsqPublish == Sends(<<"copy", "sendk">>, <<>>, <<>>)

NatsPublish == Sends(<<"postk">>, <<>>, <<>>)

JetStreamPublish == Sends(<<"locked">>, <<>>, <<>>)

-----------------------------------------------------------------------------
Life(c, g, o, s, b) == [client |-> c, guard |-> g, off |-> o, steps |-> s, bound |-> b]

\* Mutant: the closed client stays in its field, and Connect finds it there.
PulsarLifeKeeps == Life("init", "flag", TRUE, <<{"prods", "close", "flag"}>>, TRUE)
\* Init has made the first client.
PulsarLife == Life("init", "flag", TRUE, <<{"prods", "close", "nil", "flag"}>>, TRUE)
KafkaLife == Life("none", "flag", TRUE, <<{"prods", "flag"}>>, FALSE)
RocketV2Life == Life("none", "flag", TRUE, <<{"prodsErr", "flag"}>>, FALSE)
RocketV5Life == Life("none", "flag", TRUE, <<{"done", "prodsErr", "flag"}>>, FALSE)
\* There is nothing to close: the client is stateless, and so are its producers.
AliyunLife == Life("connect", "flag", TRUE, <<{"nil", "flag"}>>, FALSE)
GcpLife == Life("connect", "flag", FALSE, <<{"prods"}, {"close", "nil", "flag"}>>, TRUE)
AzureLife == Life("connect", "flag", TRUE, <<{"close", "nil", "flag"}>>, TRUE)
SqsLife == Life("connect", "flag", TRUE, <<{"close", "nil", "flag"}>>, FALSE)
RedisPubSubLife == Life("connect", "nil", TRUE, <<{"close"}, {"nil", "flag"}>>, FALSE)
RedisStreamLife == Life("connect", "nil", TRUE, <<{"close"}, {"nil", "flag"}>>, FALSE)
StompLife == Life("connect", "none", FALSE, <<{"close", "flag"}>>, FALSE)
MqttLife == Life("connect", "flag", TRUE, <<{"close", "flag"}>>, FALSE)
NsqLife == Life("connect", "flag", TRUE, <<{"close", "nil", "flag"}>>, FALSE)
NatsLife == Life("connect", "flag", FALSE, <<{"close", "flag"}>>, FALSE)
JetStreamLife == Life("connect", "flag", FALSE, <<{"close", "flag"}>>, FALSE)

\* Their producers are made without asking anybody.
Unasked == {"kafkaMulti", "kafkaOne", "gcpubsub", "aliyun"}

Brokers ==
    [ pulsar      |-> [p |-> PulsarPublish, l |-> PulsarLife],
      kafkaMulti  |-> [p |-> KafkaMultiPublish, l |-> KafkaLife],
      kafkaOne    |-> [p |-> KafkaOnePublish, l |-> KafkaLife],
      rocketv2    |-> [p |-> RocketV2Publish, l |-> RocketV2Life],
      rocketv5    |-> [p |-> RocketV5Publish, l |-> RocketV5Life],
      rocketv5Async |-> [p |-> RocketV5PublishAsync, l |-> RocketV5Life],
      aliyun      |-> [p |-> AliyunPublish, l |-> AliyunLife],
      gcpubsub    |-> [p |-> GcpPublish, l |-> GcpLife],
      azuresb     |-> [p |-> AzurePublish, l |-> AzureLife],
      sqs         |-> [p |-> SqsPublish, l |-> SqsLife],
      redispubsub |-> [p |-> RedisPubSubPublish, l |-> RedisPubSubLife],
      redisstream |-> [p |-> RedisStreamPublish, l |-> RedisStreamLife],
      stomp       |-> [p |-> StompPublish, l |-> StompLife],
      mqtt        |-> [p |-> MqttPublish, l |-> MqttLife],
      nsq         |-> [p |-> NsqPublish, l |-> NsqLife],
      nats        |-> [p |-> NatsPublish, l |-> NatsLife],
      jetstream   |-> [p |-> JetStreamPublish, l |-> JetStreamLife] ]
=============================================================================
