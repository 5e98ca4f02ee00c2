----------------------------- MODULE NsqBroker ------------------------------
(***************************************************************************)
(* The NSQ broker (broker/nsq): the only one whose Subscribe may come      *)
(* before Connect.  Connect then makes the consumers of everything that is *)
(* registered.  A subscriber and its consumer are different things here:   *)
(* Connect gives a subscriber a new consumer each time it runs.            *)
(*                                                                         *)
(* Connect and Disconnect hold the broker's lock; Subscribe does not, and  *)
(* reads running without it.  The model has the nsqd addresses; with       *)
(* lookupd addresses Connect ignores the error of connecting a consumer.   *)
(***************************************************************************)
EXTENDS Naturals, Sequences, FiniteSets

CONSTANTS
    Topics,
    Addrs,         \* number of nsqd addresses
    MayFail,       \* NewConsumer, ConnectToNSQDs and Ping can fail
    Overlap,       \* Subscribe may run during the other calls
    OwnerRemoves,  \* arguments the subscribers' owner gives to Unsubscribe
    MaxSubs,       \* bound: subscriber objects
    MaxConsumers,  \* bound: consumers
    MaxConnects    \* bound: calls of Connect

NsqAssumption ==
    /\ Addrs \in Nat \ {0} /\ MayFail \in BOOLEAN /\ Overlap \in BOOLEAN
    /\ OwnerRemoves \subseteq BOOLEAN
    /\ MaxSubs \in Nat /\ MaxConsumers \in Nat /\ MaxConnects \in Nat

None == 0
VARIABLES
    running, subscribers,   \* nsqBroker
    producers, openProds,   \* held in b.producers; connections that are open
    topicOf, consumer, closed,  \* per subscriber object
    consumers, live,        \* consumers made; those that receive
    todo, failed,           \* Connect: topics still to visit, errs is not empty
    inConnect, connects,
    pc, sub, tp,            \* Subscribe: next step, the new subscriber, topic
    crashed
brokerVars == <<running, subscribers, producers, openProds>>
subVars == <<topicOf, consumer, closed>>
conVars == <<consumers, live>>
connVars == <<todo, failed, inConnect, connects>>
callVars == <<pc, sub, tp>>
vars == <<brokerVars, subVars, conVars, connVars, callVars, crashed>>

Registered == {subscribers[t] : t \in Topics} \ {None}
Idle == pc = "idle" /\ ~inConnect
Init ==
    /\ running = FALSE /\ subscribers = [t \in Topics |-> None]
    /\ producers = {} /\ openProds = {}
    /\ topicOf = <<>> /\ consumer = <<>> /\ closed = {}
    /\ consumers = 0 /\ live = {}
    /\ todo = {} /\ failed = FALSE /\ inConnect = FALSE /\ connects = 0
    /\ pc = "idle" /\ sub = None /\ tp = {}
    /\ crashed = FALSE

-----------------------------------------------------------------------------
\* Connect up to the loop over the subscribers: a failed Ping returns, and the
\* producers made before it are in no field.
Connect ==
    /\ ~crashed /\ ~inConnect /\ (Overlap \/ Idle)
    /\ ~running /\ connects < MaxConnects
    /\ connects' = connects + 1
    /\ \/ /\ producers' = {connects'} \X (1..Addrs)
          /\ openProds' = openProds \cup producers'
          /\ todo' = {t \in Topics : subscribers[t] # None}
          /\ inConnect' = TRUE /\ failed' = FALSE
       \/ /\ MayFail
          /\ \E n \in 0..(Addrs - 1) :
                openProds' = openProds \cup ({connects'} \X (1..n))
          /\ UNCHANGED <<producers, todo, inConnect, failed>>
    /\ UNCHANGED <<running, subscribers, subVars, conVars, callVars, crashed>>

\* One subscriber: NewConsumer and ConnectToNSQDs, each of which may fail; the
\* second may have connected some of the addresses by then.
ConnectSubscriber(t) ==
    /\ ~crashed /\ inConnect /\ t \in todo
    /\ todo' = todo \ {t}
    /\ LET s == subscribers[t] IN
       \/ s \in closed /\ UNCHANGED <<consumer, consumers, live, failed>>
       \/ /\ s \notin closed /\ consumers < MaxConsumers
          /\ consumers' = consumers + 1
          /\ consumer' = [consumer EXCEPT ![s] = consumers']
          /\ live' = live \cup {consumers'}
          /\ UNCHANGED failed
       \/ /\ s \notin closed /\ MayFail /\ failed' = TRUE
          /\ UNCHANGED <<consumer, consumers, live>>
       \/ /\ s \notin closed /\ MayFail /\ failed' = TRUE
          /\ consumers < MaxConsumers /\ consumers' = consumers + 1
          /\ consumer' = [consumer EXCEPT ![s] = consumers']
          /\ Addrs > 1 /\ live' = live \cup {consumers'}
    /\ UNCHANGED <<brokerVars, topicOf, closed, inConnect, connects, callVars, crashed>>

\* Mutant: only the last error counts.
ConnectReturnHides ==
    /\ ~crashed /\ inConnect /\ todo = {}
    /\ inConnect' = FALSE /\ running' = TRUE
    /\ UNCHANGED <<subscribers, producers, openProds, subVars, conVars, todo,
                   failed, connects, callVars, crashed>>

ConnectReturn ==
    /\ ~crashed /\ inConnect /\ todo = {}
    /\ inConnect' = FALSE
    /\ running' = ~failed
    /\ UNCHANGED <<subscribers, producers, openProds, subVars, conVars, todo,
                   failed, connects, callVars, crashed>>

\* Every consumer is stopped, through a field that may be nil; then Clear.
Disconnect ==
    /\ ~crashed /\ ~inConnect /\ (Overlap \/ Idle) /\ running
    /\ openProds' = openProds \ producers /\ producers' = {}
    /\ crashed' = \E s \in Registered : consumer[s] = None
    /\ live' = live \ {consumer[s] : s \in Registered}
    /\ closed' = closed \cup Registered
    /\ subscribers' = [t \in Topics |-> None]
    /\ running' = FALSE
    /\ UNCHANGED <<topicOf, consumer, consumers, connVars, callVars>>

-----------------------------------------------------------------------------
NewSubscriber(t, c) ==
    /\ Len(topicOf) < MaxSubs
    /\ topicOf' = Append(topicOf, t) /\ consumer' = Append(consumer, c)
    /\ sub' = Len(topicOf) + 1

\* Subscribe reads running: only register, or make the consumer first.
Subscribe(t) ==
    /\ ~crashed /\ pc = "idle" /\ (Overlap \/ Idle)
    /\ tp' = {t}
    /\ IF running THEN pc' = "dial" /\ UNCHANGED <<topicOf, consumer, sub>>
                  ELSE pc' = "replace" /\ NewSubscriber(t, None)
    /\ UNCHANGED <<brokerVars, closed, conVars, connVars, crashed>>

\* NewConsumer and ConnectToNSQDs; on an error nobody holds the consumer.
SubscribeDial(t) ==
    /\ ~crashed /\ pc = "dial" /\ tp = {t}
    /\ \/ /\ consumers < MaxConsumers /\ consumers' = consumers + 1
          /\ live' = live \cup {consumers'}
          /\ NewSubscriber(t, consumers') /\ pc' = "replace"
          /\ UNCHANGED tp
       \/ /\ MayFail /\ pc' = "idle" /\ tp' = {}
          /\ \/ UNCHANGED conVars
             \/ /\ Addrs > 1 /\ consumers < MaxConsumers
                /\ consumers' = consumers + 1 /\ live' = live \cup {consumers'}
          /\ UNCHANGED <<topicOf, consumer, sub>>
    /\ UNCHANGED <<brokerVars, closed, connVars, crashed>>

\* The topic's old subscriber is unsubscribed ...
SubscribeReplace(t) ==
    /\ ~crashed /\ pc = "replace" /\ tp = {t} /\ pc' = "add"
    /\ LET old == subscribers[t] IN
       IF old = None THEN UNCHANGED <<closed, live>>
       ELSE closed' = closed \cup {old} /\ live' = live \ {consumer[old]}
    /\ UNCHANGED <<brokerVars, topicOf, consumer, consumers, connVars, sub, tp,
                   crashed>>

\* ... and the new one takes its place, once Connect's walk over the map is done.
SubscribeAdd(t) ==
    /\ ~crashed /\ pc = "add" /\ tp = {t} /\ (inConnect => todo = {})
    /\ subscribers' = [subscribers EXCEPT ![t] = sub]
    /\ pc' = "idle" /\ tp' = {} /\ sub' = None
    /\ UNCHANGED <<running, producers, openProds, subVars, conVars, connVars, crashed>>

\* The owner of the topic's subscriber calls its Unsubscribe.
Unsubscribe(t, removeFromManager) ==
    /\ ~crashed /\ Idle
    /\ LET s == subscribers[t] IN
       /\ s # None /\ s \notin closed
       /\ live' = live \ {consumer[s]} /\ closed' = closed \cup {s}
    /\ subscribers' = IF removeFromManager
                      THEN [subscribers EXCEPT ![t] = None] ELSE subscribers
    /\ UNCHANGED <<running, producers, openProds, topicOf, consumer, consumers,
                   connVars, callVars, crashed>>

Next ==
    \/ Connect \/ ConnectReturn \/ Disconnect
    \/ \E t \in Topics :
          \/ ConnectSubscriber(t) \/ Subscribe(t) \/ SubscribeDial(t)
          \/ SubscribeReplace(t) \/ SubscribeAdd(t)
          \/ \E r \in OwnerRemoves : Unsubscribe(t, r)

Spec == Init /\ [][Next]_vars

-----------------------------------------------------------------------------
\* Every consumer that receives is the consumer of a registered subscriber: a
\* consumer that Connect replaces has been stopped.
ConsumersHeld ==
    Idle => live \subseteq {consumer[s] : s \in Registered}

\* Nothing Subscribe, Connect and Disconnect make is lost: besides the
\* consumers, every open producer is one the broker can stop.
NothingLeaked == ConsumersHeld /\ (Idle => openProds \subseteq producers)

\* After a Connect that returned nil every registration that is still wanted
\* has a consumer: an error for one topic is not hidden by success for another.
RegisteredConsumed ==
    Idle /\ running =>
        \A s \in Registered \ closed : consumer[s] \in live

=============================================================================
