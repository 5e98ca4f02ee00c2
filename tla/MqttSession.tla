----------------------------- MODULE MqttSession -----------------------------
(***************************************************************************)
(* broker/mqtt: a broker whose client library does not reconnect by itself.*)
(* When the connection is lost onConnectionLost redials until it succeeds, *)
(* and onConnect, run in a goroutine of its own after every connect,       *)
(* subscribes everything in the table again.  Subscribe and Unsubscribe    *)
(* run beside them.                                                        *)
(*                                                                         *)
(* The client library (external) keeps one callback per topic; the server  *)
(* forgets a connection's subscriptions with it (a clean session).         *)
(***************************************************************************)
EXTENDS Naturals, FiniteSets

CONSTANTS
    Topics,
    Subs,       \* calls of Subscribe; each makes one subscriber
    TopicOf,    \* the topic of each
    Overlap,    \* calls run beside each other and beside loss and onConnect
    MaxLost,    \* bound: connections lost
    MaxCalls    \* bound: calls of Connect and Disconnect

None == "none"
ASSUME MqttAssumption ==
    /\ None \notin Subs /\ TopicOf \in [Subs -> Topics] /\ Overlap \in BOOLEAN
    /\ MaxLost \in Nat /\ MaxCalls \in Nat

VARIABLES
    up,         \* client.IsConnected
    redial,     \* loopConnect is running
    hello,      \* onConnect goroutines that have not read the table yet
    walk,       \* subscribers onConnect is about to subscribe again
    table,      \* m.subscribers
    route,      \* the client's callback, per topic
    server,     \* topics the server delivers on this connection
    pc,         \* per subscriber
    clearing,   \* Disconnect is between client.Disconnect and Clear
    wanted,     \* the last of Connect and Disconnect that returned nil was Connect
    lost, calls
mqttVars == <<up, redial, hello, walk, table, route, server, pc, clearing, wanted, lost, calls>>
linkVars == <<up, redial, hello, walk, lost>>

MqttInit ==
    /\ up = FALSE /\ redial = FALSE /\ hello = 0 /\ walk = {} /\ server = {}
    /\ table = [t \in Topics |-> None] /\ route = [t \in Topics |-> None]
    /\ pc = [s \in Subs |-> "new"] /\ clearing = FALSE /\ wanted = FALSE
    /\ lost = 0 /\ calls = 0

Calling == clearing \/ \E s \in Subs : pc[s] \in {"drop", "sub", "add", "remove"}
Greeting == hello > 0 \/ walk # {}
MayCall == Overlap \/ (~Calling /\ ~Greeting)

-----------------------------------------------------------------------------
(* The connection.                                                         *)

Opened == up' = TRUE /\ hello' = hello + 1 /\ server' = {}

Connect ==
    /\ MayCall /\ (Overlap \/ ~redial) /\ calls < MaxCalls /\ calls' = calls + 1 /\ wanted' = TRUE
    /\ \/ up /\ UNCHANGED <<up, hello, server>>
       \/ ~up /\ Opened
    /\ UNCHANGED <<redial, walk, lost, table, route, pc, clearing>>

Disconnect ==
    /\ MayCall /\ ~clearing /\ calls < MaxCalls /\ calls' = calls + 1
    /\ \/ ~up /\ wanted' = FALSE /\ UNCHANGED <<up, server, clearing>>
       \/ up /\ up' = FALSE /\ server' = {} /\ clearing' = TRUE /\ UNCHANGED wanted
    /\ UNCHANGED <<redial, hello, walk, lost, table, route, pc>>
(* Clear: the client is offline, so no subscriber's Unsubscribe reaches    *)
(* the server or drops a callback.                                         *)
DisconnectClear ==
    /\ clearing /\ clearing' = FALSE /\ wanted' = FALSE
    /\ table' = [t \in Topics |-> None]
    /\ UNCHANGED <<linkVars, route, server, pc, calls>>

ConnectionLost ==
    /\ up /\ lost < MaxLost /\ lost' = lost + 1 /\ (Overlap \/ ~Calling)
    /\ up' = FALSE /\ server' = {} /\ redial' = TRUE
    /\ UNCHANGED <<hello, walk, table, route, pc, clearing, wanted, calls>>

\* Mutant: the first successful dial counts, but its callback is skipped.
LoopConnectQuiet ==
    /\ redial /\ redial' = FALSE /\ (Overlap \/ ~Calling) /\ up' = TRUE /\ server' = {}
    /\ UNCHANGED <<hello, walk, lost, table, route, pc, clearing, wanted, calls>>
LoopConnect ==
    /\ redial /\ redial' = FALSE /\ (Overlap \/ ~Calling)
    /\ IF up THEN UNCHANGED <<up, hello, server>> ELSE Opened
    /\ UNCHANGED <<walk, lost, table, route, pc, clearing, wanted, calls>>

OnConnect ==
    /\ hello > 0 /\ hello' = hello - 1
    /\ walk' = walk \cup ({table[t] : t \in Topics} \ {None})
    /\ UNCHANGED <<up, redial, lost, table, route, server, pc, clearing, wanted, calls>>

(* client.Subscribe and client.Unsubscribe; both fail when offline.        *)
DoSubscribe(s) ==
    IF up THEN route' = [route EXCEPT ![TopicOf[s]] = s] /\ server' = server \cup {TopicOf[s]}
    ELSE UNCHANGED <<route, server>>
DoUnsubscribe(t) ==
    IF up THEN route' = [route EXCEPT ![t] = None] /\ server' = server \ {t}
    ELSE UNCHANGED <<route, server>>

OnConnectSubscribe(s) ==
    /\ s \in walk /\ walk' = walk \ {s} /\ DoSubscribe(s)
    /\ UNCHANGED <<up, redial, hello, lost, table, pc, clearing, wanted, calls>>

-----------------------------------------------------------------------------
(* Subscribe: the topic's old subscriber is ended first.                   *)

To(s, next) == pc' = [pc EXCEPT ![s] = next]
Subscribe(s) ==
    /\ MayCall /\ pc[s] = "new"
    /\ To(s, IF ~up THEN "failed" ELSE IF table[TopicOf[s]] = None THEN "sub" ELSE "drop")
    /\ UNCHANGED <<linkVars, table, route, server, clearing, wanted, calls>>
SubscribeDrop(s) ==
    /\ pc[s] = "drop" /\ DoUnsubscribe(TopicOf[s]) /\ To(s, "sub")
    /\ UNCHANGED <<linkVars, table, clearing, wanted, calls>>
SubscribeSub(s) ==
    /\ pc[s] = "sub" /\ DoSubscribe(s) /\ To(s, IF up THEN "add" ELSE "failed")
    /\ UNCHANGED <<linkVars, table, clearing, wanted, calls>>
\* Mutant: the old subscriber is ended after the new one has started.
SubscribeAddDrops(s) ==
    /\ pc[s] = "add" /\ To(s, "on") /\ table' = [table EXCEPT ![TopicOf[s]] = s]
    /\ IF table[TopicOf[s]] = None THEN UNCHANGED <<route, server>> ELSE DoUnsubscribe(TopicOf[s])
    /\ UNCHANGED <<linkVars, clearing, wanted, calls>>
SubscribeAdd(s) ==
    /\ pc[s] = "add" /\ To(s, "on") /\ table' = [table EXCEPT ![TopicOf[s]] = s]
    /\ UNCHANGED <<linkVars, route, server, clearing, wanted, calls>>

(* Unsubscribe(true), by the program, of a subscriber it was given.        *)
Unsubscribe(s) ==
    /\ MayCall /\ pc[s] = "on" /\ table[TopicOf[s]] = s
    /\ DoUnsubscribe(TopicOf[s]) /\ To(s, "remove")
    /\ UNCHANGED <<linkVars, table, clearing, wanted, calls>>
UnsubscribeRemove(s) ==
    /\ pc[s] = "remove" /\ To(s, "off") /\ table' = [table EXCEPT ![TopicOf[s]] = None]
    /\ UNCHANGED <<linkVars, route, server, clearing, wanted, calls>>

Link == Connect \/ Disconnect \/ DisconnectClear \/ ConnectionLost \/ LoopConnect \/ OnConnect
Calls(s) ==
    \/ Subscribe(s) \/ SubscribeDrop(s) \/ SubscribeSub(s) \/ SubscribeAdd(s)
    \/ Unsubscribe(s) \/ UnsubscribeRemove(s) \/ OnConnectSubscribe(s)
MqttNext == Link \/ \E s \in Subs : Calls(s)
MqttSpec == MqttInit /\ [][MqttNext]_mqttVars

(* Goroutines go on, and redialling succeeds in the end.                   *)
MqttFairness ==
    /\ WF_mqttVars(LoopConnect) /\ WF_mqttVars(OnConnect) /\ WF_mqttVars(DisconnectClear)
    /\ \A s \in Subs : /\ WF_mqttVars(OnConnectSubscribe(s)) /\ WF_mqttVars(SubscribeDrop(s))
                       /\ WF_mqttVars(SubscribeSub(s)) /\ WF_mqttVars(SubscribeAdd(s))
                       /\ WF_mqttVars(UnsubscribeRemove(s))

-----------------------------------------------------------------------------
Delivered(t) == up /\ t \in server /\ route[t] # None
Settled == up /\ ~redial /\ ~Calling /\ ~Greeting

(* When nothing is under way, a topic is delivered to the subscriber the   *)
(* table holds for it, and to nobody if it holds none.                     *)
ServedIsTable ==
    Settled => \A t \in Topics :
        /\ table[t] # None => Delivered(t) /\ route[t] = table[t]
        /\ table[t] = None => ~Delivered(t)

(* What is subscribed when the connection is lost is delivered again, to   *)
(* the same subscriber, unless it is unsubscribed, replaced or cleared.    *)
MqttRestored ==
    \A t \in Topics, s \in Subs :
        (table[t] = s /\ redial) ~> (table[t] # s \/ ~wanted \/ (Delivered(t) /\ route[t] = s))
=============================================================================
