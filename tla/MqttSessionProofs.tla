------------------------- MODULE MqttSessionProofs --------------------------
(***************************************************************************)
(* The topics the server delivers are the ones in the broker's table, for  *)
(* any topics, subscribers and losses: proved for calls that do not        *)
(* overlap.                                                                *)
(***************************************************************************)
EXTENDS MqttSession, TLAPS

Busy == {"drop", "sub", "add", "remove"}
Idle(t) == \A s \in Subs : pc[s] \in Busy => TopicOf[s] # t

TypeOK ==
    /\ up \in BOOLEAN /\ redial \in BOOLEAN /\ hello \in Nat /\ walk \subseteq Subs
    /\ table \in [Topics -> Subs \union {None}] /\ route \in [Topics -> Subs \union {None}]
    /\ server \subseteq Topics
    /\ pc \in [Subs -> Busy \union {"new", "on", "off", "failed"}]
    /\ clearing \in BOOLEAN

\* One call at a time, none while onConnect is at work, and the connection holds
\* as long as a call needs it.
OneCall ==
    /\ Calling => ~Greeting
    /\ clearing => ~up
    /\ \A s \in Subs : pc[s] \in Busy =>
          /\ ~clearing
          /\ \A r \in Subs : pc[r] \in Busy => r = s
          /\ pc[s] # "remove" => up

\* Subscribers are filed under their topics, and onConnect has only such to restore.
Filed ==
    /\ \A t \in Topics : table[t] # None => TopicOf[table[t]] = t
    /\ \A s \in walk : table[TopicOf[s]] = s

\* How far a call has got with its topic.
Progress ==
    \A s \in Subs :
        /\ pc[s] \in {"sub", "remove"} => TopicOf[s] \notin server
        /\ pc[s] = "add" => TopicOf[s] \in server /\ route[TopicOf[s]] = s

\* A topic no call is about is delivered only if the table holds it ...
NoMore == (~up => server = {}) /\ \A t \in server : Idle(t) => table[t] # None

\* ... and if it does it is delivered, or onConnect will see to it.
NoLess ==
    \A t \in Topics : up /\ hello = 0 /\ Idle(t) /\ table[t] # None =>
        table[t] \in walk \/ (t \in server /\ route[t] = table[t])

Inv == TypeOK /\ OneCall /\ Filed /\ Progress /\ NoMore /\ NoLess

-----------------------------------------------------------------------------
Alone == ~Overlap

LEMMA InitInv == Alone /\ MqttInit => Inv
<1> SUFFICES ASSUME MqttInit PROVE Inv
  BY Zenon
<1>1. hello \in Nat
  BY Zenon DEF MqttInit
<1>2. TypeOK
  BY <1>1, Zenon DEF MqttInit, TypeOK
<1>3. OneCall /\ Progress
  BY Zenon DEF MqttInit, OneCall, Progress, Calling, Greeting, Busy
<1>4. Filed /\ NoMore /\ NoLess
  BY Zenon DEF MqttInit, Filed, NoMore, NoLess
<1> QED
  BY <1>2, <1>3, <1>4, Zenon DEF Inv

\* What opening a connection does to the number of onConnect goroutines.
LEMMA OpenedGreets == ASSUME TypeOK, Opened PROVE hello' \in Nat /\ hello' # 0
BY DEF TypeOK, Opened

LEMMA ConnectKeeps ==
    ASSUME Alone, Inv, Connect PROVE Inv'
<1> USE MqttAssumption DEF MqttAssumption, Alone, Inv, Connect, Opened, MayCall
<1>1. TypeOK'
  BY OpenedGreets, Zenon DEF TypeOK, Busy
<1>2. OneCall'
  BY Zenon DEF OneCall, TypeOK, Busy, Calling, Greeting
<1>3. Filed'
  BY Zenon DEF Filed, OneCall, TypeOK, Busy, Calling, Greeting
<1>4. Progress'
  BY Zenon DEF Progress, NoMore, OneCall, TypeOK, Busy, Idle, Calling, Greeting
<1>5. NoMore'
  BY DEF NoMore, Progress, Filed, OneCall, TypeOK, Busy, Idle, Calling, Greeting
<1>6. NoLess'
  BY OpenedGreets, Zenon DEF NoLess, Progress, Filed, OneCall, TypeOK, Busy, Idle, Calling, Greeting
<1> QED
  BY <1>1, <1>2, <1>3, <1>4, <1>5, <1>6, Zenon

LEMMA DisconnectKeeps ==
    ASSUME Alone, Inv, Disconnect PROVE Inv'
<1> USE MqttAssumption DEF MqttAssumption, Alone, Inv, Disconnect, MayCall
<1>1. TypeOK'
  BY Zenon DEF TypeOK, Busy
<1>2. OneCall'
  BY DEF OneCall, TypeOK, Busy, Calling, Greeting
<1>3. Filed'
  BY Zenon DEF Filed, OneCall, TypeOK, Busy, Calling, Greeting
<1>4. Progress'
  BY Zenon DEF Progress, NoMore, OneCall, TypeOK, Busy, Idle, Calling, Greeting
<1>5. NoMore'
  BY Zenon DEF NoMore, Progress, Filed, OneCall, TypeOK, Busy, Idle, Calling, Greeting
<1>6. NoLess'
  BY Zenon DEF NoLess, Progress, Filed, OneCall, TypeOK, Busy, Idle, Calling, Greeting
<1> QED
  BY <1>1, <1>2, <1>3, <1>4, <1>5, <1>6, Zenon

LEMMA DisconnectClearKeeps ==
    ASSUME Alone, Inv, DisconnectClear PROVE Inv'
<1> USE MqttAssumption DEF MqttAssumption, Alone, Inv, DisconnectClear, linkVars
<1>1. TypeOK'
  BY Zenon DEF TypeOK, Busy
<1>2. OneCall'
  BY Zenon DEF OneCall, TypeOK, Busy, Calling, Greeting
<1>3. Filed'
  BY Zenon DEF Filed, OneCall, TypeOK, Busy, Calling, Greeting
<1>4. Progress'
  BY Zenon DEF Progress, NoMore, OneCall, TypeOK, Busy, Idle, Calling, Greeting
<1>5. NoMore'
  BY Zenon DEF NoMore, Progress, Filed, OneCall, TypeOK, Busy, Idle, Calling, Greeting
<1>6. NoLess'
  BY Zenon DEF NoLess, Progress, Filed, OneCall, TypeOK, Busy, Idle, Calling, Greeting
<1> QED
  BY <1>1, <1>2, <1>3, <1>4, <1>5, <1>6, Zenon

LEMMA ConnectionLostKeeps ==
    ASSUME Alone, Inv, ConnectionLost PROVE Inv'
<1> USE MqttAssumption DEF MqttAssumption, Alone, Inv, ConnectionLost
<1>1. TypeOK'
  BY Zenon DEF TypeOK, Busy
<1>2. OneCall'
  BY Zenon DEF OneCall, TypeOK, Busy, Calling, Greeting
<1>3. Filed'
  BY Zenon DEF Filed, OneCall, TypeOK, Busy, Calling, Greeting
<1>4. Progress'
  BY Zenon DEF Progress, NoMore, OneCall, TypeOK, Busy, Idle, Calling, Greeting
<1>5. NoMore'
  BY Zenon DEF NoMore, Progress, Filed, OneCall, TypeOK, Busy, Idle, Calling, Greeting
<1>6. NoLess'
  BY Zenon DEF NoLess, Progress, Filed, OneCall, TypeOK, Busy, Idle, Calling, Greeting
<1> QED
  BY <1>1, <1>2, <1>3, <1>4, <1>5, <1>6, Zenon

LEMMA LoopConnectKeeps ==
    ASSUME Alone, Inv, LoopConnect PROVE Inv'
<1> USE MqttAssumption DEF MqttAssumption, Alone, Inv, LoopConnect, Opened
<1>1. TypeOK'
  BY OpenedGreets, Zenon DEF TypeOK, Busy
<1>2. OneCall'
  BY Zenon DEF OneCall, TypeOK, Busy, Calling, Greeting
<1>3. Filed'
  BY Zenon DEF Filed, OneCall, TypeOK, Busy, Calling, Greeting
<1>4. Progress'
  BY Zenon DEF Progress, NoMore, OneCall, TypeOK, Busy, Idle, Calling, Greeting
<1>5. NoMore'
  BY Zenon DEF NoMore, Progress, Filed, OneCall, TypeOK, Busy, Idle, Calling, Greeting
<1>6. NoLess'
  BY OpenedGreets, Zenon DEF NoLess, Progress, Filed, OneCall, TypeOK, Busy, Idle, Calling, Greeting
<1> QED
  BY <1>1, <1>2, <1>3, <1>4, <1>5, <1>6, Zenon

\* The table is what onConnect will subscribe: no call changes it before that is done.
LEMMA OnConnectKeeps ==
    ASSUME Alone, Inv, OnConnect PROVE Inv'
<1> USE MqttAssumption DEF MqttAssumption, Alone, Inv, OnConnect
<1>1. TypeOK'
  BY DEF TypeOK, Busy
<1>2. OneCall'
  BY Zenon DEF OneCall, TypeOK, Busy, Calling, Greeting
<1>3. Filed'
  BY DEF Filed, OneCall, TypeOK, Busy, Calling, Greeting
<1>4. Progress'
  BY Zenon DEF Progress, NoMore, OneCall, TypeOK, Busy, Idle, Calling, Greeting
<1>5. NoMore'
  BY Zenon DEF NoMore, Progress, Filed, OneCall, TypeOK, Busy, Idle, Calling, Greeting
<1>6. NoLess'
  BY Zenon DEF NoLess, Progress, Filed, OneCall, TypeOK, Busy, Idle, Calling, Greeting
<1> QED
  BY <1>1, <1>2, <1>3, <1>4, <1>5, <1>6, Zenon

LEMMA OnConnectSubscribeKeeps ==
    ASSUME Alone, NEW s \in Subs, Inv, OnConnectSubscribe(s) PROVE Inv'
<1> USE MqttAssumption DEF MqttAssumption, Alone, Inv, OnConnectSubscribe, DoSubscribe
<1>1. TypeOK'
  BY DEF TypeOK, Busy
<1>2. OneCall'
  BY Zenon DEF OneCall, TypeOK, Busy, Calling, Greeting
<1>3. Filed'
  BY Zenon DEF Filed, OneCall, TypeOK, Busy, Calling, Greeting
<1>4. Progress'
  BY Zenon DEF Progress, NoMore, OneCall, TypeOK, Busy, Idle, Calling, Greeting
<1>5. NoMore'
  BY DEF NoMore, Progress, Filed, OneCall, TypeOK, Busy, Idle, Calling, Greeting
<1>6. NoLess'
  BY DEF NoLess, Progress, Filed, OneCall, TypeOK, Busy, Idle, Calling, Greeting
<1> QED
  BY <1>1, <1>2, <1>3, <1>4, <1>5, <1>6, Zenon

LEMMA SubscribeKeeps ==
    ASSUME Alone, NEW s \in Subs, Inv, Subscribe(s) PROVE Inv'
<1> USE MqttAssumption DEF MqttAssumption, Alone, Inv, Subscribe, MayCall, To, linkVars
<1>1. TypeOK'
  BY Zenon DEF TypeOK, Busy
<1>2. OneCall'
  BY DEF OneCall, TypeOK, Busy, Calling, Greeting
<1>3. Filed'
  BY Zenon DEF Filed, OneCall, TypeOK, Busy, Calling, Greeting
<1>4. Progress'
  BY DEF Progress, NoMore, OneCall, TypeOK, Busy, Idle, Calling, Greeting
<1>5. NoMore'
  BY Zenon DEF NoMore, Progress, Filed, OneCall, TypeOK, Busy, Idle, Calling, Greeting
<1>6. NoLess'
  BY Zenon DEF NoLess, Progress, Filed, OneCall, TypeOK, Busy, Idle, Calling, Greeting
<1> QED
  BY <1>1, <1>2, <1>3, <1>4, <1>5, <1>6, Zenon

LEMMA SubscribeDropKeeps ==
    ASSUME Alone, NEW s \in Subs, Inv, SubscribeDrop(s) PROVE Inv'
<1> USE MqttAssumption DEF MqttAssumption, Alone, Inv, SubscribeDrop, DoUnsubscribe, To, linkVars
<1>1. TypeOK'
  BY Zenon DEF TypeOK, Busy
<1>2. OneCall'
  BY DEF OneCall, TypeOK, Busy, Calling, Greeting
<1>3. Filed'
  BY Zenon DEF Filed, OneCall, TypeOK, Busy, Calling, Greeting
<1>4. Progress'
  BY DEF Progress, NoMore, OneCall, TypeOK, Busy, Idle, Calling, Greeting
<1>5. NoMore'
  BY Zenon DEF NoMore, Progress, Filed, OneCall, TypeOK, Busy, Idle, Calling, Greeting
<1>6. NoLess'
  BY DEF NoLess, Progress, Filed, OneCall, TypeOK, Busy, Idle, Calling, Greeting
<1> QED
  BY <1>1, <1>2, <1>3, <1>4, <1>5, <1>6, Zenon

LEMMA SubscribeSubKeeps ==
    ASSUME Alone, NEW s \in Subs, Inv, SubscribeSub(s) PROVE Inv'
<1> USE MqttAssumption DEF MqttAssumption, Alone, Inv, SubscribeSub, DoSubscribe, To, linkVars
<1>0. TopicOf[s] \in Topics
  BY Zenon
<1>1. TypeOK'
  BY <1>0, Zenon DEF TypeOK, Busy
<1>2. OneCall'
  BY DEF OneCall, TypeOK, Busy, Calling, Greeting
<1>3. Filed'
  BY Zenon DEF Filed, OneCall, TypeOK, Busy, Calling, Greeting
<1>4. Progress'
  BY <1>0 DEF Progress, NoMore, OneCall, TypeOK, Busy, Idle, Calling, Greeting
<1>5. NoMore'
  BY DEF NoMore, Progress, Filed, OneCall, TypeOK, Busy, Idle, Calling, Greeting
<1>6. NoLess'
  BY DEF NoLess, Progress, Filed, OneCall, TypeOK, Busy, Idle, Calling, Greeting
<1> QED
  BY <1>1, <1>2, <1>3, <1>4, <1>5, <1>6, Zenon

LEMMA SubscribeAddKeeps ==
    ASSUME Alone, NEW s \in Subs, Inv, SubscribeAdd(s) PROVE Inv'
<1> USE MqttAssumption DEF MqttAssumption, Alone, Inv, SubscribeAdd, To, linkVars
<1>1. TypeOK'
  BY Zenon DEF TypeOK, Busy
<1>2. OneCall'
  BY DEF OneCall, TypeOK, Busy, Calling, Greeting
<1>3. Filed'
  BY Zenon DEF Filed, OneCall, TypeOK, Busy, Calling, Greeting
<1>4. Progress'
  BY Zenon DEF Progress, NoMore, OneCall, TypeOK, Busy, Idle, Calling, Greeting
<1>5. NoMore'
  BY DEF NoMore, Progress, Filed, OneCall, TypeOK, Busy, Idle, Calling, Greeting
<1>6. NoLess'
  BY DEF NoLess, Progress, Filed, OneCall, TypeOK, Busy, Idle, Calling, Greeting
<1> QED
  BY <1>1, <1>2, <1>3, <1>4, <1>5, <1>6, Zenon

LEMMA UnsubscribeKeeps ==
    ASSUME Alone, NEW s \in Subs, Inv, Unsubscribe(s) PROVE Inv'
<1> USE MqttAssumption
    DEF MqttAssumption, Alone, Inv, Unsubscribe, DoUnsubscribe, MayCall, To, linkVars
<1>1. TypeOK'
  BY Zenon DEF TypeOK, Busy
<1>2. OneCall'
  BY DEF OneCall, TypeOK, Busy, Calling, Greeting
<1>3. Filed'
  BY Zenon DEF Filed, OneCall, TypeOK, Busy, Calling, Greeting
<1>4. Progress'
  BY DEF Progress, NoMore, OneCall, TypeOK, Busy, Idle, Calling, Greeting
<1>5. NoMore'
  BY Zenon DEF NoMore, Progress, Filed, OneCall, TypeOK, Busy, Idle, Calling, Greeting
<1>6. NoLess'
  BY DEF NoLess, Progress, Filed, OneCall, TypeOK, Busy, Idle, Calling, Greeting
<1> QED
  BY <1>1, <1>2, <1>3, <1>4, <1>5, <1>6, Zenon

LEMMA UnsubscribeRemoveKeeps ==
    ASSUME Alone, NEW s \in Subs, Inv, UnsubscribeRemove(s) PROVE Inv'
<1> USE MqttAssumption DEF MqttAssumption, Alone, Inv, UnsubscribeRemove, To, linkVars
<1>1. TypeOK'
  BY Zenon DEF TypeOK, Busy
<1>2. OneCall'
  BY Zenon DEF OneCall, TypeOK, Busy, Calling, Greeting
<1>3. Filed'
  BY DEF Filed, OneCall, TypeOK, Busy, Calling, Greeting
<1>4. Progress'
  BY DEF Progress, NoMore, OneCall, TypeOK, Busy, Idle, Calling, Greeting
<1>5. NoMore'
  BY DEF NoMore, Progress, Filed, OneCall, TypeOK, Busy, Idle, Calling, Greeting
<1>6. NoLess'
  BY DEF NoLess, Progress, Filed, OneCall, TypeOK, Busy, Idle, Calling, Greeting
<1> QED
  BY <1>1, <1>2, <1>3, <1>4, <1>5, <1>6, Zenon

\* Whenever nothing is under way, a topic is delivered to the subscriber the table
\* holds for it, and to nobody if it holds none, however often the connection was
\* lost and redialled (onConnect, loopConnect, Subscribe, Unsubscribe).
THEOREM TableIsServed == Alone => (MqttSpec => []ServedIsTable)
<1> SUFFICES ASSUME Alone PROVE MqttSpec => []ServedIsTable
  BY Zenon
<1>1. Inv /\ [MqttNext]_mqttVars => Inv'
  <2> SUFFICES ASSUME Inv, [MqttNext]_mqttVars PROVE Inv'
    BY Zenon
  <2>1. CASE UNCHANGED mqttVars
    BY <2>1, Zenon DEF mqttVars, Inv, TypeOK, OneCall, Filed, Progress, NoMore, NoLess, Idle, Calling,
                Greeting
  <2>2. CASE Link
    BY <2>2, ConnectKeeps, DisconnectKeeps, DisconnectClearKeeps, ConnectionLostKeeps,
       LoopConnectKeeps, OnConnectKeeps, Zenon DEF Link
  <2>3. ASSUME NEW s \in Subs, Calls(s) PROVE Inv'
    BY <2>3, SubscribeKeeps, SubscribeDropKeeps, SubscribeSubKeeps, SubscribeAddKeeps,
       UnsubscribeKeeps, UnsubscribeRemoveKeeps, OnConnectSubscribeKeeps, Zenon DEF Calls
  <2> QED
    BY <2>1, <2>2, <2>3, Zenon DEF MqttNext
<1>2. Inv => ServedIsTable
  <2> SUFFICES ASSUME Inv, Settled, NEW t \in Topics
               PROVE  /\ table[t] # None => Delivered(t) /\ route[t] = table[t]
                      /\ table[t] = None => ~Delivered(t)
    BY Zenon DEF ServedIsTable
  <2>1. up /\ hello = 0 /\ walk = {} /\ Idle(t)
    BY DEF Settled, Greeting, Calling, Idle, Busy, Inv, TypeOK
  <2> QED
    BY <2>1, Zenon DEF Inv, NoMore, NoLess, Delivered
<1> QED
  BY InitInv, <1>1, <1>2, PTL DEF MqttSpec
=============================================================================
