------------------------------ MODULE MQServer ------------------------------
(***************************************************************************)
(* A message-queue transport server (transport/rabbitmq/server.go) on its  *)
(* broker (broker/rabbitmq/rabbitmq.go).  The eleven other broker-backed   *)
(* transports repeat the same Start, Stop and registration code.           *)
(*                                                                         *)
(* Start runs in one goroutine (Starter), Stop in another, and any number  *)
(* of Callers register subscribers at the same time.  A step of this       *)
(* module is the code between two points where another goroutine can be    *)
(* seen: an atomic load or store of started, a critical section of the     *)
(* server's mutex or of the broker's SubscriberSyncMap, a call that talks  *)
(* to the message broker.                                                  *)
(***************************************************************************)
EXTENDS Naturals, FiniteSets

CONSTANTS
    Topics,            \* routing keys
    Callers,           \* goroutines that call RegisterSubscriber
    Starter,           \* the goroutine that runs Start
    Subs,              \* identities of the subscriber objects Subscribe makes
    NoSub,             \* nil subscriber
    NoTopic,           \* no registration in progress
    CallerTopics,      \* the topics each caller registers
    SubscribeMayFail,  \* declaring the queue can fail on a live connection
    StopDuringStart,   \* Stop may be called before Start has returned
    MaxStarts,         \* bound: calls of Start
    MaxStops,          \* bound: calls of Stop
    MaxCalls           \* bound: calls of RegisterSubscriber per caller

ASSUME MQServerAssumption ==
    /\ NoSub \notin Subs
    /\ NoTopic \notin Topics
    /\ Starter \notin Callers
    /\ CallerTopics \in [Callers -> SUBSET Topics]
    /\ SubscribeMayFail \in BOOLEAN /\ StopDuringStart \in BOOLEAN
    /\ MaxStarts \in Nat /\ MaxStops \in Nat /\ MaxCalls \in Nat

Registrars == Callers \cup {Starter}

VARIABLES
    started,         \* Server.started
    err,             \* Server.err # nil
    subscribers,     \* Server.subscribers: topic -> subscriber
    subscriberOpts,  \* Server.subscriberOpts: topics with cached parameters
    keepalive,       \* Server.keepaliveServer: instance number, 0 is nil
    connected,       \* rabbitConnection.connected
    brokerSubs,      \* rabbitBroker.subscribers: topic -> subscriber
    used,            \* subscriber objects made so far
    launched,        \* subscribers whose resubscribe goroutine was started
    closed,          \* subscribers whose Unsubscribe was called
    pc, tp, sb, old, \* doRegisterSubscriber in each registrar: step, locals
    startPc, pending, errs,     \* Start: step, optsMap still to do, any error
    stopPc, stopSubs, clearing, \* Stop: step, its snapshot, Clear's snapshot
    kaCount, kaSpawned, kaStopped, \* keepalive servers made, started, stopped
    starts, stops, calls,       \* calls made so far (bounds)
    accepted         \* topics whose RegisterSubscriber returned nil

serverVars == <<started, err, subscribers, subscriberOpts, keepalive>>
brokerVars == <<connected, brokerSubs>>
subVars    == <<used, launched, closed>>
regVars    == <<pc, tp, sb, old>>
startVars  == <<startPc, pending, errs>>
stopVars   == <<stopPc, stopSubs, clearing>>
kaVars     == <<kaCount, kaSpawned, kaStopped>>
histVars   == <<starts, stops, calls, accepted>>

vars == <<serverVars, brokerVars, subVars, regVars, startVars, stopVars,
          kaVars, histVars>>

NoSubs == [t \in Topics |-> NoSub]

\* The subscribers held by a topic table.
Held(table) == {table[t] : t \in Topics} \ {NoSub}

\* A subscriber that is consuming: its goroutine runs and nobody closed it.
Live == launched \ closed

PCs == {"idle", "get", "unsub", "add", "declare", "record", "cleanup"}
StartPCs == {"idle", "connect", "started", "keepalive", "take", "loop"}
StopPCs == {"idle", "swap", "unsub", "clear", "clearing", "close", "finish"}

TypeOK ==
    /\ started \in BOOLEAN /\ err \in BOOLEAN /\ connected \in BOOLEAN
    /\ subscribers \in [Topics -> Subs \cup {NoSub}]
    /\ brokerSubs \in [Topics -> Subs \cup {NoSub}]
    /\ subscriberOpts \subseteq Topics
    /\ used \subseteq Subs /\ launched \subseteq used /\ closed \subseteq used
    /\ pc \in [Registrars -> PCs]
    /\ tp \in [Registrars -> Topics \cup {NoTopic}]
    /\ sb \in [Registrars -> used \cup {NoSub}]
    /\ old \in [Registrars -> used \cup {NoSub}]
    /\ startPc \in StartPCs /\ pending \subseteq Topics /\ errs \in BOOLEAN
    /\ stopPc \in StopPCs /\ stopSubs \subseteq used /\ clearing \subseteq used
    /\ kaCount \in Nat /\ keepalive \in 0..kaCount
    /\ kaSpawned \subseteq 1..kaCount /\ kaStopped \subseteq 1..kaCount
    /\ starts \in Nat /\ stops \in Nat /\ calls \in [Callers -> Nat]
    /\ accepted \subseteq Topics

\* NewServer: the broker is made but not connected, a keepalive server waits.
Init ==
    /\ started = FALSE /\ err = FALSE /\ connected = FALSE
    /\ subscribers = NoSubs /\ brokerSubs = NoSubs /\ subscriberOpts = {}
    /\ used = {} /\ launched = {} /\ closed = {}
    /\ pc = [r \in Registrars |-> "idle"]
    /\ tp = [r \in Registrars |-> NoTopic]
    /\ sb = [r \in Registrars |-> NoSub]
    /\ old = [r \in Registrars |-> NoSub]
    /\ startPc = "idle" /\ pending = {} /\ errs = FALSE
    /\ stopPc = "idle" /\ stopSubs = {} /\ clearing = {}
    /\ kaCount = 1 /\ keepalive = 1 /\ kaSpawned = {} /\ kaStopped = {}
    /\ starts = 0 /\ stops = 0 /\ calls = [c \in Callers |-> 0]
    /\ accepted = {}

-----------------------------------------------------------------------------
(* doRegisterSubscriber: the broker's Subscribe, then the server's tables. *)

\* Registrar r enters doRegisterSubscriber for topic t.
EnterRegister(r, t) ==
    /\ pc' = [pc EXCEPT ![r] = "get"]
    /\ tp' = [tp EXCEPT ![r] = t]

\* Registrar r leaves doRegisterSubscriber.
Return(r) ==
    /\ pc' = [pc EXCEPT ![r] = "idle"]
    /\ tp' = [tp EXCEPT ![r] = NoTopic]
    /\ sb' = [sb EXCEPT ![r] = NoSub]
    /\ old' = [old EXCEPT ![r] = NoSub]

\* Subscribe makes the subscriber object and looks up the topic's current one.
SubscribeGet(r) ==
    /\ pc[r] = "get"
    /\ \E s \in Subs \ used :
          /\ used' = used \cup {s}
          /\ sb' = [sb EXCEPT ![r] = s]
    /\ old' = [old EXCEPT ![r] = brokerSubs[tp[r]]]
    /\ pc' = [pc EXCEPT ![r] =
                 IF brokerSubs[tp[r]] = NoSub THEN "add" ELSE "unsub"]
    /\ UNCHANGED <<serverVars, brokerVars, launched, closed, tp, startVars,
                   stopVars, kaVars, histVars>>

\* Subscribe unsubscribes the one it found.
SubscribeUnsubOld(r) ==
    /\ pc[r] = "unsub"
    /\ closed' = closed \cup {old[r]}
    /\ pc' = [pc EXCEPT ![r] = "add"]
    /\ UNCHANGED <<serverVars, brokerVars, used, launched, tp, sb, old,
                   startVars, stopVars, kaVars, histVars>>

\* Subscribe enters the new subscriber in the broker's map.
SubscribeAdd(r) ==
    /\ pc[r] = "add"
    /\ brokerSubs' = [brokerSubs EXCEPT ![tp[r]] = sb[r]]
    /\ pc' = [pc EXCEPT ![r] = "declare"]
    /\ UNCHANGED <<serverVars, connected, subVars, tp, sb, old, startVars,
                   stopVars, kaVars, histVars>>

\* declareAndBind fails: RemoveOnly drops whatever the map now holds for the
\* topic, and the error is returned.
DeclareFail(r) ==
    /\ pc[r] = "declare"
    /\ ~connected \/ SubscribeMayFail
    /\ brokerSubs' = [brokerSubs EXCEPT ![tp[r]] = NoSub]
    /\ Return(r)
    /\ errs' = IF r = Starter THEN TRUE ELSE errs
    /\ UNCHANGED <<serverVars, connected, subVars, startPc, pending, stopVars,
                   kaVars, histVars>>

\* declareAndBind succeeds and the consuming goroutine is started.
DeclareOK(r) ==
    /\ pc[r] = "declare"
    /\ connected
    /\ launched' = launched \cup {sb[r]}
    /\ pc' = [pc EXCEPT ![r] = "record"]
    /\ UNCHANGED <<serverVars, brokerVars, used, closed, tp, sb, old,
                   startVars, stopVars, kaVars, histVars>>

\* Mutant: a subscriber made while the server stopped is not unsubscribed.
RecordSubscriberKeepsLate(r) ==
    /\ pc[r] = "record"
    /\ subscribers' = IF started THEN [subscribers EXCEPT ![tp[r]] = sb[r]]
                                 ELSE subscribers
    /\ old' = [old EXCEPT ![r] = IF started THEN subscribers[tp[r]] ELSE NoSub]
    /\ subscriberOpts' = subscriberOpts \cup {tp[r]}
    /\ accepted' = accepted \cup {tp[r]}
    /\ pc' = [pc EXCEPT ![r] = "cleanup"]
    /\ UNCHANGED <<started, err, keepalive, brokerVars, subVars, tp, sb,
                   startVars, stopVars, kaVars, starts, stops, calls>>

\* Mutant: the registration parameters are not recorded.
RecordSubscriberNoOpts(r) ==
    /\ pc[r] = "record"
    /\ subscribers' = IF started THEN [subscribers EXCEPT ![tp[r]] = sb[r]]
                                 ELSE subscribers
    /\ old' = [old EXCEPT ![r] = IF started THEN subscribers[tp[r]] ELSE sb[r]]
    /\ accepted' = accepted \cup {tp[r]}
    /\ pc' = [pc EXCEPT ![r] = "cleanup"]
    /\ UNCHANGED <<started, err, keepalive, subscriberOpts, brokerVars, subVars,
                   tp, sb, startVars, stopVars, kaVars, starts, stops, calls>>

\* The critical section of doRegisterSubscriber: started is read again; the
\* new subscriber replaces the topic's old one only if the server still runs.
\* old then holds what is left to unsubscribe (nothing, the replaced
\* subscriber, or, when the server has stopped, the new one itself).
RecordSubscriber(r) ==
    /\ pc[r] = "record"
    /\ subscribers' = IF started THEN [subscribers EXCEPT ![tp[r]] = sb[r]]
                                 ELSE subscribers
    /\ old' = [old EXCEPT ![r] = IF started THEN subscribers[tp[r]] ELSE sb[r]]
    /\ subscriberOpts' = subscriberOpts \cup {tp[r]}
    /\ accepted' = accepted \cup {tp[r]}
    /\ pc' = [pc EXCEPT ![r] = "cleanup"]
    /\ UNCHANGED <<started, err, keepalive, brokerVars, subVars, tp, sb,
                   startVars, stopVars, kaVars, starts, stops, calls>>

\* Unsubscribe what RecordSubscriber left, outside the lock, and return.
UnsubscribeReplaced(r) ==
    /\ pc[r] = "cleanup"
    /\ closed' = closed \cup ({old[r]} \ {NoSub})
    /\ Return(r)
    /\ UNCHANGED <<serverVars, brokerVars, used, launched, startVars, stopVars,
                   kaVars, histVars>>

\* RegisterSubscriber: cached while the server is down, else registered now.
RegisterSubscriber(c, t) ==
    /\ pc[c] = "idle" /\ calls[c] < MaxCalls
    /\ calls' = [calls EXCEPT ![c] = @ + 1]
    /\ \/ /\ ~started
          /\ subscriberOpts' = subscriberOpts \cup {t}
          /\ accepted' = accepted \cup {t}
          /\ UNCHANGED <<pc, tp>>
       \/ /\ started
          /\ EnterRegister(c, t)
          /\ UNCHANGED <<subscriberOpts, accepted>>
    /\ UNCHANGED <<started, err, subscribers, keepalive, brokerVars, subVars,
                   sb, old, startVars, stopVars, kaVars, starts, stops>>

-----------------------------------------------------------------------------
(* Start.                                                                  *)

\* Start returns at once on a left-over error or when already started.
StartCall ==
    /\ startPc = "idle" /\ stopPc = "idle" /\ starts < MaxStarts
    /\ starts' = starts + 1
    /\ IF err \/ started
       THEN UNCHANGED <<startPc, keepalive, kaCount>>
       ELSE /\ startPc' = "connect"
            /\ kaCount' = IF keepalive = 0 THEN kaCount + 1 ELSE kaCount
            /\ keepalive' = IF keepalive = 0 THEN kaCount + 1 ELSE keepalive
    /\ UNCHANGED <<started, err, subscribers, subscriberOpts, brokerVars,
                   subVars, regVars, pending, errs, stopVars, kaSpawned,
                   kaStopped, stops, calls, accepted>>

\* Broker Connect: it fails and the error stays, or the connection is up.
StartConnect ==
    /\ startPc = "connect"
    /\ \/ err' = TRUE /\ startPc' = "idle" /\ UNCHANGED connected
       \/ err' = FALSE /\ startPc' = "started" /\ connected' = TRUE
    /\ UNCHANGED <<started, subscribers, subscriberOpts, keepalive, brokerSubs,
                   subVars, regVars, pending, errs, stopVars, kaVars, histVars>>

StartSetStarted ==
    /\ startPc = "started"
    /\ started' = TRUE
    /\ startPc' = "keepalive"
    /\ UNCHANGED <<err, subscribers, subscriberOpts, keepalive, brokerVars,
                   subVars, regVars, pending, errs, stopVars, kaVars, histVars>>

\* go ka.Start(ctx), unless Stop has already cleared the field.
StartKeepalive ==
    /\ startPc = "keepalive"
    /\ kaSpawned' = kaSpawned \cup ({keepalive} \ {0})
    /\ startPc' = "take"
    /\ UNCHANGED <<serverVars, brokerVars, subVars, regVars, pending, errs,
                   stopVars, kaCount, kaStopped, histVars>>

\* Mutant: the cache is emptied before it is taken.
TakeSubscriberOptsLate ==
    /\ startPc = "take"
    /\ pending' = {}
    /\ subscriberOpts' = {}
    /\ errs' = FALSE
    /\ startPc' = "loop"
    /\ UNCHANGED <<started, err, subscribers, keepalive, brokerVars, subVars,
                   regVars, stopVars, kaVars, histVars>>

\* doRegisterSubscriberMap takes the cached registrations and empties the cache.
TakeSubscriberOpts ==
    /\ startPc = "take"
    /\ pending' = subscriberOpts
    /\ subscriberOpts' = {}
    /\ errs' = FALSE
    /\ startPc' = "loop"
    /\ UNCHANGED <<started, err, subscribers, keepalive, brokerVars, subVars,
                   regVars, stopVars, kaVars, histVars>>

\* Next cached registration, in the map's arbitrary order.
StartRegister ==
    /\ startPc = "loop" /\ pc[Starter] = "idle"
    /\ \E t \in pending :
          /\ pending' = pending \ {t}
          /\ EnterRegister(Starter, t)
    /\ UNCHANGED <<serverVars, brokerVars, subVars, sb, old, startPc, errs,
                   stopVars, kaVars, histVars>>

\* All done: the joined errors become Server.err.
StartReturn ==
    /\ startPc = "loop" /\ pc[Starter] = "idle" /\ pending = {}
    /\ err' = errs
    /\ startPc' = "idle"
    /\ UNCHANGED <<started, subscribers, subscriberOpts, keepalive, brokerVars,
                   subVars, regVars, pending, errs, stopVars, kaVars, histVars>>

-----------------------------------------------------------------------------
(* Stop.                                                                   *)

\* Stop reads started and returns (clearing the error) or stores false.
StopCall ==
    /\ stopPc = "idle" /\ stops < MaxStops
    /\ startPc = "idle" \/ StopDuringStart
    /\ stops' = stops + 1
    /\ IF started
       THEN started' = FALSE /\ stopPc' = "swap" /\ UNCHANGED err
       ELSE err' = FALSE /\ UNCHANGED <<started, stopPc>>
    /\ UNCHANGED <<subscribers, subscriberOpts, keepalive, brokerVars, subVars,
                   regVars, startVars, stopSubs, clearing, kaVars, starts,
                   calls, accepted>>

\* Under the lock: take the subscriber table, leave an empty one.
StopSwap ==
    /\ stopPc = "swap"
    /\ stopSubs' = Held(subscribers)
    /\ subscribers' = NoSubs
    /\ stopPc' = "unsub"
    /\ UNCHANGED <<started, err, subscriberOpts, keepalive, brokerVars, subVars,
                   regVars, startVars, clearing, kaVars, histVars>>

\* Unsubscribe the snapshot one by one.
StopUnsubscribe ==
    /\ stopPc = "unsub"
    /\ \/ \E s \in stopSubs :
             /\ closed' = closed \cup {s}
             /\ stopSubs' = stopSubs \ {s}
             /\ UNCHANGED stopPc
       \/ /\ stopSubs = {} /\ stopPc' = "clear"
          /\ UNCHANGED <<closed, stopSubs>>
    /\ UNCHANGED <<serverVars, brokerVars, used, launched, regVars, startVars,
                   clearing, kaVars, histVars>>

\* Broker Disconnect: SubscriberSyncMap.Clear swaps the map under its lock,
\* then unsubscribes what was in it.
DisconnectSwap ==
    /\ stopPc = "clear"
    /\ clearing' = Held(brokerSubs)
    /\ brokerSubs' = NoSubs
    /\ stopPc' = "clearing"
    /\ UNCHANGED <<serverVars, connected, subVars, regVars, startVars, stopSubs,
                   kaVars, histVars>>

DisconnectUnsubscribe ==
    /\ stopPc = "clearing"
    /\ \/ \E s \in clearing :
             /\ closed' = closed \cup {s}
             /\ clearing' = clearing \ {s}
             /\ UNCHANGED stopPc
       \/ /\ clearing = {} /\ stopPc' = "close"
          /\ UNCHANGED <<closed, clearing>>
    /\ UNCHANGED <<serverVars, brokerVars, used, launched, regVars, startVars,
                   stopSubs, kaVars, histVars>>

\* rabbitConnection.Close.
DisconnectClose ==
    /\ stopPc = "close"
    /\ connected' = FALSE
    /\ stopPc' = "finish"
    /\ UNCHANGED <<serverVars, brokerSubs, subVars, regVars, startVars,
                   stopSubs, clearing, kaVars, histVars>>

\* Clear the error, stop the keepalive server and drop it.
StopFinish ==
    /\ stopPc = "finish"
    /\ err' = FALSE
    /\ kaStopped' = kaStopped \cup ({keepalive} \ {0})
    /\ keepalive' = 0
    /\ stopPc' = "idle"
    /\ UNCHANGED <<started, subscribers, subscriberOpts, brokerVars, subVars,
                   regVars, startVars, stopSubs, clearing, kaCount, kaSpawned,
                   histVars>>

-----------------------------------------------------------------------------
DoRegisterSubscriber(r) ==
    \/ SubscribeGet(r) \/ SubscribeUnsubOld(r) \/ SubscribeAdd(r)
    \/ DeclareFail(r) \/ DeclareOK(r)
    \/ RecordSubscriber(r) \/ UnsubscribeReplaced(r)

StartSteps ==
    \/ StartConnect \/ StartSetStarted \/ StartKeepalive
    \/ TakeSubscriberOpts \/ StartRegister \/ StartReturn

StopSteps ==
    \/ StopSwap \/ StopUnsubscribe \/ DisconnectSwap
    \/ DisconnectUnsubscribe \/ DisconnectClose \/ StopFinish

Next ==
    \/ \E c \in Callers : \E t \in CallerTopics[c] : RegisterSubscriber(c, t)
    \/ \E r \in Registrars : DoRegisterSubscriber(r)
    \/ StartCall \/ StartSteps
    \/ StopCall \/ StopSteps

Spec == Init /\ [][Next]_vars

\* A goroutine inside Start, Stop or a registration is eventually scheduled;
\* nobody is obliged to call anything.
Fairness ==
    /\ \A r \in Registrars : WF_vars(DoRegisterSubscriber(r))
    /\ WF_vars(StartSteps)
    /\ WF_vars(StopSteps)

FairSpec == Spec /\ Fairness

-----------------------------------------------------------------------------
(* Properties.                                                             *)

Registering == \E r \in Registrars : pc[r] # "idle"
Starting    == startPc # "idle"
Stopping    == stopPc # "idle"
Quiet       == ~Registering /\ ~Starting /\ ~Stopping

\* When no registration or Stop is in progress, every consuming subscriber is
\* one the server still holds: a registration that races Stop, or replaces
\* another of the same topic, leaves no consumer behind that nobody can
\* unsubscribe (doRegisterSubscriber's second look at started).
NoOrphanConsumer == ~Registering /\ ~Stopping => Live \subseteq Held(subscribers)

\* The inductive strengthening of NoOrphanConsumer, StoppedMeansSilent and
\* KeepaliveStopped: who is responsible for every consuming subscriber at every
\* step of Start, Stop and the registrations, and what Start and Stop can
\* still do to each other.
InRegistration ==
    {sb[r] : r \in {r \in Registrars : pc[r] = "record"}}
    \cup {old[r] : r \in {r \in Registrars : pc[r] = "cleanup"}}

RegistrarsOK ==
    \A r \in Registrars :
        /\ pc[r] # "idle" => tp[r] \in Topics
        /\ pc[r] \in {"add", "unsub", "declare", "record", "cleanup"} => sb[r] \in used
        /\ pc[r] = "unsub" => old[r] \in used
        /\ pc[r] = "record" => sb[r] \in launched

StartStopOK ==
    /\ stopPc # "idle" => ~started
    /\ startPc \in {"connect", "started"} => ~started /\ stopPc = "idle"
    /\ stopPc # "unsub" => stopSubs = {}
    /\ ~started /\ stopPc # "swap" => subscribers = NoSubs

KeepaliveOK ==
    /\ kaSpawned \subseteq kaStopped \cup {keepalive}
    /\ ~started /\ stopPc = "idle" => kaSpawned \subseteq kaStopped
    /\ ~started /\ stopPc = "idle" /\ startPc \in {"keepalive", "take", "loop"}
          => keepalive = 0

IInv ==
    /\ TypeOK /\ RegistrarsOK /\ StartStopOK /\ KeepaliveOK
    /\ Held(subscribers) \cup Held(brokerSubs) \subseteq used
    /\ Live \subseteq Held(subscribers) \cup InRegistration \cup stopSubs

\* What the server shows its program: it runs while started is set, is busy
\* while any call is in progress, and answers for the subscribers in its table.
Promise == INSTANCE MQPromise WITH
    running <- started, busy <- ~Quiet, table <- subscribers,
    live <- Live, ended <- closed

\* Every step of Start, Stop and the registrations, however they interleave, is
\* one the promise allows: a subscriber consumes once, from its Subscribe to its
\* Unsubscribe, is recorded only while the server runs, and whenever all calls
\* have returned the table holds every consumer, none after Stop.
KeepsPromise == Promise!Spec

\* Once Stop has returned and nothing is in progress, nothing consumes.
StoppedMeansSilent == Quiet /\ ~started => Live = {}

\* Every keepalive server Start spawned is told to stop by the time the server
\* is stopped, whatever the interleaving of Start and Stop.
KeepaliveStopped == Quiet /\ ~started => kaSpawned \subseteq kaStopped

\* A registration whose RegisterSubscriber returned nil is in the cache, or is
\* being processed by Start: the next Start registers all of them again.
RegistrationsKept ==
    accepted \subseteq subscriberOpts \cup pending
                       \cup {tp[r] : r \in {r \in Registrars : pc[r] # "idle"}}

\* While the server runs and nothing is in progress, every registered topic has
\* a live consumer.
RegisteredServed ==
    Quiet /\ started => \A t \in subscriberOpts : subscribers[t] \in Live

\* A cached registration gets a live consumer once the server is started, unless
\* the server is stopped.
EventuallyServed ==
    \A t \in Topics :
        (t \in accepted /\ started) ~> (subscribers[t] \in Live \/ ~started)
=============================================================================
