---------------------------- MODULE BrokerFamily ----------------------------
(***************************************************************************)
(* Subscribing, unsubscribing and disconnecting, for every broker under    *)
(* broker/ (the profiles of BrokerProfiles), either called directly or     *)
(* through the transport server that owns it (TransportProfiles).  That    *)
(* Connect may fail is left to MQServer.                                   *)
(*                                                                         *)
(* A goroutine that is inside a call is the list of the steps it still has *)
(* to take; a step is what runs between two points at which another        *)
(* goroutine can be seen.                                                  *)
(***************************************************************************)
EXTENDS Naturals, Sequences, FiniteSets, Functions, BrokerProfiles, TransportProfiles

CONSTANTS
    Cases,       \* the brokers to look at, each with who calls it and how
    Topics, NoTopic,
    Callers,     \* goroutines that subscribe
    Starter,     \* the goroutine in Start (and so the one that re-registers)
    NoSub,
    MayFail,     \* a request to a connected messaging system can fail
    MaxSubs,     \* bound: subscriber objects made
    MaxStarts,   \* bound: calls of Start (or Connect)
    MaxDrops     \* bound: calls of Unsubscribe(true) by the subscriber's owner

ASSUME BrokerFamilyAssumption ==
    /\ Cases \subseteq [member : DOMAIN Profile, layer : {"broker", "transport"},
                       overlap : BOOLEAN, topics : SUBSET Topics,
                       callers : SUBSET Callers]
    /\ NoTopic \notin Topics /\ Starter \notin Callers
    /\ MayFail \in BOOLEAN
    /\ MaxSubs \in Nat /\ NoSub \notin 1..MaxSubs
    /\ MaxStarts \in Nat /\ MaxDrops \in Nat

Workers == Callers \cup {Starter}
Subs == 1..MaxSubs

VARIABLES
    case,        \* the member of Cases that is looked at
    connected,   \* the client is there and open
    brokerSubs,  \* the broker's SubscriberSyncMap
    topicOf,     \* subscribers made so far: their topics, in order
    launched,    \* subscribers whose consumer was started
    closed,      \* subscribers whose Unsubscribe was called
    dead,        \* subscribers whose connection is gone
    routed,      \* shared client: topics it is subscribed to
    crashed,     \* a nil client was dereferenced
    prog, tp, sb, old,         \* per worker: steps left, topic, locals
    stopProg, clearing,        \* Stop or Disconnect: steps left, snapshot
    started, table, opts,      \* Server: started, subscribers, subscriberOpts
    startProg, pending,        \* Start: steps left, registrations still to do
    ka,                        \* keepaliveServer: "none" (nil), "made", "running"
    servedAt,                  \* per worker: topic was served when it called
    starts, drops              \* bounds

brokerVars == <<case, connected, brokerSubs, routed, crashed>>
subVars    == <<topicOf, launched, closed, dead>>
workVars   == <<prog, tp, sb, old, servedAt>>
stopVars   == <<stopProg, clearing>>
srvVars    == <<started, table, opts, startProg, pending, ka>>
cntVars    == <<starts, drops>>
vars == <<brokerVars, subVars, workVars, stopVars, srvVars, cntVars>>

member == case.member
Layer == case.layer       \* called directly, or through the transport server
Overlap == case.overlap   \* calls of different goroutines may overlap
P == Profile[member]
T == Transport[member]
Shared == P.unsubscribe \in {"topic", "topicOnce"}
Once == P.unsubscribe \in {"ownOnce", "topicOnce"}
NoSubs == [t \in Topics |-> NoSub]
Held(map) == {map[t] : t \in Topics} \ {NoSub}

\* A subscriber that gets messages.
Live == {s \in launched \ (closed \cup dead) :
            ~Shared \/ topicOf[s] \in routed}

\* The messages of topic t reach some handler.
Served(t) == IF Shared THEN t \in routed
                       ELSE \E s \in Live : topicOf[s] = t

Idle == /\ \A w \in Workers : prog[w] = <<>>
        /\ stopProg = <<>> /\ startProg = <<>> /\ pending = {}

Init ==
    /\ case \in Cases
    /\ connected = FALSE /\ started = FALSE /\ crashed = FALSE
    /\ brokerSubs = NoSubs /\ table = NoSubs /\ topicOf = <<>>
    /\ launched = {} /\ closed = {} /\ dead = {} /\ routed = {}
    /\ prog = [w \in Workers |-> <<>>] /\ tp = [w \in Workers |-> NoTopic]
    /\ sb = [w \in Workers |-> NoSub] /\ old = [w \in Workers |-> NoSub]
    /\ servedAt = [w \in Workers |-> FALSE]
    /\ stopProg = <<>> /\ clearing = {} /\ opts = {}
    /\ startProg = <<>> /\ pending = {} /\ ka = "made"
    /\ starts = 0 /\ drops = 0

-----------------------------------------------------------------------------
(* What the steps are made of.                                             *)

\* Unsubscribe(false) on every subscriber of S.
Unsubscribe(S) ==
    /\ closed' = closed \cup S
    /\ routed' = IF Shared
                 THEN routed \ {topicOf[s] : s \in IF Once THEN S \ closed ELSE S}
                 ELSE routed

At(w, step) == ~crashed /\ prog[w] # <<>> /\ Head(prog[w]) = step

\* The call of worker w returns.
Return(w) ==
    /\ prog' = [prog EXCEPT ![w] = <<>>]
    /\ tp' = [tp EXCEPT ![w] = NoTopic]
    /\ sb' = [sb EXCEPT ![w] = NoSub]
    /\ old' = [old EXCEPT ![w] = NoSub]
    /\ servedAt' = [servedAt EXCEPT ![w] = FALSE]

Advance(w) ==
    IF Len(prog[w]) = 1 THEN Return(w)
    ELSE prog' = [prog EXCEPT ![w] = Tail(@)] /\ UNCHANGED <<tp, sb, old, servedAt>>

\* As Advance, and the local old becomes s.
AdvanceOld(w, s) ==
    /\ prog' = [prog EXCEPT ![w] = Tail(@)]
    /\ old' = [old EXCEPT ![w] = s]
    /\ UNCHANGED <<tp, sb, servedAt>>

Launch(w) ==
    /\ launched' = launched \cup {sb[w]}
    /\ routed' = IF Shared THEN routed \cup {tp[w]} ELSE routed

\* A request that needs the connection: it fails, or ok is what happens.
Request(w, ok) ==
    \/ connected /\ ok /\ Advance(w)
    \/ (~connected \/ MayFail) /\ Return(w) /\ UNCHANGED <<launched, routed>>

Crash == crashed' = TRUE /\ UNCHANGED <<prog, tp, sb, old, servedAt, launched, routed>>

-----------------------------------------------------------------------------
(* Subscribe, step by step.                                                *)

Rest == <<case, connected, stopVars, srvVars, cntVars>>

StepClient(w) ==
    /\ At(w, "client")
    /\ IF connected THEN Advance(w) ELSE Return(w)
    /\ UNCHANGED <<Rest, subVars, brokerSubs, routed, crashed>>

StepAsk(w) ==
    /\ At(w, "ask") \/ At(w, "askNil")
    /\ IF At(w, "askNil") /\ ~connected THEN Crash
       ELSE Request(w, UNCHANGED <<launched, routed>>) /\ UNCHANGED crashed
    /\ UNCHANGED <<Rest, topicOf, closed, dead, brokerSubs>>

StepOpen(w) ==
    /\ At(w, "open") \/ At(w, "openNil")
    /\ IF At(w, "openNil") /\ ~connected THEN Crash
       ELSE Request(w, Launch(w)) /\ UNCHANGED crashed
    /\ UNCHANGED <<Rest, topicOf, closed, dead, brokerSubs>>

StepStart(w) ==
    /\ At(w, "start") \/ At(w, "startNil")
    /\ IF At(w, "startNil") /\ ~connected THEN Crash /\ UNCHANGED dead
       ELSE /\ Launch(w) /\ Advance(w) /\ UNCHANGED crashed
            /\ dead' = IF connected THEN dead ELSE dead \cup {sb[w]}
    /\ UNCHANGED <<Rest, topicOf, closed, brokerSubs>>

StepDial(w) ==
    /\ At(w, "dial")
    /\ \/ Launch(w) /\ Advance(w)
       \/ MayFail /\ Return(w) /\ UNCHANGED <<launched, routed>>
    /\ UNCHANGED <<Rest, topicOf, closed, dead, brokerSubs, crashed>>

StepDialIf(w) ==
    /\ At(w, "dialIf")
    /\ \/ connected /\ Launch(w) /\ Advance(w)
       \/ connected /\ MayFail /\ Return(w) /\ UNCHANGED <<launched, routed>>
       \/ ~connected /\ Advance(w) /\ UNCHANGED <<launched, routed>>
    /\ UNCHANGED <<Rest, topicOf, closed, dead, brokerSubs, crashed>>

StepSpawn(w) ==
    /\ At(w, "spawn")
    /\ Launch(w) /\ Advance(w)
    /\ UNCHANGED <<Rest, topicOf, closed, dead, brokerSubs, crashed>>

StepGet(w) ==
    /\ At(w, "get")
    /\ AdvanceOld(w, brokerSubs[tp[w]])
    /\ UNCHANGED <<Rest, subVars, brokerSubs, routed, crashed>>

StepUnsub(w) ==
    /\ At(w, "unsub")
    /\ Unsubscribe({old[w]} \ {NoSub})
    /\ AdvanceOld(w, NoSub)
    /\ UNCHANGED <<Rest, topicOf, launched, dead, brokerSubs, crashed>>

StepAdd(w) ==
    /\ At(w, "add")
    /\ brokerSubs' = [brokerSubs EXCEPT ![tp[w]] = sb[w]]
    /\ Advance(w)
    /\ UNCHANGED <<Rest, subVars, routed, crashed>>

StepDeclare(w) ==
    /\ At(w, "declare")
    /\ \/ connected /\ Advance(w) /\ UNCHANGED brokerSubs
       \/ /\ ~connected \/ MayFail
          /\ brokerSubs' = [brokerSubs EXCEPT ![tp[w]] = NoSub]
          /\ Return(w)
    /\ UNCHANGED <<Rest, subVars, routed, crashed>>

\* Mutant: recorded without looking at started.
StepRecordAlways(w) ==
    /\ At(w, "record")
    /\ table' = [table EXCEPT ![tp[w]] = sb[w]]
    /\ opts' = opts \cup {tp[w]}
    /\ AdvanceOld(w, table[tp[w]])
    /\ UNCHANGED <<case, connected, stopVars, started, startProg, pending, ka,
                   cntVars, subVars, brokerSubs, routed, crashed>>

\* doRegisterSubscriber after Subscribe: the critical section ...
StepRecord(w) ==
    /\ At(w, "record")
    /\ table' = IF started THEN [table EXCEPT ![tp[w]] = sb[w]] ELSE table
    /\ opts' = opts \cup {tp[w]}
    /\ AdvanceOld(w, IF started THEN table[tp[w]] ELSE sb[w])
    /\ UNCHANGED <<case, connected, stopVars, started, startProg, pending, ka,
                   cntVars, subVars, brokerSubs, routed, crashed>>

\* Mutant: the replaced subscriber is left alone.
StepCleanupKeeps(w) ==
    /\ At(w, "cleanup")
    /\ Advance(w)
    /\ UNCHANGED <<Rest, subVars, routed, brokerSubs, crashed>>

\* ... and the unsubscription of what it replaced (or of the late newcomer).
StepCleanup(w) ==
    /\ At(w, "cleanup")
    /\ Unsubscribe({old[w]} \ {NoSub})
    /\ Advance(w)
    /\ UNCHANGED <<Rest, topicOf, launched, dead, brokerSubs, crashed>>

-----------------------------------------------------------------------------
(* The calls.                                                              *)

\* Worker w enters Subscribe (through doRegisterSubscriber) for topic t.
Enter(w, t) ==
    /\ Len(topicOf) < MaxSubs
    /\ topicOf' = Append(topicOf, t)
    /\ prog' = [prog EXCEPT ![w] = P.subscribe \o
                   IF Layer = "transport" THEN T.register ELSE <<>>]
    /\ tp' = [tp EXCEPT ![w] = t]
    /\ sb' = [sb EXCEPT ![w] = Len(topicOf) + 1]
    /\ servedAt' = [servedAt EXCEPT ![w] = Served(t)]
    /\ UNCHANGED <<brokerVars, launched, closed, dead, old, stopVars, cntVars>>

\* Subscribe or RegisterSubscriber; a stopped server caches the registration.
Call(c, t) ==
    /\ ~crashed /\ prog[c] = <<>> /\ (Overlap \/ Idle)
    /\ IF Layer = "transport" /\ ~started
       THEN /\ t \notin opts
            /\ opts' = opts \cup {t}
            /\ UNCHANGED <<brokerVars, subVars, workVars, stopVars, started,
                           table, startProg, pending, ka, cntVars>>
       ELSE Enter(c, t) /\ UNCHANGED srvVars

\* Connect or Start.
Start ==
    /\ ~crashed /\ Idle /\ ~connected /\ ~started /\ starts < MaxStarts
    /\ starts' = starts + 1
    /\ startProg' = IF Layer = "transport" THEN T.start ELSE <<"connect">>
    /\ ka' = IF ka = "none" THEN "made" ELSE ka
    /\ UNCHANGED <<brokerVars, subVars, workVars, stopVars, started, table, opts,
                   pending, drops>>

StartAt(step) == ~crashed /\ startProg # <<>> /\ Head(startProg) = step
StartAdvance == startProg' = Tail(startProg)

\* The map's entries that Connect starts to consume.
Resumed ==
    LET how == IF member \in DOMAIN Resumes THEN Resumes[member] ELSE "none"
    IN  CASE how = "none" -> {}
          [] how = "open" -> Held(brokerSubs) \ closed
          [] how = "all"  -> Held(brokerSubs)

StartConnect ==
    /\ StartAt("connect") /\ StartAdvance
    /\ connected' = TRUE
    /\ launched' = launched \cup Resumed
    /\ routed' = IF Shared THEN routed \cup {topicOf[s] : s \in Resumed} ELSE routed
    /\ UNCHANGED <<case, brokerSubs, crashed, topicOf, closed, dead, workVars,
                   stopVars, started, table, opts, pending, ka, cntVars>>

StartFlag ==
    /\ StartAt("flag") /\ StartAdvance
    /\ started' = TRUE
    /\ UNCHANGED <<brokerVars, subVars, workVars, stopVars, table, opts, pending,
                   ka, cntVars>>

StartKeepalive ==
    /\ StartAt("keepalive") /\ StartAdvance
    /\ ka' = IF ka = "none" THEN ka ELSE "running"
    /\ UNCHANGED <<brokerVars, subVars, workVars, stopVars, started, table, opts,
                   pending, cntVars>>

StartTake ==
    /\ StartAt("take") /\ StartAdvance
    /\ pending' = opts /\ opts' = {}
    /\ UNCHANGED <<brokerVars, subVars, workVars, stopVars, started, table, ka,
                   cntVars>>

StartRegister ==
    /\ ~crashed /\ prog[Starter] = <<>>
    /\ \E t \in pending :
          Enter(Starter, t) /\ pending' = pending \ {t}
    /\ UNCHANGED <<started, table, opts, startProg, ka>>

\* Stop or Disconnect.
Stop ==
    /\ ~crashed /\ stopProg = <<>> /\ (Overlap \/ Idle)
    /\ IF Layer = "transport" THEN started ELSE connected
    /\ started' = FALSE
    /\ stopProg' = IF Layer = "transport"
                   THEN T.stop.before \o P.disconnect \o T.stop.after
                   ELSE P.disconnect
    /\ UNCHANGED <<brokerVars, subVars, workVars, clearing, table, opts, startProg,
                   pending, ka, cntVars>>

StopAt(step) == ~crashed /\ stopProg # <<>> /\ Head(stopProg) = step
StopAdvance == stopProg' = Tail(stopProg)

StopGuard ==
    /\ StopAt("guard")
    /\ stopProg' = IF connected THEN Tail(stopProg)
                   ELSE IF Layer = "transport" THEN T.stop.after ELSE <<>>
    /\ UNCHANGED <<brokerVars, subVars, workVars, clearing, srvVars, cntVars>>

StopSwapTable ==
    /\ StopAt("swapTable") /\ StopAdvance
    /\ clearing' = Held(table) /\ table' = NoSubs
    /\ UNCHANGED <<brokerVars, subVars, workVars, started, opts, startProg,
                   pending, ka, cntVars>>

StopSwap ==
    /\ StopAt("swap") /\ StopAdvance
    /\ clearing' = Held(brokerSubs) /\ brokerSubs' = NoSubs
    /\ UNCHANGED <<case, connected, routed, crashed, subVars, workVars, srvVars,
                   cntVars>>

\* Each entry's consumer is stopped; one that was never started is nil.
StopEach ==
    /\ StopAt("stopEach") /\ StopAdvance
    /\ crashed' = ~(Held(brokerSubs) \subseteq launched)
    /\ dead' = dead \cup Held(brokerSubs)
    /\ UNCHANGED <<case, connected, brokerSubs, routed, topicOf, launched, closed,
                   workVars, clearing, srvVars, cntVars>>

StopUnsubAll ==
    /\ StopAt("unsubAll") /\ StopAdvance
    /\ Unsubscribe(clearing) /\ clearing' = {}
    /\ UNCHANGED <<case, connected, brokerSubs, crashed, topicOf, launched,
                   dead, workVars, srvVars, cntVars>>

StopClose ==
    /\ StopAt("close") /\ StopAdvance
    /\ connected' = FALSE
    /\ dead' = dead \cup launched /\ routed' = {}
    /\ UNCHANGED <<case, brokerSubs, crashed, topicOf, launched, closed,
                   workVars, clearing, srvVars, cntVars>>

StopDrop ==
    /\ StopAt("drop") /\ StopAdvance
    /\ connected' = FALSE
    /\ UNCHANGED <<case, brokerSubs, routed, crashed, subVars, workVars,
                   clearing, srvVars, cntVars>>

StopKeepalive ==
    /\ StopAt("keepalive") /\ StopAdvance
    /\ ka' = "none"
    /\ UNCHANGED <<brokerVars, subVars, workVars, clearing, started, table, opts,
                   startProg, pending, cntVars>>

\* Whoever Subscribe returned s to calls s.Unsubscribe(true): RemoveOnly takes
\* out whatever the map holds for the topic by now.
OwnerUnsubscribe(s) ==
    /\ ~crashed /\ Layer = "broker" /\ (Overlap \/ Idle) /\ drops < MaxDrops
    /\ s \in launched /\ s \notin {sb[w] : w \in Workers}
    /\ drops' = drops + 1
    /\ Unsubscribe({s})
    /\ brokerSubs' = IF Once /\ s \in closed THEN brokerSubs
                     ELSE [brokerSubs EXCEPT ![topicOf[s]] = NoSub]
    /\ UNCHANGED <<case, connected, crashed, topicOf, launched, dead, workVars,
                   stopVars, srvVars, starts>>

Step(w) ==
    \/ StepClient(w) \/ StepAsk(w) \/ StepOpen(w) \/ StepStart(w)
    \/ StepDial(w) \/ StepDialIf(w) \/ StepSpawn(w)
    \/ StepGet(w) \/ StepUnsub(w) \/ StepAdd(w) \/ StepDeclare(w) \/ StepRecord(w) \/ StepCleanup(w)

StopStep ==
    \/ StopGuard \/ StopEach \/ StopSwapTable \/ StopSwap \/ StopUnsubAll
    \/ StopClose \/ StopDrop \/ StopKeepalive

Next ==
    \/ \E c \in case.callers, t \in case.topics : Call(c, t)
    \/ \E w \in Workers : Step(w)
    \/ Start \/ StartConnect \/ StartFlag \/ StartKeepalive \/ StartTake
    \/ StartRegister \/ Stop \/ StopStep
    \/ \E s \in Subs : OwnerUnsubscribe(s)

Spec == Init /\ [][Next]_vars

-----------------------------------------------------------------------------
(* Properties.                                                             *)

\* When nobody is inside a call, no topic of a transport server is consumed
\* twice: whatever the order of Subscribe, doRegisterSubscriber and Stop, a
\* replaced subscriber has been unsubscribed.
OneConsumer ==
    Layer = "transport" /\ Idle =>
        \A s1, s2 \in Live : topicOf[s1] = topicOf[s2] => s1 = s2

\* When nobody is inside a call, every topic in a running server's table is
\* really consumed: re-registering a topic, one call after the other, does not
\* take away its consumer.
ServedWhenRegistered ==
    Idle /\ started /\ ~Overlap => \A t \in Topics : table[t] # NoSub => Served(t)

\* After Stop nothing consumes, whichever registrations were in flight.
StoppedSilent ==
    Layer = "transport" /\ Idle /\ ~started => Live = {} /\ routed = {}

\* Brokers whose Disconnect closes the client, and those that reach a consumer
\* only through the map.
ClosesClient == {"nats", "jetstream", "pulsar", "stomp", "azuresb", "gcpubsub"}
ClearsMap == {"sqs", "kafka", "redispubsub", "redisstream", "nsq"}

\* When Disconnect returns nothing consumes any more: every consumer was in the
\* broker's map or died with the client.  Brokers that do not close the client
\* reach only what is in the map, so for them calls must not overlap and nobody
\* removes a topic's entry by way of a replaced subscriber.
DisconnectStopsAll ==
    [][/\ Layer = "broker" /\ stopProg # <<>> /\ stopProg' = <<>>
       /\ \/ member \in ClosesClient
          \/ member \in ClearsMap /\ ~Overlap /\ drops = 0
       => Live' = {}]_vars

\* A Subscribe that returns an error on a live connection leaves the consumer
\* the topic had before in place (brokers that open first, replace after), as
\* long as nobody else meanwhile unsubscribes it.
FailedKeepsOld ==
    [][\A w \in Workers, t \in Topics :
          /\ Len(prog[w]) > 1 /\ prog'[w] = <<>> /\ connected
          /\ ~Overlap /\ servedAt[w] /\ t = tp[w]
          => Served(t)']_vars

=============================================================================
