----------------------------- MODULE SseStream ------------------------------
(***************************************************************************)
(* The streams of the SSE server (transport/sse): the StreamManager with   *)
(* its entry for one stream ID, the goroutine of every Stream object ever  *)
(* made for that ID, the HTTP handlers of the subscribers with the         *)
(* goroutine that signs them off, a publisher, and Stop.                   *)
(*                                                                         *)
(* Streams are numbered as they are made, 0 is nil.  Events get increasing *)
(* ids (UUID v7) when they are logged; event 0 is the empty event that     *)
(* asks handlers to end.  What a channel of capacity n does is written     *)
(* with sequences: a send waits for room, a rendezvous is one step of the  *)
(* two goroutines.                                                         *)
(***************************************************************************)
EXTENDS Naturals, Sequences, FiniteSets

CONSTANTS
    Clients,
    ConnCap,      \* capacity of Subscriber.connection (64 in the code)
    EventCap,     \* capacity of Stream.event (DefaultBufferSize)
    MaxStreams,   \* bound: Stream objects
    Cases         \* what to look at, see below

(* A case gives the server options, maxEventLogSize (1024 in the code) and *)
(* the clients; says whether the publisher sends the empty event, whether  *)
(* clients may stop reading and whether Stop is called; and bounds the     *)
(* requests of a client and the calls of Publish.                          *)
SseAssumption ==
    /\ {ConnCap, EventCap, MaxStreams} \subseteq Nat \ {0}
    /\ Cases \subseteq
          [autoStream : BOOLEAN, autoReplay : BOOLEAN, logCap : Nat \ {0},
           clients : SUBSET Clients, sentinels : BOOLEAN, stalls : BOOLEAN,
           stops : BOOLEAN, connects : Nat, events : Nat]

Streams == 1..MaxStreams

VARIABLES
    case,                 \* which case this behaviour is about
    mgr, made,            \* StreamManager: the entry; streams made so far
    loop, work,           \* per stream: its goroutine, the sends it is in
    quit, queue, subs, count, elog,  \* the fields of Stream
    cli,                  \* per client: "out", "up", "stalled", "gone"
    han, at, from,        \* its handler, the stream it uses, Last-Event-ID
    conn, shut,           \* Subscriber.connection, and whether it is closed
    off,                  \* the goroutine that signs it off
    got, conns,           \* the ids the client has received; its requests
    pub, ids, sent,       \* the publisher, the last event id, calls of Publish
    stop                  \* "no", "clean", "shutdown", "done"

mgrVars == <<mgr, made>>
strVars == <<loop, work, quit, queue, subs, count, elog>>
hanVars == <<han, at, from, conns>>
subVars == <<conn, shut, off>>
pubVars == <<pub, ids, sent>>
vars == <<case, mgrVars, strVars, cli, hanVars, subVars, got, pubVars, stop>>

LastOr0(s) == IF s = <<>> THEN 0 ELSE s[Len(s)]
Idle(s) == loop[s] = "run" /\ work[s] = <<>>

AutoStream == case.autoStream
AutoReplay == case.autoReplay
LogCap == case.logCap

\* Without autoStream the application has made the stream.
Init ==
    /\ case \in Cases
    /\ made = IF AutoStream THEN 0 ELSE 1
    /\ mgr = made
    /\ loop = [s \in Streams |-> IF s <= made THEN "run" ELSE "off"]
    /\ work = [s \in Streams |-> <<>>] /\ quit = [s \in Streams |-> FALSE]
    /\ queue = [s \in Streams |-> <<>>] /\ subs = [s \in Streams |-> <<>>]
    /\ count = [s \in Streams |-> 0] /\ elog = [s \in Streams |-> <<>>]
    /\ cli = [k \in Clients |-> "out"] /\ han = [k \in Clients |-> "none"]
    /\ at = [k \in Clients |-> 0] /\ from = [k \in Clients |-> 0]
    /\ conn = [k \in Clients |-> <<>>] /\ shut = [k \in Clients |-> FALSE]
    /\ off = [k \in Clients |-> "none"]
    /\ got = [k \in Clients |-> <<>>] /\ conns = [k \in Clients |-> 0]
    /\ pub = <<>> /\ ids = 0 /\ sent = 0 /\ stop = "no"

----------------------------------------------------------------------------
(* ServeHTTP and addSubscriber. *)

\* A request, with the id the client has seen last.
Connect(k) ==
    /\ cli[k] \in {"out", "gone"} /\ han[k] = "none" /\ off[k] = "none"
    /\ k \in case.clients /\ conns[k] < case.connects /\ stop \in {"no", "clean"}
    /\ cli' = [cli EXCEPT ![k] = "up"]
    /\ han' = [han EXCEPT ![k] = "get"]
    /\ from' = [from EXCEPT ![k] = LastOr0(got[k])]
    /\ conns' = [conns EXCEPT ![k] = @ + 1]
    /\ UNCHANGED <<case, mgrVars, strVars, at, subVars, got, pubVars, stop>>

\* StreamManager.Get; no stream is an error reply, or a call of CreateStream.
HandlerGet(k) ==
    /\ han[k] = "get"
    /\ han' = [han EXCEPT ![k] =
                  IF mgr # 0 THEN "sub" ELSE IF AutoStream THEN "make" ELSE "none"]
    /\ at' = [at EXCEPT ![k] = mgr]
    /\ cli' = [cli EXCEPT ![k] = IF mgr = 0 /\ ~AutoStream THEN "gone" ELSE @]
    /\ UNCHANGED <<case, mgrVars, strVars, from, conns, subVars, got, pubVars, stop>>

\* Mutant: the goroutine is not started.
HandlerMakeIdle(k) ==
    /\ han[k] = "make" /\ made < MaxStreams
    /\ made' = made + 1
    /\ han' = [han EXCEPT ![k] = "add"] /\ at' = [at EXCEPT ![k] = made + 1]
    /\ UNCHANGED <<case, mgr, strVars, cli, from, conns, subVars, got, pubVars, stop>>
\* CreateStream looks again, else makes a stream and starts its goroutine.
HandlerMake(k) ==
    /\ han[k] = "make"
    /\ IF mgr # 0
       THEN /\ han' = [han EXCEPT ![k] = "sub"] /\ at' = [at EXCEPT ![k] = mgr]
            /\ UNCHANGED <<made, loop>>
       ELSE /\ made < MaxStreams /\ made' = made + 1
            /\ loop' = [loop EXCEPT ![made + 1] = "run"]
            /\ han' = [han EXCEPT ![k] = "add"] /\ at' = [at EXCEPT ![k] = made + 1]
    /\ UNCHANGED <<case, mgr, work, quit, queue, subs, count, elog, cli, from, conns,
                   subVars, got, pubVars, stop>>

\* StreamManager.Add keeps the entry that is there; the caller keeps its own.
HandlerAdd(k) ==
    /\ han[k] = "add"
    /\ mgr' = IF mgr = 0 THEN at[k] ELSE mgr
    /\ han' = [han EXCEPT ![k] = "sub"]
    /\ UNCHANGED <<case, made, strVars, cli, at, from, conns, subVars, got, pubVars, stop>>

HandlerSub(k) ==
    /\ han[k] = "sub"
    /\ count' = [count EXCEPT ![at[k]] = @ + 1]
    /\ conn' = [conn EXCEPT ![k] = <<>>] /\ shut' = [shut EXCEPT ![k] = FALSE]
    /\ han' = [han EXCEPT ![k] = "register"]
    /\ UNCHANGED <<case, mgrVars, loop, work, quit, queue, subs, elog, cli, at, from, conns,
                   off, got, pubVars, stop>>

\* Mutant: the event the client has seen last is sent again.
ReplayInclusive(s, k) == SelectSeq(elog[s], LAMBDA i : i >= from[k])
Replay(s, k) == SelectSeq(elog[s], LAMBDA i : i > from[k])
Sends(ks, i) == [j \in 1..Len(ks) |-> [to |-> ks[j], id |-> i]]

\* s.register <- sub, received by the stream, which replays its log.
Register(k) ==
    /\ han[k] = "register" /\ Idle(at[k])
    /\ LET s == at[k]
           r == IF AutoReplay THEN Replay(s, k) ELSE <<>>
       IN /\ subs' = [subs EXCEPT ![s] = Append(@, k)]
          /\ work' = [work EXCEPT ![s] = [j \in 1..Len(r) |-> [to |-> k, id |-> r[j]]]]
    /\ han' = [han EXCEPT ![k] = "read"] /\ off' = [off EXCEPT ![k] = "wait"]
    /\ UNCHANGED <<case, mgrVars, loop, quit, queue, count, elog, cli, at, from, conns,
                   conn, shut, got, pubVars, stop>>

\* The loop over sub.connection: write, or end on the empty event.
HandlerRead(k) ==
    /\ han[k] = "read" /\ conn[k] # <<>> /\ cli[k] # "stalled"
    /\ conn' = [conn EXCEPT ![k] = Tail(@)]
    /\ IF Head(conn[k]) = 0
       THEN /\ han' = [han EXCEPT ![k] = "none"] /\ cli' = [cli EXCEPT ![k] = "gone"]
            /\ UNCHANGED got
       ELSE /\ got' = [got EXCEPT ![k] =
                          IF cli[k] = "up" THEN Append(@, Head(conn[k])) ELSE @]
            /\ UNCHANGED <<han, cli>>
    /\ UNCHANGED <<case, mgrVars, strVars, at, from, conns, shut, off, pubVars,
                   stop>>

HandlerEnds(k) ==
    /\ han[k] = "read" /\ conn[k] = <<>> /\ shut[k]
    /\ han' = [han EXCEPT ![k] = "none"] /\ cli' = [cli EXCEPT ![k] = "gone"]
    /\ UNCHANGED <<case, mgrVars, strVars, at, from, conns, subVars, got, pubVars,
                   stop>>

ClientMoves(k) ==
    /\ cli[k] \in {"up", "stalled"} /\ han[k] # "none"
    /\ \/ case.stalls /\ cli[k] = "up" /\ cli' = [cli EXCEPT ![k] = "stalled"]
       \/ cli' = [cli EXCEPT ![k] = "gone"]
    /\ UNCHANGED <<case, mgrVars, strVars, hanVars, subVars, got, pubVars, stop>>

----------------------------------------------------------------------------
(* The goroutine of ServeHTTP that waits for the request to end.  It is    *)
(* not over before the handler is: a client comes back with a new request. *)

SignOffStart(k) ==
    /\ off[k] = "wait" /\ cli[k] = "gone"
    /\ off' = [off EXCEPT ![k] = "close"]
    /\ UNCHANGED <<case, mgrVars, strVars, cli, hanVars, conn, shut, got, pubVars,
                   stop>>

Without(q, k) == SelectSeq(q, LAMBDA x : x # k)
Members(q) == {q[i] : i \in 1..Len(q)}

RemoveSubscriber(s, k) ==
    /\ count' = [count EXCEPT ![s] = @ - 1]
    /\ shut' = [shut EXCEPT ![k] = TRUE]
    /\ subs' = [subs EXCEPT ![s] = Without(@, k)]

\* Subscriber.close: s.quit <- s, received by the stream.
Deregister(k) ==
    /\ off[k] = "close" /\ Idle(at[k])
    /\ IF k \in Members(subs[at[k]]) THEN RemoveSubscriber(at[k], k)
                                     ELSE UNCHANGED <<count, shut, subs>>
    /\ off' = [off EXCEPT ![k] = "check"]
    /\ UNCHANGED <<case, mgrVars, loop, work, quit, queue, elog, cli, hanVars, conn,
                   got, pubVars, stop>>

\* The goroutine of the stream has ended, or waits for somebody who does not
\* read: only then do twenty attempts of 50 ms fail.
Unresponsive(s) ==
    \/ loop[s] = "end"
    \/ /\ work[s] # <<>>
       /\ LET k == Head(work[s]).to
          IN Len(conn[k]) = ConnCap /\ (cli[k] = "stalled" \/ han[k] = "none")

GiveUp(k) ==
    /\ off[k] = "close" /\ Unresponsive(at[k])
    /\ off' = [off EXCEPT ![k] = "check"]
    /\ UNCHANGED <<case, mgrVars, strVars, cli, hanVars, conn, shut, got, pubVars, stop>>

SignOffCheck(k) ==
    /\ off[k] = "check"
    /\ off' = [off EXCEPT ![k] =
                  IF AutoStream /\ ~AutoReplay /\ count[at[k]] = 0 THEN "remove" ELSE "none"]
    /\ UNCHANGED <<case, mgrVars, strVars, cli, hanVars, conn, shut, got, pubVars,
                   stop>>

\* RemoveWithID and Clean: close the stream of the entry, drop the entry.
CloseEntry ==
    /\ quit' = IF mgr = 0 THEN quit ELSE [quit EXCEPT ![mgr] = TRUE]
    /\ mgr' = 0

SignOffRemove(k) ==
    /\ off[k] = "remove"
    /\ CloseEntry
    /\ off' = [off EXCEPT ![k] = "none"]
    /\ UNCHANGED <<case, made, loop, work, queue, subs, count, elog, cli, hanVars, conn, shut, got, pubVars, stop>>

----------------------------------------------------------------------------
(* The goroutine of a stream. *)

Trim(q) == IF Len(q) > LogCap THEN SubSeq(q, Len(q) - LogCap + 1, Len(q)) ELSE q

\* An event with content is logged under the next id, then sent to everybody.
StreamEvent(s) ==
    /\ Idle(s) /\ queue[s] # <<>>
    /\ queue' = [queue EXCEPT ![s] = Tail(@)]
    /\ LET e == IF Head(queue[s]) = 0 THEN 0 ELSE ids + 1
       IN /\ ids' = IF e = 0 THEN ids ELSE e
          /\ elog' = [elog EXCEPT ![s] =
                         IF AutoReplay /\ e # 0 THEN Trim(Append(@, e)) ELSE @]
          /\ work' = [work EXCEPT ![s] = Sends(subs[s], e)]
    /\ UNCHANGED <<case, mgrVars, loop, quit, subs, count, cli, hanVars, subVars, got,
                   pub, sent, stop>>

StreamSend(s) ==
    /\ loop[s] = "run" /\ work[s] # <<>>
    /\ LET k == Head(work[s]).to
       IN /\ shut[k] \/ Len(conn[k]) < ConnCap
          /\ conn' = [conn EXCEPT ![k] = IF shut[k] THEN @ ELSE Append(@, Head(work[s]).id)]
    /\ work' = [work EXCEPT ![s] = Tail(@)]
    /\ UNCHANGED <<case, mgrVars, loop, quit, queue, subs, count, elog, cli, hanVars, shut,
                   off, got, pubVars, stop>>

StreamQuit(s) ==
    /\ Idle(s) /\ quit[s]
    /\ loop' = [loop EXCEPT ![s] = "end"]
    /\ shut' = [k \in Clients |-> shut[k] \/ k \in Members(subs[s])]
    /\ subs' = [subs EXCEPT ![s] = <<>>] /\ count' = [count EXCEPT ![s] = 0]
    /\ UNCHANGED <<case, mgrVars, work, quit, queue, elog, cli, hanVars, conn, off,
                   got, pubVars, stop>>

----------------------------------------------------------------------------
(* Publish and Stop. *)

Publish(e) ==
    /\ pub = <<>> /\ mgr # 0 /\ sent < case.events
    /\ pub' = <<mgr, e>> /\ sent' = sent + 1
    /\ UNCHANGED <<case, mgrVars, strVars, cli, hanVars, subVars, got, ids, stop>>

PublishSend ==
    /\ pub # <<>>
    /\ \/ quit[pub[1]] /\ UNCHANGED queue
       \/ /\ Len(queue[pub[1]]) < EventCap
          /\ queue' = [queue EXCEPT ![pub[1]] = Append(@, pub[2])]
    /\ pub' = <<>>
    /\ UNCHANGED <<case, mgrVars, loop, work, quit, subs, count, elog, cli, hanVars, subVars,
                   got, ids, sent, stop>>

StopClean ==
    /\ case.stops /\ stop = "no"
    /\ CloseEntry
    /\ stop' = "clean"
    /\ UNCHANGED <<case, made, loop, work, queue, subs, count, elog, cli, hanVars, subVars,
                   got, pubVars>>

\* Shutdown refuses new requests, and waits for the handlers that run.
StopShutdown ==
    /\ \/ stop = "clean" /\ stop' = "shutdown"
       \/ stop = "shutdown" /\ (\A k \in Clients : han[k] = "none") /\ stop' = "done"
    /\ UNCHANGED <<case, mgrVars, strVars, cli, hanVars, subVars, got, pubVars>>

----------------------------------------------------------------------------
HandlerStep(k) ==
    \/ HandlerGet(k) \/ HandlerMake(k) \/ HandlerAdd(k) \/ HandlerSub(k) \/ Register(k)
HandlerLoop(k) == HandlerRead(k) \/ HandlerEnds(k)
SignOff(k) ==
    \/ SignOffStart(k) \/ Deregister(k) \/ GiveUp(k) \/ SignOffCheck(k) \/ SignOffRemove(k)
StreamStep(s) == StreamEvent(s) \/ StreamSend(s) \/ StreamQuit(s)

Next ==
    \/ \E k \in Clients :
          Connect(k) \/ HandlerStep(k) \/ HandlerLoop(k) \/ ClientMoves(k) \/ SignOff(k)
    \/ \E s \in Streams : StreamStep(s)
    \/ Publish(1) \/ (case.sentinels /\ Publish(0)) \/ PublishSend
    \/ StopClean \/ StopShutdown

Spec == Init /\ [][Next]_vars

(* Goroutines that can go on do.  Select takes any ready case, but one     *)
(* that is ready again and again is taken some time, hence the strong      *)
(* fairness of Register.  Clients need not come, go or publish.            *)
Fairness ==
    /\ \A k \in Clients :
          /\ WF_vars(HandlerStep(k)) /\ SF_vars(Register(k)) /\ WF_vars(HandlerLoop(k))
          /\ WF_vars(SignOff(k))
    /\ \A s \in Streams : WF_vars(StreamStep(s))
    /\ WF_vars(PublishSend) /\ WF_vars(StopShutdown)

FairSpec == Spec /\ Fairness

----------------------------------------------------------------------------
(* What a client has received over all of its requests are the events in   *)
(* the order of their ids, each once, and none is missing as long as the   *)
(* log still holds it: a replay from Last-Event-ID continues exactly where *)
(* the last connection ended (EventLog.Replay, Stream.run).                *)
ReplayExact ==
    AutoReplay => \A k \in Clients : \A i \in 1..Len(got[k]) :
        /\ i > 1 => got[k][i - 1] < got[k][i]
        /\ LogCap >= case.events => got[k][i] = i

(* A request is answered while the clients read and the server is not      *)
(* stopped: its handler gets a stream and a place among the subscribers,   *)
(* or ends (addSubscriber).                                                *)
RequestAnswered ==
    \A k \in Clients : (han[k] = "get" /\ ~case.stalls /\ ~case.stops)
                          ~> (han[k] \in {"read", "none"})
=============================================================================
