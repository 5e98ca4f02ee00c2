---------------------------- MODULE MCServeFamily ---------------------------
(***************************************************************************)
(* The instances of ServeFamily, Keepalive and SseStream for model         *)
(* checking.  They share no state: a behaviour is one of them, the one     *)
(* machine names, and the others stay in their initial states.             *)
(***************************************************************************)
EXTENDS ServeFamily

VARIABLES machine,
          started, stopReq, server, kaLis, endpoint, grpc, listening, nLis, pc, kaSrv,
          stopPc, kaStops, covered, panicked
kaVars == <<started, stopReq, server, kaLis, endpoint, grpc, listening, nLis, pc, kaSrv,
            stopPc, kaStops, covered, panicked>>

\* Stop at any step of Start, and a second Start.
KA == INSTANCE Keepalive WITH
    Starters <- {"g1", "g2"}, EarlyStop <- TRUE, OverlapRestart <- FALSE, MaxStops <- 2,
    lis <- kaLis, srv <- kaSrv, stops <- kaStops

VARIABLES sseCase, mgr, made, loop, work, quit, queue, subs, count, elog, cli, han, at, from,
          conn, connShut, off, got, conns, pub, ids, sent, stop
sseVars == <<sseCase, mgr, made, loop, work, quit, queue, subs, count, elog, cli, han, at, from,
             conn, connShut, off, got, conns, pub, ids, sent, stop>>

Reads == [autoStream |-> TRUE, autoReplay |-> TRUE, logCap |-> 1, clients |-> {"c1", "c2"},
          sentinels |-> FALSE, stalls |-> FALSE, stops |-> FALSE, connects |-> 1,
          events |-> 2]

\* Two clients of an automatic stream that read; a stream of the application with
\* two clients that come back and stall; one client that comes back while Stop
\* runs; one client of automatic streams without replay.
SseCases ==
    {Reads,
     [Reads EXCEPT !.autoStream = FALSE, !.logCap = 2, !.stalls = TRUE, !.connects = 2],
     [Reads EXCEPT !.autoStream = FALSE, !.logCap = 3, !.stalls = TRUE, !.stops = TRUE,
                   !.clients = {"c1"}, !.connects = 3, !.events = 3],
     [Reads EXCEPT !.autoReplay = FALSE, !.sentinels = TRUE, !.clients = {"c1"},
                   !.connects = 2]}

Sse == INSTANCE SseStream WITH
    Clients <- {"c1", "c2"}, ConnCap <- 1, EventCap <- 1, MaxStreams <- 2,
    Cases <- SseCases, case <- sseCase, shut <- connShut

ASSUME KA!KeepaliveAssumption /\ Sse!SseAssumption

\* Servers that can be started again after Stop.
Restartable == DOMAIN Serves \ {"websocket", "http3"}

\* Servers for which Start and Stop may overlap without a Serve or a port
\* being left behind.
StopSafe == DOMAIN Serves \ {"webrtc", "webtransport", "thrift"}

ServeCases ==
    [member : Restartable, overlap : {FALSE}] \cup [member : StopSafe, overlap : {TRUE}]

MCInit ==
    /\ machine \in {"transport", "keepalive", "sse"}
    /\ Init /\ KA!Init /\ Sse!Init
    /\ machine # "transport" => case = CHOOSE c \in Cases : TRUE
    /\ machine # "sse" => sseCase = Reads

MCNext ==
    \/ machine = "transport" /\ Next /\ UNCHANGED <<machine, kaVars, sseVars>>
    \/ machine = "keepalive" /\ KA!Next /\ UNCHANGED <<machine, vars, sseVars>>
    \/ machine = "sse" /\ Sse!Next /\ UNCHANGED <<machine, vars, kaVars>>

MCSpec ==
    /\ MCInit /\ [][MCNext]_<<machine, vars, kaVars, sseVars>>
    /\ KA!Fairness /\ Sse!Fairness

\* A Stop ends what it finds: it does not return before the Serve that was running
\* has ended (Stop of the serving transports), and a keepalive server it found started
\* ends wherever its Start was (keepalive/server.go, Stop).
StopEndsWhatItSaw == StopEndsServe /\ KA!StopEndsStartItSaw
\* A subscriber gets the log from the event it asked for and then the live events,
\* once each and in order (EventLog.Replay, Stream.run).
ReplayExact == Sse!ReplayExact
\* Every request gets a stream and a place among the subscribers, or ends
\* (addSubscriber).
RequestAnswered == Sse!RequestAnswered
=============================================================================
