----------------------------- MODULE Keepalive ------------------------------
(***************************************************************************)
(* The keepalive gRPC server (transport/keepalive/server.go) that every    *)
(* broker-backed transport runs beside its broker.  Its owner spawns Start *)
(* in a goroutine and calls Stop from another one, so Stop can meet Start  *)
(* at any of its steps.  The gRPC server itself is external: a server      *)
(* number is "new", "serving" or "stopped", and GracefulStop makes a       *)
(* blocked Serve return.                                                   *)
(***************************************************************************)
EXTENDS Naturals, FiniteSets

CONSTANTS
    Starters,        \* goroutines spawned to run Start, each once
    EarlyStop,       \* Stop may be called before Start has reached Serve
    OverlapRestart,  \* Start may be called again before the last one returned
    MaxStops         \* bound: calls of Stop

KeepaliveAssumption ==
    /\ IsFiniteSet(Starters)
    /\ EarlyStop \in BOOLEAN /\ OverlapRestart \in BOOLEAN
    /\ MaxStops \in Nat

VARIABLES
    started, stopReq,  \* the two atomic flags
    server,            \* Server.Server: number of the gRPC server, 0 is nil
    lis,               \* Server.lis: number of the listener, 0 is nil
    endpoint,          \* Server.endpoint # nil
    grpc,              \* the gRPC servers made so far, by number: their state
    listening,         \* numbers of the listeners that are open
    nLis,              \* listeners opened so far
    pc,                \* each Start
    srv,               \* the gRPC server a Start captured
    stopPc, stops,     \* the Stop in progress, and the calls made
    covered,           \* the Starts spawned before the last call of Stop
    panicked           \* a nil dereference has ended the process

vars == <<started, stopReq, server, lis, endpoint, grpc, listening, nLis, pc,
          srv, stopPc, stops, covered, panicked>>

Running == {g \in Starters : pc[g] \notin {"new", "returned"}}

Init ==
    /\ started = FALSE /\ stopReq = FALSE /\ endpoint = FALSE
    /\ grpc = [n \in 1..(Cardinality(Starters) + 1) |-> IF n = 1 THEN "new" ELSE "none"]
    /\ server = 1 /\ lis = 0 /\ listening = {} /\ nLis = 0
    /\ pc = [g \in Starters |-> "new"] /\ srv = [g \in Starters |-> 0]
    /\ stopPc = "idle" /\ stops = 0 /\ covered = {} /\ panicked = FALSE

\* A panic ends the process: no goroutine moves after it.
At(g, l)  == pc[g] = l /\ ~panicked
StopAt(l) == stopPc = l /\ ~panicked

Goto(g, l) == pc' = [pc EXCEPT ![g] = l]
flags   == <<started, stopReq>>
sockets == <<lis, endpoint, listening, nLis>>
stop    == <<stopPc, stops, covered>>

-----------------------------------------------------------------------------
\* listenAndEndpoint when it succeeds.
Listen ==
    /\ endpoint' = TRUE
    /\ IF lis # 0
       THEN UNCHANGED <<lis, listening, nLis>>
       ELSE /\ nLis' = nLis + 1
            /\ lis' = nLis + 1
            /\ listening' = listening \cup {nLis + 1}

\* Endpoint, which the application calls before it starts its servers.
Endpoint ==
    /\ ~panicked /\ \A g \in Starters : pc[g] = "new"
    /\ Listen
    /\ UNCHANGED <<flags, server, grpc, pc, srv, stop, panicked>>

\* The owner spawns a goroutine that will run Start.
Spawn(g) ==
    /\ At(g, "new") /\ stopPc = "idle"
    /\ Running # {} => OverlapRestart /\ Running \subseteq covered
    /\ Goto(g, "reset")
    /\ UNCHANGED <<flags, server, grpc, sockets, srv, stop, panicked>>

\* Start clears stopReq and makes a new gRPC server if Stop dropped the last.
StartReset(g) ==
    /\ At(g, "reset")
    /\ stopReq' = FALSE
    /\ IF server # 0
       THEN UNCHANGED <<server, grpc>>
       ELSE LET n == CHOOSE m \in DOMAIN grpc : grpc[m] = "none"
            IN  server' = n /\ grpc' = [grpc EXCEPT ![n] = "new"]
    /\ Goto(g, "mark")
    /\ UNCHANGED <<started, sockets, srv, stop, panicked>>

\* Already started: return.  Else mark the server started.
StartMark(g) ==
    /\ At(g, "mark")
    /\ IF started THEN Goto(g, "returned") ELSE Goto(g, "listen")
    /\ started' = TRUE
    /\ UNCHANGED <<stopReq, server, grpc, sockets, srv, stop, panicked>>

\* listenAndEndpoint: opening the listener may fail.
StartListen(g) ==
    /\ At(g, "listen")
    /\ \/ Listen /\ Goto(g, "check") /\ UNCHANGED started
       \/ /\ lis = 0
          /\ started' = FALSE /\ Goto(g, "returned")
          /\ UNCHANGED sockets
    /\ UNCHANGED <<stopReq, server, grpc, srv, stop, panicked>>

StartCheckStop(g) ==
    /\ At(g, "check")
    /\ IF stopReq THEN started' = FALSE /\ Goto(g, "returned")
                  ELSE Goto(g, "addr") /\ UNCHANGED started
    /\ UNCHANGED <<stopReq, server, grpc, sockets, srv, stop, panicked>>

\* s.lis.Addr(), for the log line.
StartAddr(g) ==
    /\ At(g, "addr")
    /\ panicked' = (lis = 0)
    /\ Goto(g, "capture")
    /\ UNCHANGED <<flags, server, grpc, sockets, srv, stop>>

\* srv := s.Server
StartCapture(g) ==
    /\ At(g, "capture")
    /\ srv' = [srv EXCEPT ![g] = server]
    /\ Goto(g, "serve")
    /\ UNCHANGED <<flags, server, grpc, sockets, stop, panicked>>

\* srv.Serve(s.lis): a nil server or listener is dereferenced; a server that
\* was stopped closes the listener and returns; else it blocks.
StartServe(g) ==
    /\ At(g, "serve")
    /\ IF srv[g] = 0 \/ lis = 0
       THEN panicked' = TRUE /\ UNCHANGED <<pc, grpc, listening>>
       ELSE /\ UNCHANGED panicked
            /\ IF grpc[srv[g]] = "stopped"
               THEN /\ Goto(g, "done")
                    /\ listening' = listening \ {lis}
                    /\ UNCHANGED grpc
               ELSE /\ Goto(g, "serving")
                    /\ grpc' = [grpc EXCEPT ![srv[g]] = "serving"]
                    /\ UNCHANGED listening
    /\ UNCHANGED <<flags, server, lis, endpoint, nLis, srv, stop>>

\* External: Serve returns once its gRPC server has been stopped.
ServeReturns(g) ==
    /\ At(g, "serving") /\ grpc[srv[g]] = "stopped"
    /\ Goto(g, "done")
    /\ UNCHANGED <<flags, server, grpc, sockets, srv, stop, panicked>>

StartReturn(g) ==
    /\ At(g, "done")
    /\ started' = FALSE
    /\ Goto(g, "returned")
    /\ UNCHANGED <<stopReq, server, grpc, sockets, srv, stop, panicked>>

-----------------------------------------------------------------------------
\* Stop: the latch first, then the look at started.
StopCall ==
    /\ StopAt("idle") /\ stops < MaxStops
    /\ EarlyStop \/ \A g \in Running : pc[g] = "serving"
    /\ stopReq' = TRUE
    /\ stops' = stops + 1 /\ stopPc' = "load"
    /\ covered' = {g \in Starters : pc[g] # "new"}
    /\ UNCHANGED <<started, server, grpc, sockets, pc, srv, panicked>>

StopLoad ==
    /\ StopAt("load")
    /\ stopPc' = IF started THEN "graceful" ELSE "idle"
    /\ started' = FALSE
    /\ UNCHANGED <<stopReq, server, grpc, sockets, pc, srv, stops, covered, panicked>>

\* GracefulStop: no new connections, the listeners it serves are closed.
StopGraceful ==
    /\ StopAt("graceful")
    /\ panicked' = (server = 0)
    /\ grpc' = IF server = 0 THEN grpc ELSE [grpc EXCEPT ![server] = "stopped"]
    /\ listening' = IF \E g \in Starters : pc[g] = "serving" /\ srv[g] = server
                    THEN listening \ {lis} ELSE listening
    /\ stopPc' = "clear"
    /\ UNCHANGED <<flags, server, lis, endpoint, nLis, pc, srv, stops, covered>>

\* s.Server = nil
StopClearServer ==
    /\ StopAt("clear")
    /\ server' = 0
    /\ stopPc' = "close"
    /\ UNCHANGED <<flags, grpc, sockets, pc, srv, stops, covered, panicked>>

\* Close and drop the listener, drop the endpoint.
StopCloseListener ==
    /\ StopAt("close")
    /\ lis' = 0 /\ endpoint' = FALSE
    /\ listening' = listening \ {lis}
    /\ stopPc' = "idle"
    /\ UNCHANGED <<flags, server, grpc, nLis, pc, srv, stops, covered, panicked>>

-----------------------------------------------------------------------------
Start(g) ==
    \/ StartReset(g) \/ StartMark(g) \/ StartListen(g) \/ StartCheckStop(g)
    \/ StartAddr(g) \/ StartCapture(g) \/ StartServe(g) \/ ServeReturns(g)
    \/ StartReturn(g)

Stop == StopLoad \/ StopGraceful \/ StopClearServer \/ StopCloseListener

Next ==
    \/ Endpoint \/ StopCall \/ Stop
    \/ \E g \in Starters : Spawn(g) \/ Start(g)

Spec == Init /\ [][Next]_vars

\* A goroutine inside Start or Stop is eventually scheduled.
Fairness ==
    /\ \A g \in Starters : WF_vars(Start(g))
    /\ WF_vars(Stop)

-----------------------------------------------------------------------------
\* A Stop that found the server started ends the Start it found, wherever that
\* Start was between marking and serving (a panic ends it too).
StopEndsStartItSaw ==
    \A g \in Starters :
        (stopPc = "graceful" /\ g \in covered) ~> (pc[g] = "returned" \/ panicked)
=============================================================================
