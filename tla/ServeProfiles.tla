---------------------------- MODULE ServeProfiles ---------------------------
(***************************************************************************)
(* What tells the servers under transport/ apart whose Start blocks in the *)
(* Serve of a library server.  Each is a record of                         *)
(*   start     the steps of Start, in the order of the code;               *)
(*   stop      the steps of Stop, in the order of the code;                *)
(*   kind      what Serve and Shutdown of the library do:                  *)
(*     "http"  a server that was shut down never serves again;             *)
(*     "own"   the same, and Serve opens the port itself;                  *)
(*     "fast"  a server can serve again; Shutdown only closes listeners    *)
(*             that are being served;                                      *)
(*     "bare"  Serve has no server to shut down: it ends with its listener;*)
(*     "late"  as "own", but a Shutdown before Serve is forgotten;         *)
(*   clears    an error return of Start resets the running flag.           *)
(* Steps of Start:                                                         *)
(*   guard        return when running                                      *)
(*   enter        return when running, else set it, in one critical section*)
(*   enterListen  the same with listen inside it                           *)
(*   fresh        close and forget the listener                            *)
(*   listen       open a listener unless there is one                      *)
(*   mark, leave  set, reset running                                       *)
(*   once, note   error when the server was stopped; note the start        *)
(*   remake       make a server if there is none, and hold on to it        *)
(*   remakeStopped  make a server if the last one was stopped              *)
(*   make         make a server                                            *)
(*   serve        Serve                                                    *)
(* Steps of Stop:                                                          *)
(*   guard, guardClear   return when not running (else reset it)           *)
(*   ifServer, take      return when there is no server (else take it)     *)
(*   stopped, stoppedIfStarted   note that the server is stopped           *)
(*   clear        reset running                                            *)
(*   shutdown     Shutdown of the library server                           *)
(*   forget, rebuild     no server, a new server                           *)
(*   closeLis     close and forget the listener                            *)
(***************************************************************************)
EXTENDS Sequences

GinStart == <<"enter", "listen", "remake", "serve", "leave">>
GinStop == <<"take", "shutdown", "forget", "closeLis">>

FastHttpStart == <<"listen", "serve">>
FastHttpStop == <<"shutdown", "closeLis">>

GraphQLStart == <<"fresh", "listen", "serve">>
\* Mutant: the server is not rebuilt.
GraphQLStopNoRebuild == <<"shutdown", "closeLis">>
GraphQLStop == <<"shutdown", "rebuild", "closeLis">>

SSEStart == <<"listen", "serve">>
SSEStop == <<"shutdown", "rebuild", "closeLis">>

\* Neither the server nor the listener is replaced: one Start per server.
WebsocketStart == <<"enterListen", "serve">>
WebsocketStop == <<"guardClear", "shutdown">>

WebRTCStart == <<"enterListen", "serve", "leave">>
WebRTCStop == <<"guard", "shutdown", "rebuild", "closeLis", "clear">>

SignalRStart == <<"guard", "fresh", "listen", "mark", "serve", "leave">>
\* Mutant: the listener stays open.
SignalRStopNoClose == <<"clear">>
SignalRStop == <<"clear", "closeLis">>

SocketIOStart == <<"listen", "remakeStopped", "serve">>
SocketIOStop == <<"closeLis", "stopped", "shutdown">>

Http3Start == <<"once", "note", "serve">>
Http3Stop == <<"stoppedIfStarted", "shutdown">>

WebTransportStart == <<"enter", "remakeStopped", "serve">>
WebTransportStop == <<"stopped", "clear", "shutdown">>

ThriftStart == <<"make", "serve">>
ThriftStop == <<"ifServer", "shutdown">>

Server(a, o, k, c) == [start |-> a, stop |-> o, kind |-> k, clears |-> c]

Serves ==
    [ gin          |-> Server(GinStart, GinStop, "http", TRUE),
      fasthttp     |-> Server(FastHttpStart, FastHttpStop, "fast", FALSE),
      graphql      |-> Server(GraphQLStart, GraphQLStop, "http", FALSE),
      sse          |-> Server(SSEStart, SSEStop, "http", FALSE),
      websocket    |-> Server(WebsocketStart, WebsocketStop, "http", FALSE),
      webrtc       |-> Server(WebRTCStart, WebRTCStop, "http", FALSE),
      signalr      |-> Server(SignalRStart, SignalRStop, "bare", FALSE),
      socketio     |-> Server(SocketIOStart, SocketIOStop, "bare", FALSE),
      http3        |-> Server(Http3Start, Http3Stop, "own", FALSE),
      webtransport |-> Server(WebTransportStart, WebTransportStop, "own", TRUE),
      thrift       |-> Server(ThriftStart, ThriftStop, "late", FALSE) ]
=============================================================================
