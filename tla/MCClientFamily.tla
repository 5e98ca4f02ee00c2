--------------------------- MODULE MCClientFamily ---------------------------
(***************************************************************************)
(* The instances of ClientFamily, SseClient and PacketFamily for model     *)
(* checking.  They share no state: a behaviour is one of them, the one     *)
(* machine names, and the others stay in an initial state.                 *)
(***************************************************************************)
EXTENDS ClientFamily, SseClient

CONSTANT Machines

VARIABLES machine, link, handlers, snd, queue, pump, wire, cut, rd, read, written,
          handled, torn, sends
packetVars == <<link, handlers, snd, queue, pump, wire, cut, rd, read, written, handled,
                torn, sends>>

\* A channel subscription with two calls of Unsubscribe, or a handler's.
Unsubscribing == [u \in Users |-> "c1"]
SseFunc == INSTANCE SseClient WITH
    Chans <- {}, Funcs <- {"c1"}, Users <- {}, TargetOf <- <<>>,
    MaxEvent <- 4, MaxFaults <- 3, MayEnd <- TRUE, MayGiveUp <- TRUE

\* Each transport and direction, each byte order, both payload types.
PacketCase(m, order, text) ==
    [member : {m}, down : BOOLEAN, order : {order}, text : {text}]
PacketCases ==
    PacketCase("tcp", "LE", FALSE) \cup PacketCase("kcp", "BE", FALSE)
    \cup PacketCase("webtransport", "LE", FALSE)
    \cup PacketCase("websocket", "LE", TRUE) \cup PacketCase("webrtc", "LE", FALSE)
TcpUp == [member |-> "tcp", down |-> FALSE, order |-> "LE", text |-> FALSE]

\* A byte has three values: a word of two bytes is less than 9, a frame of four
\* bytes is too large, and type 5 has a byte of each kind but is never registered.
Packets == INSTANCE PacketFamily WITH
    Senders <- {1, 2}, Types <- {1}, Cases <- PacketCases,
    Messages <- {[type |-> 1, body |-> <<2>>], [type |-> 5, body |-> <<>>],
                 [type |-> 1, body |-> <<1, 1>>]},
    RawData <- {<<>>, <<1>>},
    Base <- 3, WordSize <- 2, MaxFrame <- 3, QueueCap <- 1, MaxSends <- 2,
    case <- link

ASSUME SseFunc!SseClientAssumption /\ Packets!PacketAssumption

\* Connections coming and going; the one client that has Connect look for a
\* connection first, called while it has one; senders and registrations.
ClientCases ==
    [member : DOMAIN Clients, polite : {TRUE}, senders : {{}}, registers : {FALSE},
     conns : {3}, calls : {2}] \cup
    [member : {"webtransport"}, polite : {FALSE}, senders : {{}}, registers : {FALSE},
     conns : {2}, calls : {2}] \cup
    [member : DOMAIN Clients, polite : {TRUE}, senders : {Senders}, registers : {TRUE},
     conns : {1}, calls : {4}]

MCInit ==
    /\ machine \in Machines
    /\ Init /\ (machine # "client" => case = CHOOSE c \in Cases : TRUE)
    /\ IF machine = "sse handler" THEN SseFunc!SseInit ELSE SseInit
    /\ Packets!Init
    /\ machine # "packets" => link = TcpUp /\ handlers = [t \in {1} |-> "none"]

MCNext ==
    \/ machine = "client" /\ Next /\ UNCHANGED <<machine, sseVars, packetVars>>
    \/ machine = "sse channel" /\ SseNext /\ UNCHANGED <<machine, vars, packetVars>>
    \/ machine = "sse handler" /\ SseFunc!SseNext /\ UNCHANGED <<machine, vars, packetVars>>
    \/ machine = "packets" /\ Packets!Next /\ UNCHANGED <<machine, vars, sseVars>>

MCSpec == MCInit /\ [][MCNext]_<<machine, vars, sseVars, packetVars>>

\* Handlers are called with the messages that were sent, in order
\* (WriteFrame, ReadFrame, handleSocketRawData).
HandledIsSent == Packets!HandledIsSent
\* A read loop ends only with its connection (readPump, run, serveSession).
ReaderLives == Packets!ReaderLives
\* Frames keep their boundaries when a write times out (writeWithTimeout).
FramesSurviveTimeout == Packets!FramesSurviveTimeout
=============================================================================
