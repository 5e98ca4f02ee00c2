--------------------------- MODULE PacketProfiles ---------------------------
(***************************************************************************)
(* How the ends of the five message transports put messages on the wire    *)
(* and take them off.  What crosses the wire:                              *)
(*   order    byte orders of the words: "LE", or "BE" too (the byteOrder   *)
(*            variable of the package)                                     *)
(*   frame    packets are framed with a length word, on a stream of bytes  *)
(* How an end sends:                                                       *)
(*   path     "queue": Session.send and writePump; "lock": the caller      *)
(*            writes, under a lock (a data channel's own, for webrtc)      *)
(*   late     a write deadline that passes: "close" the connection, "stay" *)
(*            on it, or "none" is set                                      *)
(*   raw      callers may send bytes of their own                          *)
(* How an end reads:                                                       *)
(*   steps    of a packet: "word" or "typed" (unmarshal one with a type    *)
(*            word, or one of the payload type), "lookup", "decode", "call"*)
(*   ends     what a read error does: "close" the connection, or "leave"   *)
(***************************************************************************)

TcpPacket == [order |-> {"LE", "BE"}, frame |-> TRUE]
KcpPacket == [order |-> {"LE", "BE"}, frame |-> TRUE]
WebTransportPacket == [order |-> {"LE"}, frame |-> TRUE]
WebSocketPacket == [order |-> {"LE"}, frame |-> FALSE]
WebRTCPacket == [order |-> {"LE"}, frame |-> FALSE]

Queue(late) == [path |-> "queue", late |-> late, raw |-> TRUE]
TcpServerSend == Queue("close")
KcpServerSend == Queue("close")
WebSocketServerSend == Queue("none")
WebRTCServerSend == Queue("none")
WebTransportServerSend == [path |-> "lock", late |-> "stay", raw |-> TRUE]

TcpClientSend == [path |-> "lock", late |-> "none", raw |-> TRUE]
KcpClientSend == [path |-> "lock", late |-> "none", raw |-> TRUE]
WebTransportClientSend == [path |-> "lock", late |-> "none", raw |-> TRUE]
WebSocketClientSend == [path |-> "lock", late |-> "none", raw |-> FALSE]
WebRTCClientSend == [path |-> "lock", late |-> "none", raw |-> FALSE]

Word == <<"word", "lookup", "decode", "call">>
Typed == <<"typed", "lookup", "decode", "call">>
TcpServerHandle == [steps |-> Word, ends |-> "close"]
KcpServerHandle == [steps |-> Word, ends |-> "close"]
WebSocketServerHandle == [steps |-> Typed, ends |-> "close"]
WebRTCServerHandle == [steps |-> Typed, ends |-> "close"]
WebTransportServerHandle == [steps |-> Word, ends |-> "leave"]

TcpClientHandle == [steps |-> Word, ends |-> "close"]
KcpClientHandle == [steps |-> Word, ends |-> "close"]
WebSocketClientHandle == [steps |-> Typed, ends |-> "close"]
WebRTCClientHandle == [steps |-> Typed, ends |-> "close"]
WebTransportClientHandle == [steps |-> Word, ends |-> "close"]

Wires ==
    [tcp |-> TcpPacket, kcp |-> KcpPacket, webtransport |-> WebTransportPacket,
     websocket |-> WebSocketPacket, webrtc |-> WebRTCPacket]
Servers ==
    [tcp          |-> [send |-> TcpServerSend, handle |-> TcpServerHandle],
     kcp          |-> [send |-> KcpServerSend, handle |-> KcpServerHandle],
     webtransport |-> [send |-> WebTransportServerSend, handle |-> WebTransportServerHandle],
     websocket    |-> [send |-> WebSocketServerSend, handle |-> WebSocketServerHandle],
     webrtc       |-> [send |-> WebRTCServerSend, handle |-> WebRTCServerHandle]]
Clients ==
    [tcp          |-> [send |-> TcpClientSend, handle |-> TcpClientHandle],
     kcp          |-> [send |-> KcpClientSend, handle |-> KcpClientHandle],
     webtransport |-> [send |-> WebTransportClientSend, handle |-> WebTransportClientHandle],
     websocket    |-> [send |-> WebSocketClientSend, handle |-> WebSocketClientHandle],
     webrtc       |-> [send |-> WebRTCClientSend, handle |-> WebRTCClientHandle]]
=============================================================================
