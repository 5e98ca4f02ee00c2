--------------------------- MODULE ClientProfiles ---------------------------
(***************************************************************************)
(* What tells the clients under transport/ apart that hold one connection  *)
(* and read it in a goroutine.  Each is a record of programs:              *)
(*   connect, disconnect   the calls of the application;                   *)
(*   run           how the read loop gets its connection ("once" when it   *)
(*                 starts, "onceCtx": and then its context, "oncePtr": and *)
(*                 uses it unchecked, "each" time it reads, "own": it is a *)
(*                 callback of the connection), and what it does at the    *)
(*                 end;                                                    *)
(*   send          a call that sends a message;                            *)
(*   locked        the map of message handlers has a lock.                 *)
(* Steps:                                                                  *)
(*   guard         return when there is a connection already               *)
(*   ctx           make a new context                                      *)
(*   dial          make a connection                                       *)
(*   shake         finish its handshake, or close it and return            *)
(*   set           put it into the field                                   *)
(*   spawn         start its read loop                                     *)
(*   wait          wait for it to open, or give up and Disconnect          *)
(*   take          copy the connection out of the field and reset that     *)
(*   same          go on only when the field still holds the loop's own    *)
(*   clear         reset the field when it holds the loop's own            *)
(*   close         close the copy                                          *)
(*   closeOwn      close the loop's own                                    *)
(*   cancel        cancel the context in the field                         *)
(*   notDone       go on only when the loop's context is not cancelled     *)
(*   copy          copy the connection, return when there is none          *)
(*   lock, unlock  the write lock                                          *)
(*   write         write one message                                       *)
(***************************************************************************)
EXTENDS Sequences

TcpConnect == <<"dial", "set", "spawn">>
TcpDisconnect == <<"take", "close">>
TcpRun == [gets |-> "once", ends |-> <<"clear", "closeOwn">>]
\* Mutant: no write lock.
TcpSendFree == <<"copy", "write">>
TcpSend == <<"copy", "lock", "write", "unlock">>
TcpHandlersLocked == FALSE

KcpConnect == <<"dial", "set", "spawn">>
KcpDisconnect == <<"take", "close">>
\* No connection is a nil pointer in an interface, which is not equal to nil.
KcpRun == [gets |-> "oncePtr", ends |-> <<"clear", "closeOwn">>]
KcpSend == <<"copy", "lock", "write", "unlock">>
KcpHandlersLocked == TRUE

WebsocketConnect == <<"dial", "set", "spawn">>
WebsocketDisconnect == <<"take", "close">>
WebsocketRun == [gets |-> "each", ends |-> <<"take", "close">>]
WebsocketSend == <<"lock", "copy", "write", "unlock">>
WebsocketHandlersLocked == TRUE

WebtransportConnect == <<"guard", "ctx", "dial", "shake", "set", "spawn">>
WebtransportDisconnect == <<"take", "close", "cancel">>
WebtransportRun ==
    [gets |-> "onceCtx", ends |-> <<"notDone", "same", "take", "close", "cancel">>]
WebtransportSend == <<"copy", "lock", "write", "unlock">>
WebtransportHandlersLocked == TRUE

\* The read loop stands for the callback on the state of the peer connection.
WebrtcConnect == <<"dial", "spawn", "shake", "set", "wait">>
WebrtcDisconnect == <<"take", "close">>
WebrtcRun == [gets |-> "own", ends |-> <<"take", "close">>]
WebrtcSend == <<"copy", "write">>
WebrtcHandlersLocked == TRUE

Clients ==
    [tcp |-> [connect |-> TcpConnect, disconnect |-> TcpDisconnect, run |-> TcpRun,
              send |-> TcpSend, locked |-> TcpHandlersLocked],
     kcp |-> [connect |-> KcpConnect, disconnect |-> KcpDisconnect, run |-> KcpRun,
              send |-> KcpSend, locked |-> KcpHandlersLocked],
     websocket |-> [connect |-> WebsocketConnect, disconnect |-> WebsocketDisconnect,
                    run |-> WebsocketRun, send |-> WebsocketSend,
                    locked |-> WebsocketHandlersLocked],
     webtransport |-> [connect |-> WebtransportConnect,
                       disconnect |-> WebtransportDisconnect, run |-> WebtransportRun,
                       send |-> WebtransportSend,
                       locked |-> WebtransportHandlersLocked],
     webrtc |-> [connect |-> WebrtcConnect, disconnect |-> WebrtcDisconnect,
                 run |-> WebrtcRun, send |-> WebrtcSend,
                 locked |-> WebrtcHandlersLocked]]
=============================================================================
