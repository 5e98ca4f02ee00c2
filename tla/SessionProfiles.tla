-------------------------- MODULE SessionProfiles ---------------------------
(***************************************************************************)
(* What tells the servers under transport/ apart that keep a table of      *)
(* client sessions.  Each is a record of                                   *)
(*   start, stop   the steps of Start and Stop, in the order of the code;  *)
(*   loop          one accept loop handles the connections one at a time   *)
(*                 (else each has a goroutine of its own);                 *)
(*   add           the steps that turn a connection into a session;        *)
(*   close         the steps of the session's Close, or of the deferred    *)
(*                 clean-up of its reader;                                 *)
(*   reads, writes the session has a reader, a writer goroutine;           *)
(*   skips         the writer drops a message when there is no connection  *)
(*                 (else it ends).                                         *)
(* Steps of add:                                                           *)
(*   open          the data channel opens, or never does                   *)
(*   check         leave the table alone when the session is closed        *)
(*   store         put the session into the table                          *)
(*   tell          tell the connect handler that it is there               *)
(*   listen        start reader and writer                                 *)
(* Steps of close:                                                         *)
(*   done          close the done channel and the connection               *)
(*   delete        take the session out of the table                       *)
(*   deleteIf      the same, and stop here when it was not there           *)
(*   tell          tell the connect handler that it is gone                *)
(* Steps of start: listen, run (set running), spawn (the accept loop).     *)
(* Steps of stop:                                                          *)
(*   flag          reset running                                           *)
(*   unlisten      close the listener                                      *)
(*   unlistenAll   the same for a listener whose socket the connections    *)
(*                 share                                                   *)
(*   shutdown      wait for the connections to end, or cut them            *)
(*   snapshot      copy the table                                          *)
(*   close         Close every session of the copy                         *)
(*   wait          wait for the goroutines of the copy's sessions          *)
(*   sweep         cut every connection of the table and empty it          *)
(*   waitAll       wait for every reader                                   *)
(***************************************************************************)
EXTENDS Sequences

\* The accept loop is started before running is set.
TcpStart == <<"listen", "spawn", "run">>
TcpStop == <<"flag", "unlisten", "snapshot", "close">>
TcpAdd == <<"store", "tell", "listen">>
\* Mutant: the session is not taken out of the table.
TcpCloseKeeps == <<"done", "tell">>
TcpClose == <<"done", "delete", "tell">>
TcpPumps == [reads |-> TRUE, writes |-> TRUE, skips |-> FALSE]

KcpStart == <<"listen", "run", "spawn">>
\* Mutant: the sessions are left alone, and the socket with them.
KcpStopKeeps == <<"flag", "unlisten">>
KcpStop == <<"flag", "unlistenAll", "snapshot", "close", "wait">>
KcpAdd == <<"store", "tell", "listen">>
KcpClose == <<"done", "delete", "tell">>
KcpPumps == [reads |-> TRUE, writes |-> TRUE, skips |-> FALSE]

WebsocketStart == <<"listen", "run", "spawn">>
WebsocketStop == <<"flag", "unlisten", "snapshot", "close">>
WebsocketAdd == <<"store", "tell", "listen">>
WebsocketClose == <<"done", "delete", "tell">>
WebsocketPumps == [reads |-> TRUE, writes |-> TRUE, skips |-> TRUE]

\* The second snapshot is what Stop waits for.
WebrtcStart == <<"listen", "run", "spawn">>
WebrtcStop == <<"unlisten", "snapshot", "close", "snapshot", "wait", "flag">>
WebrtcAdd == <<"open", "check", "store", "tell", "listen">>
WebrtcClose == <<"done", "deleteIf", "tell">>
WebrtcPumps == [reads |-> FALSE, writes |-> TRUE, skips |-> FALSE]

WebtransportStart == <<"run", "listen", "spawn">>
WebtransportStop == <<"flag", "unlisten", "shutdown", "sweep", "waitAll">>
WebtransportAdd == <<"store", "tell", "listen">>
WebtransportClose == <<"delete", "tell">>
WebtransportPumps == [reads |-> TRUE, writes |-> FALSE, skips |-> FALSE]

Server(loop, start, stop, add, close, pumps) ==
    [loop |-> loop, start |-> start, stop |-> stop, add |-> add, close |-> close,
     reads |-> pumps.reads, writes |-> pumps.writes, skips |-> pumps.skips]

Servers ==
    [tcp |-> Server(TRUE, TcpStart, TcpStop, TcpAdd, TcpClose, TcpPumps),
     kcp |-> Server(TRUE, KcpStart, KcpStop, KcpAdd, KcpClose, KcpPumps),
     websocket |-> Server(FALSE, WebsocketStart, WebsocketStop, WebsocketAdd,
                          WebsocketClose, WebsocketPumps),
     webrtc |-> Server(FALSE, WebrtcStart, WebrtcStop, WebrtcAdd, WebrtcClose,
                       WebrtcPumps),
     webtransport |-> Server(FALSE, WebtransportStart, WebtransportStop,
                             WebtransportAdd, WebtransportClose, WebtransportPumps)]
=============================================================================
