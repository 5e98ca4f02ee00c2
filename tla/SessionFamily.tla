--------------------------- MODULE SessionFamily ----------------------------
(***************************************************************************)
(* The sessions of the servers of SessionProfiles: one Start, one Stop,    *)
(* clients that come, go and stop reading, the goroutines of every         *)
(* session, and a broadcast to whatever is in the table.  Stop is called   *)
(* after Start is through (ServeFamily has them overlap); a client         *)
(* connects at most once.                                                  *)
(***************************************************************************)
EXTENDS Naturals, FiniteSets, Sequences, SessionProfiles

CONSTANTS
    Conns,          \* the connections clients may make
    Cap,            \* the capacity of a session's send channel (256 in the code)
    Cases           \* what to look at: a server, the connections that are made to
                    \* it, and a bound on the calls of Broadcast

ASSUME SessionFamilyAssumption ==
    /\ Cases \subseteq [member : DOMAIN Servers, conns : SUBSET Conns, casts : Nat]
    /\ Cap \in Nat \ {0}

VARIABLES
    case,               \* which case this behaviour is about
    start, stop, called,\* steps left of Start and of Stop; Stop was called
    running, open,      \* the running flag, the listener
    acc,                \* the accept loop, or the library's
    peer,               \* the client: "no", "dial", "up", "slow", "gone"
    add,                \* per connection: steps left until it is a session
    ses,                \* per connection: there is a session object
    table,              \* SessionManager.sessions
    once, closing, done,\* per session: closeOnce, steps left of Close, done
    rd, wr,             \* per session: its reader and writer
    send,               \* per session: messages in its send channel
    todo, swept,        \* Stop: sessions to close, sessions to wait for
    bc, casts           \* Broadcast: sessions to go; calls so far

srvVars == <<start, running, open, acc>>
sesVars == <<add, ses, table, once, closing, done>>
runVars == <<rd, wr, send>>
stopVars == <<stop, called, todo, swept>>
castVars == <<bc, casts>>
vars == <<case, srvVars, peer, sesVars, runVars, stopVars, castVars>>

member == case.member
P == Servers[member]
Ends == {"none", "end"}

Closed(c) == once[c] /\ closing[c] = <<>>
Stopped == called /\ stop = <<>>
Quiet(c) == rd[c] \in Ends /\ wr[c] \in Ends

Init ==
    /\ case \in Cases
    /\ start = P.start /\ stop = <<>> /\ called = FALSE
    /\ running = FALSE /\ open = FALSE /\ acc = "none"
    /\ peer = [c \in Conns |-> "no"]
    /\ add = [c \in Conns |-> <<>>] /\ ses = [c \in Conns |-> FALSE] /\ table = {}
    /\ once = [c \in Conns |-> FALSE] /\ closing = [c \in Conns |-> <<>>]
    /\ done = [c \in Conns |-> FALSE]
    /\ rd = [c \in Conns |-> "none"] /\ wr = [c \in Conns |-> "none"]
    /\ send = [c \in Conns |-> 0]
    /\ todo = {} /\ swept = {} /\ bc = {} /\ casts = 0

----------------------------------------------------------------------------
(* Start and the accept loop. *)

StartStep ==
    /\ start # <<>>
    /\ start' = Tail(start)
    /\ running' = (running \/ Head(start) = "run")
    /\ open' = (open \/ Head(start) = "listen")
    /\ acc' = IF Head(start) # "spawn" THEN acc ELSE IF P.loop THEN "check" ELSE "serve"
    /\ UNCHANGED <<case, peer, sesVars, runVars, stopVars, castVars>>

\* The head of the loop: return unless running with a listener.
AcceptCheck ==
    /\ acc = "check"
    /\ acc' = IF running /\ open THEN "accept" ELSE "end"
    /\ UNCHANGED <<case, start, running, open, peer, sesVars, runVars, stopVars,
                   castVars>>

Dial(c) ==
    /\ open /\ peer[c] = "no" /\ c \in case.conns
    /\ peer' = [peer EXCEPT ![c] = "dial"]
    /\ UNCHANGED <<case, srvVars, sesVars, runVars, stopVars, castVars>>

Accept(c) ==
    /\ open /\ acc \in {"accept", "serve"} /\ peer[c] = "dial"
    /\ peer' = [peer EXCEPT ![c] = "up"]
    /\ ses' = [ses EXCEPT ![c] = TRUE]
    /\ add' = [add EXCEPT ![c] = P.add]
    /\ acc' = IF P.loop THEN "busy" ELSE acc
    /\ UNCHANGED <<case, start, running, open, table, once, closing, done,
                   runVars, stopVars, castVars>>

AcceptFails ==
    /\ acc = "accept" /\ ~open
    /\ acc' = "end"
    /\ UNCHANGED <<case, start, running, open, peer, sesVars, runVars, stopVars,
                   castVars>>

----------------------------------------------------------------------------
(* From a connection to a session. *)

AddOpen(c) ==
    /\ add[c] # <<>> /\ Head(add[c]) = "open"
    /\ \/ peer[c] \in {"up", "slow"} /\ add' = [add EXCEPT ![c] = Tail(@)]
       \/ peer[c] = "gone" /\ add' = [add EXCEPT ![c] = <<>>]
    /\ UNCHANGED <<case, srvVars, peer, ses, table, once, closing, done,
                   runVars, stopVars, castVars>>

\* addSession returns early for a closed session; Listen is called all the same.
AddCheck(c) ==
    /\ add[c] # <<>> /\ Head(add[c]) = "check"
    /\ add' = [add EXCEPT ![c] = IF done[c] THEN <<"listen">> ELSE Tail(@)]
    /\ UNCHANGED <<case, srvVars, peer, ses, table, once, closing, done,
                   runVars, stopVars, castVars>>

AddStore(c) ==
    /\ add[c] # <<>> /\ Head(add[c]) = "store"
    /\ table' = table \union {c}
    /\ add' = [add EXCEPT ![c] = Tail(@)]
    /\ UNCHANGED <<case, srvVars, peer, ses, once, closing, done,
                   runVars, stopVars, castVars>>

AddTell(c) ==
    /\ add[c] # <<>> /\ Head(add[c]) = "tell"
    /\ add' = [add EXCEPT ![c] = Tail(@)]
    /\ UNCHANGED <<case, srvVars, peer, ses, table, once, closing, done,
                   runVars, stopVars, castVars>>

AddListen(c) ==
    /\ add[c] # <<>> /\ Head(add[c]) = "listen"
    /\ rd' = [rd EXCEPT ![c] = IF P.reads THEN "run" ELSE @]
    /\ wr' = [wr EXCEPT ![c] = IF P.writes THEN "run" ELSE @]
    /\ add' = [add EXCEPT ![c] = Tail(@)]
    /\ acc' = IF P.loop THEN "check" ELSE acc
    /\ UNCHANGED <<case, start, running, open, peer, ses, table, once, closing,
                   done, send, stopVars, castVars>>

----------------------------------------------------------------------------
(* Close: the first caller runs it, the others wait for it. *)

BeginClose(c) ==
    /\ once' = [once EXCEPT ![c] = TRUE]
    /\ closing' = IF once[c] THEN closing ELSE [closing EXCEPT ![c] = P.close]

CloseDone(c) ==
    /\ closing[c] # <<>> /\ Head(closing[c]) = "done"
    /\ done' = [done EXCEPT ![c] = TRUE]
    /\ closing' = [closing EXCEPT ![c] = Tail(@)]
    /\ UNCHANGED <<case, srvVars, peer, add, ses, table, once, runVars,
                   stopVars, castVars>>

CloseDelete(c) ==
    /\ closing[c] # <<>> /\ Head(closing[c]) \in {"delete", "deleteIf"}
    /\ table' = table \ {c}
    /\ closing' = [closing EXCEPT ![c] =
                      IF Head(@) = "deleteIf" /\ c \notin table THEN <<>> ELSE Tail(@)]
    /\ UNCHANGED <<case, srvVars, peer, add, ses, once, done, runVars,
                   stopVars, castVars>>

CloseTell(c) ==
    /\ closing[c] # <<>> /\ Head(closing[c]) = "tell"
    /\ closing' = [closing EXCEPT ![c] = Tail(@)]
    /\ UNCHANGED <<case, srvVars, peer, add, ses, table, once, done, runVars,
                   stopVars, castVars>>

----------------------------------------------------------------------------
(* The client. *)

\* Whether a client reads matters only where it is sent something.
PeerMoves(c) ==
    /\ \/ peer[c] = "up" /\ case.casts > 0 /\ peer' = [peer EXCEPT ![c] = "slow"]
       \/ peer[c] = "slow" /\ peer' = [peer EXCEPT ![c] = "up"]
       \/ peer[c] \in {"up", "slow"} /\ peer' = [peer EXCEPT ![c] = "gone"]
    /\ UNCHANGED <<case, srvVars, sesVars, runVars, stopVars, castVars>>

\* A session without a reader is closed by the callbacks of its connection.
PeerCallback(c) ==
    /\ ~P.reads /\ ses[c] /\ peer[c] = "gone" /\ ~once[c]
    /\ BeginClose(c)
    /\ UNCHANGED <<case, srvVars, peer, add, ses, table, done, runVars,
                   stopVars, castVars>>

----------------------------------------------------------------------------
(* The goroutines of a session. *)

ReadEnds(c) ==
    /\ rd[c] = "run" /\ (done[c] \/ peer[c] = "gone")
    /\ rd' = [rd EXCEPT ![c] = "close"]
    /\ BeginClose(c)
    /\ UNCHANGED <<case, srvVars, peer, add, ses, table, done, wr, send,
                   stopVars, castVars>>

WriteTakes(c) ==
    /\ wr[c] = "run" /\ send[c] > 0
    /\ send' = [send EXCEPT ![c] = @ - 1]
    /\ IF ~done[c]
       THEN wr' = [wr EXCEPT ![c] = "write"] /\ UNCHANGED <<once, closing>>
       ELSE IF P.skips THEN UNCHANGED <<wr, once, closing>>
       ELSE wr' = [wr EXCEPT ![c] = "close"] /\ BeginClose(c)
    /\ UNCHANGED <<case, srvVars, peer, add, ses, table, done, rd,
                   stopVars, castVars>>

\* Mutant: a write that fails does not end the writer.
WriteEndsStays(c) ==
    /\ wr[c] = "write" /\ peer[c] = "up" /\ ~done[c]
    /\ wr' = [wr EXCEPT ![c] = "run"]
    /\ UNCHANGED <<case, srvVars, peer, sesVars, rd, send, stopVars, castVars>>
\* A client that does not read blocks the write until the connection ends.
WriteEnds(c) ==
    /\ wr[c] = "write"
    /\ \/ /\ peer[c] = "up" /\ ~done[c]
          /\ wr' = [wr EXCEPT ![c] = "run"] /\ UNCHANGED <<once, closing>>
       \/ /\ peer[c] = "gone" \/ done[c]
          /\ wr' = [wr EXCEPT ![c] = "close"] /\ BeginClose(c)
    /\ UNCHANGED <<case, srvVars, peer, add, ses, table, done, rd, send,
                   stopVars, castVars>>

WriteQuits(c) ==
    /\ wr[c] = "run" /\ done[c]
    /\ wr' = [wr EXCEPT ![c] = "close"] /\ BeginClose(c)
    /\ UNCHANGED <<case, srvVars, peer, add, ses, table, done, rd, send,
                   stopVars, castVars>>

\* The deferred Close of a goroutine has returned.
PumpEnds(c) ==
    /\ Closed(c)
    /\ \/ rd[c] = "close" /\ rd' = [rd EXCEPT ![c] = "end"] /\ UNCHANGED wr
       \/ wr[c] = "close" /\ wr' = [wr EXCEPT ![c] = "end"] /\ UNCHANGED rd
    /\ UNCHANGED <<case, srvVars, peer, sesVars, send, stopVars, castVars>>

----------------------------------------------------------------------------
(* Broadcast: SendMessage to every session of a copy of the table. *)

Broadcast ==
    /\ casts < case.casts /\ bc = {} /\ table # {}
    /\ bc' = table /\ casts' = casts + 1
    /\ UNCHANGED <<case, srvVars, peer, sesVars, runVars, stopVars>>

\* done, a free slot, or the timeout that drops the message.  A session with no
\* writer is written to directly, with a deadline.
SendMessage(c) ==
    /\ c \in bc
    /\ bc' = bc \ {c}
    /\ send' = [send EXCEPT ![c] = IF done[c] \/ @ = Cap \/ ~P.writes THEN @ ELSE @ + 1]
    /\ UNCHANGED <<case, srvVars, peer, sesVars, rd, wr, stopVars, casts>>

----------------------------------------------------------------------------
(* Stop. *)

StopIs(s) == stop # <<>> /\ Head(stop) = s

CallStop ==
    /\ ~called /\ running /\ start = <<>>
    /\ called' = TRUE /\ stop' = P.stop
    /\ UNCHANGED <<case, srvVars, peer, sesVars, runVars, todo, swept, castVars>>

StopFlag ==
    /\ StopIs("flag")
    /\ running' = FALSE
    /\ stop' = Tail(stop)
    /\ UNCHANGED <<case, start, open, acc, peer, sesVars, runVars, called, todo, swept,
                   castVars>>

Cut(kept) == [c \in Conns |-> IF peer[c] \in kept THEN peer[c] ELSE "gone"]

\* A connection that was not accepted is lost with the listener.
StopUnlisten ==
    /\ StopIs("unlisten") \/ StopIs("unlistenAll")
    /\ open' = FALSE
    /\ acc' = IF acc = "serve" THEN "end" ELSE acc
    /\ peer' = Cut(IF StopIs("unlisten") THEN {"no", "up", "slow"} ELSE {"no"})
    /\ stop' = Tail(stop)
    /\ UNCHANGED <<case, start, running, sesVars, runVars, called, todo, swept, castVars>>

StopShutdown ==
    /\ StopIs("shutdown")
    /\ peer' = Cut({"no"})
    /\ stop' = Tail(stop)
    /\ UNCHANGED <<case, srvVars, sesVars, runVars, called, todo, swept, castVars>>

StopSnapshot ==
    /\ StopIs("snapshot")
    /\ todo' = table /\ swept' = table
    /\ stop' = Tail(stop)
    /\ UNCHANGED <<case, srvVars, peer, sesVars, runVars, called, castVars>>

StopCloses(c) ==
    /\ StopIs("close") /\ c \in todo
    /\ IF Closed(c)
       THEN todo' = todo \ {c} /\ UNCHANGED <<once, closing>>
       ELSE ~once[c] /\ BeginClose(c) /\ UNCHANGED todo
    /\ UNCHANGED <<case, srvVars, peer, add, ses, table, done, runVars,
                   stop, called, swept, castVars>>

StopSweep ==
    /\ StopIs("sweep")
    /\ done' = [c \in Conns |-> done[c] \/ c \in table]
    /\ table' = {}
    /\ stop' = Tail(stop)
    /\ UNCHANGED <<case, srvVars, peer, add, ses, once, closing, runVars,
                   called, todo, swept, castVars>>

StopMovesOn ==
    /\ \/ StopIs("close") /\ todo = {}
       \/ StopIs("wait") /\ \A c \in swept : Quiet(c)
       \/ StopIs("waitAll") /\ \A c \in Conns : Quiet(c)
    /\ stop' = Tail(stop)
    /\ UNCHANGED <<case, srvVars, peer, sesVars, runVars, called, todo, swept, castVars>>

----------------------------------------------------------------------------
AddStep(c) == AddOpen(c) \/ AddCheck(c) \/ AddStore(c) \/ AddTell(c) \/ AddListen(c)
CloseStep(c) == CloseDone(c) \/ CloseDelete(c) \/ CloseTell(c)
WriteStep(c) == WriteTakes(c) \/ WriteEnds(c)
StopStep ==
    \/ StopFlag \/ StopUnlisten \/ StopShutdown \/ StopSnapshot \/ StopSweep
    \/ StopMovesOn \/ \E c \in Conns : StopCloses(c)

Next ==
    \/ StartStep \/ AcceptCheck \/ AcceptFails \/ Broadcast \/ CallStop \/ StopStep
    \/ \E c \in Conns :
          \/ Dial(c) \/ Accept(c) \/ AddStep(c) \/ CloseStep(c) \/ PeerMoves(c)
          \/ PeerCallback(c) \/ ReadEnds(c) \/ WriteStep(c) \/ WriteQuits(c)
          \/ PumpEnds(c) \/ SendMessage(c)

Spec == Init /\ [][Next]_vars

(* Goroutines that can go on do, and so do timers and the network; clients *)
(* and the callers of Broadcast and Stop need not do anything.             *)
GoroutineFairness ==
    /\ WF_vars(AcceptCheck) /\ WF_vars(AcceptFails) /\ WF_vars(StopStep)
    /\ \A c \in Conns :
          /\ WF_vars(Accept(c)) /\ WF_vars(AddStep(c)) /\ WF_vars(CloseStep(c))
          /\ WF_vars(PeerCallback(c)) /\ WF_vars(ReadEnds(c)) /\ WF_vars(WriteStep(c))
          /\ WF_vars(WriteQuits(c)) /\ WF_vars(PumpEnds(c)) /\ WF_vars(SendMessage(c))

----------------------------------------------------------------------------
(* Servers that store a session before anybody can close it, and servers   *)
(* whose Stop cuts connections it has no session for.                      *)
StoresFirst == DOMAIN Servers \ {"webrtc"}
CutsAll == {"kcp", "webtransport"}

(* When a session was closed and its handler is through, the table no      *)
(* longer holds it (addSession, removeSession): nobody would take it out   *)
(* later.                                                                  *)
NoGhost ==
    member \in StoresFirst =>
        \A c \in Conns : Closed(c) /\ ses[c] /\ add[c] = <<>> => c \notin table

(* Stop returns, whatever the clients do and however slow they are, and    *)
(* leaves no session behind where it cuts all connections: the table is    *)
(* empty and every session goroutine ends (Stop, Session.Wait).            *)
StopEndsSessions ==
    called /\ member \in StoresFirst ~>
        Stopped /\ (member \in CutsAll => table = {} /\ \A c \in Conns : Quiet(c))

(* A closed session winds up: both goroutines end, even a writer that is   *)
(* blocked by a client that does not read (Session.Close).                 *)
ClosedWindsUp == \A c \in Conns : once[c] ~> Quiet(c)
=============================================================================
