---------------------------- MODULE ClientFamily ----------------------------
(***************************************************************************)
(* One client of ClientProfiles: the application's calls of Connect and    *)
(* Disconnect, one read loop per connection, and goroutines that send.     *)
(* Connections, their read loops and contexts are numbered in the order    *)
(* they are made; 0 stands for nil, and for the application's goroutine.   *)
(***************************************************************************)
EXTENDS Naturals, FiniteSets, Sequences, ClientProfiles

CONSTANTS
    Senders,     \* goroutines that send messages
    MaxConns,    \* bound: connections made
    MaxCalls,    \* bound: calls of Disconnect, of send, and registrations
    Cases        \* what to look at: a client; whether the application calls Connect
                 \* only when there is no connection; who sends; whether handlers are
                 \* registered while the client runs; bounds for this case

ASSUME ClientAssumption ==
    /\ MaxConns \in Nat /\ MaxCalls \in Nat /\ Senders \cap (0..MaxConns) = {}
    /\ Cases \subseteq [member : DOMAIN Clients, polite : BOOLEAN, senders : SUBSET Senders,
                        registers : BOOLEAN, conns : 0..MaxConns, calls : 0..MaxCalls]

VARIABLES
    case,        \* which case this behaviour is about
    conn,        \* the connection field
    ctx, cancelled,  \* the context field; the contexts that are cancelled
    made,        \* connections made so far
    up,          \* those the client has not closed
    dead,        \* those the peer or the network has ended
    thr,         \* per goroutine: stage, program left, connections and context held
    wlock,       \* who holds the write lock: nobody, or one
    registering, \* the application is writing to the map of handlers
    calls

vars == <<case, conn, ctx, cancelled, made, up, dead, thr, wlock, registering,
          calls>>

App == 0
Loops == 1..MaxConns
Threads == {App} \cup Loops \cup Senders
Conns == 0..MaxConns
MaxCtx == MaxConns + MaxCalls  \* bound: contexts made
member == case.member
C == Clients[member]

\* held: the copy a call works on; own: the connection a read loop reads.
Idle == [stage |-> "idle", prog |-> <<>>, held |-> 0, own |-> 0, ctx |-> 0]

Init ==
    /\ case \in Cases
    /\ conn = 0 /\ ctx = 0 /\ cancelled = {} /\ made = 0
    /\ up = {} /\ dead = {}
    /\ thr = [t \in Threads |-> Idle]
    /\ wlock = {} /\ registering = FALSE /\ calls = 0

Sets(t, r) == thr' = [thr EXCEPT ![t] = r]

\* A read loop has panicked, and the process is gone.
Crashed == \E l \in Loops : thr[l].stage = "crash"

In(t, s) == ~Crashed /\ thr[t].stage = s
At(t, s) == ~Crashed /\ thr[t].prog # <<>> /\ Head(thr[t].prog) = s
Rest(t) == [thr[t] EXCEPT !.prog = Tail(@)]

\* What is left of a goroutine whose program ends here.
Over(t) == [Idle EXCEPT !.stage = IF t \in Loops THEN "gone" ELSE "idle"]
Goes(t, r) == Sets(t, IF r.prog = <<>> THEN Over(t) ELSE r)

-----------------------------------------------------------------------------
(* The application.                                                        *)

Free == ~Crashed /\ thr[App].prog = <<>> /\ ~registering

CallConnect ==
    /\ Free /\ made < case.conns /\ ctx < MaxCtx
    /\ case.polite => conn = 0
    /\ Sets(App, [Idle EXCEPT !.prog = C.connect])
    /\ UNCHANGED <<case, conn, ctx, cancelled, made, up, dead, wlock, registering, calls>>

CallDisconnect ==
    /\ Free /\ calls < case.calls
    /\ calls' = calls + 1
    /\ Sets(App, [Idle EXCEPT !.prog = C.disconnect])
    /\ UNCHANGED <<case, conn, ctx, cancelled, made, up, dead, wlock, registering>>

Guard ==
    /\ At(App, "guard")
    /\ Goes(App, IF conn # 0 THEN Idle ELSE Rest(App))
    /\ UNCHANGED <<case, conn, ctx, cancelled, made, up, dead, wlock, registering, calls>>

NewCtx ==
    /\ At(App, "ctx")
    /\ ctx' = ctx + 1
    /\ Sets(App, Rest(App))
    /\ UNCHANGED <<case, conn, cancelled, made, up, dead, wlock, registering, calls>>

Dial ==
    /\ At(App, "dial") /\ ctx \notin cancelled
    /\ made' = made + 1 /\ up' = up \cup {made + 1}
    /\ Sets(App, [Rest(App) EXCEPT !.held = made + 1])
    /\ UNCHANGED <<case, conn, ctx, cancelled, dead, wlock, registering, calls>>

DialFails ==
    /\ At(App, "dial")
    /\ IF ctx \in cancelled THEN calls' = calls
                           ELSE calls < case.calls /\ calls' = calls + 1
    /\ Sets(App, Idle)
    /\ UNCHANGED <<case, conn, ctx, cancelled, made, up, dead, wlock, registering>>

Shake ==
    /\ At(App, "shake") /\ thr[App].held \notin dead
    /\ Sets(App, Rest(App))
    /\ UNCHANGED <<case, conn, ctx, cancelled, made, up, dead, wlock, registering, calls>>

\* Mutant: a connection whose handshake fails is left open.
ShakeFailsOpen ==
    /\ At(App, "shake")
    /\ Sets(App, Idle)
    /\ UNCHANGED <<case, conn, ctx, cancelled, made, up, dead, wlock, registering, calls>>

ShakeFails ==
    /\ At(App, "shake")
    /\ up' = up \ {thr[App].held}
    /\ Sets(App, Idle)
    /\ UNCHANGED <<case, conn, ctx, cancelled, made, dead, wlock, registering, calls>>

SetConn ==
    /\ At(App, "set")
    /\ conn' = thr[App].held
    /\ Goes(App, Rest(App))
    /\ UNCHANGED <<case, ctx, cancelled, made, up, dead, wlock, registering, calls>>

\* The new goroutine is told nothing: it finds its connection in the field,
\* unless it is a callback of the connection.
Spawn ==
    /\ At(App, "spawn")
    /\ LET n == thr[App].held
           loop == IF C.run.gets = "own" THEN [Idle EXCEPT !.stage = "read", !.own = n]
                                         ELSE [Idle EXCEPT !.stage = "start"]
           app == IF Tail(thr[App].prog) = <<>> THEN Idle ELSE Rest(App)
       IN  thr' = [thr EXCEPT ![App] = app, ![n] = loop]
    /\ UNCHANGED <<case, conn, ctx, cancelled, made, up, dead, wlock, registering, calls>>

\* The data channel opens in time (it may have before it failed), or not.
Wait ==
    /\ At(App, "wait")
    /\ \/ Sets(App, Idle)
       \/ Sets(App, [Idle EXCEPT !.prog = C.disconnect])
    /\ UNCHANGED <<case, conn, ctx, cancelled, made, up, dead, wlock, registering, calls>>

-----------------------------------------------------------------------------
(* Read loops.                                                             *)

\* A loop gets its connection, and ends at once when there is none.
Capture(l) ==
    /\ In(l, "start") /\ ~(conn = 0 /\ C.run.gets = "oncePtr")
    /\ Sets(l, IF conn = 0 THEN Over(l)
               ELSE [Idle EXCEPT !.stage = IF C.run.gets = "onceCtx" THEN "ctx" ELSE "read",
                                 !.own = conn])
    /\ UNCHANGED <<case, conn, ctx, cancelled, made, up, dead, wlock, registering, calls>>

\* Reading a nil pointer ends the process.
CaptureNil(l) ==
    /\ In(l, "start") /\ conn = 0 /\ C.run.gets = "oncePtr"
    /\ Sets(l, [Idle EXCEPT !.stage = "crash"])
    /\ UNCHANGED <<case, conn, ctx, cancelled, made, up, dead, wlock, registering, calls>>

\* The context comes from a field of its own, a moment later.
CaptureCtx(l) ==
    /\ In(l, "ctx")
    /\ Sets(l, [thr[l] EXCEPT !.stage = "read", !.ctx = ctx])
    /\ UNCHANGED <<case, conn, ctx, cancelled, made, up, dead, wlock, registering, calls>>

Reading(l) == thr[l].stage = "read" /\ thr[l].own \in up \ dead

\* A whole message arrives; its handler is looked up in the map.
Receive(l) ==
    /\ Reading(l)
    /\ C.locked => ~registering
    /\ Sets(l, [thr[l] EXCEPT !.stage = "look"])
    /\ UNCHANGED <<case, conn, ctx, cancelled, made, up, dead, wlock, registering, calls>>

Handle(l) ==
    /\ In(l, "look")
    /\ Sets(l, [thr[l] EXCEPT !.stage = "handle"])
    /\ UNCHANGED <<case, conn, ctx, cancelled, made, up, dead, wlock, registering, calls>>

Handled(l) ==
    /\ In(l, "handle")
    /\ Sets(l, [thr[l] EXCEPT !.stage = IF C.run.gets = "each" THEN "start" ELSE "read"])
    /\ UNCHANGED <<case, conn, ctx, cancelled, made, up, dead, wlock, registering, calls>>

Shared(l) == \E k \in Loops \ {l} : thr[k].own = thr[l].own /\ thr[k].own # 0

\* The connection is over, or two loops have torn a message apart.
ReadFails(l) ==
    /\ In(l, "read")
    /\ thr[l].own \notin up \ dead \/ Shared(l)
    /\ Sets(l, [thr[l] EXCEPT !.stage = "end", !.prog = C.run.ends])
    /\ UNCHANGED <<case, conn, ctx, cancelled, made, up, dead, wlock, registering, calls>>

\* notDone and same: the loop ends here, or goes on.
Checks(l) ==
    /\ At(l, "notDone") \/ At(l, "same")
    /\ LET on == IF At(l, "same") THEN conn = thr[l].own ELSE thr[l].ctx \notin cancelled
       IN  Sets(l, IF on THEN Rest(l) ELSE Over(l))
    /\ UNCHANGED <<case, conn, ctx, cancelled, made, up, dead, wlock, registering, calls>>

Clear(l) ==
    /\ At(l, "clear")
    /\ conn' = IF conn = thr[l].own THEN 0 ELSE conn
    /\ Goes(l, Rest(l))
    /\ UNCHANGED <<case, ctx, cancelled, made, up, dead, wlock, registering, calls>>

-----------------------------------------------------------------------------
(* Steps of Disconnect, by the application or by a read loop.              *)

Take(t) ==
    /\ At(t, "take")
    /\ conn' = 0
    /\ Goes(t, [Rest(t) EXCEPT !.held = conn])
    /\ UNCHANGED <<case, ctx, cancelled, made, up, dead, wlock, registering, calls>>

Close(t) ==
    /\ At(t, "close") \/ At(t, "closeOwn")
    /\ up' = up \ {IF At(t, "close") THEN thr[t].held ELSE thr[t].own}
    /\ Goes(t, Rest(t))
    /\ UNCHANGED <<case, conn, ctx, cancelled, made, dead, wlock, registering, calls>>

Cancel(t) ==
    /\ At(t, "cancel")
    /\ cancelled' = cancelled \cup {ctx}
    /\ Goes(t, Rest(t))
    /\ UNCHANGED <<case, conn, ctx, made, up, dead, wlock, registering, calls>>

-----------------------------------------------------------------------------
(* Sending, and the map of handlers.                                       *)

CallSend(s) ==
    /\ In(s, "idle") /\ s \in case.senders /\ calls < case.calls
    /\ calls' = calls + 1
    /\ Sets(s, [Idle EXCEPT !.stage = "send", !.prog = C.send])
    /\ UNCHANGED <<case, conn, ctx, cancelled, made, up, dead, wlock, registering>>

\* An error returned here or by the write gives the lock back (defer).
Copy(s) ==
    /\ At(s, "copy")
    /\ Sets(s, IF conn = 0 THEN Over(s) ELSE [Rest(s) EXCEPT !.held = conn])
    /\ wlock' = IF conn = 0 THEN wlock \ {s} ELSE wlock
    /\ UNCHANGED <<case, conn, ctx, cancelled, made, up, dead, registering, calls>>

Lock(s) ==
    /\ At(s, "lock") /\ wlock = {}
    /\ wlock' = {s}
    /\ Sets(s, Rest(s))
    /\ UNCHANGED <<case, conn, ctx, cancelled, made, up, dead, registering, calls>>

Unlock(s) ==
    /\ At(s, "unlock")
    /\ wlock' = {}
    /\ Goes(s, Rest(s))
    /\ UNCHANGED <<case, conn, ctx, cancelled, made, up, dead, registering, calls>>

WriteBegins(s) ==
    /\ At(s, "write") /\ In(s, "send")
    /\ Sets(s, [thr[s] EXCEPT !.stage = "write"])
    /\ UNCHANGED <<case, conn, ctx, cancelled, made, up, dead, wlock, registering, calls>>

WriteEnds(s) ==
    /\ In(s, "write") /\ At(s, "write")
    /\ Goes(s, [Rest(s) EXCEPT !.stage = "send"])
    /\ UNCHANGED <<case, conn, ctx, cancelled, made, up, dead, wlock, registering, calls>>

Looking == {l \in Loops : thr[l].stage = "look"}

RegisterBegins ==
    /\ case.registers /\ Free /\ calls < case.calls
    /\ C.locked => Looking = {}
    /\ registering' = TRUE /\ calls' = calls + 1
    /\ UNCHANGED <<case, conn, ctx, cancelled, made, up, dead, thr, wlock>>

RegisterEnds ==
    /\ ~Crashed /\ registering /\ registering' = FALSE
    /\ UNCHANGED <<case, conn, ctx, cancelled, made, up, dead, thr, wlock, calls>>

-----------------------------------------------------------------------------
(* The peer and the network.                                               *)

PeerEnds(n) ==
    /\ n \in up \ dead
    /\ dead' = dead \cup {n}
    /\ UNCHANGED <<case, conn, ctx, cancelled, made, up, thr, wlock,
                   registering, calls>>

-----------------------------------------------------------------------------
AppStep ==
    \/ Guard \/ NewCtx \/ Dial \/ DialFails \/ Shake \/ ShakeFails \/ SetConn \/ Spawn
    \/ Wait \/ RegisterEnds \/ Take(App) \/ Close(App) \/ Cancel(App)

LoopStep(l) ==
    \/ Capture(l) \/ CaptureNil(l) \/ CaptureCtx(l) \/ Handle(l) \/ Handled(l) \/ ReadFails(l) \/ Checks(l)
    \/ Clear(l) \/ Take(l) \/ Close(l) \/ Cancel(l)

SendStep(s) == Copy(s) \/ Lock(s) \/ Unlock(s) \/ WriteBegins(s) \/ WriteEnds(s)

Next ==
    \/ CallConnect \/ CallDisconnect \/ RegisterBegins \/ AppStep
    \/ \E l \in Loops : Receive(l) \/ LoopStep(l)
    \/ \E s \in Senders : CallSend(s) \/ SendStep(s)
    \/ \E n \in Loops : PeerEnds(n)

Spec == Init /\ [][Next]_vars

-----------------------------------------------------------------------------
(* Properties.                                                             *)

Quiet == Free /\ \A l \in Loops : thr[l].stage \in {"idle", "read", "gone"}

\* When nothing is under way, only the connection in the field is open: none is
\* lost sight of by failed dials and handshakes, by read loops that end at any
\* moment, or by Connect and Disconnect (Connect, Disconnect, run).
NoLeak == Quiet => up \subseteq {conn} \cup dead

\* Clients whose map of handlers has a lock, and clients that write frames to a
\* stream of their own.
Locking == DOMAIN Clients \ {"tcp"}
Streaming == DOMAIN Clients \ {"webrtc"}

\* The map of handlers is not read while it is written, and two goroutines never
\* write to one connection at a time (RegisterMessageHandler, SendRawData).
NoRace ==
    /\ member \in Locking => ~(registering /\ Looking # {})
    /\ member \in Streaming =>
          \A s, t \in Senders : s # t /\ thr[s].stage = "write" /\ thr[t].stage = "write"
                                   => thr[s].held # thr[t].held
=============================================================================
