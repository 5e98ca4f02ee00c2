-------------------------- MODULE RabbitConnection --------------------------
(***************************************************************************)
(* broker/rabbitmq: one AMQP connection with the goroutine that redials it *)
(* (connection.go), the publish channel made on demand, and the subscriber *)
(* goroutines that wait for the connection, consume, and start again when  *)
(* it is lost (subscriber.go).                                             *)
(*                                                                         *)
(* Go channels that are only ever closed (r.close, r.waitConnection) are   *)
(* numbers; the closed ones are a set.  Closing a closed channel panics.   *)
(* A goroutine blocked in select takes the first case that becomes ready;  *)
(* one that finds several ready takes any of them.                         *)
(***************************************************************************)
EXTENDS Naturals, FiniteSets

CONSTANTS
    Subs,        \* subscribers, for one routing key, in the order of their use
    WhenSettled, \* Close is called only while the redialling goroutine watches,
                 \* Connect only when no other does or after Close
    Publishes,   \* somebody publishes
    MaxLost,     \* bound: connections the server drops
    MaxFails,    \* bound: dials that fail
    MaxConns,    \* bound: connections made
    MaxCloses    \* bound: calls of Close

RabbitAssumption ==
    /\ WhenSettled \in BOOLEAN /\ Publishes \in BOOLEAN /\ MaxConns \in Nat
    /\ MaxLost \in Nat /\ MaxFails \in Nat /\ MaxCloses \in Nat

Conns == 1..MaxConns
Loops == 1..MaxConns

VARIABLES
    conn, up, nconn,       \* r.Connection (0 nil); live connections; dialled
    connected,
    close, wait,           \* r.close, r.waitConnection
    closed,                \* closed channels: <<"close", n>>, <<"wait", n>>
    pubCh,                 \* the connection r.ExchangeChannel is on, 0 nil
    loop,                  \* per reconnect goroutine: [pc, conn, close]
    call,                  \* the call of Connect: "idle", "dial", "opened"
    pub,                   \* the publisher: "idle", "use"
    sub,                   \* per subscriber: [pc, closed, ch, wait, close]
    lost, fails, closes, crashed
connVars == <<conn, up, nconn>>
chanVars == <<close, wait, closed>>
vars == <<connVars, connected, chanVars, pubCh, loop, call, pub, sub, lost, fails,
          closes, crashed>>

Init ==
    /\ conn = 0 /\ up = {} /\ nconn = 0 /\ connected = FALSE
    /\ close = 1 /\ wait = 1 /\ closed = {} /\ pubCh = 0
    /\ loop = [l \in Loops |-> [pc |-> "none", conn |-> 0, close |-> 0]]
    /\ call = "idle" /\ pub = "idle"
    /\ sub = [s \in Subs |-> [pc |-> "none", closed |-> FALSE, ch |-> 0, wait |-> 0, close |-> 0]]
    /\ lost = 0 /\ fails = 0 /\ closes = 0 /\ crashed = FALSE

IsClosed(kind, n) == <<kind, n>> \in closed
Settled == \A l \in Loops : loop[l].pc \in {"none", "select", "gone"}

-----------------------------------------------------------------------------
(* tryConnect: the field is assigned whatever the outcome.  The channel    *)
(* opened next can fail too, which leaves the new connection open.         *)

TryConnect(ok) ==
    \/ /\ nconn < MaxConns /\ nconn' = nconn + 1 /\ conn' = nconn' /\ up' = up \cup {nconn'}
       /\ ok /\ UNCHANGED fails
    \/ /\ nconn < MaxConns /\ nconn' = nconn + 1 /\ conn' = nconn' /\ up' = up \cup {nconn'}
       /\ ~ok /\ fails < MaxFails /\ fails' = fails + 1
    \/ ~ok /\ fails < MaxFails /\ fails' = fails + 1 /\ conn' = 0 /\ UNCHANGED <<nconn, up>>

Fresh == pubCh' = 0

\* connected is set under the lock and waitConnection closed after it.
Opened ==
    /\ connected' = TRUE /\ Fresh
    /\ closed' = closed \cup {<<"wait", wait>>}
    /\ crashed' = IsClosed("wait", wait)
    /\ UNCHANGED <<close, wait>>

\* Connect: nothing to do when connected; a closed r.close is made anew.
Connect ==
    /\ call = "idle" /\ ~connected /\ ~crashed
    /\ WhenSettled => \/ IsClosed("close", close)
                      \/ \A l \in Loops : loop[l].pc \in {"none", "gone"}
    /\ \E l \in Loops : loop[l].pc = "none"
    /\ close' = IF IsClosed("close", close) THEN close + 1 ELSE close
    /\ call' = "dial"
    /\ UNCHANGED <<connVars, connected, wait, closed, pubCh, loop, pub, sub, lost, fails,
                   closes, crashed>>

ConnectDial ==
    /\ call = "dial" /\ ~crashed
    /\ \E ok \in BOOLEAN : TryConnect(ok) /\ call' = IF ok THEN "opened" ELSE "idle"
    /\ UNCHANGED <<connected, chanVars, pubCh, loop, pub, sub, lost, closes, crashed>>

\* ... and starts the goroutine that redials.
ConnectOpened ==
    /\ call = "opened" /\ ~crashed
    /\ Opened /\ call' = "idle"
    /\ LET l == CHOOSE x \in Loops : loop[x].pc = "none"
       IN  loop' = [loop EXCEPT ![l].pc = "arm"]
    /\ UNCHANGED <<connVars, pub, sub, lost, fails, closes>>

-----------------------------------------------------------------------------
(* reconnect                                                               *)

\* NotifyClose on the current connection and the select; nil panics.
LoopArm(l) ==
    /\ loop[l].pc = "arm" /\ ~crashed
    /\ LET gone == IsClosed("close", close)
           dead == conn \notin up
       IN  IF conn = 0 THEN crashed' = TRUE /\ UNCHANGED loop
           ELSE /\ \E pc \in {"select", "lost", "gone"} :
                      /\ pc = "select" => ~gone /\ ~dead
                      /\ pc = "lost" => dead
                      /\ pc = "gone" => gone
                      /\ loop' = [loop EXCEPT ![l] = [pc |-> pc, conn |-> conn, close |-> close]]
                /\ UNCHANGED crashed
    /\ UNCHANGED <<connVars, connected, chanVars, pubCh, call, pub, sub, lost, fails, closes>>

LoopLost(l) ==
    /\ loop[l].pc = "lost" /\ ~crashed
    /\ connected' = FALSE /\ wait' = wait + 1 /\ Fresh
    /\ loop' = [loop EXCEPT ![l].pc = "dial"]
    /\ UNCHANGED <<connVars, close, closed, call, pub, sub, lost, fails, closes, crashed>>

\* Redial until it works; r.close is not looked at.
LoopDial(l) ==
    /\ loop[l].pc = "dial" /\ ~crashed
    /\ \E ok \in BOOLEAN :
          TryConnect(ok) /\ loop' = [loop EXCEPT ![l].pc = IF ok THEN "opened" ELSE "dial"]
    /\ UNCHANGED <<connected, chanVars, pubCh, call, pub, sub, lost, closes, crashed>>

LoopOpened(l) ==
    /\ loop[l].pc = "opened" /\ ~crashed
    /\ Opened /\ loop' = [loop EXCEPT ![l].pc = "arm"]
    /\ UNCHANGED <<connVars, call, pub, sub, lost, fails, closes>>

\* Unsubscribe closes the channel the subscriber has recorded.
Unsubscribed(v) ==
    [v EXCEPT !.closed = TRUE, !.pc = IF v.pc = "range" THEN "check" ELSE v.pc]

\* What the end of a connection does to those blocked on it.
Drop(k) ==
    /\ up' = up \ {k}
    /\ sub' = [s \in Subs |-> IF sub[s].pc = "range" /\ sub[s].ch = k
                              THEN [sub[s] EXCEPT !.pc = "check"] ELSE sub[s]]

ConnectionLost ==
    /\ lost < MaxLost /\ conn \in up /\ ~crashed /\ lost' = lost + 1
    /\ Drop(conn)
    /\ loop' = [l \in Loops |-> IF loop[l].pc = "select" /\ loop[l].conn = conn
                                THEN [loop[l] EXCEPT !.pc = "lost"] ELSE loop[l]]
    /\ UNCHANGED <<conn, nconn, connected, chanVars, pubCh, call, pub, fails, closes, crashed>>

\* Disconnect: the subscribers are cleared; goroutines blocked on r.close return;
\* the connection is closed.
ClearSubs == sub' = [s \in Subs |-> IF sub[s].pc = "none" THEN sub[s] ELSE Unsubscribed(sub[s])]
CloseLoops == [l \in Loops |-> IF loop[l].pc = "select" /\ loop[l].close = close
                               THEN [loop[l] EXCEPT !.pc = "gone"] ELSE loop[l]]
Close ==
    /\ closes < MaxCloses /\ ~IsClosed("close", close) /\ ~crashed /\ call = "idle"
    /\ WhenSettled => Settled /\ connected
    /\ closes' = closes + 1
    /\ closed' = closed \cup {<<"close", close>>} /\ connected' = FALSE
    /\ wait' = wait + 1
    /\ loop' = CloseLoops
    /\ ClearSubs /\ up' = up \ {conn}
    /\ UNCHANGED <<conn, nconn, close, pubCh, call, pub, lost, fails, crashed>>

-----------------------------------------------------------------------------
(* Publishing: lazyInitPublishChannel under the lock, then the field again. *)

Publish ==
    /\ Publishes /\ pub = "idle" /\ nconn > 0 /\ ~crashed
    /\ \/ pubCh # 0 /\ pub' = "use" /\ UNCHANGED <<pubCh, crashed>>
       \/ pubCh = 0 /\ conn \in up /\ pub' = "use" /\ pubCh' = conn /\ UNCHANGED crashed
       \/ pubCh = 0 /\ conn \in 1..nconn \ up /\ UNCHANGED <<pubCh, pub, crashed>>
       \/ pubCh = 0 /\ conn = 0 /\ crashed' = TRUE /\ UNCHANGED <<pub, pubCh>>
    /\ UNCHANGED <<connVars, connected, chanVars, loop, call, sub, lost, fails, closes>>

PublishUse ==
    /\ pub = "use" /\ ~crashed /\ pub' = "idle" /\ crashed' = (pubCh = 0)
    /\ UNCHANGED <<connVars, connected, chanVars, pubCh, loop, call, sub, lost, fails, closes>>

-----------------------------------------------------------------------------
(* Subscribers.                                                            *)

\* Subscribe: the subscriber before is unsubscribed, the queue declared and
\* bound, and the goroutine started.
Subscribe(s) ==
    /\ sub[s].pc = "none" /\ connected /\ conn \in up /\ ~crashed
    /\ sub' = [x \in Subs |-> IF x = s THEN [sub[s] EXCEPT !.pc = "check"]
                              ELSE IF sub[x].pc # "none" THEN Unsubscribed(sub[x]) ELSE sub[x]]
    /\ UNCHANGED <<connVars, connected, chanVars, pubCh, loop, call, pub, lost, fails,
                   closes, crashed>>

Unsubscribe(s) ==
    /\ sub[s].pc # "none" /\ ~sub[s].closed /\ ~crashed
    /\ sub' = [sub EXCEPT ![s] = Unsubscribed(@)]
    /\ UNCHANGED <<connVars, connected, chanVars, pubCh, loop, call, pub, lost, fails,
                   closes, crashed>>

SubFrame == UNCHANGED <<connVars, connected, chanVars, pubCh, loop, call, pub, lost, fails,
                        closes, crashed>>

\* The top of the loop: closed, or wait on the channels of this moment.
SubCheck(s) ==
    /\ sub[s].pc = "check" /\ ~crashed
    /\ sub' = [sub EXCEPT ![s] = IF @.closed THEN [@ EXCEPT !.pc = "gone"]
                                 ELSE [@ EXCEPT !.pc = "blocked", !.wait = wait, !.close = close]]
    /\ SubFrame

SubWake(s) ==
    /\ sub[s].pc = "blocked" /\ ~crashed
    /\ \/ IsClosed("close", sub[s].close) /\ sub' = [sub EXCEPT ![s].pc = "gone"]
       \/ IsClosed("wait", sub[s].wait) /\ sub' = [sub EXCEPT ![s].pc = "ready"]
    /\ SubFrame

\* Consume on a new channel of the current connection.
SubConsume(s) ==
    /\ sub[s].pc = "ready" /\ ~crashed
    /\ IF ~connected \/ conn \notin up THEN sub' = [sub EXCEPT ![s].pc = "check"]
       ELSE sub' = [sub EXCEPT ![s].pc = "got", ![s].ch = conn]
    /\ SubFrame

\* The channel is recorded, and deliveries are handled until it ends.
SubRange(s) ==
    /\ sub[s].pc = "got" /\ ~crashed
    /\ sub' = [sub EXCEPT ![s].pc = IF sub[s].ch \in up THEN "range" ELSE "check"]
    /\ SubFrame

-----------------------------------------------------------------------------
LoopStep(l) == LoopArm(l) \/ LoopLost(l) \/ LoopDial(l) \/ LoopOpened(l)
SubStep(s) == SubCheck(s) \/ SubWake(s) \/ SubConsume(s) \/ SubRange(s)

Next ==
    \/ Connect \/ ConnectDial \/ ConnectOpened \/ ConnectionLost \/ Close
    \/ \E l \in Loops : LoopStep(l)
    \/ Publish \/ PublishUse
    \/ \E s \in Subs : Subscribe(s) \/ Unsubscribe(s) \/ SubStep(s)

Spec == Init /\ [][Next]_vars

\* Go runs every goroutine that can run.
Fairness ==
    /\ \A l \in Loops : WF_vars(LoopStep(l))
    /\ \A s \in Subs : WF_vars(SubStep(s))

-----------------------------------------------------------------------------
Consuming(s) == sub[s].pc \in {"got", "range"} /\ sub[s].ch \in up

\* A subscriber nobody has unsubscribed consumes again after every loss of the
\* connection, unless the broker is closed or a Publish during the outage has
\* used a channel that is nil by then.
ResubscribesAfterLoss ==
    \A s \in Subs : sub[s].pc # "none"
        ~> (Consuming(s) \/ sub[s].closed \/ IsClosed("close", close) \/ crashed)

=============================================================================
