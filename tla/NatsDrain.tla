------------------------------ MODULE NatsDrain -----------------------------
(***************************************************************************)
(* broker/nats with the option DrainConnection: Disconnect, holding the    *)
(* broker's lock, and the callbacks of the client library send on closeCh, *)
(* which has a buffer and no reader.  Every other call takes the lock too. *)
(*                                                                         *)
(* The library (external) runs the callbacks of a connection in a          *)
(* goroutine of that connection, when the connection breaks and when it is *)
(* closed, and reconnects by itself or gives up.                           *)
(***************************************************************************)
EXTENDS Naturals

CONSTANTS
    Callers,
    MaxConns,        \* bound: connections that are made
    MaxDisconnects,  \* bound: calls of Disconnect
    MaxLost,         \* bound: times a connection breaks
    MaxPublishes     \* bound: calls of Publish

\* Mutant: an unbuffered channel.
CloseChUnbuffered == 0
CloseChCap == 8

NoOne == "no one"
DrainAssumption ==
    /\ NoOne \notin Callers
    /\ {MaxConns, MaxDisconnects, MaxLost, MaxPublishes} \subseteq Nat

VARIABLES
    status,     \* of the connection: "none", "up", "reconnecting", "closed"
    connected,  \* b.connected
    holder,     \* who holds the broker's lock between steps
    pc,         \* per caller: "idle", or the call it is in
    closeCh,    \* how many values the channel holds
    callbacks,  \* callbacks that have not sent yet
    conns, disconnects, lost, publishes
vars == <<status, connected, holder, pc, closeCh, callbacks, conns, disconnects, lost, publishes>>
counts == <<conns, disconnects, lost, publishes>>

Init ==
    /\ status = "none" /\ connected = FALSE /\ holder = NoOne
    /\ pc = [c \in Callers |-> "idle"] /\ closeCh = 0 /\ callbacks = 0
    /\ conns = 0 /\ disconnects = 0 /\ lost = 0 /\ publishes = 0

To(c, place) == pc' = [pc EXCEPT ![c] = place]

Call(c) ==
    /\ pc[c] = "idle"
    /\ \/ To(c, "connect") /\ UNCHANGED <<disconnects, publishes>>
       \/ /\ To(c, "disconnect") /\ disconnects < MaxDisconnects
          /\ disconnects' = disconnects + 1 /\ UNCHANGED publishes
       \/ /\ To(c, "publish") /\ publishes < MaxPublishes
          /\ publishes' = publishes + 1 /\ UNCHANGED disconnects
    /\ UNCHANGED <<status, connected, holder, closeCh, callbacks, conns, lost>>

\* A broker that is connected, or was not told otherwise, does nothing.
Connect(c) ==
    /\ pc[c] = "connect" /\ holder = NoOne /\ To(c, "idle")
    /\ \/ UNCHANGED <<status, connected, conns>>    \* connected, or the dial fails
       \/ /\ ~connected /\ conns < MaxConns /\ conns' = conns + 1
          /\ status' = "up" /\ connected' = TRUE
    /\ UNCHANGED <<holder, closeCh, callbacks, disconnects, lost, publishes>>

\* Publish fails or not; it needs the read lock either way.
Publish(c) ==
    /\ pc[c] = "publish" /\ holder = NoOne /\ To(c, "idle")
    /\ UNCHANGED <<status, connected, holder, closeCh, callbacks, counts>>

DisconnectLock(c) ==
    /\ pc[c] = "disconnect" /\ holder = NoOne /\ holder' = c /\ To(c, "send")
    /\ UNCHANGED <<status, connected, closeCh, callbacks, counts>>

\* The send waits for room; then the connection is closed.
DisconnectSend(c) ==
    /\ pc[c] = "send" /\ closeCh < CloseChCap /\ closeCh' = closeCh + 1
    /\ holder' = NoOne /\ To(c, "idle") /\ connected' = FALSE
    /\ status' = IF status = "none" THEN "none" ELSE "closed"
    /\ callbacks' = callbacks + CASE status = "up" -> 2          \* disconnected and closed
                                  [] status = "reconnecting" -> 1
                                  [] OTHER -> 0
    /\ UNCHANGED counts

\* The library.
Break ==
    /\ status = "up" /\ lost < MaxLost /\ lost' = lost + 1
    /\ status' = "reconnecting" /\ callbacks' = callbacks + 1
    /\ UNCHANGED <<connected, holder, pc, closeCh, conns, disconnects, publishes>>
Reconnect ==
    /\ status = "reconnecting"
    /\ \/ status' = "up" /\ UNCHANGED callbacks
       \/ status' = "closed" /\ callbacks' = callbacks + 1
    /\ UNCHANGED <<connected, holder, pc, closeCh, counts>>

\* onClose, onDisconnectedError
Callback ==
    /\ callbacks > 0 /\ closeCh < CloseChCap
    /\ callbacks' = callbacks - 1 /\ closeCh' = closeCh + 1
    /\ UNCHANGED <<status, connected, holder, pc, counts>>

CallStep(c) == Connect(c) \/ Publish(c) \/ DisconnectLock(c) \/ DisconnectSend(c)
Next == Break \/ Reconnect \/ Callback \/ \E c \in Callers : Call(c) \/ CallStep(c)

(* Some call goes on when one can.                                         *)
Fairness == WF_vars(\E c \in Callers : CallStep(c))

-----------------------------------------------------------------------------
(* The lock comes free again, Disconnect's send while it is held           *)
(* notwithstanding, as long as connections, losses and Disconnects have no *)
(* more to send than the channel holds (Disconnect, onClose,               *)
(* onDisconnectedError).                                                   *)
LockComesFree == []<>(holder = NoOne)
=============================================================================
