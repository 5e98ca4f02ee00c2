------------------------------ MODULE RedisRecv ------------------------------
(***************************************************************************)
(* broker/redis/pubsub: the goroutine of a subscriber, which receives on   *)
(* its own connection, checks the server's health beside it, connects and  *)
(* subscribes again after a failure, and ends when it is unsubscribed.     *)
(* The subscribers are for one topic; Subscribe ends the previous one.     *)
(* A handler takes no step of its own here (module Delivery has it).       *)
(***************************************************************************)
EXTENDS Naturals

CONSTANTS
    MaxSubs,     \* bound: calls of Subscribe
    Held,        \* a subscriber is ended only while its goroutine, once started,
                 \* holds a connection
    MaxFaults    \* bound: connections lost, dials and health checks that fail

RedisAssumption == MaxSubs \in Nat /\ Held \in BOOLEAN /\ MaxFaults \in Nat

Subscribers == 1..MaxSubs

VARIABLES
    pool,      \* b.pool is not nil
    current,   \* the topic's entry in b.subscribers, 0 none
    made,      \* subscribers made
    pc,        \* where recv is
    conn,      \* s.conn: "nil", "on" (subscribed), "off" (unsubscribed), "dead"
    open,      \* connections of the subscriber not closed yet
    closed,    \* s.closed
    health,    \* the health check: "none", "runs", "failed" (pingErr holds its error)
    faults
vars == <<pool, current, made, pc, conn, open, closed, health, faults>>

Init ==
    /\ pool = FALSE /\ current = 0 /\ made = 0 /\ faults = 0
    /\ pc = [s \in Subscribers |-> "none"] /\ conn = [s \in Subscribers |-> "nil"]
    /\ open = [s \in Subscribers |-> 0] /\ closed = [s \in Subscribers |-> FALSE]
    /\ health = [s \in Subscribers |-> "none"]

To(s, next) == pc' = [pc EXCEPT ![s] = next]
Fault == faults < MaxFaults /\ faults' = faults + 1
CanEnd(set) == \A s \in set \ {0} : Held => conn[s] # "nil" /\ pc[s] # "check"

(* Unsubscribe, under the subscriber's lock.                               *)
\* Mutant: the connection is not unsubscribed.
EndedFlagOnly(set) ==
    closed' = [s \in Subscribers |-> closed[s] \/ s \in set] /\ UNCHANGED conn
Ended(set) ==
    /\ closed' = [s \in Subscribers |-> closed[s] \/ s \in set]
    /\ conn' = [s \in Subscribers |-> IF s \in set /\ conn[s] = "on" THEN "off" ELSE conn[s]]

-----------------------------------------------------------------------------
(* Calls on the broker.                                                    *)

Connect == /\ ~pool /\ made < MaxSubs /\ pool' = TRUE
           /\ UNCHANGED <<current, made, pc, conn, open, closed, health, faults>>
Disconnect ==
    /\ pool /\ pool' = FALSE /\ CanEnd({current}) /\ Ended({current}) /\ current' = 0
    /\ UNCHANGED <<made, pc, open, health, faults>>
Unsubscribe ==
    /\ current # 0 /\ CanEnd({current}) /\ Ended({current}) /\ current' = 0
    /\ UNCHANGED <<pool, made, pc, open, health, faults>>
Subscribe ==
    /\ pool /\ made < MaxSubs /\ CanEnd({current})
    /\ LET s == made + 1 IN
        /\ made' = s /\ current' = s /\ To(s, "check")
        /\ open' = [open EXCEPT ![s] = 1]
        /\ closed' = [c \in Subscribers |-> closed[c] \/ c = current]
        /\ conn' = [c \in Subscribers |-> IF c = s THEN "on"
                                   ELSE IF c = current /\ conn[c] = "on" THEN "off" ELSE conn[c]]
    /\ UNCHANGED <<pool, health, faults>>

-----------------------------------------------------------------------------
(* recv and reconnect.                                                     *)

Check(s) ==
    /\ pc[s] = "check" /\ To(s, IF closed[s] THEN "gone" ELSE "look")
    /\ UNCHANGED <<pool, current, made, conn, open, closed, health, faults>>
Look(s) ==
    /\ pc[s] = "look" /\ To(s, IF conn[s] = "nil" THEN "dial" ELSE "loop")
    /\ UNCHANGED <<pool, current, made, conn, open, closed, health, faults>>
Reconnect(s) ==
    /\ pc[s] = "dial"
    /\ \/ pool /\ conn' = [conn EXCEPT ![s] = "on"] /\ open' = [open EXCEPT ![s] = 1]
          /\ To(s, "loop") /\ UNCHANGED faults
       \/ ~pool /\ To(s, "sleep") /\ UNCHANGED <<conn, open, faults>>
       \/ pool /\ Fault /\ To(s, "sleep") /\ UNCHANGED <<conn, open>>
    /\ UNCHANGED <<pool, current, made, closed, health>>
CloseConn(s) ==
    /\ pc[s] \in {"failed", "ended"} /\ conn' = [conn EXCEPT ![s] = "nil"]
    /\ open' = [open EXCEPT ![s] = 0] /\ To(s, IF pc[s] = "ended" THEN "gone" ELSE "judge")
    /\ UNCHANGED <<pool, current, made, closed, health, faults>>
Judge(s) ==
    /\ pc[s] = "judge" /\ To(s, IF closed[s] THEN "gone" ELSE "sleep")
    /\ UNCHANGED <<pool, current, made, conn, open, closed, health, faults>>
Sleep(s) ==
    /\ pc[s] = "sleep" /\ To(s, "check")
    /\ UNCHANGED <<pool, current, made, conn, open, closed, health, faults>>

-----------------------------------------------------------------------------
(* receiveLoop and its health check.                                       *)

LoopStart(s) ==
    /\ pc[s] = "loop" /\ health' = [health EXCEPT ![s] = "runs"] /\ To(s, "receive")
    /\ UNCHANGED <<pool, current, made, conn, open, closed, faults>>
HealthFails(s) ==
    /\ health[s] = "runs" /\ pool /\ Fault /\ health' = [health EXCEPT ![s] = "failed"]
    /\ UNCHANGED <<pool, current, made, pc, conn, open, closed>>
(* A message, or a pong: the loop looks at pingErr before it receives.     *)
ReceiveNext(s) ==
    /\ pc[s] = "receive" /\ conn[s] \in {"on", "off"} /\ health[s] = "failed"
    /\ To(s, "failed") /\ health' = [health EXCEPT ![s] = "none"]
    /\ UNCHANGED <<pool, current, made, conn, open, closed, faults>>
ReceiveError(s) ==
    /\ pc[s] = "receive" /\ conn[s] = "dead" /\ To(s, "failed")
    /\ health' = [health EXCEPT ![s] = "none"]
    /\ UNCHANGED <<pool, current, made, conn, open, closed, faults>>
(* The server confirms that no subscription is left on the connection.     *)
ReceiveCountZero(s) ==
    /\ pc[s] = "receive" /\ conn[s] = "off" /\ To(s, "ended")
    /\ health' = [health EXCEPT ![s] = "none"]
    /\ UNCHANGED <<pool, current, made, conn, open, closed, faults>>
ConnectionLost(s) ==
    /\ conn[s] \in {"on", "off"} /\ Fault /\ conn' = [conn EXCEPT ![s] = "dead"]
    /\ UNCHANGED <<pool, current, made, pc, open, closed, health>>

Recv(s) ==
    \/ Check(s) \/ Look(s) \/ Reconnect(s) \/ CloseConn(s) \/ Judge(s) \/ Sleep(s)
    \/ LoopStart(s) \/ ReceiveNext(s) \/ ReceiveError(s) \/ ReceiveCountZero(s)
Next ==
    \/ Connect \/ Disconnect \/ Unsubscribe \/ Subscribe
    \/ \E s \in Subscribers : Recv(s) \/ HealthFails(s) \/ ConnectionLost(s)
Spec == Init /\ [][Next]_vars
(* Every subscriber's goroutine runs; sleeps end and the server answers.   *)
Fairness == \A s \in Subscribers : WF_vars(Recv(s))

-----------------------------------------------------------------------------
(* The goroutine of an unsubscribed subscriber ends.                       *)
ClosedEnds == \A s \in Subscribers : closed[s] ~> pc[s] = "gone"

=============================================================================
