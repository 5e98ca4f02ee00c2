------------------------------ MODULE SseClient ------------------------------
(***************************************************************************)
(* transport/sse/client.go: the event-stream client.  SubscribeChan starts *)
(* a goroutine that requests the stream, hands events to the caller's      *)
(* channel and requests it again, with the last event's ID, when it fails; *)
(* SubscribeWithContext does the same in the caller's own goroutine with a *)
(* handler.  Each connection has a reading goroutine.  Unsubscribe signals *)
(* the worker over an unbuffered channel while it holds c.mu.              *)
(*                                                                         *)
(* A stream's events are numbered from one; the server (external) sends    *)
(* the ones from the requested Last-Event-ID on, that one included.        *)
(***************************************************************************)
EXTENDS Naturals

CONSTANTS
    Chans,      \* channel subscriptions: one stream and one channel each
    Funcs,      \* handler subscriptions
    Users,      \* calls of Unsubscribe
    TargetOf,   \* the channel each of them names
    MaxEvent,   \* bound: events of a stream
    MaxFaults,  \* bound: requests and reads that fail
    MayEnd,     \* the server may end a stream
    MayGiveUp   \* the reconnect strategy may give up

Subs == Chans \cup Funcs
ASSUME SseClientAssumption ==
    /\ Chans \cap Funcs = {} /\ "free" \notin Users /\ TargetOf \in [Users -> Chans]
    /\ MaxEvent \in Nat /\ MaxFaults \in Nat /\ MayEnd \in BOOLEAN /\ MayGiveUp \in BOOLEAN

VARIABLES
    mu,        \* the user holding c.mu, or "free"
    subscribed,\* the channels with an entry in c.subscribed
    caller,    \* the subscribing call: "idle", "wait", "ok", "failed"
    worker,    \* the goroutine running the operation
    hand,      \* the event the worker holds
    reader,    \* the reading goroutine: "off", "read", "offer", "eof", "err", "leaked"
    offer,     \* the event the reader offers
    pos,       \* the next event the server sends on the connection
    lastId,    \* c.LastEventID, shared by the client's subscriptions
    seen,      \* the latest event handed over
    user,      \* per Unsubscribe call: "idle", "send", "back"
    faults
sseVars == <<mu, subscribed, caller, worker, hand, reader, offer, pos, lastId, seen, user, faults>>
readVars == <<reader, offer, pos, lastId>>
callVars == <<mu, subscribed, caller, user>>

SseInit ==
    /\ mu = "free" /\ subscribed = {} /\ lastId = 0 /\ faults = 0
    /\ caller = [s \in Subs |-> "idle"] /\ worker = [s \in Subs |-> "none"]
    /\ hand = [s \in Subs |-> 0] /\ reader = [s \in Subs |-> "off"]
    /\ offer = [s \in Subs |-> 0] /\ pos = [s \in Subs |-> 0] /\ seen = [s \in Subs |-> 0]
    /\ user = [u \in Users |-> "idle"]

To(s, pc) == worker' = [worker EXCEPT ![s] = pc]
Fault == faults < MaxFaults /\ faults' = faults + 1
(* The operation is over: a channel's goroutine cleans up, a handler's     *)
(* call returns.                                                           *)
OperationOver(s) == To(s, IF s \in Chans THEN "cleanup" ELSE "done")

-----------------------------------------------------------------------------
(* Subscribing, and the operation the backoff library retries.             *)

Subscribe(s) ==
    /\ caller[s] = "idle" /\ caller' = [caller EXCEPT ![s] = "wait"] /\ To(s, "request")
    /\ \/ s \in Chans /\ mu = "free" /\ subscribed' = subscribed \cup {s}
       \/ s \in Funcs /\ UNCHANGED subscribed
    /\ UNCHANGED <<mu, hand, readVars, seen, user, faults>>

StartReadLoop(s) == reader' = [reader EXCEPT ![s] = "read"]

Request(s) ==
    /\ worker[s] = "request"
    /\ \/ /\ pos' = [pos EXCEPT ![s] = IF lastId = 0 THEN 1 ELSE lastId]
          /\ \/ s \in Chans /\ caller[s] = "wait" /\ To(s, "announce") /\ UNCHANGED reader
             \/ (s \in Funcs \/ caller[s] = "ok") /\ To(s, "select") /\ StartReadLoop(s)
          /\ UNCHANGED faults
       \/ Fault /\ To(s, "backoff") /\ UNCHANGED <<pos, reader>>
    /\ UNCHANGED <<callVars, hand, offer, lastId, seen>>

(* errCh <- nil.  The caller closes errCh once it has received from it.    *)
Announce(s) ==
    /\ worker[s] = "announce"
    /\ caller' = [caller EXCEPT ![s] = "ok"] /\ To(s, "select") /\ StartReadLoop(s)
    /\ UNCHANGED <<mu, subscribed, hand, offer, pos, lastId, seen, user, faults>>

TakeEvent(s) ==
    /\ worker[s] = "select"
    /\ \/ /\ reader[s] = "offer" /\ hand' = [hand EXCEPT ![s] = offer[s]] /\ To(s, "hold")
          /\ StartReadLoop(s)
       \/ /\ reader[s] = "eof" /\ OperationOver(s) /\ reader' = [reader EXCEPT ![s] = "off"] /\ UNCHANGED hand
       \/ /\ reader[s] = "err" /\ To(s, "backoff") /\ reader' = [reader EXCEPT ![s] = "off"]
          /\ UNCHANGED hand
    /\ UNCHANGED <<callVars, offer, pos, lastId, seen, faults>>

Deliver(s) ==
    /\ worker[s] = "hold" /\ To(s, "select")
    /\ seen' = [seen EXCEPT ![s] = hand[s]] /\ hand' = [hand EXCEPT ![s] = 0]
    /\ UNCHANGED <<callVars, readVars, faults>>

Retry(s) ==
    /\ worker[s] = "backoff" /\ To(s, "request")
    /\ UNCHANGED <<callVars, hand, readVars, seen, faults>>
GiveUp(s) ==
    /\ MayGiveUp /\ worker[s] = "backoff"
    /\ IF s \in Chans /\ caller[s] = "wait" THEN To(s, "report") ELSE OperationOver(s)
    /\ UNCHANGED <<callVars, hand, readVars, seen, faults>>
Report(s) ==
    /\ worker[s] = "report" /\ caller' = [caller EXCEPT ![s] = "failed"] /\ To(s, "cleanup")
    /\ UNCHANGED <<mu, subscribed, hand, readVars, seen, user, faults>>
Cleanup(s) ==
    /\ worker[s] = "cleanup" /\ mu = "free" /\ subscribed' = subscribed \ {s} /\ To(s, "done")
    /\ UNCHANGED <<mu, caller, user, hand, readVars, seen, faults>>

-----------------------------------------------------------------------------
(* readLoop.                                                               *)

\* Mutant: an event the worker is not ready for is dropped.
ReadEventDrops(s) ==
    /\ reader[s] = "read" /\ pos[s] \in 1..MaxEvent
    /\ lastId' = pos[s] /\ pos' = [pos EXCEPT ![s] = @ + 1]
    /\ \/ offer' = [offer EXCEPT ![s] = pos[s]] /\ reader' = [reader EXCEPT ![s] = "offer"]
       \/ worker[s] # "select" /\ UNCHANGED <<offer, reader>>
    /\ UNCHANGED <<callVars, worker, hand, seen, faults>>
ReadEvent(s) ==
    /\ reader[s] = "read" /\ pos[s] \in 1..MaxEvent
    /\ lastId' = pos[s] /\ pos' = [pos EXCEPT ![s] = @ + 1]
    /\ offer' = [offer EXCEPT ![s] = pos[s]] /\ reader' = [reader EXCEPT ![s] = "offer"]
    /\ UNCHANGED <<callVars, worker, hand, seen, faults>>
ReadEnd(s) ==
    /\ reader[s] = "read"
    /\ \/ MayEnd /\ reader' = [reader EXCEPT ![s] = "eof"] /\ UNCHANGED faults
       \/ Fault /\ reader' = [reader EXCEPT ![s] = "err"]
    /\ UNCHANGED <<callVars, worker, hand, offer, pos, lastId, seen>>

-----------------------------------------------------------------------------
(* Unsubscribe, of a channel whose SubscribeChan has returned.             *)

UnsubscribeLock(u) ==
    /\ user[u] = "idle" /\ mu = "free" /\ caller[TargetOf[u]] = "ok"
    /\ \/ TargetOf[u] \in subscribed /\ mu' = u /\ user' = [user EXCEPT ![u] = "send"]
       \/ TargetOf[u] \notin subscribed /\ user' = [user EXCEPT ![u] = "back"] /\ UNCHANGED mu
    /\ UNCHANGED <<subscribed, caller, worker, hand, readVars, seen, faults>>

UnsubscribeSend(u) ==
    /\ user[u] = "send" /\ mu' = "free" /\ user' = [user EXCEPT ![u] = "back"]
    /\ worker[TargetOf[u]] \in {"select", "hold"} /\ OperationOver(TargetOf[u])
    /\ reader' = [reader EXCEPT ![TargetOf[u]] = "leaked"]
    /\ UNCHANGED <<subscribed, caller, hand, offer, pos, lastId, seen, faults>>

Working(s) == \/ Request(s) \/ Announce(s) \/ TakeEvent(s) \/ Retry(s) \/ GiveUp(s)
              \/ Report(s) \/ Cleanup(s)
SseNext ==
    \/ \E s \in Subs : Subscribe(s) \/ Working(s) \/ Deliver(s) \/ ReadEvent(s) \/ ReadEnd(s)
    \/ \E u \in Users : UnsubscribeLock(u) \/ UnsubscribeSend(u)
SseSpec == SseInit /\ [][SseNext]_sseVars

-----------------------------------------------------------------------------
(* A stream's events reach the subscriber without a gap, whatever          *)
(* connections fail between and under the reader.                          *)
NoGap == [][\A s \in Subs : seen'[s] <= seen[s] + 1]_sseVars
=============================================================================
