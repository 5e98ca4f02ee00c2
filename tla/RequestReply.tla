---------------------------- MODULE RequestReply ----------------------------
(***************************************************************************)
(* broker/request_reply.go: GenericRequest, the request-reply call built   *)
(* from a driver's Subscribe and Publish, and ReplyTo, with which the      *)
(* responder answers.  Each requester makes one call; its name stands for  *)
(* its message's ID.  The driver delivers at least once and keeps one      *)
(* subscription per topic: a Subscribe for a topic already in its table    *)
(* ends the old one, and Unsubscribe(true) removes the topic's entry,      *)
(* whoever it belongs to.                                                  *)
(***************************************************************************)
EXTENDS Naturals, TLAPS

CONSTANTS
    Reqs,        \* requesters
    Modes        \* [shared: WithReplyTopic, all name one reply topic, instead of a
                 \* fresh one; headers: the driver carries message headers]

ASSUME RequestAssumption ==
    /\ "shared" \notin Reqs /\ "none" \notin Reqs
    /\ Modes \subseteq [shared : BOOLEAN, headers : BOOLEAN]

Topics == Reqs \cup {"shared"}

VARIABLES
    mode,      \* the member of Modes that is looked at
    pc,        \* per call: "idle", "subscribed", "waiting", "leaving", "back"
    live,      \* reply subscriptions the driver delivers to
    table,     \* the driver's subscribers, per topic
    requests,  \* requests on the way to the responder: [id, cid, to]
    replies,   \* replies on their way: [of, cid, to]
    box,       \* replyCh (capacity one): whose reply it holds
    got        \* the reply the call returned with
requestVars == <<mode, pc, live, table, requests, replies, box, got>>

\* Mutant: the generated topic is not unique.
ReplyTopicFixed(r) == "shared"
ReplyTopic(r) == IF mode.shared THEN "shared" ELSE r

RequestInit ==
    /\ mode \in Modes
    /\ pc = [r \in Reqs |-> "idle"] /\ live = {} /\ table = [t \in Topics |-> "none"]
    /\ requests = {} /\ replies = {}
    /\ box = [r \in Reqs |-> "none"] /\ got = [r \in Reqs |-> "none"]

Header(v) == IF mode.headers THEN v ELSE "none"
Request(r) == [id |-> r, cid |-> Header(r), to |-> Header(ReplyTopic(r))]

-----------------------------------------------------------------------------
(* GenericRequest.                                                         *)

Subscribe(r) ==
    /\ live' = (live \ {table[ReplyTopic(r)]}) \cup {r}
    /\ table' = [table EXCEPT ![ReplyTopic(r)] = r]

RequestSubscribe(r) ==
    /\ pc[r] = "idle"
    /\ \/ pc' = [pc EXCEPT ![r] = "subscribed"] /\ Subscribe(r)
       \/ pc' = [pc EXCEPT ![r] = "back"] /\ UNCHANGED <<live, table>>
    /\ UNCHANGED <<mode, requests, replies, box, got>>

RequestPublish(r) ==
    /\ pc[r] = "subscribed"
    /\ \/ pc' = [pc EXCEPT ![r] = "waiting"] /\ requests' = requests \cup {Request(r)}
       \/ pc' = [pc EXCEPT ![r] = "leaving"] /\ UNCHANGED requests
    /\ UNCHANGED <<mode, live, table, replies, box, got>>

RequestReplied(r) ==
    /\ pc[r] = "waiting" /\ box[r] # "none"
    /\ got' = [got EXCEPT ![r] = box[r]] /\ box' = [box EXCEPT ![r] = "none"]
    /\ pc' = [pc EXCEPT ![r] = "leaving"]
    /\ UNCHANGED <<mode, live, table, requests, replies>>
RequestDone(r) ==
    /\ pc[r] = "waiting" /\ pc' = [pc EXCEPT ![r] = "leaving"]
    /\ UNCHANGED <<mode, live, table, requests, replies, box, got>>

RequestUnsubscribe(r) ==
    /\ pc[r] = "leaving" /\ pc' = [pc EXCEPT ![r] = "back"]
    /\ live' = live \ {r} /\ table' = [table EXCEPT ![ReplyTopic(r)] = "none"]
    /\ UNCHANGED <<mode, requests, replies, box, got>>

-----------------------------------------------------------------------------
(* The responder, and the driver's delivery.  A message may come again.    *)

ReplyTo(q) ==
    /\ q \in requests
    /\ requests' \in {requests, requests \ {q}}
    /\ replies' = IF q.to = "none" THEN replies
                  ELSE replies \cup {[of |-> q.id, cid |-> q.cid, to |-> q.to]}
    /\ UNCHANGED <<mode, pc, live, table, box, got>>

\* Mutant: any message on the reply topic is taken for the reply.
HandleAny(r, m) == IF box[r] # "none" THEN box ELSE [box EXCEPT ![r] = m.of]
Handle(r, m) == IF (m.cid # "none" /\ m.cid # r) \/ box[r] # "none" THEN box
                ELSE [box EXCEPT ![r] = m.of]

ListenersOf(t) == {r \in live : ReplyTopic(r) = t}
Deliver(m) ==
    /\ m \in replies /\ replies' \in {replies, replies \ {m}}
    /\ IF ListenersOf(m.to) = {} THEN UNCHANGED box
       ELSE \E r \in ListenersOf(m.to) : box' = Handle(r, m)
    /\ UNCHANGED <<mode, pc, live, table, requests, got>>

Calls == \E r \in Reqs : \/ RequestSubscribe(r) \/ RequestPublish(r) \/ RequestReplied(r)
                         \/ RequestDone(r) \/ RequestUnsubscribe(r)
Wire == (\E q \in requests : ReplyTo(q)) \/ (\E m \in replies : Deliver(m))
RequestNext == Calls \/ Wire
RequestSpec == RequestInit /\ [][RequestNext]_requestVars

(* A call under way goes on, the responder answers every request it gets,  *)
(* and the driver delivers what it holds.                                  *)
RequestFairness ==
    /\ \A r \in Reqs :
        /\ WF_requestVars(pc[r] # "idle" /\ (RequestPublish(r) \/ RequestReplied(r) \/ RequestUnsubscribe(r)))
        /\ WF_requestVars(\E q \in requests : q.id = r /\ ReplyTo(q))
        /\ WF_requestVars(\E m \in replies : m.of = r /\ Deliver(m))

-----------------------------------------------------------------------------
(* A call never returns the reply to somebody else's request.              *)
OwnReply == \A r \in Reqs : got[r] \in {"none", r}

(* With a reply topic of its own and a driver that carries headers, a      *)
(* request that was published is answered, however the messages of other   *)
(* calls are interleaved with it: no call is left to its timeout.          *)
Answered ==
    \A r \in Reqs : (pc[r] = "waiting" /\ ~mode.shared /\ mode.headers) ~> pc[r] # "waiting"

-----------------------------------------------------------------------------
(* Proofs, for any set of calls and any Modes.  A reply carries the id of  *)
(* its request twice, as the request it answers and as the correlation id  *)
(* the handler compares, or it does not exist: without headers nobody is   *)
(* told where to reply.                                                    *)

Wires ==
    /\ \A q \in requests : q.id \in Reqs /\ (q.to # "none" => q.cid = q.id)
    /\ \A m \in replies : m.of \in Reqs /\ m.cid = m.of
Boxes ==
    /\ mode \in Modes
    /\ box \in [Reqs -> Reqs \cup {"none"}] /\ got \in [Reqs -> Reqs \cup {"none"}]
    /\ \A r \in Reqs : box[r] \in {"none", r} /\ got[r] \in {"none", r}
\* A call with a topic of its own is listening from Subscribe to Unsubscribe.
Listening ==
    /\ pc \in [Reqs -> {"idle", "subscribed", "waiting", "leaving", "back"}]
    /\ table \in [Topics -> Reqs \cup {"none"}] /\ live \subseteq Reqs
    /\ \A r \in Reqs : table[r] \in {"none", r}
    /\ \A r \in Reqs : ~mode.shared /\ pc[r] \in {"subscribed", "waiting"} => r \in live
ReplyInv == Wires /\ Boxes /\ Listening

(* A call that waits on a reply topic of its own keeps its subscription:   *)
(* no other call's Subscribe or Unsubscribe ends it (the generated topic   *)
(* of GenericRequest is unique).                                           *)
WaiterListens == \A r \in Reqs : ~mode.shared /\ pc[r] = "waiting" => r \in live

\* Before any call.
LEMMA InitReplyInv == RequestInit => ReplyInv
  BY RequestAssumption DEF RequestInit, ReplyInv, Wires, Boxes, Listening, Topics

\* Every step of a call, of the responder and of the driver preserves ReplyInv.
LEMMA NextReplyInv == ReplyInv /\ [RequestNext]_requestVars => ReplyInv'
<1> SUFFICES ASSUME ReplyInv, [RequestNext]_requestVars PROVE ReplyInv'
  OBVIOUS
<1> USE RequestAssumption DEF ReplyInv
<1>1. ASSUME NEW r \in Reqs, RequestSubscribe(r) PROVE ReplyInv'
  <2>1. Wires' /\ Boxes'
    BY <1>1 DEF RequestSubscribe, Wires, Boxes
  <2>2. Listening'
    <3> USE DEF Listening, Topics, Boxes
    <3>1. ReplyTopic(r) \in {r, "shared"} /\ (~mode.shared => ReplyTopic(r) = r)
      BY DEF ReplyTopic
    <3>2. CASE pc' = [pc EXCEPT ![r] = "subscribed"] /\ Subscribe(r)
      BY <1>1, <3>1, <3>2 DEF RequestSubscribe, Subscribe
    <3>3. CASE pc' = [pc EXCEPT ![r] = "back"] /\ UNCHANGED <<live, table>>
      BY <1>1, <3>3 DEF RequestSubscribe
    <3> QED BY <1>1, <3>2, <3>3 DEF RequestSubscribe
  <2> QED BY <2>1, <2>2
<1>2. ASSUME NEW r \in Reqs, RequestPublish(r) PROVE ReplyInv'
  BY <1>2 DEF RequestPublish, Wires, Boxes, Listening, Request, Header, ReplyTopic
<1>3. ASSUME NEW r \in Reqs, RequestReplied(r) PROVE ReplyInv'
  BY <1>3 DEF RequestReplied, Wires, Boxes, Listening
<1>4. ASSUME NEW r \in Reqs, RequestDone(r) PROVE ReplyInv'
  BY <1>4 DEF RequestDone, Wires, Boxes, Listening
<1>5. ASSUME NEW r \in Reqs, RequestUnsubscribe(r) PROVE ReplyInv'
  BY <1>5 DEF RequestUnsubscribe, Wires, Boxes, Listening, ReplyTopic, Topics
<1>6. ASSUME NEW q \in requests, ReplyTo(q) PROVE ReplyInv'
  BY <1>6 DEF ReplyTo, Wires, Boxes, Listening
<1>7. ASSUME NEW m \in replies, Deliver(m) PROVE ReplyInv'
  <2>1. Wires' /\ Listening'
    BY <1>7 DEF Deliver, Wires, Listening
  <2>2. Boxes'
    BY <1>7 DEF Deliver, Wires, Boxes, Handle, ListenersOf, Listening
  <2> QED BY <2>1, <2>2
<1>8. CASE UNCHANGED requestVars
  BY <1>8 DEF requestVars, Wires, Boxes, Listening
<1> QED BY <1>1, <1>2, <1>3, <1>4, <1>5, <1>6, <1>7, <1>8 DEF RequestNext, Calls, Wire

\* ReplyInv holds throughout.
LEMMA ReplyInductive == RequestSpec => []ReplyInv
  BY InitReplyInv, NextReplyInv, PTL DEF RequestSpec

\* A call returns with the reply to its own request, however many calls share
\* a reply topic and whatever is delivered twice.
THEOREM RepliesAreOwn == RequestSpec => []OwnReply
<1>1. ReplyInv => OwnReply
  BY DEF ReplyInv, Boxes, OwnReply
<1> QED BY <1>1, ReplyInductive, PTL

\* A waiting call with a reply topic of its own is still subscribed to it.
THEOREM WaitersListen == RequestSpec => []WaiterListens
<1>1. ReplyInv => WaiterListens
  BY DEF ReplyInv, Listening, WaiterListens
<1> QED BY <1>1, ReplyInductive, PTL
=============================================================================
