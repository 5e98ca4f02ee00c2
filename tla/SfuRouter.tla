----------------------------- MODULE SfuRouter ------------------------------
(***************************************************************************)
(* The SFU router of the webrtc server: who publishes which media track,   *)
(* the record of who subscribed to which track id, and the subscriber list *)
(* inside each track, which is what packets are forwarded to.  A session   *)
(* opens its peer connection, enters the session table when its data       *)
(* channel opens, may publish tracks, and leaves.  Track ids are chosen by *)
(* the clients: two publishers may use the same.                           *)
(***************************************************************************)
EXTENDS Naturals

CONSTANTS
    Sessions, TrackIds,
    SharedIds,   \* whether two publishers may use the same track id
    MediaOnly,   \* whether a session may publish and leave without a data channel
    Overlap,     \* whether calls for one subscriber may overlap
    MaxCalls     \* bound: calls of SubscribeToPublisher

ASSUME SfuAssumption ==
    {SharedIds, MediaOnly, Overlap} \subseteq BOOLEAN /\ MaxCalls \in Nat

Tracks == Sessions \X TrackIds

VARIABLES
    pc,            \* per session: "new", "open" (peer connection), "in" (table), "gone"
    tracks,        \* SFURouter.tracks: the tracks that are registered
    records,       \* SFURouter.subscriptions: per session the track ids
    fwd,           \* MediaTrack.subscribers: per track the sessions it forwards to
    closed,        \* MediaTrack.closed
    job,           \* per session: tracks SubscribeToPublisher has still to connect
    left,          \* pairs <<x, p>>: x has unsubscribed from p since it subscribed
    calls

sfuVars == <<pc, tracks, records, fwd, closed, job, left, calls>>

Owned(p) == {t \in tracks : t[1] = p}
Ids(ts) == {t[2] : t \in ts}
Drop(ids) == [x \in Sessions |-> records[x] \ ids]
Free(x) == Overlap \/ job[x] = {}

SfuInit ==
    /\ pc = [x \in Sessions |-> "new"] /\ tracks = {} /\ closed = {}
    /\ records = [x \in Sessions |-> {}] /\ fwd = [t \in Tracks |-> {}]
    /\ job = [x \in Sessions |-> {}] /\ left = {} /\ calls = 0

\* signalHandler makes the peer connection; OnOpen adds the session.
Join(x) ==
    /\ \/ pc[x] = "new" /\ pc' = [pc EXCEPT ![x] = IF MediaOnly THEN "open" ELSE "in"]
       \/ pc[x] = "open" /\ pc' = [pc EXCEPT ![x] = "in"]
    /\ UNCHANGED <<tracks, records, fwd, closed, job, left, calls>>

\* OnTrack: AddTrack registers a new track, which starts to forward.  An earlier
\* one of that name is closed: a call that still holds it will do nothing with it.
AddTrack(p, i) ==
    /\ pc[p] \in {"open", "in"} /\ <<p, i>> \notin tracks
    /\ SharedIds \/ \A t \in tracks \union closed : t[2] = i => t[1] = p
    /\ tracks' = tracks \union {<<p, i>>}
    /\ closed' = closed \ {<<p, i>>}
    /\ job' = [x \in Sessions |-> job[x] \ {<<p, i>>}]
    /\ UNCHANGED <<pc, records, fwd, left, calls>>

\* The subscriber list of a closed track is dropped.
CloseTracks(ts) ==
    /\ closed' = closed \union ts
    /\ fwd' = [t \in Tracks |-> IF t \in ts THEN {} ELSE fwd[t]]

\* forwardRTP ends with its track; the router keeps the entry.
TrackEnds(t) ==
    /\ t \in tracks /\ t \notin closed
    /\ CloseTracks({t})
    /\ UNCHANGED <<pc, tracks, records, job, left, calls>>

RemoveTrack(t) ==
    /\ t \in tracks
    /\ CloseTracks({t})
    /\ tracks' = tracks \ {t}
    /\ records' = Drop({t[2]})
    /\ UNCHANGED <<pc, job, left, calls>>

\* OnSessionRemoved runs RemoveSessionTracks, if the session was in the table.
Leave(x) ==
    /\ pc[x] \in {"open", "in"}
    /\ pc' = [pc EXCEPT ![x] = "gone"]
    /\ IF pc[x] = "in"
       THEN /\ CloseTracks(Owned(x))
            /\ tracks' = tracks \ Owned(x)
            /\ records' = [Drop(Ids(Owned(x))) EXCEPT ![x] = {}]
       ELSE UNCHANGED <<closed, fwd, tracks, records>>
    /\ UNCHANGED <<job, left, calls>>

----------------------------------------------------------------------------
\* SubscribeToPublisher, first part: SFURouter.Subscribe records every track of
\* the publisher.
Subscribe(x, p) ==
    /\ calls < MaxCalls /\ x # p /\ pc[x] = "in" /\ job[x] = {}
    /\ calls' = calls + 1
    /\ job' = [job EXCEPT ![x] = Owned(p)]
    /\ records' = [records EXCEPT ![x] = @ \union Ids(Owned(p))]
    /\ left' = left \ {<<x, p>>}
    /\ UNCHANGED <<pc, tracks, fwd, closed>>

\* Second part, track by track: CreateLocalTrackForSubscriber fails on a closed
\* peer connection; AddSubscriber ignores a closed track.
Connect(x, t) ==
    /\ t \in job[x]
    /\ fwd' = [fwd EXCEPT ![t] = IF pc[x] = "gone" \/ t \in closed THEN @ ELSE @ \union {x}]
    /\ job' = [job EXCEPT ![x] = @ \ {t}]
    /\ UNCHANGED <<pc, tracks, records, closed, left, calls>>

\* Mutant: the track goes on forwarding.
UnsubscribeKeeps(x, p) ==
    /\ pc[x] = "in" /\ Free(x) /\ <<x, p>> \notin left
    /\ records' = [records EXCEPT ![x] = @ \ Ids(Owned(p))]
    /\ left' = left \union {<<x, p>>}
    /\ UNCHANGED <<pc, tracks, fwd, closed, job, calls>>
\* UnsubscribeFromPublisher: only recorded ids that p publishes are dealt with.
Unsubscribe(x, p) ==
    /\ pc[x] = "in" /\ Free(x) /\ <<x, p>> \notin left
    /\ LET mine == records[x] \intersect Ids(Owned(p))
       IN /\ records' = [records EXCEPT ![x] = @ \ mine]
          /\ fwd' = [t \in Tracks |-> IF t[1] = p /\ t[2] \in mine THEN fwd[t] \ {x} ELSE fwd[t]]
    /\ left' = left \union {<<x, p>>}
    /\ UNCHANGED <<pc, tracks, closed, job, calls>>

SfuNext ==
    \/ \E x \in Sessions : Join(x) \/ Leave(x)
    \/ \E x, p \in Sessions : Subscribe(x, p) \/ Unsubscribe(x, p)
    \/ \E t \in Tracks :
          \/ AddTrack(t[1], t[2]) \/ TrackEnds(t) \/ RemoveTrack(t)
          \/ \E x \in Sessions : Connect(x, t)
SfuSpec == SfuInit /\ [][SfuNext]_sfuVars

----------------------------------------------------------------------------
(* Once a session has unsubscribed from a publisher, no packet of that     *)
(* publisher is forwarded to it (UnsubscribeFromPublisher).                *)
UnsubscribedIsSilent ==
    \A x, p \in Sessions : <<x, p>> \in left /\ pc[x] = "in" =>
        \A t \in Owned(p) : x \notin fwd[t]

=============================================================================
