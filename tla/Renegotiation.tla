--------------------------- MODULE Renegotiation ----------------------------
(***************************************************************************)
(* transport/webrtc: the tracks of a connection are negotiated again when  *)
(* the server subscribes its client to a publisher (SubscribeToPublisher)  *)
(* and when the client adds a track of its own (AddLocalTrack).  The end   *)
(* that adds sends an offer over the data channel, the other end's message *)
(* handler answers.  The initial negotiation, over HTTP, is done.          *)
(*                                                                         *)
(* A peer connection (external) accepts a description according to its     *)
(* signalling state.  An answer adds no tracks of the answering end.       *)
(***************************************************************************)
EXTENDS Naturals, Sequences

CONSTANTS
    Calls,      \* calls of SubscribeToPublisher and AddLocalTrack; each adds a track
    Side,       \* the end each is made at
    Modes       \* [overlap: a call may begin while another, or the negotiation it
                \*  started, is under way; timeouts: gathering candidates may time
                \*  out; text: the payload type of both ends is PayloadTypeText]

Peers == {"server", "client"}
Other(p) == IF p = "server" THEN "client" ELSE "server"
NegotiationAssumption ==
    /\ Side \in [Calls -> Peers]
    /\ Modes \subseteq [overlap : BOOLEAN, timeouts : BOOLEAN, text : BOOLEAN]

VARIABLES
    mode,       \* the member of Modes that is looked at
    open,       \* the connection is not closed
    tracks,     \* per end: tracks added to its peer connection
    sig,        \* its signalling state
    local,      \* its local description: the type, and the tracks of this end in it
    agreed,     \* tracks of this end in the last offer of its that was answered
    known,      \* tracks of the other end in the last offer this end accepted
    pc, made,   \* per call: the step; the offer it has created
    last,       \* per end: the calls whose offer is the last one created
    wire,       \* per end: messages on their way to it
    hand        \* its message handler: "idle", "answer" or "reply"
vars == <<mode, open, tracks, sig, local, agreed, known, pc, made, last, wire, hand>>
peerVars == <<sig, local, agreed, known>>

Init ==
    /\ mode \in Modes /\ open = TRUE
    /\ tracks = [p \in Peers |-> {}] /\ sig = [p \in Peers |-> "stable"]
    /\ local = [p \in Peers |-> [type |-> IF p = "client" THEN "offer" ELSE "answer", tracks |-> {}]]
    /\ agreed = [p \in Peers |-> {}] /\ known = [p \in Peers |-> {}]
    /\ pc = [c \in Calls |-> "new"] /\ made = [c \in Calls |-> {}]
    /\ last = [p \in Peers |-> {}]
    /\ wire = [p \in Peers |-> <<>>] /\ hand = [p \in Peers |-> "idle"]

Quiet ==
    /\ \A c \in Calls : pc[c] \in {"new", "end"}
    /\ \A p \in Peers : wire[p] = <<>> /\ hand[p] = "idle"

-----------------------------------------------------------------------------
(* The peer connection (external).                                         *)

\* SetLocalDescription: an offer when stable, an answer to an offer.
LocalState(p, type) ==
    CASE open /\ type = "offer" /\ sig[p] = "stable" -> "have-local-offer"
      [] open /\ type = "answer" /\ sig[p] = "have-remote-offer" -> "stable"
      [] OTHER -> "refused"
SetLocalDescription(p, d) ==
    /\ LocalState(p, d.type) # "refused"
    /\ sig' = [sig EXCEPT ![p] = LocalState(p, d.type)] /\ local' = [local EXCEPT ![p] = d]
    /\ UNCHANGED <<agreed, known>>

\* SetRemoteDescription: an offer when stable, an answer to the offer of this end.
RemoteState(p, type) ==
    CASE open /\ type = "offer" /\ sig[p] = "stable" -> "have-remote-offer"
      [] open /\ type = "answer" /\ sig[p] = "have-local-offer" -> "stable"
      [] OTHER -> "refused"
SetRemoteDescription(p, d) ==
    /\ RemoteState(p, d.type) # "refused"
    /\ sig' = [sig EXCEPT ![p] = RemoteState(p, d.type)] /\ UNCHANGED local
    /\ IF d.type = "offer" THEN known' = [known EXCEPT ![p] = d.tracks] /\ UNCHANGED agreed
       ELSE agreed' = [agreed EXCEPT ![p] = local[p].tracks] /\ UNCHANGED known

Send(p, field) ==
    wire' = [wire EXCEPT ![Other(p)] =
                IF open THEN Append(@, [field |-> field, desc |-> local[p]]) ELSE @]

-----------------------------------------------------------------------------
(* SubscribeToPublisher with sendRenegotiation, AddLocalTrack with         *)
(* negotiate: one after the other the track, the offer, the local          *)
(* description, the wait for candidates and the message.                   *)

To(c, next) == pc' = [pc EXCEPT ![c] = next]
AddTrack(c) ==
    /\ pc[c] = "new" /\ (mode.overlap \/ Quiet)
    /\ IF open THEN To(c, "offer") /\ tracks' = [tracks EXCEPT ![Side[c]] = @ \cup {c}]
       ELSE To(c, "end") /\ UNCHANGED tracks
    /\ UNCHANGED <<mode, open, peerVars, made, last, wire, hand>>
CreateOffer(c) ==
    /\ pc[c] = "offer" /\ To(c, IF open THEN "set" ELSE "end")
    /\ made' = [made EXCEPT ![c] = tracks[Side[c]]] /\ last' = [last EXCEPT ![Side[c]] = {c}]
    /\ UNCHANGED <<mode, open, tracks, peerVars, wire, hand>>
\* An offer is refused, too, when another was created since.
SetOffer(c) ==
    /\ pc[c] = "set"
    /\ IF c \in last[Side[c]] /\ LocalState(Side[c], "offer") # "refused"
       THEN SetLocalDescription(Side[c], [type |-> "offer", tracks |-> made[c]]) /\ To(c, "send")
       ELSE To(c, "end") /\ UNCHANGED peerVars
    /\ UNCHANGED <<mode, open, tracks, made, last, wire, hand>>
SendOffer(c) ==
    /\ pc[c] = "send" /\ To(c, "end")
    /\ \/ Send(Side[c], "offer")
       \/ mode.timeouts /\ Side[c] = "client" /\ UNCHANGED wire
    /\ UNCHANGED <<mode, open, tracks, peerVars, made, last, hand>>

-----------------------------------------------------------------------------
(* handleSignalRenegotiation, of either end.                               *)

Taken(p, next) == wire' = [wire EXCEPT ![p] = Tail(@)] /\ hand' = [hand EXCEPT ![p] = next]
\* The server puts its signals in binary packets whatever the payload type.
Readable(p) == p = "server" \/ ~mode.text
HandleSignal(p) ==
    /\ hand[p] = "idle" /\ wire[p] # <<>>
    /\ LET m == Head(wire[p])
       IN \/ Readable(p) /\ SetRemoteDescription(p, m.desc)
             /\ Taken(p, IF m.field = "offer" THEN "answer" ELSE "idle")
          \/ ~Readable(p) /\ Taken(p, "idle") /\ UNCHANGED peerVars
          \/ RemoteState(p, m.desc.type) = "refused" /\ Taken(p, "idle") /\ UNCHANGED peerVars
    /\ UNCHANGED <<mode, open, tracks, pc, made, last>>
SetAnswer(p) ==
    /\ hand[p] = "answer"
    /\ \/ /\ SetLocalDescription(p, [type |-> "answer", tracks |-> agreed[p]])
          /\ hand' = [hand EXCEPT ![p] = "reply"]
       \/ /\ LocalState(p, "answer") = "refused" /\ UNCHANGED peerVars
          /\ hand' = [hand EXCEPT ![p] = "idle"]
    /\ UNCHANGED <<mode, open, tracks, pc, made, last, wire>>
\* Mutant: the end that sets its answer keeps it to itself.
SendAnswerNever(p) ==
    /\ hand[p] = "reply" /\ hand' = [hand EXCEPT ![p] = "idle"] /\ UNCHANGED wire
    /\ UNCHANGED <<mode, open, tracks, peerVars, pc, made, last>>
SendAnswer(p) ==
    /\ hand[p] = "reply" /\ hand' = [hand EXCEPT ![p] = "idle"] /\ Send(p, "answer")
    /\ UNCHANGED <<mode, open, tracks, peerVars, pc, made, last>>

Close ==
    /\ open /\ open' = FALSE /\ wire' = [p \in Peers |-> <<>>]
    /\ UNCHANGED <<mode, tracks, peerVars, pc, made, last, hand>>

Call(c) == AddTrack(c) \/ CreateOffer(c) \/ SetOffer(c) \/ SendOffer(c)
Handler(p) == HandleSignal(p) \/ SetAnswer(p) \/ SendAnswer(p)
Next == Close \/ (\E c \in Calls : Call(c)) \/ (\E p \in Peers : Handler(p))
Spec == Init /\ [][Next]_vars

-----------------------------------------------------------------------------
Rest == open /\ Quiet

(* What an end takes for negotiated, the other end has been told of, even  *)
(* when offers cross or candidates time out; and when offers do not cross, *)
(* every track that was added is negotiated once nothing is under way      *)
(* (SubscribeToPublisher, AddLocalTrack: "after adding a track a new offer *)
(* must be made, or it is not negotiated").                                *)
TracksNegotiated ==
    /\ \A p \in Peers : agreed[p] \subseteq known[Other(p)]
    /\ (Rest /\ mode = [overlap |-> FALSE, timeouts |-> FALSE, text |-> FALSE]) =>
           \A p \in Peers : sig[p] = "stable" /\ agreed[p] = tracks[p]

(* An offer is answered: "the client may also send an Offer ... the server *)
(* will return an Answer" (types.go).  So when nothing is under way, no    *)
(* end is left waiting for one.                                            *)
OffersAnswered == (Rest /\ ~mode.timeouts /\ ~mode.text) => \A p \in Peers : sig[p] = "stable"
=============================================================================
