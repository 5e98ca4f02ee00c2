-------------------------- MODULE MCSessionFamily ---------------------------
(***************************************************************************)
(* The instances of SessionFamily, SfuRouter and Renegotiation for model   *)
(* checking.  They share no state: a behaviour is one of them, the one     *)
(* machine names, and the others stay in their initial states.             *)
(***************************************************************************)
EXTENDS SessionFamily, SfuRouter

CONSTANTS Machines,     \* the machines of this run
          Crossing      \* the modes of Renegotiation: [overlap, timeouts, text]

VARIABLES machine, mode, rtcOpen, added, sig, local, agreed, known, callPc, made, last, wire, hand
rtcVars == <<mode, rtcOpen, added, sig, local, agreed, known, callPc, made, last, wire, hand>>

\* Two subscriptions of the client and a track of its own.
Rtc == INSTANCE Renegotiation WITH
    Calls <- {"sub1", "sub2", "track1"},
    Side <- [c \in {"sub1", "sub2", "track1"} |->
                IF c = "track1" THEN "client" ELSE "server"],
    Modes <- Crossing, open <- rtcOpen, tracks <- added, pc <- callPc

ASSUME Rtc!NegotiationAssumption

AllModes == [overlap : BOOLEAN, timeouts : BOOLEAN, text : BOOLEAN]
CrossingOffers == {[overlap |-> TRUE, timeouts |-> FALSE, text |-> FALSE]}

\* Two clients that come and go, or one that is sent more than its channel holds.
SessionCases ==
    [member : DOMAIN Servers, conns : {{"c1", "c2"}}, casts : {0}] \union
    [member : DOMAIN Servers, conns : {{"c1"}}, casts : {3}]

MCInit ==
    /\ machine \in Machines /\ Init /\ SfuInit /\ Rtc!Init
    /\ machine # "session" => case = [member |-> "webrtc", conns |-> {"c1"}, casts |-> 3]
    /\ machine # "negotiation" => mode = CHOOSE m \in Crossing : TRUE

MCNext ==
    \/ machine = "session" /\ Next /\ UNCHANGED <<machine, sfuVars, rtcVars>>
    \/ machine = "sfu" /\ SfuNext /\ UNCHANGED <<machine, vars, rtcVars>>
    \/ machine = "negotiation" /\ Rtc!Next /\ UNCHANGED <<machine, vars, sfuVars>>

\* Start is ready to go on in the initial state: its fairness is conditional.
MCFairness ==
    /\ WF_vars(machine = "session" /\ StartStep)
    /\ GoroutineFairness

MCSpec == MCInit /\ [][MCNext]_<<machine, vars, sfuVars, rtcVars>> /\ MCFairness

\* What one end takes for negotiated the other knows of, and without crossing offers
\* every track that was added is negotiated (sendRenegotiation, negotiate).
TracksNegotiated == Rtc!TracksNegotiated
\* No end is left waiting for the answer to its offer (types.go).
OffersAnswered == Rtc!OffersAnswered
=============================================================================
