----------------------------- MODULE MCDelivery -----------------------------
(***************************************************************************)
(* The instances of Delivery and RequestReply for model checking.  The two *)
(* share no state: a behaviour is one of them, the one machine names, and  *)
(* the other stays in its initial state.                                   *)
(***************************************************************************)
EXTENDS Delivery, RequestReply

VARIABLE machine

\* A reply topic per call or one for all, with headers; a driver without headers.
ReplyModes == {[shared |-> FALSE, headers |-> TRUE], [shared |-> TRUE, headers |-> TRUE],
               [shared |-> FALSE, headers |-> FALSE]}

All == DOMAIN Brokers

MCInit ==
    /\ machine \in {"delivery", "request"}
    /\ Init /\ RequestInit
    /\ IF machine = "delivery" THEN mode = [shared |-> FALSE, headers |-> TRUE]
                               ELSE member = "nats"

MCNext ==
    \/ machine = "delivery" /\ Next /\ UNCHANGED <<machine, requestVars>>
    \/ machine = "request" /\ RequestNext /\ UNCHANGED <<machine, vars>>

\* Delivery's fairness concerns its own behaviours only: the message server is
\* ready to hand messages out in the initial state.
MCFairness ==
    /\ \A m \in Msgs : /\ SF_vars(machine = "delivery" /\ Fetch(m))
                       /\ WF_vars(machine = "delivery" /\ Redeliver(m))
    /\ \A w \in Workers : /\ WF_vars(machine = "delivery" /\ Begin(w))
                          /\ WF_vars(machine = "delivery" /\ Step(w))
    /\ RequestFairness

MCSpec == MCInit /\ [][MCNext]_<<machine, vars, requestVars>> /\ MCFairness
=============================================================================
