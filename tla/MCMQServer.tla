----------------------------- MODULE MCMQServer -----------------------------
(* Small instances of MQServer for TLC. *)
EXTENDS MQServer, TLC

CONSTANTS t1, t2, c1, c2

\* Each caller registers a topic of its own.
OwnTopics == (c1 :> {t1}) @@ (c2 :> {t2})
\* Both callers register every topic.
SharedTopics == [c \in Callers |-> Topics]

SubSymmetry == Permutations(Subs)
=============================================================================
