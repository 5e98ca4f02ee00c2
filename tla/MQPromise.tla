----------------------------- MODULE MQPromise -----------------------------
(***************************************************************************)
(* What a message-queue transport server promises its program, whatever    *)
(* broker it runs on: subscribers consume only between the call that makes *)
(* them and the one that ends them, an ended one never consumes again, the *)
(* table of subscribers grows only while the server runs, and whenever no  *)
(* call is in progress nothing consumes that the table does not hold, and  *)
(* nothing at all if the server is stopped.                                *)
(***************************************************************************)
CONSTANTS Topics, Subs, NoSub

VARIABLES
    running,   \* between Start and Stop
    busy,      \* some call is in progress
    table,     \* topic -> the subscriber the server answers for
    live,      \* subscribers that consume
    ended      \* subscribers that were unsubscribed
vars == <<running, busy, table, live, ended>>

Empty == [t \in Topics |-> NoSub]
Held == {table[t] : t \in Topics} \ {NoSub}
AtRest == live \subseteq Held /\ (~running => live = {})

Init == ~running /\ ~busy /\ table = Empty /\ live = {} /\ ended = {}

(* A call begins; the call of Stop ends the running at once.               *)
Call == busy' /\ running' \in {running, FALSE} /\ UNCHANGED <<table, live, ended>>
Run == busy /\ running' /\ UNCHANGED <<busy, table, live, ended>>

Consume(s) ==
    /\ busy /\ s \notin live \cup ended /\ live' = live \cup {s}
    /\ UNCHANGED <<running, busy, table, ended>>
Record(t, s) ==
    /\ busy /\ running /\ s \in live \cup ended
    /\ table' = [table EXCEPT ![t] = s] /\ UNCHANGED <<running, busy, live, ended>>
Take ==
    /\ busy /\ ~running /\ table' = Empty
    /\ UNCHANGED <<running, busy, live, ended>>

(* A subscriber ends, and with it perhaps the last call in progress.       *)
Release(s) ==
    /\ busy /\ ended' = ended \cup {s} /\ live' = live \ {s}
    /\ busy' \in BOOLEAN /\ (~busy' => AtRest')
    /\ UNCHANGED <<running, table>>
Return ==
    /\ busy /\ ~busy' /\ AtRest
    /\ UNCHANGED <<running, table, live, ended>>

Next ==
    \/ Call \/ Run \/ Take \/ Return
    \/ \E s \in Subs : Consume(s) \/ Release(s) \/ \E t \in Topics : Record(t, s)
Spec == Init /\ [][Next]_vars
=============================================================================
