--------------------------- MODULE PublishFamily ----------------------------
(***************************************************************************)
(* Concurrent calls of Publish on one topic, together with Connect and     *)
(* Disconnect, for the brokers of PublishProfiles.  Clients and producers  *)
(* are numbered in the order they are made.                                *)
(***************************************************************************)
EXTENDS Naturals, FiniteSets, Sequences, PublishProfiles

CONSTANTS
    Cases,       \* the brokers to look at, the goroutines that call Publish, and
                 \* whether calls overlap and come while disconnected
    MaxThings,   \* bound: clients and producers made
    MaxCalls,    \* bound: calls of Publish
    MaxFaults    \* bound: failures of the message server or of the network

PublishAssumption ==
    /\ \A c \in Cases : /\ c.member \in DOMAIN Brokers /\ c.overlap \in BOOLEAN
                        /\ c.publishers \subseteq Nat
    /\ MaxThings \in Nat /\ MaxCalls \in Nat /\ MaxFaults \in Nat

VARIABLES
    case,        \* the member of Cases that is looked at
    connected,   \* the broker's flag
    client,      \* the client field, 0 for nil
    cache,       \* the producer cached for the topic, 0 for none
    made,        \* clients and producers made so far
    of,          \* the client each was made by (0: a client, or independent)
    up,          \* those not closed
    done,        \* rocketmq-clients: the done channel is closed
    pub,         \* per publisher: the call under way, or the last one
    disc,        \* the steps Disconnect has left
    crashed,     \* a goroutine has panicked
    calls, faults

vars == <<case, connected, client, cache, made, of, up, done, pub, disc, crashed,
          calls, faults>>

member == case.member
Overlap == case.overlap
Publishers == case.publishers
P == Brokers[member].p
L == Brokers[member].l
Things == 0..MaxThings
Rested == [prog |-> <<>>, held |-> 0, cached |-> FALSE, cli |-> 0, err |-> FALSE,
           got |-> FALSE, ret |-> "none", clear |-> FALSE]

Quiet == disc = <<>> /\ \A p \in Publishers : pub[p].prog = <<>>

\* A client or producer through which the server can be reached.
Usable(t) == t \in up /\ (of[t] = 0 \/ of[t] \in up)

Init ==
    /\ case \in Cases
    /\ connected = FALSE /\ cache = 0 /\ done = FALSE /\ disc = <<>>
    /\ client = IF L.client = "init" THEN 1 ELSE 0
    /\ made = client /\ up = {client} \ {0} /\ of = [t \in Things |-> 0]
    /\ pub = [p \in Publishers |-> Rested]
    /\ crashed = FALSE /\ calls = 0 /\ faults = 0

\* Something that may disturb a call under way has happened.
Disturb(f) == [p \in Publishers |-> [f[p] EXCEPT !.clear = FALSE]]

-----------------------------------------------------------------------------
(* Connect and Disconnect.                                                 *)

Ready == IF L.guard = "nil" THEN client # 0 ELSE L.guard = "flag" /\ connected

Connect ==
    /\ ~crashed /\ disc = <<>> /\ ~Ready
    /\ Overlap \/ Quiet
    /\ made < MaxThings
    /\ connected' = TRUE
    /\ IF L.client = "none" \/ (L.client = "init" /\ client # 0)
       THEN UNCHANGED <<client, made, up>>
       ELSE client' = made + 1 /\ made' = made + 1 /\ up' = up \cup {made + 1}
    /\ pub' = Disturb(pub)
    /\ UNCHANGED <<case, cache, of, done, disc, crashed, calls, faults>>

Disconnect ==
    /\ ~crashed /\ disc = <<>>
    /\ Overlap \/ Quiet
    /\ L.off => IF L.guard = "nil" THEN client # 0 ELSE connected
    /\ disc' = L.steps
    /\ pub' = Disturb(pub)
    /\ UNCHANGED <<case, connected, client, cache, made, of, up, done, crashed,
                   calls, faults>>

\* close(done), which nothing makes anew, panics the second time.
DisconnectPanics ==
    /\ disc # <<>> /\ "done" \in Head(disc) /\ done
    /\ crashed' = TRUE /\ disc' = <<>>
    /\ UNCHANGED <<case, connected, client, cache, made, of, up, done, pub, calls,
                   faults>>

DisconnectStep ==
    /\ disc # <<>>
    /\ LET s == Head(disc)
           prods == {"prods", "prodsErr"} \cap s # {}
       IN  /\ ~("done" \in s /\ done)
           /\ done' = (done \/ "done" \in s)
           /\ up' = up \ ((IF prods THEN {cache} ELSE {})
                          \cup (IF "close" \in s THEN {client} ELSE {}))
           /\ cache' = IF prods THEN 0 ELSE cache
           /\ client' = IF "nil" \in s THEN 0 ELSE client
           /\ connected' = (connected /\ "flag" \notin s)
    /\ disc' = Tail(disc)
    /\ pub' = Disturb(pub)
    /\ UNCHANGED <<case, made, of, crashed, calls, faults>>

\* A producer cannot be shut down properly: Disconnect returns the error.
DisconnectFails ==
    /\ disc # <<>> /\ "prodsErr" \in Head(disc) /\ cache # 0 /\ faults < MaxFaults
    /\ ~("done" \in Head(disc) /\ done)
    /\ done' = (done \/ "done" \in Head(disc))
    /\ up' = up \ {cache}
    /\ disc' = <<>>
    /\ faults' = faults + 1
    /\ pub' = Disturb(pub)
    /\ UNCHANGED <<case, connected, client, cache, made, of, crashed, calls>>

-----------------------------------------------------------------------------
(* Publish.                                                                *)

At(p, steps) == ~crashed /\ pub[p].prog # <<>> /\ Head(pub[p].prog) \in steps
Rest(p) == [pub[p] EXCEPT !.prog = Tail(@)]
Returns(p, e) == [pub[p] EXCEPT !.prog = <<>>, !.err = e, !.held = 0,
                                !.cli = 0, !.ret = IF e THEN "err" ELSE "ok"]

Sets(p, r) == pub' = [pub EXCEPT ![p] = r]

\* The call goes on with r, and returns when nothing is left to do.
Goes(p, r) == Sets(p, IF r.prog # <<>> THEN r
                      ELSE [r EXCEPT !.held = 0, !.cli = 0,
                                     !.ret = IF r.err THEN "err" ELSE "ok"])

Panics(p) ==
    /\ crashed' = TRUE
    /\ Sets(p, [Rested EXCEPT !.ret = "panic"])
    /\ UNCHANGED <<case, connected, client, cache, made, of, up, done, disc, calls,
                   faults>>

Calls(p) ==
    /\ ~crashed /\ pub[p].prog = <<>> /\ calls < MaxCalls
    /\ Overlap \/ (connected /\ disc = <<>>)
    /\ calls' = calls + 1
    /\ pub' = [Disturb(pub) EXCEPT ![p] =
                  [Rested EXCEPT !.prog = P.main, !.clear = Quiet /\ connected]]
    /\ UNCHANGED <<case, connected, client, cache, made, of, up, done, disc, crashed,
                   faults>>

\* The checks that return an error.
Check(p) ==
    /\ At(p, {"nil", "up", "copy"})
    /\ IF client = 0 \/ (At(p, {"up"}) /\ client \notin up)
       THEN Sets(p, Returns(p, TRUE))
       ELSE Sets(p, [Rest(p) EXCEPT !.cli = IF At(p, {"copy"}) THEN client ELSE 0])
    /\ UNCHANGED <<case, connected, client, cache, made, of, up, done, disc, crashed,
                   calls, faults>>

\* The producer comes from the cache.
Cached(p) ==
    /\ At(p, {"lookup", "lookupk"}) /\ cache # 0
    /\ Sets(p, [Rest(p) EXCEPT !.held = cache, !.cached = TRUE])
    /\ UNCHANGED <<case, connected, client, cache, made, of, up, done, disc, crashed,
                   calls, faults>>

\* The client a new producer is made by.
Maker(p) == IF At(p, {"lookupk", "open"}) THEN pub[p].cli ELSE client

Creates(p) == At(p, {"remake", "open"}) \/ (At(p, {"lookup", "lookupk"}) /\ cache = 0)

Create(p) ==
    /\ Creates(p) /\ made < MaxThings
    /\ L.client # "none" => Maker(p) # 0
    /\ made' = made + 1
    /\ up' = up \cup {made + 1}
    /\ of' = [of EXCEPT ![made + 1] = IF L.bound THEN Maker(p) ELSE 0]
    /\ cache' = IF At(p, {"lookup", "lookupk"}) THEN made + 1 ELSE cache
    /\ Sets(p, [Rest(p) EXCEPT !.held = made + 1])
    /\ UNCHANGED <<case, connected, client, done, disc, crashed, calls, faults>>

\* The client field is nil by now.
CreatePanics(p) ==
    /\ Creates(p) /\ L.client # "none" /\ Maker(p) = 0
    /\ Panics(p)

\* The client or the server refuses.
CreateFails(p) ==
    /\ Creates(p) /\ faults < MaxFaults
    /\ member \notin Unasked
    /\ L.client # "none" => Maker(p) # 0
    /\ Sets(p, [Returns(p, TRUE) EXCEPT !.clear = FALSE])
    /\ faults' = faults + 1
    /\ UNCHANGED <<case, connected, client, cache, made, of, up, done, disc, crashed,
                   calls>>

-----------------------------------------------------------------------------
SendSteps == {"send", "sendf", "sendc", "sendk", "locked", "again", "againf", "resend"}
PostSteps == {"post", "postk"}

\* What the next send goes through.
Through(p) ==
    CASE At(p, {"send", "again", "resend", "post"}) -> pub[p].held
      [] At(p, {"sendk"}) -> pub[p].cli
      [] At(p, {"sendc", "locked", "postk"}) -> client
      [] At(p, {"sendf", "againf"}) -> cache

Sent(p) ==
    /\ At(p, SendSteps) /\ Usable(Through(p))
    /\ Goes(p, [Rest(p) EXCEPT !.err = FALSE, !.got = TRUE])
    /\ UNCHANGED <<case, connected, client, cache, made, of, up, done, disc, crashed,
                   calls, faults>>

\* The message is handed to the library, which sends it when it can.
Posted(p) ==
    /\ At(p, PostSteps) /\ Usable(Through(p))
    /\ \E s \in BOOLEAN : Goes(p, [Rest(p) EXCEPT !.err = FALSE, !.got = s])
    /\ UNCHANGED <<case, connected, client, cache, made, of, up, done, disc, crashed,
                   calls, faults>>

\* The call with its first send failed; s: the message arrived all the same.
Failed(p, s) ==
    LET next == CASE At(p, {"resend", "again", "againf"}) -> Tail(pub[p].prog)
                  [] pub[p].cached -> P.stale \o Tail(pub[p].prog)
                  [] OTHER -> P.fresh \o Tail(pub[p].prog)
    IN  [pub[p] EXCEPT !.prog = next, !.err = TRUE, !.got = @ \/ s]

\* The network or the server fails, perhaps after the message was taken.
SendFails(p) ==
    /\ At(p, SendSteps) /\ Usable(Through(p)) /\ faults < MaxFaults
    /\ faults' = faults + 1
    /\ \E s \in BOOLEAN : Goes(p, [Failed(p, s) EXCEPT !.clear = FALSE])
    /\ UNCHANGED <<case, connected, client, cache, made, of, up, done, disc, crashed,
                   calls>>

\* Everything but a nil field fails when it is closed.
Nilable == {"sendf", "sendc", "againf"}

SendClosed(p) ==
    /\ At(p, SendSteps \cup PostSteps) /\ ~Usable(Through(p))
    /\ Through(p) = 0 => ~At(p, Nilable)
    /\ Goes(p, Failed(p, FALSE))
    /\ UNCHANGED <<case, connected, client, cache, made, of, up, done, disc, crashed,
                   calls, faults>>

SendPanics(p) ==
    /\ At(p, Nilable) /\ Through(p) = 0
    /\ Panics(p)

\* The error of the first send is not a temporary one.
NotAgain(p) ==
    /\ At(p, {"again", "againf"})
    /\ Goes(p, Rest(p))
    /\ UNCHANGED <<case, connected, client, cache, made, of, up, done, disc, crashed,
                   calls, faults>>

-----------------------------------------------------------------------------
\* drop, keep, tidy and close; dropf of a nil field panics.
Closes(p) ==
    CASE At(p, {"drop", "close"}) -> {pub[p].held}
      [] At(p, {"dropf"}) -> {cache}
      [] At(p, {"tidy"}) /\ pub[p].err -> {pub[p].held}
      [] OTHER -> {}

Tidies(p) ==
    /\ At(p, {"drop", "dropf", "keep", "tidy", "close"})
    /\ At(p, {"dropf"}) => cache # 0
    /\ up' = up \ Closes(p)
    /\ cache' = CASE At(p, {"drop", "dropf"}) -> 0
                  [] At(p, {"keep"}) /\ ~pub[p].err -> pub[p].held
                  [] OTHER -> cache
    /\ Goes(p, Rest(p))
    /\ UNCHANGED <<case, connected, client, made, of, done, disc, crashed, calls,
                   faults>>

TidyPanics(p) ==
    /\ At(p, {"dropf"}) /\ cache = 0
    /\ Panics(p)

-----------------------------------------------------------------------------
Publish(p) ==
    \/ Calls(p) \/ Check(p) \/ Cached(p) \/ Create(p) \/ CreatePanics(p) \/ CreateFails(p)
    \/ Sent(p) \/ Posted(p) \/ SendFails(p) \/ SendClosed(p) \/ SendPanics(p) \/ NotAgain(p)
    \/ Tidies(p) \/ TidyPanics(p)

Next ==
    \/ Connect \/ Disconnect \/ DisconnectPanics \/ DisconnectStep \/ DisconnectFails
    \/ \E p \in Publishers : Publish(p)

Spec == Init /\ [][Next]_vars

-----------------------------------------------------------------------------
(* Properties.                                                             *)

\* Publish and Disconnect of these never meet a nil field.
Robust == {"kafkaMulti", "rocketv2", "gcpubsub", "azuresb", "stomp", "mqtt", "nsq",
           "nats", "jetstream"}

\* What they publish with is made by Connect or for one call only.
Uncached == {"azuresb", "sqs", "redispubsub", "redisstream", "mqtt", "nsq", "nats",
             "jetstream"}

\* A producer that has gone bad is replaced, or never cached, and Publish waits
\* for the server's answer.
Healing == DOMAIN Brokers \ {"rocketv5", "rocketv5Async", "gcpubsub", "nats"}

\* No interleaving of Publish, Connect and Disconnect ends in a nil dereference
\* or in closing a closed channel.
NoPanic == member \in Robust => ~crashed

\* When no call is under way, the only producer that is open is the cached one
\* and the only client that is open is the one in the field: no race, and no
\* dropping of a failed producer for a new one, leaks any.
NoLeak ==
    Quiet /\ ~crashed /\ (member \in Uncached \/ ~Overlap) => up \subseteq {cache, client}

\* What Publish returns is true: nil means that the message has reached the
\* server, and a call that begins on a connected broker, that no other operation
\* disturbs and that meets no failure, returns nil.  No earlier race or failure
\* leaves a producer behind that Publish fails on for ever.
ResultTrue ==
    member \in Healing =>
        \A p \in Publishers : /\ pub[p].ret = "ok" => pub[p].got
                             /\ pub[p].ret = "err" => ~pub[p].clear
=============================================================================
