------------------------------ MODULE Delivery ------------------------------
(***************************************************************************)
(* The life of messages between the message server and the handler, for    *)
(* the brokers of DeliveryProfiles: the receive loop fetches, a callback   *)
(* decodes, calls the handler and settles.  The server hands a message out *)
(* again when it was given back, when its time to be settled has run out,  *)
(* perhaps while it is still being handled, and when the process restarts. *)
(***************************************************************************)
EXTENDS Naturals, FiniteSets, Sequences, Functions, DeliveryProfiles

CONSTANTS
    Members,     \* the brokers to look at: a subset of DOMAIN Brokers
    Count,       \* the messages are 1..Count
    Poison,      \* those that cannot be decoded
    Workers,     \* callbacks that may run at a time (a broker may use fewer)
    MaxFails,    \* bound: failures of the handler, of Ack, early redeliveries
    MaxCrashes   \* bound: restarts of the process

ASSUME DeliveryAssumption ==
    /\ Members \subseteq DOMAIN Brokers
    /\ Count \in Nat /\ Poison \subseteq 1..Count /\ Workers \subseteq 1..2
    /\ MaxFails \in Nat /\ MaxCrashes \in Nat

VARIABLES
    member,
    queue,      \* messages the server will hand out
    settled,    \* messages the server will never hand out again
    batch,      \* messages of the call under way ("batch")
    fault,      \* ... and whether one of them failed
    taken,      \* fetched and not yet begun
    work,       \* per worker: message, steps left, is the publication's error set
    handled,    \* messages the handler has accepted
    told,       \* messages the ErrorHandler was called with, and if it found an error
    fails, crashes

vars == <<member, queue, settled, batch, fault, taken, work, handled, told, fails,
          crashes>>

Msgs == 1..Count
R == Brokers[member].r
O == Brokers[member].o
Idle == [msg |-> 0, prog |-> <<>>, err |-> FALSE]

\* Messages the process holds.
Inside == Range(taken) \cup {work[w].msg : w \in Workers} \cup Range(batch)

Init ==
    /\ member \in Members
    /\ queue = Msgs /\ settled = {} /\ batch = <<>> /\ fault = FALSE
    /\ taken = <<>> /\ work = [w \in Workers |-> Idle]
    /\ handled = {} /\ told = {}
    /\ fails = 0 /\ crashes = 0

-----------------------------------------------------------------------------
(* The receive loop.                                                       *)

\* "once" and "batch" messages are out of the server's hands as they are
\* fetched; offsets are fetched in order; a batch is complete before it is
\* begun.
Fetch(m) ==
    /\ m \in queue
    /\ R.take = 0 \/ Len(taken) < R.take
    /\ R.server = "offset" => \A n \in queue : m <= n
    /\ R.server = "batch" => Len(taken) = Len(batch)
    /\ queue' = queue \ {m}
    /\ taken' = Append(taken, m)
    /\ settled' = IF R.server = "once" THEN settled \cup {m} ELSE settled
    /\ batch' = IF R.server = "batch" THEN Append(batch, m) ELSE batch
    /\ UNCHANGED <<member, fault, work, handled, told, fails, crashes>>

\* The next message is handed to an idle worker, decoded, and handled.
Take(w, prog) ==
    /\ w <= R.workers /\ work[w] = Idle /\ taken # <<>>
    /\ work' = [work EXCEPT ![w].msg = Head(taken), ![w].prog = Append(prog, "end")]
    /\ taken' = Tail(taken)
    /\ UNCHANGED <<member, queue, settled, batch, fault, told, crashes>>

Malformed(w) ==
    /\ Take(w, O.bad) /\ Head(taken) \in Poison
    /\ UNCHANGED <<handled, fails>>

HandlerFails(w) ==
    /\ fails < MaxFails
    /\ Take(w, O.fail) /\ Head(taken) \notin Poison
    /\ fails' = fails + 1
    /\ UNCHANGED handled

HandlerAccepts(w) ==
    /\ Take(w, O.ok) /\ Head(taken) \notin Poison
    /\ handled' = handled \cup {Head(taken)}
    /\ UNCHANGED fails

-----------------------------------------------------------------------------
(* What follows, one call at a time.                                       *)

At(w, step) == work[w].prog # <<>> /\ Head(work[w].prog) = step
Rest(w) == [work[w] EXCEPT !.prog = Tail(@)]
Proceed(w) == work' = [work EXCEPT ![w] = Rest(w)]

StoreError(w) ==
    /\ At(w, "err")
    /\ work' = [work EXCEPT ![w] = [Rest(w) EXCEPT !.err = TRUE]]
    /\ UNCHANGED <<member, queue, settled, batch, fault, taken, handled, told, fails, crashes>>

ErrorHandler(w) ==
    /\ At(w, "eh") /\ Proceed(w)
    /\ told' = told \cup {[msg |-> work[w].msg, err |-> work[w].err]}
    /\ UNCHANGED <<member, queue, settled, batch, fault, taken, handled, fails, crashes>>

\* The server takes m as settled, and with offsets what comes before it.
Settle(m) ==
    LET s == IF R.server = "offset" THEN 1..m ELSE {m}
    IN  settled' = settled \cup s /\ queue' = queue \ s

\* Ack of the publication.
Ack(w) ==
    /\ At(w, "ack") /\ Proceed(w)
    /\ Settle(work[w].msg)
    /\ UNCHANGED <<member, batch, fault, taken, handled, told, fails, crashes>>

\* Ack fails: the error is logged and no more.
AckFails(w) ==
    /\ At(w, "ack") /\ fails < MaxFails
    /\ Proceed(w)
    /\ fails' = fails + 1
    /\ UNCHANGED <<member, queue, settled, batch, fault, taken, handled, told, crashes>>

\* XACK without a valid identifier is refused by the server.
AckWithoutId(w) ==
    /\ At(w, "xack") /\ Proceed(w)
    /\ UNCHANGED <<member, queue, settled, batch, fault, taken, handled, told, fails, crashes>>

Nack(w) ==
    /\ At(w, "nack") /\ Proceed(w)
    /\ queue' = IF work[w].msg \in settled THEN queue ELSE queue \cup {work[w].msg}
    /\ UNCHANGED <<member, settled, batch, fault, taken, handled, told, fails, crashes>>

Drop(w) ==
    /\ At(w, "drop") /\ Proceed(w)
    /\ Settle(work[w].msg)
    /\ UNCHANGED <<member, batch, fault, taken, handled, told, fails, crashes>>

Fault(w) ==
    /\ At(w, "fault") /\ Proceed(w)
    /\ fault' = TRUE
    /\ UNCHANGED <<member, queue, settled, batch, taken, handled, told, fails, crashes>>

\* The callback returns; with the last message of a batch, so does the call.
End(w) ==
    /\ At(w, "end")
    /\ work' = [work EXCEPT ![w] = Idle]
    /\ IF R.server = "batch" /\ taken = <<>>
       THEN /\ settled' = IF fault THEN settled ELSE settled \cup Range(batch)
            /\ queue' = IF fault THEN queue \cup Range(batch) ELSE queue
            /\ batch' = <<>> /\ fault' = FALSE
       ELSE UNCHANGED <<settled, queue, batch, fault>>
    /\ UNCHANGED <<member, taken, handled, told, fails, crashes>>

-----------------------------------------------------------------------------
(* The message server, and restarts.                                       *)

\* The time for a message to be settled has run out: nobody holds it, ...
Redeliver(m) ==
    /\ R.server = "single" /\ m \notin settled \cup queue \cup Inside
    /\ queue' = queue \cup {m}
    /\ UNCHANGED <<member, settled, batch, fault, taken, work, handled, told, fails, crashes>>

\* ... or its handler is slow.
RedeliverEarly(m) ==
    /\ R.server = "single" /\ m \in Inside \ (settled \cup queue \cup {0})
    /\ fails < MaxFails
    /\ fails' = fails + 1
    /\ queue' = queue \cup {m}
    /\ UNCHANGED <<member, settled, batch, fault, taken, work, handled, told, crashes>>

Crash ==
    /\ crashes < MaxCrashes
    /\ crashes' = crashes + 1
    /\ taken' = <<>> /\ batch' = <<>> /\ fault' = FALSE
    /\ work' = [w \in Workers |-> Idle]
    /\ queue' = Msgs \ settled
    /\ UNCHANGED <<member, settled, handled, told, fails>>

Step(w) ==
    \/ StoreError(w) \/ ErrorHandler(w) \/ Ack(w) \/ AckFails(w) \/ AckWithoutId(w)
    \/ Nack(w) \/ Drop(w) \/ Fault(w) \/ End(w)

Begin(w) == Malformed(w) \/ HandlerFails(w) \/ HandlerAccepts(w)

Next ==
    \/ \E m \in Msgs : Fetch(m) \/ Redeliver(m) \/ RedeliverEarly(m)
    \/ \E w \in Workers : Begin(w) \/ Step(w)
    \/ Crash

Spec == Init /\ [][Next]_vars

\* The receive loop and its callbacks go on; the server hands out every
\* message that stays available, and makes available what nobody settles.
Fairness ==
    /\ \A m \in Msgs : SF_vars(Fetch(m)) /\ WF_vars(Redeliver(m))
    /\ \A w \in Workers : WF_vars(Begin(w)) /\ WF_vars(Step(w))

-----------------------------------------------------------------------------
(* Properties.                                                             *)

\* Brokers that give back, or leave to the server, what was not accepted.
Reliable == {"jetstream", "pulsar", "stomp", "azuresb", "gcpubsub", "sqs",
             "rabbitRequeue", "rocketv2", "rocketv5", "aliyun"}

\* Those that settle messages one by one: in a batch, a message that can never
\* be handled makes those beside it come back with it.
Settling == Reliable \ {"rocketv2"}

\* Brokers without acknowledgements lose what a restart finds in the process.
Unacknowledged == {"nats", "redispubsub"}

\* Brokers whose ErrorHandler finds no error in the event.
Untold == {"kafka", "stomp", "rocketv2", "aliyun"}

\* The server of a reliable broker gives a message up only after the handler has
\* accepted it: no failure, slow handler, lost Ack or restart loses one.
SettledHandled == member \in Reliable => settled \subseteq handled

\* A message that is given up and that no callback holds was accepted by the
\* handler, or the ErrorHandler was called with it and found the error in the
\* event: no broker loses a message without a word.
SettledAccounted ==
    crashes = 0 \/ member \notin Unacknowledged =>
        settled \subseteq handled \cup Inside
                     \cup {e.msg : e \in {x \in told : x.err \/ member \in Untold}}

\* Every message that can be decoded reaches the handler of a settling broker and
\* is accepted, and what was accepted is settled in the end: it is not handed
\* out for ever.
HandledSettles ==
    \A m \in Msgs \ Poison :
        /\ member \in Settling ~> m \in handled
        /\ (member \in Settling /\ m \in handled) ~> m \in settled
=============================================================================
