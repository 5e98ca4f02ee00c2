--------------------------- MODULE DeliveryProofs ---------------------------
(***************************************************************************)
(* Proofs for Delivery, for every broker of DeliveryProfiles, any number   *)
(* of messages, undecodable ones among them, and any bounds on failures    *)
(* and restarts.  What is settled says nothing about the steps a callback  *)
(* still has to take, so neither SettledHandled nor SettledAccounted is    *)
(* inductive: DeliveryInv says what every callback still owes.             *)
(***************************************************************************)
EXTENDS Delivery, TLAPS

Calls == {"err", "eh", "ack", "nack", "drop", "fault", "xack", "end"}

TypeOK ==
    /\ member \in Members
    /\ queue \subseteq Msgs /\ settled \subseteq Msgs /\ handled \subseteq Msgs
    /\ batch \in Seq(Msgs) /\ taken \in Seq(Msgs) /\ fault \in BOOLEAN
    /\ work \in [Workers -> [msg : Nat, prog : Seq(Calls), err : BOOLEAN]]
    /\ \A e \in told : e \in [msg : Nat, err : BOOLEAN]
    /\ fails \in Nat /\ crashes \in Nat

Has(p, step) == \E i \in 1..Len(p) : p[i] = step
Settles(p) == Has(p, "ack") \/ Has(p, "drop")

\* The ErrorHandler will be called, with the error, before anything is settled.
Tells(p, err) ==
    \E i \in 1..Len(p) :
        /\ p[i] = "eh"
        /\ err \/ member \in Untold \/ \E j \in 1..(i - 1) : p[j] = "err"
        /\ \A k \in 1..i : p[k] \notin {"ack", "drop"}

Told(m) == \E e \in told : e.msg = m /\ (e.err \/ member \in Untold)
Accounted(m) == m \in handled \/ Told(m)

Ends(p) == p[Len(p)] = "end" /\ \A i \in 1..(Len(p) - 1) : p[i] # "end"

\* A callback is at some step of its program, which ends with "end"; a worker
\* beyond those the broker has is idle.
Programs ==
    \A w \in Workers :
        /\ work[w].prog = <<>> => work[w] = Idle
        /\ work[w].prog # <<>> =>
              w <= R.workers /\ work[w].msg \in Msgs /\ Ends(work[w].prog)

\* A reliable broker acknowledges only what was accepted.
AcksAccepted ==
    member \in Reliable =>
        /\ settled \subseteq handled
        /\ \A w \in Workers : Settles(work[w].prog) => work[w].msg \in handled

\* A message of a batch is still to be handled, was accepted, or makes the call
\* fail.
BatchOwed ==
    R.server = "batch" =>
        \A i \in 1..Len(batch) :
            \/ fault \/ batch[i] \in handled \/ batch[i] \in Range(taken)
            \/ \E w \in Workers : work[w].msg = batch[i] /\ Has(work[w].prog, "fault")

\* The other brokers report a message before they settle it.
ReportsFirst ==
    member \notin Reliable =>
        \A w \in Workers : work[w].prog # <<>> =>
            Accounted(work[w].msg) \/ Tells(work[w].prog, work[w].err)

\* What is settled is accounted for, or, where the server forgets what it hands
\* out, inside the process until that restarts.
SettledKnown ==
    member \notin Reliable =>
        \A m \in settled :
            \/ Accounted(m)
            \/ R.server = "once" /\ (crashes = 0 => m \in Inside)

\* Offsets are handled in order: everything before the message being handled is
\* accounted for.
InOrder ==
    R.server = "offset" =>
        /\ batch = <<>>
        /\ \A i, j \in 1..Len(taken) : i < j => taken[i] < taken[j]
        /\ \A i \in 1..Len(taken) : \A q \in queue : taken[i] < q
        /\ \A w \in Workers : work[w].prog # <<>> =>
              /\ \A i \in 1..Len(taken) : work[w].msg < taken[i]
              /\ \A q \in queue : work[w].msg < q
              /\ ~Has(work[w].prog, "nack")
        /\ \A m \in Msgs : m \in queue \/ m \in Inside \/ Accounted(m)

DeliveryInv ==
    /\ TypeOK /\ Programs /\ AcksAccepted /\ BatchOwed /\ ReportsFirst /\ SettledKnown
    /\ InOrder
-----------------------------------------------------------------------------
(* What the proofs need to know of the programs.                           *)

\* The steps that follow a message.
LEMMA ProgramsOf ==
    ASSUME NEW m \in DOMAIN Brokers
    PROVE  {Brokers[m].o.bad, Brokers[m].o.fail, Brokers[m].o.ok} \subseteq
               {<<>>, <<"ack">>, <<"xack">>, <<"nack">>, <<"eh">>, Reported, GivenBack, Done,
                <<"eh", "nack", "err">>, <<"err", "eh", "drop">>, <<"err", "fault">>,
                <<"eh", "fault">>}
  BY DEF Brokers, Outcome, NatsOutcome, JetStreamOutcome, PulsarOutcome, StompOutcome,
     AzureOutcome, GcpOutcome, SqsOutcome, KafkaOutcome, RabbitOutcome,
     RabbitRequeueOutcome, MqttOutcome, NsqOutcome, RedisPubSubOutcome, RedisStreamOutcome,
     RocketV2Outcome, RocketV5Outcome, AliyunOutcome

\* They are sequences of calls, none of them "end".
LEMMA ProgramsAreSequences ==
    ASSUME NEW m \in DOMAIN Brokers,
           NEW p \in {Brokers[m].o.bad, Brokers[m].o.fail, Brokers[m].o.ok}
    PROVE  p \in Seq(Calls) /\ ~Has(p, "end")
<1> USE DEF Reported, GivenBack, Done, Has, Calls
<1>1. CASE p = <<>>
  BY <1>1
<1>2. CASE p = <<"ack">>
  BY <1>2
<1>3. CASE p = <<"xack">>
  BY <1>3
<1>4. CASE p = <<"nack">>
  BY <1>4
<1>5. CASE p = <<"eh">>
  BY <1>5
<1>6. CASE p = Reported
  BY <1>6
<1>7. CASE p = GivenBack
  BY <1>7
<1>8. CASE p = Done
  BY <1>8
<1>9. CASE p = <<"eh", "nack", "err">>
  BY <1>9
<1>10. CASE p = <<"err", "eh", "drop">>
  BY <1>10
<1>11. CASE p = <<"err", "fault">>
  BY <1>11
<1>12. CASE p = <<"eh", "fault">>
  BY <1>12
<1> QED BY ProgramsOf, <1>1, <1>2, <1>3, <1>4, <1>5, <1>6, <1>7, <1>8, <1>9, <1>10, <1>11, <1>12, Zenon

\* How the brokers receive: offsets and batches with one worker, and the server
\* forgets what it hands out where there is no acknowledgement.
LEMMA ReceivesAs ==
    ASSUME NEW m \in DOMAIN Brokers
    PROVE  /\ Brokers[m].r.server \in {"once", "single", "offset", "batch"}
           /\ Brokers[m].r.workers \in {1, 2}
           /\ Brokers[m].r.server \in {"offset", "batch"} => Brokers[m].r.workers = 1
           /\ Brokers[m].r.server = "offset" <=> m = "kafka"
           /\ Brokers[m].r.server = "batch" <=> m = "rocketv2"
           /\ Brokers[m].r.server = "once" <=> m \in Unacknowledged
  BY SMTT(30) DEF Brokers, Unacknowledged, Receive, NatsReceive, JetStreamReceive, PulsarReceive,
     StompReceive, AzureReceive, GcpReceive, SqsReceive, KafkaReceive, RabbitReceive,
     MqttReceive, NsqReceive, RedisPubSubReceive, RedisStreamReceive, RocketV2Receive,
     RocketV5Receive, AliyunReceive

\* A reliable broker settles nothing after a failure.
LEMMA FailuresKeep ==
    ASSUME NEW m \in Reliable, NEW p \in {Brokers[m].o.bad, Brokers[m].o.fail}
    PROVE  ~Settles(p)
<1> USE DEF Reported, GivenBack, Settles, Has
<1>0. p \in {Reported, GivenBack, <<"eh", "nack", "err">>, <<"nack">>, <<"eh">>,
             <<"err", "fault">>, <<"eh", "fault">>}
  BY DEF Brokers, Outcome, Reliable, JetStreamOutcome, PulsarOutcome, StompOutcome,
     AzureOutcome, GcpOutcome, SqsOutcome, RabbitRequeueOutcome, RocketV2Outcome,
     RocketV5Outcome, AliyunOutcome
<1>1. CASE p = Reported
  BY <1>1
<1>2. CASE p = GivenBack
  BY <1>2
<1>3. CASE p = <<"eh", "nack", "err">>
  BY <1>3
<1>4. CASE p = <<"nack">> \/ p = <<"eh">>
  BY <1>4
<1>5. CASE p = <<"err", "fault">> \/ p = <<"eh", "fault">>
  BY <1>5
<1> QED BY <1>0, <1>1, <1>2, <1>3, <1>4, <1>5, Zenon

\* In a batch, a message that is not accepted makes the call fail.
LEMMA FailuresFault ==
    ASSUME NEW p \in {Brokers["rocketv2"].o.bad, Brokers["rocketv2"].o.fail}
    PROVE  Has(p, "fault")
<1>1. p \in {<<"err", "fault">>, <<"eh", "fault">>}
  BY Zenon DEF Brokers, Outcome, RocketV2Outcome
<1>2. CASE p = <<"err", "fault">>
  BY <1>2 DEF Has
<1>3. CASE p = <<"eh", "fault">>
  BY <1>3 DEF Has
<1> QED BY <1>1, <1>2, <1>3, Zenon

\* Offsets are never given back.
LEMMA OffsetsStay ==
    ASSUME NEW p \in {Brokers["kafka"].o.bad, Brokers["kafka"].o.fail, Brokers["kafka"].o.ok}
    PROVE  ~Has(p, "nack")
<1>1. p \in {<<"eh">>, <<"ack">>}
  BY Zenon DEF Brokers, Outcome, KafkaOutcome
<1>2. CASE p = <<"eh">>
  BY <1>2 DEF Has
<1>3. CASE p = <<"ack">>
  BY <1>3 DEF Has
<1> QED BY <1>1, <1>2, <1>3, Zenon

\* The brokers that are not reliable report a failure before anything else.
LEMMA FailuresTell ==
    ASSUME member \in DOMAIN Brokers, member \notin Reliable, NEW p \in {O.bad, O.fail}
    PROVE  Tells(p, FALSE)
<1> USE DEF Reported, Done, Tells
<1>0. p \in {Reported, Done, <<"err", "eh", "drop">>} \/ (p = <<"eh">> /\ member \in Untold)
  BY DEF O, Brokers, Outcome, Reliable, Untold, NatsOutcome, KafkaOutcome, RabbitOutcome,
     MqttOutcome, NsqOutcome, RedisPubSubOutcome, RedisStreamOutcome
<1>1. CASE p = Reported
  BY <1>1
<1>2. CASE p = Done
  BY <1>2
<1>3. CASE p = <<"err", "eh", "drop">>
  BY <1>3
<1>4. CASE p = <<"eh">> /\ member \in Untold
  BY <1>4
<1> QED BY <1>0, <1>1, <1>2, <1>3, <1>4, Zenon

-----------------------------------------------------------------------------
(* Programs, at their beginning and one step later.                        *)

\* A callback's program: the steps after its message, and "end".
LEMMA AppendEnd ==
    ASSUME NEW p \in Seq(Calls), ~Has(p, "end"), NEW q, q = Append(p, "end")
    PROVE  /\ q \in Seq(Calls) /\ q # <<>> /\ Ends(q)
           /\ \A s \in Calls \ {"end"} : Has(q, s) <=> Has(p, s)
           /\ Tells(p, FALSE) => Tells(q, FALSE)
<1>1. "end" \in Calls
  BY Zenon DEF Calls
<1>2. q \in Seq(Calls) /\ Len(q) = Len(p) + 1 /\ Len(p) \in Nat /\ q[Len(p) + 1] = "end"
  BY <1>1
<1>3. \A i \in 1..Len(p) : q[i] = p[i]
  BY <1>1
<1>4. q # <<>>
  BY <1>2
<1>5. Ends(q)
  BY <1>2, <1>3 DEF Ends, Has
<1>6. ASSUME NEW s \in Calls \ {"end"} PROVE Has(q, s) <=> Has(p, s)
  BY <1>2, <1>3 DEF Has
<1>7. ASSUME Tells(p, FALSE) PROVE Tells(q, FALSE)
  <2>1. PICK i \in 1..Len(p) :
            /\ p[i] = "eh"
            /\ member \in Untold \/ \E j \in 1..(i - 1) : p[j] = "err"
            /\ \A k \in 1..i : p[k] \notin {"ack", "drop"}
    BY <1>7, Zenon DEF Tells
  <2>2. i \in 1..Len(q) /\ q[i] = "eh" /\ \A k \in 1..i : q[k] \notin {"ack", "drop"}
    BY <1>2, <1>3, <2>1
  <2>3. member \in Untold \/ \E j \in 1..(i - 1) : q[j] = "err"
    BY <1>2, <1>3, <2>1
  <2> QED BY <2>2, <2>3, Zenon DEF Tells
<1> QED BY <1>2, <1>4, <1>5, <1>6, <1>7, Zenon

\* What is left of a program after one step.
LEMMA TailOfProgram ==
    ASSUME NEW q \in Seq(Calls), q # <<>>, Ends(q), Head(q) # "end"
    PROVE  /\ Tail(q) \in Seq(Calls) /\ Tail(q) # <<>> /\ Ends(Tail(q))
           /\ \A s \in Calls : Has(Tail(q), s) => Has(q, s)
           /\ \A s \in Calls : Has(q, s) /\ Head(q) # s => Has(Tail(q), s)
<1>1. Tail(q) \in Seq(Calls) /\ Len(Tail(q)) = Len(q) - 1 /\ Len(q) \in Nat /\ Head(q) = q[1]
  OBVIOUS
<1>2. \A i \in 1..(Len(q) - 1) : Tail(q)[i] = q[i + 1]
  OBVIOUS
<1>3. Len(q) > 1
  BY <1>1 DEF Ends
<1>4. Tail(q) # <<>>
  <2>1. Len(Tail(q)) # 0
    BY <1>1, <1>3
  <2>2. Len(<<>>) = 0
    BY Zenon
  <2> HIDE <1>1
  <2> QED BY <2>1, <2>2, Zenon
<1>5. Ends(Tail(q))
  BY <1>1, <1>2, <1>3 DEF Ends
<1>6. ASSUME NEW s \in Calls, Has(Tail(q), s) PROVE Has(q, s)
  BY <1>1, <1>2, <1>6 DEF Has
<1>7. ASSUME NEW s \in Calls, Has(q, s), Head(q) # s PROVE Has(Tail(q), s)
  <2>1. PICK i \in 1..Len(q) : q[i] = s
    BY <1>7, Zenon DEF Has
  <2>2. i - 1 \in 1..Len(Tail(q)) /\ Tail(q)[i - 1] = s
    BY <1>1, <1>2, <1>7, <2>1
  <2> QED BY <2>2, Zenon DEF Has
<1> QED BY <1>1, <1>4, <1>5, <1>6, <1>7, Zenon

\* A callback that has still to call the ErrorHandler: after a step it still has
\* to, unless the step was that call; and it is not about to settle anything.
LEMMA TailTells ==
    ASSUME NEW q \in Seq(Calls), q # <<>>, NEW e \in BOOLEAN, Tells(q, e)
    PROVE  /\ Head(q) \notin {"ack", "drop"}
           /\ Head(q) = "err" => Tells(Tail(q), TRUE)
           /\ Head(q) = "eh" => e \/ member \in Untold \/ Tells(Tail(q), e)
           /\ Head(q) \notin {"err", "eh"} => Tells(Tail(q), e)
<1>1. Tail(q) \in Seq(Calls) /\ Len(Tail(q)) = Len(q) - 1 /\ Len(q) \in Nat /\ Head(q) = q[1]
  OBVIOUS
<1>2. \A i \in 1..(Len(q) - 1) : Tail(q)[i] = q[i + 1]
  OBVIOUS
<1>3. PICK i \in 1..Len(q) :
          /\ q[i] = "eh"
          /\ e \/ member \in Untold \/ \E j \in 1..(i - 1) : q[j] = "err"
          /\ \A k \in 1..i : q[k] \notin {"ack", "drop"}
  BY Zenon DEF Tells
<1>4. Head(q) \notin {"ack", "drop"}
  BY <1>1, <1>3
<1>5. ASSUME i > 1
      PROVE  /\ i - 1 \in 1..Len(Tail(q)) /\ Tail(q)[i - 1] = "eh"
             /\ \A k \in 1..(i - 1) : Tail(q)[k] \notin {"ack", "drop"}
  BY <1>1, <1>2, <1>3, <1>5
<1>6. ASSUME Head(q) = "err" PROVE Tells(Tail(q), TRUE)
  <2>1. i > 1
    BY <1>1, <1>3, <1>6
  <2> QED BY <1>5, <2>1, Zenon DEF Tells
<1>7. ASSUME Head(q) # "err", i > 1 PROVE Tells(Tail(q), e)
  <2>1. e \/ member \in Untold \/ \E j \in 1..((i - 1) - 1) : Tail(q)[j] = "err"
    <3>1. ASSUME NEW j \in 1..(i - 1), q[j] = "err"
          PROVE  j - 1 \in 1..((i - 1) - 1) /\ Tail(q)[j - 1] = "err"
      BY <1>1, <1>2, <1>3, <1>7, <3>1
    <3> QED BY <1>3, <3>1, Zenon
  <2> QED BY <1>5, <1>7, <2>1, Zenon DEF Tells
<1>8. i = 1 => e \/ member \in Untold
  BY <1>3
<1>9. i = 1 => Head(q) = "eh"
  BY <1>1, <1>3, Zenon
<1>10. i = 1 \/ i > 1
  BY <1>1, <1>3
<1>11. Head(q) = "eh" => e \/ member \in Untold \/ Tells(Tail(q), e)
  BY <1>7, <1>8, <1>10, Zenon
<1>12. Head(q) \notin {"err", "eh"} => Tells(Tail(q), e)
  BY <1>7, <1>9, <1>10, Zenon
<1> QED BY <1>4, <1>6, <1>11, <1>12, Zenon

-----------------------------------------------------------------------------
(* Sequences of messages, and the broker at hand.                          *)

\* The messages of a batch, of a batch with one more, and without its first.
LEMMA RangeOfSequence ==
    ASSUME NEW S, NEW s \in Seq(S)
    PROVE  /\ Range(s) = {s[i] : i \in 1..Len(s)} /\ Range(s) \subseteq S
           /\ \A x \in S : Range(Append(s, x)) = Range(s) \cup {x}
           /\ s # <<>> => Head(s) \in S /\ Tail(s) \in Seq(S)
                          /\ Range(s) = {Head(s)} \cup Range(Tail(s))
<1>0. \A t \in Seq(S) : Range(t) = {t[i] : i \in 1..Len(t)}
  BY DEF Range
<1>1. \A t \in Seq(S) : \A y : y \in Range(t) <=> \E i \in 1..Len(t) : y = t[i]
  BY <1>0, Zenon
<1>2. Range(s) \subseteq S
  BY <1>1
<1>3. ASSUME NEW x \in S PROVE Range(Append(s, x)) = Range(s) \cup {x}
  <2>1. Append(s, x) \in Seq(S) /\ Len(Append(s, x)) = Len(s) + 1 /\ Len(s) \in Nat
    OBVIOUS
  <2>2. \A i \in 1..(Len(s) + 1) : Append(s, x)[i] = IF i = Len(s) + 1 THEN x ELSE s[i]
    OBVIOUS
  <2> HIDE <1>0
  <2> DEFINE t == Append(s, x)
  <2>3. t[Len(s) + 1] = x /\ \A i \in 1..Len(s) : t[i] = s[i]
    BY <2>1, <2>2
  <2>4. t \in Seq(S) /\ Len(t) = Len(s) + 1 /\ Len(s) \in Nat
    BY <2>1, Zenon
  <2> HIDE DEF t
  <2>5. ASSUME NEW y \in Range(t) PROVE y \in Range(s) \cup {x}
    <3>1. PICK i \in 1..(Len(s) + 1) : y = t[i]
      BY <1>1, <2>4, Zenon
    <3>2. CASE i = Len(s) + 1
      BY <2>3, <3>1, <3>2, Zenon
    <3>3. CASE i \in 1..Len(s)
      BY <1>1, <2>3, <3>1, <3>3, Zenon
    <3> QED BY <2>4, <3>1, <3>2, <3>3
  <2>6. ASSUME NEW y \in Range(s) PROVE y \in Range(t)
    BY <1>1, <2>3, <2>4
  <2>7. x \in Range(t)
    BY <1>1, <2>3, <2>4
  <2>8. Range(t) = Range(s) \cup {x}
    BY <2>5, <2>6, <2>7, Zenon
  <2> QED BY <2>8, Zenon DEF t
<1>4. ASSUME s # <<>>
      PROVE  Head(s) \in S /\ Tail(s) \in Seq(S) /\ Range(s) = {Head(s)} \cup Range(Tail(s))
  <2>1. /\ Tail(s) \in Seq(S) /\ Len(Tail(s)) = Len(s) - 1 /\ Len(s) \in Nat /\ Len(s) > 0
        /\ Head(s) = s[1] /\ Head(s) \in S
    BY <1>4
  <2>2. \A i \in 1..(Len(s) - 1) : Tail(s)[i] = s[i + 1]
    BY <1>4
  <2>3. \A i \in 1..Len(s) : i = 1 \/ (i - 1 \in 1..Len(Tail(s)) /\ Tail(s)[i - 1] = s[i])
    BY <2>1, <2>2
  <2>4. \A i \in 1..Len(Tail(s)) : i + 1 \in 1..Len(s) /\ Tail(s)[i] = s[i + 1]
    BY <2>1, <2>2
  <2> DEFINE t == Tail(s)
  <2>5. ASSUME NEW y \in Range(s) PROVE y = Head(s) \/ y \in Range(t)
    <3>1. PICK i \in 1..Len(s) : y = s[i]
      BY <1>1, Zenon
    <3> QED BY <1>1, <2>1, <2>3, <3>1, Zenon
  <2>6. ASSUME NEW y \in Range(t) PROVE y \in Range(s)
    <3>1. PICK i \in 1..Len(t) : y = t[i]
      BY <1>1, <2>1, Zenon
    <3> QED BY <1>1, <2>4, <3>1, Zenon
  <2>7. Head(s) \in Range(s)
    BY <1>1, <2>1
  <2>8. Range(s) = {Head(s)} \cup Range(t)
    BY <2>5, <2>6, <2>7, Zenon
  <2> QED BY <2>1, <2>8, Zenon
<1> QED BY <1>0, <1>2, <1>3, <1>4, Zenon

\* The facts of ReceivesAs, for the broker of the behaviour.
LEMMA TheBroker ==
    ASSUME TypeOK
    PROVE  /\ member \in DOMAIN Brokers
           /\ R.server \in {"once", "single", "offset", "batch"}
           /\ R.workers \in {1, 2}
           /\ R.server \in {"offset", "batch"} => R.workers = 1
           /\ R.server = "offset" <=> member = "kafka"
           /\ R.server = "batch" <=> member = "rocketv2"
           /\ R.server = "once" <=> member \in Unacknowledged
           /\ member = "kafka" => member \notin Reliable
           /\ member \in Unacknowledged => member \notin Reliable
           /\ member = "rocketv2" => member \in Reliable
<1>1. member \in DOMAIN Brokers
  BY DeliveryAssumption, Zenon DEF TypeOK
<1> QED BY <1>1, ReceivesAs, Zenon DEF R, Reliable, Unacknowledged

\* A message that is accounted for stays so.
LEMMA AccountedStays ==
    ASSUME member' = member, handled \subseteq handled', told \subseteq told',
           NEW m, Accounted(m)
    PROVE  Accounted(m)'
  BY Zenon DEF Accounted, Told

\* A callback about to return has nothing else to do.
LEMMA EndIsLast ==
    ASSUME NEW q \in Seq(Calls), q # <<>>, Ends(q), Head(q) = "end", NEW e \in BOOLEAN
    PROVE  ~Has(q, "fault") /\ ~Tells(q, e)
<1>1. Len(q) \in Nat /\ Len(q) > 0 /\ q[1] = "end"
  OBVIOUS
<1>2. ASSUME Len(q) # 1 PROVE FALSE
  <2>0. \A n \in Nat : n > 0 /\ n # 1 => 1 \in 1..(n - 1)
    OBVIOUS
  <2>1. 1 \in 1..(Len(q) - 1)
    BY <1>1, <1>2, <2>0, Zenon
  <2> QED BY <1>1, <2>1, Zenon DEF Ends
<1> QED BY <1>1, <1>2 DEF Has, Tells

-----------------------------------------------------------------------------
(* One call of a callback: what every such step preserves.                 *)

Moves(w, e) ==
    /\ w \in Workers /\ e \in BOOLEAN
    /\ work[w].prog # <<>> /\ Head(work[w].prog) # "end"
    /\ work' = [work EXCEPT ![w] = [msg |-> work[w].msg, prog |-> Tail(work[w].prog), err |-> e]]
    /\ UNCHANGED <<member, batch, taken, handled>>

\* A step of a callback changes that callback alone.
LEMMA MoveIsLocal ==
    ASSUME TypeOK, Programs, NEW w, NEW e, Moves(w, e)
    PROVE  /\ work' \in [Workers -> [msg : Nat, prog : Seq(Calls), err : BOOLEAN]]
           /\ work'[w].msg = work[w].msg /\ work'[w].prog = Tail(work[w].prog)
           /\ work'[w].err = e /\ \A v \in Workers : v # w => work'[v] = work[v]
           /\ work'[w].prog # <<>> /\ Ends(work'[w].prog)
           /\ \A s \in Calls : Has(work'[w].prog, s) => Has(work[w].prog, s)
           /\ \A s \in Calls : Has(work[w].prog, s) /\ Head(work[w].prog) # s
                                   => Has(work'[w].prog, s)
           /\ R' = R
<1>0. /\ w \in Workers /\ e \in BOOLEAN /\ work[w].prog # <<>> /\ Head(work[w].prog) # "end"
      /\ work' = [work EXCEPT ![w] = [msg |-> work[w].msg, prog |-> Tail(work[w].prog),
                                      err |-> e]]
      /\ member' = member
  BY Zenon DEF Moves
<1>1. work[w].prog \in Seq(Calls) /\ work[w].msg \in Nat
  BY <1>0, Zenon DEF TypeOK
<1>2. Ends(work[w].prog)
  BY <1>0, Zenon DEF Programs
<1>3. /\ Tail(work[w].prog) \in Seq(Calls) /\ Tail(work[w].prog) # <<>>
      /\ Ends(Tail(work[w].prog))
      /\ \A s \in Calls : Has(Tail(work[w].prog), s) => Has(work[w].prog, s)
      /\ \A s \in Calls : Has(work[w].prog, s) /\ Head(work[w].prog) # s
                              => Has(Tail(work[w].prog), s)
  BY <1>0, <1>1, <1>2, TailOfProgram, Zenon
<1>4. work \in [Workers -> [msg : Nat, prog : Seq(Calls), err : BOOLEAN]]
  BY Zenon DEF TypeOK
<1>5. /\ work'[w].msg = work[w].msg /\ work'[w].prog = Tail(work[w].prog)
      /\ work'[w].err = e /\ \A v \in Workers : v # w => work'[v] = work[v]
  BY <1>0, <1>4, Zenon
<1>6. [msg |-> work[w].msg, prog |-> Tail(work[w].prog), err |-> e]
          \in [msg : Nat, prog : Seq(Calls), err : BOOLEAN]
  BY <1>0, <1>1, <1>3, Zenon
<1>7. work' \in [Workers -> [msg : Nat, prog : Seq(Calls), err : BOOLEAN]]
  BY <1>0, <1>4, <1>6, Zenon
<1>8. R' = R
  BY <1>0, Zenon DEF R
<1> QED BY <1>3, <1>5, <1>7, <1>8, Zenon

\* It leaves the callbacks well formed.
LEMMA MovePrograms ==
    ASSUME TypeOK, Programs, NEW w, NEW e, Moves(w, e)
    PROVE  Programs' /\ Inside' = Inside
<1>1. w \in Workers /\ UNCHANGED <<taken, batch>> /\ work[w].prog # <<>>
  BY Zenon DEF Moves
<1>2. /\ work'[w].msg = work[w].msg /\ \A v \in Workers : v # w => work'[v] = work[v]
      /\ work'[w].prog # <<>> /\ Ends(work'[w].prog) /\ R' = R
  BY MoveIsLocal, Zenon
<1>3. Programs'
  <2> SUFFICES ASSUME NEW v \in Workers
               PROVE  /\ work'[v].prog = <<>> => work'[v] = Idle
                      /\ work'[v].prog # <<>> =>
                            v <= R.workers /\ work'[v].msg \in Msgs /\ Ends(work'[v].prog)
    BY <1>2, Zenon DEF Programs, Idle, Msgs
  <2>1. CASE v = w
    BY <1>1, <1>2, <2>1, Zenon DEF Programs
  <2>2. CASE v # w
    BY <1>2, <2>2, Zenon DEF Programs
  <2> QED BY <2>1, <2>2, Zenon
<1>4. \A v \in Workers : work'[v].msg = work[v].msg
  BY <1>2, Zenon
<1>5. {work'[v].msg : v \in Workers} = {work[v].msg : v \in Workers}
  BY <1>4, Zenon
<1> QED BY <1>1, <1>3, <1>5, Zenon DEF Inside

\* It settles, and will settle, only what was handled, where the broker is reliable.
LEMMA MoveAcks ==
    ASSUME TypeOK, Programs, AcksAccepted, NEW w, NEW e, Moves(w, e), member \in Reliable
    PROVE  /\ \A v \in Workers : Settles(work'[v].prog) => work'[v].msg \in handled'
           /\ Head(work[w].prog) \in {"ack", "drop"} => work[w].msg \in handled
<1>1. w \in Workers /\ handled' = handled /\ work[w].prog # <<>>
  BY Zenon DEF Moves
<1>2. /\ work'[w].msg = work[w].msg /\ \A v \in Workers : v # w => work'[v] = work[v]
      /\ \A s \in Calls : Has(work'[w].prog, s) => Has(work[w].prog, s)
  BY MoveIsLocal, Zenon
<1>3. Settles(work'[w].prog) => Settles(work[w].prog)
  BY <1>2, Zenon DEF Settles, Calls
<1>4. \A v \in Workers : Settles(work[v].prog) => work[v].msg \in handled
  BY Zenon DEF AcksAccepted
<1>5. work[w].prog \in Seq(Calls)
  BY <1>1, Zenon DEF TypeOK
<1>6. Head(work[w].prog) \in {"ack", "drop"} => Settles(work[w].prog)
  BY <1>1, <1>5 DEF Settles, Has
<1> QED BY <1>1, <1>2, <1>3, <1>4, <1>6, Zenon

\* Every message of a batch is still owed, accepted or a fault of the call.
LEMMA MoveBatch ==
    ASSUME TypeOK, Programs, BatchOwed, NEW w, NEW e, Moves(w, e),
           fault => fault', Head(work[w].prog) = "fault" => fault'
    PROVE  BatchOwed'
<1>1. w \in Workers /\ UNCHANGED <<batch, taken, handled>>
  BY Zenon DEF Moves
<1>2. /\ work'[w].msg = work[w].msg /\ \A v \in Workers : v # w => work'[v] = work[v]
      /\ \A s \in Calls : Has(work[w].prog, s) /\ Head(work[w].prog) # s
                              => Has(work'[w].prog, s)
      /\ R' = R
  BY MoveIsLocal, Zenon
<1>3. "fault" \in Calls
  BY Zenon DEF Calls
<1>4. SUFFICES ASSUME R.server = "batch", NEW i \in 1..Len(batch), ~fault',
                      batch[i] \notin handled, batch[i] \notin Range(taken)
               PROVE  \E v \in Workers : work'[v].msg = batch[i] /\ Has(work'[v].prog, "fault")
  BY <1>1, <1>2, Zenon DEF BatchOwed
<1>5. PICK v \in Workers : work[v].msg = batch[i] /\ Has(work[v].prog, "fault")
  BY <1>4, Zenon DEF BatchOwed
<1>6. CASE v = w
  BY <1>2, <1>3, <1>4, <1>5, <1>6, Zenon
<1>7. CASE v # w
  BY <1>2, <1>5, <1>7, Zenon
<1> QED BY <1>6, <1>7, Zenon

\* What will be settled unhandled is reported first.
LEMMA MoveReports ==
    ASSUME TypeOK, Programs, ReportsFirst, NEW w, NEW e, Moves(w, e), told \subseteq told',
           e = (IF Head(work[w].prog) = "err" THEN TRUE ELSE work[w].err),
           Head(work[w].prog) = "eh" => [msg |-> work[w].msg, err |-> work[w].err] \in told'
    PROVE  /\ ReportsFirst'
           /\ member \notin Reliable /\ Head(work[w].prog) \in {"ack", "drop"}
                  => Accounted(work[w].msg)
<1>1. w \in Workers /\ member' = member /\ handled' = handled /\ work[w].prog # <<>>
  BY Zenon DEF Moves
<1>2. /\ work'[w].msg = work[w].msg /\ \A v \in Workers : v # w => work'[v] = work[v]
      /\ work'[w].prog = Tail(work[w].prog) /\ work'[w].err = e
  BY MoveIsLocal, Zenon
<1>3. work[w].prog \in Seq(Calls) /\ work[w].err \in BOOLEAN
  BY <1>1, Zenon DEF TypeOK
<1>4. ASSUME Tells(work[w].prog, work[w].err)
      PROVE  /\ Head(work[w].prog) \notin {"ack", "drop"}
             /\ Accounted(work[w].msg)' \/ Tells(work'[w].prog, work'[w].err)
  <2>1. /\ Head(work[w].prog) \notin {"ack", "drop"}
        /\ Head(work[w].prog) = "err" => Tells(Tail(work[w].prog), TRUE)
        /\ Head(work[w].prog) = "eh" =>
               work[w].err \/ member \in Untold \/ Tells(Tail(work[w].prog), work[w].err)
        /\ Head(work[w].prog) \notin {"err", "eh"} => Tells(Tail(work[w].prog), work[w].err)
    BY <1>1, <1>3, <1>4, TailTells, Zenon
  <2>2. CASE Head(work[w].prog) = "err"
    BY <1>2, <2>1, <2>2, Zenon
  <2>3. CASE Head(work[w].prog) = "eh"
    <3>1. ASSUME work[w].err \/ member \in Untold PROVE Accounted(work[w].msg)'
      <4>1. PICK x \in told' : x = [msg |-> work[w].msg, err |-> work[w].err]
        BY <2>3, Zenon
      <4>2. work'[w].msg = work[w].msg /\ x.msg = work[w].msg /\ x.err = work[w].err
        BY <1>2, <4>1, Zenon
      <4> QED BY <1>1, <3>1, <4>2, Zenon DEF Accounted, Told
    <3> QED BY <1>2, <2>1, <2>3, <3>1, Zenon
  <2>4. CASE Head(work[w].prog) \notin {"err", "eh"}
    BY <1>2, <2>1, <2>4, Zenon
  <2> QED BY <2>1, <2>2, <2>3, <2>4, Zenon
<1>5. \A v \in Workers : member \notin Reliable /\ work[v].prog # <<>> =>
          Accounted(work[v].msg) \/ Tells(work[v].prog, work[v].err)
  BY Zenon DEF ReportsFirst
<1>6. \A m : Accounted(m) => Accounted(m)'
  BY <1>1, AccountedStays, Zenon
<1>7. ASSUME member \notin Reliable, NEW v \in Workers, work'[v].prog # <<>>
      PROVE  Accounted(work[v].msg)' \/ Tells(work'[v].prog, work'[v].err)
  <2>1. CASE v = w
    BY <1>1, <1>2, <1>4, <1>5, <1>6, <1>7, <2>1, Zenon
  <2>2. CASE v # w
    <3>1. work'[v] = work[v]
      BY <1>2, <2>2, Zenon
    <3>2. Accounted(work[v].msg) \/ Tells(work[v].prog, work[v].err)
      BY <1>5, <1>7, <3>1, Zenon
    <3> QED BY <1>6, <3>1, <3>2, Zenon
  <2> QED BY <2>1, <2>2, Zenon
<1>8. ReportsFirst'
  <2>1. \A v \in Workers : Tells(work'[v].prog, work'[v].err) = Tells(work[v].prog, work[v].err)'
    BY <1>1, Zenon DEF Tells
  <2> QED BY <1>1, <1>7, <2>1, Zenon DEF ReportsFirst
<1> QED BY <1>1, <1>4, <1>5, <1>8, Zenon

\* Offsets stay handled in order.
LEMMA MoveOrder ==
    ASSUME TypeOK, Programs, InOrder, NEW w, NEW e, Moves(w, e), told \subseteq told',
           queue' \subseteq queue, \A m \in queue \ queue' : Accounted(m)
    PROVE  InOrder'
<1>1. /\ w \in Workers /\ UNCHANGED <<member, batch, taken, handled>>
      /\ work[w].prog # <<>>
  BY Zenon DEF Moves
<1>2. /\ work'[w].msg = work[w].msg /\ \A v \in Workers : v # w => work'[v] = work[v]
      /\ \A s \in Calls : Has(work'[w].prog, s) => Has(work[w].prog, s)
      /\ R' = R
  BY MoveIsLocal, Zenon
<1>3. Inside' = Inside
  BY MovePrograms, Zenon
<1>4. \A m : Accounted(m) => Accounted(m)'
  BY <1>1, AccountedStays, Zenon
<1>5. "nack" \in Calls
  BY Zenon DEF Calls
<1>6. SUFFICES ASSUME R.server = "offset" PROVE InOrder'
  BY <1>2, Zenon DEF InOrder
<1>7. ASSUME NEW v \in Workers, work'[v].prog # <<>>
      PROVE  /\ \A i \in 1..Len(taken) : work'[v].msg < taken[i]
             /\ \A q \in queue' : work'[v].msg < q
             /\ ~Has(work'[v].prog, "nack")
  <2>1. CASE v = w
    BY <1>1, <1>2, <1>5, <1>6, <2>1, Zenon DEF InOrder
  <2>2. CASE v # w
    BY <1>2, <1>6, <1>7, <2>2, Zenon DEF InOrder
  <2> QED BY <2>1, <2>2, Zenon
<1>8. \A m \in Msgs : m \in queue' \/ m \in Inside' \/ Accounted(m)'
  BY <1>3, <1>4, <1>6, Zenon DEF InOrder
<1>9. /\ batch = <<>>
      /\ \A i, j \in 1..Len(taken) : i < j => taken[i] < taken[j]
      /\ \A i \in 1..Len(taken) : \A q \in queue' : taken[i] < q
  BY <1>6, Zenon DEF InOrder
<1> QED BY <1>1, <1>7, <1>8, <1>9, Zenon DEF InOrder, Msgs

\* Records with one field changed.
LEMMA RecordAfter ==
    ASSUME NEW r \in [msg : Nat, prog : Seq(Calls), err : BOOLEAN], NEW p, NEW d
    PROVE  /\ [r EXCEPT !.prog = p] = [msg |-> r.msg, prog |-> p, err |-> r.err]
           /\ [[r EXCEPT !.prog = p] EXCEPT !.err = d] = [msg |-> r.msg, prog |-> p, err |-> d]
<1>1. [r EXCEPT !.prog = p] = [msg |-> r.msg, prog |-> p, err |-> r.err]
  OBVIOUS
<1>2. \A x, a, b, c : x = [msg |-> a, prog |-> b, err |-> c] =>
          [x EXCEPT !.err = d] = [msg |-> a, prog |-> b, err |-> d]
  OBVIOUS
<1> DEFINE y == [r EXCEPT !.prog = p]
<1>3. y = [msg |-> r.msg, prog |-> p, err |-> r.err]
  BY <1>1, Zenon
<1> HIDE DEF y
<1>4. [y EXCEPT !.err = d] = [msg |-> r.msg, prog |-> p, err |-> d]
  BY <1>2, <1>3
<1> QED BY <1>1, <1>4, Zenon DEF y

\* Every step of a callback is such a step.
LEMMA StepMoves ==
    ASSUME TypeOK, NEW w \in Workers,
           StoreError(w) \/ ErrorHandler(w) \/ Ack(w) \/ AckFails(w) \/ AckWithoutId(w)
               \/ Nack(w) \/ Drop(w) \/ Fault(w)
    PROVE  Moves(w, IF Head(work[w].prog) = "err" THEN TRUE ELSE work[w].err)
<1>1. /\ work[w] \in [msg : Nat, prog : Seq(Calls), err : BOOLEAN]
      /\ work \in [Workers -> [msg : Nat, prog : Seq(Calls), err : BOOLEAN]]
  BY Zenon DEF TypeOK
<1>2. Rest(w) = [msg |-> work[w].msg, prog |-> Tail(work[w].prog), err |-> work[w].err]
  BY <1>1, RecordAfter, Zenon DEF Rest
<1>3. CASE StoreError(w)
  <2>1. [Rest(w) EXCEPT !.err = TRUE]
            = [msg |-> work[w].msg, prog |-> Tail(work[w].prog), err |-> TRUE]
    BY <1>1, RecordAfter, ZenonT(30) DEF Rest
  <2> QED BY <1>3, <2>1, Zenon DEF StoreError, At, Moves
<1>4. CASE ErrorHandler(w) \/ Ack(w) \/ AckFails(w) \/ AckWithoutId(w)
           \/ Nack(w) \/ Drop(w) \/ Fault(w)
  BY <1>1, <1>2, <1>4, Zenon DEF ErrorHandler, Ack, AckFails, AckWithoutId, Nack, Drop, Fault, At,
     Proceed, Moves
<1> QED BY <1>3, <1>4, Zenon

\* The steps that leave the server alone.
LEMMA QuietStep ==
    ASSUME DeliveryInv, NEW w \in Workers,
           StoreError(w) \/ ErrorHandler(w) \/ AckFails(w) \/ AckWithoutId(w) \/ Fault(w)
    PROVE  DeliveryInv'
<1> DEFINE e == IF Head(work[w].prog) = "err" THEN TRUE ELSE work[w].err
<1> USE DEF DeliveryInv
<1>1. Moves(w, e)
  BY StepMoves, Zenon
<1>2. /\ UNCHANGED <<member, queue, settled, batch, taken, handled, crashes>>
      /\ told \subseteq told' /\ fails' \in {fails, fails + 1}
      /\ (fault' = fault /\ Head(work[w].prog) # "fault") \/ fault'
  BY Zenon DEF StoreError, ErrorHandler, AckFails, AckWithoutId, Fault, At
<1>3. \/ told' = told /\ Head(work[w].prog) # "eh"
      \/ told' = told \cup {[msg |-> work[w].msg, err |-> work[w].err]}
  BY Zenon DEF StoreError, ErrorHandler, AckFails, AckWithoutId, Fault, At
<1>4. work[w].msg \in Nat /\ work[w].err \in BOOLEAN
  BY Zenon DEF TypeOK
<1>5. Head(work[w].prog) = "eh" => [msg |-> work[w].msg, err |-> work[w].err] \in told'
  BY <1>3, Zenon
<1>6. work' \in [Workers -> [msg : Nat, prog : Seq(Calls), err : BOOLEAN]]
  BY <1>1, MoveIsLocal, Zenon
<1>7. \A x \in told' : x \in [msg : Nat, err : BOOLEAN]
  BY <1>3, <1>4 DEF TypeOK
<1>8. TypeOK'
  <2>1. fails' \in Nat
    BY <1>2 DEF TypeOK
  <2>2. fault' \in BOOLEAN
    BY Zenon DEF StoreError, ErrorHandler, AckFails, AckWithoutId, Fault, TypeOK
  <2> QED BY <1>2, <1>6, <1>7, <2>1, <2>2, Zenon DEF TypeOK, Msgs
<1>9. Programs' /\ Inside' = Inside
  BY <1>1, MovePrograms, Zenon
<1>10. AcksAccepted'
  BY <1>1, <1>2, MoveAcks, Zenon DEF AcksAccepted
<1>11. BatchOwed'
  <2>1. (fault => fault') /\ (Head(work[w].prog) = "fault" => fault')
    BY <1>2
  <2> QED BY <1>1, <2>1, MoveBatch, Zenon
<1>12. ReportsFirst'
  BY <1>1, <1>2, <1>5, MoveReports, Zenon
<1>13. \A m : Accounted(m) => Accounted(m)'
  BY <1>2, AccountedStays, Zenon
<1>14. SettledKnown'
  BY <1>2, <1>9, <1>13, Zenon DEF SettledKnown, R
<1>15. InOrder'
  BY <1>1, <1>2, MoveOrder, Zenon
<1> QED BY <1>8, <1>9, <1>10, <1>11, <1>12, <1>14, <1>15, Zenon

\* Ack and Drop.
LEMMA SettlingStep ==
    ASSUME DeliveryInv, NEW w \in Workers, Ack(w) \/ Drop(w)
    PROVE  DeliveryInv'
<1> DEFINE e == IF Head(work[w].prog) = "err" THEN TRUE ELSE work[w].err
<1> DEFINE m == work[w].msg
<1> DEFINE s == IF R.server = "offset" THEN 1..m ELSE {m}
<1> USE DEF DeliveryInv
<1>1. Moves(w, e)
  BY StepMoves, Zenon
<1>2. /\ UNCHANGED <<member, batch, fault, taken, handled, told, fails, crashes>>
      /\ settled' = settled \cup s /\ queue' = queue \ s
      /\ Head(work[w].prog) \in {"ack", "drop"} /\ work[w].prog # <<>>
  BY Zenon DEF Ack, Drop, At, Settle
<1>3. m \in Msgs /\ m \in Nat
  BY <1>2 DEF Programs, Msgs
<1>4. s \subseteq Msgs
  BY <1>3, DeliveryAssumption DEF Msgs
<1>5. work' \in [Workers -> [msg : Nat, prog : Seq(Calls), err : BOOLEAN]]
  BY <1>1, MoveIsLocal, Zenon
<1>6. TypeOK'
  BY <1>2, <1>4, <1>5, Zenon DEF TypeOK, Msgs
<1>7. Programs' /\ Inside' = Inside
  BY <1>1, MovePrograms, Zenon
<1>8. AcksAccepted'
  <2>1. member \in Reliable => s = {m} /\ m \in handled
    BY <1>1, <1>2, MoveAcks, TheBroker, Zenon
  <2> QED BY <1>1, <1>2, <2>1, MoveAcks, Zenon DEF AcksAccepted
<1>9. BatchOwed'
  BY <1>1, <1>2, MoveBatch, Zenon
<1>10. ReportsFirst' /\ (member \notin Reliable => Accounted(m))
  BY <1>1, <1>2, MoveReports, Zenon
<1>11. ASSUME member \notin Reliable, NEW k \in s PROVE Accounted(k)
  <2>1. CASE R.server # "offset"
    BY <1>10, <1>11, <2>1, Zenon
  <2>2. CASE R.server = "offset"
    <3>1. k \in Msgs /\ k <= m /\ k \in Nat /\ k # 0
      BY <1>3, <1>4, <1>11, <2>2 DEF Msgs
    <3>2. k \notin queue
      BY <1>2, <1>3, <2>2, <3>1 DEF InOrder, TypeOK, Msgs
    <3>3. k \notin Range(taken)
      <4>1. \A i \in 1..Len(taken) : m < taken[i] /\ taken[i] \in Nat
        <5>1. \A i \in 1..Len(taken) : taken[i] \in Msgs
          BY DEF TypeOK
        <5> QED BY <1>2, <2>2, <5>1 DEF InOrder, Msgs
      <4>2. Range(taken) = {taken[i] : i \in 1..Len(taken)}
        BY RangeOfSequence, Zenon DEF TypeOK
      <4> QED BY <1>3, <3>1, <4>1, <4>2
    <3>4. k \notin Range(batch)
      BY <2>2 DEF InOrder, Range
    <3>5. ASSUME NEW v \in Workers, work[v].msg = k PROVE v = w
      <4>1. work[v].prog # <<>>
        BY <3>1, <3>5 DEF Programs, Idle
      <4>2. v <= 1 /\ w <= 1
        BY <1>2, <2>2, <4>1, TheBroker, Zenon DEF Programs
      <4> QED BY <4>2, DeliveryAssumption
    <3>6. CASE k \in Inside
      BY <1>10, <1>11, <3>3, <3>4, <3>5, <3>6, Zenon DEF Inside
    <3>7. k \in Inside \/ Accounted(k)
      BY <2>2, <3>1, <3>2, Zenon DEF InOrder
    <3> QED BY <3>6, <3>7, Zenon
  <2> QED BY <2>1, <2>2, Zenon
<1>12. \A k : Accounted(k) => Accounted(k)'
  BY <1>2, AccountedStays, Zenon
<1>13. SettledKnown'
  BY <1>2, <1>7, <1>11, <1>12, Zenon DEF SettledKnown, R
<1>14. InOrder'
  <2>1. CASE R.server = "offset"
    <3>1. \A k \in queue \ queue' : Accounted(k)
      BY <1>2, <1>11, <2>1, TheBroker, Zenon
    <3> QED BY <1>1, <1>2, <3>1, MoveOrder, Zenon
  <2>2. CASE R.server # "offset"
    BY <1>2, <2>2, Zenon DEF InOrder, R
  <2> QED BY <2>1, <2>2, Zenon
<1> QED BY <1>6, <1>7, <1>8, <1>9, <1>10, <1>13, <1>14, Zenon

LEMMA NackStep ==
    ASSUME DeliveryInv, NEW w \in Workers, Nack(w)
    PROVE  DeliveryInv'
<1> DEFINE e == IF Head(work[w].prog) = "err" THEN TRUE ELSE work[w].err
<1> USE DEF DeliveryInv
<1>1. Moves(w, e)
  BY StepMoves, Zenon
<1>2. /\ UNCHANGED <<member, settled, batch, fault, taken, handled, told, fails, crashes>>
      /\ queue \subseteq queue' /\ queue' \subseteq queue \cup {work[w].msg}
      /\ Head(work[w].prog) = "nack" /\ work[w].prog # <<>>
  BY Zenon DEF Nack, At
<1>3. work[w].msg \in Msgs
  BY <1>2, Zenon DEF Programs
<1>4. work' \in [Workers -> [msg : Nat, prog : Seq(Calls), err : BOOLEAN]]
  BY <1>1, MoveIsLocal, Zenon
<1>5. TypeOK'
  BY <1>2, <1>3, <1>4, Zenon DEF TypeOK, Msgs
<1>6. Programs' /\ Inside' = Inside
  BY <1>1, MovePrograms, Zenon
<1>7. AcksAccepted'
  BY <1>1, <1>2, MoveAcks, Zenon DEF AcksAccepted
<1>8. BatchOwed'
  BY <1>1, <1>2, MoveBatch, Zenon
<1>9. ReportsFirst'
  BY <1>1, <1>2, MoveReports, Zenon
<1>10. \A m : Accounted(m) => Accounted(m)'
  BY <1>2, AccountedStays, Zenon
<1>11. SettledKnown'
  BY <1>2, <1>6, <1>10, Zenon DEF SettledKnown, R
<1>12. InOrder'
  <2>1. work[w].prog \in Seq(Calls)
    BY Zenon DEF TypeOK
  <2>2. Has(work[w].prog, "nack")
    BY <1>2, <2>1 DEF Has
  <2>3. R.server # "offset"
    BY <1>2, <2>2, Zenon DEF InOrder
  <2> QED BY <1>2, <2>3, Zenon DEF InOrder, R
<1> QED BY <1>5, <1>6, <1>7, <1>8, <1>9, <1>11, <1>12, Zenon

-----------------------------------------------------------------------------
(* The callback returns.                                                   *)

LEMMA EndStep ==
    ASSUME DeliveryInv, NEW w \in Workers, End(w)
    PROVE  DeliveryInv'
<1> USE DEF DeliveryInv
<1>1. /\ work[w].prog # <<>> /\ Head(work[w].prog) = "end"
      /\ work' = [work EXCEPT ![w] = Idle]
      /\ UNCHANGED <<member, taken, handled, told, fails, crashes>>
  BY Zenon DEF End, At
<1>2. work[w].prog \in Seq(Calls) /\ work[w].err \in BOOLEAN /\ Ends(work[w].prog)
  BY <1>1, Zenon DEF TypeOK, Programs
<1>3. ~Has(work[w].prog, "fault") /\ ~Tells(work[w].prog, work[w].err)
  BY <1>1, <1>2, EndIsLast, Zenon
<1>4. /\ work'[w] = Idle /\ \A v \in Workers : v # w => work'[v] = work[v]
      /\ R' = R
  BY <1>1, Zenon DEF TypeOK, R
<1>5. Idle \in [msg : Nat, prog : Seq(Calls), err : BOOLEAN]
  BY DEF Idle
<1>6. work' \in [Workers -> [msg : Nat, prog : Seq(Calls), err : BOOLEAN]]
  BY <1>1, <1>5, Zenon DEF TypeOK
<1>7. Idle.prog = <<>> /\ Idle.msg = 0
  BY Zenon DEF Idle
<1>8. ~Settles(<<>>) /\ \A s : ~Has(<<>>, s)
  BY DEF Settles, Has
<1>9. Programs'
  <2> SUFFICES ASSUME NEW v \in Workers
               PROVE  /\ work'[v].prog = <<>> => work'[v] = Idle
                      /\ work'[v].prog # <<>> =>
                            v <= R.workers /\ work'[v].msg \in Msgs /\ Ends(work'[v].prog)
    BY <1>4, Zenon DEF Programs, Idle, Msgs
  <2> QED BY <1>4, <1>7, Zenon DEF Programs
<1>10. member \notin Reliable => Accounted(work[w].msg)
  BY <1>1, <1>3, Zenon DEF ReportsFirst
<1>11. \A m : Accounted(m) => Accounted(m)'
  BY <1>1, AccountedStays, Zenon
<1>12. ASSUME R.server # "batch" PROVE UNCHANGED <<settled, queue, batch, fault>>
  BY <1>12, Zenon DEF End
<1>13. ASSUME NEW m \in Inside, UNCHANGED batch PROVE m \in Inside' \/ m = work[w].msg
  <2>1. CASE m \in Range(taken) \cup Range(batch)
    BY <1>1, <1>13, <2>1, Zenon DEF Inside
  <2>2. CASE \E v \in Workers : m = work[v].msg
    BY <1>4, <2>2, Zenon DEF Inside
  <2> QED BY <2>1, <2>2, Zenon DEF Inside
<1>14. ReportsFirst'
  <2> SUFFICES ASSUME member \notin Reliable, NEW v \in Workers, work'[v].prog # <<>>
               PROVE  Accounted(work[v].msg)' \/ Tells(work[v].prog, work[v].err)'
    BY <1>1, Zenon DEF ReportsFirst
  <2>1. v # w /\ work'[v] = work[v]
    BY <1>4, <1>7, Zenon
  <2>2. Accounted(work[v].msg) \/ Tells(work[v].prog, work[v].err)
    BY <2>1, Zenon DEF ReportsFirst
  <2>3. Tells(work[v].prog, work[v].err) => Tells(work[v].prog, work[v].err)'
    BY <1>1, <2>1, Zenon DEF Tells
  <2> QED BY <1>11, <2>1, <2>2, <2>3, Zenon
<1>15. CASE R.server = "batch"
  <2>1. member \in Reliable /\ R.workers = 1 /\ R.server # "offset"
    BY <1>15, TheBroker, Zenon
  <2>2. ASSUME taken = <<>>, ~fault, NEW i \in 1..Len(batch) PROVE batch[i] \in handled
    <3>1. batch[i] \notin Range(taken)
      BY <2>2 DEF Range
    <3>2. ASSUME NEW v \in Workers PROVE ~Has(work[v].prog, "fault")
      <4>1. CASE v = w
        BY <1>3, <4>1, Zenon
      <4>2. CASE v # w
        <5>1. work[v].prog = <<>>
          BY <1>1, <2>1, <4>2, DeliveryAssumption DEF Programs
        <5> QED BY <1>8, <5>1, Zenon
      <4> QED BY <4>1, <4>2, Zenon
    <3> QED BY <1>15, <2>2, <3>1, <3>2, Zenon DEF BatchOwed
  <2>3. Range(batch) = {batch[i] : i \in 1..Len(batch)} /\ Range(batch) \subseteq Msgs
    BY RangeOfSequence, Zenon DEF TypeOK
  <2>4. /\ settled' \subseteq settled \cup (IF taken = <<>> /\ ~fault THEN Range(batch) ELSE {})
        /\ queue' \subseteq queue \cup Range(batch)
        /\ batch' \in {batch, <<>>} /\ ((batch' = batch /\ fault' = fault) \/ batch' = <<>>)
    BY Zenon DEF End
  <2>5. AcksAccepted'
    <3>1. settled' \subseteq handled
      BY <2>1, <2>2, <2>3, <2>4 DEF AcksAccepted
    <3>2. \A v \in Workers : Settles(work'[v].prog) => work'[v].msg \in handled
      BY <1>4, <1>7, <1>8, <2>1, Zenon DEF AcksAccepted
    <3> QED BY <1>1, <3>1, <3>2, Zenon DEF AcksAccepted
  <2>6. BatchOwed'
    <3>1. CASE batch' = <<>>
      BY <3>1 DEF BatchOwed
    <3>2. CASE batch' = batch /\ fault' = fault
      <4> SUFFICES ASSUME NEW i \in 1..Len(batch), ~fault, batch[i] \notin handled,
                          batch[i] \notin Range(taken)
                   PROVE  \E v \in Workers : work'[v].msg = batch[i] /\ Has(work'[v].prog, "fault")
        BY <1>1, <1>4, <3>2 DEF BatchOwed
      <4>1. PICK v \in Workers : work[v].msg = batch[i] /\ Has(work[v].prog, "fault")
        BY <1>15, Zenon DEF BatchOwed
      <4> QED BY <1>3, <1>4, <4>1, Zenon
    <3> QED BY <2>4, <3>1, <3>2, Zenon
  <2>7. TypeOK'
    <3>1. fault' \in BOOLEAN
      BY Zenon DEF End, TypeOK
    <3>2. settled' \subseteq Msgs /\ queue' \subseteq Msgs
      BY <2>3, <2>4, Zenon DEF TypeOK
    <3>3. batch' \in Seq(Msgs)
      <4>1. <<>> \in Seq(Msgs)
        OBVIOUS
      <4> QED BY <2>4, <4>1, Zenon DEF TypeOK
    <3> QED BY <1>1, <1>6, <3>1, <3>2, <3>3, Zenon DEF TypeOK, Msgs
  <2> QED BY <1>1, <1>4, <1>9, <1>14, <2>1, <2>5, <2>6, <2>7, Zenon DEF SettledKnown, InOrder
<1>16. CASE R.server # "batch"
  <2>1. UNCHANGED <<settled, queue, batch, fault>>
    BY <1>12, <1>16, Zenon
  <2>2. TypeOK'
    BY <1>1, <1>6, <2>1, Zenon DEF TypeOK, Msgs
  <2>3. AcksAccepted'
    BY <1>1, <1>4, <1>7, <1>8, <2>1 DEF AcksAccepted
  <2>4. BatchOwed'
    BY <1>4, <1>16, Zenon DEF BatchOwed
  <2>5. SettledKnown'
    BY <1>1, <1>4, <1>10, <1>11, <1>13, <2>1, Zenon DEF SettledKnown
  <2>6. InOrder'
    <3> SUFFICES ASSUME R.server = "offset" PROVE InOrder'
      BY <1>4, Zenon DEF InOrder
    <3>1. \A m \in Msgs : m \in queue' \/ m \in Inside' \/ Accounted(m)'
      BY <1>10, <1>11, <1>13, <2>1, TheBroker, Zenon DEF InOrder
    <3>2. \A v \in Workers : work'[v].prog # <<>> => v # w /\ work'[v] = work[v]
      BY <1>4, <1>7, Zenon
    <3>3. \A v \in Workers : work'[v].prog # <<>> =>
              /\ \A i \in 1..Len(taken) : work'[v].msg < taken[i]
              /\ \A q \in queue : work'[v].msg < q
              /\ ~Has(work'[v].prog, "nack")
      BY <3>2, Zenon DEF InOrder
    <3> QED BY <1>1, <2>1, <3>1, <3>3, Zenon DEF InOrder, Msgs
  <2> QED BY <1>9, <1>14, <2>2, <2>3, <2>4, <2>5, <2>6, Zenon
<1> QED BY <1>15, <1>16, Zenon

-----------------------------------------------------------------------------
(* The receive loop.                                                       *)

LEMMA FetchStep ==
    ASSUME DeliveryInv, NEW m \in Msgs, Fetch(m)
    PROVE  DeliveryInv'
<1> USE DEF DeliveryInv
<1>1. /\ m \in queue /\ queue' = queue \ {m} /\ taken' = Append(taken, m)
      /\ settled' = IF R.server = "once" THEN settled \cup {m} ELSE settled
      /\ batch' = IF R.server = "batch" THEN Append(batch, m) ELSE batch
      /\ UNCHANGED <<member, fault, work, handled, told, fails, crashes>>
      /\ R.server = "offset" => \A n \in queue : m <= n
  BY Zenon DEF Fetch
<1>2. /\ taken \in Seq(Msgs) /\ batch \in Seq(Msgs)
      /\ Len(taken) \in Nat /\ Len(batch) \in Nat
      /\ taken' \in Seq(Msgs) /\ Len(taken') = Len(taken) + 1
      /\ \A i \in 1..(Len(taken) + 1) : taken'[i] = IF i = Len(taken) + 1 THEN m ELSE taken[i]
  BY <1>1 DEF TypeOK
<1>3. Range(taken') = Range(taken) \cup {m}
  BY <1>1, <1>2, RangeOfSequence
<1>4. batch' \in Seq(Msgs) /\ Range(batch) \subseteq Range(batch')
  BY <1>1, <1>2, RangeOfSequence
<1>5. Inside \subseteq Inside' /\ m \in Inside'
  BY <1>1, <1>3, <1>4, Zenon DEF Inside
<1>6. TypeOK'
  BY <1>1, <1>2, <1>4, Zenon DEF TypeOK, Msgs
<1>7. R' = R /\ Idle' = Idle /\ Msgs' = Msgs
  BY <1>1, Zenon DEF R, Idle, Msgs
<1>8. Programs'
  BY <1>1, <1>7, Zenon DEF Programs
<1>9. AcksAccepted'
  BY <1>1, TheBroker, Zenon DEF AcksAccepted
<1>10. BatchOwed'
  <2> SUFFICES ASSUME R.server = "batch", NEW i \in 1..Len(batch')
               PROVE  \/ fault \/ batch'[i] \in handled \/ batch'[i] \in Range(taken')
                      \/ \E w \in Workers : work[w].msg = batch'[i] /\ Has(work[w].prog, "fault")
    BY <1>1, <1>7, Zenon DEF BatchOwed
  <2>1. batch' = Append(batch, m)
    BY <1>1, Zenon
  <2>2. (i = Len(batch) + 1 /\ batch'[i] = m) \/ (i \in 1..Len(batch) /\ batch'[i] = batch[i])
    <3>1. /\ Len(batch') = Len(batch) + 1
          /\ \A j \in 1..(Len(batch) + 1) :
                 batch'[j] = IF j = Len(batch) + 1 THEN m ELSE batch[j]
      BY <1>2, <2>1
    <3> QED BY <1>2, <3>1
  <2> QED BY <1>3, <2>2, Zenon DEF BatchOwed
<1>11. ReportsFirst'
  BY <1>1, Zenon DEF ReportsFirst, Accounted, Told, Tells
<1>12. \A k : Accounted(k) => Accounted(k)'
  BY <1>1, AccountedStays, Zenon
<1>13. SettledKnown'
  <2> SUFFICES ASSUME member \notin Reliable, NEW k \in settled'
               PROVE  Accounted(k)' \/ (R.server = "once" /\ (crashes = 0 => k \in Inside'))
    BY <1>1, <1>7, Zenon DEF SettledKnown
  <2>1. CASE k \in settled
    BY <1>5, <1>12, <2>1, Zenon DEF SettledKnown
  <2>2. CASE k = m /\ R.server = "once"
    BY <1>5, <2>2, Zenon
  <2> QED BY <1>1, <2>1, <2>2, Zenon
<1>14. InOrder'
  <2>1. SUFFICES ASSUME R.server = "offset" PROVE InOrder'
    BY <1>7, Zenon DEF InOrder
  <2>2. batch' = <<>>
    <3>1. R.server # "batch" /\ batch = <<>>
      BY <2>1, Zenon DEF InOrder
    <3> QED BY <1>1, <3>1, Zenon
  <2>3. /\ \A i \in 1..Len(taken) : taken[i] < m /\ taken[i] \in Nat
        /\ \A q \in queue' : m < q
        /\ m \in Nat /\ queue \subseteq Nat
    <3>1. \A i \in 1..Len(taken) : taken[i] \in Msgs
      BY <1>2
    <3>2. queue \subseteq Nat /\ m \in Nat
      BY DEF TypeOK, Msgs
    <3> QED BY <1>1, <2>1, <3>1, <3>2 DEF InOrder, Msgs
  <2>4. \A i, j \in 1..Len(taken') : i < j => taken'[i] < taken'[j]
    <3> SUFFICES ASSUME NEW i \in 1..Len(taken'), NEW j \in 1..Len(taken'), i < j
                 PROVE  taken'[i] < taken'[j]
      BY Zenon
    <3>1. i \in 1..Len(taken) /\ taken'[i] = taken[i]
      BY <1>2
    <3>2. CASE j = Len(taken) + 1
      BY <1>2, <2>3, <3>1, <3>2, Zenon
    <3>3. CASE j \in 1..Len(taken)
      BY <1>2, <2>1, <3>1, <3>3 DEF InOrder
    <3> QED BY <1>2, <3>2, <3>3, SMTT(30)
  <2>5. \A i \in 1..Len(taken') : \A q \in queue' : taken'[i] < q
    <3> SUFFICES ASSUME NEW i \in 1..Len(taken'), NEW q \in queue' PROVE taken'[i] < q
      BY Zenon
    <3>1. CASE i = Len(taken) + 1
      BY <1>2, <2>3, <3>1, Zenon
    <3>2. CASE i \in 1..Len(taken)
      BY <1>1, <1>2, <2>1, <3>2 DEF InOrder
    <3> QED BY <1>2, <3>1, <3>2
  <2>6. ASSUME NEW w \in Workers, work[w].prog # <<>>
        PROVE  /\ \A i \in 1..Len(taken') : work[w].msg < taken'[i]
               /\ \A q \in queue' : work[w].msg < q
               /\ ~Has(work[w].prog, "nack")
    <3>1. \A q \in queue : work[w].msg < q
      BY <2>1, <2>6, Zenon DEF InOrder
    <3>2. ASSUME NEW i \in 1..Len(taken') PROVE work[w].msg < taken'[i]
      <4>1. CASE i = Len(taken) + 1
        BY <1>1, <1>2, <3>1, <4>1, Zenon
      <4>2. CASE i \in 1..Len(taken)
        BY <1>2, <2>1, <2>6, <4>2 DEF InOrder
      <4> QED BY <1>2, <4>1, <4>2
    <3> QED BY <1>1, <2>1, <2>6, <3>1, <3>2, Zenon DEF InOrder
  <2>7. \A k \in Msgs : k \in queue' \/ k \in Inside' \/ Accounted(k)'
    BY <1>1, <1>5, <1>12, <2>1, Zenon DEF InOrder
  <2> QED BY <1>1, <1>7, <2>2, <2>4, <2>5, <2>6, <2>7, Zenon DEF InOrder
<1> QED BY <1>6, <1>8, <1>9, <1>10, <1>11, <1>13, <1>14, Zenon

\* A callback begins with the next message: p is the rest of its program.
LEMMA BeginStep ==
    ASSUME DeliveryInv, NEW w \in Workers, NEW p \in {O.bad, O.fail, O.ok}, Take(w, p),
           handled' \in {handled, handled \cup {Head(taken)}},
           p \in {O.bad, O.fail} \/ Head(taken) \in handled', fails' \in Nat
    PROVE  DeliveryInv'
<1> USE DEF DeliveryInv
<1> DEFINE m == Head(taken)
<1> DEFINE q == Append(p, "end")
<1>1. /\ w <= R.workers /\ work[w] = Idle /\ taken # <<>> /\ taken' = Tail(taken)
      /\ work' = [work EXCEPT ![w].msg = m, ![w].prog = q]
      /\ UNCHANGED <<member, queue, settled, batch, fault, told, crashes>>
  BY Zenon DEF Take
<1>2. /\ m \in Msgs /\ m \in Nat /\ taken' \in Seq(Msgs) /\ taken \in Seq(Msgs)
      /\ Range(taken) = {m} \cup Range(taken')
  <2>1. taken \in Seq(Msgs) /\ taken # <<>>
    BY <1>1, Zenon DEF TypeOK
  <2>2. m \in Msgs /\ taken' \in Seq(Msgs) /\ Range(taken) = {m} \cup Range(taken')
    BY <1>1, <2>1, RangeOfSequence, Zenon
  <2> QED BY <2>1, <2>2 DEF Msgs
<1>3. member \in DOMAIN Brokers
  BY TheBroker, Zenon
<1>4. p \in Seq(Calls) /\ ~Has(p, "end")
  BY <1>3, ProgramsAreSequences, Zenon DEF O
<1>5. /\ q \in Seq(Calls) /\ q # <<>> /\ Ends(q)
      /\ \A s \in Calls \ {"end"} : Has(q, s) <=> Has(p, s)
      /\ Tells(p, FALSE) => Tells(q, FALSE)
  BY <1>4, AppendEnd, Zenon
<1> HIDE DEF q, m
<1>6. /\ work'[w] = [msg |-> m, prog |-> q, err |-> FALSE]
      /\ \A v \in Workers : v # w => work'[v] = work[v]
      /\ work' \in [Workers -> [msg : Nat, prog : Seq(Calls), err : BOOLEAN]]
  <2>1. work \in [Workers -> [msg : Nat, prog : Seq(Calls), err : BOOLEAN]]
    BY Zenon DEF TypeOK
  <2>2. \A v \in Workers : v # w => work'[v] = work[v]
    BY <1>1, <2>1, Zenon
  <2>3. work'[w] = [[Idle EXCEPT !.msg = m] EXCEPT !.prog = q]
    BY <1>1, <2>1, Zenon
  <2>4. Idle = [msg |-> 0, prog |-> <<>>, err |-> FALSE]
    BY Zenon DEF Idle
  <2>5. \A x, a, b, c, d, e : x = [msg |-> a, prog |-> b, err |-> c] =>
            /\ [x EXCEPT !.msg = d] = [msg |-> d, prog |-> b, err |-> c]
            /\ [x EXCEPT !.prog = e] = [msg |-> a, prog |-> e, err |-> c]
    OBVIOUS
  <2>6. PICK x : x = [Idle EXCEPT !.msg = m]
    BY Zenon
  <2>7. x = [msg |-> m, prog |-> <<>>, err |-> FALSE]
    BY <2>4, <2>5, <2>6, Zenon
  <2>8. work'[w] = [msg |-> m, prog |-> q, err |-> FALSE]
    <3>1. [x EXCEPT !.prog = q] = [msg |-> m, prog |-> q, err |-> FALSE]
      <4>1. PICK b, c : b = <<>> /\ c = FALSE
        BY Zenon
      <4>2. x = [msg |-> m, prog |-> b, err |-> c]
        BY <2>7, <4>1, Zenon
      <4>3. [x EXCEPT !.prog = q] = [msg |-> m, prog |-> q, err |-> c]
        BY <4>2, SMTT(30)
      <4> QED BY <4>1, <4>3, Zenon
    <3> QED BY <2>3, <2>6, <3>1, Zenon
  <2>9. work'[w] \in [msg : Nat, prog : Seq(Calls), err : BOOLEAN]
    BY <1>2, <1>5, <2>8
  <2>10. DOMAIN work' = Workers /\ work' = [v \in Workers |-> work'[v]]
    BY <1>1, <2>1, Zenon
  <2>11. \A v \in Workers : work'[v] \in [msg : Nat, prog : Seq(Calls), err : BOOLEAN]
    BY <2>1, <2>2, <2>9, Zenon
  <2> QED BY <2>2, <2>8, <2>10, <2>11, Zenon
<1>7. work'[w].msg = m /\ work'[w].prog = q /\ work'[w].err = FALSE
  BY <1>6
<1>8. /\ handled \subseteq handled' /\ handled' \subseteq Msgs
      /\ p \in {O.bad, O.fail} \/ m \in handled'
  BY <1>2, Zenon DEF TypeOK, m
<1>9. R' = R /\ Idle' = Idle /\ Msgs' = Msgs
  BY <1>1, Zenon DEF R, Idle, Msgs
<1>10. TypeOK'
  BY <1>1, <1>2, <1>6, <1>8, <1>9, Zenon DEF TypeOK
<1>11. Programs'
  <2> SUFFICES ASSUME NEW v \in Workers
               PROVE  /\ work'[v].prog = <<>> => work'[v] = Idle
                      /\ work'[v].prog # <<>> =>
                            v <= R.workers /\ work'[v].msg \in Msgs /\ Ends(work'[v].prog)
    BY <1>9, Zenon DEF Programs
  <2>1. CASE v = w
    BY <1>1, <1>2, <1>5, <1>7, <2>1, Zenon
  <2>2. CASE v # w
    BY <1>6, <2>2, Zenon DEF Programs
  <2> QED BY <2>1, <2>2, Zenon
<1>12. ASSUME NEW k \in Inside, k # 0 PROVE k \in Inside'
  <2>1. CASE k \in Range(taken)
    <3>1. CASE k = m
      BY <1>7, <3>1, Zenon DEF Inside
    <3>2. CASE k \in Range(taken')
      BY <3>2, Zenon DEF Inside
    <3> QED BY <1>2, <2>1, <3>1, <3>2, Zenon
  <2>2. CASE \E v \in Workers : k = work[v].msg
    <3>1. PICK v \in Workers : k = work[v].msg
      BY <2>2, Zenon
    <3>2. v # w
      BY <1>1, <1>12, <3>1 DEF Idle
    <3> QED BY <1>6, <3>1, <3>2, Zenon DEF Inside
  <2>3. CASE k \in Range(batch)
    BY <1>1, <2>3, Zenon DEF Inside
  <2> QED BY <2>1, <2>2, <2>3, Zenon DEF Inside
<1>13. \A k : Accounted(k) => Accounted(k)'
  BY <1>1, <1>8, AccountedStays, Zenon
<1>14. AcksAccepted'
  <2> SUFFICES ASSUME member \in Reliable, NEW v \in Workers, Settles(work'[v].prog)
               PROVE  work'[v].msg \in handled'
    BY <1>1, <1>8, Zenon DEF AcksAccepted
  <2>1. CASE v # w
    BY <1>6, <1>8, <2>1, Zenon DEF AcksAccepted
  <2>2. CASE v = w
    <3>1. Settles(p)
      BY <1>5, <1>7, <2>2, Zenon DEF Settles, Calls
    <3>2. p \notin {O.bad, O.fail}
      BY <3>1, FailuresKeep, Zenon DEF O
    <3> QED BY <1>7, <1>8, <2>2, <3>2, Zenon
  <2> QED BY <2>1, <2>2, Zenon
<1>15. BatchOwed'
  <2>1. SUFFICES ASSUME R.server = "batch", NEW i \in 1..Len(batch), ~fault,
                        batch[i] \notin handled', batch[i] \notin Range(taken')
                 PROVE  \E v \in Workers : work'[v].msg = batch[i] /\ Has(work'[v].prog, "fault")
    <3>1. batch' = batch /\ fault' = fault
      BY <1>1, Zenon
    <3> QED BY <1>9, <3>1, Zenon DEF BatchOwed
  <2>2. CASE batch[i] = m
    <3>1. p \in {O.bad, O.fail}
      BY <1>8, <2>1, <2>2, Zenon
    <3>2. member = "rocketv2"
      BY <2>1, TheBroker, Zenon
    <3>3. Has(p, "fault")
      BY <3>1, <3>2, FailuresFault, Zenon DEF O
    <3> QED BY <1>5, <1>7, <2>2, <3>3, Zenon DEF Calls
  <2>3. CASE batch[i] # m
    <3>1. PICK v \in Workers : work[v].msg = batch[i] /\ Has(work[v].prog, "fault")
      BY <1>2, <1>8, <2>1, <2>3 DEF BatchOwed
    <3>2. v # w
      BY <1>1, <3>1 DEF Idle, Has
    <3> QED BY <1>6, <3>1, <3>2, Zenon
  <2> QED BY <2>2, <2>3, Zenon
<1>16. ReportsFirst'
  <2> SUFFICES ASSUME member \notin Reliable, NEW v \in Workers, work'[v].prog # <<>>
               PROVE  Accounted(work[v].msg)' \/ Tells(work[v].prog, work[v].err)'
    BY <1>1, Zenon DEF ReportsFirst
  <2>1. CASE v = w
    <3>1. CASE p \in {O.bad, O.fail}
      <4>1. Tells(q, FALSE)
        BY <1>3, <1>5, <3>1, FailuresTell, Zenon
      <4> QED BY <1>1, <1>7, <2>1, <4>1, Zenon DEF Tells
    <3>2. CASE m \in handled'
      BY <1>7, <2>1, <3>2, Zenon DEF Accounted
    <3> QED BY <1>8, <3>1, <3>2, Zenon
  <2>2. CASE v # w
    <3>1. work'[v] = work[v]
      BY <1>6, <2>2, Zenon
    <3>2. Accounted(work[v].msg) \/ Tells(work[v].prog, work[v].err)
      BY <3>1, Zenon DEF ReportsFirst
    <3>3. Tells(work[v].prog, work[v].err) => Tells(work[v].prog, work[v].err)'
      BY <1>1, <3>1, Zenon DEF Tells
    <3> QED BY <1>13, <3>1, <3>2, <3>3, Zenon
  <2> QED BY <2>1, <2>2, Zenon
<1>17. SettledKnown'
  <2>1. \A k \in settled : k # 0
    BY DEF TypeOK, Msgs
  <2> QED BY <1>1, <1>9, <1>12, <1>13, <2>1, Zenon DEF SettledKnown
<1>18. InOrder'
  <2>1. SUFFICES ASSUME R.server = "offset" PROVE InOrder'
    BY <1>9, Zenon DEF InOrder
  <2>2. /\ Len(taken') = Len(taken) - 1 /\ Len(taken) \in Nat /\ Len(taken) > 0
        /\ \A i \in 1..(Len(taken) - 1) : taken'[i] = taken[i + 1]
        /\ m = taken[1]
    BY <1>1, <1>2 DEF m
  <2>3. /\ \A i, j \in 1..Len(taken) : i < j => taken[i] < taken[j]
        /\ \A i \in 1..Len(taken) : \A k \in queue : taken[i] < k
    BY <2>1, Zenon DEF InOrder
  <2>4. /\ \A i, j \in 1..Len(taken') : i < j => taken'[i] < taken'[j]
        /\ \A i \in 1..Len(taken') : \A k \in queue : taken'[i] < k
    <3>1. ASSUME NEW i \in 1..Len(taken')
          PROVE  i + 1 \in 1..Len(taken) /\ taken'[i] = taken[i + 1]
      BY ONLY <2>2, <3>1
    <3>2. ASSUME NEW i \in 1..Len(taken'), NEW j \in 1..Len(taken'), i < j
          PROVE  i + 1 < j + 1
      BY ONLY <2>2, <3>2
    <3> QED BY <2>3, <3>1, <3>2, Zenon
  <2>5. (\A i \in 1..Len(taken') : m < taken'[i]) /\ (\A k \in queue : m < k)
    <3>1. ASSUME NEW i \in 1..Len(taken')
          PROVE  i + 1 \in 1..Len(taken) /\ 1 < i + 1 /\ taken'[i] = taken[i + 1]
      BY ONLY <2>2, <3>1
    <3>2. 1 \in 1..Len(taken)
      BY ONLY <2>2
    <3> QED BY <2>2, <2>3, <3>1, <3>2, Zenon
  <2>6. ~Has(p, "nack")
    BY <2>1, TheBroker, OffsetsStay, Zenon DEF O
  <2>7. ASSUME NEW v \in Workers, work'[v].prog # <<>>
        PROVE  /\ \A i \in 1..Len(taken') : work'[v].msg < taken'[i]
               /\ \A k \in queue : work'[v].msg < k
               /\ ~Has(work'[v].prog, "nack")
    <3>1. CASE v = w
      BY <1>5, <1>7, <2>5, <2>6, <3>1, Zenon DEF Calls
    <3>2. CASE v # w
      <4>1. work'[v] = work[v]
        BY <1>6, <3>2, Zenon
      <4>2. v <= 1 /\ w <= 1
        BY <1>1, <2>1, <2>7, <4>1, TheBroker, Zenon DEF Programs
      <4>3. v \in 1..2 /\ w \in 1..2
        BY DeliveryAssumption, Zenon
      <4> QED BY ONLY <3>2, <4>2, <4>3
    <3> QED BY <3>1, <3>2, Zenon
  <2>8. \A k \in Msgs : k \in queue \/ k \in Inside' \/ Accounted(k)'
    <3>1. \A k \in Msgs : k # 0
      BY DEF Msgs
    <3> QED BY <1>12, <1>13, <2>1, <3>1, Zenon DEF InOrder
  <2>9. batch = <<>>
    BY <2>1, Zenon DEF InOrder
  <2> QED BY <1>1, <1>9, <2>4, <2>7, <2>8, <2>9, Zenon DEF InOrder
<1> QED BY <1>10, <1>11, <1>14, <1>15, <1>16, <1>17, <1>18, Zenon

-----------------------------------------------------------------------------
(* The message server, restarts, and the beginning.                        *)

LEMMA RedeliverStep ==
    ASSUME DeliveryInv, NEW m \in Msgs, Redeliver(m) \/ RedeliverEarly(m)
    PROVE  DeliveryInv'
<1> USE DEF DeliveryInv
<1>1. /\ R.server = "single" /\ queue' = queue \cup {m} /\ fails' \in {fails, fails + 1}
      /\ UNCHANGED <<member, settled, batch, fault, taken, work, handled, told, crashes>>
  BY Zenon DEF Redeliver, RedeliverEarly
<1>2. R' = R /\ Idle' = Idle /\ Msgs' = Msgs /\ Inside' = Inside
  BY <1>1, Zenon DEF R, Idle, Msgs, Inside
<1>3. TypeOK'
  <2>1. fails' \in Nat
    BY <1>1 DEF TypeOK
  <2> QED BY <1>1, <1>2, <2>1, Zenon DEF TypeOK
<1>4. Programs' /\ AcksAccepted'
  BY <1>1, <1>2, Zenon DEF Programs, AcksAccepted
<1>5. BatchOwed' /\ InOrder'
  BY <1>1, <1>2, Zenon DEF BatchOwed, InOrder
<1>6. ReportsFirst' /\ SettledKnown'
  BY <1>1, <1>2, Zenon DEF ReportsFirst, SettledKnown, Accounted, Told, Tells
<1> QED BY <1>3, <1>4, <1>5, <1>6, Zenon

\* Nothing is inside the process; with offsets, what is not settled is handed
\* out again.
LEMMA CrashStep ==
    ASSUME DeliveryInv, Crash
    PROVE  DeliveryInv'
<1> USE DEF DeliveryInv
<1>1. /\ crashes' = crashes + 1 /\ taken' = <<>> /\ batch' = <<>> /\ fault' = FALSE
      /\ work' = [w \in Workers |-> Idle] /\ queue' = Msgs \ settled
      /\ UNCHANGED <<member, settled, handled, told, fails>>
  BY Zenon DEF Crash
<1>2. R' = R /\ Idle' = Idle /\ Msgs' = Msgs
  BY <1>1, Zenon DEF R, Idle, Msgs
<1>3. /\ Idle \in [msg : Nat, prog : Seq(Calls), err : BOOLEAN] /\ Idle.prog = <<>>
      /\ \A w \in Workers : work'[w] = Idle
  BY <1>1 DEF Idle
<1>4. ~Settles(<<>>)
  BY DEF Settles, Has
<1>5. TypeOK'
  <2>1. work' \in [Workers -> [msg : Nat, prog : Seq(Calls), err : BOOLEAN]]
    BY <1>1, <1>3, Zenon
  <2>2. taken' \in Seq(Msgs) /\ batch' \in Seq(Msgs)
    BY <1>1
  <2>3. fault' \in BOOLEAN
    BY <1>1, Zenon
  <2>4. crashes' \in Nat
    BY <1>1 DEF TypeOK
  <2> QED BY <1>1, <1>2, <2>1, <2>2, <2>3, <2>4, Zenon DEF TypeOK
<1>6. Programs' /\ AcksAccepted' /\ ReportsFirst'
  BY <1>1, <1>2, <1>3, <1>4, Zenon DEF Programs, AcksAccepted, ReportsFirst
<1>7. BatchOwed'
  BY <1>1 DEF BatchOwed
<1>8. \A k : Accounted(k) => Accounted(k)'
  BY <1>1, AccountedStays, Zenon
<1>9. SettledKnown'
  <2>1. crashes' # 0
    BY <1>1 DEF TypeOK
  <2> QED BY <1>1, <1>2, <1>8, <2>1, Zenon DEF SettledKnown
<1>10. InOrder'
  <2>1. SUFFICES ASSUME R.server = "offset" PROVE InOrder'
    BY <1>2, Zenon DEF InOrder
  <2>2. \A m \in settled : Accounted(m)
    BY <2>1, TheBroker, Zenon DEF SettledKnown
  <2>3. \A m \in Msgs : m \in queue' \/ Accounted(m)'
    BY <1>1, <1>8, <2>2, Zenon
  <2> QED BY <1>1, <1>2, <1>3, <2>3 DEF InOrder
<1> QED BY <1>5, <1>6, <1>7, <1>9, <1>10, Zenon

LEMMA DeliveryInit ==
    ASSUME Init
    PROVE  DeliveryInv
<1>1. /\ member \in Members /\ queue = Msgs /\ settled = {} /\ batch = <<>> /\ fault = FALSE
      /\ taken = <<>> /\ work = [w \in Workers |-> Idle] /\ handled = {} /\ told = {}
      /\ fails = 0 /\ crashes = 0
  BY Zenon DEF Init
<1>2. /\ Idle \in [msg : Nat, prog : Seq(Calls), err : BOOLEAN] /\ Idle.prog = <<>>
      /\ \A w \in Workers : work[w] = Idle
  BY <1>1 DEF Idle
<1>3. ~Settles(<<>>)
  BY DEF Settles, Has
<1>4. TypeOK
  <2>1. work \in [Workers -> [msg : Nat, prog : Seq(Calls), err : BOOLEAN]]
    BY <1>1, <1>2, Zenon
  <2>2. taken \in Seq(Msgs) /\ batch \in Seq(Msgs)
    BY <1>1
  <2>3. fault \in BOOLEAN
    BY <1>1, Zenon
  <2> QED BY <1>1, <2>1, <2>2, <2>3, Zenon DEF TypeOK
<1>5. Programs /\ AcksAccepted /\ ReportsFirst /\ SettledKnown
  BY <1>1, <1>2, <1>3, Zenon DEF Programs, AcksAccepted, ReportsFirst, SettledKnown
<1>6. BatchOwed
  BY <1>1 DEF BatchOwed
<1>7. InOrder
  BY <1>1, <1>2 DEF InOrder
<1> QED BY <1>4, <1>5, <1>6, <1>7, Zenon DEF DeliveryInv

LEMMA DeliveryStep ==
    ASSUME DeliveryInv, [Next]_vars
    PROVE  DeliveryInv'
<1>1. CASE \E m \in Msgs : Fetch(m)
  BY <1>1, FetchStep, Zenon
<1>2. CASE \E m \in Msgs : Redeliver(m) \/ RedeliverEarly(m)
  BY <1>2, RedeliverStep, Zenon
<1>3. CASE \E w \in Workers : Begin(w)
  <2>1. PICK w \in Workers : Malformed(w) \/ HandlerFails(w) \/ HandlerAccepts(w)
    BY <1>3, Zenon DEF Begin
  <2>2. fails \in Nat
    BY Zenon DEF DeliveryInv, TypeOK
  <2>3. CASE Malformed(w)
    BY <2>2, <2>3, BeginStep, Zenon DEF Malformed
  <2>4. CASE HandlerFails(w)
    BY <2>2, <2>4, BeginStep DEF HandlerFails
  <2>5. CASE HandlerAccepts(w)
    BY <2>2, <2>5, BeginStep, Zenon DEF HandlerAccepts
  <2> QED BY <2>1, <2>3, <2>4, <2>5, Zenon
<1>4. CASE \E w \in Workers : Step(w)
  BY <1>4, QuietStep, SettlingStep, NackStep, EndStep, Zenon DEF Step
<1>5. CASE Crash
  BY <1>5, CrashStep, Zenon
<1>6. CASE UNCHANGED vars
  <2>1. UNCHANGED <<member, queue, settled, batch, fault, taken, work, handled, told, fails,
                    crashes>>
    BY <1>6, Zenon DEF vars
  <2>2. TypeOK' /\ Programs' /\ AcksAccepted' /\ BatchOwed'
    BY <2>1, Zenon DEF DeliveryInv, TypeOK, Programs, AcksAccepted, BatchOwed, R
  <2>3. ReportsFirst' /\ SettledKnown'
    BY <2>1, Zenon DEF DeliveryInv, ReportsFirst, SettledKnown, Accounted, Told, Tells, Inside, R
  <2>4. InOrder'
    BY <2>1, Zenon DEF DeliveryInv, InOrder, Accounted, Told, Inside, R
  <2> QED BY <2>2, <2>3, <2>4, Zenon DEF DeliveryInv
<1> QED BY <1>1, <1>2, <1>3, <1>4, <1>5, <1>6, Zenon DEF Next

\* The inductive invariant of the receive loops holds throughout, for any number of
\* messages, retries, failures and restarts of every broker.
THEOREM DeliveryInvariant == Spec => []DeliveryInv
<1>1. Init => DeliveryInv
  BY DeliveryInit, Zenon
<1>2. DeliveryInv /\ [Next]_vars => DeliveryInv'
  BY DeliveryStep, Zenon
<1> QED BY <1>1, <1>2, PTL DEF Spec

\* No failure of the handler or of Ack, slow handler or restart makes the server
\* of a reliable broker give up a message its handler has not accepted.
THEOREM NoMessageLost == Spec => []SettledHandled
<1>1. DeliveryInv => SettledHandled
  BY Zenon DEF DeliveryInv, AcksAccepted, SettledHandled
<1> QED BY <1>1, DeliveryInvariant, PTL

\* No broker gives a message up without a word: what the server will not hand
\* out again was accepted, is being handled, or was reported to the ErrorHandler.
THEOREM NoSilentLoss == Spec => []SettledAccounted
<1>1. DeliveryInv => SettledAccounted
  <2> SUFFICES ASSUME DeliveryInv, crashes = 0 \/ member \notin Unacknowledged,
                      NEW m \in settled
               PROVE  m \in handled \cup Inside
                            \cup {e.msg : e \in {x \in told : x.err \/ member \in Untold}}
    BY Zenon DEF SettledAccounted
  <2>1. CASE member \in Reliable
    BY <2>1, Zenon DEF DeliveryInv, AcksAccepted
  <2>2. CASE member \notin Reliable
    <3>1. Accounted(m) \/ (R.server = "once" /\ (crashes = 0 => m \in Inside))
      BY <2>2, Zenon DEF DeliveryInv, SettledKnown
    <3>2. R.server = "once" <=> member \in Unacknowledged
      BY TheBroker, Zenon DEF DeliveryInv
    <3>3. Accounted(m) \/ m \in Inside
      BY <3>1, <3>2, Zenon
    <3> QED BY <3>3, Zenon DEF Accounted, Told
  <2> QED BY <2>1, <2>2, Zenon
<1> QED BY <1>1, DeliveryInvariant, PTL
=============================================================================
