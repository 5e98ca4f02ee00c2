--------------------------- MODULE ClientProofs -----------------------------
(***************************************************************************)
(* Proofs for ClientFamily and SseClient.                                  *)
(*                                                                         *)
(* No connection of a client is lost sight of, and no two goroutines touch *)
(* the map of handlers or write to one stream at a time, for any number of *)
(* connections, senders and calls.  Connect and the read loops hand the    *)
(* connection to each other step by step, so the invariant says for every  *)
(* goroutine what the steps it has left still owe the open connections.    *)
(*                                                                         *)
(* A subscriber of an event stream misses no event, for any number of      *)
(* events and failures: proved for a client with one subscription, since   *)
(* the last event's ID belongs to the client and not to the subscription.  *)
(***************************************************************************)
EXTENDS ClientFamily, SseClient, TLAPS

-----------------------------------------------------------------------------
(* The clients of ClientFamily.  What is left of a call is one of a few    *)
(* sequences, and what they have in common is what the proofs go by.       *)

WithGuard == <<"guard", "ctx", "dial", "shake", "set", "spawn">>
AppLeft ==
    {WithGuard, <<"ctx", "dial", "shake", "set", "spawn">>, <<"dial", "shake", "set", "spawn">>,
     <<"shake", "set", "spawn">>, <<"dial", "set", "spawn">>, <<"set", "spawn">>, <<"spawn">>,
     <<"dial", "spawn", "shake", "set", "wait">>, <<"spawn", "shake", "set", "wait">>,
     <<"shake", "set", "wait">>, <<"set", "wait">>, <<"wait">>,
     <<"take", "close">>, <<"close">>, <<"take", "close", "cancel">>, <<"close", "cancel">>,
     <<"cancel">>, <<>>}
LoopLeft ==
    {<<"clear", "closeOwn">>, <<"closeOwn">>, <<"take", "close">>, <<"close">>,
     <<"notDone", "same", "take", "close", "cancel">>, <<"same", "take", "close", "cancel">>,
     <<"take", "close", "cancel">>, <<"close", "cancel">>, <<"cancel">>, <<>>}
SendLeft ==
    {<<"copy", "lock", "write", "unlock">>, <<"lock", "write", "unlock">>,
     <<"lock", "copy", "write", "unlock">>, <<"copy", "write", "unlock">>,
     <<"write", "unlock">>, <<"unlock">>, <<"copy", "write">>, <<"write">>, <<>>}

\* Connect before it dials, and between that and setting the field; with the field
\* to set, past the guard; with the read loop to start.  Calls that are to set, or to
\* close, the connection they hold, or that they own.
Dialing ==
    {WithGuard, <<"ctx", "dial", "shake", "set", "spawn">>, <<"dial", "shake", "set", "spawn">>,
     <<"dial", "set", "spawn">>, <<"dial", "spawn", "shake", "set", "wait">>}
Dialed ==
    {<<"shake", "set", "spawn">>, <<"set", "spawn">>, <<"spawn", "shake", "set", "wait">>,
     <<"shake", "set", "wait">>, <<"set", "wait">>}
Connecting == (Dialing \ {WithGuard}) \cup Dialed
Spawning ==
    {<<"shake", "set", "spawn">>, <<"set", "spawn">>, <<"spawn">>, <<"spawn", "shake", "set", "wait">>}
Keeping == Dialed \cup {<<"close">>, <<"close", "cancel">>}
OwnKeeping == {<<"clear", "closeOwn">>, <<"closeOwn">>}

Stages == {"idle", "start", "ctx", "read", "look", "handle", "end", "gone", "crash", "send", "write"}
Left(t) == IF t = App THEN AppLeft ELSE IF t \in Loops THEN LoopLeft ELSE SendLeft
Thread(t) == [stage : Stages, prog : Left(t), held : Conns, own : Conns, ctx : Nat]

ClientTypeOK ==
    /\ case \in Cases /\ conn \in Conns /\ ctx \in Nat /\ made \in Conns
    /\ up \subseteq Loops /\ DOMAIN thr = Threads /\ thr = [t \in Threads |-> thr[t]]
    /\ \A t \in Threads : thr[t] \in Thread(t)

\* Connect is called without a connection, or looks for one first.
Guarded == \A x \in Cases : x.polite \/ x.member = "webtransport"

\* How far Connect has got: the field is empty until it is set, and a read loop
\* that was not started has done nothing.
ConnectOK ==
    /\ Guarded /\ thr[App].prog \in Connecting => conn = 0
    /\ thr[App].prog \in Dialing => made < MaxConns
    /\ thr[App].prog \in Spawning => made # 0 /\ thr[App].held = made /\ thr[made] = Idle
    /\ \A l \in Loops : l > made => thr[l] = Idle

\* A read loop has something left to do only when it ends.
LoopsOK == \A l \in Loops : thr[l].stage # "end" => thr[l].prog = <<>>

\* A goroutine has hold of connection c, and will set or close it.
Keeps(r, c) ==
    \/ r.prog \in Keeping /\ r.held = c
    \/ r.prog \in OwnKeeping /\ r.own = c

\* No open connection is lost sight of.
Traced ==
    Guarded => \A c \in up \ dead : c = conn \/ \E t \in {App} \cup Loops : Keeps(thr[t], c)

ClientInv == ClientTypeOK /\ ConnectOK /\ LoopsOK /\ Traced

-----------------------------------------------------------------------------
(* The programs.                                                           *)

\* What Connect, Disconnect, the end of the read loop and Send of a client are made of.
LEMMA ClientPrograms ==
    ASSUME case \in Cases
    PROVE  /\ C.connect \in Dialing /\ (member = "webtransport" => C.connect = WithGuard)
           /\ C.disconnect \in {<<"take", "close">>, <<"take", "close", "cancel">>}
           /\ C.run.ends \in {<<"clear", "closeOwn">>, <<"take", "close">>,
                              <<"notDone", "same", "take", "close", "cancel">>}
           /\ C.send \in SendLeft
<1>1. member \in DOMAIN Clients
  BY ClientAssumption, Zenon DEF ClientAssumption, member
<1>2. member \in {"tcp", "kcp", "websocket", "webtransport", "webrtc"}
  BY <1>1, Zenon DEF Clients
<1> QED
  BY <1>2 DEF C, Clients, Dialing, WithGuard, SendLeft, TcpConnect, TcpDisconnect, TcpRun, TcpSend,
     KcpConnect, KcpDisconnect, KcpRun, KcpSend, WebsocketConnect, WebsocketDisconnect,
     WebsocketRun, WebsocketSend, WebtransportConnect, WebtransportDisconnect, WebtransportRun,
     WebtransportSend, WebrtcConnect, WebrtcDisconnect, WebrtcRun, WebrtcSend

\* What the next step of a call tells of the rest.
LEMMA AppGoesOn ==
    ASSUME NEW p \in AppLeft, p # <<>>
    PROVE  /\ Tail(p) \in AppLeft
           /\ p \in Keeping => Head(p) \in {"shake", "set", "spawn", "close"}
           /\ Head(p) \notin {"closeOwn", "clear", "copy", "lock", "unlock", "write"}
           /\ p \notin OwnKeeping /\ Tail(p) \notin OwnKeeping
<1> USE DEF AppLeft, WithGuard, Dialing, Connecting, Dialed, Spawning, Keeping, OwnKeeping
<1>1. CASE p = WithGuard
  BY <1>1
<1>2. CASE p = <<"ctx", "dial", "shake", "set", "spawn">>
  BY <1>2
<1>3. CASE p = <<"dial", "shake", "set", "spawn">>
  BY <1>3
<1>4. CASE p = <<"shake", "set", "spawn">>
  BY <1>4
<1>5. CASE p = <<"dial", "set", "spawn">>
  BY <1>5
<1>6. CASE p = <<"set", "spawn">>
  BY <1>6
<1>7. CASE p = <<"spawn">>
  BY <1>7
<1>8. CASE p = <<"dial", "spawn", "shake", "set", "wait">>
  BY <1>8
<1>9. CASE p = <<"spawn", "shake", "set", "wait">>
  BY <1>9
<1>10. CASE p = <<"shake", "set", "wait">>
  BY <1>10
<1>11. CASE p = <<"set", "wait">>
  BY <1>11
<1>12. CASE p = <<"wait">>
  BY <1>12
<1>13. CASE p = <<"take", "close">>
  BY <1>13
<1>14. CASE p = <<"close">>
  BY <1>14
<1>15. CASE p = <<"take", "close", "cancel">>
  BY <1>15
<1>16. CASE p = <<"close", "cancel">>
  BY <1>16
<1>17. CASE p = <<"cancel">>
  BY <1>17, SMTT(30)
<1> HIDE DEF Dialing, Connecting, Dialed, Spawning, Keeping, OwnKeeping
<1> QED
  BY <1>1, <1>2, <1>3, <1>4, <1>5, <1>6, <1>7, <1>8, <1>9, <1>10, <1>11, <1>12, <1>13, <1>14, <1>15, <1>16, <1>17, Zenon

\* Where the steps of Connect lead, up to the connection.
LEMMA DialingGoesOn ==
    ASSUME NEW p \in AppLeft, p # <<>>
    PROVE  /\ Head(p) = "guard" =>
                 /\ p \in Dialing
                 /\ Tail(p) \in (Dialing \cap Connecting) \ (Spawning \cup Keeping)
           /\ Head(p) = "ctx" =>
                 /\ p \in Dialing \cap Connecting
                 /\ Tail(p) \in (Dialing \cap Connecting) \ (Spawning \cup Keeping)
           /\ Head(p) = "dial" =>
                 /\ p \in Dialing \cap Connecting
                 /\ Tail(p) \in (Connecting \cap Spawning \cap Keeping) \ Dialing
           /\ Head(p) = "shake" =>
                 /\ p \in Connecting \cap Keeping /\ Tail(p) \in (Connecting \cap Keeping) \ Dialing
                 /\ Tail(p) \in Spawning => p \in Spawning
<1> USE DEF AppLeft, WithGuard, Dialing, Connecting, Dialed, Spawning, Keeping, OwnKeeping
<1>1. CASE p = WithGuard
  BY <1>1, SMTT(30)
<1>2. CASE p = <<"ctx", "dial", "shake", "set", "spawn">>
  BY <1>2, SMTT(30)
<1>3. CASE p = <<"dial", "shake", "set", "spawn">>
  BY <1>3, SMTT(30)
<1>4. CASE p = <<"shake", "set", "spawn">>
  BY <1>4, SMTT(30)
<1>5. CASE p = <<"dial", "set", "spawn">>
  BY <1>5, SMTT(30)
<1>6. CASE p = <<"set", "spawn">>
  BY <1>6, SMTT(30)
<1>7. CASE p = <<"spawn">>
  BY <1>7, SMTT(30)
<1>8. CASE p = <<"dial", "spawn", "shake", "set", "wait">>
  BY <1>8, SMTT(30)
<1>9. CASE p = <<"spawn", "shake", "set", "wait">>
  BY <1>9, SMTT(30)
<1>10. CASE p = <<"shake", "set", "wait">>
  BY <1>10, SMTT(30)
<1>11. CASE p = <<"set", "wait">>
  BY <1>11, SMTT(30)
<1>12. CASE p = <<"wait">>
  BY <1>12, SMTT(30)
<1>13. CASE p = <<"take", "close">>
  BY <1>13, SMTT(30)
<1>14. CASE p = <<"close">>
  BY <1>14, SMTT(30)
<1>15. CASE p = <<"take", "close", "cancel">>
  BY <1>15, SMTT(30)
<1>16. CASE p = <<"close", "cancel">>
  BY <1>16, SMTT(30)
<1>17. CASE p = <<"cancel">>
  BY <1>17, SMTT(30)
<1> HIDE DEF Dialing, Connecting, Dialed, Spawning, Keeping, OwnKeeping
<1> QED
  BY <1>1, <1>2, <1>3, <1>4, <1>5, <1>6, <1>7, <1>8, <1>9, <1>10, <1>11, <1>12, <1>13, <1>14, <1>15, <1>16, <1>17, ZenonT(30)

\* Where they lead from the connection on, and those of Disconnect.
LEMMA SettingGoesOn ==
    ASSUME NEW p \in AppLeft, p # <<>>
    PROVE  /\ Head(p) = "set" =>
                 /\ p \in Connecting \cap Keeping
                 /\ Tail(p) \notin Connecting \cup Dialing \cup Keeping
                 /\ Tail(p) \in Spawning => p \in Spawning
           /\ Head(p) = "spawn" =>
                 /\ p \in Spawning /\ Tail(p) \notin Spawning \cup Dialing
                 /\ p \in Keeping <=> Tail(p) \in Keeping
                 /\ Tail(p) \in Connecting => p \in Connecting
           /\ Head(p) \in {"take", "close", "cancel", "wait"} =>
                 /\ Tail(p) \notin Connecting \cup Dialing \cup Spawning
                 /\ p \in Keeping <=> Head(p) = "close"
                 /\ Tail(p) \in Keeping <=> Head(p) = "take"
                 /\ Head(p) = "take" => Tail(p) # <<>>
<1> USE DEF AppLeft, WithGuard, Dialing, Connecting, Dialed, Spawning, Keeping, OwnKeeping
<1>1. CASE p = WithGuard
  BY <1>1, SMTT(30)
<1>2. CASE p = <<"ctx", "dial", "shake", "set", "spawn">>
  BY <1>2, SMTT(30)
<1>3. CASE p = <<"dial", "shake", "set", "spawn">>
  BY <1>3, SMTT(30)
<1>4. CASE p = <<"shake", "set", "spawn">>
  BY <1>4, SMTT(30)
<1>5. CASE p = <<"dial", "set", "spawn">>
  BY <1>5, SMTT(30)
<1>6. CASE p = <<"set", "spawn">>
  BY <1>6, SMTT(30)
<1>7. CASE p = <<"spawn">>
  BY <1>7, SMTT(30)
<1>8. CASE p = <<"dial", "spawn", "shake", "set", "wait">>
  BY <1>8, SMTT(30)
<1>9. CASE p = <<"spawn", "shake", "set", "wait">>
  BY <1>9, SMTT(30)
<1>10. CASE p = <<"shake", "set", "wait">>
  BY <1>10, SMTT(30)
<1>11. CASE p = <<"set", "wait">>
  BY <1>11, SMTT(30)
<1>12. CASE p = <<"wait">>
  BY <1>12, SMTT(30)
<1>13. CASE p = <<"take", "close">>
  BY <1>13, SMTT(30)
<1>14. CASE p = <<"close">>
  BY <1>14, SMTT(30)
<1>15. CASE p = <<"take", "close", "cancel">>
  BY <1>15, SMTT(30)
<1>16. CASE p = <<"close", "cancel">>
  BY <1>16, SMTT(30)
<1>17. CASE p = <<"cancel">>
  BY <1>17
<1> HIDE DEF Dialing, Connecting, Dialed, Spawning, Keeping, OwnKeeping
<1> QED
  BY <1>1, <1>2, <1>3, <1>4, <1>5, <1>6, <1>7, <1>8, <1>9, <1>10, <1>11, <1>12, <1>13, <1>14, <1>15, <1>16, <1>17, ZenonT(30)

\* Where the steps of an ending read loop lead.
LEMMA LoopGoesOn ==
    ASSUME NEW p \in LoopLeft, p # <<>>
    PROVE  /\ Tail(p) \in LoopLeft
           /\ Head(p) \in {"clear", "closeOwn", "take", "close", "notDone", "same", "cancel"}
           /\ Head(p) \in {"clear", "closeOwn"} <=> p \in OwnKeeping
           /\ Head(p) = "clear" => Tail(p) \in OwnKeeping
           /\ Head(p) # "clear" => Tail(p) \notin OwnKeeping
           /\ p \in Keeping <=> Head(p) = "close"
           /\ Tail(p) \in Keeping <=> Head(p) = "take"
           /\ Head(p) \in {"clear", "take", "notDone", "same"} => Tail(p) # <<>>
<1> USE DEF LoopLeft, WithGuard, Dialed, Keeping, OwnKeeping
<1>1. CASE p = <<"clear", "closeOwn">>
  BY <1>1
<1>2. CASE p = <<"closeOwn">>
  BY <1>2
<1>3. CASE p = <<"take", "close">>
  BY <1>3
<1>4. CASE p = <<"close">>
  BY <1>4
<1>5. CASE p = <<"notDone", "same", "take", "close", "cancel">>
  BY <1>5
<1>6. CASE p = <<"same", "take", "close", "cancel">>
  BY <1>6
<1>7. CASE p = <<"take", "close", "cancel">>
  BY <1>7
<1>8. CASE p = <<"close", "cancel">>
  BY <1>8
<1>9. CASE p = <<"cancel">>
  BY <1>9
<1> HIDE DEF Dialed, Keeping, OwnKeeping
<1> QED
  BY <1>1, <1>2, <1>3, <1>4, <1>5, <1>6, <1>7, <1>8, <1>9, Zenon

-----------------------------------------------------------------------------
(* Goroutines.                                                             *)

\* A goroutine outside a call owes nothing.
LEMMA NothingLeft ==
    /\ \A t : <<>> \in Left(t)
    /\ <<>> \notin Dialing \cup Connecting \cup Spawning \cup Keeping \cup OwnKeeping
BY Zenon DEF Left, AppLeft, LoopLeft, SendLeft, Dialing, WithGuard, Connecting, Dialed, Spawning, Keeping,
   OwnKeeping

\* The application, the read loops and the senders are different goroutines.
LEMMA Goroutines ==
    /\ App \in Threads /\ App \notin Loops /\ 0 \notin Loops /\ 0 \in Conns /\ Conns \subseteq Nat
    /\ \A l \in Loops : l \in Threads /\ l \in Conns /\ l # App
    /\ \A s \in Senders : s \in Threads /\ s \notin Loops /\ s # App
    /\ \A c \in Conns : c # 0 => c \in Loops
    /\ Left(App) = AppLeft /\ \A l \in Loops : Left(l) = LoopLeft
    /\ \A s \in Senders : Left(s) = SendLeft
BY ClientAssumption DEF ClientAssumption, App, Threads, Loops, Conns, Left

\* A goroutine that enters or leaves a call.
LEMMA FreshThread ==
    ASSUME NEW t
    PROVE  /\ Idle \in Thread(t) /\ Idle.prog = <<>> /\ Idle.stage = "idle"
           /\ Over(t) \in Thread(t) /\ Over(t).prog = <<>> /\ Over(t).stage \in {"gone", "idle"}
           /\ \A p \in Left(t) : [Idle EXCEPT !.prog = p] \in Thread(t)
           /\ \A p : [Idle EXCEPT !.prog = p].prog = p
<1>1. 0 \in Conns /\ 0 \in Nat /\ <<>> \in Left(t)
  BY Goroutines, NothingLeft, Zenon
<1> QED
  BY <1>1, Zenon DEF Idle, Thread, Over, Stages

\* A goroutine that has taken a step.
LEMMA RestOfThread ==
    ASSUME ClientTypeOK, NEW t \in {App} \cup Loops, thr[t].prog # <<>>
    PROVE  /\ thr[t].prog \in Left(t) /\ Tail(thr[t].prog) \in Left(t)
           /\ Rest(t) \in Thread(t) /\ Rest(t).prog = Tail(thr[t].prog)
           /\ Rest(t).held = thr[t].held /\ Rest(t).own = thr[t].own
           /\ Rest(t).stage = thr[t].stage
           /\ \A c \in Conns :
                 /\ [Rest(t) EXCEPT !.held = c] \in Thread(t)
                 /\ [Rest(t) EXCEPT !.held = c].prog = Tail(thr[t].prog)
                 /\ [Rest(t) EXCEPT !.held = c].held = c
                 /\ [Rest(t) EXCEPT !.held = c].stage = thr[t].stage
<1>1. t \in Threads
  BY Goroutines, Zenon
<1>2. thr[t] \in Thread(t)
  BY <1>1, Zenon DEF ClientTypeOK
<1>3. thr[t].prog \in Left(t) /\ Tail(thr[t].prog) \in Left(t)
  BY <1>2, Goroutines, AppGoesOn, LoopGoesOn, Zenon DEF Thread
<1> DEFINE q == Tail(thr[t].prog)
<1> HIDE DEF q
<1>4. Rest(t) = [thr[t] EXCEPT !.prog = q]
  BY Zenon DEF Rest, q
<1>5. /\ Rest(t) \in Thread(t) /\ Rest(t).prog = q
      /\ Rest(t).held = thr[t].held /\ Rest(t).own = thr[t].own /\ Rest(t).stage = thr[t].stage
  BY <1>2, <1>3, <1>4, Zenon DEF Thread, q
<1> QED
  BY <1>3, <1>5, Zenon DEF q, Thread

\* A step changes the goroutine that takes it.
LEMMA ThreadSet ==
    ASSUME ClientTypeOK, NEW t \in Threads, NEW r \in Thread(t), Sets(t, r)
    PROVE  /\ thr'[t] = r /\ \A u \in Threads : u # t => thr'[u] = thr[u]
           /\ DOMAIN thr' = Threads /\ thr' = [u \in Threads |-> thr'[u]]
           /\ \A u \in Threads : thr'[u] \in Thread(u)
BY Zenon DEF ClientTypeOK, Sets

-----------------------------------------------------------------------------
(* What a step of the application, or of a read loop, has to see to.       *)

\* When goroutine t becomes r, the connections it kept are in the field, or r keeps them.
HandsOver(t, r) ==
    Guarded => \A c \in up' \ dead :
                   \/ c = conn' \/ Keeps(r, c)
                   \/ c \in up /\ c # conn /\ ~Keeps(thr[t], c)

\* When the application becomes r, Connect may go on.
GoesOn(r) ==
    /\ Guarded /\ r.prog \in Connecting => conn' = 0
    /\ r.prog \in Dialing => made' < MaxConns
    /\ r.prog \in Spawning => made' # 0 /\ r.held = made' /\ thr[made'] = Idle

\* A step of the application keeps the invariant when it hands over what it kept.
LEMMA AppMoves ==
    ASSUME ClientInv, NEW r \in Thread(App), Sets(App, r), case' = case, dead' = dead,
           conn' \in Conns, ctx' \in Nat, made' \in Conns, made' = made \/ made' >= made,
           up' \subseteq Loops,
           GoesOn(r), HandsOver(App, r)
    PROVE  ClientInv'
<1> USE Goroutines
<1>1. /\ thr'[App] = r /\ \A u \in Threads : u # App => thr'[u] = thr[u]
      /\ DOMAIN thr' = Threads /\ thr' = [u \in Threads |-> thr'[u]]
      /\ \A u \in Threads : thr'[u] \in Thread(u)
  BY ThreadSet, Zenon DEF ClientInv
<1>2. ClientTypeOK'
  BY <1>1, Zenon DEF ClientInv, ClientTypeOK
<1>3. \A l \in Loops : thr'[l] = thr[l]
  BY <1>1, Zenon
<1>4. \A l \in Loops : l > made' => thr'[l] = Idle
  <2> SUFFICES ASSUME NEW l \in Loops, l > made' PROVE thr[l] = Idle
    BY <1>3, Zenon
  <2>1. l > made
    BY DEF ClientInv, ClientTypeOK
  <2> QED
    BY <2>1, Zenon DEF ClientInv, ConnectOK
<1>5. ConnectOK'
  BY <1>1, <1>3, <1>4, Zenon DEF ConnectOK, GoesOn
<1>6. LoopsOK'
  BY <1>3, Zenon DEF ClientInv, LoopsOK
<1>7. Traced'
  BY <1>1, <1>3, Zenon DEF ClientInv, Traced, HandsOver
<1> QED
  BY <1>2, <1>5, <1>6, <1>7, Zenon DEF ClientInv

\* So does a step of a read loop.
LEMMA LoopMoves ==
    ASSUME ClientInv, NEW l \in Loops, thr[l] # Idle, NEW r \in Thread(l), Sets(l, r), case' = case,
           dead' = dead, conn' \in {conn, 0}, ctx' = ctx, made' = made,
           up' \subseteq up, r.stage # "end" => r.prog = <<>>,
           HandsOver(l, r)
    PROVE  ClientInv'
<1> USE Goroutines
<1>1. /\ thr'[l] = r /\ \A u \in Threads : u # l => thr'[u] = thr[u]
      /\ DOMAIN thr' = Threads /\ thr' = [u \in Threads |-> thr'[u]]
      /\ \A u \in Threads : thr'[u] \in Thread(u)
  BY ThreadSet, Zenon DEF ClientInv
<1>2. ClientTypeOK'
  BY <1>1, Zenon DEF ClientInv, ClientTypeOK
<1>3. thr'[App] = thr[App]
  BY <1>1, Zenon
<1>4. \A k \in Loops : thr[k] = Idle => thr'[k] = Idle
  BY <1>1, Zenon
<1>5. ConnectOK'
  <2>1. made # 0 => made \in Loops
    BY Zenon DEF ClientInv, ClientTypeOK
  <2> QED
    BY <1>3, <1>4, <2>1, Zenon DEF ClientInv, ConnectOK
<1>6. LoopsOK'
  BY <1>1, Zenon DEF ClientInv, LoopsOK
<1>7. Traced'
  BY <1>1, <1>3, Zenon DEF ClientInv, Traced, HandsOver
<1> QED
  BY <1>2, <1>5, <1>6, <1>7, Zenon DEF ClientInv

-----------------------------------------------------------------------------
(* The application.                                                        *)

LEMMA CallsKeep ==
    ASSUME ClientInv, CallConnect \/ CallDisconnect
    PROVE  ClientInv'
<1> USE Goroutines
<1>1. case \in Cases /\ thr[App].prog = <<>>
  BY Zenon DEF ClientInv, ClientTypeOK, CallConnect, CallDisconnect, Free
<1>2. UNCHANGED <<case, conn, ctx, made, up, dead>>
  BY Zenon DEF CallConnect, CallDisconnect
<1>0. case' = case /\ conn' = conn /\ ctx' = ctx /\ made' = made /\ up' = up /\ dead' = dead
  BY <1>2, Zenon
<1>3. \A c : ~Keeps(thr[App], c)
  BY <1>1, NothingLeft, Zenon DEF Keeps
<1>4. \A r : HandsOver(App, r)
  BY <1>0, <1>3, Zenon DEF HandsOver
<1>5. conn \in Conns /\ ctx \in Nat /\ made \in Conns /\ up \subseteq Loops
  BY Zenon DEF ClientInv, ClientTypeOK
<1>6. CASE CallConnect
  <2> DEFINE r == [Idle EXCEPT !.prog = C.connect]
  <2>1. C.connect \in Dialing /\ (member = "webtransport" => C.connect = WithGuard)
    BY <1>1, ClientPrograms, Zenon
  <2>2. C.connect \in AppLeft /\ C.connect \notin Spawning
    BY <2>1 DEF AppLeft, Dialing, Spawning, WithGuard
  <2>3. r \in Thread(App) /\ r.prog = C.connect
    BY <2>2, FreshThread, Zenon
  <2>4. made < MaxConns
    BY <1>1, <1>5, <1>6, ClientAssumption DEF ClientAssumption, CallConnect, Conns
  <2>5. Guarded /\ C.connect \in Connecting => conn = 0
    <3>1. Guarded => case.polite \/ member = "webtransport"
      BY <1>1, Zenon DEF Guarded, member
    <3>2. WithGuard \notin Connecting
      BY Zenon DEF WithGuard, Connecting, Dialing, Dialed
    <3> QED
      BY <1>6, <2>1, <3>1, <3>2, Zenon DEF CallConnect
  <2>6. Sets(App, r)
    BY <1>6, Zenon DEF CallConnect
  <2> HIDE DEF r
  <2>7. GoesOn(r)
    BY <1>0, <1>4, <1>5, <2>2, <2>3, <2>4, <2>5, <2>6, Zenon DEF GoesOn
  <2> QED
    BY <1>0, <1>4, <1>5, <2>3, <2>6, <2>7, AppMoves, Zenon
<1>7. CASE CallDisconnect
  <2> DEFINE r == [Idle EXCEPT !.prog = C.disconnect]
  <2>1. C.disconnect \in {<<"take", "close">>, <<"take", "close", "cancel">>}
    BY <1>1, ClientPrograms, Zenon
  <2>2. C.disconnect \in AppLeft /\ C.disconnect \notin Connecting \cup Dialing \cup Spawning
    BY <2>1 DEF AppLeft, Connecting, Dialing, Dialed, Spawning, WithGuard
  <2>3. r \in Thread(App) /\ r.prog = C.disconnect
    BY <2>2, FreshThread, Zenon
  <2>4. Sets(App, r)
    BY <1>7, Zenon DEF CallDisconnect
  <2> HIDE DEF r
  <2>5. GoesOn(r)
    BY <1>0, <1>4, <1>5, <2>2, <2>3, <2>4, Zenon DEF GoesOn
  <2> QED
    BY <1>0, <1>4, <1>5, <2>3, <2>4, <2>5, AppMoves, Zenon
<1> QED
  BY <1>6, <1>7, Zenon

\* Connect returns, or waits for the data channel and gives up.
LEMMA ReturnsKeep ==
    ASSUME ClientInv, DialFails \/ ShakeFails \/ Wait
    PROVE  ClientInv'
<1> USE Goroutines
<1> DEFINE p == thr[App].prog
<1>1. p # <<>> /\ p \in AppLeft /\ Head(p) \in {"dial", "shake", "wait"}
  BY RestOfThread, Zenon DEF DialFails, ShakeFails, Wait, At, ClientInv
<1>2. conn \in Conns /\ ctx \in Nat /\ made \in Conns /\ up \subseteq Loops /\ case \in Cases
  BY Zenon DEF ClientInv, ClientTypeOK
<1>3. UNCHANGED <<case, conn, ctx, made, dead>> /\ up' \subseteq up
  BY Zenon DEF DialFails, ShakeFails, Wait
<1>4. p \notin OwnKeeping /\ (p \in Keeping => ShakeFails)
  BY <1>1, AppGoesOn, DialingGoesOn, SettingGoesOn, Zenon DEF DialFails, ShakeFails, Wait, At
<1>5. \A r : HandsOver(App, r)
  BY <1>3, <1>4, Zenon DEF HandsOver, Keeps, DialFails, ShakeFails, Wait
<1>6. C.disconnect \in AppLeft /\ C.disconnect \notin Connecting \cup Dialing \cup Spawning
  BY <1>2, ClientPrograms DEF AppLeft, Connecting, Dialing, Dialed, Spawning, WithGuard
<1>7. PICK r : Sets(App, r) /\ r \in {Idle, [Idle EXCEPT !.prog = C.disconnect]}
  BY Zenon DEF DialFails, ShakeFails, Wait
<1>8. r \in Thread(App) /\ r.prog \in {<<>>, C.disconnect}
  <2>1. CASE r = Idle
    BY <2>1, FreshThread, Zenon
  <2>2. CASE r = [Idle EXCEPT !.prog = C.disconnect]
    BY <1>6, <2>2, FreshThread, Zenon
  <2> QED
    BY <1>7, <2>1, <2>2, Zenon
<1>9. GoesOn(r)
  BY <1>2, <1>3, <1>5, <1>6, <1>7, <1>8, NothingLeft, Zenon DEF GoesOn
<1> QED
  BY <1>2, <1>3, <1>5, <1>7, <1>8, <1>9, AppMoves, Zenon

LEMMA GuardKeeps == ASSUME ClientInv, Guard PROVE ClientInv'
<1> USE Goroutines
<1> DEFINE p == thr[App].prog
<1>1. p # <<>> /\ p \in AppLeft /\ Head(p) = "guard"
  BY RestOfThread, Zenon DEF Guard, At, ClientInv
<1>2. conn \in Conns /\ ctx \in Nat /\ made \in Conns /\ up \subseteq Loops
  BY Zenon DEF ClientInv, ClientTypeOK
<1>3. case' = case /\ conn' = conn /\ ctx' = ctx /\ made' = made /\ up' = up /\ dead' = dead
  BY Zenon DEF Guard
<1>4. p \notin OwnKeeping /\ p \notin Keeping
  BY <1>1, AppGoesOn, Zenon
<1>5. \A r : HandsOver(App, r)
  BY <1>3, <1>4, Zenon DEF HandsOver, Keeps
<1>6. /\ Rest(App) \in Thread(App) /\ Rest(App).prog = Tail(p)
      /\ Tail(p) \in (Dialing \cap Connecting) \ (Spawning \cup Keeping)
  BY <1>1, RestOfThread, DialingGoesOn, Zenon DEF ClientInv
<1>7. p \in Dialing
  BY <1>1, DialingGoesOn, Zenon
<1>8. PICK r : /\ Sets(App, r)
               /\ r = Idle \/ r = Over(App) \/ (r = Rest(App) /\ conn = 0)
  BY Zenon DEF Guard, Goes
<1>9. r \in Thread(App) /\ (r.prog = <<>> \/ (r.prog = Tail(p) /\ conn = 0))
  BY <1>6, <1>8, FreshThread, Zenon
<1>10. made < MaxConns
  BY <1>7, Zenon DEF ClientInv, ConnectOK
<1>11. GoesOn(r)
  BY <1>2, <1>3, <1>5, <1>6, <1>8, <1>9, <1>10, NothingLeft, Zenon DEF GoesOn
<1> QED
  BY <1>2, <1>3, <1>5, <1>8, <1>9, <1>11, AppMoves, Zenon

LEMMA NewCtxKeeps == ASSUME ClientInv, NewCtx PROVE ClientInv'
<1> USE Goroutines
<1> DEFINE p == thr[App].prog
<1>1. p # <<>> /\ p \in AppLeft /\ Head(p) = "ctx"
  BY RestOfThread, Zenon DEF NewCtx, At, ClientInv
<1>2. conn \in Conns /\ ctx \in Nat /\ made \in Conns /\ up \subseteq Loops
  BY Zenon DEF ClientInv, ClientTypeOK
<1>3. case' = case /\ conn' = conn /\ ctx' = ctx + 1 /\ made' = made /\ up' = up /\ dead' = dead
  BY Zenon DEF NewCtx
<1>4. p \notin OwnKeeping /\ p \notin Keeping
  BY <1>1, AppGoesOn, Zenon
<1>5. \A r : HandsOver(App, r)
  BY <1>3, <1>4, Zenon DEF HandsOver, Keeps
<1>6. /\ Rest(App) \in Thread(App) /\ Rest(App).prog = Tail(p)
      /\ p \in Dialing \cap Connecting
      /\ Tail(p) \in (Dialing \cap Connecting) \ (Spawning \cup Keeping)
  BY <1>1, RestOfThread, DialingGoesOn, Zenon DEF ClientInv
<1>7. made < MaxConns /\ (Guarded => conn = 0)
  BY <1>6, Zenon DEF ClientInv, ConnectOK
<1>8. Sets(App, Rest(App))
  BY Zenon DEF NewCtx
<1>9. GoesOn(Rest(App))
  BY <1>2, <1>3, <1>5, <1>6, <1>7, <1>8, Zenon DEF GoesOn
<1>10. ctx' \in Nat
  BY ONLY <1>2, <1>3
<1> QED
  BY <1>2, <1>3, <1>5, <1>6, <1>8, <1>9, <1>10, AppMoves, Zenon

LEMMA DialKeeps == ASSUME ClientInv, Dial PROVE ClientInv'
<1> USE Goroutines
<1> DEFINE p == thr[App].prog
           r == [Rest(App) EXCEPT !.held = made + 1]
<1>1. p # <<>> /\ p \in AppLeft /\ Head(p) = "dial"
  BY RestOfThread, Zenon DEF Dial, At, ClientInv
<1>2. conn \in Conns /\ ctx \in Nat /\ made \in Conns /\ up \subseteq Loops
  BY Zenon DEF ClientInv, ClientTypeOK
<1>3. /\ case' = case /\ conn' = conn /\ ctx' = ctx /\ made' = made + 1
      /\ up' = up \cup {made + 1} /\ dead' = dead /\ Sets(App, r)
  BY Zenon DEF Dial
<1>4. p \notin OwnKeeping /\ p \notin Keeping
  BY <1>1, AppGoesOn, Zenon
<1>5. p \in Connecting \cap Dialing /\ Tail(p) \in (Connecting \cap Spawning \cap Keeping) \ Dialing
  BY <1>1, DialingGoesOn, Zenon
<1>6. made < MaxConns /\ (Guarded => conn = 0)
  BY <1>5, Zenon DEF ClientInv, ConnectOK
<1>7. made + 1 \in Conns /\ made + 1 \in Loops /\ made + 1 > made
  BY <1>2, <1>6, ClientAssumption DEF ClientAssumption, Conns, Loops
<1>8. thr[made + 1] = Idle
  BY <1>7, Zenon DEF ClientInv, ConnectOK
<1>9. r \in Thread(App) /\ r.prog = Tail(p) /\ r.held = made + 1
  BY <1>1, <1>7, RestOfThread DEF ClientInv
<1>10. Keeps(r, made + 1)
  BY <1>5, <1>9, Zenon DEF Keeps
<1>11. HandsOver(App, r)
  BY <1>3, <1>4, <1>10, Zenon DEF HandsOver, Keeps
<1>12. made + 1 # 0 /\ made + 1 >= made
  BY <1>2
<1> HIDE DEF r
<1>13. GoesOn(r)
  BY <1>2, <1>3, <1>5, <1>6, <1>7, <1>8, <1>9, <1>11, <1>12, Zenon DEF GoesOn
<1> QED
  BY <1>2, <1>3, <1>5, <1>6, <1>7, <1>8, <1>9, <1>11, <1>12, <1>13, AppMoves, Zenon

\* The handshake is done; the connection goes into the field.
LEMMA ShakeKeeps == ASSUME ClientInv, Shake PROVE ClientInv'
<1> USE Goroutines
<1> DEFINE p == thr[App].prog
<1>1. p # <<>> /\ p \in AppLeft /\ Head(p) = "shake"
  BY RestOfThread, Zenon DEF Shake, At, ClientInv
<1>2. conn \in Conns /\ ctx \in Nat /\ made \in Conns /\ up \subseteq Loops
  BY Zenon DEF ClientInv, ClientTypeOK
<1>3. /\ case' = case /\ conn' = conn /\ ctx' = ctx /\ made' = made /\ up' = up /\ dead' = dead
      /\ Sets(App, Rest(App))
  BY Zenon DEF Shake
<1>4. /\ p \in Connecting \cap Keeping /\ Tail(p) \in (Connecting \cap Keeping) \ Dialing
      /\ Tail(p) \in Spawning => p \in Spawning
  BY <1>1, DialingGoesOn, Zenon
<1>5. /\ Rest(App) \in Thread(App) /\ Rest(App).prog = Tail(p)
      /\ Rest(App).held = thr[App].held /\ Rest(App).own = thr[App].own
  BY <1>1, RestOfThread, Zenon DEF ClientInv
<1>6. p \notin OwnKeeping
  BY <1>1, AppGoesOn, Zenon
<1>7. \A c : Keeps(thr[App], c) => Keeps(Rest(App), c)
  BY <1>4, <1>5, <1>6, Zenon DEF Keeps
<1>8. Tail(p) \in Spawning => made # 0 /\ thr[App].held = made /\ thr[made] = Idle
  BY <1>4, Zenon DEF ClientInv, ConnectOK
<1>9. HandsOver(App, Rest(App))
  BY <1>3, <1>7, Zenon DEF HandsOver
<1>10. PICK r : r = Rest(App)
  BY Zenon
<1>11. /\ r \in Thread(App) /\ r.prog \notin Dialing /\ Sets(App, r) /\ HandsOver(App, r)
       /\ r.prog \in Spawning => made # 0 /\ r.held = made /\ thr[made] = Idle
  BY <1>3, <1>4, <1>5, <1>8, <1>9, <1>10, Zenon
<1>12. (Guarded => conn = 0) /\ made >= made
  <2>1. Guarded => conn = 0
    BY <1>4, Zenon DEF ClientInv, ConnectOK
  <2>2. made >= made
    BY ONLY <1>2, ClientAssumption DEF ClientAssumption, Conns
  <2> QED
    BY <2>1, <2>2, Zenon
<1>13. GoesOn(r)
  BY <1>2, <1>3, <1>11, <1>12, Zenon DEF GoesOn
<1> QED
  BY <1>2, <1>3, <1>11, <1>12, <1>13, AppMoves, Zenon

LEMMA SetConnKeeps == ASSUME ClientInv, SetConn PROVE ClientInv'
<1> USE Goroutines
<1> DEFINE p == thr[App].prog
<1>1. p # <<>> /\ p \in AppLeft /\ Head(p) = "set"
  BY RestOfThread, Zenon DEF SetConn, At, ClientInv
<1>2. /\ conn \in Conns /\ ctx \in Nat /\ made \in Conns /\ up \subseteq Loops
      /\ thr[App].held \in Conns
  BY Zenon DEF ClientInv, ClientTypeOK, Thread
<1>3. /\ case' = case /\ conn' = thr[App].held /\ ctx' = ctx /\ made' = made /\ up' = up
      /\ dead' = dead
  BY Zenon DEF SetConn
<1>4. /\ p \in Connecting \cap Keeping /\ Tail(p) \notin Connecting \cup Dialing \cup Keeping
      /\ Tail(p) \in Spawning => p \in Spawning
  BY <1>1, SettingGoesOn, Zenon
<1>5. Rest(App) \in Thread(App) /\ Rest(App).prog = Tail(p) /\ Rest(App).held = thr[App].held
  BY <1>1, RestOfThread, Zenon DEF ClientInv
<1>6. p \notin OwnKeeping
  BY <1>1, AppGoesOn, Zenon
<1>7. \A c : Keeps(thr[App], c) => c = conn'
  BY <1>3, <1>6, Zenon DEF Keeps
<1>8. /\ Guarded => conn = 0
      /\ Tail(p) \in Spawning => made # 0 /\ thr[App].held = made /\ thr[made] = Idle
  BY <1>4, Zenon DEF ClientInv, ConnectOK
<1>9. \A r : HandsOver(App, r)
  BY <1>2, <1>3, <1>7, <1>8, Zenon DEF HandsOver
<1>10. PICK r : Sets(App, r) /\ (r = Rest(App) \/ r = Over(App))
  BY Zenon DEF SetConn, Goes
<1>11. r \in Thread(App) /\ (r.prog = <<>> \/ (r.prog = Tail(p) /\ r.held = thr[App].held))
  BY <1>5, <1>10, FreshThread, Zenon
<1>12. GoesOn(r)
  BY <1>2, <1>3, <1>4, <1>8, <1>9, <1>10, <1>11, NothingLeft, Zenon DEF GoesOn
<1>13. r \in Thread(App) /\ conn' \in Conns /\ made >= made
  BY <1>2, <1>3, <1>11
<1> QED
  BY <1>2, <1>3, <1>9, <1>10, <1>12, <1>13, AppMoves, Zenon

\* The read loop starts: it keeps nothing, and nobody had started it.
LEMMA SpawnKeeps == ASSUME ClientInv, Spawn PROVE ClientInv'
<1> USE Goroutines
<1> DEFINE p == thr[App].prog
           n == thr[App].held
<1>1. p # <<>> /\ p \in AppLeft /\ Head(p) = "spawn"
  BY RestOfThread, Zenon DEF Spawn, At, ClientInv
<1>2. /\ p \in Spawning /\ Tail(p) \notin Spawning \cup Dialing
      /\ p \in Keeping <=> Tail(p) \in Keeping
      /\ Tail(p) \in Connecting => p \in Connecting
      /\ p \notin OwnKeeping
  BY <1>1, AppGoesOn, SettingGoesOn, Zenon
<1>3. n = made /\ made # 0 /\ thr[n] = Idle
  BY <1>2, Zenon DEF ClientInv, ConnectOK
<1>4. n \in Loops
  BY <1>3, Zenon DEF ClientInv, ClientTypeOK
<1>5. case' = case /\ conn' = conn /\ ctx' = ctx /\ made' = made /\ up' = up /\ dead' = dead
  BY Zenon DEF Spawn
<1>6. PICK a, b :
         /\ thr' = [thr EXCEPT ![App] = a, ![n] = b]
         /\ a = IF Tail(p) = <<>> THEN Idle ELSE Rest(App)
         /\ b = [Idle EXCEPT !.stage = "read", !.own = n] \/ b = [Idle EXCEPT !.stage = "start"]
  BY Zenon DEF Spawn
<1>7. /\ Rest(App) \in Thread(App) /\ Rest(App).prog = Tail(p)
      /\ Rest(App).held = n /\ Rest(App).own = thr[App].own
  BY <1>1, RestOfThread, Zenon DEF ClientInv
<1>8. a \in Thread(App) /\ a.prog = Tail(p) /\ (Tail(p) # <<>> => a.held = n)
  BY <1>6, <1>7, FreshThread, Zenon
<1>9. b \in Thread(n) /\ b.prog = <<>> /\ b.stage # "end"
  <2>1. <<>> \in Left(n) /\ 0 \in Conns /\ 0 \in Nat /\ n \in Conns
    BY <1>4, NothingLeft, Zenon
  <2> QED
    BY <1>6, <2>1, Zenon DEF Idle, Thread, Stages
<1>10. /\ thr'[App] = a /\ thr'[n] = b
       /\ \A u \in Threads : u # App /\ u # n => thr'[u] = thr[u]
       /\ DOMAIN thr' = Threads /\ thr' = [u \in Threads |-> thr'[u]]
  BY <1>4, <1>6, Zenon DEF ClientInv, ClientTypeOK
<1>11. ClientTypeOK'
  BY <1>5, <1>8, <1>9, <1>10, Zenon DEF ClientInv, ClientTypeOK
<1>12. ConnectOK'
  <2>1. \A l \in Loops : l > made' => thr'[l] = Idle
    BY <1>3, <1>5, <1>10 DEF ClientInv, ConnectOK
  <2> QED
    BY <1>2, <1>5, <1>8, <1>10, <2>1, Zenon DEF ClientInv, ConnectOK
<1>13. LoopsOK'
  BY <1>9, <1>10, Zenon DEF ClientInv, LoopsOK
<1>14. Traced'
  <2> SUFFICES ASSUME Guarded, NEW c \in up \ dead, c # conn
               PROVE  \E t \in {App} \cup Loops : Keeps(thr'[t], c)
    BY <1>5, Zenon DEF Traced
  <2>1. PICK t \in {App} \cup Loops : Keeps(thr[t], c)
    BY Zenon DEF ClientInv, Traced
  <2>2. CASE t = App
    BY <1>2, <1>8, <1>10, <2>1, <2>2, NothingLeft, Zenon DEF Keeps
  <2>3. CASE t # App
    <3>1. t # n
      <4>1. ~Keeps(Idle, c)
        BY FreshThread, NothingLeft, Zenon DEF Keeps
      <4> QED
        BY <1>3, <2>1, <4>1, Zenon
    <3> QED
      BY <1>10, <2>1, <2>3, <3>1, Zenon
  <2> QED
    BY <2>2, <2>3, Zenon
<1> QED
  BY <1>11, <1>12, <1>13, <1>14, Zenon DEF ClientInv

-----------------------------------------------------------------------------
(* Disconnect, by the application or by a read loop.                       *)

\* A step of Disconnect hands over what its goroutine kept.
LEMMA DisconnectMoves ==
    ASSUME ClientInv, NEW t \in {App} \cup Loops, Take(t) \/ Close(t) \/ Cancel(t)
    PROVE  /\ thr[t].prog # <<>> /\ thr[t].prog \in Left(t)
           /\ case' = case /\ dead' = dead /\ ctx' = ctx /\ made' = made /\ up' \subseteq up
           /\ conn' \in {conn, 0}
           /\ Head(thr[t].prog) \in {"take", "close", "cancel", "closeOwn"}
           /\ \E r \in Thread(t) :
                 /\ Sets(t, r) /\ HandsOver(t, r)
                 /\ r.prog = <<>> \/ (r.prog = Tail(thr[t].prog) /\ r.stage = thr[t].stage)
<1> USE Goroutines
<1> DEFINE p == thr[t].prog
<1>1. p # <<>> /\ p \in Left(t) /\ Head(p) \in {"take", "close", "cancel", "closeOwn"}
  BY RestOfThread, Zenon DEF Take, Close, Cancel, At, ClientInv
<1>2. /\ case' = case /\ dead' = dead /\ ctx' = ctx /\ made' = made /\ up' \subseteq up
      /\ conn' \in {conn, 0}
  BY Zenon DEF Take, Close, Cancel
<1>3. /\ p \in Keeping <=> Head(p) = "close"
      /\ Tail(p) \in Keeping <=> Head(p) = "take"
      /\ p \in OwnKeeping <=> Head(p) = "closeOwn"
      /\ Head(p) = "take" => Tail(p) # <<>>
  <2>1. CASE t = App
    BY <1>1, <2>1, AppGoesOn, SettingGoesOn, Zenon
  <2>2. CASE t \in Loops
    BY <1>1, <2>2, LoopGoesOn, Zenon
  <2> QED
    BY <2>1, <2>2, Zenon
<1>4. conn \in Conns
  BY Zenon DEF ClientInv, ClientTypeOK
<1>5. /\ Rest(t) \in Thread(t) /\ Rest(t).prog = Tail(p) /\ Rest(t).stage = thr[t].stage
      /\ [Rest(t) EXCEPT !.held = conn] \in Thread(t)
      /\ [Rest(t) EXCEPT !.held = conn].prog = Tail(p)
      /\ [Rest(t) EXCEPT !.held = conn].held = conn
      /\ [Rest(t) EXCEPT !.held = conn].stage = thr[t].stage
  BY <1>1, <1>4, RestOfThread DEF ClientInv
<1>6. Over(t) \in Thread(t) /\ Over(t).prog = <<>>
  BY FreshThread, Zenon
<1>7. CASE Take(t)
  <2> DEFINE r == [Rest(t) EXCEPT !.held = conn]
  <2>1. Head(p) = "take" /\ conn' = 0 /\ up' = up
    BY <1>7, Zenon DEF Take, At
  <2>2. Sets(t, r)
    BY <1>3, <1>5, <1>7, <2>1, Zenon DEF Take, Goes
  <2>3. HandsOver(t, r)
    BY <1>3, <1>5, <2>1, Zenon DEF HandsOver, Keeps
  <2> QED
    BY <1>1, <1>2, <1>5, <2>2, <2>3, Zenon
<1>8. CASE Close(t) \/ Cancel(t)
  <2>1. PICK r : Sets(t, r) /\ r \in {Rest(t), Over(t)}
    BY <1>8, Zenon DEF Close, Cancel, Goes
  <2>2. Head(p) # "take" /\ conn' = conn
    BY <1>8, Zenon DEF Close, Cancel, At
  <2>3. \A c : Keeps(thr[t], c) => c \notin up'
    BY <1>1, <1>3, <1>8, <2>2, Zenon DEF Keeps, Close, Cancel, At
  <2>4. HandsOver(t, r)
    BY <1>2, <2>2, <2>3, Zenon DEF HandsOver
  <2> QED
    BY <1>1, <1>2, <1>5, <1>6, <2>1, <2>4, Zenon
<1> QED
  BY <1>7, <1>8, Zenon

LEMMA AppDisconnectKeeps == ASSUME ClientInv, Take(App) \/ Close(App) \/ Cancel(App) PROVE ClientInv'
<1> USE Goroutines
<1>1. /\ thr[App].prog # <<>> /\ thr[App].prog \in AppLeft
      /\ case' = case /\ dead' = dead /\ ctx' = ctx /\ made' = made /\ up' \subseteq up
      /\ conn' \in {conn, 0}
      /\ Head(thr[App].prog) \in {"take", "close", "cancel", "closeOwn"}
  BY DisconnectMoves, Zenon
<1>2. PICK r \in Thread(App) :
         /\ Sets(App, r) /\ HandsOver(App, r)
         /\ r.prog = <<>> \/ (r.prog = Tail(thr[App].prog) /\ r.stage = thr[App].stage)
  BY DisconnectMoves, Zenon
<1>3. r.prog \notin Connecting \cup Dialing \cup Spawning
  BY <1>1, <1>2, AppGoesOn, SettingGoesOn, NothingLeft
<1>4. conn \in Conns /\ ctx \in Nat /\ made \in Conns /\ up \subseteq Loops
  BY Zenon DEF ClientInv, ClientTypeOK
<1>5. conn' \in Conns /\ up' \subseteq Loops /\ made >= made
  BY <1>1, <1>4, SMTT(60)
<1>6. GoesOn(r)
  BY <1>1, <1>2, <1>3, <1>4, <1>5, Zenon DEF GoesOn
<1> QED
  BY <1>1, <1>2, <1>3, <1>4, <1>5, <1>6, AppMoves, Zenon

LEMMA LoopDisconnectKeeps ==
    ASSUME ClientInv, NEW l \in Loops, Take(l) \/ Close(l) \/ Cancel(l) PROVE ClientInv'
<1> USE Goroutines
<1>1. /\ thr[l].prog # <<>> /\ thr[l].prog \in LoopLeft
      /\ case' = case /\ dead' = dead /\ ctx' = ctx /\ made' = made /\ up' \subseteq up
      /\ conn' \in {conn, 0}
  BY DisconnectMoves, Zenon
<1>2. PICK r \in Thread(l) :
         /\ Sets(l, r) /\ HandsOver(l, r)
         /\ r.prog = <<>> \/ (r.prog = Tail(thr[l].prog) /\ r.stage = thr[l].stage)
  BY DisconnectMoves, Zenon
<1>3. thr[l] # Idle /\ (r.stage # "end" => r.prog = <<>>)
  BY <1>1, <1>2, FreshThread, Zenon DEF ClientInv, LoopsOK
<1> QED
  BY <1>1, <1>2, <1>3, LoopMoves, Zenon

-----------------------------------------------------------------------------
(* Read loops.                                                             *)

\* A loop that has nothing left to do goes from stage to stage.
LEMMA LoopTurns ==
    ASSUME ClientInv, NEW l \in Loops,
           \/ Capture(l) \/ CaptureNil(l) \/ CaptureCtx(l) \/ Receive(l) \/ Handle(l) \/ Handled(l)
    PROVE  ClientInv'
<1> USE Goroutines
<1>1. thr[l].stage \in {"start", "ctx", "read", "look", "handle"}
  BY Zenon DEF Capture, CaptureNil, CaptureCtx, Receive, Handle, Handled, In, Reading
<1>2. thr[l].prog = <<>> /\ thr[l] # Idle
  BY <1>1, FreshThread, Zenon DEF ClientInv, LoopsOK
<1>3. /\ case' = case /\ dead' = dead /\ ctx' = ctx /\ made' = made /\ up' = up /\ conn' = conn
  BY Zenon DEF Capture, CaptureNil, CaptureCtx, Receive, Handle, Handled
<1>4. thr[l] \in Thread(l) /\ conn \in Conns /\ ctx \in Nat
  BY Zenon DEF ClientInv, ClientTypeOK
<1>5. \E r \in Thread(l) : Sets(l, r) /\ r.prog = <<>>
  <2>1. <<>> \in Left(l) /\ 0 \in Conns /\ 0 \in Nat
    BY NothingLeft, Zenon
  <2>2. Over(l) \in Thread(l) /\ Over(l).prog = <<>>
    BY FreshThread, Zenon
  <2>3. CASE Capture(l)
    <3>1. CASE conn = 0
      BY <2>2, <2>3, <3>1, Zenon DEF Capture
    <3>2. CASE conn # 0
      <4> DEFINE r == [Idle EXCEPT !.stage = IF C.run.gets = "onceCtx" THEN "ctx" ELSE "read",
                                   !.own = conn]
      <4>1. r \in Thread(l) /\ r.prog = <<>>
        BY <1>4, <2>1, Zenon DEF Idle, Thread, Stages
      <4>2. Sets(l, r)
        BY <2>3, <3>2, Zenon DEF Capture
      <4> QED
        BY <4>1, <4>2, Zenon
    <3> QED
      BY <3>1, <3>2, Zenon
  <2>4. CASE CaptureNil(l)
    <3>1. [Idle EXCEPT !.stage = "crash"] \in Thread(l) /\ [Idle EXCEPT !.stage = "crash"].prog = <<>>
      BY <2>1, Zenon DEF Idle, Thread, Stages
    <3> QED
      BY <2>4, <3>1, Zenon DEF CaptureNil
  <2>5. CASE CaptureCtx(l)
    <3> DEFINE r == [thr[l] EXCEPT !.stage = "read", !.ctx = ctx]
    <3>1. r \in Thread(l) /\ r.prog = <<>>
      BY <1>2, <1>4, Zenon DEF Thread, Stages
    <3> QED
      BY <2>5, <3>1, Zenon DEF CaptureCtx
  <2>6. CASE Receive(l) \/ Handle(l) \/ Handled(l)
    <3>1. PICK g \in Stages : Sets(l, [thr[l] EXCEPT !.stage = g])
      BY <2>6, Zenon DEF Receive, Handle, Handled, Stages
    <3>2. [thr[l] EXCEPT !.stage = g] \in Thread(l) /\ [thr[l] EXCEPT !.stage = g].prog = <<>>
      BY <1>2, <1>4, Zenon DEF Thread
    <3> QED
      BY <3>1, <3>2, Zenon
  <2> QED
    BY <2>3, <2>4, <2>5, <2>6, Zenon
<1>6. PICK r \in Thread(l) : Sets(l, r) /\ r.prog = <<>>
  BY <1>5, Zenon
<1>7. HandsOver(l, r)
  BY <1>2, <1>3, NothingLeft, Zenon DEF HandsOver, Keeps
<1> QED
  BY <1>2, <1>3, <1>6, <1>7, LoopMoves, Zenon

\* A loop whose connection is over does what is left to do, in order.
LEMMA LoopEnds ==
    ASSUME ClientInv, NEW l \in Loops, ReadFails(l) \/ Checks(l) \/ Clear(l)
    PROVE  ClientInv'
<1> USE Goroutines
<1> DEFINE p == thr[l].prog
<1>1. thr[l] \in Thread(l) /\ conn \in Conns /\ case \in Cases
  BY Zenon DEF ClientInv, ClientTypeOK
<1>2. CASE ReadFails(l)
  <2> DEFINE r == [thr[l] EXCEPT !.stage = "end", !.prog = C.run.ends]
  <2>1. p = <<>> /\ thr[l] # Idle
    BY <1>2, FreshThread, Zenon DEF ReadFails, In, ClientInv, LoopsOK
  <2>2. C.run.ends \in LoopLeft
    BY <1>1, ClientPrograms, Zenon DEF LoopLeft
  <2>3. r \in Thread(l) /\ r.stage = "end"
    BY <1>1, <2>2, Zenon DEF Thread, Stages
  <2>4. /\ case' = case /\ dead' = dead /\ ctx' = ctx /\ made' = made /\ up' = up /\ conn' = conn
        /\ Sets(l, r)
    BY <1>2, Zenon DEF ReadFails
  <2> HIDE DEF r
  <2>5. HandsOver(l, r)
    BY <2>1, <2>4, NothingLeft, Zenon DEF HandsOver, Keeps
  <2> QED
    BY <2>1, <2>3, <2>4, <2>5, LoopMoves, Zenon
<1>3. CASE Checks(l) \/ Clear(l)
  <2>1. p # <<>> /\ p \in LoopLeft /\ Head(p) \in {"notDone", "same", "clear"}
    BY <1>3, RestOfThread, Zenon DEF Checks, Clear, At, ClientInv
  <2>2. /\ Rest(l) \in Thread(l) /\ Rest(l).prog = Tail(p) /\ Rest(l).own = thr[l].own
        /\ Rest(l).stage = thr[l].stage
    BY <2>1, RestOfThread, Zenon DEF ClientInv
  <2>3. thr[l] # Idle /\ thr[l].stage = "end"
    BY <2>1, FreshThread, Zenon DEF ClientInv, LoopsOK
  <2>4. Over(l) \in Thread(l) /\ Over(l).prog = <<>>
    BY FreshThread, Zenon
  <2>5. CASE Checks(l)
    <3>1. case' = case /\ dead' = dead /\ ctx' = ctx /\ made' = made /\ up' = up /\ conn' = conn
      BY <2>5, Zenon DEF Checks
    <3>2. Head(p) # "clear"
      BY <2>5, Zenon DEF Checks, At
    <3>3. p \notin Keeping /\ p \notin OwnKeeping
      BY <2>1, <3>2, LoopGoesOn, Zenon
    <3>4. \A r : HandsOver(l, r)
      BY <3>1, <3>3, Zenon DEF HandsOver, Keeps
    <3>5. PICK r : Sets(l, r) /\ r \in {Rest(l), Over(l)}
      BY <2>5, Zenon DEF Checks
    <3>6. r \in Thread(l) /\ (r.stage # "end" => r.prog = <<>>)
      BY <2>2, <2>3, <2>4, <3>5, Zenon
    <3> QED
      BY <2>3, <3>1, <3>4, <3>5, <3>6, LoopMoves, Zenon
  <2>6. CASE Clear(l)
    <3>1. /\ case' = case /\ dead' = dead /\ ctx' = ctx /\ made' = made /\ up' = up
          /\ conn' = IF conn = thr[l].own THEN 0 ELSE conn
      BY <2>6, Zenon DEF Clear
    <3>2. Head(p) = "clear"
      BY <2>6, Zenon DEF Clear, At
    <3>3. p \in OwnKeeping /\ p \notin Keeping /\ Tail(p) \in OwnKeeping /\ Tail(p) # <<>>
      BY <2>1, <3>2, LoopGoesOn, Zenon
    <3>4. HandsOver(l, Rest(l))
      BY <2>2, <3>1, <3>3, Zenon DEF HandsOver, Keeps
    <3>5. Sets(l, Rest(l))
      BY <2>2, <2>6, <3>3, Zenon DEF Clear, Goes
    <3>6. conn' \in {conn, 0}
      BY <3>1, Zenon
    <3> QED
      BY <2>2, <2>3, <3>1, <3>4, <3>5, <3>6, LoopMoves, Zenon
  <2> QED
    BY <1>3, <2>5, <2>6, Zenon
<1> QED
  BY <1>2, <1>3, Zenon

-----------------------------------------------------------------------------
(* Senders.  A sender has the write lock from "lock" to "unlock"; only the *)
(* programs of Lockless know no lock.                                      *)

Locked == {<<"copy", "write", "unlock">>, <<"write", "unlock">>, <<"unlock">>}
Lockless == {<<"copy", "write">>, <<"write">>}

\* Where the steps of Send lead.
LEMMA SendGoesOn ==
    ASSUME NEW p \in SendLeft, p # <<>>
    PROVE  /\ Tail(p) \in SendLeft /\ Head(p) \in {"copy", "lock", "write", "unlock"}
           /\ Head(p) \in {"copy", "write"} /\ Tail(p) \in Locked => p \in Locked
           /\ Head(p) = "lock" => Tail(p) \in Locked
           /\ Head(p) = "unlock" => p \in Locked /\ Tail(p) = <<>>
           /\ Head(p) = "write" => p \in Locked \cup Lockless
           /\ Tail(p) \in Lockless => p \in Lockless
<1> USE DEF SendLeft, Locked, Lockless
<1>1. CASE p = <<"copy", "lock", "write", "unlock">>
  BY <1>1
<1>2. CASE p = <<"lock", "write", "unlock">>
  BY <1>2
<1>3. CASE p = <<"lock", "copy", "write", "unlock">>
  BY <1>3
<1>4. CASE p = <<"copy", "write", "unlock">>
  BY <1>4
<1>5. CASE p = <<"write", "unlock">>
  BY <1>5
<1>6. CASE p = <<"unlock">>
  BY <1>6
<1>7. CASE p = <<"copy", "write">>
  BY <1>7
<1>8. CASE p = <<"write">>
  BY <1>8
<1> HIDE DEF Locked, Lockless
<1> QED
  BY <1>1, <1>2, <1>3, <1>4, <1>5, <1>6, <1>7, <1>8, Zenon

\* What a sender becomes: it starts, ends, goes on, or begins or ends a write.
LEMMA SenderMoves ==
    ASSUME ClientTypeOK, NEW s \in Senders, CallSend(s) \/ SendStep(s)
    PROVE  /\ UNCHANGED <<case, conn, ctx, made, up, dead, registering>>
           /\ \E r \in Thread(s) : Sets(s, r)
<1> USE Goroutines
<1> DEFINE p == thr[s].prog
<1>1. UNCHANGED <<case, conn, ctx, made, up, dead, registering>>
  BY Zenon DEF CallSend, SendStep, Copy, Lock, Unlock, WriteBegins, WriteEnds
<1>2. /\ thr[s] \in Thread(s) /\ conn \in Conns /\ case \in Cases
      /\ Over(s) \in Thread(s) /\ p \in SendLeft
  BY FreshThread DEF ClientTypeOK, Thread
<1>3. CASE CallSend(s)
  <2> DEFINE r == [Idle EXCEPT !.stage = "send", !.prog = C.send]
  <2>1. C.send \in Left(s) /\ 0 \in Conns /\ 0 \in Nat
    BY <1>2, ClientPrograms, Zenon
  <2>2. r \in Thread(s)
    BY <2>1, Zenon DEF Idle, Thread, Stages
  <2> QED
    BY <1>1, <1>3, <2>2, Zenon DEF CallSend
<1>4. CASE WriteBegins(s)
  <2>1. [thr[s] EXCEPT !.stage = "write"] \in Thread(s)
    BY <1>2, Zenon DEF Thread, Stages
  <2> QED
    BY <1>1, <1>4, <2>1, Zenon DEF WriteBegins
<1>5. CASE Copy(s) \/ Lock(s) \/ Unlock(s) \/ WriteEnds(s)
  <2>1. p # <<>>
    BY <1>5, Zenon DEF Copy, Lock, Unlock, WriteEnds, At
  <2> DEFINE q == Tail(p)
  <2>2. q \in SendLeft
    BY <1>2, <2>1, SendGoesOn, Zenon
  <2>3. Rest(s) = [thr[s] EXCEPT !.prog = q]
    BY Zenon DEF Rest
  <2> HIDE DEF q
  <2>4. Rest(s) \in Thread(s)
    BY <1>2, <2>2, <2>3 DEF Thread
  <2>5. [Rest(s) EXCEPT !.held = conn] \in Thread(s) /\ [Rest(s) EXCEPT !.stage = "send"] \in Thread(s)
    BY <1>2, <2>4, Zenon DEF Thread, Stages
  <2> QED
    BY <1>1, <1>2, <1>5, <2>4, <2>5, Zenon DEF Copy, Lock, Unlock, WriteEnds, Goes
<1> QED
  BY <1>3, <1>4, <1>5, Zenon DEF SendStep

LEMMA SendKeeps ==
    ASSUME ClientInv, NEW s \in Senders, CallSend(s) \/ SendStep(s)
    PROVE  ClientInv'
<1> USE Goroutines
<1>1. UNCHANGED <<case, conn, ctx, made, up, dead>>
  BY SenderMoves, Zenon DEF ClientInv
<1>2. PICK r \in Thread(s) : Sets(s, r)
  BY SenderMoves, Zenon DEF ClientInv
<1>3. /\ \A u \in Threads : u # s => thr'[u] = thr[u]
      /\ DOMAIN thr' = Threads /\ thr' = [u \in Threads |-> thr'[u]]
      /\ \A u \in Threads : thr'[u] \in Thread(u)
  BY <1>2, ThreadSet, Zenon DEF ClientInv
<1>4. thr'[App] = thr[App] /\ \A l \in Loops : thr'[l] = thr[l]
  BY <1>3, Zenon
<1>5. ClientTypeOK'
  BY <1>1, <1>3, Zenon DEF ClientInv, ClientTypeOK
<1>6. ConnectOK'
  <2>1. made # 0 => made \in Loops
    BY Zenon DEF ClientInv, ClientTypeOK
  <2> QED
    BY <1>1, <1>4, <2>1, Zenon DEF ClientInv, ConnectOK
<1>7. LoopsOK'
  BY <1>4, Zenon DEF ClientInv, LoopsOK
<1>8. Traced'
  BY <1>1, <1>4, Zenon DEF ClientInv, Traced
<1> QED
  BY <1>5, <1>6, <1>7, <1>8, Zenon DEF ClientInv

-----------------------------------------------------------------------------
\* Steps that leave the goroutines alone.
LEMMA QuietKeeps ==
    ASSUME ClientInv, UNCHANGED <<case, conn, ctx, made, up, thr>>, dead \subseteq dead'
    PROVE  ClientInv'
<1>1. ClientTypeOK' /\ LoopsOK'
  BY Zenon DEF ClientInv, ClientTypeOK, LoopsOK
<1>2. ConnectOK'
  BY Zenon DEF ClientInv, ConnectOK
<1>3. Traced'
  BY Zenon DEF ClientInv, Traced
<1> QED
  BY <1>1, <1>2, <1>3, Zenon DEF ClientInv

LEMMA ClientInitInv == Init => ClientInv
<1> SUFFICES ASSUME Init PROVE ClientInv
  BY Zenon
<1> USE Goroutines DEF Init
<1>1. \A t \in Threads : thr[t] = Idle
  BY Zenon
<1>2. \A t \in Threads : thr[t] \in Thread(t) /\ thr[t].prog = <<>>
  BY <1>1, FreshThread, Zenon
<1>3. ClientTypeOK
  BY <1>2, Zenon DEF ClientTypeOK
<1>4. ConnectOK /\ LoopsOK /\ Traced
  BY <1>1, <1>2, NothingLeft, Zenon DEF ConnectOK, LoopsOK, Traced
<1> QED
  BY <1>3, <1>4, Zenon DEF ClientInv

LEMMA ClientStep == ClientInv /\ [Next]_vars => ClientInv'
<1> SUFFICES ASSUME ClientInv, [Next]_vars PROVE ClientInv'
  BY Zenon
<1>1. CASE UNCHANGED vars \/ RegisterBegins \/ RegisterEnds \/ \E n \in Loops : PeerEnds(n)
  BY <1>1, QuietKeeps, Zenon DEF vars, RegisterBegins, RegisterEnds, PeerEnds
<1>2. CASE CallConnect \/ CallDisconnect
  BY <1>2, CallsKeep, Zenon
<1>3. CASE AppStep /\ ~RegisterEnds
  BY <1>3, GuardKeeps, NewCtxKeeps, DialKeeps, ReturnsKeep, ShakeKeeps, SetConnKeeps, SpawnKeeps,
     AppDisconnectKeeps, Zenon DEF AppStep
<1>4. ASSUME NEW l \in Loops, Receive(l) \/ LoopStep(l) PROVE ClientInv'
  BY <1>4, LoopTurns, LoopEnds, LoopDisconnectKeeps, Zenon DEF LoopStep
<1>5. ASSUME NEW s \in Senders, CallSend(s) \/ SendStep(s) PROVE ClientInv'
  BY <1>5, SendKeeps, Zenon
<1> QED
  BY <1>1, <1>2, <1>3, <1>4, <1>5, Zenon DEF Next, AppStep

(* No connection is lost sight of, for any number of connections and       *)
(* calls: when no call and no read loop is under way, only the connection  *)
(* in the field is open (Connect, Disconnect and run of the clients).  It  *)
(* holds for applications that call Connect only without a connection, and *)
(* for any application of the client whose Connect looks for one.          *)
THEOREM NoConnectionLeaks == Guarded => (Spec => []NoLeak)
<1> SUFFICES ASSUME Guarded PROVE Spec => []NoLeak
  BY Zenon
<1>1. ClientInv => NoLeak
  <2> SUFFICES ASSUME ClientInv, Quiet, NEW c \in up \ dead PROVE c = conn
    BY Zenon DEF NoLeak
  <2>1. thr[App].prog = <<>> /\ \A l \in Loops : thr[l].prog = <<>>
    BY Zenon DEF ClientInv, LoopsOK, Quiet, Free
  <2> QED
    BY <2>1, NothingLeft, Zenon DEF ClientInv, Traced, Keeps
<1> QED
  BY <1>1, ClientInitInv, ClientStep, PTL DEF Spec

-----------------------------------------------------------------------------
(* The map of handlers, and the write lock.                                *)

\* A read loop does not look into the map while it is written.
HandlersOK == member \in Locking => ~(registering /\ Looking # {})

\* Who is past "lock" has the lock, and who writes is past it.
WritersOK ==
    member \in Streaming =>
        \A s \in Senders :
            /\ thr[s].prog \notin Lockless
            /\ thr[s].prog \in Locked => wlock = {s}
            /\ thr[s].stage = "write" => thr[s].prog # <<>> /\ Head(thr[s].prog) = "write"

\* The clients whose map of handlers has a lock take it.
LEMMA HandlerLocks ==
    ASSUME member \in {"kcp", "websocket", "webtransport", "webrtc"}
    PROVE  C.locked = TRUE
<1>1. CASE member = "kcp"
  BY <1>1, Zenon DEF C, Clients, KcpHandlersLocked
<1>2. CASE member = "websocket"
  BY <1>2, Zenon DEF C, Clients, WebsocketHandlersLocked
<1>3. CASE member = "webtransport"
  BY <1>3, Zenon DEF C, Clients, WebtransportHandlersLocked
<1>4. CASE member = "webrtc"
  BY <1>4, Zenon DEF C, Clients, WebrtcHandlersLocked
<1> QED
  BY <1>1, <1>2, <1>3, <1>4, Zenon

\* The clients whose frames share a stream write under a lock.
LEMMA WriteLocks ==
    ASSUME member \in {"tcp", "kcp", "websocket", "webtransport"}
    PROVE  C.send \in {<<"copy", "lock", "write", "unlock">>, <<"lock", "copy", "write", "unlock">>}
<1>1. CASE member = "tcp"
  BY <1>1, Zenon DEF C, Clients, TcpSend
<1>2. CASE member = "kcp"
  BY <1>2, Zenon DEF C, Clients, KcpSend
<1>3. CASE member = "websocket"
  BY <1>3, Zenon DEF C, Clients, WebsocketSend
<1>4. CASE member = "webtransport"
  BY <1>4, Zenon DEF C, Clients, WebtransportSend
<1> QED
  BY <1>1, <1>2, <1>3, <1>4, Zenon

\* Both, for the client at hand.
LEMMA ClientLocks ==
    ASSUME case \in Cases
    PROVE  /\ member \in Locking => C.locked = TRUE
           /\ member \in Streaming => C.send \notin Locked \cup Lockless
<1>1. member \in DOMAIN Clients
  BY ClientAssumption, Zenon DEF ClientAssumption, member
<1>2. /\ member \in Locking => member \in {"kcp", "websocket", "webtransport", "webrtc"}
      /\ member \in Streaming => member \in {"tcp", "kcp", "websocket", "webtransport"}
  BY <1>1, Zenon DEF Clients, Locking, Streaming
<1>3. member \in Locking => C.locked = TRUE
  BY <1>2, HandlerLocks, Zenon
<1>4. member \in Streaming =>
         C.send \in {<<"copy", "lock", "write", "unlock">>, <<"lock", "copy", "write", "unlock">>}
  BY <1>2, WriteLocks, Zenon
<1>5. /\ <<"copy", "lock", "write", "unlock">> \notin Locked \cup Lockless
      /\ <<"lock", "copy", "write", "unlock">> \notin Locked \cup Lockless
  BY Zenon DEF Locked, Lockless
<1> QED
  BY <1>3, <1>4, <1>5, Zenon

\* The application and the read loops leave the senders and their lock alone, and only
\* Receive has a loop look into the map.
LEMMA OthersStayAway ==
    ASSUME ClientInv,
           \/ CallConnect \/ CallDisconnect \/ (AppStep /\ ~RegisterEnds)
           \/ \E l \in Loops : LoopStep(l)
    PROVE  /\ UNCHANGED <<case, registering, wlock>> /\ \A s \in Senders : thr'[s] = thr[s]
           /\ Looking' \subseteq Looking
<1> USE Goroutines
<1>1. UNCHANGED <<case, registering, wlock>>
  BY Zenon DEF CallConnect, CallDisconnect, AppStep, Guard, NewCtx, Dial, DialFails, Shake, ShakeFails,
     SetConn, Spawn, Wait, LoopStep, Capture, CaptureNil, CaptureCtx, Handle, Handled, ReadFails,
     Checks, Clear, Take, Close, Cancel
<1>2. DOMAIN thr = Threads /\ \A t \in Threads : thr[t] \in Thread(t)
  BY Zenon DEF ClientInv, ClientTypeOK
<1>3. ASSUME NEW t \in {App} \cup Loops, NEW r, Sets(t, r),
             t = App \/ r.stage = thr[t].stage \/ r.stage # "look"
      PROVE  (\A s \in Senders : thr'[s] = thr[s]) /\ Looking' \subseteq Looking
  BY <1>2, <1>3, Zenon DEF Sets, Looking
<1>4. \A t : Over(t).stage # "look" /\ Idle.stage # "look"
  BY FreshThread, Zenon
<1>5. \A t \in {App} \cup Loops : thr[t].prog # <<>> =>
         Rest(t).stage = thr[t].stage /\
         \A c \in Conns : [Rest(t) EXCEPT !.held = c].stage = thr[t].stage
  BY RestOfThread, Zenon DEF ClientInv
<1>6. CASE CallConnect \/ CallDisconnect \/ Guard \/ NewCtx \/ Dial \/ DialFails \/ Shake
           \/ ShakeFails \/ SetConn \/ Wait
  <2>1. \E r : Sets(App, r)
    BY <1>6, Zenon DEF CallConnect, CallDisconnect, Guard, NewCtx, Dial, DialFails, Shake, ShakeFails,
       SetConn, Wait, Goes
  <2> QED
    BY <1>1, <1>3, <2>1, Zenon
<1>7. CASE Spawn
  <2> DEFINE n == thr[App].held
  <2>1. PICK a, b : /\ thr' = [thr EXCEPT ![App] = a, ![n] = b]
                    /\ \/ b = [Idle EXCEPT !.stage = "read", !.own = n]
                       \/ b = [Idle EXCEPT !.stage = "start"]
    BY <1>7, Zenon DEF Spawn
  <2>5. n \in Conns /\ b.stage # "look"
    BY <1>2, <2>1, Zenon DEF Thread, Idle
  <2>2. \A s \in Senders : s \notin Conns
    BY ClientAssumption, Zenon DEF ClientAssumption, Conns
  <2>3. \A s \in Senders : thr'[s] = thr[s]
    BY <1>2, <2>1, <2>2, <2>5, Zenon
  <2>4. Looking' \subseteq Looking
    BY <1>2, <2>1, <2>5, Zenon DEF Looking
  <2> QED
    BY <1>1, <2>3, <2>4, Zenon
<1>8. ASSUME NEW t \in {App} \cup Loops, Take(t) \/ Close(t) \/ Cancel(t)
      PROVE  (\A s \in Senders : thr'[s] = thr[s]) /\ Looking' \subseteq Looking
  <2>1. thr[t].prog # <<>> /\ conn \in Conns
    BY <1>8, Zenon DEF Take, Close, Cancel, At, ClientInv, ClientTypeOK
  <2>2. PICK r : Sets(t, r) /\ r \in {Rest(t), [Rest(t) EXCEPT !.held = conn], Over(t)}
    BY <1>8, Zenon DEF Take, Close, Cancel, Goes
  <2> QED
    BY <1>3, <1>4, <1>5, <2>1, <2>2, Zenon
<1>9. ASSUME NEW l \in Loops, Checks(l) \/ Clear(l)
      PROVE  (\A s \in Senders : thr'[s] = thr[s]) /\ Looking' \subseteq Looking
  <2>1. thr[l].prog # <<>>
    BY <1>9, Zenon DEF Checks, Clear, At
  <2>2. PICK r : Sets(l, r) /\ r \in {Rest(l), Over(l)}
    BY <1>9, Zenon DEF Checks, Clear, Goes
  <2> QED
    BY <1>3, <1>4, <1>5, <2>1, <2>2, Zenon
<1>10. ASSUME NEW l \in Loops, Capture(l) \/ CaptureNil(l)
       PROVE  (\A s \in Senders : thr'[s] = thr[s]) /\ Looking' \subseteq Looking
  <2>1. \A n : /\ [Idle EXCEPT !.stage = "read", !.own = n].stage = "read"
               /\ [Idle EXCEPT !.stage = "ctx", !.own = n].stage = "ctx"
               /\ [Idle EXCEPT !.stage = "crash"].stage = "crash"
    BY Zenon DEF Idle
  <2>2. PICK r : /\ Sets(l, r)
                 /\ \/ r = Over(l) \/ r = [Idle EXCEPT !.stage = "crash"]
                    \/ \E n : r = [Idle EXCEPT !.stage = "read", !.own = n]
                    \/ \E n : r = [Idle EXCEPT !.stage = "ctx", !.own = n]
    BY <1>10, Zenon DEF Capture, CaptureNil
  <2> QED
    BY <1>3, <1>4, <2>1, <2>2, Zenon
<1>11. ASSUME NEW l \in Loops, CaptureCtx(l) \/ Handle(l) \/ Handled(l) \/ ReadFails(l)
       PROVE  (\A s \in Senders : thr'[s] = thr[s]) /\ Looking' \subseteq Looking
  <2>1. thr[l] \in Thread(l)
    BY <1>2, Zenon
  <2>2. /\ \A n : [thr[l] EXCEPT !.stage = "read", !.ctx = n].stage = "read"
        /\ \A q : [thr[l] EXCEPT !.stage = "end", !.prog = q].stage = "end"
        /\ \A g : [thr[l] EXCEPT !.stage = g].stage = g
    BY <2>1, Zenon DEF Thread
  <2>3. PICK r : /\ Sets(l, r)
                 /\ \/ \E n : r = [thr[l] EXCEPT !.stage = "read", !.ctx = n]
                    \/ \E q : r = [thr[l] EXCEPT !.stage = "end", !.prog = q]
                    \/ \E g \in {"handle", "start", "read"} : r = [thr[l] EXCEPT !.stage = g]
    BY <1>11, Zenon DEF CaptureCtx, Handle, Handled, ReadFails
  <2>4. r.stage \in {"read", "end", "handle", "start"}
    BY <2>2, <2>3, Zenon
  <2> QED
    BY <1>3, <2>3, <2>4, Zenon
<1> QED
  BY <1>1, <1>6, <1>7, <1>8, <1>9, <1>10, <1>11, Zenon DEF AppStep, LoopStep

\* Steps of others than senders that look up no more handlers race with nobody.
LEMMA RaceQuiet ==
    ASSUME HandlersOK, WritersOK, UNCHANGED <<case, wlock>>, registering' => registering,
           \A s \in Senders : thr'[s] = thr[s], Looking' \subseteq Looking
    PROVE  HandlersOK' /\ WritersOK'
<1>1. member' = member
  BY Zenon DEF member
<1>2. HandlersOK'
  BY <1>1, Zenon DEF HandlersOK, Locking
<1>3. WritersOK'
  BY <1>1, Zenon DEF WritersOK, Streaming
<1> QED
  BY <1>2, <1>3, Zenon

\* What a sender becomes, with its lock.
LEMMA SenderTells ==
    ASSUME ClientTypeOK, WritersOK, member \in Streaming, NEW s \in Senders,
           CallSend(s) \/ SendStep(s)
    PROVE  \E r \in Thread(s) :
              /\ Sets(s, r)
              /\ r.prog \notin Lockless
              /\ r.stage = "write" => r.prog # <<>> /\ Head(r.prog) = "write"
              /\ IF r.prog \in Locked THEN wlock' = {s} /\ (wlock = {} \/ thr[s].prog \in Locked)
                                      ELSE wlock' \in {wlock, wlock \ {s}}
<1> USE Goroutines
<1> DEFINE p == thr[s].prog
<1>1. /\ thr[s] \in Thread(s) /\ conn \in Conns /\ case \in Cases /\ p \in SendLeft
      /\ Over(s) \in Thread(s) /\ Over(s).prog = <<>> /\ Over(s).stage # "write"
  <2>1. Over(s) \in Thread(s) /\ Over(s).prog = <<>> /\ Over(s).stage \in {"gone", "idle"}
    BY FreshThread, Zenon
  <2>2. thr[s] \in Thread(s) /\ conn \in Conns /\ case \in Cases
    BY Zenon DEF ClientTypeOK
  <2>3. Left(s) = SendLeft
    BY Zenon
  <2>4. p \in SendLeft
    BY ONLY <2>2, <2>3 DEF Thread
  <2> QED
    BY ONLY <2>1, <2>2, <2>4
<1>2. p \notin Lockless /\ (p \in Locked => wlock = {s})
  BY Zenon DEF WritersOK
<1>3. <<>> \notin Locked \cup Lockless
  BY Zenon DEF Locked, Lockless
<1>4. CASE CallSend(s)
  <2> DEFINE r == [Idle EXCEPT !.stage = "send", !.prog = C.send]
  <2>1. C.send \in Left(s) /\ 0 \in Conns /\ 0 \in Nat
    BY <1>1, ClientPrograms, Zenon
  <2>2. r \in Thread(s) /\ r.prog = C.send /\ r.stage = "send"
    BY <2>1, Zenon DEF Idle, Thread, Stages
  <2>3. C.send \notin Locked \cup Lockless
    BY <1>1, ClientLocks, Zenon
  <2> QED
    BY <1>4, <2>2, <2>3, Zenon DEF CallSend
<1>5. CASE WriteBegins(s)
  <2> DEFINE r == [thr[s] EXCEPT !.stage = "write"]
  <2>1. r \in Thread(s) /\ r.prog = p
    BY <1>1, Zenon DEF Thread, Stages
  <2> QED
    BY <1>2, <1>5, <2>1, Zenon DEF WriteBegins, At
<1>6. CASE Copy(s) \/ Lock(s) \/ Unlock(s) \/ WriteEnds(s)
  <2>1. p # <<>> /\ Head(p) \in {"copy", "lock", "unlock", "write"}
    BY <1>6, Zenon DEF Copy, Lock, Unlock, WriteEnds, At
  <2> DEFINE q == Tail(p)
  <2>2. /\ q \in SendLeft /\ q \notin Lockless
        /\ Head(p) \in {"copy", "write"} /\ q \in Locked => p \in Locked
        /\ Head(p) = "unlock" => p \in Locked /\ q = <<>>
        /\ Head(p) = "write" => p \in Locked
    BY <1>1, <1>2, <2>1, SendGoesOn, Zenon
  <2>3. Rest(s) = [thr[s] EXCEPT !.prog = q]
    BY Zenon DEF Rest
  <2> HIDE DEF q
  <2>4. Rest(s) \in Thread(s) /\ Rest(s).prog = q /\ Rest(s).stage = thr[s].stage
    BY <1>1, <2>2, <2>3 DEF Thread
  <2>5. /\ [Rest(s) EXCEPT !.held = conn] \in Thread(s)
        /\ [Rest(s) EXCEPT !.held = conn].prog = q
        /\ [Rest(s) EXCEPT !.held = conn].stage = thr[s].stage
        /\ [Rest(s) EXCEPT !.stage = "send"] \in Thread(s)
        /\ [Rest(s) EXCEPT !.stage = "send"].prog = q
        /\ [Rest(s) EXCEPT !.stage = "send"].stage = "send"
    BY <1>1, <2>4, Zenon DEF Thread, Stages
  <2>6. thr[s].stage = "write" => Head(p) = "write"
    BY Zenon DEF WritersOK
  <2>7. CASE Copy(s)
    <3>1. Head(p) = "copy" /\ thr[s].stage # "write"
      BY <2>6, <2>7, Zenon DEF Copy, At
    <3>2. CASE conn = 0
      BY <1>1, <1>2, <1>3, <2>7, <3>2, Zenon DEF Copy
    <3>3. CASE conn # 0
      BY <1>2, <2>2, <2>5, <2>7, <3>1, <3>3, Zenon DEF Copy
    <3> QED
      BY <3>2, <3>3, Zenon
  <2>8. CASE Lock(s)
    <3>1. Head(p) = "lock" /\ thr[s].stage # "write" /\ wlock = {} /\ wlock' = {s}
      BY <2>6, <2>8, Zenon DEF Lock, At
    <3>2. Sets(s, Rest(s)) /\ q \in Locked
      BY <1>1, <2>1, <2>8, <3>1, SendGoesOn, Zenon DEF Lock, q
    <3> QED
      BY <2>2, <2>4, <3>1, <3>2, Zenon
  <2>9. CASE Unlock(s)
    <3>1. Head(p) = "unlock" /\ wlock' = {}
      BY <2>9, Zenon DEF Unlock, At
    <3>2. Sets(s, Over(s))
      BY <2>2, <2>4, <2>9, <3>1, Zenon DEF Unlock, Goes
    <3>3. wlock' = wlock \ {s}
      BY <1>2, <2>2, <3>1, Zenon
    <3> QED
      BY <1>1, <1>3, <3>2, <3>3, Zenon
  <2>10. CASE WriteEnds(s)
    <3>1. Head(p) = "write" /\ wlock' = wlock
      BY <2>10, Zenon DEF WriteEnds, At
    <3>2. PICK r : Sets(s, r) /\ \/ r = Over(s) /\ q = <<>>
                                 \/ r = [Rest(s) EXCEPT !.stage = "send"]
      BY <2>5, <2>10, Zenon DEF WriteEnds, Goes
    <3>3. r \in Thread(s) /\ r.prog = q /\ r.stage # "write"
      BY <1>1, <2>5, <3>2, Zenon
    <3> QED
      BY <1>2, <2>2, <3>1, <3>2, <3>3, Zenon
  <2> QED
    BY <1>6, <2>7, <2>8, <2>9, <2>10, Zenon
<1> QED
  BY <1>4, <1>5, <1>6, Zenon DEF SendStep

LEMMA SendKeepsRace ==
    ASSUME ClientInv, HandlersOK, WritersOK, NEW s \in Senders, CallSend(s) \/ SendStep(s)
    PROVE  HandlersOK' /\ WritersOK'
<1> USE Goroutines
<1>1. ClientTypeOK /\ UNCHANGED <<case, registering>>
  BY SenderMoves, Zenon DEF ClientInv
<1>2. PICK x \in Thread(s) : Sets(s, x)
  BY <1>1, SenderMoves, Zenon
<1>3. \A u \in Threads : u # s => thr'[u] = thr[u]
  BY <1>1, <1>2, ThreadSet, Zenon
<1>4. member' = member /\ Looking' = Looking
  BY <1>1, <1>3, Zenon DEF member, Looking
<1>5. HandlersOK'
  BY <1>1, <1>4, Zenon DEF HandlersOK, Locking
<1>6. ASSUME member \in Streaming PROVE WritersOK'
  <2>1. PICK r \in Thread(s) :
           /\ Sets(s, r)
           /\ r.prog \notin Lockless
           /\ r.stage = "write" => r.prog # <<>> /\ Head(r.prog) = "write"
           /\ IF r.prog \in Locked THEN wlock' = {s} /\ (wlock = {} \/ thr[s].prog \in Locked)
                                   ELSE wlock' \in {wlock, wlock \ {s}}
    BY <1>1, <1>6, SenderTells, Zenon
  <2>2. thr'[s] = r
    BY <1>1, <2>1, ThreadSet, Zenon
  <2>3. \A t \in Senders : t # s /\ thr[t].prog \in Locked => wlock = {t}
    BY <1>6, Zenon DEF WritersOK
  <2>4. thr[s].prog \in Locked => wlock = {s}
    BY <1>6, Zenon DEF WritersOK
  <2>5. \A t \in Senders : t # s /\ thr'[t].prog \in Locked => wlock' = {t}
    BY <1>3, <2>1, <2>3, <2>4
  <2>6. thr'[s].prog \in Locked => wlock' = {s}
    BY <2>1, <2>2, Zenon
  <2>7. \A t \in Senders :
           /\ thr'[t].prog \notin Lockless
           /\ thr'[t].stage = "write" => thr'[t].prog # <<>> /\ Head(thr'[t].prog) = "write"
    BY <1>3, <1>6, <2>1, <2>2, Zenon DEF WritersOK
  <2> QED
    BY <2>5, <2>6, <2>7, Zenon DEF WritersOK
<1>7. ASSUME member \notin Streaming PROVE WritersOK'
  BY <1>4, <1>7, Zenon DEF WritersOK, Streaming
<1> QED
  BY <1>5, <1>6, <1>7, Zenon

LEMMA RaceStep ==
    ASSUME ClientInv, HandlersOK, WritersOK, [Next]_vars
    PROVE  HandlersOK' /\ WritersOK'
<1> USE Goroutines
<1>1. CASE UNCHANGED vars \/ RegisterEnds \/ \E n \in Loops : PeerEnds(n)
  <2>1. UNCHANGED <<case, wlock, thr>> /\ (registering' => registering)
    BY <1>1 DEF vars, RegisterEnds, PeerEnds
  <2>2. Looking' = Looking
    BY <2>1, Zenon DEF Looking
  <2> QED
    BY <2>1, <2>2, RaceQuiet, Zenon
<1>2. CASE \/ CallConnect \/ CallDisconnect \/ (AppStep /\ ~RegisterEnds)
           \/ \E l \in Loops : LoopStep(l)
  <2>1. /\ UNCHANGED <<case, registering, wlock>> /\ \A s \in Senders : thr'[s] = thr[s]
        /\ Looking' \subseteq Looking
    BY <1>2, OthersStayAway, Zenon
  <2> QED
    BY <2>1, RaceQuiet, Zenon
<1>3. CASE RegisterBegins
  <2>1. UNCHANGED <<case, wlock, thr>> /\ (C.locked => Looking = {})
    BY <1>3, Zenon DEF RegisterBegins
  <2>2. member' = member /\ Looking' = Looking
    BY <2>1, Zenon DEF member, Looking
  <2>3. member \in Locking => Looking = {}
    BY <2>1, ClientLocks, Zenon DEF ClientInv, ClientTypeOK
  <2>4. HandlersOK'
    BY <2>2, <2>3, Zenon DEF HandlersOK, Locking
  <2>5. WritersOK'
    BY <2>1, <2>2, Zenon DEF WritersOK, Streaming
  <2> QED
    BY <2>4, <2>5, Zenon
<1>4. ASSUME NEW l \in Loops, Receive(l) PROVE HandlersOK' /\ WritersOK'
  <2>1. UNCHANGED <<case, wlock, registering>> /\ (C.locked => ~registering)
    BY <1>4, Zenon DEF Receive
  <2>2. \A s \in Senders : thr'[s] = thr[s]
    BY <1>4, Zenon DEF Receive, Sets, ClientInv, ClientTypeOK
  <2>3. member' = member
    BY <2>1, Zenon DEF member
  <2>4. member \in Locking => ~registering
    BY <2>1, ClientLocks, Zenon DEF ClientInv, ClientTypeOK
  <2>5. HandlersOK'
    BY <2>1, <2>3, <2>4, Zenon DEF HandlersOK, Locking
  <2>6. WritersOK'
    BY <2>1, <2>2, <2>3, Zenon DEF WritersOK, Streaming
  <2> QED
    BY <2>5, <2>6, Zenon
<1>5. ASSUME NEW s \in Senders, CallSend(s) \/ SendStep(s) PROVE HandlersOK' /\ WritersOK'
  BY <1>5, SendKeepsRace, Zenon
<1> QED
  BY <1>1, <1>2, <1>3, <1>4, <1>5, Zenon DEF Next, AppStep

(* For any number of connections, senders and calls, the map of handlers   *)
(* is not read while it is written where it has a lock, and two goroutines *)
(* never write to one connection at a time where frames share a stream     *)
(* (RegisterMessageHandler, SendRawData).                                  *)
THEOREM NoDataRace == Spec => []NoRace
<1>1. Init => HandlersOK /\ WritersOK
  <2>1. Idle.prog = <<>> /\ Idle.stage = "idle"
    BY FreshThread, Zenon
  <2>2. <<>> \notin Locked \cup Lockless
    BY DEF Locked, Lockless
  <2> QED
    BY <2>1, <2>2, Goroutines, Zenon DEF Init, HandlersOK, WritersOK
<1>2. ClientInv /\ HandlersOK /\ WritersOK => NoRace
  <2> SUFFICES ASSUME ClientInv, WritersOK, member \in Streaming, NEW s \in Senders,
                      NEW t \in Senders, s # t, thr[s].stage = "write", thr[t].stage = "write"
               PROVE  FALSE
    BY Zenon DEF NoRace, HandlersOK
  <2>1. thr[s].prog \in SendLeft /\ thr[t].prog \in SendLeft
    BY Goroutines DEF ClientInv, ClientTypeOK, Thread
  <2>2. thr[s].prog \in Locked /\ thr[t].prog \in Locked
    BY <2>1, SendGoesOn, Zenon DEF WritersOK
  <2> QED
    BY <2>2, Zenon DEF WritersOK
<1>3. (ClientInv /\ HandlersOK /\ WritersOK) /\ [Next]_vars => (HandlersOK /\ WritersOK)'
  BY RaceStep, Zenon
<1> QED
  BY <1>1, <1>2, <1>3, ClientInitInv, ClientStep, PTL DEF Spec

-----------------------------------------------------------------------------
(* The event stream.                                                       *)

Alone == \A s, t \in Subs : s = t

\* The latest event the worker has taken from the reader.
LastTaken(s) == IF worker[s] = "hold" THEN hand[s] ELSE seen[s]

SseTypeOK ==
    /\ caller \in [Subs -> {"idle", "wait", "ok", "failed"}]
    /\ worker \in [Subs -> {"none", "request", "announce", "select", "hold", "backoff",
                            "report", "cleanup", "done"}]
    /\ reader \in [Subs -> {"off", "read", "offer", "eof", "err", "leaked"}]
    /\ hand \in [Subs -> Nat] /\ offer \in [Subs -> Nat] /\ pos \in [Subs -> Nat]
    /\ seen \in [Subs -> Nat] /\ lastId \in Nat

\* A worker without a connection asks for nothing later than what it has handed over.
Asking(s) ==
    /\ caller[s] = "idle" => worker[s] = "none"
    /\ worker[s] \in {"none", "request", "announce", "backoff", "report"} =>
          reader[s] = "off" /\ lastId <= seen[s]
    /\ worker[s] = "announce" => pos[s] <= seen[s] + 1

\* With a connection, what is held, offered and read next follow each other.
Receiving(s) ==
    /\ reader[s] \in {"read", "offer", "eof", "err"} <=> worker[s] \in {"select", "hold"}
    /\ worker[s] = "hold" => hand[s] <= seen[s] + 1
    /\ worker[s] \in {"select", "hold"} =>
          IF reader[s] = "offer"
          THEN offer[s] <= LastTaken(s) + 1 /\ lastId <= offer[s] /\ pos[s] <= offer[s] + 1
          ELSE lastId <= LastTaken(s) /\ pos[s] <= LastTaken(s) + 1

SseInv == SseTypeOK /\ \A s \in Subs : Asking(s) /\ Receiving(s)

-----------------------------------------------------------------------------
\* The client has subscribed to nothing at first.
LEMMA SseInitInv == SseInit => SseInv
BY DEF SseInit, SseInv, SseTypeOK, Asking, Receiving, LastTaken

LEMMA SubscribeKeeps == ASSUME Alone, NEW s \in Subs, SseInv, Subscribe(s) PROVE SseInv'
<1> USE DEF Subscribe, readVars, To
<1>1. SseTypeOK'
  BY Zenon DEF SseInv, SseTypeOK
<1>2. Asking(s)'
  BY Zenon DEF SseInv, SseTypeOK, Asking, Receiving, LastTaken
<1>3. Receiving(s)'
  BY Zenon DEF SseInv, SseTypeOK, Asking, Receiving, LastTaken
<1> QED
  BY <1>1, <1>2, <1>3, Zenon DEF SseInv, Alone

LEMMA RequestKeeps == ASSUME Alone, NEW s \in Subs, SseInv, Request(s) PROVE SseInv'
<1> USE DEF Request, StartReadLoop, callVars, To, Fault
<1>1. SseTypeOK'
  BY SMTT(30) DEF SseInv, SseTypeOK
<1>2. Asking(s)'
  BY SMTT(30) DEF SseInv, SseTypeOK, Asking, Receiving, LastTaken
<1>3. Receiving(s)'
  BY SMTT(60) DEF SseInv, SseTypeOK, Asking, Receiving, LastTaken
<1> QED
  BY <1>1, <1>2, <1>3, Zenon DEF SseInv, Alone

LEMMA AnnounceKeeps == ASSUME Alone, NEW s \in Subs, SseInv, Announce(s) PROVE SseInv'
<1> USE DEF Announce, StartReadLoop, To
<1>1. SseTypeOK'
  BY Zenon DEF SseInv, SseTypeOK
<1>2. Asking(s)'
  BY Zenon DEF SseInv, SseTypeOK, Asking, Receiving, LastTaken
<1>3. Receiving(s)'
  BY Zenon DEF SseInv, SseTypeOK, Asking, Receiving, LastTaken
<1> QED
  BY <1>1, <1>2, <1>3, Zenon DEF SseInv, Alone

LEMMA TakeKeeps == ASSUME Alone, NEW s \in Subs, SseInv, TakeEvent(s) PROVE SseInv'
<1> USE DEF TakeEvent, StartReadLoop, callVars, OperationOver, To
<1>1. SseTypeOK'
  BY DEF SseInv, SseTypeOK
<1>2. Asking(s)'
  BY Zenon DEF SseInv, SseTypeOK, Asking, Receiving, LastTaken
<1>3. Receiving(s)'
  BY Zenon DEF SseInv, SseTypeOK, Asking, Receiving, LastTaken
<1> QED
  BY <1>1, <1>2, <1>3, Zenon DEF SseInv, Alone

LEMMA DeliverKeeps == ASSUME Alone, NEW s \in Subs, SseInv, Deliver(s) PROVE SseInv'
<1> USE DEF Deliver, callVars, readVars, To
<1>1. SseTypeOK'
  BY Zenon DEF SseInv, SseTypeOK
<1>2. Asking(s)'
  BY Zenon DEF SseInv, SseTypeOK, Asking, Receiving, LastTaken
<1>3. Receiving(s)'
  BY Zenon DEF SseInv, SseTypeOK, Asking, Receiving, LastTaken
<1> QED
  BY <1>1, <1>2, <1>3, Zenon DEF SseInv, Alone

LEMMA RetryKeeps == ASSUME Alone, NEW s \in Subs, SseInv, Retry(s) PROVE SseInv'
<1> USE DEF Retry, callVars, readVars, To
<1>1. SseTypeOK'
  BY Zenon DEF SseInv, SseTypeOK
<1>2. Asking(s)'
  BY Zenon DEF SseInv, SseTypeOK, Asking, Receiving, LastTaken
<1>3. Receiving(s)'
  BY Zenon DEF SseInv, SseTypeOK, Asking, Receiving, LastTaken
<1> QED
  BY <1>1, <1>2, <1>3, Zenon DEF SseInv, Alone

LEMMA GiveUpKeeps == ASSUME Alone, NEW s \in Subs, SseInv, GiveUp(s) PROVE SseInv'
<1> USE DEF GiveUp, callVars, readVars, OperationOver, To
<1>1. SseTypeOK'
  BY Zenon DEF SseInv, SseTypeOK
<1>2. Asking(s)'
  BY Zenon DEF SseInv, SseTypeOK, Asking, Receiving, LastTaken
<1>3. Receiving(s)'
  BY Zenon DEF SseInv, SseTypeOK, Asking, Receiving, LastTaken
<1> QED
  BY <1>1, <1>2, <1>3, Zenon DEF SseInv, Alone

LEMMA ReportKeeps == ASSUME Alone, NEW s \in Subs, SseInv, Report(s) PROVE SseInv'
<1> USE DEF Report, readVars, To
<1>1. SseTypeOK'
  BY Zenon DEF SseInv, SseTypeOK
<1>2. Asking(s)'
  BY Zenon DEF SseInv, SseTypeOK, Asking, Receiving, LastTaken
<1>3. Receiving(s)'
  BY Zenon DEF SseInv, SseTypeOK, Asking, Receiving, LastTaken
<1> QED
  BY <1>1, <1>2, <1>3, Zenon DEF SseInv, Alone

LEMMA CleanupKeeps == ASSUME Alone, NEW s \in Subs, SseInv, Cleanup(s) PROVE SseInv'
<1> USE DEF Cleanup, readVars, To
<1>1. SseTypeOK'
  BY Zenon DEF SseInv, SseTypeOK
<1>2. Asking(s)'
  BY Zenon DEF SseInv, SseTypeOK, Asking, Receiving, LastTaken
<1>3. Receiving(s)'
  BY Zenon DEF SseInv, SseTypeOK, Asking, Receiving, LastTaken
<1> QED
  BY <1>1, <1>2, <1>3, Zenon DEF SseInv, Alone

LEMMA ReadEventKeeps == ASSUME Alone, NEW s \in Subs, SseInv, ReadEvent(s) PROVE SseInv'
<1> USE DEF ReadEvent, callVars
<1>1. SseTypeOK'
  BY DEF SseInv, SseTypeOK
<1>2. Asking(s)'
  BY Zenon DEF SseInv, SseTypeOK, Asking, Receiving, LastTaken
<1>3. Receiving(s)'
  BY DEF SseInv, SseTypeOK, Asking, Receiving, LastTaken
<1> QED
  BY <1>1, <1>2, <1>3, Zenon DEF SseInv, Alone

LEMMA ReadEndKeeps == ASSUME Alone, NEW s \in Subs, SseInv, ReadEnd(s) PROVE SseInv'
<1> USE DEF ReadEnd, callVars, Fault
<1>1. SseTypeOK'
  BY Zenon DEF SseInv, SseTypeOK
<1>2. Asking(s)'
  BY Zenon DEF SseInv, SseTypeOK, Asking, Receiving, LastTaken
<1>3. Receiving(s)'
  BY Zenon DEF SseInv, SseTypeOK, Asking, Receiving, LastTaken
<1> QED
  BY <1>1, <1>2, <1>3, Zenon DEF SseInv, Alone

\* Unsubscribe only ever ends a worker.
LEMMA UnsubscribeKeeps ==
    ASSUME Alone, NEW u \in Users, SseInv, UnsubscribeLock(u) \/ UnsubscribeSend(u) PROVE SseInv'
<1>1. CASE UnsubscribeLock(u)
  BY <1>1, Zenon DEF UnsubscribeLock, readVars, SseInv, SseTypeOK, Asking, Receiving, LastTaken
<1>2. CASE UnsubscribeSend(u)
  <2> DEFINE s == TargetOf[u]
  <2>1. s \in Subs
    BY SseClientAssumption, Zenon DEF Alone, Subs
  <2>2. SseTypeOK'
    BY <1>2, <2>1, Zenon DEF UnsubscribeSend, OperationOver, To, SseInv, SseTypeOK
  <2>3. Asking(s)' /\ Receiving(s)'
    BY <1>2, <2>1, Zenon DEF UnsubscribeSend, OperationOver, To, SseInv, SseTypeOK, Asking, Receiving
  <2> QED
    BY <2>1, <2>2, <2>3, Zenon DEF SseInv, Alone
<1> QED
  BY <1>1, <1>2, Zenon

LEMMA NextInv == ASSUME Alone, SseInv, [SseNext]_sseVars PROVE SseInv'
<1>1. CASE UNCHANGED sseVars
  BY <1>1, Zenon DEF sseVars, SseInv, SseTypeOK, Asking, Receiving, LastTaken
<1>2. ASSUME NEW s \in Subs,
             Subscribe(s) \/ Working(s) \/ Deliver(s) \/ ReadEvent(s) \/ ReadEnd(s)
      PROVE  SseInv'
  BY <1>2, SubscribeKeeps, RequestKeeps, AnnounceKeeps, TakeKeeps, DeliverKeeps, RetryKeeps,
     GiveUpKeeps, ReportKeeps, CleanupKeeps, ReadEventKeeps, ReadEndKeeps, Zenon DEF Working
<1>3. ASSUME NEW u \in Users, UnsubscribeLock(u) \/ UnsubscribeSend(u) PROVE SseInv'
  BY <1>3, UnsubscribeKeeps, Zenon
<1> QED
  BY <1>1, <1>2, <1>3, Zenon DEF SseNext

\* Only a delivery moves seen, and by one at most.
LEMMA StepNoGap ==
    ASSUME SseInv, [SseNext]_sseVars PROVE [\A s \in Subs : seen'[s] <= seen[s] + 1]_sseVars
<1> SUFFICES ASSUME SseNext, NEW s \in Subs PROVE seen'[s] <= seen[s] + 1
  BY Zenon
<1>1. CASE \E t \in Subs : Deliver(t)
  BY <1>1 DEF Deliver, SseInv, SseTypeOK, Receiving
<1>2. CASE seen' = seen
  BY <1>2 DEF SseInv, SseTypeOK
<1>3. (\E t \in Subs : Deliver(t)) \/ seen' = seen
  BY Zenon DEF SseNext, Working, Subscribe, Request, Announce, TakeEvent, Retry, GiveUp, Report, Cleanup,
         ReadEvent, ReadEnd, UnsubscribeLock, UnsubscribeSend
<1> QED
  BY <1>1, <1>2, <1>3, Zenon

\* The events of a stream reach its subscriber without a gap, whatever connections
\* fail between and under the reader (readLoop, LastEventID).
THEOREM NoEventSkipped == Alone => (SseSpec => NoGap)
<1> SUFFICES ASSUME Alone PROVE SseSpec => NoGap
  BY Zenon
<1>1. SseInv /\ [SseNext]_sseVars => SseInv'
  BY NextInv, Zenon
<1>2. SseInv /\ [SseNext]_sseVars => [\A s \in Subs : seen'[s] <= seen[s] + 1]_sseVars
  BY StepNoGap, Zenon
<1> QED
  BY SseInitInv, <1>1, <1>2, PTL DEF SseSpec, NoGap
=============================================================================
