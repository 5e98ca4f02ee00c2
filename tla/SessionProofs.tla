-------------------------- MODULE SessionProofs ----------------------------
(***************************************************************************)
(* Proofs for SessionFamily and SfuRouter.                                 *)
(*                                                                         *)
(* A closed session is not in the session table, for any connections,      *)
(* capacities and numbers of broadcasts, in every server that stores a     *)
(* session before anybody can close it.                                    *)
(*                                                                         *)
(* A session that has unsubscribed gets no packet any more, for any        *)
(* sessions and tracks: proved for track ids that two publishers do not    *)
(* share and for calls of one subscriber that do not overlap.              *)
(***************************************************************************)
EXTENDS SessionFamily, SfuRouter, TLAPS

-----------------------------------------------------------------------------
(* The forwarding router.                                                  *)

RouterTypeOK ==
    /\ pc \in [Sessions -> {"new", "open", "in", "gone"}]
    /\ tracks \subseteq Tracks /\ closed \subseteq Tracks
    /\ records \in [Sessions -> SUBSET TrackIds] /\ fwd \in [Tracks -> SUBSET Sessions]
    /\ job \in [Sessions -> SUBSET Tracks] /\ left \subseteq Sessions \X Sessions
    /\ calls \in Nat

\* A track id belongs to one publisher.
OwnIds == \A s, t \in tracks \union closed : s[2] = t[2] => s[1] = t[1]

\* A session that is not in the table yet has done nothing.
Fresh ==
    \A x \in Sessions : pc[x] \in {"new", "open"} =>
        /\ job[x] = {}
        /\ \A t \in Tracks : x \notin fwd[t]
        /\ \A p \in Sessions : <<x, p>> \notin left

\* A track that is not registered forwards to nobody, and no call will change that.
Unregistered ==
    \A t \in Tracks \ tracks :
        fwd[t] = {} /\ \A x \in Sessions : t \in job[x] => t \in closed

\* What is forwarded to a session, or is about to be, is in its records, which is
\* where Unsubscribe looks.
Recorded ==
    \A x \in Sessions, t \in tracks : pc[x] = "in" /\ (x \in fwd[t] \/ t \in job[x]) =>
        t[2] \in records[x]

\* Who has unsubscribed gets nothing, and no call of its is about to change that.
Silent ==
    \A x, p \in Sessions : <<x, p>> \in left /\ pc[x] = "in" =>
        \A t \in Owned(p) : x \notin fwd[t] /\ t \notin job[x]

RouterInv == RouterTypeOK /\ OwnIds /\ Fresh /\ Unregistered /\ Recorded /\ Silent

-----------------------------------------------------------------------------
Alone == ~SharedIds /\ ~Overlap

LEMMA RouterInitInv == SfuInit => RouterInv
BY DEF SfuInit, RouterInv, RouterTypeOK, OwnIds, Fresh, Unregistered, Recorded, Silent, Owned, Tracks

LEMMA JoinKeeps == ASSUME NEW x \in Sessions, RouterInv, Join(x) PROVE RouterInv'
<1> USE DEF RouterInv, Join
<1>1. RouterTypeOK'
  BY Zenon DEF RouterTypeOK
<1>2. OwnIds' /\ Unregistered'
  BY Zenon DEF OwnIds, Unregistered
<1>3. Fresh' /\ Recorded' /\ Silent'
  BY DEF Fresh, Recorded, Silent, Owned, RouterTypeOK
<1> QED
  BY <1>1, <1>2, <1>3, Zenon

LEMMA AddTrackKeeps ==
    ASSUME Alone, NEW p \in Sessions, NEW i \in TrackIds, RouterInv, AddTrack(p, i) PROVE RouterInv'
<1> USE DEF RouterInv, AddTrack
<1>1. <<p, i>> \in Tracks
  BY Zenon DEF Tracks
<1>2. RouterTypeOK'
  BY <1>1, Zenon DEF RouterTypeOK
<1>3. OwnIds'
  BY <1>1 DEF OwnIds, Alone, RouterTypeOK, Tracks
<1>4. Fresh' /\ Unregistered'
  BY <1>1, Zenon DEF Fresh, Unregistered, RouterTypeOK
<1>5. Recorded' /\ Silent'
  BY <1>1, Zenon DEF Recorded, Silent, Unregistered, Owned, RouterTypeOK
<1> QED
  BY <1>2, <1>3, <1>4, <1>5, Zenon

\* Closing tracks is harmless wherever it happens.
LEMMA TrackEndsKeeps == ASSUME NEW t \in Tracks, RouterInv, TrackEnds(t) PROVE RouterInv'
<1> USE DEF RouterInv, TrackEnds, CloseTracks
<1>1. RouterTypeOK'
  BY Zenon DEF RouterTypeOK
<1>2. OwnIds'
  BY DEF OwnIds
<1>3. Fresh' /\ Unregistered'
  BY Zenon DEF Fresh, Unregistered, RouterTypeOK
<1>4. Recorded' /\ Silent'
  BY Zenon DEF Recorded, Silent, Owned, RouterTypeOK
<1> QED
  BY <1>1, <1>2, <1>3, <1>4, Zenon

\* The other tracks' ids stay recorded: nobody else's track has the id of t.
LEMMA RemoveTrackKeeps == ASSUME NEW t \in Tracks, RouterInv, RemoveTrack(t) PROVE RouterInv'
<1> USE DEF RouterInv, RemoveTrack, CloseTracks, Drop
<1>1. RouterTypeOK'
  BY Zenon DEF RouterTypeOK
<1>2. OwnIds'
  BY DEF OwnIds
<1>3. Fresh' /\ Unregistered'
  BY Zenon DEF Fresh, Unregistered, RouterTypeOK
<1>4. \A s \in tracks \ {t} : s[2] # t[2]
  BY DEF OwnIds, RouterTypeOK, Tracks
<1>5. Recorded'
  BY <1>4, Zenon DEF Recorded, RouterTypeOK
<1>6. Silent'
  BY Zenon DEF Silent, Owned, RouterTypeOK
<1> QED
  BY <1>1, <1>2, <1>3, <1>5, <1>6, Zenon

LEMMA LeaveKeeps == ASSUME NEW x \in Sessions, RouterInv, Leave(x) PROVE RouterInv'
<1> USE DEF RouterInv, Leave
<1>1. CASE pc[x] # "in"
  <2>1. RouterTypeOK'
    BY <1>1, Zenon DEF RouterTypeOK
  <2>2. OwnIds' /\ Unregistered'
    BY <1>1, Zenon DEF OwnIds, Unregistered
  <2>3. Fresh' /\ Recorded' /\ Silent'
    BY <1>1, Zenon DEF Fresh, Recorded, Silent, Owned, RouterTypeOK
  <2> QED
    BY <2>1, <2>2, <2>3, Zenon
<1>2. CASE pc[x] = "in"
  <2>1. /\ closed' = closed \union Owned(x) /\ tracks' = tracks \ Owned(x)
        /\ fwd' = [t \in Tracks |-> IF t \in Owned(x) THEN {} ELSE fwd[t]]
        /\ records' = [Drop(Ids(Owned(x))) EXCEPT ![x] = {}]
        /\ pc' = [pc EXCEPT ![x] = "gone"] /\ UNCHANGED <<job, left, calls>>
    BY <1>2, Zenon DEF CloseTracks
  <2>2. RouterTypeOK'
    BY <2>1, Zenon DEF RouterTypeOK, Drop, Owned
  <2>3. OwnIds'
    BY <2>1 DEF OwnIds, Owned
  <2>4. Fresh' /\ Unregistered'
    BY <2>1, Zenon DEF Fresh, Unregistered, RouterTypeOK, Owned
  <2>5. \A t \in tracks \ Owned(x) : t[2] \notin Ids(Owned(x))
    BY Zenon DEF OwnIds, Owned, Ids
  <2>6. Recorded'
    BY <2>1, <2>5, Zenon DEF Recorded, RouterTypeOK, Drop
  <2>7. Silent'
    BY <2>1, Zenon DEF Silent, Owned, RouterTypeOK
  <2> QED
    BY <2>2, <2>3, <2>4, <2>6, <2>7, Zenon
<1> QED
  BY <1>1, <1>2, Zenon

LEMMA SubscribeKeeps ==
    ASSUME NEW x \in Sessions, NEW p \in Sessions, RouterInv, Subscribe(x, p) PROVE RouterInv'
<1> USE DEF RouterInv, Subscribe
<1>1. RouterTypeOK'
  BY DEF RouterTypeOK, Owned, Ids, Tracks
<1>2. OwnIds'
  BY Zenon DEF OwnIds
<1>3. Fresh' /\ Unregistered'
  BY Zenon DEF Fresh, Unregistered, RouterTypeOK, Owned
<1>4. Recorded'
  BY Zenon DEF Recorded, RouterTypeOK, Owned, Ids
<1>5. Silent'
  BY Zenon DEF Silent, Owned, RouterTypeOK
<1> QED
  BY <1>1, <1>2, <1>3, <1>4, <1>5, Zenon

\* A track that somebody who has unsubscribed would be connected to is in no job.
LEMMA ConnectKeeps ==
    ASSUME NEW x \in Sessions, NEW t \in Tracks, RouterInv, Connect(x, t) PROVE RouterInv'
<1> USE DEF RouterInv, Connect
<1>1. RouterTypeOK'
  BY Zenon DEF RouterTypeOK
<1>2. OwnIds'
  BY Zenon DEF OwnIds
<1>3. Fresh' /\ Unregistered'
  BY Zenon DEF Fresh, Unregistered, RouterTypeOK
<1>4. Recorded'
  BY Zenon DEF Recorded, RouterTypeOK
<1>5. Silent'
  BY DEF Silent, Owned, RouterTypeOK
<1> QED
  BY <1>1, <1>2, <1>3, <1>4, <1>5, Zenon

\* Unsubscribe finds every track it must stop, since it is recorded, and drops no
\* record of another publisher's.
LEMMA UnsubscribeKeeps1 ==
    ASSUME Alone, NEW x \in Sessions, NEW p \in Sessions, RouterInv, Unsubscribe(x, p) PROVE RouterInv'
<1> DEFINE mine == records[x] \intersect Ids(Owned(p))
<1>1. /\ pc[x] = "in" /\ job[x] = {} /\ records' = [records EXCEPT ![x] = @ \ mine]
      /\ fwd' = [t \in Tracks |->
                    IF t[1] = p /\ t[2] \in mine THEN fwd[t] \ {x} ELSE fwd[t]]
      /\ left' = left \union {<<x, p>>} /\ UNCHANGED <<pc, tracks, closed, job, calls>>
  BY Zenon DEF Unsubscribe, Free, Alone
<1>2. \A t \in tracks : t[2] \in Ids(Owned(p)) => t[1] = p
  BY Zenon DEF RouterInv, OwnIds, Owned, Ids
<1>3. \A t \in Owned(p) : t \in tracks /\ t[1] = p /\ t[2] \in Ids(Owned(p))
  BY Zenon DEF Owned, Ids
<1>4. RouterTypeOK'
  BY <1>1 DEF RouterInv, RouterTypeOK
<1>5. OwnIds'
  BY <1>1, Zenon DEF RouterInv, OwnIds
<1>6. Fresh' /\ Unregistered'
  BY <1>1, Zenon DEF RouterInv, Fresh, Unregistered, RouterTypeOK
<1>7. Recorded'
  BY <1>1, <1>2, Zenon DEF RouterInv, Recorded, RouterTypeOK
<1>8. Silent'
  <2> SUFFICES ASSUME NEW y \in Sessions, NEW q \in Sessions, <<y, q>> \in left', pc[y] = "in",
                      NEW t \in Owned(q)
               PROVE  y \notin fwd'[t] /\ t \notin job[y]
    BY <1>1, Zenon DEF Silent, Owned
  <2>1. t \in tracks /\ t \in Tracks
    BY Zenon DEF Owned, RouterInv, RouterTypeOK
  <2>2. CASE <<y, q>> \in left
    BY <1>1, <2>1, <2>2, Zenon DEF RouterInv, Silent, RouterTypeOK
  <2>3. CASE y = x /\ q = p
    BY <1>1, <1>3, <2>1, <2>3, Zenon DEF RouterInv, Recorded, RouterTypeOK
  <2> QED
    BY <1>1, <2>2, <2>3, Zenon
<1> QED
  BY <1>4, <1>5, <1>6, <1>7, <1>8, Zenon DEF RouterInv

\* A session that has unsubscribed from a publisher gets no more of its packets,
\* whatever sessions join, publish, subscribe and leave meanwhile
\* (SFURouter.Unsubscribe, MediaTrack.RemoveSubscriber).
THEOREM UnsubscribedStaysSilent == Alone => (SfuSpec => []UnsubscribedIsSilent)
<1> SUFFICES ASSUME Alone PROVE SfuSpec => []UnsubscribedIsSilent
  BY Zenon
<1>1. RouterInv /\ [SfuNext]_sfuVars => RouterInv'
  <2> SUFFICES ASSUME RouterInv, [SfuNext]_sfuVars PROVE RouterInv'
    BY Zenon
  <2>1. CASE UNCHANGED sfuVars
    BY <2>1, Zenon DEF sfuVars, RouterInv, RouterTypeOK, OwnIds, Fresh, Unregistered, Recorded, Silent, Owned
  <2>2. ASSUME NEW x \in Sessions, Join(x) \/ Leave(x) PROVE RouterInv'
    BY <2>2, JoinKeeps, LeaveKeeps, Zenon
  <2>3. ASSUME NEW x \in Sessions, NEW p \in Sessions, Subscribe(x, p) \/ Unsubscribe(x, p)
        PROVE  RouterInv'
    BY <2>3, SubscribeKeeps, UnsubscribeKeeps1, Zenon
  <2>4. ASSUME NEW t \in Tracks, TrackEnds(t) \/ RemoveTrack(t) PROVE RouterInv'
    BY <2>4, TrackEndsKeeps, RemoveTrackKeeps, Zenon
  <2>5. ASSUME NEW t \in Tracks, AddTrack(t[1], t[2]) PROVE RouterInv'
    <3>1. t[1] \in Sessions /\ t[2] \in TrackIds
      BY Zenon DEF Tracks
    <3> QED
      BY <2>5, <3>1, AddTrackKeeps, Zenon
  <2>6. ASSUME NEW t \in Tracks, NEW x \in Sessions, Connect(x, t) PROVE RouterInv'
    BY <2>6, ConnectKeeps, Zenon
  <2> QED
    BY <2>1, <2>2, <2>3, <2>4, <2>5, <2>6, Zenon DEF SfuNext
<1>2. RouterInv => UnsubscribedIsSilent
  BY Zenon DEF RouterInv, Silent, UnsubscribedIsSilent
<1> QED
  BY RouterInitInv, <1>1, <1>2, PTL DEF SfuSpec

-----------------------------------------------------------------------------
(* The session table.  That a closed session is not in it depends on who   *)
(* may close one: SessionInv says that nobody has a session to close       *)
(* before it was stored, and that a Close under way will still delete it.  *)

Adding == <<"store", "tell", "listen">>
AddsLeft == {Adding, <<"tell", "listen">>, <<"listen">>, <<>>}
Deleting == {<<"done", "delete", "tell">>, <<"delete", "tell">>}
ClosesLeft == Deleting \cup {<<"tell">>, <<>>}

SessionTypeOK ==
    /\ peer \in [Conns -> {"no", "dial", "up", "slow", "gone"}]
    /\ add \in [Conns -> AddsLeft] /\ closing \in [Conns -> ClosesLeft]
    /\ ses \in [Conns -> BOOLEAN] /\ once \in [Conns -> BOOLEAN]
    /\ rd \in [Conns -> {"none", "run", "close", "end"}]
    /\ wr \in [Conns -> {"none", "run", "write", "close", "end"}]
    /\ table \subseteq Conns /\ todo \subseteq Conns

\* The session was handed to AddStore.
Stored(c) == ses[c] /\ add[c] # Adding

\* Whoever knows of a session has it from after AddStore.
KnownIsStored ==
    \A c \in Conns :
        /\ peer[c] \in {"no", "dial"} => ~ses[c]
        /\ ~ses[c] => add[c] = <<>>
        /\ c \in table \/ c \in todo \/ once[c] \/ rd[c] # "none" \/ wr[c] # "none" => Stored(c)

\* A session that is closed is not in the table, or Close has still to delete it.
CloseDeletes == \A c \in Conns : once[c] /\ c \in table => closing[c] \in Deleting

TableInv == SessionTypeOK /\ KnownIsStored /\ CloseDeletes
SessionInv == case \in Cases /\ (member \in StoresFirst => TableInv)

\* The programs of the servers this is about.
LEMMA StoresFirstProfile ==
    ASSUME case \in Cases, member \in StoresFirst
    PROVE  P.add = Adding /\ P.close \in Deleting /\ P.reads = TRUE
<1>1. member \in {"tcp", "kcp", "websocket", "webtransport"}
  BY Zenon DEF StoresFirst, Servers
<1> QED
  BY <1>1 DEF P, Servers, Server, Adding, Deleting, TcpAdd, TcpClose, TcpPumps, KcpAdd, KcpClose,
     KcpPumps, WebsocketAdd, WebsocketClose, WebsocketPumps, WebtransportAdd,
     WebtransportClose, WebtransportPumps

\* Where the steps of adding a session lead.
LEMMA AddsGoOn ==
    ASSUME NEW a \in AddsLeft, a # <<>>
    PROVE  /\ Head(a) \in {"store", "tell", "listen"} /\ Tail(a) \in AddsLeft \ {Adding}
           /\ Head(a) = "store" <=> a = Adding
<1>1. CASE a = Adding
  BY <1>1 DEF AddsLeft, Adding
<1>2. CASE a = <<"tell", "listen">>
  BY <1>2 DEF AddsLeft, Adding
<1>3. CASE a = <<"listen">>
  BY <1>3 DEF AddsLeft, Adding
<1> QED
  BY <1>1, <1>2, <1>3, Zenon DEF AddsLeft

\* Where the steps of closing one lead.
LEMMA ClosesGoOn ==
    ASSUME NEW a \in ClosesLeft, a # <<>>
    PROVE  /\ Head(a) \in {"done", "delete", "tell"} /\ Tail(a) \in ClosesLeft
           /\ Head(a) = "done" => Tail(a) \in Deleting
           /\ Head(a) = "tell" => a \notin Deleting
<1>1. CASE a = <<"done", "delete", "tell">>
  BY <1>1 DEF ClosesLeft, Deleting
<1>2. CASE a = <<"delete", "tell">>
  BY <1>2 DEF ClosesLeft, Deleting
<1>3. CASE a = <<"tell">>
  BY <1>3 DEF ClosesLeft, Deleting
<1> QED
  BY <1>1, <1>2, <1>3, Zenon DEF ClosesLeft, Deleting

-----------------------------------------------------------------------------
(* Steps that leave the session table and what leads to it alone.          *)

\* Clients come and go; the connections of no accepted client become sessions.
LEMMA PeerKeepsTable ==
    ASSUME TableInv, UNCHANGED <<add, ses, table, once, closing, rd, wr>>, todo' \subseteq todo,
           peer' \in [Conns -> {"no", "dial", "up", "slow", "gone"}],
           \A c \in Conns : peer'[c] \in {"no", "dial"} => peer[c] \in {"no", "dial"}
    PROVE  TableInv'
<1>1. SessionTypeOK'
  BY Zenon DEF TableInv, SessionTypeOK
<1>2. KnownIsStored'
  BY Zenon DEF TableInv, SessionTypeOK, KnownIsStored, Stored
<1>3. CloseDeletes'
  BY Zenon DEF TableInv, CloseDeletes
<1> QED
  BY <1>1, <1>2, <1>3, Zenon DEF TableInv

\* Steps that touch neither sessions nor the table.
LEMMA QuietKeepsTable ==
    ASSUME TableInv, UNCHANGED <<peer, add, ses, table, once, closing, rd, wr>>,
           todo' \subseteq todo
    PROVE  TableInv'
BY PeerKeepsTable, Zenon DEF TableInv, SessionTypeOK

-----------------------------------------------------------------------------
(* From a connection to a session.                                         *)

LEMMA AcceptKeepsTable ==
    ASSUME case \in Cases, member \in StoresFirst, TableInv, NEW c \in Conns, Accept(c)
    PROVE  TableInv'
<1> USE DEF TableInv, Accept, runVars, stopVars
<1>1. P.add = Adding
  BY StoresFirstProfile, Zenon
<1>2. SessionTypeOK'
  BY <1>1, Zenon DEF SessionTypeOK, AddsLeft
<1>3. ~ses[c]
  BY Zenon DEF KnownIsStored
<1>4. KnownIsStored'
  BY <1>1, <1>3 DEF SessionTypeOK, KnownIsStored, Stored
<1>5. CloseDeletes'
  BY Zenon DEF CloseDeletes
<1> QED
  BY <1>2, <1>4, <1>5, Zenon

\* One step of addSession or Listen.
LEMMA AddKeepsTable ==
    ASSUME case \in Cases, member \in StoresFirst, TableInv, NEW c \in Conns, AddStep(c)
    PROVE  TableInv'
<1> USE DEF TableInv, runVars, stopVars
<1>1. add[c] # <<>> /\ add[c] \in AddsLeft
  BY Zenon DEF AddStep, AddOpen, AddCheck, AddStore, AddTell, AddListen, SessionTypeOK
<1>2. /\ Head(add[c]) \in {"store", "tell", "listen"} /\ Tail(add[c]) \in AddsLeft \ {Adding}
      /\ Head(add[c]) = "store" <=> add[c] = Adding
  BY <1>1, AddsGoOn, Zenon
<1>3. ses[c]
  BY <1>1, Zenon DEF KnownIsStored
<1>4. add' = [add EXCEPT ![c] = Tail(@)] /\ UNCHANGED <<peer, ses, once, closing, todo>>
  BY <1>2, Zenon DEF AddStep, AddOpen, AddCheck, AddStore, AddTell, AddListen
<1>5. /\ table' = table \/ (table' = table \union {c} /\ UNCHANGED <<rd, wr>>)
      /\ UNCHANGED <<rd, wr>> \/ (AddListen(c) /\ table' = table)
  BY <1>2, Zenon DEF AddStep, AddOpen, AddCheck, AddStore, AddTell, AddListen
<1>6. /\ rd' \in [Conns -> {"none", "run", "close", "end"}]
      /\ wr' \in [Conns -> {"none", "run", "write", "close", "end"}]
      /\ \A d \in Conns : d # c => rd'[d] = rd[d] /\ wr'[d] = wr[d]
  BY <1>5, SMTT(30) DEF AddListen, SessionTypeOK
<1>7. SessionTypeOK'
  BY <1>2, <1>4, <1>5, <1>6, Zenon DEF SessionTypeOK
<1>8. KnownIsStored'
  BY <1>2, <1>3, <1>4, <1>5, <1>6 DEF SessionTypeOK, KnownIsStored, Stored
<1>9. CloseDeletes'
  <2>1. once[c] => Head(add[c]) # "store"
    BY <1>2, Zenon DEF KnownIsStored, Stored
  <2>2. once[c] => table' = table
    BY <2>1, Zenon DEF AddStep, AddOpen, AddCheck, AddStore, AddTell, AddListen
  <2> QED
    BY <1>4, <1>5, <2>2, Zenon DEF CloseDeletes
<1> QED
  BY <1>7, <1>8, <1>9, Zenon

-----------------------------------------------------------------------------
(* Close, and those who call it.                                           *)

\* One step of Close.
LEMMA CloseKeepsTable ==
    ASSUME TableInv, NEW c \in Conns, CloseStep(c)
    PROVE  TableInv'
<1> USE DEF TableInv, runVars, stopVars
<1>1. closing[c] # <<>> /\ closing[c] \in ClosesLeft
  BY Zenon DEF CloseStep, CloseDone, CloseDelete, CloseTell, SessionTypeOK
<1>2. /\ Head(closing[c]) \in {"done", "delete", "tell"} /\ Tail(closing[c]) \in ClosesLeft
      /\ Head(closing[c]) = "done" => Tail(closing[c]) \in Deleting
      /\ Head(closing[c]) = "tell" => closing[c] \notin Deleting
  BY <1>1, ClosesGoOn, Zenon
<1>3. /\ closing' = [closing EXCEPT ![c] = Tail(closing[c])]
      /\ UNCHANGED <<peer, add, ses, once, rd, wr, todo>>
  BY <1>2, Zenon DEF CloseStep, CloseDone, CloseDelete, CloseTell
<1>4. table' \subseteq table
  BY Zenon DEF CloseStep, CloseDone, CloseDelete, CloseTell
<1>5. SessionTypeOK'
  BY <1>2, <1>3, <1>4, Zenon DEF SessionTypeOK
<1>6. KnownIsStored'
  BY <1>3, <1>4, Zenon DEF KnownIsStored, Stored
<1>7. once[c] /\ c \in table' => Tail(closing[c]) \in Deleting
  BY <1>2, <1>4, Zenon DEF CloseStep, CloseDone, CloseDelete, CloseTell, CloseDeletes
<1>8. CloseDeletes'
  BY <1>3, <1>4, <1>7, Zenon DEF CloseDeletes, SessionTypeOK
<1> QED
  BY <1>5, <1>6, <1>8, Zenon

\* A call of Close, by somebody who has the session.
LEMMA BeginKeepsTable ==
    ASSUME case \in Cases, member \in StoresFirst, TableInv, NEW c \in Conns, Stored(c),
           BeginClose(c), UNCHANGED <<peer, add, ses, table, todo>>,
           rd' \in [Conns -> {"none", "run", "close", "end"}],
           wr' \in [Conns -> {"none", "run", "write", "close", "end"}],
           \A d \in Conns : d # c => rd'[d] = rd[d] /\ wr'[d] = wr[d]
    PROVE  TableInv'
<1> USE DEF TableInv, BeginClose
<1>1. P.close \in Deleting
  BY StoresFirstProfile, Zenon
<1>2. SessionTypeOK'
  BY <1>1, Zenon DEF SessionTypeOK, ClosesLeft
<1>3. KnownIsStored'
  BY DEF SessionTypeOK, KnownIsStored, Stored
<1>4. CloseDeletes'
  BY <1>1, Zenon DEF SessionTypeOK, CloseDeletes
<1> QED
  BY <1>2, <1>3, <1>4, Zenon

\* A goroutine of the session moves on and calls nobody.
LEMMA PumpKeepsTable ==
    ASSUME TableInv, NEW c \in Conns, Stored(c),
           UNCHANGED <<peer, add, ses, table, once, closing, todo>>,
           rd' \in [Conns -> {"none", "run", "close", "end"}],
           wr' \in [Conns -> {"none", "run", "write", "close", "end"}],
           \A d \in Conns : d # c => rd'[d] = rd[d] /\ wr'[d] = wr[d]
    PROVE  TableInv'
<1> USE DEF TableInv
<1>1. SessionTypeOK'
  BY Zenon DEF SessionTypeOK
<1>2. KnownIsStored'
  BY DEF SessionTypeOK, KnownIsStored, Stored
<1>3. CloseDeletes'
  BY Zenon DEF CloseDeletes
<1> QED
  BY <1>1, <1>2, <1>3, Zenon

LEMMA GoroutineKeepsTable ==
    ASSUME case \in Cases, member \in StoresFirst, TableInv, NEW c \in Conns,
           ReadEnds(c) \/ WriteStep(c) \/ WriteQuits(c) \/ PumpEnds(c)
    PROVE  TableInv'
<1> USE DEF stopVars, sesVars
<1>1. Stored(c)
  BY Zenon DEF TableInv, KnownIsStored, ReadEnds, WriteStep, WriteTakes, WriteEnds, WriteQuits, PumpEnds,
     Closed
<1>2. UNCHANGED <<peer, add, ses, table, todo>>
  BY Zenon DEF ReadEnds, WriteStep, WriteTakes, WriteEnds, WriteQuits, PumpEnds
<1>3. /\ rd' \in [Conns -> {"none", "run", "close", "end"}]
      /\ \A d \in Conns : d # c => rd'[d] = rd[d]
  BY Zenon DEF TableInv, SessionTypeOK, ReadEnds, WriteStep, WriteTakes, WriteEnds, WriteQuits, PumpEnds
<1>4. /\ wr' \in [Conns -> {"none", "run", "write", "close", "end"}]
      /\ \A d \in Conns : d # c => wr'[d] = wr[d]
  BY Zenon DEF TableInv, SessionTypeOK, ReadEnds, WriteStep, WriteTakes, WriteEnds, WriteQuits, PumpEnds
<1>5. BeginClose(c) \/ UNCHANGED <<once, closing>>
  BY Zenon DEF ReadEnds, WriteStep, WriteTakes, WriteEnds, WriteQuits, PumpEnds
<1>6. CASE BeginClose(c)
  BY <1>1, <1>2, <1>3, <1>4, <1>6, BeginKeepsTable, Zenon
<1>7. CASE UNCHANGED <<once, closing>>
  BY <1>1, <1>2, <1>3, <1>4, <1>7, PumpKeepsTable, Zenon
<1> QED
  BY <1>5, <1>6, <1>7, Zenon

-----------------------------------------------------------------------------
(* Stop.                                                                   *)

LEMMA StopKeepsTable ==
    ASSUME case \in Cases, member \in StoresFirst, TableInv, StopStep
    PROVE  TableInv'
<1> USE DEF srvVars, sesVars, runVars
<1>1. CASE StopFlag \/ StopMovesOn
  BY <1>1, QuietKeepsTable, Zenon DEF StopFlag, StopMovesOn
<1>2. CASE StopUnlisten \/ StopShutdown
  <2>1. PICK kept : /\ peer' = Cut(kept)
                    /\ UNCHANGED <<add, ses, table, once, closing, rd, wr, todo>>
    BY <1>2, Zenon DEF StopUnlisten, StopShutdown
  <2>2. \A c \in Conns : peer'[c] \in {peer[c], "gone"}
    BY <2>1, Zenon DEF Cut
  <2>3. peer' \in [Conns -> {"no", "dial", "up", "slow", "gone"}]
    BY <2>1, Zenon DEF Cut, TableInv, SessionTypeOK
  <2> QED
    BY <2>1, <2>2, <2>3, PeerKeepsTable, Zenon
<1>3. CASE StopSnapshot
  <2> USE <1>3 DEF TableInv, StopSnapshot
  <2>1. SessionTypeOK'
    BY Zenon DEF SessionTypeOK
  <2>2. KnownIsStored'
    BY Zenon DEF KnownIsStored, Stored
  <2>3. CloseDeletes'
    BY Zenon DEF CloseDeletes
  <2> QED
    BY <2>1, <2>2, <2>3, Zenon
<1>4. CASE StopSweep
  <2> USE <1>4 DEF TableInv, StopSweep
  <2>1. SessionTypeOK'
    BY Zenon DEF SessionTypeOK
  <2>2. KnownIsStored'
    BY Zenon DEF KnownIsStored, Stored
  <2>3. CloseDeletes'
    BY Zenon DEF CloseDeletes
  <2> QED
    BY <2>1, <2>2, <2>3, Zenon
<1>5. ASSUME NEW c \in Conns, StopCloses(c) PROVE TableInv'
  <2>1. Stored(c)
    BY <1>5, Zenon DEF StopCloses, TableInv, KnownIsStored
  <2>2. CASE Closed(c)
    BY <1>5, <2>2, QuietKeepsTable, Zenon DEF StopCloses
  <2>3. CASE ~Closed(c)
    BY <1>5, <2>1, <2>3, BeginKeepsTable, Zenon DEF StopCloses, TableInv, SessionTypeOK
  <2> QED
    BY <2>2, <2>3, Zenon
<1> QED
  BY <1>1, <1>2, <1>3, <1>4, <1>5, Zenon DEF StopStep

-----------------------------------------------------------------------------
LEMMA SessionInitInv == Init => SessionInv
BY DEF Init, SessionInv, TableInv, SessionTypeOK, KnownIsStored, CloseDeletes, AddsLeft, ClosesLeft

LEMMA SessionStep == SessionInv /\ [Next]_vars => SessionInv'
<1> SUFFICES ASSUME SessionInv, [Next]_vars PROVE SessionInv'
  BY Zenon
<1> USE DEF srvVars, sesVars, runVars, stopVars, castVars
<1>1. case' = case
  BY ZenonT(30) DEF Next, vars, StartStep, AcceptCheck, AcceptFails, Broadcast, CallStop, StopStep, StopFlag,
     StopUnlisten, StopShutdown, StopSnapshot, StopSweep, StopMovesOn, StopCloses, Dial, Accept,
     AddStep, AddOpen, AddCheck, AddStore, AddTell, AddListen, CloseStep, CloseDone, CloseDelete,
     CloseTell, PeerMoves, PeerCallback, ReadEnds, WriteStep, WriteTakes, WriteEnds, WriteQuits,
     PumpEnds, SendMessage
<1>2. case' \in Cases /\ member' = member
  BY <1>1, Zenon DEF SessionInv, member
<1> SUFFICES ASSUME member \in StoresFirst PROVE TableInv'
  BY <1>2, Zenon DEF SessionInv, StoresFirst
<1>3. case \in Cases /\ TableInv
  BY Zenon DEF SessionInv
<1>4. CASE StartStep \/ AcceptCheck \/ AcceptFails \/ Broadcast \/ CallStop \/ UNCHANGED vars
  BY <1>3, <1>4, QuietKeepsTable, Zenon DEF vars, StartStep, AcceptCheck, AcceptFails, Broadcast, CallStop
<1>5. CASE StopStep
  BY <1>3, <1>5, StopKeepsTable, Zenon
<1>6. ASSUME NEW c \in Conns, Dial(c) \/ PeerMoves(c) PROVE TableInv'
  BY <1>3, <1>6, PeerKeepsTable, Zenon DEF Dial, PeerMoves, TableInv, SessionTypeOK
<1>7. ASSUME NEW c \in Conns, Accept(c) PROVE TableInv'
  BY <1>3, <1>7, AcceptKeepsTable, Zenon
<1>8. ASSUME NEW c \in Conns, AddStep(c) PROVE TableInv'
  BY <1>3, <1>8, AddKeepsTable, Zenon
<1>9. ASSUME NEW c \in Conns, CloseStep(c) PROVE TableInv'
  BY <1>3, <1>9, CloseKeepsTable, Zenon
<1>10. ASSUME NEW c \in Conns, PeerCallback(c) PROVE TableInv'
  BY <1>3, <1>10, StoresFirstProfile, Zenon DEF PeerCallback
<1>11. ASSUME NEW c \in Conns, ReadEnds(c) \/ WriteStep(c) \/ WriteQuits(c) \/ PumpEnds(c)
       PROVE  TableInv'
  BY <1>3, <1>11, GoroutineKeepsTable, Zenon
<1>12. ASSUME NEW c \in Conns, SendMessage(c) PROVE TableInv'
  BY <1>3, <1>12, QuietKeepsTable, Zenon DEF SendMessage
<1> QED
  BY <1>4, <1>5, <1>6, <1>7, <1>8, <1>9, <1>10, <1>11, <1>12, Zenon DEF Next

(* A session that was closed, and whose handler is through, is out of the  *)
(* session table, for any number of connections (addSession,               *)
(* removeSession and Session.Close of the tcp, kcp, websocket and          *)
(* webtransport servers).                                                  *)
THEOREM ClosedSessionIsForgotten == Spec => []NoGhost
<1>1. SessionInv => NoGhost
  BY DEF SessionInv, TableInv, CloseDeletes, NoGhost, Closed, Deleting
<1> QED
  BY <1>1, SessionInitInv, SessionStep, PTL DEF Spec
=============================================================================
