----------------------------- MODULE ServeFamily ----------------------------
(***************************************************************************)
(* Start, Stop and Endpoint of the transport servers of ServeProfiles:     *)
(* Start blocks in Serve until Stop, from another goroutine, ends it.  The *)
(* address is fixed, so a port that is still open makes the next listen    *)
(* fail.  Listeners and library servers are numbered as they are made; 0   *)
(* is nil.                                                                 *)
(***************************************************************************)
EXTENDS Naturals, FiniteSets, Sequences, ServeProfiles

CONSTANTS
    Cases,      \* the servers to look at, each with whether its calls overlap
    Starters,   \* goroutines that call Start
    MaxStarts,  \* bound: calls of Start
    MaxStops    \* bound: calls of Stop

ASSUME ServeFamilyAssumption ==
    /\ Cases \subseteq [member : DOMAIN Serves, overlap : BOOLEAN]
    /\ MaxStarts \in Nat /\ MaxStops \in Nat

VARIABLES
    case,                     \* the member of Cases that is looked at
    running, stopped, ever,   \* the flags of the Server
    lis, srv,                 \* its listener and its library server
    nlis, nsrv,               \* how many were made
    open,                     \* listeners that are open
    shut,                     \* library servers that were shut down
    prog, held, serving,      \* per starter: steps left, locals, what it serves
    result,                   \* per starter: what Start returned last
    told, served,             \* per starter: Stop called since, was in Serve
    stopProg, stopSrv,        \* Stop: steps left, the server it took
    saw,                      \* Stop: what was being served when it was called
    crashed,                  \* a nil listener or server was used
    starts, stops

flagVars == <<running, stopped, ever>>
objVars  == <<lis, srv, nlis, nsrv, open, shut>>
workVars == <<prog, held, serving, result, told, served>>
stopVars == <<stopProg, stopSrv, saw>>
cntVars  == <<starts, stops>>
vars == <<case, flagVars, objVars, workVars, stopVars, crashed, cntVars>>

member == case.member
P == Serves[member]

\* Stop may be called at any time, and Start as soon as Stop has returned; else
\* only when nothing is under way.
Overlap == case.overlap

None == [srv |-> 0, lis |-> 0]
Serving(w) == serving[w] # None

\* Serve of starter w has been ended and is about to return.
Ended(w) ==
    CASE P.kind = "http" -> serving[w].srv \in shut \/ serving[w].lis \notin open
      [] P.kind \in {"bare", "fast"} -> serving[w].lis \notin open
      [] OTHER -> serving[w].srv \in shut

Busy(w) == prog[w] # <<>>

\* Nobody is inside a call, unless it is in Serve to stay.
Quiet == stopProg = <<>> /\ \A w \in Starters : Busy(w) => Serving(w) /\ ~Ended(w)

Init ==
    /\ case \in Cases
    /\ running = FALSE /\ stopped = FALSE /\ ever = FALSE
    /\ srv = (IF member = "thrift" THEN 0 ELSE 1) /\ nsrv = srv
    /\ lis = (IF member = "sse" THEN 1 ELSE 0) /\ nlis = lis
    /\ open = (IF lis = 0 THEN {} ELSE {lis}) /\ shut = {}
    /\ prog = [w \in Starters |-> <<>>]
    /\ held = [w \in Starters |-> None] /\ serving = [w \in Starters |-> None]
    /\ result = [w \in Starters |-> "none"]
    /\ told = [w \in Starters |-> FALSE] /\ served = [w \in Starters |-> FALSE]
    /\ stopProg = <<>> /\ stopSrv = 0 /\ saw = {}
    /\ crashed = FALSE /\ starts = 0 /\ stops = 0

-----------------------------------------------------------------------------
(* Start.                                                                  *)

CallStart(w) ==
    /\ ~crashed /\ ~Busy(w) /\ starts < MaxStarts
    /\ stopProg = <<>>
    /\ \A v \in Starters : Busy(v) => Overlap /\ told[v]
    /\ starts' = starts + 1
    /\ prog' = [prog EXCEPT ![w] = P.start]
    /\ told' = [told EXCEPT ![w] = FALSE]
    /\ served' = [served EXCEPT ![w] = FALSE]
    /\ result' = [result EXCEPT ![w] = "none"]
    /\ UNCHANGED <<case, flagVars, objVars, held, serving, stopVars, crashed, stops>>

At(w, step) == ~crashed /\ Busy(w) /\ ~Serving(w) /\ Head(prog[w]) = step

Return(w, r) ==
    /\ prog' = [prog EXCEPT ![w] = <<>>]
    /\ held' = [held EXCEPT ![w] = None]
    /\ result' = [result EXCEPT ![w] = r]

Advance(w) ==
    IF Len(prog[w]) = 1 THEN Return(w, "nil")
    ELSE prog' = [prog EXCEPT ![w] = Tail(@)] /\ UNCHANGED <<held, result>>

Rest == <<case, serving, told, served, stopVars, cntVars>>

StartGuard(w) ==
    /\ At(w, "guard")
    /\ IF running THEN Return(w, "nil") ELSE Advance(w)
    /\ UNCHANGED <<Rest, flagVars, objVars, crashed>>

StartEnter(w) ==
    /\ At(w, "enter")
    /\ running' = TRUE
    /\ IF running THEN Return(w, "nil") ELSE Advance(w)
    /\ UNCHANGED <<Rest, stopped, ever, objVars, crashed>>

\* listenAndEndpoint: what it does to the listener, and whether it succeeds.
CanListen == lis # 0 \/ open = {}
Listen ==
    IF lis # 0 THEN UNCHANGED <<lis, nlis, open>>
    ELSE lis' = nlis + 1 /\ nlis' = nlis + 1 /\ open' = open \cup {nlis + 1}

StartEnterListen(w) ==
    /\ At(w, "enterListen")
    /\ IF running \/ ~CanListen
       THEN /\ Return(w, IF running THEN "nil" ELSE "err")
            /\ UNCHANGED <<running, lis, nlis, open>>
       ELSE /\ Listen /\ running' = TRUE
            /\ prog' = [prog EXCEPT ![w] = Tail(@)]
            /\ held' = [held EXCEPT ![w].lis = lis']
            /\ UNCHANGED result
    /\ UNCHANGED <<Rest, stopped, ever, srv, nsrv, shut, crashed>>

StartListen(w) ==
    /\ At(w, "listen")
    /\ IF CanListen THEN Listen /\ Advance(w) /\ UNCHANGED running
       ELSE /\ Return(w, "err") /\ UNCHANGED <<lis, nlis, open>>
            /\ running' = (running /\ ~P.clears)
    /\ UNCHANGED <<Rest, stopped, ever, srv, nsrv, shut, crashed>>

\* Mutant: the listener is forgotten but not closed.
StartFreshLeaks(w) ==
    /\ At(w, "fresh") /\ Advance(w)
    /\ lis' = 0
    /\ UNCHANGED <<Rest, flagVars, srv, nlis, nsrv, open, shut, crashed>>

StartFresh(w) ==
    /\ At(w, "fresh") /\ Advance(w)
    /\ open' = open \ {lis} /\ lis' = 0
    /\ UNCHANGED <<Rest, flagVars, srv, nlis, nsrv, shut, crashed>>

StartMark(w) ==
    /\ At(w, "mark") /\ Advance(w)
    /\ running' = TRUE
    /\ UNCHANGED <<Rest, stopped, ever, objVars, crashed>>

StartOnce(w) ==
    /\ At(w, "once")
    /\ IF stopped THEN Return(w, "err") ELSE Advance(w)
    /\ UNCHANGED <<Rest, flagVars, objVars, crashed>>

StartNote(w) ==
    /\ At(w, "note") /\ Advance(w)
    /\ ever' = TRUE
    /\ UNCHANGED <<Rest, running, stopped, objVars, crashed>>

MakeServer == srv' = nsrv + 1 /\ nsrv' = nsrv + 1

StartRemake(w) ==
    /\ At(w, "remake")
    /\ IF srv = 0 THEN MakeServer ELSE UNCHANGED <<srv, nsrv>>
    /\ prog' = [prog EXCEPT ![w] = Tail(@)]
    /\ held' = [held EXCEPT ![w].srv = srv']
    /\ UNCHANGED <<Rest, flagVars, lis, nlis, open, shut, result, crashed>>

StartRemakeStopped(w) ==
    /\ At(w, "remakeStopped") /\ Advance(w)
    /\ IF stopped THEN MakeServer ELSE UNCHANGED <<srv, nsrv>>
    /\ stopped' = FALSE
    /\ UNCHANGED <<Rest, running, ever, lis, nlis, open, shut, crashed>>

StartMake(w) ==
    /\ At(w, "make") /\ Advance(w)
    /\ MakeServer
    /\ UNCHANGED <<Rest, flagVars, lis, nlis, open, shut, crashed>>

\* The server and the listener Serve gets: what Start held on to, or else what
\* the fields hold now.
Target(w) == [srv |-> IF held[w].srv # 0 THEN held[w].srv ELSE srv,
              lis |-> IF held[w].lis # 0 THEN held[w].lis ELSE lis]

OwnPort == P.kind \in {"own", "late"}
Refused(t) == P.kind \in {"http", "own"} /\ t.srv \in shut

\* Serve fails at once; Start goes on to its last step if that resets running.
ServeError(w) ==
    IF Len(prog[w]) = 1
    THEN Return(w, "err") /\ running' = (running /\ ~P.clears)
    ELSE /\ prog' = [prog EXCEPT ![w] = Tail(@)]
         /\ result' = [result EXCEPT ![w] = "err"]
         /\ UNCHANGED <<held, running>>

StartServe(w) ==
    /\ At(w, "serve")
    /\ LET t == Target(w)
           l == IF OwnPort THEN nlis + 1 ELSE t.lis
       IN  \/ /\ ~OwnPort /\ (t.lis = 0 \/ (P.kind = "http" /\ t.srv = 0))
              /\ crashed' = TRUE
              /\ UNCHANGED <<prog, held, result, serving, served, running, nlis, open>>
           \/ /\ OwnPort \/ t.lis # 0
              /\ Refused(t) /\ Advance(w)
              /\ open' = open \ {t.lis}
              /\ UNCHANGED <<serving, served, running, nlis, crashed>>
           \/ /\ ~Refused(t)
              /\ IF OwnPort THEN open # {} ELSE t.lis # 0 /\ t.lis \notin open
              /\ ServeError(w)
              /\ UNCHANGED <<serving, served, nlis, open, crashed>>
           \/ /\ ~Refused(t)
              /\ IF OwnPort THEN open = {} ELSE t.lis \in open
              /\ serving' = [serving EXCEPT ![w] = [srv |-> t.srv, lis |-> l]]
              /\ served' = [served EXCEPT ![w] = TRUE]
              /\ nlis' = (IF OwnPort THEN nlis + 1 ELSE nlis)
              /\ open' = open \cup {l}
              /\ UNCHANGED <<prog, held, result, running, crashed>>
    /\ UNCHANGED <<case, told, stopVars, cntVars, stopped, ever, lis, srv, nsrv, shut>>

ServeReturns(w) ==
    /\ ~crashed /\ Serving(w) /\ Ended(w)
    /\ serving' = [serving EXCEPT ![w] = None]
    /\ Advance(w)
    /\ UNCHANGED <<case, told, served, stopVars, cntVars, flagVars, objVars, crashed>>

StartLeave(w) ==
    /\ At(w, "leave")
    /\ Return(w, IF result[w] = "err" THEN "err" ELSE "nil")
    /\ running' = FALSE
    /\ UNCHANGED <<Rest, stopped, ever, objVars, crashed>>

-----------------------------------------------------------------------------
(* Stop and Endpoint.                                                      *)

CallStop ==
    /\ ~crashed /\ stopProg = <<>> /\ stops < MaxStops
    /\ Overlap \/ Quiet
    /\ stops' = stops + 1
    /\ stopProg' = P.stop
    /\ saw' = {serving[w] : w \in {v \in Starters : Serving(v) /\ ~Ended(v)}}
    /\ told' = [w \in Starters |-> told[w] \/ Busy(w)]
    /\ UNCHANGED <<case, flagVars, objVars, prog, held, serving, result, served,
                   stopSrv, crashed, starts>>

StopAt(step) == ~crashed /\ stopProg # <<>> /\ Head(stopProg) = step
StopReturn == stopProg' = <<>> /\ stopSrv' = 0 /\ saw' = {}
StopAdvance ==
    IF Len(stopProg) = 1 THEN StopReturn
    ELSE stopProg' = Tail(stopProg) /\ UNCHANGED <<stopSrv, saw>>

StopGuard ==
    /\ StopAt("guard") \/ StopAt("guardClear")
    /\ running' = (running /\ StopAt("guard"))
    /\ IF running THEN StopAdvance ELSE StopReturn
    /\ UNCHANGED <<case, stopped, ever, objVars, workVars, crashed, cntVars>>

StopIfServer ==
    /\ StopAt("ifServer")
    /\ IF srv # 0 THEN StopAdvance ELSE StopReturn
    /\ UNCHANGED <<case, flagVars, objVars, workVars, crashed, cntVars>>

StopTake ==
    /\ StopAt("take")
    /\ srv' = 0
    /\ IF srv = 0 THEN StopReturn
       ELSE stopProg' = Tail(stopProg) /\ stopSrv' = srv /\ UNCHANGED saw
    /\ UNCHANGED <<case, flagVars, lis, nlis, nsrv, open, shut, workVars, crashed,
                   cntVars>>

StopMarks ==
    /\ StopAt("stopped") \/ StopAt("stoppedIfStarted")
    /\ stopped' = (StopAt("stopped") \/ ever \/ stopped)
    /\ StopAdvance
    /\ UNCHANGED <<case, running, ever, objVars, workVars, crashed, cntVars>>

StopClear ==
    /\ StopAt("clear") /\ StopAdvance
    /\ running' = FALSE
    /\ UNCHANGED <<case, stopped, ever, objVars, workVars, crashed, cntVars>>

\* Shutdown of the library server: it closes the listeners it serves on.
StopShutdown ==
    /\ StopAt("shutdown") /\ StopAdvance
    /\ LET s == IF stopSrv # 0 THEN stopSrv ELSE srv
           on == {w \in Starters : Serving(w) /\ serving[w].srv = s}
       IN  /\ shut' = IF (P.kind = "late" /\ on = {}) \/ P.kind = "fast" THEN shut
                      ELSE shut \cup {s}
           /\ open' = IF P.kind = "bare" THEN open
                      ELSE open \ {serving[w].lis : w \in on}
    /\ UNCHANGED <<case, flagVars, lis, srv, nlis, nsrv, workVars, crashed, cntVars>>

StopRenew ==
    /\ StopAt("rebuild") \/ StopAt("forget")
    /\ StopAdvance
    /\ IF StopAt("rebuild") THEN MakeServer ELSE srv' = 0 /\ UNCHANGED nsrv
    /\ UNCHANGED <<case, flagVars, lis, nlis, open, shut, workVars, crashed, cntVars>>

StopCloseLis ==
    /\ StopAt("closeLis") /\ StopAdvance
    /\ open' = open \ {lis} /\ lis' = 0
    /\ UNCHANGED <<case, flagVars, srv, nlis, nsrv, shut, workVars, crashed, cntVars>>

\* The application asks for the endpoint before it starts the server.
Endpoint ==
    /\ starts = 0 /\ stops = 0 /\ ~OwnPort /\ lis = 0
    /\ Listen
    /\ UNCHANGED <<case, flagVars, srv, nsrv, shut, workVars, stopVars, crashed,
                   cntVars>>

StartStep(w) ==
    \/ StartGuard(w) \/ StartEnter(w) \/ StartEnterListen(w) \/ StartListen(w)
    \/ StartFresh(w) \/ StartMark(w) \/ StartOnce(w) \/ StartNote(w) \/ StartRemake(w)
    \/ StartRemakeStopped(w) \/ StartMake(w) \/ StartServe(w) \/ ServeReturns(w)
    \/ StartLeave(w)

StopStep ==
    \/ StopGuard \/ StopIfServer \/ StopTake \/ StopMarks \/ StopClear
    \/ StopShutdown \/ StopRenew \/ StopCloseLis

Next ==
    \/ \E w \in Starters : CallStart(w) \/ StartStep(w)
    \/ CallStop \/ StopStep \/ Endpoint

Spec == Init /\ [][Next]_vars

-----------------------------------------------------------------------------
(* Properties.                                                             *)

\* A Start that returns nil did serve, or was told to stop, or left the
\* serving to another Start: as long as calls do not overlap no restart silently
\* comes to nothing.
NoFalseStart ==
    [][\A w \in Starters : ~Overlap =>
          (Busy(w) /\ prog'[w] = <<>> /\ result'[w] = "nil"
             => \/ told[w] \/ served[w]
                \/ \E v \in Starters \ {w} : Busy(v) /\ ~told[v])]_vars

\* A Stop called while some Start is serving does not return before that
\* Serve has been ended.
StopEndsServe ==
    [][stopProg # <<>> /\ stopProg' = <<>>
          => \A w \in Starters : serving[w] \in saw => Ended(w)']_vars

\* Once every call has returned after a Stop, no port is left open: the next
\* Start can listen.
NoLeakedPort ==
    stops > 0 /\ starts > 0 /\ stopProg = <<>> /\ (\A w \in Starters : ~Busy(w))
       => open = {}

=============================================================================
