---------------------------- MODULE WorkerFamily ----------------------------
(***************************************************************************)
(* Starting and stopping what runs tasks, for the members of               *)
(* WorkerProfiles.  An engine is what one Start makes: a machinery worker, *)
(* a timer engine, an MCP listener, a poller.  A live engine takes tasks,  *)
(* a busy one is running one.                                              *)
(*                                                                         *)
(* A caller inside a call is the list of the steps it still has to take.   *)
(***************************************************************************)
EXTENDS Naturals, Sequences, FiniteSets, WorkerProfiles

CONSTANTS
    Callers,     \* goroutines that call Start and Stop
    MayFail,     \* an engine can fail to start
    MaxEngines,  \* bound: engines made
    MaxTasks,    \* bound: tasks run
    MaxStops,    \* bound: calls of Stop
    Cases        \* what to look at: a member; the goroutines that call, and whether
                 \* their calls may overlap, or begin before the goroutines of an
                 \* earlier Start are settled; whether a wait of Stop can time out,
                 \* and whether the context given to Start can be cancelled

ASSUME WorkerAssumption ==
    /\ MayFail \in BOOLEAN
    /\ MaxEngines \in Nat /\ MaxTasks \in Nat /\ MaxStops \in Nat
    /\ Cases \subseteq [member : DOMAIN Profile, callers : SUBSET Callers, overlap : BOOLEAN,
                        settled : BOOLEAN, expire : BOOLEAN, cancel : BOOLEAN]

Engines == 1..MaxEngines

VARIABLES
    case,           \* which case this behaviour is about
    started, closed, err,
    ka,             \* keepaliveServer: "none", "made", "running"
    engine, made,   \* the current engine or 0; engines made
    live, busy,     \* engines that take tasks; engines that run one
    cancelled,      \* contexts cancelled, by the engine that runs under them
    launching,      \* engines a goroutine of Start is about to publish
    serving,        \* engines a goroutine of Start serves
    stoppers,       \* callers whose goroutine has yet to stop the engine
    prog,           \* per caller: steps left of its call
    mine,           \* per caller: the engine the call is about
    holder,         \* callers holding the lock
    expired,        \* callers whose wait timed out
    tasks, stops
callVars == <<prog, mine, holder, expired>>
engVars == <<engine, made, live, busy, cancelled, launching, serving, stoppers>>
flags == <<started, closed, err, ka>>
vars == <<case, flags, engVars, callVars, tasks, stops>>

member == case.member
P == Profile[member]
Idle == \A c \in Callers : prog[c] = <<>>

Init ==
    /\ case \in Cases
    /\ started = FALSE /\ closed = FALSE /\ err = FALSE /\ ka = "made"
    /\ engine = 0 /\ made = 0 /\ live = {} /\ busy = {} /\ cancelled = {}
    /\ launching = {} /\ serving = {} /\ stoppers = {}
    /\ prog = [c \in Callers |-> <<>>]
    /\ mine = [c \in Callers |-> 0] /\ holder = {} /\ expired = {}
    /\ tasks = 0 /\ stops = 0

-----------------------------------------------------------------------------
(* Calls and their steps.                                                  *)

Enter(c, steps) ==
    /\ prog[c] = <<>> /\ (case.overlap \/ Idle) /\ c \notin stoppers
    /\ c \in case.callers /\ (case.settled => launching = {} /\ serving \subseteq live)
    /\ P.locked => holder = {}
    /\ holder' = IF P.locked THEN {c} ELSE holder
    /\ prog' = [prog EXCEPT ![c] = steps]
    /\ mine' = [mine EXCEPT ![c] = 0]
    /\ expired' = expired \ {c}
    /\ UNCHANGED <<case, flags, engVars, tasks>>

Start(c) ==
    /\ made < MaxEngines
    /\ Enter(c, P.start) /\ UNCHANGED stops

Stop(c) ==
    /\ stops < MaxStops /\ stops' = stops + 1
    /\ Enter(c, P.stop)

At(c, step) == prog[c] # <<>> /\ Head(prog[c]) = step

Return(c) ==
    /\ prog' = [prog EXCEPT ![c] = <<>>] /\ holder' = holder \ {c}
    /\ UNCHANGED <<mine, expired>>

Advance(c) ==
    /\ prog' = [prog EXCEPT ![c] = Tail(@)]
    /\ holder' = IF Len(prog[c]) = 1 THEN holder \ {c} ELSE holder
    /\ UNCHANGED expired
Go(c) == UNCHANGED mine /\ Advance(c)

Rest == <<case, tasks, stops>>

Guard(c) ==
    /\ \/ At(c, "err") /\ IF err THEN Return(c) ELSE Go(c)
       \/ At(c, "started") /\ IF started THEN Return(c) ELSE Go(c)
       \/ At(c, "closed") /\ IF closed THEN Return(c) ELSE Go(c)
       \/ At(c, "guard") /\ IF started THEN Go(c) ELSE Return(c)
    /\ UNCHANGED <<Rest, flags, engVars>>

Flag(c) ==
    /\ \/ At(c, "flag") /\ started' = TRUE /\ UNCHANGED closed
       \/ At(c, "unflag") /\ started' = FALSE /\ UNCHANGED closed
       \/ At(c, "close") /\ closed' = TRUE /\ UNCHANGED started
    /\ Go(c)
    /\ UNCHANGED <<Rest, err, ka, engVars>>

Keepalive(c) ==
    /\ \/ At(c, "kaMake") /\ ka' = IF ka = "none" THEN "made" ELSE ka
       \/ At(c, "kaRun") /\ ka' = IF ka = "none" THEN ka ELSE "running"
       \/ At(c, "kaStop") /\ ka' = "none"
    /\ Go(c)
    /\ UNCHANGED <<Rest, started, closed, err, engVars>>

\* The engine is started and becomes the current one.
EngineStart(c) ==
    /\ At(c, "engine") \/ At(c, "engineOk")
    /\ \/ /\ made < MaxEngines
          /\ made' = made + 1 /\ engine' = made' /\ live' = live \cup {made'}
          /\ mine' = [mine EXCEPT ![c] = made']
          /\ Advance(c)
       \/ At(c, "engine") /\ MayFail /\ Return(c) /\ UNCHANGED <<engine, made, live>>
    /\ UNCHANGED <<Rest, flags, busy, cancelled, launching, serving, stoppers>>

NewContext(c) ==
    /\ At(c, "context")
    /\ IF started
       THEN Return(c) /\ UNCHANGED <<started, engine, made>>
       ELSE /\ made < MaxEngines /\ started' = TRUE
            /\ made' = made + 1 /\ engine' = made'
            /\ mine' = [mine EXCEPT ![c] = made']
            /\ Advance(c)
    /\ UNCHANGED <<Rest, closed, err, ka, live, busy, cancelled, launching, serving, stoppers>>

EngineIn(c) ==
    /\ At(c, "engineIn")
    /\ \/ /\ live' = live \cup ({mine[c]} \ cancelled)
          /\ Go(c) /\ UNCHANGED <<started, cancelled>>
       \/ /\ MayFail /\ Return(c) /\ started' = FALSE
          /\ live' = live \ {engine} /\ cancelled' = cancelled \cup {engine}
    /\ UNCHANGED <<Rest, closed, err, ka, engine, made, busy, launching, serving, stoppers>>

EngineSpawn(c) ==
    /\ At(c, "spawn") /\ made < MaxEngines
    /\ made' = made + 1 /\ launching' = launching \cup {made'}
    /\ mine' = [mine EXCEPT ![c] = made']
    /\ Advance(c)
    /\ UNCHANGED <<Rest, flags, engine, live, busy, cancelled, serving, stoppers>>

\* The goroutine's server has returned: it clears the field, keeps the error,
\* and stops the keepalive server, whose own result replaces the error.
ServeFailed ==
    engine' = 0 /\ err' = (ka = "none") /\ ka' = "none"

Launch(e) ==
    /\ e \in launching /\ launching' = launching \ {e}
    /\ \/ /\ engine' = e /\ live' = live \cup {e} /\ serving' = serving \cup {e}
          /\ UNCHANGED <<err, ka>>
       \/ MayFail /\ ServeFailed /\ UNCHANGED <<live, serving>>
    /\ UNCHANGED <<Rest, started, closed, made, busy, cancelled, stoppers, callVars>>

\* Serving ends with an error when the server is shut down, too.
ServeEnds(e) ==
    /\ e \in serving \ live /\ serving' = serving \ {e}
    /\ ServeFailed
    /\ UNCHANGED <<Rest, started, closed, made, live, busy, cancelled, launching, stoppers,
                   callVars>>

Signal(c) ==
    /\ \/ At(c, "signal") \/ At(c, "cancel")
    /\ live' = live \ {engine} /\ cancelled' = cancelled \cup ({engine} \ {0})
    /\ started' = (started /\ ~At(c, "cancel"))
    /\ mine' = [mine EXCEPT ![c] = engine]
    /\ Advance(c)
    /\ UNCHANGED <<Rest, closed, err, ka, engine, made, busy, launching, serving, stoppers>>

SignalGo(c) ==
    /\ At(c, "signalGo") /\ stoppers' = stoppers \cup {c}
    /\ Go(c)
    /\ UNCHANGED <<Rest, flags, engine, made, live, busy, cancelled, launching, serving>>

\* The goroutine reads the engine's field when it runs.
StopGoroutine(c) ==
    /\ c \in stoppers /\ stoppers' = stoppers \ {c}
    /\ live' = live \ {engine} /\ mine' = [mine EXCEPT ![c] = engine]
    /\ UNCHANGED <<Rest, flags, engine, made, busy, cancelled, launching, serving,
                   prog, holder, expired>>

\* A wait that has timed out is not followed by another.
Wait(c) ==
    /\ At(c, "signalled") \/ At(c, "wait")
    /\ prog' = [prog EXCEPT ![c] = Tail(@)]
    /\ \/ /\ c \notin stoppers /\ (At(c, "wait") => mine[c] \notin busy)
          /\ UNCHANGED expired
       \/ case.expire /\ expired' = expired \cup {c}
       \/ c \in expired /\ UNCHANGED expired
    /\ UNCHANGED <<Rest, flags, engVars, mine, holder>>

Forget(c) ==
    /\ \/ At(c, "forget") /\ UNCHANGED mine
       \/ At(c, "take") /\ mine' = [mine EXCEPT ![c] = engine]
    /\ engine' = 0 /\ err' = FALSE
    /\ Advance(c)
    /\ UNCHANGED <<Rest, started, closed, ka, made, live, busy, cancelled, launching,
                   serving, stoppers>>

Shutdown(c) ==
    /\ At(c, "shutdown") /\ live' = live \ {mine[c]}
    /\ Go(c)
    /\ UNCHANGED <<Rest, flags, engine, made, busy, cancelled, launching, serving, stoppers>>

-----------------------------------------------------------------------------
TaskBegin(e) ==
    /\ e \in live \ busy /\ tasks < MaxTasks
    /\ tasks' = tasks + 1 /\ busy' = busy \cup {e}
    /\ UNCHANGED <<case, flags, engine, made, live, cancelled, launching, serving,
                   stoppers, callVars, stops>>

TaskEnd(e) ==
    /\ e \in busy /\ busy' = busy \ {e}
    /\ UNCHANGED <<Rest, flags, engine, made, live, cancelled, launching, serving,
                   stoppers, callVars>>

\* The caller cancels the context it gave to Start (go-workflows follows it).
Cancel ==
    /\ case.cancel /\ member = "goworkflows" /\ engine \in live
    /\ live' = live \ {engine} /\ cancelled' = cancelled \cup {engine}
    /\ UNCHANGED <<Rest, flags, engine, made, busy, launching, serving, stoppers,
                   callVars>>

Step(c) ==
    \/ Guard(c) \/ Flag(c) \/ Keepalive(c)
    \/ EngineStart(c) \/ NewContext(c) \/ EngineIn(c) \/ EngineSpawn(c)
    \/ Signal(c) \/ SignalGo(c) \/ StopGoroutine(c) \/ Wait(c) \/ Forget(c) \/ Shutdown(c)

Next ==
    \/ \E c \in Callers : Start(c) \/ Stop(c) \/ Step(c)
    \/ \E e \in Engines : Launch(e) \/ ServeEnds(e) \/ TaskBegin(e) \/ TaskEnd(e)
    \/ Cancel

Spec == Init /\ [][Next]_vars

-----------------------------------------------------------------------------
\* Members whose Stop waits for running tasks.
Waits == {"machinery", "hptimer", "temporal"}

\* When nobody is inside a call and the server is not started, nothing takes
\* tasks (once the goroutine of a Stop that timed out has run), the keepalive
\* server does not run, and no task is left running where Stop waits for them and
\* has not timed out: neither a failed Start nor a Stop
\* leaves anything behind that nobody would stop any more (Start, Stop).
StoppedIsOff ==
    Idle /\ (~started \/ closed) =>
        /\ stoppers = {} => live = {}
        /\ ka # "running"
        /\ member \in Waits /\ ~case.expire => busy = {}
=============================================================================
