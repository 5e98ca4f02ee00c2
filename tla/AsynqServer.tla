----------------------------- MODULE AsynqServer -----------------------------
(***************************************************************************)
(* transport/asynq/server.go: the asynq server with its four handles (task *)
(* server, client, scheduler, inspector), which Start and Stop manage      *)
(* under one lock and the task calls create on demand without it, and the  *)
(* table of periodic tasks beside the scheduler's own entries.             *)
(*                                                                         *)
(* A call is the list of the steps it still has to take.  A handle is a    *)
(* number, 0 for nil.  A scheduler cannot be started twice; a task of a    *)
(* type nobody registered fails.  Both are asynq's own rules.              *)
(***************************************************************************)
EXTENDS Naturals, Sequences, FiniteSets, Functions

CONSTANTS
    Callers, Types,
    Ops,             \* the calls made, of DOMAIN Program
    Overlap,         \* calls of different goroutines may overlap
    ServerEnabled, SchedulerEnabled, ClientEnabled,
    MaxCalls,        \* bound: calls made
    MaxHandles,      \* bound: handles of one kind
    MaxRetry         \* retries before a task is archived

AsynqAssumption ==
    /\ Overlap \in BOOLEAN /\ MaxCalls \in Nat /\ MaxHandles \in Nat \ {0} /\ MaxRetry \in Nat
    /\ ServerEnabled \in BOOLEAN /\ SchedulerEnabled \in BOOLEAN /\ ClientEnabled \in BOOLEAN

Kinds == {"server", "client", "scheduler", "inspector"}
Ids == 1..MaxHandles
Enabled(k) == CASE k = "server" -> ServerEnabled [] k = "scheduler" -> SchedulerEnabled
                [] k = "client" -> ClientEnabled [] OTHER -> TRUE

VARIABLES
    state, started, err, ka,
    h,              \* per kind: the handle in the server's field
    made,           \* per kind: handles made so far
    open,           \* handles made and not closed, as <<kind, id>>
    running,        \* of those, the schedulers and task servers that run
    entries,        \* scheduler entries: [s |-> scheduler, id |-> entry]
    entryIDs,       \* type -> the entry last registered under it, 0 for none
    mux,            \* types with a handler
    prog, arg,      \* per caller: steps left; the type or entry it is about
    mine,           \* per caller: an entry, or handles a Stop has picked up
    task, left,     \* per caller: state of the task it waits for; retries left
    told,           \* per caller: what waitResult returned
    holder, crashed, calls
handleVars == <<h, made, open, running>>
tableVars == <<entries, entryIDs, mux>>
taskVars == <<task, left, told>>
callVars == <<prog, arg, mine, holder, calls>>
flags == <<state, started, err, ka>>
vars == <<flags, handleVars, tableVars, taskVars, callVars, crashed>>

Idle == \A c \in Callers : prog[c] = <<>>

\* NewServer makes every enabled handle and the keepalive server.
Init ==
    /\ state = "stopped" /\ started = FALSE /\ err = FALSE /\ ka = "made"
    /\ h = [k \in Kinds |-> IF Enabled(k) THEN 1 ELSE 0] /\ made = h
    /\ open = {<<k, 1>> : k \in {j \in Kinds : Enabled(j)}} /\ running = {}
    /\ entries = {} /\ entryIDs = [t \in Types |-> 0] /\ mux = {}
    /\ prog = [c \in Callers |-> <<>>] /\ arg = [c \in Callers |-> 0]
    /\ mine = [c \in Callers |-> h]
    /\ task = [c \in Callers |-> "none"] /\ left = [c \in Callers |-> 0]
    /\ told = [c \in Callers |-> "none"]
    /\ holder = {} /\ crashed = FALSE /\ calls = 0

-----------------------------------------------------------------------------
(* The order of each call.                                                 *)

StopSteps == <<"stopBegin", "kaStop", "clear", "down scheduler", "down server",
               "down client", "down inspector", "stopEnd">>
StartSteps == <<"startBegin", "make server", "make scheduler", "kaRun", "runScheduler",
                "runServer", "startEnd">>
NewTaskSteps == <<"need client", "make client", "enqueue">>
NewWaitResultTaskSteps == NewTaskSteps \o <<"need inspector", "make inspector",
                                            "inspect", "poll">>
NewPeriodicTaskSteps == <<"need scheduler", "make scheduler", "runNew", "register", "record">>
RemovePeriodicTaskSteps == <<"query", "unregister", "delete">>
\* Mutant: the table is not cleaned.
RemoveKeepsTable == <<"unregister">>
RemovePeriodicTaskByIDSteps == <<"unregister", "deleteByID">>
RemoveAllPeriodicTaskSteps == <<"clear">>

Program ==
    [ Start |-> StartSteps, Stop |-> StopSteps, NewTask |-> NewTaskSteps,
      NewWaitResultTask |-> NewWaitResultTaskSteps,
      NewPeriodicTask |-> NewPeriodicTaskSteps,
      RemovePeriodicTask |-> RemovePeriodicTaskSteps,
      RemovePeriodicTaskByID |-> RemovePeriodicTaskByIDSteps,
      RemoveAllPeriodicTask |-> RemoveAllPeriodicTaskSteps ]
Locks == {"Start", "Stop"}

Call(c, op) ==
    /\ prog[c] = <<>> /\ (Overlap \/ Idle) /\ ~crashed /\ calls < MaxCalls
    /\ op \in Locks => holder = {}
    /\ holder' = IF op \in Locks THEN {c} ELSE holder
    /\ calls' = calls + 1 /\ prog' = [prog EXCEPT ![c] = Program[op]]
    /\ \E t \in Types : arg' = [arg EXCEPT ![c] = t]
    /\ \E e \in 0..MaxCalls :
          /\ CASE op = "RemovePeriodicTaskByID" -> e \in 1..calls
               [] op = "NewPeriodicTask" -> e = calls'
               [] OTHER -> e = 0
          /\ mine' = [mine EXCEPT ![c] = [h EXCEPT !["scheduler"] = e]]
    /\ told' = [told EXCEPT ![c] = "none"] /\ task' = [task EXCEPT ![c] = "none"]
    /\ UNCHANGED <<flags, handleVars, tableVars, left, crashed>>

At(c, step) == prog[c] # <<>> /\ Head(prog[c]) = step /\ ~crashed
Entry(c) == mine[c]["scheduler"]
SetEntry(c, e) == mine' = [mine EXCEPT ![c]["scheduler"] = e]

Skip(c, n) ==
    /\ prog' = [prog EXCEPT ![c] = SubSeq(@, n + 1, Len(@))]
    /\ holder' = IF Len(prog[c]) <= n THEN holder \ {c} ELSE holder
Move(c, n) == Skip(c, n) /\ UNCHANGED <<arg, calls>>
Go(c) == Move(c, 1) /\ UNCHANGED mine
Return(c) == Move(c, Len(prog[c])) /\ UNCHANGED mine

-----------------------------------------------------------------------------
(* The handles, created where they are missing.                            *)

NeedMake == [client |-> "need client", scheduler |-> "need scheduler",
             inspector |-> "need inspector"]
MakeOf == [server |-> "make server", client |-> "make client",
           scheduler |-> "make scheduler", inspector |-> "make inspector"]
DownOf == [server |-> "down server", client |-> "down client",
           scheduler |-> "down scheduler", inspector |-> "down inspector"]

\* if s.client == nil: the field is read, and make (and the run that follows it
\* for a scheduler) are skipped when it is set.
Need(c) ==
    /\ \E k \in DOMAIN NeedMake :
          /\ At(c, NeedMake[k])
          /\ Move(c, IF h[k] = 0 THEN 1 ELSE IF k = "scheduler" THEN 3 ELSE 2)
    /\ UNCHANGED <<flags, handleVars, tableVars, taskVars, mine, crashed>>

\* createAsynq...: the field is tested and assigned without a lock, so the
\* handle of another caller may be overwritten.
Make(c) ==
    /\ \E k \in Kinds :
          /\ At(c, MakeOf[k])
          /\ \/ (h[k] # 0 \/ ~Enabled(k)) /\ UNCHANGED handleVars
             \/ /\ Enabled(k) /\ made[k] < MaxHandles
                /\ h[k] # 0 => Overlap
                /\ made' = [made EXCEPT ![k] = @ + 1] /\ h' = [h EXCEPT ![k] = made[k] + 1]
                /\ open' = open \cup {<<k, made[k] + 1>>} /\ UNCHANGED running
    /\ Go(c) /\ UNCHANGED <<flags, tableVars, taskVars, crashed>>

Runs(k) == running' = running \cup {<<k, h[k]>>} /\ UNCHANGED <<h, made, open>>
CanRun == h["scheduler"] # 0 /\ <<"scheduler", h["scheduler"]>> \in open \ running

\* runAsynqScheduler from NewPeriodicTask
RunNew(c) ==
    /\ At(c, "runNew")
    /\ IF CanRun THEN Runs("scheduler") /\ Go(c) ELSE UNCHANGED handleVars /\ Return(c)
    /\ UNCHANGED <<flags, tableVars, taskVars, crashed>>

-----------------------------------------------------------------------------
(* Start and Stop.                                                         *)

StartBegin(c) ==
    /\ At(c, "startBegin")
    /\ IF err \/ state # "stopped" THEN Return(c) /\ UNCHANGED state
       ELSE Go(c) /\ state' = "starting"
    /\ UNCHANGED <<started, err, ka, handleVars, tableVars, taskVars, crashed>>

KaRun(c) ==
    /\ At(c, "kaRun") /\ ka' = "running"
    /\ Go(c) /\ UNCHANGED <<state, started, err, handleVars, tableVars, taskVars, crashed>>

\* A failure is kept in err and the server is stopped.
StartRun(c) ==
    /\ \/ At(c, "runScheduler") /\ IF CanRun THEN Runs("scheduler") /\ Go(c) /\ UNCHANGED <<err, state>>
                                   ELSE Return(c) /\ err' = TRUE /\ state' = "stopped"
                                        /\ UNCHANGED handleVars
       \/ At(c, "runServer") /\ IF h["server"] # 0 THEN Runs("server") /\ Go(c) /\ UNCHANGED <<err, state>>
                                ELSE Return(c) /\ err' = TRUE /\ state' = "stopped"
                                     /\ UNCHANGED handleVars
    /\ UNCHANGED <<started, ka, tableVars, taskVars, crashed>>

StartEnd(c) ==
    /\ At(c, "startEnd") /\ state' = "running" /\ started' = TRUE
    /\ Go(c) /\ UNCHANGED <<err, ka, handleVars, tableVars, taskVars, crashed>>

StopBegin(c) ==
    /\ At(c, "stopBegin")
    /\ IF state = "running"
       THEN Move(c, 1) /\ state' = "stopping" /\ mine' = [mine EXCEPT ![c] = h]
       ELSE Return(c) /\ UNCHANGED state
    /\ UNCHANGED <<started, err, ka, handleVars, tableVars, taskVars, crashed>>

KaStop(c) ==
    /\ At(c, "kaStop") /\ ka' = "none"
    /\ Go(c) /\ UNCHANGED <<state, started, err, handleVars, tableVars, taskVars, crashed>>

\* The handle picked up at the beginning is closed, the field cleared.
Down(c) ==
    /\ \E k \in Kinds :
          /\ At(c, DownOf[k])
          /\ IF mine[c][k] = 0 THEN UNCHANGED handleVars
             ELSE /\ open' = open \ {<<k, mine[c][k]>>}
                  /\ running' = running \ {<<k, mine[c][k]>>}
                  /\ h' = [h EXCEPT ![k] = 0] /\ UNCHANGED made
    /\ Go(c) /\ UNCHANGED <<flags, tableVars, taskVars, crashed>>

StopEnd(c) ==
    /\ At(c, "stopEnd") /\ state' = "stopped" /\ started' = FALSE
    /\ Go(c) /\ UNCHANGED <<err, ka, handleVars, tableVars, taskVars, crashed>>

-----------------------------------------------------------------------------
(* Tasks.                                                                  *)

Crash(c) == crashed' = TRUE /\ UNCHANGED <<prog, arg, mine, holder, calls>>

\* s.client.Enqueue: can fail, does on a closed client, and panics on a nil one.
Enqueue(c) ==
    /\ At(c, "enqueue")
    /\ \/ h["client"] = 0 /\ Crash(c) /\ UNCHANGED <<task, left>>
       \/ /\ <<"client", h["client"]>> \in open /\ Go(c) /\ UNCHANGED crashed
          /\ task' = [task EXCEPT ![c] = "pending"] /\ left' = [left EXCEPT ![c] = MaxRetry]
       \/ h["client"] # 0 /\ Return(c) /\ UNCHANGED <<crashed, task, left>>
    /\ UNCHANGED <<flags, handleVars, tableVars, told>>

\* A running task server runs the handler; an error is retried, then archived.
\* A task that succeeds is deleted, or kept when it has a retention.
Process(c) ==
    /\ task[c] \in {"pending", "retry"} /\ \E i \in Ids : <<"server", i>> \in running
    /\ \/ /\ arg[c] \in mux /\ UNCHANGED left
          /\ \E done \in {"gone", "completed"} : task' = [task EXCEPT ![c] = done]
       \/ IF left[c] = 0 THEN task' = [task EXCEPT ![c] = "archived"] /\ UNCHANGED left
          ELSE /\ task' = [task EXCEPT ![c] = "retry"]
               /\ left' = [left EXCEPT ![c] = @ - 1]
    /\ UNCHANGED <<flags, handleVars, tableVars, told, callVars, crashed>>

Tell(c, what) == told' = [told EXCEPT ![c] = what] /\ Return(c) /\ UNCHANGED <<task, left>>

\* waitResult is given the inspector of this moment.
Inspect(c) ==
    /\ At(c, "inspect")
    /\ IF h["inspector"] = 0 THEN Crash(c)
       ELSE /\ mine' = [mine EXCEPT ![c]["inspector"] = h["inspector"]]
            /\ Move(c, 1) /\ UNCHANGED crashed
    /\ UNCHANGED <<flags, handleVars, tableVars, taskVars>>

\* Mutant: an archived task ends the wait like a finished one.
WaitResultAnyEnd(c) ==
    /\ At(c, "poll")
    /\ task[c] \in {"completed", "gone", "archived"} /\ Tell(c, "ok")
    /\ UNCHANGED <<flags, handleVars, tableVars, crashed>>
\* One round of waitResult that ends it: a final state, or an inspector that has
\* been closed.
WaitResult(c) ==
    /\ At(c, "poll")
    /\ \/ task[c] \in {"completed", "gone"} /\ Tell(c, "ok")
       \/ task[c] = "archived" /\ Tell(c, "error")
       \/ <<"inspector", mine[c]["inspector"]>> \notin open /\ Tell(c, "error")
    /\ UNCHANGED <<flags, handleVars, tableVars, crashed>>

\* Five minutes have gone by.
WaitTimeout(c) ==
    /\ At(c, "poll") /\ task[c] \notin {"completed", "gone", "archived"}
    /\ Tell(c, "error")
    /\ UNCHANGED <<flags, handleVars, tableVars, crashed>>

-----------------------------------------------------------------------------
(* Handlers and periodic tasks.                                            *)

RegisterSubscriber(t) ==
    /\ ~started /\ ~crashed /\ t \notin mux
    /\ mux' = mux \cup {t}
    /\ UNCHANGED <<flags, handleVars, entries, entryIDs, taskVars, callVars, crashed>>

\* The entry is named after the call; a nil scheduler panics.
Register(c) ==
    /\ At(c, "register")
    /\ IF h["scheduler"] = 0
       THEN Crash(c) /\ UNCHANGED entries
       ELSE /\ entries' = entries \cup {[s |-> h["scheduler"], id |-> Entry(c)]}
            /\ Go(c) /\ UNCHANGED crashed
    /\ UNCHANGED <<flags, handleVars, entryIDs, mux, taskVars>>

Record(c) ==
    /\ At(c, "record") /\ entryIDs' = [entryIDs EXCEPT ![arg[c]] = Entry(c)]
    /\ Go(c) /\ UNCHANGED <<flags, handleVars, entries, mux, taskVars, crashed>>

Query(c) ==
    /\ At(c, "query")
    /\ IF entryIDs[arg[c]] = 0 THEN Return(c)
       ELSE SetEntry(c, entryIDs[arg[c]]) /\ Move(c, 1)
    /\ UNCHANGED <<flags, handleVars, tableVars, taskVars, crashed>>

\* unregisterPeriodicTask: no scheduler, nothing to do; an entry the scheduler
\* does not know is an error.
Unregister(c) ==
    /\ At(c, "unregister")
    /\ LET x == [s |-> h["scheduler"], id |-> Entry(c)]
       IN  /\ entries' = entries \ {x}
           /\ IF h["scheduler"] = 0 \/ x \in entries THEN Go(c) ELSE Return(c)
    /\ UNCHANGED <<flags, handleVars, entryIDs, mux, taskVars, crashed>>

Delete(c) ==
    /\ \/ At(c, "delete") /\ entryIDs' = [entryIDs EXCEPT ![arg[c]] = 0]
       \/ /\ At(c, "deleteByID")
          /\ entryIDs' = [t \in Types |-> IF entryIDs[t] = Entry(c) THEN 0 ELSE entryIDs[t]]
    /\ Go(c) /\ UNCHANGED <<flags, handleVars, entries, mux, taskVars, crashed>>

\* RemoveAllPeriodicTask: the table is emptied and what it held unregistered.
RemoveAllPeriodicTask(c) ==
    /\ At(c, "clear")
    /\ entries' = {x \in entries : ~(x.s = h["scheduler"] /\ x.id \in Range(entryIDs))}
    /\ entryIDs' = [t \in Types |-> 0]
    /\ Go(c) /\ UNCHANGED <<flags, handleVars, mux, taskVars, crashed>>

-----------------------------------------------------------------------------
Step(c) ==
    \/ Need(c) \/ Make(c) \/ RunNew(c)
    \/ StartBegin(c) \/ KaRun(c) \/ StartRun(c) \/ StartEnd(c)
    \/ StopBegin(c) \/ KaStop(c) \/ Down(c) \/ StopEnd(c)
    \/ Enqueue(c) \/ Inspect(c) \/ WaitResult(c) \/ WaitTimeout(c)
    \/ Register(c) \/ Record(c) \/ Query(c) \/ Unregister(c) \/ Delete(c)
    \/ RemoveAllPeriodicTask(c)

Next ==
    \/ \E c \in Callers : (\E op \in Ops : Call(c, op)) \/ Step(c) \/ Process(c)
    \/ \E t \in Types : RegisterSubscriber(t)

-----------------------------------------------------------------------------
\* What the table names is an entry of the scheduler in use: a task that
\* RemovePeriodicTask claims to remove is one that fires.
TableIsRegistered ==
    Idle => \A t \in Types : entryIDs[t] # 0 =>
                [s |-> h["scheduler"], id |-> entryIDs[t]] \in entries

\* NewWaitResultTask reports success only of a task that succeeded, which takes
\* a registered handler.
WaitTellsTruth ==
    \A c \in Callers :
        told[c] = "ok" => task[c] \in {"completed", "gone"} /\ arg[c] \in mux
=============================================================================
