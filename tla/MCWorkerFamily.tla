--------------------------- MODULE MCWorkerFamily ---------------------------
(***************************************************************************)
(* The instances of WorkerFamily, AsynqServer and HighPrecisionTimer for   *)
(* model checking.  They share no state: a behaviour is one of them, the   *)
(* one machine names, and the others stay in their initial states.         *)
(***************************************************************************)
EXTENDS WorkerFamily

VARIABLES
    machine,
    aqState, aqStarted, aqErr, aqKa, h, aqMade, open, aqRunning, entries, entryIDs, mux,
    aqProg, arg, aqMine, task, left, told, aqHolder, crashed, calls,
    now, heap, index, running, ctx, ctxCancelled, wakeup, timer, stoppedTimers,
    pc, cur, at, saw, stopPc, timerStops, inside, adds, gone
asynqVars == <<aqState, aqStarted, aqErr, aqKa, h, aqMade, open, aqRunning, entries,
               entryIDs, mux, aqProg, arg, aqMine, task, left, told, aqHolder, crashed,
               calls>>
timerVars == <<now, heap, index, running, ctx, ctxCancelled, wakeup, timer,
               stoppedTimers, pc, cur, at, saw, stopPc, timerStops, inside, adds, gone>>

-----------------------------------------------------------------------------
\* Periodic tasks of two types, one call at a time.
Table == INSTANCE AsynqServer WITH
    Callers <- {"a1"}, Types <- {"t1", "t2"}, Overlap <- FALSE,
    Ops <- {"Start", "Stop", "NewPeriodicTask", "RemovePeriodicTask",
            "RemovePeriodicTaskByID", "RemoveAllPeriodicTask"},
    ServerEnabled <- TRUE, SchedulerEnabled <- TRUE, ClientEnabled <- TRUE,
    MaxCalls <- 5, MaxHandles <- 3, MaxRetry <- 1,
    state <- aqState, started <- aqStarted, err <- aqErr, ka <- aqKa, made <- aqMade,
    running <- aqRunning, prog <- aqProg, mine <- aqMine, holder <- aqHolder

\* Tasks that are submitted and waited for while the server stops and starts.
Wait2 == INSTANCE AsynqServer WITH
    Callers <- {"a1", "a2"}, Types <- {"t1"}, Overlap <- TRUE,
    Ops <- {"Start", "Stop", "NewTask", "NewWaitResultTask", "NewPeriodicTask"},
    ServerEnabled <- TRUE, SchedulerEnabled <- TRUE, ClientEnabled <- TRUE,
    MaxCalls <- 3, MaxHandles <- 3, MaxRetry <- 1,
    state <- aqState, started <- aqStarted, err <- aqErr, ka <- aqKa, made <- aqMade,
    running <- aqRunning, prog <- aqProg, mine <- aqMine, holder <- aqHolder

Timer == INSTANCE HighPrecisionTimer WITH
    Ids <- {"i1", "i2"}, Intervals <- {0, 1}, Overlap <- FALSE, Horizon <- 2,
    MaxAdds <- 2, MaxStarts <- 2, MaxStops <- 1,
    tasks <- index, cancelled <- ctxCancelled, stops <- timerStops

ASSUME Table!AsynqAssumption /\ Wait2!AsynqAssumption /\ Timer!TimerAssumption

\* One caller, with engines that fail to start; three callers where one lock is
\* held throughout; waits that time out; a context that is cancelled.  The MCP
\* server's calls begin when the goroutine of the last Start is settled.
One == [member |-> "machinery", callers |-> {"c1"}, overlap |-> FALSE,
        settled |-> FALSE, expire |-> FALSE, cancel |-> FALSE]
WorkerCases ==
    {[One EXCEPT !.member = m] : m \in DOMAIN Profile \ {"mcp"}} \cup
    {[One EXCEPT !.member = m, !.callers = Callers, !.overlap = TRUE] :
        m \in {"cron", "hptimer", "temporal", "conductor"}} \cup
    {[One EXCEPT !.member = m, !.expire = TRUE] : m \in Waits} \cup
    {[One EXCEPT !.member = "goworkflows", !.cancel = TRUE],
     [One EXCEPT !.member = "mcp", !.settled = TRUE]}

MCInit ==
    /\ machine \in {"worker", "asynq table", "asynq wait", "timer"}
    /\ Init /\ (machine # "worker" => case = One)
    /\ IF machine = "asynq wait" THEN Wait2!Init ELSE Table!Init
    /\ Timer!Init

MCNext ==
    \/ machine = "worker" /\ Next /\ UNCHANGED <<machine, asynqVars, timerVars>>
    \/ machine = "asynq table" /\ Table!Next /\ UNCHANGED <<machine, vars, timerVars>>
    \/ machine = "asynq wait" /\ Wait2!Next /\ UNCHANGED <<machine, vars, timerVars>>
    \/ machine = "timer" /\ Timer!Next /\ UNCHANGED <<machine, vars, asynqVars>>

\* The clock advances, goroutines are scheduled and callbacks return.
MCFairness ==
    /\ WF_timerVars(machine = "timer" /\ Timer!Tick)
    /\ WF_timerVars(machine = "timer" /\ (Timer!StopLocked \/ Timer!StopReturn))
    /\ \A l \in Timer!Loops : WF_timerVars(machine = "timer" /\ Timer!LoopStep(l))

MCSpec == MCInit /\ [][MCNext]_<<machine, vars, asynqVars, timerVars>> /\ MCFairness

\* What the table of periodic tasks names is an entry of the scheduler in use
\* (NewPeriodicTask, RemovePeriodicTask).
TableIsRegistered == machine = "asynq table" => Table!TableIsRegistered
\* NewWaitResultTask reports success only of a task that succeeded
\* (waitResult).
WaitTellsTruth == machine = "asynq wait" => Wait2!WaitTellsTruth
\* A task of a running timer engine is taken out when its time comes
\* (AddTask, run), and a Stop that no callback has called returns.
TimerGoesOn == Timer!DueFires /\ Timer!StopReturns
=============================================================================
