--------------------------- MODULE WorkerProfiles ---------------------------
(***************************************************************************)
(* The parts that run tasks: the machinery, cron, hptimer and MCP servers  *)
(* under transport/ and the Temporal, go-workflows and Conductor workers   *)
(* under workflow/.  Each is a record of the steps of its Start and Stop   *)
(* and of whether the calls hold one lock throughout.                      *)
(* Steps of Start:                                                         *)
(*   err, started, closed  return when the field is set                    *)
(*   kaMake    make the keepalive server when there is none                *)
(*   kaRun     start it in a goroutine                                     *)
(*   engine    make and start what runs the tasks; may fail and return     *)
(*   engineOk  the same, cannot fail                                       *)
(*   context   return when started; else set it and make the context an    *)
(*             engine will run under                                       *)
(*   engineIn  start the engine under that context; a failure clears the   *)
(*             flag and cancels the context that is current by then        *)
(*   spawn     a goroutine makes the engine, publishes it and serves       *)
(*   flag      set started                                                 *)
(* Steps of Stop:                                                          *)
(*   guard, closed  return when not started, when closed                   *)
(*   signal    tell the current engine to take no more tasks               *)
(*   signalGo  a goroutine does that                                       *)
(*   signalled until that goroutine has, or a timeout                      *)
(*   wait      until the engine's running tasks are over, or a timeout     *)
(*   forget    the engine's field is cleared, and the error                *)
(*   take      the same, keeping the engine in a local variable            *)
(*   shutdown  stop that one                                               *)
(*   cancel    cancel the current context and clear started                *)
(*   kaStop    stop the keepalive server and forget it                     *)
(*   unflag, close  clear started, set closed                              *)
(***************************************************************************)
EXTENDS Sequences

Worker(l, s, p) == [locked |-> l, start |-> s, stop |-> p]

\* Mutant: the keepalive server is started before the worker, as it once was.
MachineryStartKaFirst == <<"err", "started", "kaMake", "kaRun", "engine", "flag">>
MachineryStart == <<"err", "started", "kaMake", "engine", "kaRun", "flag">>
MachineryStop == <<"unflag", "signal", "wait", "forget", "kaStop">>

CronStart == <<"started", "err", "engineOk", "flag", "kaMake", "kaRun">>
CronStop == <<"guard", "signalGo", "signalled", "kaStop", "unflag">>

HptimerStart == <<"started", "err", "engineOk", "kaMake", "kaRun", "flag">>
HptimerStop == <<"guard", "signalGo", "signalled", "wait", "kaStop", "unflag">>

McpStart == <<"err", "started", "kaMake", "kaRun", "spawn", "flag">>
McpStop == <<"guard", "unflag", "kaStop", "take", "shutdown">>

TemporalStart == <<"closed", "started", "engine", "flag">>
TemporalStop == <<"closed", "signal", "wait", "close">>

\* The lock is held for context, for the cleanup of a failure and for cancel.
GoworkflowsStart == <<"context", "engineIn">>
GoworkflowsStop == <<"cancel">>

\* StartWorker makes a new worker, Stop is the worker's.
ConductorStart == <<"closed", "started", "engineOk", "flag">>
ConductorStop == <<"closed", "signal", "close">>

Profile ==
    [ machinery   |-> Worker(FALSE, MachineryStart, MachineryStop),
      cron        |-> Worker(TRUE, CronStart, CronStop),
      hptimer     |-> Worker(TRUE, HptimerStart, HptimerStop),
      mcp         |-> Worker(FALSE, McpStart, McpStop),
      temporal    |-> Worker(TRUE, TemporalStart, TemporalStop),
      goworkflows |-> Worker(FALSE, GoworkflowsStart, GoworkflowsStop),
      conductor   |-> Worker(TRUE, ConductorStart, ConductorStop) ]
=============================================================================
