---------------------------- MODULE WorkerProofs ----------------------------
(***************************************************************************)
(* Proofs about WorkerFamily: what runs tasks is off when it is stopped.   *)
(*                                                                         *)
(* Calls come one after the other, because one lock is held throughout or  *)
(* because their callers do not overlap them.  So the state is a function  *)
(* of the steps the one caller inside has left, and the invariant says     *)
(* what holds before each of them.                                         *)
(***************************************************************************)
EXTENDS WorkerFamily, TLAPS

\* How the members may be called: calls overlap only where one lock is held
\* throughout, a Stop that can time out is not followed by the call of another
\* goroutine, and the calls of the MCP server wait for the goroutine of the last
\* Start.  The timed out Stop of a timer leaves a goroutine that stops whatever
\* engine is current when it runs, and the MCP server's goroutine publishes its
\* listener even when Stop has come before it.
Orderly ==
    \A x \in Cases :
        /\ x.overlap => Profile[x.member].locked
        /\ x.expire => \A c, d \in x.callers : c = d
        /\ x.member = "mcp" => x.settled

-----------------------------------------------------------------------------
(* The steps a caller can have left, by the first of them.                 *)

AtErr == {<<"err", "started", "kaMake", "engine", "kaRun", "flag">>,
          <<"err", "engineOk", "flag", "kaMake", "kaRun">>,
          <<"err", "engineOk", "kaMake", "kaRun", "flag">>,
          <<"err", "started", "kaMake", "kaRun", "spawn", "flag">>}
AtStarted == {<<"started", "kaMake", "engine", "kaRun", "flag">>,
              <<"started", "err", "engineOk", "flag", "kaMake", "kaRun">>,
              <<"started", "err", "engineOk", "kaMake", "kaRun", "flag">>,
              <<"started", "kaMake", "kaRun", "spawn", "flag">>,
              <<"started", "engine", "flag">>,
              <<"started", "engineOk", "flag">>}
AtClosed == {<<"closed", "started", "engine", "flag">>,
             <<"closed", "started", "engineOk", "flag">>,
             <<"closed", "signal", "wait", "close">>,
             <<"closed", "signal", "close">>}
AtGuard == {<<"guard", "signalGo", "signalled", "kaStop", "unflag">>,
            <<"guard", "signalGo", "signalled", "wait", "kaStop", "unflag">>,
            <<"guard", "unflag", "kaStop", "take", "shutdown">>}
AtKaMake == {<<"kaMake", "engine", "kaRun", "flag">>,
             <<"kaMake", "kaRun">>,
             <<"kaMake", "kaRun", "flag">>,
             <<"kaMake", "kaRun", "spawn", "flag">>}
AtKaRun == {<<"kaRun", "flag">>, <<"kaRun">>, <<"kaRun", "spawn", "flag">>}
AtEngine == {<<"engine", "kaRun", "flag">>, <<"engine", "flag">>}
AtEngineOk == {<<"engineOk", "flag", "kaMake", "kaRun">>,
               <<"engineOk", "kaMake", "kaRun", "flag">>,
               <<"engineOk", "flag">>}
AtSpawn == {<<"spawn", "flag">>}
AtFlag == {<<"flag">>, <<"flag", "kaMake", "kaRun">>}
AtContext == {<<"context", "engineIn">>}
AtEngineIn == {<<"engineIn">>}
AtUnflag == {<<"unflag", "signal", "wait", "forget", "kaStop">>,
             <<"unflag", "kaStop", "take", "shutdown">>,
             <<"unflag">>}
AtSignal == {<<"signal", "wait", "forget", "kaStop">>,
             <<"signal", "wait", "close">>,
             <<"signal", "close">>}
AtCancel == {<<"cancel">>}
AtSignalGo == {<<"signalGo", "signalled", "kaStop", "unflag">>,
               <<"signalGo", "signalled", "wait", "kaStop", "unflag">>}
AtSignalled == {<<"signalled", "kaStop", "unflag">>,
                <<"signalled", "wait", "kaStop", "unflag">>}
AtWait == {<<"wait", "forget", "kaStop">>,
           <<"wait", "kaStop", "unflag">>,
           <<"wait", "close">>}
AtForget == {<<"forget", "kaStop">>}
AtKaStop == {<<"kaStop">>, <<"kaStop", "unflag">>, <<"kaStop", "take", "shutdown">>}
AtTake == {<<"take", "shutdown">>}
AtShutdown == {<<"shutdown">>}
AtClose == {<<"close">>}

Lefts == AtErr \cup AtStarted \cup AtClosed \cup AtGuard \cup AtKaMake \cup AtKaRun
         \cup AtEngine \cup AtEngineOk \cup AtSpawn \cup AtFlag \cup AtContext
         \cup AtEngineIn \cup AtUnflag \cup AtSignal \cup AtCancel \cup AtSignalGo
         \cup AtSignalled \cup AtWait \cup AtForget \cup AtKaStop \cup AtTake
         \cup AtShutdown \cup AtClose

-----------------------------------------------------------------------------
(* Where in a call that is.                                                *)

\* A call whose guards have not all been passed.
Entering == {<<"err", "started", "kaMake", "engine", "kaRun", "flag">>,
             <<"err", "started", "kaMake", "kaRun", "spawn", "flag">>,
             <<"unflag", "signal", "wait", "forget", "kaStop">>}
            \cup AtStarted \cup AtClosed \cup AtGuard \cup AtContext \cup AtCancel
\* A Start that has passed its guards and has not made its engine ...
Fresh == {<<"err", "engineOk", "flag", "kaMake", "kaRun">>,
          <<"err", "engineOk", "kaMake", "kaRun", "flag">>,
          <<"kaMake", "engine", "kaRun", "flag">>,
          <<"kaMake", "kaRun", "spawn", "flag">>,
          <<"kaRun", "spawn", "flag">>}
         \cup AtEngine \cup AtEngineOk
\* ... that has, and that besides has set started.
Begun == {<<"kaMake", "kaRun", "flag">>, <<"kaRun", "flag">>,
          <<"flag", "kaMake", "kaRun">>}
Running == {<<"kaMake", "kaRun">>, <<"kaRun">>}
\* A Stop that has not told the engine, and one that has and does not wait.
Before == {<<"unflag", "kaStop", "take", "shutdown">>, <<"kaStop", "take", "shutdown">>}
          \cup AtSignal \cup AtSignalGo
Ended == {<<"kaStop">>, <<"kaStop", "unflag">>} \cup AtForget
Over == {<<"unflag">>} \cup AtClose

Phase(q) ==
    CASE q \in Entering    -> "entering"
      [] q \in Fresh       -> "fresh"
      [] q \in AtSpawn     -> "spawning"
      [] q \in Begun       -> "begun"
      [] q = <<"flag">>    -> "flagging"
      [] q \in Running     -> "running"
      [] q \in AtEngineIn  -> "entered"
      [] q \in Before      -> "before"
      [] q \in AtTake      -> "taking"
      [] q \in AtSignalled -> "signalled"
      [] q \in AtWait      -> "waiting"
      [] q \in Ended       -> "ended"
      [] q \in Over        -> "over"
      [] q \in AtShutdown  -> "shutdown"
      [] OTHER             -> "outside"

\* The steps that only some members have.
NoKeepalive == {"temporal", "goworkflows", "conductor"}
Closing == {<<"closed", "signal", "wait", "close">>, <<"closed", "signal", "close">>,
            <<"wait", "close">>, <<"signal", "wait", "close">>, <<"signal", "close">>}
           \cup AtClose
Bare == AtContext \cup AtEngineIn \cup AtCancel
McpSteps == {<<"err", "started", "kaMake", "kaRun", "spawn", "flag">>,
             <<"started", "kaMake", "kaRun", "spawn", "flag">>,
             <<"kaMake", "kaRun", "spawn", "flag">>,
             <<"kaRun", "spawn", "flag">>,
             <<"guard", "unflag", "kaStop", "take", "shutdown">>,
             <<"unflag", "kaStop", "take", "shutdown">>,
             <<"kaStop", "take", "shutdown">>}
            \cup AtSpawn \cup AtTake \cup AtShutdown
CronSteps == {<<"guard", "signalGo", "signalled", "kaStop", "unflag">>,
              <<"signalGo", "signalled", "kaStop", "unflag">>,
              <<"signalled", "kaStop", "unflag">>}
HptimerSteps == {<<"guard", "signalGo", "signalled", "wait", "kaStop", "unflag">>,
                 <<"signalGo", "signalled", "wait", "kaStop", "unflag">>}
MachinerySteps == {<<"unflag", "signal", "wait", "forget", "kaStop">>,
                   <<"signal", "wait", "forget", "kaStop">>,
                   <<"wait", "forget", "kaStop">>} \cup AtForget
ConductorSteps == {<<"closed", "signal", "close">>, <<"signal", "close">>}
PlainSteps == {<<"started", "engine", "flag">>, <<"started", "engineOk", "flag">>,
               <<"engine", "flag">>, <<"engineOk", "flag">>, <<"flag">>}
              \cup AtClosed \cup Closing \cup Bare

Tagged(q) ==
    /\ q \in Closing => member \in {"temporal", "conductor"}
    /\ q \in Bare => member = "goworkflows"
    /\ q \in McpSteps => member = "mcp"
    /\ q \in CronSteps => member = "cron"
    /\ q \in HptimerSteps => member = "hptimer"
    /\ q \in MachinerySteps => member = "machinery"
    /\ q \in ConductorSteps => member = "conductor"
    /\ member = "mcp" => q \in McpSteps \cup {<<"flag">>}
    /\ member \in NoKeepalive => q \in PlainSteps

-----------------------------------------------------------------------------
(* The inductive invariant.                                                *)

WorkerTypeOK ==
    /\ case \in Cases
    /\ started \in BOOLEAN /\ closed \in BOOLEAN
    /\ ka \in {"none", "made", "running"}
    /\ engine \in Nat /\ made \in Nat
    /\ live \subseteq Nat /\ busy \subseteq Nat /\ launching \subseteq Nat
    /\ serving \subseteq Nat
    /\ stoppers \subseteq case.callers
    /\ prog \in [Callers -> Lefts \cup {<<>>}]
    /\ mine \in [Callers -> Nat]
    /\ ~case.expire => expired = {}

\* Stop waits for the tasks that run.
Strict == member \in Waits /\ ~case.expire

\* Only the current engine takes tasks.
Current == live \subseteq {engine} /\ (Strict => busy \subseteq {engine})

\* Between the calls.
Off == /\ stoppers = {} => live = {}
       /\ launching = {} /\ ka # "running"
       /\ Strict => busy = {}
Resting == Current /\ (~started \/ closed => Off)

\* The goroutine of a Stop runs, or has run and stopped the engine.
Told(c) == /\ stoppers \subseteq {c}
           /\ stoppers = {} => live = {}

\* Before the steps q of caller c.
CallOK(c, q) ==
    /\ c \in case.callers
    /\ Tagged(q)
    /\ q \notin AtClosed => ~closed
    /\ Phase(q) # "flagging" => launching = {} /\ serving \subseteq live
    /\ Phase(q) = "entering" => Resting /\ stoppers = {}
    /\ Phase(q) \in {"fresh", "spawning"} =>
           live = {} /\ stoppers = {} /\ (Strict => busy = {})
    /\ Phase(q) \in {"fresh", "taking", "over", "shutdown"} => ka # "running"
    /\ Phase(q) \in {"begun", "flagging", "running", "before", "taking"} =>
           Current /\ stoppers = {}
    /\ Phase(q) \in {"running", "entered"} => started
    /\ Phase(q) = "entered" => live = {} /\ stoppers = {} /\ mine[c] = engine
    /\ Phase(q) \in {"signalled", "waiting"} =>
           Current /\ Told(c) /\ (stoppers = {} => mine[c] = engine)
    /\ Phase(q) \in {"waiting", "ended", "over"} => (~case.expire => stoppers = {})
    /\ Phase(q) \in {"ended", "over"} => Current /\ Told(c) /\ (Strict => busy = {})
    /\ Phase(q) = "shutdown" => live \subseteq {mine[c]} /\ stoppers = {}

\* Engines that a goroutine of Start makes: one at a time.
Goroutines ==
    /\ launching = {} \/ (live = {} /\ serving = {})
    /\ \A e, f \in launching : e = f
    /\ serving \subseteq live \/ live = {}
    /\ member # "mcp" => launching = {} /\ serving = {}
    /\ stoppers # {} => member \in {"cron", "hptimer"}

\* Who is inside.
OneInside ==
    /\ \A c, d \in Callers : prog[c] # <<>> /\ prog[d] # <<>> => c = d
    /\ P.locked => holder = {c \in Callers : prog[c] # <<>>}
CallsOK == \A c \in Callers : prog[c] # <<>> => CallOK(c, prog[c])
IdleOK == Idle => Resting /\ (~case.expire => stoppers = {})

MemberOK ==
    /\ closed => member \in {"temporal", "conductor"}
    /\ member \in NoKeepalive => ka # "running"

WorkerInv ==
    /\ WorkerTypeOK /\ Goroutines /\ MemberOK /\ OneInside /\ CallsOK /\ IdleOK

-----------------------------------------------------------------------------
(* The steps a caller has left.                                            *)

\* The first step tells which of the sets the list is in.
LEMMA Heads ==
    ASSUME NEW q \in Lefts
    PROVE  /\ q # <<>>
           /\ Head(q) = "err" => q \in AtErr
           /\ Head(q) = "started" => q \in AtStarted
           /\ Head(q) = "closed" => q \in AtClosed
           /\ Head(q) = "guard" => q \in AtGuard
           /\ Head(q) = "kaMake" => q \in AtKaMake
           /\ Head(q) = "kaRun" => q \in AtKaRun
           /\ Head(q) = "engine" => q \in AtEngine
           /\ Head(q) = "engineOk" => q \in AtEngineOk
           /\ Head(q) = "spawn" => q \in AtSpawn
           /\ Head(q) = "flag" => q \in AtFlag
           /\ Head(q) = "context" => q \in AtContext
           /\ Head(q) = "engineIn" => q \in AtEngineIn
           /\ Head(q) = "unflag" => q \in AtUnflag
           /\ Head(q) = "signal" => q \in AtSignal
           /\ Head(q) = "cancel" => q \in AtCancel
           /\ Head(q) = "signalGo" => q \in AtSignalGo
           /\ Head(q) = "signalled" => q \in AtSignalled
           /\ Head(q) = "wait" => q \in AtWait
           /\ Head(q) = "forget" => q \in AtForget
           /\ Head(q) = "kaStop" => q \in AtKaStop
           /\ Head(q) = "take" => q \in AtTake
           /\ Head(q) = "shutdown" => q \in AtShutdown
           /\ Head(q) = "close" => q \in AtClose
<1>1. q \in AtErr => q # <<>> /\ Head(q) = "err"
  BY DEF AtErr
<1>2. q \in AtStarted => q # <<>> /\ Head(q) = "started"
  BY DEF AtStarted
<1>3. q \in AtClosed => q # <<>> /\ Head(q) = "closed"
  BY DEF AtClosed
<1>4. q \in AtGuard => q # <<>> /\ Head(q) = "guard"
  BY DEF AtGuard
<1>5. q \in AtKaMake => q # <<>> /\ Head(q) = "kaMake"
  BY DEF AtKaMake
<1>6. q \in AtKaRun => q # <<>> /\ Head(q) = "kaRun"
  BY DEF AtKaRun
<1>7. q \in AtEngine => q # <<>> /\ Head(q) = "engine"
  BY DEF AtEngine
<1>8. q \in AtEngineOk => q # <<>> /\ Head(q) = "engineOk"
  BY DEF AtEngineOk
<1>9. q \in AtSpawn => q # <<>> /\ Head(q) = "spawn"
  BY DEF AtSpawn
<1>10. q \in AtFlag => q # <<>> /\ Head(q) = "flag"
  BY DEF AtFlag
<1>11. q \in AtContext => q # <<>> /\ Head(q) = "context"
  BY DEF AtContext
<1>12. q \in AtEngineIn => q # <<>> /\ Head(q) = "engineIn"
  BY DEF AtEngineIn
<1>13. q \in AtUnflag => q # <<>> /\ Head(q) = "unflag"
  BY DEF AtUnflag
<1>14. q \in AtSignal => q # <<>> /\ Head(q) = "signal"
  BY DEF AtSignal
<1>15. q \in AtCancel => q # <<>> /\ Head(q) = "cancel"
  BY DEF AtCancel
<1>16. q \in AtSignalGo => q # <<>> /\ Head(q) = "signalGo"
  BY DEF AtSignalGo
<1>17. q \in AtSignalled => q # <<>> /\ Head(q) = "signalled"
  BY DEF AtSignalled
<1>18. q \in AtWait => q # <<>> /\ Head(q) = "wait"
  BY DEF AtWait
<1>19. q \in AtForget => q # <<>> /\ Head(q) = "forget"
  BY DEF AtForget
<1>20. q \in AtKaStop => q # <<>> /\ Head(q) = "kaStop"
  BY DEF AtKaStop
<1>21. q \in AtTake => q # <<>> /\ Head(q) = "take"
  BY DEF AtTake
<1>22. q \in AtShutdown => q # <<>> /\ Head(q) = "shutdown"
  BY DEF AtShutdown
<1>23. q \in AtClose => q # <<>> /\ Head(q) = "close"
  BY SMTT(30) DEF AtClose
<1>q. QED
  BY <1>1, <1>2, <1>3, <1>4, <1>5, <1>6, <1>7, <1>8, <1>9, <1>10, <1>11, <1>12, <1>13, <1>14, <1>15, <1>16, <1>17, <1>18, <1>19, <1>20, <1>21, <1>22, <1>23, Zenon DEF Lefts

-----------------------------------------------------------------------------
(* Where a step leads.                                                     *)

\* After a guard the call is still entering, or it is a Start that has seen
\* started unset, or a Stop that has yet to tell the engine.
LEMMA GuardGoesOn ==
    ASSUME NEW q \in AtErr \cup AtStarted \cup AtClosed \cup AtGuard
    PROVE  /\ Len(q) # 1 /\ Tail(q) \in Lefts \ AtClosed /\ Tail(q) # <<>>
           /\ Tagged(q) => Tagged(Tail(q))
           /\ Phase(q) \in {"entering", "fresh"}
           /\ Phase(Tail(q)) \in {"entering", "fresh", "before"}
           /\ Phase(Tail(q)) = "entering" => Phase(q) = "entering"
           /\ Phase(Tail(q)) = "before" => Phase(q) = "entering"
           /\ Phase(Tail(q)) = "fresh" => Phase(q) = "fresh" \/ q \in AtStarted
           /\ Head(q) \in {"err", "started", "closed", "guard"}
           /\ Head(q) = "started" <=> q \in AtStarted
           /\ Head(q) = "closed" <=> q \in AtClosed
<1> USE DEF Lefts, AtErr, AtStarted, AtClosed, AtGuard, AtKaMake, AtKaRun, AtEngine,
            AtEngineOk, AtSpawn, AtFlag, AtContext, AtEngineIn, AtUnflag, AtSignal,
            AtCancel, AtSignalGo, AtSignalled, AtWait, AtForget, AtKaStop, AtTake,
            AtShutdown, AtClose, Phase, Entering, Fresh, Begun, Running, Before, Ended,
            Over, Tagged, NoKeepalive, Closing, Bare, McpSteps, CronSteps,
            HptimerSteps, MachinerySteps, ConductorSteps, PlainSteps
<1>1. CASE q = <<"err", "started", "kaMake", "engine", "kaRun", "flag">>
  BY <1>1
<1>2. CASE q = <<"err", "engineOk", "flag", "kaMake", "kaRun">>
  BY <1>2
<1>3. CASE q = <<"err", "engineOk", "kaMake", "kaRun", "flag">>
  BY <1>3
<1>4. CASE q = <<"err", "started", "kaMake", "kaRun", "spawn", "flag">>
  BY <1>4
<1>5. CASE q = <<"started", "kaMake", "engine", "kaRun", "flag">>
  BY <1>5
<1>6. CASE q = <<"started", "err", "engineOk", "flag", "kaMake", "kaRun">>
  BY <1>6
<1>7. CASE q = <<"started", "err", "engineOk", "kaMake", "kaRun", "flag">>
  BY <1>7
<1>8. CASE q = <<"started", "kaMake", "kaRun", "spawn", "flag">>
  BY <1>8
<1>9. CASE q = <<"started", "engine", "flag">>
  BY <1>9
<1>10. CASE q = <<"started", "engineOk", "flag">>
  BY <1>10
<1>11. CASE q = <<"closed", "started", "engine", "flag">>
  BY <1>11
<1>12. CASE q = <<"closed", "started", "engineOk", "flag">>
  BY <1>12
<1>13. CASE q = <<"closed", "signal", "wait", "close">>
  BY <1>13
<1>14. CASE q = <<"closed", "signal", "close">>
  BY <1>14
<1>15. CASE q = <<"guard", "signalGo", "signalled", "kaStop", "unflag">>
  BY <1>15
<1>16. CASE q = <<"guard", "signalGo", "signalled", "wait", "kaStop", "unflag">>
  BY <1>16
<1>17. CASE q = <<"guard", "unflag", "kaStop", "take", "shutdown">>
  BY <1>17
<1> HIDE DEF Lefts, Phase, Entering, Fresh, Begun, Running, Before, Ended, Over,
             Tagged, NoKeepalive, Closing, Bare, McpSteps, CronSteps, HptimerSteps,
             MachinerySteps, ConductorSteps, PlainSteps
<1>q. QED
  BY <1>1, <1>2, <1>3, <1>4, <1>5, <1>6, <1>7, <1>8, <1>9, <1>10, <1>11, <1>12, <1>13, <1>14, <1>15, <1>16, <1>17, Zenon

\* Start sets started before it runs the keepalive server or as its last step,
\* Stop clears it before it does anything or as its last step.
LEMMA FlagGoesOn ==
    ASSUME NEW q \in AtFlag \cup AtUnflag \cup AtClose
    PROVE  /\ Tail(q) \in (Lefts \ AtClosed) \cup {<<>>}
           /\ Len(q) = 1 <=> Tail(q) = <<>>
           /\ Tagged(q) => Tail(q) = <<>> \/ Tagged(Tail(q))
           /\ q \notin AtClosed
           /\ Tail(q) = <<>> => Phase(q) \in {"flagging", "over"}
           /\ Phase(q) = "flagging" => Tail(q) = <<>> /\ Head(q) = "flag"
           /\ Phase(q) = "over" => Tail(q) = <<>> /\ Head(q) # "flag"
           /\ Tail(q) # <<>> => \/ /\ Phase(q) = "begun" /\ Head(q) = "flag"
                                   /\ Phase(Tail(q)) = "running"
                                \/ /\ Phase(q) \in {"entering", "before"}
                                   /\ Phase(Tail(q)) = "before"
           /\ Head(q) = "close" => Phase(q) = "over" /\ q \in Closing
<1> USE DEF Lefts, AtErr, AtStarted, AtClosed, AtGuard, AtKaMake, AtKaRun, AtEngine,
            AtEngineOk, AtSpawn, AtFlag, AtContext, AtEngineIn, AtUnflag, AtSignal,
            AtCancel, AtSignalGo, AtSignalled, AtWait, AtForget, AtKaStop, AtTake,
            AtShutdown, AtClose, Phase, Entering, Fresh, Begun, Running, Before, Ended,
            Over, Tagged, NoKeepalive, Closing, Bare, McpSteps, CronSteps,
            HptimerSteps, MachinerySteps, ConductorSteps, PlainSteps
<1>1. CASE q = <<"flag">>
  BY <1>1
<1>2. CASE q = <<"flag", "kaMake", "kaRun">>
  BY <1>2
<1>3. CASE q = <<"unflag", "signal", "wait", "forget", "kaStop">>
  BY <1>3
<1>4. CASE q = <<"unflag", "kaStop", "take", "shutdown">>
  BY <1>4
<1>5. CASE q = <<"unflag">>
  BY <1>5
<1>6. CASE q = <<"close">>
  BY <1>6
<1>q. QED
  BY <1>1, <1>2, <1>3, <1>4, <1>5, <1>6, Zenon

\* The keepalive server is made before the engine or after it; it runs before the
\* engine only where a goroutine makes that, and is stopped when the engine has
\* been told or before it is.
LEMMA KeepaliveGoesOn ==
    ASSUME NEW q \in AtKaMake \cup AtKaRun \cup AtKaStop
    PROVE  /\ Tail(q) \in (Lefts \ AtClosed) \cup {<<>>}
           /\ Len(q) = 1 <=> Tail(q) = <<>>
           /\ Tagged(q) => Tail(q) = <<>> \/ Tagged(Tail(q))
           /\ q \notin AtClosed
           /\ Head(q) # "kaStop" /\ Tagged(q) => member \notin NoKeepalive
           /\ Head(q) \in {"kaMake", "kaRun", "kaStop"}
           /\ Head(q) = "kaMake" =>
                 /\ Phase(q) \in {"fresh", "begun", "running"}
                 /\ Tail(q) # <<>> /\ Phase(Tail(q)) = Phase(q)
           /\ Head(q) = "kaRun" =>
                 \/ Phase(q) = "begun" /\ Tail(q) # <<>> /\ Phase(Tail(q)) = "flagging"
                 \/ Phase(q) = "running" /\ Tail(q) = <<>>
                 \/ Phase(q) = "fresh" /\ Tail(q) # <<>> /\ Phase(Tail(q)) = "spawning"
           /\ Head(q) = "kaStop" =>
                 \/ Phase(q) = "ended" /\ Tail(q) = <<>>
                 \/ Phase(q) = "ended" /\ Tail(q) # <<>> /\ Phase(Tail(q)) = "over"
                 \/ Phase(q) = "before" /\ Tail(q) # <<>> /\ Phase(Tail(q)) = "taking"
<1> USE DEF Lefts, AtErr, AtStarted, AtClosed, AtGuard, AtKaMake, AtKaRun, AtEngine,
            AtEngineOk, AtSpawn, AtFlag, AtContext, AtEngineIn, AtUnflag, AtSignal,
            AtCancel, AtSignalGo, AtSignalled, AtWait, AtForget, AtKaStop, AtTake,
            AtShutdown, AtClose, Phase, Entering, Fresh, Begun, Running, Before, Ended,
            Over, Tagged, NoKeepalive, Closing, Bare, McpSteps, CronSteps,
            HptimerSteps, MachinerySteps, ConductorSteps, PlainSteps
<1>1. CASE q = <<"kaMake", "engine", "kaRun", "flag">>
  BY <1>1
<1>2. CASE q = <<"kaMake", "kaRun">>
  BY <1>2
<1>3. CASE q = <<"kaMake", "kaRun", "flag">>
  BY <1>3
<1>4. CASE q = <<"kaMake", "kaRun", "spawn", "flag">>
  BY <1>4
<1>5. CASE q = <<"kaRun", "flag">>
  BY <1>5
<1>6. CASE q = <<"kaRun">>
  BY <1>6
<1>7. CASE q = <<"kaRun", "spawn", "flag">>
  BY <1>7
<1>8. CASE q = <<"kaStop">>
  BY <1>8
<1>9. CASE q = <<"kaStop", "unflag">>
  BY <1>9
<1>10. CASE q = <<"kaStop", "take", "shutdown">>
  BY <1>10, SMTT(30)
<1> HIDE DEF Lefts, Phase, Entering, Fresh, Begun, Running, Before, Ended, Over,
             Tagged, NoKeepalive, Closing, Bare, McpSteps, CronSteps, HptimerSteps,
             MachinerySteps, ConductorSteps, PlainSteps
<1>q. QED
  BY <1>1, <1>2, <1>3, <1>4, <1>5, <1>6, <1>7, <1>8, <1>9, <1>10, Zenon

\* Start makes its engine once nothing of an earlier one is left.
LEMMA EngineGoesOn ==
    ASSUME NEW q \in AtEngine \cup AtEngineOk \cup AtSpawn \cup AtContext \cup AtEngineIn
    PROVE  /\ Tail(q) \in (Lefts \ AtClosed) \cup {<<>>}
           /\ Len(q) = 1 <=> Tail(q) = <<>>
           /\ Tagged(q) => Tail(q) = <<>> \/ Tagged(Tail(q))
           /\ q \notin AtClosed
           /\ Head(q) \in {"engine", "engineOk"} =>
                 /\ Phase(q) = "fresh" /\ Tail(q) # <<>>
                 /\ Phase(Tail(q)) \in {"begun", "flagging"}
           /\ Head(q) = "spawn" => /\ Phase(q) = "spawning" /\ Tail(q) # <<>>
                                   /\ Phase(Tail(q)) = "flagging" /\ q \in McpSteps
           /\ Head(q) = "context" => /\ Phase(q) = "entering" /\ Tail(q) # <<>>
                                     /\ Phase(Tail(q)) = "entered" /\ q \in Bare
           /\ Head(q) = "engineIn" => Phase(q) = "entered" /\ Tail(q) = <<>> /\ q \in Bare
<1> USE DEF Lefts, AtErr, AtStarted, AtClosed, AtGuard, AtKaMake, AtKaRun, AtEngine,
            AtEngineOk, AtSpawn, AtFlag, AtContext, AtEngineIn, AtUnflag, AtSignal,
            AtCancel, AtSignalGo, AtSignalled, AtWait, AtForget, AtKaStop, AtTake,
            AtShutdown, AtClose, Phase, Entering, Fresh, Begun, Running, Before, Ended,
            Over, Tagged, NoKeepalive, Closing, Bare, McpSteps, CronSteps,
            HptimerSteps, MachinerySteps, ConductorSteps, PlainSteps
<1>1. CASE q = <<"engine", "kaRun", "flag">>
  BY <1>1
<1>2. CASE q = <<"engine", "flag">>
  BY <1>2
<1>3. CASE q = <<"engineOk", "flag", "kaMake", "kaRun">>
  BY <1>3
<1>4. CASE q = <<"engineOk", "kaMake", "kaRun", "flag">>
  BY <1>4
<1>5. CASE q = <<"engineOk", "flag">>
  BY <1>5
<1>6. CASE q = <<"spawn", "flag">>
  BY <1>6
<1>7. CASE q = <<"context", "engineIn">>
  BY <1>7
<1>8. CASE q = <<"engineIn">>
  BY <1>8, SMTT(30)
<1> HIDE DEF Lefts, Phase, Entering, Fresh, Begun, Running, Before, Ended, Over,
             Tagged, NoKeepalive, Closing, Bare, McpSteps, CronSteps, HptimerSteps,
             MachinerySteps, ConductorSteps, PlainSteps
<1>q. QED
  BY <1>1, <1>2, <1>3, <1>4, <1>5, <1>6, <1>7, <1>8, Zenon

\* Stop tells the engine, waits for it where it does that, and forgets it.
LEMMA StopGoesOn ==
    ASSUME NEW q \in AtSignal \cup AtCancel \cup AtSignalGo \cup AtSignalled \cup AtWait \cup AtForget \cup AtTake \cup AtShutdown
    PROVE  /\ Tail(q) \in (Lefts \ AtClosed) \cup {<<>>}
           /\ Len(q) = 1 <=> Tail(q) = <<>>
           /\ Tagged(q) => Tail(q) = <<>> \/ Tagged(Tail(q))
           /\ q \notin AtClosed
           /\ Head(q) = "signal" =>
                 /\ Phase(q) = "before" /\ Tail(q) # <<>> /\ q \notin McpSteps \cup {<<"flag">>}
                 /\ \/ Phase(Tail(q)) = "waiting"
                    \/ Phase(Tail(q)) = "over" /\ q \in ConductorSteps \cap Closing
           /\ Head(q) = "cancel" => Phase(q) = "entering" /\ Tail(q) = <<>> /\ q \in Bare
           /\ Head(q) = "signalGo" =>
                 /\ Phase(q) = "before" /\ Tail(q) # <<>> /\ q \in CronSteps \cup HptimerSteps
                 /\ Phase(Tail(q)) = "signalled"
           /\ Head(q) = "signalled" =>
                 /\ Phase(q) = "signalled" /\ Tail(q) # <<>>
                 /\ \/ Phase(Tail(q)) = "waiting"
                    \/ Phase(Tail(q)) = "ended" /\ q \in CronSteps
           /\ Head(q) = "wait" =>
                 /\ Phase(q) = "waiting" /\ Tail(q) # <<>>
                 /\ \/ Phase(Tail(q)) = "ended"
                    \/ Phase(Tail(q)) = "over" /\ q \in Closing
           /\ Head(q) = "forget" => /\ Phase(q) = "ended" /\ Tail(q) # <<>>
                                    /\ Phase(Tail(q)) = "ended" /\ q \in MachinerySteps
           /\ Head(q) = "take" => /\ Phase(q) = "taking" /\ Tail(q) # <<>>
                                  /\ Phase(Tail(q)) = "shutdown" /\ q \in McpSteps
           /\ Head(q) = "shutdown" => /\ Phase(q) = "shutdown" /\ Tail(q) = <<>>
                                      /\ q \in McpSteps
<1> USE DEF Lefts, AtErr, AtStarted, AtClosed, AtGuard, AtKaMake, AtKaRun, AtEngine,
            AtEngineOk, AtSpawn, AtFlag, AtContext, AtEngineIn, AtUnflag, AtSignal,
            AtCancel, AtSignalGo, AtSignalled, AtWait, AtForget, AtKaStop, AtTake,
            AtShutdown, AtClose, Phase, Entering, Fresh, Begun, Running, Before, Ended,
            Over, Tagged, NoKeepalive, Closing, Bare, McpSteps, CronSteps,
            HptimerSteps, MachinerySteps, ConductorSteps, PlainSteps
<1>1. CASE q = <<"signal", "wait", "forget", "kaStop">>
  BY <1>1
<1>2. CASE q = <<"signal", "wait", "close">>
  BY <1>2
<1>3. CASE q = <<"signal", "close">>
  BY <1>3
<1>4. CASE q = <<"cancel">>
  BY <1>4
<1>5. CASE q = <<"signalGo", "signalled", "kaStop", "unflag">>
  BY <1>5
<1>6. CASE q = <<"signalGo", "signalled", "wait", "kaStop", "unflag">>
  BY <1>6
<1>7. CASE q = <<"signalled", "kaStop", "unflag">>
  BY <1>7
<1>8. CASE q = <<"signalled", "wait", "kaStop", "unflag">>
  BY <1>8
<1>9. CASE q = <<"wait", "forget", "kaStop">>
  BY <1>9, SMTT(30)
<1>10. CASE q = <<"wait", "kaStop", "unflag">>
  BY <1>10, SMTT(30)
<1>11. CASE q = <<"wait", "close">>
  BY <1>11, SMTT(30)
<1>12. CASE q = <<"forget", "kaStop">>
  BY <1>12, SMTT(30)
<1>13. CASE q = <<"take", "shutdown">>
  BY <1>13, SMTT(30)
<1>14. CASE q = <<"shutdown">>
  BY <1>14
<1> HIDE DEF Lefts, Phase, Entering, Fresh, Begun, Running, Before, Ended, Over,
             Tagged, NoKeepalive, Closing, Bare, McpSteps, CronSteps, HptimerSteps,
             MachinerySteps, ConductorSteps, PlainSteps
<1>q. QED
  BY <1>1, <1>2, <1>3, <1>4, <1>5, <1>6, <1>7, <1>8, <1>9, <1>10, <1>11, <1>12, <1>13, <1>14, Zenon

-----------------------------------------------------------------------------
(* Calls.                                                                  *)

\* Both calls of every member begin with what they ask or, where they ask nothing,
\* with a step that goes through in any state.
LEMMA Programs ==
    ASSUME case \in Cases, NEW r, r = P.start \/ r = P.stop
    PROVE  /\ r \in Lefts /\ r # <<>> /\ Tagged(r) /\ Phase(r) = "entering"
           /\ member \in {"temporal", "conductor"} => r \in AtClosed
           /\ P.locked \in BOOLEAN
<1> USE WorkerAssumption DEF WorkerAssumption, P, Worker
<1>1. member \in DOMAIN Profile
  BY Zenon DEF member
<1>2. member \in {"machinery", "cron", "hptimer", "mcp", "temporal", "goworkflows",
                  "conductor"}
  BY <1>1, Zenon DEF Profile
<1> USE DEF Lefts, AtErr, AtStarted, AtClosed, AtGuard, AtKaMake, AtKaRun, AtEngine,
            AtEngineOk, AtSpawn, AtFlag, AtContext, AtEngineIn, AtUnflag, AtSignal,
            AtCancel, AtSignalGo, AtSignalled, AtWait, AtForget, AtKaStop, AtTake,
            AtShutdown, AtClose, Phase, Entering, Fresh, Begun, Running, Before, Ended,
            Over, Tagged, NoKeepalive, Closing, Bare, McpSteps, CronSteps,
            HptimerSteps, MachinerySteps, ConductorSteps, PlainSteps
<1>3. CASE member = "machinery"
  <2>1. P.locked \in BOOLEAN /\ r \in {MachineryStart, MachineryStop}
    BY <1>3, Zenon DEF Profile
  <2>2. CASE r = MachineryStart
    BY <1>3, <2>1, <2>2, Zenon DEF MachineryStart
  <2>3. CASE r = MachineryStop
    BY <1>3, <2>1, <2>3, Zenon DEF MachineryStop
  <2>q. QED
    BY <2>1, <2>2, <2>3, Zenon
<1>4. CASE member = "cron"
  <2>1. P.locked \in BOOLEAN /\ r \in {CronStart, CronStop}
    BY <1>4, Zenon DEF Profile
  <2>2. CASE r = CronStart
    BY <1>4, <2>1, <2>2, Zenon DEF CronStart
  <2>3. CASE r = CronStop
    BY <1>4, <2>1, <2>3, Zenon DEF CronStop
  <2>q. QED
    BY <2>1, <2>2, <2>3, Zenon
<1>5. CASE member = "hptimer"
  <2>1. P.locked \in BOOLEAN /\ r \in {HptimerStart, HptimerStop}
    BY <1>5, Zenon DEF Profile
  <2>2. CASE r = HptimerStart
    BY <1>5, <2>1, <2>2, Zenon DEF HptimerStart
  <2>3. CASE r = HptimerStop
    BY <1>5, <2>1, <2>3, Zenon DEF HptimerStop
  <2>q. QED
    BY <2>1, <2>2, <2>3, Zenon
<1>6. CASE member = "mcp"
  <2>1. P.locked \in BOOLEAN /\ r \in {McpStart, McpStop}
    BY <1>6, Zenon DEF Profile
  <2>2. CASE r = McpStart
    BY <1>6, <2>1, <2>2, Zenon DEF McpStart
  <2>3. CASE r = McpStop
    BY <1>6, <2>1, <2>3, Zenon DEF McpStop
  <2>q. QED
    BY <2>1, <2>2, <2>3, Zenon
<1>7. CASE member = "temporal"
  <2>1. P.locked \in BOOLEAN /\ r \in {TemporalStart, TemporalStop}
    BY <1>7, Zenon DEF Profile
  <2>2. CASE r = TemporalStart
    BY <1>7, <2>1, <2>2, Zenon DEF TemporalStart
  <2>3. CASE r = TemporalStop
    BY <1>7, <2>1, <2>3, SMTT(30) DEF TemporalStop
  <2>q. QED
    BY <2>1, <2>2, <2>3, Zenon
<1>8. CASE member = "goworkflows"
  <2>1. P.locked \in BOOLEAN /\ r \in {GoworkflowsStart, GoworkflowsStop}
    BY <1>8, Zenon DEF Profile
  <2>2. CASE r = GoworkflowsStart
    BY <1>8, <2>1, <2>2, Zenon DEF GoworkflowsStart
  <2>3. CASE r = GoworkflowsStop
    BY <1>8, <2>1, <2>3, Zenon DEF GoworkflowsStop
  <2>q. QED
    BY <2>1, <2>2, <2>3, Zenon
<1>9. CASE member = "conductor"
  <2>1. P.locked \in BOOLEAN /\ r \in {ConductorStart, ConductorStop}
    BY <1>9, Zenon DEF Profile
  <2>2. CASE r = ConductorStart
    BY <1>9, <2>1, <2>2, Zenon DEF ConductorStart
  <2>3. CASE r = ConductorStop
    BY <1>9, <2>1, <2>3, Zenon DEF ConductorStop
  <2>q. QED
    BY <2>1, <2>2, <2>3, Zenon
<1> HIDE DEF Lefts, Phase, Entering, Fresh, Begun, Running, Before, Ended, Over,
             Tagged, NoKeepalive, Closing, Bare, McpSteps, CronSteps, HptimerSteps,
             MachinerySteps, ConductorSteps, PlainSteps
<1>q. QED
  BY <1>2, <1>3, <1>4, <1>5, <1>6, <1>7, <1>8, <1>9, Zenon

\* The caller that is inside is the only one.
LEMMA Inside ==
    ASSUME WorkerInv, NEW c \in Callers, prog[c] # <<>>
    PROVE  /\ prog[c] \in Lefts /\ CallOK(c, prog[c])
           /\ \A d \in Callers : d # c => prog[d] = <<>>
           /\ P.locked => holder = {c}
           /\ ~Idle
BY Zenon DEF WorkerInv, WorkerTypeOK, OneInside, CallsOK, Idle

\* A step of the only caller inside, or of one that enters, leaves it the only one.
LEMMA Moves ==
    ASSUME WorkerInv, NEW c \in Callers, NEW q \in Lefts \cup {<<>>},
           prog[c] # <<>> \/ Idle, case' = case,
           prog' = [prog EXCEPT ![c] = q],
           P.locked => holder' = IF q = <<>> THEN {} ELSE {c},
           q # <<>> => CallOK(c, q)',
           q = <<>> => Resting' /\ (~case.expire => stoppers' = {})
    PROVE  OneInside' /\ CallsOK' /\ IdleOK' /\ prog' \in [Callers -> Lefts \cup {<<>>}]
<1>1. prog \in [Callers -> Lefts \cup {<<>>}]
  BY Zenon DEF WorkerInv, WorkerTypeOK
<1>2. \A d \in Callers : d # c => prog[d] = <<>>
  BY Inside, Zenon DEF Idle
<1>3. prog'[c] = q /\ \A d \in Callers : d # c => prog'[d] = <<>>
  BY <1>1, <1>2, Zenon
<1>4. prog' \in [Callers -> Lefts \cup {<<>>}]
  BY <1>1, Zenon
<1>5. OneInside'
  BY <1>3, Zenon DEF OneInside, P, member
<1>6. CallsOK'
  BY <1>3 DEF CallsOK, CallOK, Tagged
<1>7. IdleOK'
  BY <1>3, Zenon DEF IdleOK, Idle
<1>q. QED
  BY <1>4, <1>5, <1>6, <1>7, Zenon

\* Going on to the next step.
LEMMA Goes ==
    ASSUME WorkerInv, NEW c \in Callers, prog[c] # <<>>, NEW q, q = Tail(prog[c]),
           Len(prog[c]) = 1 <=> q = <<>>, Advance(c)
    PROVE  /\ prog' = [prog EXCEPT ![c] = q]
           /\ P.locked => holder' = IF q = <<>> THEN {} ELSE {c}
           /\ expired' = expired
<1>1. prog \in [Callers -> Lefts \cup {<<>>}]
  BY Zenon DEF WorkerInv, WorkerTypeOK
<1>2. P.locked => holder = {c}
  BY Inside, Zenon
<1>q. QED
  BY <1>1, <1>2, Zenon DEF Advance

-----------------------------------------------------------------------------
(* The steps keep the invariant.                                           *)

\* Start and Stop are entered when nobody is inside, no goroutine of a Stop is
\* left and, for the MCP server, none of a Start is unsettled.
LEMMA EnterKeeps ==
    ASSUME Orderly, WorkerInv, NEW c \in Callers, Start(c) \/ Stop(c)
    PROVE  WorkerInv'
<1>1. PICK r : (r = P.start \/ r = P.stop) /\ Enter(c, r)
  BY Zenon DEF Start, Stop
<1>2. case \in Cases /\ case.callers \subseteq Callers
  BY WorkerAssumption, Zenon DEF WorkerInv, WorkerTypeOK, WorkerAssumption
<1>3. /\ r \in Lefts /\ r # <<>> /\ Tagged(r) /\ Phase(r) = "entering"
      /\ member \in {"temporal", "conductor"} => r \in AtClosed
      /\ P.locked \in BOOLEAN
  BY <1>1, <1>2, Programs, Zenon
<1>4. /\ case.overlap => P.locked
      /\ case.expire => \A d, e \in case.callers : d = e
      /\ member = "mcp" => case.settled
  BY <1>2, Zenon DEF Orderly, P, member
<1>5. Idle
  BY <1>1, <1>4, Zenon DEF Enter, WorkerInv, OneInside, Idle
<1>6. stoppers = {}
  BY <1>1, <1>4, <1>5, Zenon DEF Enter, WorkerInv, WorkerTypeOK, IdleOK
<1>7. launching = {} /\ serving \subseteq live
  BY <1>1, <1>4, Zenon DEF Enter, WorkerInv, Goroutines
<1>8. Resting
  BY <1>5, Zenon DEF WorkerInv, IdleOK
<1>9. r \notin AtClosed => ~closed
  BY <1>3, Zenon DEF WorkerInv, MemberOK
<1>10. /\ case' = case /\ started' = started /\ closed' = closed /\ ka' = ka
       /\ engine' = engine /\ made' = made /\ live' = live /\ busy' = busy
       /\ launching' = launching /\ serving' = serving /\ stoppers' = stoppers
       /\ c \in case.callers /\ expired' = expired \ {c}
       /\ mine' = [mine EXCEPT ![c] = 0] /\ prog' = [prog EXCEPT ![c] = r]
       /\ P.locked => holder' = {c}
  BY <1>1, Zenon DEF Enter, flags, engVars
<1>11. Resting' /\ Tagged(r)'
  BY <1>3, <1>8, <1>10, Zenon DEF Resting, Current, Off, Strict, member, Tagged
<1>12. CallOK(c, r)'
  BY <1>3, <1>6, <1>7, <1>9, <1>10, <1>11, Zenon DEF CallOK
<1>13. OneInside' /\ CallsOK' /\ IdleOK' /\ prog' \in [Callers -> Lefts \cup {<<>>}]
  BY <1>3, <1>5, <1>10, <1>12, Moves, Zenon
<1>14. WorkerTypeOK'
  BY <1>10, <1>13, Zenon DEF WorkerInv, WorkerTypeOK
<1>15. Goroutines' /\ MemberOK'
  BY <1>10, Zenon DEF WorkerInv, Goroutines, MemberOK, member
<1>q. QED
  BY <1>13, <1>14, <1>15, Zenon DEF WorkerInv

\* Asking changes nothing: the call returns, or goes on knowing the answer.
LEMMA GuardKeeps ==
    ASSUME WorkerInv, NEW c \in Callers, Guard(c)
    PROVE  WorkerInv'
<1>1. prog[c] # <<>> /\ Head(prog[c]) \in {"err", "started", "closed", "guard"}
  BY Zenon DEF Guard, At
<1>2. PICK p : p = prog[c]
  BY Zenon
<1>3. p \in Lefts /\ CallOK(c, p)
  BY <1>1, <1>2, Inside, Zenon
<1>4. p \in AtErr \cup AtStarted \cup AtClosed \cup AtGuard
  BY <1>1, <1>2, <1>3, Heads, Zenon
<1>5. PICK q : q = Tail(p)
  BY Zenon
<1>6. /\ Len(p) # 1 /\ q \in Lefts \ AtClosed /\ q # <<>>
      /\ Tagged(p) => Tagged(q)
      /\ Phase(p) \in {"entering", "fresh"}
      /\ Phase(q) \in {"entering", "fresh", "before"}
      /\ Phase(q) = "entering" => Phase(p) = "entering"
      /\ Phase(q) = "before" => Phase(p) = "entering"
      /\ Phase(q) = "fresh" => Phase(p) = "fresh" \/ Head(p) = "started"
      /\ Head(p) = "closed" <=> p \in AtClosed
  BY <1>4, <1>5, GuardGoesOn, Zenon
<1>7. /\ case' = case /\ started' = started /\ closed' = closed /\ ka' = ka
      /\ engine' = engine /\ made' = made /\ live' = live /\ busy' = busy
      /\ launching' = launching /\ serving' = serving /\ stoppers' = stoppers
      /\ expired' = expired /\ mine' = mine
  BY Zenon DEF Guard, Rest, flags, engVars, Return, Go, Advance
<1>8. \/ Return(c)
      \/ /\ Advance(c)
         /\ Head(p) = "started" => ~started
         /\ Head(p) = "closed" => ~closed
  BY <1>2, Zenon DEF Guard, At, Go
<1>9. Resting /\ stoppers = {} /\ launching = {} /\ serving \subseteq live
  BY <1>3, <1>6, Zenon DEF CallOK, Resting, Current, Off
<1>10. Resting'
  BY <1>7, <1>9, Zenon DEF Resting, Current, Off, Strict, member
<1>11. CASE Return(c)
  <2>1. prog' = [prog EXCEPT ![c] = <<>>] /\ (P.locked => holder' = {})
    BY <1>1, <1>11, Inside, Zenon DEF Return
  <2>q. QED
    BY <1>1, <1>7, <1>9, <1>10, <2>1, Moves, Zenon DEF WorkerInv, WorkerTypeOK, Goroutines, MemberOK, member
<1>12. CASE Advance(c) /\ (Head(p) = "started" => ~started) /\ (Head(p) = "closed" => ~closed)
  <2>1. /\ prog' = [prog EXCEPT ![c] = q]
        /\ P.locked => holder' = IF q = <<>> THEN {} ELSE {c}
    BY <1>1, <1>2, <1>5, <1>6, <1>12, Goes, Zenon
  <2>2. ~closed /\ Tagged(q) /\ c \in case.callers
    BY <1>3, <1>6, <1>12, Zenon DEF CallOK
  <2>3. Phase(q) = "fresh" => live = {} /\ ka # "running" /\ (Strict => busy = {})
    BY <1>3, <1>6, <1>9, <1>12, Zenon DEF CallOK, Resting, Off
  <2>4. CallOK(c, q)'
    BY <1>6, <1>7, <1>9, <1>10, <2>2, <2>3, Zenon DEF CallOK, Tagged, member, Strict, Resting, Current
  <2>q. QED
    BY <1>1, <1>6, <1>7, <2>1, <2>4, Moves, Zenon DEF WorkerInv, WorkerTypeOK, Goroutines, MemberOK, member
<1>q. QED
  BY <1>8, <1>11, <1>12, Zenon

\* started and closed are set and cleared where the engine's state allows it.
LEMMA FlagKeeps ==
    ASSUME WorkerInv, NEW c \in Callers, Flag(c)
    PROVE  WorkerInv'
<1>1. prog[c] # <<>> /\ Head(prog[c]) \in {"flag", "unflag", "close"} /\ Advance(c)
  BY Zenon DEF Flag, At, Go
<1>2. PICK p : p = prog[c]
  BY Zenon
<1>3. p \in Lefts /\ CallOK(c, p)
  BY <1>1, <1>2, Inside, Zenon
<1>4. p \in AtFlag \cup AtUnflag \cup AtClose
  BY <1>1, <1>2, <1>3, Heads, Zenon
<1>5. PICK q : q = Tail(p)
  BY Zenon
<1>6. /\ q \in (Lefts \ AtClosed) \cup {<<>>}
      /\ Len(p) = 1 <=> q = <<>>
      /\ Tagged(p) => q = <<>> \/ Tagged(q)
      /\ p \notin AtClosed
      /\ q = <<>> => Phase(p) \in {"flagging", "over"}
      /\ Phase(p) = "flagging" => q = <<>> /\ Head(p) = "flag"
      /\ Phase(p) = "over" => q = <<>> /\ Head(p) # "flag"
      /\ q # <<>> => \/ /\ Phase(p) = "begun" /\ Head(p) = "flag"
                        /\ Phase(q) = "running"
                     \/ /\ Phase(p) \in {"entering", "before"}
                        /\ Phase(q) = "before"
      /\ Head(p) = "close" => Phase(p) = "over" /\ p \in Closing
  BY <1>4, <1>5, FlagGoesOn, Zenon
<1>7. /\ case' = case /\ ka' = ka
      /\ engine' = engine /\ made' = made /\ live' = live /\ busy' = busy
      /\ launching' = launching /\ serving' = serving /\ stoppers' = stoppers
      /\ expired' = expired /\ mine' = mine
  BY Zenon DEF Flag, Rest, engVars, Go, Advance
<1>8. /\ Head(p) = "flag" => started' = TRUE
      /\ Head(p) # "close" => closed' = closed
      /\ started' \in BOOLEAN /\ closed' \in BOOLEAN
  BY <1>2, Zenon DEF Flag, At, WorkerInv, WorkerTypeOK
<1>9. /\ prog' = [prog EXCEPT ![c] = q]
      /\ P.locked => holder' = IF q = <<>> THEN {} ELSE {c}
  BY <1>1, <1>2, <1>5, <1>6, Goes, Zenon
<1>10. Tagged(p) /\ c \in case.callers /\ ~closed
  BY <1>3, <1>6, Zenon DEF CallOK
<1>11. Current /\ Current'
  BY <1>3, <1>6, <1>7, Zenon DEF CallOK, Resting, Current, Strict, member
<1>12. q # <<>> => CallOK(c, q)'
  BY <1>3, <1>6, <1>7, <1>8, <1>10, <1>11, Zenon DEF CallOK, Tagged, member
<1>13. q = <<>> => Resting' /\ (~case.expire => stoppers' = {})
  <2>1. CASE Phase(p) = "flagging"
    BY <1>3, <1>6, <1>7, <1>8, <1>10, <1>11, <2>1, Zenon DEF CallOK, Resting
  <2>2. CASE Phase(p) = "over"
    BY <1>3, <1>7, <1>11, <2>2, Zenon DEF CallOK, Resting, Off, Told, Strict, member
  <2>q. QED
    BY <1>6, <2>1, <2>2, Zenon
<1>14. Head(p) = "close" => member \in {"temporal", "conductor"}
  BY <1>6, <1>10, Zenon DEF Tagged
<1>15. OneInside' /\ CallsOK' /\ IdleOK' /\ prog' \in [Callers -> Lefts \cup {<<>>}]
  BY <1>1, <1>6, <1>7, <1>9, <1>12, <1>13, Moves, Zenon
<1>16. WorkerTypeOK' /\ Goroutines'
  BY <1>7, <1>8, <1>15, Zenon DEF WorkerInv, WorkerTypeOK, Goroutines, member
<1>17. MemberOK'
  BY <1>7, <1>8, <1>10, <1>14 DEF WorkerInv, MemberOK, member
<1>q. QED
  BY <1>15, <1>16, <1>17, Zenon DEF WorkerInv

\* The keepalive server is only there when the engine is, or its Start goes on to
\* make one.
LEMMA KeepaliveKeeps ==
    ASSUME WorkerInv, NEW c \in Callers, Keepalive(c)
    PROVE  WorkerInv'
<1>1. prog[c] # <<>> /\ Head(prog[c]) \in {"kaMake", "kaRun", "kaStop"} /\ Advance(c)
  BY Zenon DEF Keepalive, At, Go
<1>2. PICK p : p = prog[c]
  BY Zenon
<1>3. p \in Lefts /\ CallOK(c, p)
  BY <1>1, <1>2, Inside, Zenon
<1>4. p \in AtKaMake \cup AtKaRun \cup AtKaStop
  BY <1>1, <1>2, <1>3, Heads, Zenon
<1>5. PICK q : q = Tail(p)
  BY Zenon
<1>6. /\ q \in (Lefts \ AtClosed) \cup {<<>>}
      /\ Len(p) = 1 <=> q = <<>>
      /\ Tagged(p) => q = <<>> \/ Tagged(q)
      /\ p \notin AtClosed
      /\ Head(p) # "kaStop" /\ Tagged(p) => member \notin NoKeepalive
      /\ Head(p) = "kaMake" =>
            /\ Phase(p) \in {"fresh", "begun", "running"}
            /\ q # <<>> /\ Phase(q) = Phase(p)
      /\ Head(p) = "kaRun" =>
            \/ Phase(p) = "begun" /\ q # <<>> /\ Phase(q) = "flagging"
            \/ Phase(p) = "running" /\ q = <<>>
            \/ Phase(p) = "fresh" /\ q # <<>> /\ Phase(q) = "spawning"
      /\ Head(p) = "kaStop" =>
            \/ Phase(p) = "ended" /\ q = <<>>
            \/ Phase(p) = "ended" /\ q # <<>> /\ Phase(q) = "over"
            \/ Phase(p) = "before" /\ q # <<>> /\ Phase(q) = "taking"
  BY <1>4, <1>5, KeepaliveGoesOn, Zenon
<1>7. /\ case' = case /\ started' = started /\ closed' = closed
      /\ engine' = engine /\ made' = made /\ live' = live /\ busy' = busy
      /\ launching' = launching /\ serving' = serving /\ stoppers' = stoppers
      /\ expired' = expired /\ mine' = mine
  BY Zenon DEF Keepalive, Rest, engVars, Go, Advance
<1>8. /\ ka' \in {"none", "made", "running"}
      /\ Head(p) = "kaMake" => (ka # "running" => ka' # "running")
      /\ Head(p) = "kaStop" => ka' = "none"
  BY <1>2, Zenon DEF Keepalive, At, WorkerInv, WorkerTypeOK
<1>9. /\ prog' = [prog EXCEPT ![c] = q]
      /\ P.locked => holder' = IF q = <<>> THEN {} ELSE {c}
  BY <1>1, <1>2, <1>5, <1>6, Goes, Zenon
<1>10. Tagged(p) /\ c \in case.callers /\ ~closed
  BY <1>3, <1>6, Zenon DEF CallOK
<1>11. Current => Current'
  BY <1>7, Zenon DEF Current, Strict, member
<1>12. Told(c) => Told(c)'
  BY <1>7, Zenon DEF Told
<1>13. q # <<>> => CallOK(c, q)'
  <2>1. CASE Head(p) = "kaMake"
    BY <1>3, <1>6, <1>7, <1>8, <1>10, <1>11, <2>1, Zenon DEF CallOK, Tagged, member, Strict
  <2>2. CASE Head(p) = "kaRun"
    BY <1>3, <1>6, <1>7, <1>8, <1>10, <1>11, <2>2, Zenon DEF CallOK, Tagged, member, Strict
  <2>3. CASE Head(p) = "kaStop"
    BY <1>3, <1>6, <1>7, <1>8, <1>10, <1>11, <1>12, <2>3, Zenon DEF CallOK, Tagged, member, Strict
  <2>q. QED
    BY <1>1, <1>2, <2>1, <2>2, <2>3, Zenon
<1>14. q = <<>> => Resting' /\ (~case.expire => stoppers' = {})
  <2>1. CASE Phase(p) = "running"
    BY <1>3, <1>7, <1>10, <1>11, <2>1, Zenon DEF CallOK, Resting
  <2>2. CASE Phase(p) = "ended" /\ Head(p) = "kaStop"
    BY <1>3, <1>7, <1>8, <1>11, <2>2, Zenon DEF CallOK, Resting, Off, Told, Strict, member
  <2>q. QED
    BY <1>1, <1>2, <1>6, <2>1, <2>2, Zenon
<1>15. OneInside' /\ CallsOK' /\ IdleOK' /\ prog' \in [Callers -> Lefts \cup {<<>>}]
  BY <1>1, <1>6, <1>7, <1>9, <1>13, <1>14, Moves, Zenon
<1>16. MemberOK'
  BY <1>1, <1>2, <1>6, <1>7, <1>8, <1>10, Zenon DEF WorkerInv, MemberOK, member
<1>q. QED
  BY <1>7, <1>8, <1>15, <1>16, Zenon DEF WorkerInv, WorkerTypeOK, Goroutines, member

\* A new engine becomes the current one when no other takes tasks; a Start that
\* fails to make one leaves everything off.
LEMMA EngineStartKeeps ==
    ASSUME WorkerInv, NEW c \in Callers, EngineStart(c)
    PROVE  WorkerInv'
<1>1. prog[c] # <<>> /\ Head(prog[c]) \in {"engine", "engineOk"}
  BY Zenon DEF EngineStart, At
<1>2. PICK p : p = prog[c]
  BY Zenon
<1>3. p \in Lefts /\ CallOK(c, p)
  BY <1>1, <1>2, Inside, Zenon
<1>4. p \in AtEngine \cup AtEngineOk \cup AtSpawn \cup AtContext \cup AtEngineIn
  BY <1>1, <1>2, <1>3, Heads, Zenon
<1>5. PICK q : q = Tail(p)
  BY Zenon
<1>6. /\ q \in Lefts \ AtClosed
      /\ Len(p) = 1 <=> q = <<>>
      /\ Tagged(p) => q = <<>> \/ Tagged(q)
      /\ p \notin AtClosed
      /\ Phase(p) = "fresh" /\ q # <<>> /\ Phase(q) \in {"begun", "flagging"}
  BY <1>1, <1>2, <1>4, <1>5, EngineGoesOn, Zenon
<1>7. /\ case' = case /\ started' = started /\ closed' = closed /\ ka' = ka
      /\ busy' = busy /\ launching' = launching /\ serving' = serving
      /\ stoppers' = stoppers /\ expired' = expired
  BY Zenon DEF EngineStart, Rest, flags, Return, Advance
<1>8. /\ Tagged(p) /\ c \in case.callers /\ ~closed
      /\ live = {} /\ stoppers = {} /\ (Strict => busy = {}) /\ ka # "running"
      /\ launching = {} /\ serving = {}
  BY <1>3, <1>6, Zenon DEF CallOK
<1>9. CASE Return(c) /\ engine' = engine /\ made' = made /\ live' = live
  <2>1. prog' = [prog EXCEPT ![c] = <<>>] /\ (P.locked => holder' = {}) /\ mine' = mine
    BY <1>1, <1>9, Inside, Zenon DEF Return
  <2>2. Resting'
    BY <1>7, <1>8, <1>9, Zenon DEF Resting, Current, Off, Strict, member
  <2>3. OneInside' /\ CallsOK' /\ IdleOK' /\ prog' \in [Callers -> Lefts \cup {<<>>}]
    BY <1>1, <1>7, <1>8, <2>1, <2>2, Moves, Zenon
  <2>q. QED
    BY <1>7, <1>9, <2>1, <2>3, Zenon DEF WorkerInv, WorkerTypeOK, Goroutines, MemberOK, member
<1>10. CASE /\ made' = made + 1 /\ engine' = made' /\ live' = live \cup {made'}
            /\ mine' = [mine EXCEPT ![c] = made'] /\ Advance(c)
  <2>1. /\ prog' = [prog EXCEPT ![c] = q]
        /\ P.locked => holder' = IF q = <<>> THEN {} ELSE {c}
    BY <1>1, <1>2, <1>5, <1>6, <1>10, Goes, Zenon
  <2>2. Current'
    BY <1>7, <1>8, <1>10, Zenon DEF Current, Strict, member
  <2>3. CallOK(c, q)'
    BY <1>6, <1>7, <1>8, <1>10, <2>2, Zenon DEF CallOK, Tagged, member
  <2>4. OneInside' /\ CallsOK' /\ IdleOK' /\ prog' \in [Callers -> Lefts \cup {<<>>}]
    BY <1>1, <1>6, <1>7, <2>1, <2>3, Moves, Zenon
  <2>5. /\ made' \in Nat /\ engine' \in Nat /\ live' \subseteq Nat
        /\ mine' \in [Callers -> Nat]
    BY <1>8, <1>10 DEF WorkerInv, WorkerTypeOK
  <2>q. QED
    BY <1>7, <1>8, <2>4, <2>5, Zenon DEF WorkerInv, WorkerTypeOK, Goroutines, MemberOK, member
<1>q. QED
  BY <1>9, <1>10, Zenon DEF EngineStart

\* The context of a go-workflows worker is made when no engine takes tasks.
LEMMA NewContextKeeps ==
    ASSUME WorkerInv, NEW c \in Callers, NewContext(c)
    PROVE  WorkerInv'
<1>1. prog[c] # <<>> /\ Head(prog[c]) = "context"
  BY Zenon DEF NewContext, At
<1>2. PICK p : p = prog[c]
  BY Zenon
<1>3. p \in Lefts /\ CallOK(c, p)
  BY <1>1, <1>2, Inside, Zenon
<1>4. p \in AtEngine \cup AtEngineOk \cup AtSpawn \cup AtContext \cup AtEngineIn
  BY <1>1, <1>2, <1>3, Heads, Zenon
<1>5. PICK q : q = Tail(p)
  BY Zenon
<1>6. /\ q \in Lefts \ AtClosed
      /\ Len(p) = 1 <=> q = <<>>
      /\ Tagged(p) => q = <<>> \/ Tagged(q)
      /\ p \notin AtClosed
      /\ Phase(p) = "entering" /\ q # <<>> /\ Phase(q) = "entered"
  BY <1>1, <1>2, <1>4, <1>5, EngineGoesOn, Zenon
<1>7. /\ case' = case /\ closed' = closed /\ ka' = ka /\ live' = live
      /\ busy' = busy /\ launching' = launching /\ serving' = serving
      /\ stoppers' = stoppers /\ expired' = expired
  BY Zenon DEF NewContext, Rest, Return, Advance
<1>8. /\ Tagged(p) /\ c \in case.callers /\ ~closed /\ Resting
      /\ stoppers = {} /\ launching = {} /\ serving \subseteq live
  BY <1>3, <1>6, Zenon DEF CallOK
<1>9. CASE Return(c) /\ started' = started /\ engine' = engine /\ made' = made
  <2>1. prog' = [prog EXCEPT ![c] = <<>>] /\ (P.locked => holder' = {}) /\ mine' = mine
    BY <1>1, <1>9, Inside, Zenon DEF Return
  <2>2. Resting'
    BY <1>7, <1>8, <1>9, Zenon DEF Resting, Current, Off, Strict, member
  <2>3. OneInside' /\ CallsOK' /\ IdleOK' /\ prog' \in [Callers -> Lefts \cup {<<>>}]
    BY <1>1, <1>7, <1>8, <2>1, <2>2, Moves, Zenon
  <2>q. QED
    BY <1>7, <1>9, <2>1, <2>3, Zenon DEF WorkerInv, WorkerTypeOK, Goroutines, MemberOK, member
<1>10. CASE /\ ~started /\ started' = TRUE /\ made' = made + 1 /\ engine' = made'
            /\ mine' = [mine EXCEPT ![c] = made'] /\ Advance(c)
  <2>1. /\ prog' = [prog EXCEPT ![c] = q]
        /\ P.locked => holder' = IF q = <<>> THEN {} ELSE {c}
    BY <1>1, <1>2, <1>5, <1>6, <1>10, Goes, Zenon
  <2>2. live = {}
    BY <1>8, <1>10, Zenon DEF Resting, Off
  <2>3. /\ made' \in Nat /\ engine' \in Nat /\ mine' \in [Callers -> Nat]
        /\ mine'[c] = engine'
    BY <1>10 DEF WorkerInv, WorkerTypeOK
  <2>4. CallOK(c, q)'
    BY <1>6, <1>7, <1>8, <1>10, <2>2, <2>3, Zenon DEF CallOK, Tagged, member
  <2>5. OneInside' /\ CallsOK' /\ IdleOK' /\ prog' \in [Callers -> Lefts \cup {<<>>}]
    BY <1>1, <1>6, <1>7, <2>1, <2>4, Moves, Zenon
  <2>q. QED
    BY <1>7, <1>10, <2>3, <2>5, Zenon DEF WorkerInv, WorkerTypeOK, Goroutines, MemberOK, member
<1>q. QED
  BY <1>9, <1>10, Zenon DEF NewContext

\* An engine that fails under its context takes the context and started with it.
LEMMA EngineInKeeps ==
    ASSUME WorkerInv, NEW c \in Callers, EngineIn(c)
    PROVE  WorkerInv'
<1>1. prog[c] # <<>> /\ Head(prog[c]) = "engineIn"
  BY Zenon DEF EngineIn, At
<1>2. PICK p : p = prog[c]
  BY Zenon
<1>3. p \in Lefts /\ CallOK(c, p)
  BY <1>1, <1>2, Inside, Zenon
<1>4. p \in AtEngine \cup AtEngineOk \cup AtSpawn \cup AtContext \cup AtEngineIn
  BY <1>1, <1>2, <1>3, Heads, Zenon
<1>5. PICK q : q = Tail(p)
  BY Zenon
<1>6. /\ q = <<>> /\ Len(p) = 1 /\ p \notin AtClosed
      /\ Phase(p) = "entered" /\ p \in Bare
  BY <1>1, <1>2, <1>4, <1>5, EngineGoesOn, Zenon
<1>7. /\ case' = case /\ closed' = closed /\ ka' = ka /\ engine' = engine /\ made' = made
      /\ busy' = busy /\ launching' = launching /\ serving' = serving
      /\ stoppers' = stoppers /\ expired' = expired /\ mine' = mine
  BY Zenon DEF EngineIn, Rest, Return, Go, Advance
<1>8. /\ member = "goworkflows" /\ c \in case.callers /\ ~closed /\ started
      /\ live = {} /\ mine[c] = engine
      /\ stoppers = {} /\ launching = {} /\ serving \subseteq live
  BY <1>3, <1>6, Zenon DEF CallOK, Tagged
<1>9. ~Strict /\ ka # "running"
  BY <1>8, Zenon DEF Strict, Waits, WorkerInv, MemberOK, NoKeepalive
<1>10. /\ prog' = [prog EXCEPT ![c] = q]
       /\ P.locked => holder' = IF q = <<>> THEN {} ELSE {c}
  <2>1. CASE Advance(c)
    BY <1>1, <1>2, <1>5, <1>6, <2>1, Goes, Zenon
  <2>2. CASE Return(c)
    BY <1>1, <1>6, <2>2, Inside, Zenon DEF Return
  <2>q. QED
    BY <2>1, <2>2, Zenon DEF EngineIn, Go
<1>11. \/ started' = started /\ live' \subseteq {engine}
       \/ started' = FALSE /\ live' = {}
  BY <1>8, Zenon DEF EngineIn
<1>12. Resting'
  BY <1>7, <1>8, <1>9, <1>11, Zenon DEF Resting, Current, Off, Strict, member
<1>13. OneInside' /\ CallsOK' /\ IdleOK' /\ prog' \in [Callers -> Lefts \cup {<<>>}]
  BY <1>1, <1>6, <1>7, <1>8, <1>10, <1>12, Moves, Zenon
<1>14. WorkerTypeOK'
  BY <1>7, <1>11, <1>13, Zenon DEF WorkerInv, WorkerTypeOK
<1>15. Goroutines' /\ MemberOK'
  BY <1>7, <1>8, Zenon DEF WorkerInv, Goroutines, MemberOK, member
<1>q. QED
  BY <1>13, <1>14, <1>15, Zenon DEF WorkerInv

\* The MCP server's goroutine begins when no other is left and nothing listens.
LEMMA EngineSpawnKeeps ==
    ASSUME WorkerInv, NEW c \in Callers, EngineSpawn(c)
    PROVE  WorkerInv'
<1>1. prog[c] # <<>> /\ Head(prog[c]) = "spawn" /\ Advance(c)
  BY Zenon DEF EngineSpawn, At
<1>2. PICK p : p = prog[c]
  BY Zenon
<1>3. p \in Lefts /\ CallOK(c, p)
  BY <1>1, <1>2, Inside, Zenon
<1>4. p \in AtEngine \cup AtEngineOk \cup AtSpawn \cup AtContext \cup AtEngineIn
  BY <1>1, <1>2, <1>3, Heads, Zenon
<1>5. PICK q : q = Tail(p)
  BY Zenon
<1>6. /\ q \in Lefts \ AtClosed
      /\ Len(p) = 1 <=> q = <<>>
      /\ Tagged(p) => q = <<>> \/ Tagged(q)
      /\ p \notin AtClosed /\ p \in McpSteps
      /\ Phase(p) = "spawning" /\ q # <<>> /\ Phase(q) = "flagging"
  BY <1>1, <1>2, <1>4, <1>5, EngineGoesOn, Zenon
<1>7. /\ case' = case /\ started' = started /\ closed' = closed /\ ka' = ka
      /\ engine' = engine /\ live' = live /\ busy' = busy /\ serving' = serving
      /\ stoppers' = stoppers /\ expired' = expired
      /\ made' = made + 1 /\ launching' = launching \cup {made'}
      /\ mine' = [mine EXCEPT ![c] = made']
  BY Zenon DEF EngineSpawn, Rest, flags, Advance
<1>8. /\ Tagged(p) /\ member = "mcp" /\ c \in case.callers /\ ~closed
      /\ live = {} /\ stoppers = {} /\ launching = {} /\ serving = {}
      /\ Strict => busy = {}
  BY <1>3, <1>6, Zenon DEF CallOK, Tagged
<1>9. /\ prog' = [prog EXCEPT ![c] = q]
      /\ P.locked => holder' = IF q = <<>> THEN {} ELSE {c}
  BY <1>1, <1>2, <1>5, <1>6, Goes, Zenon
<1>10. Current'
  BY <1>7, <1>8, Zenon DEF Current, Strict, member
<1>11. CallOK(c, q)'
  BY <1>6, <1>7, <1>8, <1>10, Zenon DEF CallOK, Tagged, member
<1>12. OneInside' /\ CallsOK' /\ IdleOK' /\ prog' \in [Callers -> Lefts \cup {<<>>}]
  BY <1>1, <1>6, <1>7, <1>9, <1>11, Moves, Zenon
<1>13. WorkerTypeOK'
  <2>1. made' \in Nat /\ launching' \subseteq Nat /\ mine' \in [Callers -> Nat]
    BY <1>7, <1>8 DEF WorkerInv, WorkerTypeOK
  <2>q. QED
    BY <1>7, <1>12, <2>1, Zenon DEF WorkerInv, WorkerTypeOK
<1>14. Goroutines' /\ MemberOK'
  BY <1>7, <1>8, Zenon DEF WorkerInv, Goroutines, MemberOK, member
<1>q. QED
  BY <1>12, <1>13, <1>14, Zenon DEF WorkerInv

\* Telling the current engine leaves none that takes tasks.
LEMMA SignalKeeps ==
    ASSUME WorkerInv, NEW c \in Callers, Signal(c)
    PROVE  WorkerInv'
<1>1. prog[c] # <<>> /\ Head(prog[c]) \in {"signal", "cancel"} /\ Advance(c)
  BY Zenon DEF Signal, At
<1>2. PICK p : p = prog[c]
  BY Zenon
<1>3. p \in Lefts /\ CallOK(c, p)
  BY <1>1, <1>2, Inside, Zenon
<1>4. p \in AtSignal \cup AtCancel
  BY <1>1, <1>2, <1>3, Heads, Zenon
<1>5. PICK q : q = Tail(p)
  BY Zenon
<1>6. /\ q \in (Lefts \ AtClosed) \cup {<<>>}
      /\ Len(p) = 1 <=> q = <<>>
      /\ Tagged(p) => q = <<>> \/ Tagged(q)
      /\ p \notin AtClosed
      /\ Head(p) = "signal" =>
            /\ Phase(p) = "before" /\ q # <<>> /\ p \notin McpSteps \cup {<<"flag">>}
            /\ \/ Phase(q) = "waiting"
               \/ Phase(q) = "over" /\ p \in ConductorSteps \cap Closing
      /\ Head(p) = "cancel" => Phase(p) = "entering" /\ q = <<>> /\ p \in Bare
  BY <1>4, <1>5, StopGoesOn, Zenon
<1>7. /\ case' = case /\ closed' = closed /\ ka' = ka /\ engine' = engine /\ made' = made
      /\ busy' = busy /\ launching' = launching /\ serving' = serving
      /\ stoppers' = stoppers /\ expired' = expired
      /\ live' = live \ {engine} /\ mine' = [mine EXCEPT ![c] = engine]
  BY Zenon DEF Signal, Rest, Advance
<1>8. started' \in BOOLEAN
  BY Zenon DEF Signal
<1>9. /\ Tagged(p) /\ c \in case.callers /\ ~closed /\ Current
      /\ stoppers = {} /\ launching = {} /\ serving \subseteq live
  BY <1>1, <1>2, <1>3, <1>6, Zenon DEF CallOK, Resting
<1>10. member # "mcp"
  BY <1>1, <1>2, <1>6, <1>9, Zenon DEF Tagged
<1>11. serving = {} /\ live' = {} /\ Current' /\ Told(c)'
  BY <1>7, <1>9, <1>10, Zenon DEF WorkerInv, Goroutines, Current, Told, Strict, member
<1>12. mine'[c] = engine' /\ mine' \in [Callers -> Nat]
  BY <1>7, Zenon DEF WorkerInv, WorkerTypeOK
<1>13. /\ prog' = [prog EXCEPT ![c] = q]
       /\ P.locked => holder' = IF q = <<>> THEN {} ELSE {c}
  BY <1>1, <1>2, <1>5, <1>6, Goes, Zenon
<1>14. q # <<>> => CallOK(c, q)'
  <2>1. Phase(q) = "over" => ~Strict /\ ~Strict' /\ ka # "running"
    BY <1>1, <1>2, <1>6, <1>7, <1>9, Zenon DEF Tagged, Strict, Waits, member, WorkerInv, MemberOK, NoKeepalive
  <2>q. QED
    BY <1>1, <1>2, <1>6, <1>7, <1>9, <1>11, <1>12, <2>1, Zenon DEF CallOK, Tagged, member
<1>15. q = <<>> => Resting' /\ (~case.expire => stoppers' = {})
  <2>1. q = <<>> => ~Strict' /\ ka # "running"
    BY <1>1, <1>2, <1>6, <1>7, <1>9, Zenon DEF Tagged, Strict, Waits, member, WorkerInv, MemberOK, NoKeepalive
  <2>q. QED
    BY <1>7, <1>9, <1>11, <2>1, Zenon DEF Resting, Off
<1>16. OneInside' /\ CallsOK' /\ IdleOK' /\ prog' \in [Callers -> Lefts \cup {<<>>}]
  BY <1>1, <1>6, <1>7, <1>13, <1>14, <1>15, Moves, Zenon
<1>17. WorkerTypeOK'
  BY <1>7, <1>8, <1>12, <1>16, Zenon DEF WorkerInv, WorkerTypeOK
<1>18. Goroutines' /\ MemberOK'
  BY <1>7, <1>9, <1>11, Zenon DEF WorkerInv, Goroutines, MemberOK, member
<1>q. QED
  BY <1>16, <1>17, <1>18, Zenon DEF WorkerInv

\* A goroutine will tell the engine.
LEMMA SignalGoKeeps ==
    ASSUME WorkerInv, NEW c \in Callers, SignalGo(c)
    PROVE  WorkerInv'
<1>1. prog[c] # <<>> /\ Head(prog[c]) = "signalGo" /\ Advance(c)
  BY Zenon DEF SignalGo, At, Go
<1>2. PICK p : p = prog[c]
  BY Zenon
<1>3. p \in Lefts /\ CallOK(c, p)
  BY <1>1, <1>2, Inside, Zenon
<1>4. p \in AtSignalGo
  BY <1>1, <1>2, <1>3, Heads, Zenon
<1>5. PICK q : q = Tail(p)
  BY Zenon
<1>6. /\ q \in Lefts \ AtClosed
      /\ Len(p) = 1 <=> q = <<>>
      /\ Tagged(p) => q = <<>> \/ Tagged(q)
      /\ p \notin AtClosed /\ p \in CronSteps \cup HptimerSteps
      /\ Phase(p) = "before" /\ q # <<>> /\ Phase(q) = "signalled"
  BY <1>1, <1>2, <1>4, <1>5, StopGoesOn, Zenon
<1>7. /\ case' = case /\ started' = started /\ closed' = closed /\ ka' = ka
      /\ engine' = engine /\ made' = made /\ live' = live /\ busy' = busy
      /\ launching' = launching /\ serving' = serving
      /\ expired' = expired /\ mine' = mine /\ stoppers' = stoppers \cup {c}
  BY Zenon DEF SignalGo, Rest, flags, Go, Advance
<1>8. /\ Tagged(p) /\ c \in case.callers /\ ~closed /\ Current
      /\ stoppers = {} /\ launching = {} /\ serving \subseteq live
  BY <1>3, <1>6, Zenon DEF CallOK
<1>9. member \in {"cron", "hptimer"}
  BY <1>6, <1>8, Zenon DEF Tagged
<1>10. /\ prog' = [prog EXCEPT ![c] = q]
       /\ P.locked => holder' = IF q = <<>> THEN {} ELSE {c}
  BY <1>1, <1>2, <1>5, <1>6, Goes, Zenon
<1>11. Current' /\ Told(c)'
  BY <1>7, <1>8, Zenon DEF Current, Told, Strict, member
<1>12. stoppers' # {}
  BY <1>7, Zenon
<1>13. CallOK(c, q)'
  BY <1>6, <1>7, <1>8, <1>11, <1>12, Zenon DEF CallOK, Tagged, member
<1>14. OneInside' /\ CallsOK' /\ IdleOK' /\ prog' \in [Callers -> Lefts \cup {<<>>}]
  BY <1>1, <1>6, <1>7, <1>10, <1>13, Moves, Zenon
<1>15. WorkerTypeOK'
  BY <1>7, <1>8, <1>14, Zenon DEF WorkerInv, WorkerTypeOK
<1>16. Goroutines' /\ MemberOK'
  BY <1>7, <1>9, Zenon DEF WorkerInv, Goroutines, MemberOK, member
<1>q. QED
  BY <1>14, <1>15, <1>16, Zenon DEF WorkerInv

\* A wait that does not time out ends when the engine has been told and, where Stop
\* waits for them, no task runs.
LEMMA WaitKeeps ==
    ASSUME WorkerInv, NEW c \in Callers, Wait(c)
    PROVE  WorkerInv'
<1>1. prog[c] # <<>> /\ Head(prog[c]) \in {"signalled", "wait"}
  BY Zenon DEF Wait, At
<1>2. PICK p : p = prog[c]
  BY Zenon
<1>3. p \in Lefts /\ CallOK(c, p)
  BY <1>1, <1>2, Inside, Zenon
<1>4. p \in AtSignalled \cup AtWait
  BY <1>1, <1>2, <1>3, Heads, Zenon
<1>5. PICK q : q = Tail(p)
  BY Zenon
<1>6. /\ q \in Lefts \ AtClosed /\ q # <<>>
      /\ Tagged(p) => q = <<>> \/ Tagged(q)
      /\ p \notin AtClosed
      /\ Head(p) = "signalled" =>
            /\ Phase(p) = "signalled"
            /\ \/ Phase(q) = "waiting"
               \/ Phase(q) = "ended" /\ p \in CronSteps
      /\ Head(p) = "wait" =>
            /\ Phase(p) = "waiting"
            /\ \/ Phase(q) = "ended"
               \/ Phase(q) = "over" /\ p \in Closing
  <2>1. p \in AtSignal \cup AtCancel \cup AtSignalGo \cup AtSignalled \cup AtWait \cup AtForget
             \cup AtTake \cup AtShutdown
    BY <1>4, Zenon
  <2>2. CASE Head(p) = "signalled"
    BY <1>5, <2>1, <2>2, StopGoesOn, Zenon
  <2>3. CASE Head(p) = "wait"
    BY <1>5, <2>1, <2>3, StopGoesOn, Zenon
  <2>q. QED
    BY <1>1, <1>2, <2>2, <2>3, Zenon
<1>7. /\ case' = case /\ started' = started /\ closed' = closed /\ ka' = ka
      /\ engine' = engine /\ made' = made /\ live' = live /\ busy' = busy
      /\ launching' = launching /\ serving' = serving /\ stoppers' = stoppers
      /\ mine' = mine /\ holder' = holder
  BY Zenon DEF Wait, Rest, flags, engVars
<1>8. ~case.expire => /\ expired' = {} /\ c \notin stoppers
                      /\ Head(p) = "wait" => mine[c] \notin busy
  BY <1>2, Zenon DEF Wait, At, WorkerInv, WorkerTypeOK
<1>9. /\ Tagged(p) /\ c \in case.callers /\ ~closed /\ Current /\ Told(c)
      /\ stoppers = {} => mine[c] = engine
      /\ launching = {} /\ serving \subseteq live
  BY <1>1, <1>2, <1>3, <1>6, Zenon DEF CallOK
<1>10. ~case.expire => stoppers = {}
  BY <1>8, <1>9, Zenon DEF Told
<1>11. /\ prog' = [prog EXCEPT ![c] = q]
       /\ P.locked => holder' = IF q = <<>> THEN {} ELSE {c}
  BY <1>1, <1>2, <1>5, <1>6, <1>7, Inside, Zenon DEF Wait
<1>12. Current' /\ Told(c)'
  BY <1>7, <1>9, Zenon DEF Current, Told, Strict, member
<1>13. Phase(q) \in {"ended", "over"} => (Strict' => busy = {})
  <2>1. CASE Head(p) = "wait"
    BY <1>7, <1>8, <1>9, <1>10, <2>1, Zenon DEF Strict, Current, member
  <2>2. CASE Head(p) = "signalled"
    BY <1>6, <1>7, <1>9, <2>2, Zenon DEF Strict, Waits, Tagged, member
  <2>q. QED
    BY <1>1, <1>2, <2>1, <2>2, Zenon
<1>14. Phase(q) = "over" => ka # "running"
  BY <1>1, <1>2, <1>6, <1>9, Zenon DEF Tagged, WorkerInv, MemberOK, NoKeepalive
<1>15. CallOK(c, q)'
  BY <1>1, <1>2, <1>6, <1>7, <1>9, <1>10, <1>12, <1>13, <1>14 DEF CallOK, Tagged, member
<1>16. OneInside' /\ CallsOK' /\ IdleOK' /\ prog' \in [Callers -> Lefts \cup {<<>>}]
  BY <1>1, <1>6, <1>7, <1>11, <1>15, Moves, Zenon
<1>17. WorkerTypeOK'
  BY <1>7, <1>8, <1>16, Zenon DEF WorkerInv, WorkerTypeOK
<1>18. Goroutines' /\ MemberOK'
  BY <1>7, Zenon DEF WorkerInv, Goroutines, MemberOK, member
<1>q. QED
  BY <1>16, <1>17, <1>18, Zenon DEF WorkerInv

\* The goroutine of a Stop tells the engine that is current when it runs: no other
\* has been made since.
LEMMA StopGoroutineKeeps ==
    ASSUME WorkerInv, NEW c \in Callers, StopGoroutine(c)
    PROVE  WorkerInv'
<1>1. /\ case' = case /\ started' = started /\ closed' = closed /\ ka' = ka
      /\ engine' = engine /\ made' = made /\ busy' = busy
      /\ launching' = launching /\ serving' = serving
      /\ expired' = expired /\ prog' = prog /\ holder' = holder
      /\ c \in stoppers /\ stoppers' = stoppers \ {c}
      /\ live' = live \ {engine} /\ mine' = [mine EXCEPT ![c] = engine]
  BY Zenon DEF StopGoroutine, Rest, flags
<1>2. mine' \in [Callers -> Nat] /\ mine'[c] = engine
  BY <1>1, Zenon DEF WorkerInv, WorkerTypeOK
<1>3. WorkerTypeOK'
  BY <1>1, <1>2, Zenon DEF WorkerInv, WorkerTypeOK
<1>4. member # "mcp" /\ launching = {} /\ serving = {}
  BY <1>1, Zenon DEF WorkerInv, Goroutines
<1>5. Goroutines' /\ MemberOK' /\ OneInside'
  BY <1>1, <1>4, Zenon DEF WorkerInv, Goroutines, MemberOK, OneInside, P, member
<1>6. Current => Current' /\ live' = {}
  BY <1>1, Zenon DEF Current, Strict, member
<1>7. Resting => Resting'
  BY <1>1, <1>6, Zenon DEF Resting, Off, Strict, member
<1>8. ASSUME NEW d \in Callers, prog[d] # <<>>
      PROVE  CallOK(d, prog[d])'
  <2>1. PICK p : p = prog[d]
    BY Zenon
  <2>2. CallOK(d, p)
    BY <1>8, <2>1, Inside, Zenon
  <2>3. Told(d) => d = c /\ stoppers' = {}
    BY <1>1, Zenon DEF Told
  <2>4. Told(d) /\ Current => Told(d)'
    BY <1>6, <2>3, Zenon DEF Told
  <2>5. CallOK(d, p)'
    BY <1>1, <1>2, <1>4, <1>6, <2>2, <2>3, <2>4 DEF CallOK, Tagged, Strict, member
  <2>q. QED
    BY <1>1, <2>1, <2>5 DEF CallOK, Tagged
<1>9. CallsOK'
  BY <1>1, <1>8, Zenon DEF CallsOK
<1>10. IdleOK'
  BY <1>1, <1>7, Zenon DEF WorkerInv, IdleOK, Idle
<1>q. QED
  BY <1>3, <1>5, <1>9, <1>10, Zenon DEF WorkerInv

\* The engine is forgotten when it has been told, or kept by the call that will
\* shut it down.
LEMMA ForgetKeeps ==
    ASSUME WorkerInv, NEW c \in Callers, Forget(c)
    PROVE  WorkerInv'
<1>1. prog[c] # <<>> /\ Head(prog[c]) \in {"forget", "take"} /\ Advance(c)
  BY Zenon DEF Forget, At
<1>2. PICK p : p = prog[c]
  BY Zenon
<1>3. p \in Lefts /\ CallOK(c, p)
  BY <1>1, <1>2, Inside, Zenon
<1>4. p \in AtForget \cup AtTake
  BY <1>1, <1>2, <1>3, Heads, Zenon
<1>5. PICK q : q = Tail(p)
  BY Zenon
<1>6. /\ q \in Lefts \ AtClosed /\ q # <<>>
      /\ Len(p) = 1 <=> q = <<>>
      /\ Tagged(p) => q = <<>> \/ Tagged(q)
      /\ p \notin AtClosed
      /\ Head(p) = "forget" => Phase(p) = "ended" /\ Phase(q) = "ended" /\ p \in MachinerySteps
      /\ Head(p) = "take" => Phase(p) = "taking" /\ Phase(q) = "shutdown" /\ p \in McpSteps
  <2>1. p \in AtSignal \cup AtCancel \cup AtSignalGo \cup AtSignalled \cup AtWait \cup AtForget
             \cup AtTake \cup AtShutdown
    BY <1>4, Zenon
  <2>2. CASE Head(p) = "forget"
    BY <1>5, <2>1, <2>2, StopGoesOn, Zenon
  <2>3. CASE Head(p) = "take"
    BY <1>5, <2>1, <2>3, StopGoesOn, Zenon
  <2>q. QED
    BY <1>1, <1>2, <2>2, <2>3, Zenon
<1>7. /\ case' = case /\ started' = started /\ closed' = closed /\ ka' = ka
      /\ engine' = 0 /\ made' = made /\ live' = live /\ busy' = busy
      /\ launching' = launching /\ serving' = serving /\ stoppers' = stoppers
      /\ expired' = expired
      /\ Head(p) = "take" => mine' = [mine EXCEPT ![c] = engine]
      /\ Head(p) = "forget" => mine' = mine
  BY <1>2, Zenon DEF Forget, At, Rest, Advance
<1>8. mine' \in [Callers -> Nat] /\ (Head(p) = "take" => mine'[c] = engine)
  BY <1>1, <1>2, <1>7, Zenon DEF WorkerInv, WorkerTypeOK
<1>9. /\ Tagged(p) /\ c \in case.callers /\ ~closed /\ Current
      /\ launching = {} /\ serving \subseteq live
  BY <1>1, <1>2, <1>3, <1>6, Zenon DEF CallOK
<1>10. /\ prog' = [prog EXCEPT ![c] = q]
       /\ P.locked => holder' = IF q = <<>> THEN {} ELSE {c}
  BY <1>1, <1>2, <1>5, <1>6, Goes, Zenon
<1>11. CASE Head(p) = "take"
  <2>1. CallOK(c, q)'
    BY <1>3, <1>6, <1>7, <1>8, <1>9, <1>11, Zenon DEF CallOK, Tagged, member, Current
  <2>2. OneInside' /\ CallsOK' /\ IdleOK' /\ prog' \in [Callers -> Lefts \cup {<<>>}]
    BY <1>1, <1>6, <1>7, <1>10, <2>1, Moves, Zenon
  <2>q. QED
    BY <1>7, <1>8, <2>2, Zenon DEF WorkerInv, WorkerTypeOK, Goroutines, MemberOK, member
<1>12. CASE Head(p) = "forget"
  <2>1. member = "machinery"
    BY <1>6, <1>9, <1>12, Zenon DEF Tagged
  <2>2. stoppers = {} /\ live = {} /\ (Strict => busy = {}) /\ Told(c)
    BY <1>3, <1>6, <1>12, <2>1, Zenon DEF CallOK, Told, WorkerInv, Goroutines
  <2>3. Current' /\ Told(c)'
    BY <1>7, <2>2, Zenon DEF Current, Told, Strict, member
  <2>4. CallOK(c, q)'
    BY <1>6, <1>7, <1>9, <1>12, <2>2, <2>3, Zenon DEF CallOK, Tagged, member, Strict
  <2>5. OneInside' /\ CallsOK' /\ IdleOK' /\ prog' \in [Callers -> Lefts \cup {<<>>}]
    BY <1>1, <1>6, <1>7, <1>10, <2>4, Moves, Zenon
  <2>q. QED
    BY <1>7, <1>8, <2>5, Zenon DEF WorkerInv, WorkerTypeOK, Goroutines, MemberOK, member
<1>q. QED
  BY <1>1, <1>2, <1>11, <1>12, Zenon

\* Shutting down the engine the call has taken leaves none.
LEMMA ShutdownKeeps ==
    ASSUME WorkerInv, NEW c \in Callers, Shutdown(c)
    PROVE  WorkerInv'
<1>1. prog[c] # <<>> /\ Head(prog[c]) = "shutdown" /\ Advance(c)
  BY Zenon DEF Shutdown, At, Go
<1>2. PICK p : p = prog[c]
  BY Zenon
<1>3. p \in Lefts /\ CallOK(c, p)
  BY <1>1, <1>2, Inside, Zenon
<1>4. p \in AtShutdown
  BY <1>1, <1>2, <1>3, Heads, Zenon
<1>5. PICK q : q = Tail(p)
  BY Zenon
<1>6. /\ q = <<>> /\ Len(p) = 1 /\ p \notin AtClosed
      /\ Phase(p) = "shutdown" /\ p \in McpSteps
  BY <1>1, <1>2, <1>4, <1>5, StopGoesOn, Zenon
<1>7. /\ case' = case /\ started' = started /\ closed' = closed /\ ka' = ka
      /\ engine' = engine /\ made' = made /\ busy' = busy
      /\ launching' = launching /\ serving' = serving /\ stoppers' = stoppers
      /\ expired' = expired /\ mine' = mine /\ live' = live \ {mine[c]}
  BY Zenon DEF Shutdown, Rest, flags, Go, Advance
<1>8. /\ member = "mcp" /\ live' = {} /\ stoppers = {} /\ launching = {}
      /\ ka # "running"
  BY <1>3, <1>6, <1>7, Zenon DEF CallOK, Tagged
<1>9. ~Strict'
  BY <1>7, <1>8, Zenon DEF Strict, Waits, member
<1>10. /\ prog' = [prog EXCEPT ![c] = q]
       /\ P.locked => holder' = IF q = <<>> THEN {} ELSE {c}
  BY <1>1, <1>2, <1>5, <1>6, Goes, Zenon
<1>11. Resting'
  BY <1>7, <1>8, <1>9, Zenon DEF Resting, Current, Off
<1>12. OneInside' /\ CallsOK' /\ IdleOK' /\ prog' \in [Callers -> Lefts \cup {<<>>}]
  BY <1>1, <1>6, <1>7, <1>8, <1>10, <1>11, Moves, Zenon
<1>13. WorkerTypeOK'
  BY <1>7, <1>8, <1>12, Zenon DEF WorkerInv, WorkerTypeOK
<1>14. Goroutines' /\ MemberOK'
  BY <1>7, <1>8, Zenon DEF WorkerInv, Goroutines, MemberOK, member
<1>q. QED
  BY <1>12, <1>13, <1>14, Zenon DEF WorkerInv

\* The goroutine of Start publishes its listener, or fails, while the server is
\* started or about to be.
LEMMA LaunchKeeps ==
    ASSUME WorkerInv, NEW e \in Engines, Launch(e)
    PROVE  WorkerInv'
<1>1. /\ case' = case /\ started' = started /\ closed' = closed /\ made' = made
      /\ busy' = busy /\ stoppers' = stoppers /\ prog' = prog /\ mine' = mine
      /\ holder' = holder /\ expired' = expired
      /\ e \in launching /\ launching' = launching \ {e}
  BY Zenon DEF Launch, Rest, callVars
<1>2. \/ engine' = e /\ live' = live \cup {e} /\ serving' = serving \cup {e} /\ ka' = ka
      \/ engine' = 0 /\ ka' = "none" /\ live' = live /\ serving' = serving
  BY Zenon DEF Launch, ServeFailed
<1>3. member = "mcp" /\ live = {} /\ serving = {} /\ launching = {e} /\ e \in Nat
  BY <1>1, Zenon DEF WorkerInv, Goroutines, WorkerTypeOK
<1>4. ~Strict'
  BY <1>1, <1>3, Zenon DEF Strict, Waits, member
<1>5. Current' /\ launching' = {}
  BY <1>1, <1>2, <1>3, <1>4, Zenon DEF Current
<1>6. WorkerTypeOK'
  BY <1>1, <1>2, <1>3 DEF WorkerInv, WorkerTypeOK
<1>7. Goroutines' /\ MemberOK' /\ OneInside'
  BY <1>1, <1>2, <1>3, <1>5, Zenon DEF WorkerInv, Goroutines, MemberOK, NoKeepalive, OneInside, P, member
<1>8. ASSUME NEW d \in Callers, prog[d] # <<>>
      PROVE  CallOK(d, prog[d])'
  <2>1. PICK p : p = prog[d]
    BY Zenon
  <2>2. CallOK(d, p)
    BY <1>8, <2>1, Inside, Zenon
  <2>3. Phase(p) = "flagging"
    BY <1>1, <2>2, Zenon DEF CallOK
  <2>4. CallOK(d, p)'
    BY <1>1, <1>5, <2>2, <2>3, Zenon DEF CallOK, Tagged, member
  <2>q. QED
    BY <1>1, <2>1, <2>4 DEF CallOK, Tagged
<1>9. CallsOK'
  BY <1>1, <1>8, Zenon DEF CallsOK
<1>10. IdleOK'
  <2>1. Resting => started /\ ~closed
    BY <1>1, Zenon DEF Resting, Off
  <2>q. QED
    BY <1>1, <1>5, <2>1, Zenon DEF WorkerInv, IdleOK, Idle, Resting
<1>q. QED
  BY <1>6, <1>7, <1>9, <1>10, Zenon DEF WorkerInv

\* A listener that was shut down returns when nothing listens.
LEMMA ServeEndsKeeps ==
    ASSUME WorkerInv, NEW e \in Engines, ServeEnds(e)
    PROVE  WorkerInv'
<1>1. /\ case' = case /\ started' = started /\ closed' = closed /\ made' = made
      /\ live' = live /\ busy' = busy /\ launching' = launching /\ stoppers' = stoppers
      /\ prog' = prog /\ mine' = mine /\ holder' = holder /\ expired' = expired
      /\ engine' = 0 /\ ka' = "none"
      /\ e \in serving \ live /\ serving' = serving \ {e}
  BY Zenon DEF ServeEnds, ServeFailed, Rest, callVars
<1>2. member = "mcp" /\ live = {} /\ launching = {}
  BY <1>1, Zenon DEF WorkerInv, Goroutines
<1>3. ~Strict'
  BY <1>1, <1>2, Zenon DEF Strict, Waits, member
<1>4. Current' /\ (Resting => Resting')
  BY <1>1, <1>2, <1>3, Zenon DEF Current, Resting, Off
<1>5. WorkerTypeOK'
  BY <1>1, Zenon DEF WorkerInv, WorkerTypeOK
<1>6. Goroutines' /\ MemberOK' /\ OneInside'
  BY <1>1, <1>2, Zenon DEF WorkerInv, Goroutines, MemberOK, NoKeepalive, OneInside, P, member
<1>7. ASSUME NEW d \in Callers, prog[d] # <<>>
      PROVE  CallOK(d, prog[d])'
  <2>1. PICK p : p = prog[d]
    BY Zenon
  <2>2. CallOK(d, p)
    BY <1>7, <2>1, Inside, Zenon
  <2>3. Phase(p) = "flagging"
    BY <1>1, <2>2, Zenon DEF CallOK
  <2>4. CallOK(d, p)'
    BY <1>1, <1>4, <2>2, <2>3, Zenon DEF CallOK, Tagged, member
  <2>q. QED
    BY <1>1, <2>1, <2>4 DEF CallOK, Tagged
<1>8. CallsOK'
  BY <1>1, <1>7, Zenon DEF CallsOK
<1>9. IdleOK'
  BY <1>1, <1>4, Zenon DEF WorkerInv, IdleOK, Idle
<1>q. QED
  BY <1>5, <1>6, <1>8, <1>9, Zenon DEF WorkerInv

\* Tasks come and go, and a context is cancelled: fewer engines take tasks, and a
\* task begins on one that does.
LEMMA TasksKeep ==
    ASSUME WorkerInv, Cancel \/ \E e \in Engines : TaskBegin(e) \/ TaskEnd(e)
    PROVE  WorkerInv'
<1>1. /\ case' = case /\ started' = started /\ closed' = closed /\ made' = made
      /\ ka' = ka /\ engine' = engine /\ launching' = launching /\ serving' = serving
      /\ stoppers' = stoppers
      /\ prog' = prog /\ mine' = mine /\ holder' = holder /\ expired' = expired
  BY Zenon DEF Cancel, TaskBegin, TaskEnd, Rest, callVars, flags
<1>2. live' \subseteq live /\ busy' \subseteq busy \cup live
  BY Zenon DEF Cancel, TaskBegin, TaskEnd
<1>3. live' = live \/ member = "goworkflows"
  BY Zenon DEF Cancel, TaskBegin, TaskEnd
<1>4. Current => Current'
  BY <1>1, <1>2, Zenon DEF Current, Strict, member
<1>5. Resting /\ (~case.expire => stoppers = {}) => Resting'
  BY <1>1, <1>2, <1>4, Zenon DEF Resting, Off, Strict, member
<1>6. WorkerTypeOK'
  BY <1>1, <1>2, Zenon DEF WorkerInv, WorkerTypeOK
<1>7. serving \subseteq live => serving \subseteq live'
  BY <1>3, Zenon DEF WorkerInv, Goroutines
<1>8. Goroutines' /\ MemberOK' /\ OneInside'
  BY <1>1, <1>2, <1>3, <1>7, Zenon DEF WorkerInv, Goroutines, MemberOK, OneInside, P, member
<1>9. ASSUME NEW d \in Callers, prog[d] # <<>>
      PROVE  CallOK(d, prog[d])'
  <2>1. PICK p : p = prog[d]
    BY Zenon
  <2>2. CallOK(d, p)
    BY <1>9, <2>1, Inside, Zenon
  <2>3. Told(d) => Told(d)'
    BY <1>1, <1>2, Zenon DEF Told
  <2>4. CallOK(d, p)'
    BY <1>1, <1>2, <1>4, <1>5, <1>7, <2>2, <2>3 DEF CallOK, Tagged, member, Strict, Told
  <2>5. p = prog'[d]
    BY <1>1, <2>1, Zenon
  <2>q. QED
    BY <2>4, <2>5 DEF CallOK, Tagged
<1>10. CallsOK'
  BY <1>1, <1>9, Zenon DEF CallsOK
<1>11. IdleOK'
  BY <1>1, <1>5, Zenon DEF WorkerInv, IdleOK, Idle
<1>q. QED
  BY <1>6, <1>8, <1>10, <1>11, Zenon DEF WorkerInv

-----------------------------------------------------------------------------
(* The theorem.                                                            *)

\* Before the first call everything is off.
LEMMA WorkerInitInv ==
    ASSUME Init
    PROVE  WorkerInv
<1>1. Idle
  BY Zenon DEF Init, Idle
<1>2. WorkerTypeOK
  BY Zenon DEF Init, WorkerTypeOK
<1>3. Goroutines /\ MemberOK /\ OneInside /\ CallsOK
  BY Zenon DEF Init, Goroutines, MemberOK, OneInside, CallsOK
<1>4. IdleOK
  BY Zenon DEF Init, IdleOK, Resting, Current, Off
<1>q. QED
  BY <1>2, <1>3, <1>4, Zenon DEF WorkerInv

\* Every step keeps the invariant.
LEMMA WorkerStep ==
    ASSUME Orderly, WorkerInv, [Next]_vars
    PROVE  WorkerInv'
<1>1. CASE \E c \in Callers : Start(c) \/ Stop(c)
  BY <1>1, EnterKeeps, Zenon
<1>2. CASE \E c \in Callers : Step(c)
  BY <1>2, GuardKeeps, FlagKeeps, KeepaliveKeeps, EngineStartKeeps, NewContextKeeps,
     EngineInKeeps, EngineSpawnKeeps, SignalKeeps, SignalGoKeeps, StopGoroutineKeeps,
     WaitKeeps, ForgetKeeps, ShutdownKeeps, Zenon DEF Step
<1>3. CASE \E e \in Engines : Launch(e) \/ ServeEnds(e) \/ TaskBegin(e) \/ TaskEnd(e)
  BY <1>3, LaunchKeeps, ServeEndsKeeps, TasksKeep, Zenon
<1>4. CASE Cancel
  BY <1>4, TasksKeep, Zenon
<1>5. CASE UNCHANGED vars
  <2>1. /\ case' = case /\ started' = started /\ closed' = closed /\ made' = made
        /\ ka' = ka /\ engine' = engine /\ launching' = launching /\ serving' = serving
        /\ stoppers' = stoppers /\ live' = live /\ busy' = busy
        /\ prog' = prog /\ mine' = mine /\ holder' = holder /\ expired' = expired
    BY <1>5, Zenon DEF vars, flags, engVars, callVars
  <2>2. WorkerTypeOK' /\ Goroutines' /\ MemberOK' /\ OneInside'
    BY <2>1 DEF WorkerInv, WorkerTypeOK, Goroutines, MemberOK, OneInside, P, member
  <2>3. Current' = Current /\ Strict' = Strict /\ \A c : Told(c)' = Told(c)
    BY <2>1, Zenon DEF Current, Strict, Told, member
  <2>4. Resting' = Resting
    BY <2>1, <2>3, Zenon DEF Resting, Off
  <2>5. CallsOK' /\ IdleOK'
    BY <2>1, <2>3, <2>4 DEF WorkerInv, CallsOK, CallOK, Tagged, IdleOK, Idle, member
  <2>q. QED
    BY <2>2, <2>5, Zenon DEF WorkerInv
<1>q. QED
  BY <1>1, <1>2, <1>3, <1>4, <1>5, Zenon DEF Next

\* When no call is running and the server is not started, no engine takes tasks,
\* the keepalive server does not run and no task is left where Stop waits for
\* them, for every member, any number of callers, engines, tasks and stops, and
\* whatever fails to start (Start and Stop of the machinery, cron, hptimer and MCP
\* servers and of the Temporal, go-workflows and Conductor workers).
THEOREM StoppedLeavesNothing == Orderly => (Spec => []StoppedIsOff)
<1> SUFFICES ASSUME Orderly
             PROVE  Spec => []StoppedIsOff
  BY Zenon
<1>1. Init => WorkerInv
  BY WorkerInitInv, Zenon
<1>2. WorkerInv /\ [Next]_vars => WorkerInv'
  BY WorkerStep, Zenon
<1>3. WorkerInv => StoppedIsOff
  BY Zenon DEF WorkerInv, IdleOK, Resting, Off, Strict, StoppedIsOff
<1>q. QED
  BY <1>1, <1>2, <1>3, PTL DEF Spec
=============================================================================
