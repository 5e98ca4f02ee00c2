------------------------- MODULE HighPrecisionTimer -------------------------
(***************************************************************************)
(* The timer engine of transport/hptimer: a heap of tasks, one run loop    *)
(* that sleeps until the earliest is due or it is woken, fires it and puts *)
(* a repeating task back, and the calls AddTask, RemoveTask, Start and     *)
(* Stop around it.                                                         *)
(*                                                                         *)
(* Time is a clock that ticks up to Horizon; a task due later is never     *)
(* due.  A heap entry is a record; entries of the same AddTask share its   *)
(* number, which stands for the task's context.  Several run loops are     *)
(* there because Start may be called before the old loop is gone.          *)
(***************************************************************************)
EXTENDS Naturals, FiniteSets

CONSTANTS
    Ids,        \* task IDs
    Intervals,  \* 0: a one-shot task
    Overlap,    \* Start may be called while Stop runs
    Horizon,    \* bound: the clock's last value
    MaxAdds,    \* bound: calls of AddTask that are made
    MaxStarts,  \* bound: calls of Start
    MaxStops    \* bound: calls of Stop

TimerAssumption ==
    /\ Intervals \subseteq Nat /\ Overlap \in BOOLEAN
    /\ Horizon \in Nat /\ MaxAdds \in Nat /\ MaxStarts \in Nat /\ MaxStops \in Nat

Loops == 1..MaxStarts
NoEntry == [add |-> 0]
Later(t) == IF t > Horizon THEN Horizon + 1 ELSE t

VARIABLES
    now,
    heap, tasks,        \* heap entries; the index: entry of an ID or NoEntry
    running, ctx,       \* engine; ctx numbers the contexts made so far
    cancelled,          \* contexts that are cancelled
    wakeup,             \* the wakeup channel holds a token
    timer,              \* loop that made ht.timer last, 0 when nil
    stoppedTimers,      \* loops whose timer was stopped under them
    pc, cur, at, saw,   \* per loop: place, popped entry, deadline, ctx waited on
    stopPc, stops,
    inside,             \* loop whose callback called Stop last, 0: another goroutine did
    adds, gone          \* AddTask calls made; those whose context is cancelled
engine == <<running, ctx, cancelled>>
loop == <<pc, cur, at, saw>>
store == <<heap, tasks>>
vars == <<now, store, engine, wakeup, timer, stoppedTimers, loop, stopPc, stops,
          inside, adds, gone>>

Alive == {l \in Loops : pc[l] \notin {"none", "done"}}
Earliest == {e \in heap : \A f \in heap : e.at <= f.at}

Init ==
    /\ now = 0 /\ heap = {} /\ tasks = [i \in Ids |-> NoEntry]
    /\ running = FALSE /\ ctx = 1 /\ cancelled = {}
    /\ wakeup = FALSE /\ timer = 0 /\ stoppedTimers = {}
    /\ pc = [l \in Loops |-> "none"] /\ cur = [l \in Loops |-> NoEntry]
    /\ at = [l \in Loops |-> 0] /\ saw = [l \in Loops |-> 0]
    /\ stopPc = "none" /\ stops = 0 /\ inside = 0
    /\ adds = 0 /\ gone = {}

Starts == Cardinality({l \in Loops : pc[l] # "none"})

Tick ==
    /\ now < Horizon /\ now' = now + 1
    /\ UNCHANGED <<store, engine, wakeup, timer, stoppedTimers, loop, stopPc,
                   stops, adds, gone, inside>>

-----------------------------------------------------------------------------
(* The calls.                                                              *)

Start ==
    /\ Overlap \/ stopPc = "none"
    /\ ~running /\ Starts < MaxStarts
    /\ running' = TRUE
    /\ ctx' = IF ctx \in cancelled THEN ctx + 1 ELSE ctx
    /\ pc' = [pc EXCEPT ![Starts + 1] = "top"]
    /\ UNCHANGED <<now, store, cancelled, wakeup, timer, stoppedTimers, cur, at,
                   saw, stopPc, stops, adds, gone, inside>>

\* Stop cancels the context before it takes the lock.  A task's callback may call it.
Stop ==
    /\ stopPc = "none" /\ stops < MaxStops /\ stops' = stops + 1
    /\ cancelled' = cancelled \cup {ctx}
    /\ stopPc' = "lock"
    /\ inside' \in {0} \cup {l \in Loops : pc[l] = "fire"}
    /\ UNCHANGED <<now, store, running, ctx, wakeup, timer, stoppedTimers, loop,
                   adds, gone>>

StopLocked ==
    /\ stopPc = "lock"
    /\ running' = FALSE
    /\ IF running
       THEN /\ stopPc' = IF Alive = {} THEN "released" ELSE "wait"
            /\ stoppedTimers' = stoppedTimers \cup ({timer} \ {0})
            /\ gone' = gone \cup {tasks[i].add : i \in {j \in Ids : tasks[j] # NoEntry}}
       ELSE stopPc' = "none" /\ UNCHANGED <<stoppedTimers, gone>>
    /\ UNCHANGED <<now, store, ctx, cancelled, wakeup, timer, loop, stops, adds, inside>>

\* wg.Wait returns.
StopReturn ==
    /\ stopPc = "released" /\ stopPc' = "none"
    /\ UNCHANGED <<now, store, engine, wakeup, timer, stoppedTimers, loop, stops,
                   adds, gone, inside>>

\* Mutant: nobody is told that there is an earlier task.
PushSilent(e) ==
    /\ heap' = heap \cup {e} /\ tasks' = [tasks EXCEPT ![e.id] = e]
    /\ UNCHANGED wakeup

\* AddTask once its argument has passed the checks.
Push(e) ==
    /\ heap' = heap \cup {e} /\ tasks' = [tasks EXCEPT ![e.id] = e]
    /\ wakeup' = (wakeup \/ (timer # 0 /\ \A f \in heap : e.at < f.at))

Accepts(id) == running /\ tasks[id] = NoEntry

\* A caller or a callback adds a task, due at t.
AddTask(id, t, every) ==
    /\ adds < MaxAdds /\ now <= t
    /\ adds' = adds + 1
    /\ IF Accepts(id) THEN Push([id |-> id, at |-> t, every |-> every, add |-> adds'])
                      ELSE UNCHANGED <<store, wakeup>>
    /\ UNCHANGED <<now, engine, timer, stoppedTimers, loop, stopPc, stops, gone, inside>>

\* Of a task that is not in the index nothing is removed.
RemoveTask(id) ==
    /\ running /\ tasks[id] # NoEntry
    /\ heap' = {e \in heap : e.id # id}
    /\ tasks' = [tasks EXCEPT ![id] = NoEntry]
    /\ gone' = gone \cup {tasks[id].add}
    /\ UNCHANGED <<now, engine, wakeup, timer, stoppedTimers, loop, stopPc, stops, adds, inside>>

-----------------------------------------------------------------------------
(* The run loop.                                                           *)

Go(l, place) == pc' = [pc EXCEPT ![l] = place] /\ UNCHANGED stopPc

\* The loop returns; the last one to do so releases wg.Wait.
Leave(l) ==
    /\ pc' = [pc EXCEPT ![l] = "done"]
    /\ stopPc' = IF stopPc = "wait" /\ Alive = {l} THEN "released" ELSE stopPc

\* Under the lock: leave, nap, take the task that is due, or set the timer.
LoopTop(l) ==
    /\ pc[l] = "top"
    /\ \/ /\ ~running \/ ctx \in cancelled
          /\ Leave(l)
          /\ UNCHANGED <<store, timer, stoppedTimers, cur, at, saw>>
       \/ /\ running /\ ctx \notin cancelled /\ heap = {}
          /\ Go(l, "nap")
          /\ UNCHANGED <<store, timer, stoppedTimers, cur, at, saw>>
       \/ /\ running /\ ctx \notin cancelled
          /\ \E e \in Earliest :
                IF e.at <= now
                THEN /\ Go(l, "popped")
                     /\ heap' = heap \ {e}
                     /\ tasks' = [tasks EXCEPT ![e.id] = NoEntry]
                     /\ cur' = [cur EXCEPT ![l] = e]
                     /\ at' = [at EXCEPT ![l] = now]
                     /\ UNCHANGED <<timer, stoppedTimers, saw>>
                ELSE /\ Go(l, "wait")
                     /\ at' = [at EXCEPT ![l] = e.at]
                     /\ timer' = l
                     /\ stoppedTimers' = (stoppedTimers \cup ({timer} \ {0})) \ {l}
                     /\ saw' = [saw EXCEPT ![l] = ctx]
                     /\ UNCHANGED <<store, cur>>
    /\ UNCHANGED <<now, engine, wakeup, stops, adds, gone, inside>>

\* Nothing to do: look again after a millisecond, or leave.
LoopNap(l) ==
    /\ pc[l] = "nap"
    /\ Go(l, "top") \/ (ctx \in cancelled /\ Leave(l))
    /\ UNCHANGED <<now, store, engine, wakeup, timer, stoppedTimers, cur, at, saw, stops, adds, gone, inside>>

LoopWait(l) ==
    /\ pc[l] = "wait"
    /\ \/ at[l] <= now /\ l \notin stoppedTimers /\ Go(l, "top") /\ UNCHANGED wakeup
       \/ wakeup /\ wakeup' = FALSE /\ Go(l, "top")
       \/ saw[l] \in cancelled /\ Leave(l) /\ UNCHANGED wakeup
    /\ UNCHANGED <<now, store, engine, timer, stoppedTimers, cur, at, saw, stops, adds, gone, inside>>

\* A cancelled task is skipped, another handed to the observer.
LoopTrigger(l) ==
    /\ pc[l] = "popped"
    /\ IF cur[l].add \in gone THEN Go(l, "top") ELSE Go(l, "fire")
    /\ UNCHANGED <<now, store, engine, wakeup, timer, stoppedTimers, cur, at, saw, stops, adds, gone, inside>>

\* The callback returns, after the Stop it called.
CallbackReturn(l) ==
    /\ pc[l] = "fire" /\ ~(inside = l /\ stopPc # "none") /\ Go(l, "repeat")
    /\ UNCHANGED <<now, store, engine, wakeup, timer, stoppedTimers, cur, at, saw, stops, adds, gone, inside>>

\* handleRepeatTask: back into the heap through AddTask, which may refuse.
HandleRepeatTask(l) ==
    /\ pc[l] = "repeat" /\ Go(l, "top")
    /\ LET task == cur[l] IN
       IF task.every > 0 /\ task.add \notin gone /\ Accepts(task.id)
       THEN Push([task EXCEPT !.at = Later(at[l] + task.every)])
       ELSE UNCHANGED <<store, wakeup>>
    /\ UNCHANGED <<now, engine, timer, stoppedTimers, cur, at, saw, stops,
                   adds, gone, inside>>

LoopStep(l) ==
    \/ LoopTop(l) \/ LoopNap(l) \/ LoopWait(l) \/ LoopTrigger(l)
    \/ CallbackReturn(l) \/ HandleRepeatTask(l)

Next ==
    \/ Tick \/ Start \/ Stop \/ StopLocked \/ StopReturn
    \/ \E id \in Ids : RemoveTask(id)
                       \/ \E t \in 0..Horizon, d \in Intervals : AddTask(id, t, d)
    \/ \E l \in Loops : LoopStep(l)

-----------------------------------------------------------------------------
\* Stop returns, whatever the loop is doing, unless a callback has called it: the
\* loop then waits for the callback and the callback for the loop (Stop, run).
StopReturns == (stopPc # "none" /\ inside = 0) ~> (stopPc = "none")

\* A task in the heap of a running engine is taken out when its time comes.
DueFires ==
    \A i \in Ids : (tasks[i] # NoEntry /\ tasks[i].at <= Horizon /\ running)
                   ~> (tasks[i] = NoEntry \/ tasks[i].at > Horizon \/ ~running)
=============================================================================
