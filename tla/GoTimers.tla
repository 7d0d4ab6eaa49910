------------------------------ MODULE GoTimers ------------------------------
(***************************************************************************)
(* packages/gotime: one timer or ticker and the callbacks armed for it.    *)
(*                                                                         *)
(*   "timer"   Timer of _go_schedule.py and of _python_schedule.py         *)
(*   "func"    after_func: a Timer that calls instead of queueing          *)
(*   "ticker"  Ticker of both files                                        *)
(*   "task"    AsyncTimer, armed by an asyncio task                        *)
(*   "stream"  AsyncTicker, whose __anext__ sleeps for one period          *)
(*                                                                         *)
(* A callback runs in a thread of its own: clock._SystemHandle marks its   *)
(* handle as used under the handle's lock (Claim), and only then calls     *)
(* _fire, which takes the timer's lock (Fire).  Whatever the timer's users *)
(* do in between finds a handle that can no longer be cancelled.  A user   *)
(* of a task may do so between its wake-up and its next step.              *)
(***************************************************************************)
EXTENDS Integers

CONSTANTS MaxDelay,           \* the longest delay, in units of time
          MaxResets           \* bound: calls of reset

ASSUME GoTimersAssumption == MaxDelay \in Nat \ {0} /\ MaxResets \in Nat

VARIABLES kind,
          active,             \* _active
          event,              \* the deque of one event holds one
          period,             \* _period
          handles,            \* every callback armed so far: its state and the time left
          latest,             \* _handle, _task
          generation,         \* _generation
          result,             \* _result: "pending", "set" or "cancelled"
          resets,             \* calls of reset so far
          calls,              \* callbacks of after_func that have not returned
          outcome,            \* for checking only: how the arming of each handle ended
          firer,              \* for checking only: the callback that fired it
          crossed             \* for checking only: the callbacks claimed when it was armed

armVars   == <<outcome, firer, crossed>>
timerVars == <<kind, active, event, period, handles, latest, generation, result, resets, calls, armVars>>

Kinds     == {"timer", "func", "ticker", "task", "stream"}
OneShot   == kind \in {"timer", "func", "task"}
MaxGenerations == 2 * MaxResets + 2          \* bound: stops of one task
Handles   == 1..MaxResets + 1
Done      == [state |-> "done", left |-> 0, generation |-> 0]
Armed(delay, made) == [state |-> "pending", left |-> delay, generation |-> made]
Delays    == IF kind \in {"ticker", "stream"} THEN 1..MaxDelay ELSE 0..MaxDelay

(* What stop and reset report.                                             *)
Active == IF kind = "task" THEN handles[latest].state # "done" /\ result = "pending" ELSE active
Count(condition) == IF condition THEN 1 ELSE 0

(* The timer's arming ends, by what and by which callback.  An arming that  *)
(* ends although it is not armed any more is remembered as such.            *)
Ending(how) ==
  [outcome EXCEPT ![latest] = IF outcome[latest] = "armed" THEN how ELSE "again"]
FiredBy(h)  == outcome' = Ending("fired") /\ firer' = [firer EXCEPT ![latest] = h]
Unfired     == UNCHANGED <<outcome, firer>>
StoppedArms == IF OneShot /\ Active THEN Ending("stopped") ELSE outcome

TimersInit ==
  /\ kind \in Kinds
  /\ \E delay \in Delays :
       /\ period = delay
       /\ handles = [h \in Handles |-> IF h = 1 /\ kind # "stream" THEN Armed(delay, 1) ELSE Done]
  /\ active = TRUE /\ event = FALSE
  /\ latest = 1 /\ generation = 1 /\ result = "pending"
  /\ resets = 0 /\ calls = 0
  /\ outcome = [h \in Handles |-> IF h = 1 /\ OneShot THEN "armed" ELSE "unused"]
  /\ firer = [h \in Handles |-> 0] /\ crossed = [h \in Handles |-> {}]

(* One unit of time.                                                       *)
Elapse ==
  /\ \E h \in Handles : handles[h].state = "pending" /\ handles[h].left > 0
  /\ handles' = [h \in Handles |->
                   IF handles[h].left > 0 THEN [handles[h] EXCEPT !.left = handles[h].left - 1]
                   ELSE handles[h]]
  /\ UNCHANGED <<kind, active, event, period, latest, generation, result, resets, calls, armVars>>

(* _SystemHandle.invoke, up to its callback; a task that is woken.         *)
Claim(h) ==
  /\ handles[h].state = "pending" /\ handles[h].left = 0
  /\ handles' = [handles EXCEPT ![h].state = "claimed"]
  /\ UNCHANGED <<kind, active, event, period, latest, generation, result, resets, calls, armVars>>

(***************************************************************************)
(* _fire, and what a task or an iterator does when its sleep is over.      *)
(***************************************************************************)
(* A mutant: the callback does not ask whether the timer is still active.  *)
FireTimerAlways(h) ==
  /\ kind \in {"timer", "func"}
  /\ handles' = [handles EXCEPT ![h] = Done]
  /\ active' = FALSE
  /\ FiredBy(h)
  /\ event' = (event \/ kind = "timer")
  /\ calls' = calls + Count(kind = "func")
  /\ UNCHANGED <<latest, result>>

FireTimer(h) ==
  /\ kind \in {"timer", "func"}
  /\ handles' = [handles EXCEPT ![h] = Done]
  /\ active' = FALSE
  /\ IF active THEN FiredBy(h) ELSE Unfired
  /\ event' = (event \/ (active /\ kind = "timer"))
  /\ calls' = calls + Count(active /\ kind = "func")
  /\ UNCHANGED <<latest, result>>

(* A mutant: a ticker goes on only when its last event was received.       *)
FireTickerIfRead(h) ==
  /\ kind = "ticker"
  /\ event' = (event \/ active)
  /\ handles' = [handles EXCEPT ![h] = IF active /\ ~event THEN Armed(period, 1) ELSE Done]
  /\ latest' = IF active THEN h ELSE latest
  /\ UNCHANGED <<active, result, calls, outcome, firer>>

FireTicker(h) ==
  /\ kind = "ticker"
  /\ event' = (event \/ active)
  /\ handles' = [handles EXCEPT ![h] = IF active THEN Armed(period, 1) ELSE Done]
  /\ latest' = IF active THEN h ELSE latest
  /\ UNCHANGED <<active, result, calls, outcome, firer>>

FireTask(h) ==
  LET sets == handles[h].generation = generation /\ result = "pending"
  IN  /\ kind = "task"
      /\ handles' = [handles EXCEPT ![h] = Done]
      /\ result' = IF sets THEN "set" ELSE result
      /\ IF sets THEN FiredBy(h) ELSE Unfired
      /\ UNCHANGED <<active, event, latest, calls>>

FireStream(h) ==
  /\ kind = "stream"
  /\ handles' = [handles EXCEPT ![h] = Done]
  /\ UNCHANGED <<active, event, latest, result, calls, outcome, firer>>

Fire(h) ==
  /\ handles[h].state = "claimed"
  /\ FireTimer(h) \/ FireTicker(h) \/ FireTask(h) \/ FireStream(h)
  /\ UNCHANGED <<kind, period, generation, resets, crossed>>

(* The callback of after_func, outside the lock, returns.                  *)
Return ==
  /\ calls > 0
  /\ calls' = calls - 1
  /\ UNCHANGED <<kind, active, event, period, handles, latest, generation, result, resets, armVars>>

(***************************************************************************)
(* What users call.  Cancelling a handle that is claimed does nothing; a   *)
(* cancelled task ends, unless its sleeper answers by returning.           *)
(***************************************************************************)
(* A mutant: reset and stop of a timer do not cancel its handle.           *)
CancelledTasks(handle, swallowed) ==
  IF kind = "task" /\ ~swallowed THEN Done ELSE handle

Cancelled(handle, swallowed) ==
  IF kind = "task"
  THEN IF swallowed /\ handle.state # "done" THEN [handle EXCEPT !.state = "claimed", !.left = 0] ELSE Done
  ELSE IF handle.state = "pending" /\ kind # "stream" THEN Done ELSE handle

Stop ==
  \E swallowed \in BOOLEAN :
    /\ handles' = [handles EXCEPT ![latest] = Cancelled(handles[latest], swallowed)]
    /\ active' = FALSE
    /\ generation' = IF kind = "task" THEN generation + 1 ELSE generation
    /\ result' = IF kind = "task" /\ result = "pending" THEN "cancelled" ELSE result
    /\ outcome' = StoppedArms
    /\ kind = "task" => generation < MaxGenerations
    /\ UNCHANGED <<kind, event, period, latest, resets, calls, firer, crossed>>

Reset ==
  \E delay \in Delays, swallowed \in BOOLEAN :
    /\ resets < MaxResets
    /\ resets' = resets + 1
    /\ period' = delay
    /\ active' = TRUE
    /\ generation' = IF kind = "task" THEN generation + 2 ELSE generation
    /\ result' = "pending"
    /\ latest' = IF kind = "stream" THEN latest ELSE resets + 2
    /\ handles' = [h \in Handles |->
                     IF kind # "stream" /\ h = resets + 2 THEN Armed(delay, generation')
                     ELSE IF h = latest THEN Cancelled(handles[h], swallowed) ELSE handles[h]]
    /\ outcome' = [StoppedArms EXCEPT ![resets + 2] = IF OneShot THEN "armed" ELSE "unused"]
    /\ crossed' = [crossed EXCEPT ![resets + 2] = {h \in Handles : handles[h].state = "claimed"}]
    /\ UNCHANGED <<kind, event, calls, firer>>

(* receive and wait, when an event is there; after a timeout nothing has   *)
(* changed.                                                                *)
Receive ==
  /\ event
  /\ event' = FALSE
  /\ UNCHANGED <<kind, active, period, handles, latest, generation, result, resets, calls, armVars>>

(* A waiter of AsyncTimer.wait that is cancelled, by a timeout of its own  *)
(* for example, cancels the future it awaits.                              *)
Abandon ==
  /\ kind = "task" /\ result = "pending"
  /\ result' = "cancelled"
  /\ outcome' = IF Active THEN Ending("abandoned") ELSE outcome
  /\ UNCHANGED <<kind, active, event, period, handles, latest, generation, resets, calls, firer, crossed>>

(* AsyncTicker.__anext__, up to its sleep.                                 *)
AwaitTick ==
  /\ kind = "stream" /\ active /\ handles[latest].state = "done"
  /\ handles' = [handles EXCEPT ![latest] = Armed(period, 1)]
  /\ UNCHANGED <<kind, active, event, period, latest, generation, result, resets, calls, armVars>>

TimersNext ==
  \/ Elapse \/ Return \/ Stop \/ Reset \/ Receive \/ Abandon \/ AwaitTick
  \/ \E h \in Handles : Claim(h) \/ Fire(h)

(* Time passes, and the threads and the event loop run.                    *)
TimersFairness ==
  /\ WF_timerVars(Elapse)
  /\ \A h \in Handles : WF_timerVars(Claim(h)) /\ WF_timerVars(Fire(h))

TimersSpec == TimersInit /\ [][TimersNext]_timerVars /\ TimersFairness

(***************************************************************************)
(* What has to hold.                                                       *)
(***************************************************************************)

(* How an arming of a one-shot timer may have ended.                       *)
EndsOnce(arm) ==
  /\ outcome[arm] = "armed" <=> Active /\ arm = latest
  /\ outcome[arm] = "unused" <=> arm > resets + 1
  /\ outcome[arm] # "again"
  /\ outcome[arm] = "abandoned" => kind = "task"
  /\ outcome[arm] = "fired" => firer[arm] = arm \/ (kind # "task" /\ firer[arm] \in crossed[arm])

(* Whatever callbacks, resets and stops cross, an arming of a one-shot     *)
(* timer ends exactly once, and goes on as long as its timer calls itself  *)
(* active: it fires, or a stop or reset reports that it stopped it, or,    *)
(* for an AsyncTimer alone, a waiter that is cancelled takes the result    *)
(* with it, which nobody reports.  A stopped arming never fires.  The task *)
(* of an AsyncTimer fires no arming but its own.  A callback of a Timer    *)
(* fires an arming that is not its own only when its thread had claimed it *)
(* before the reset that made the arming: Timer._fire asks whether the     *)
(* timer is active, not which arming it is called for, so that this one    *)
(* case of an early fire is left, and no other.  A timer that calls itself *)
(* active has a callback on its way.                                       *)
OneEventPerArm ==
  /\ OneShot => \A arm \in Handles : EndsOnce(arm)
  /\ (Active /\ kind # "stream") => handles[latest].state # "done"

(* An active one-shot timer fires or is stopped, an active ticker keeps    *)
(* ticking however late its events are received, and an iterator's sleep   *)
(* ends.                                                                   *)
ArmedFires ==
  /\ (OneShot /\ Active) ~> ~Active
  /\ (kind = "ticker" /\ active) ~> (event \/ ~active)
  /\ (kind = "stream" /\ handles[latest].state # "done") ~> (handles[latest].state = "done")
=============================================================================
