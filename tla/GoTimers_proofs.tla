-------------------------- MODULE GoTimers_proofs --------------------------
(***************************************************************************)
(* Theorems about the timers and tickers of GoTimers, for every longest    *)
(* delay and every number of resets.                                       *)
(***************************************************************************)
EXTENDS GoTimers, TLAPS

(***************************************************************************)
(* Types.  The bounds of the model are part of them: one handle is armed   *)
(* by the start and one by every reset.                                    *)
(***************************************************************************)
HandleStates == [state : {"pending", "claimed", "done"}, left : Nat, generation : Nat]

Outcomes == {"unused", "armed", "fired", "stopped", "abandoned", "again"}

TimersTypeOK ==
  /\ kind \in Kinds
  /\ active \in BOOLEAN /\ event \in BOOLEAN
  /\ period \in Nat
  /\ handles \in [Handles -> HandleStates]
  /\ latest \in Handles
  /\ generation \in Nat \ {0}
  /\ result \in {"pending", "set", "cancelled"}
  /\ resets \in 0..MaxResets
  /\ calls \in Nat
  /\ outcome \in [Handles -> Outcomes]
  /\ firer \in [Handles -> Handles \union {0}]
  /\ crossed \in [Handles -> SUBSET Handles]

(* A task that has a result to give is its timer's last one and carries    *)
(* the timer's generation; every other task carries an older one, so that  *)
(* it gives nothing when it wakes up late.                                 *)
LastTaskDecides ==
  kind = "task" =>
    /\ \A h \in Handles : h # latest => handles[h].generation < generation
    /\ handles[latest].generation <= generation
    /\ result = "pending" => /\ handles[latest].generation = generation
                             /\ handles[latest].state # "done"

(* While the flag of a timer or ticker is up, its last callback is coming. *)
CallbackComing ==
  kind \in {"timer", "func", "ticker"} /\ active => handles[latest].state # "done"

(* A thread that is late, for an arming that is not the timer's last, had  *)
(* been claimed when the last one was armed.                               *)
LateWereClaimed ==
  kind \in {"timer", "func"} =>
    \A h \in Handles : h # latest /\ handles[h].state # "done" =>
                         handles[h].state = "claimed" /\ h \in crossed[latest]

(* Each arming so far has ended once, but for the one that is active; the  *)
(* last one is the last reset's.                                           *)
ArmsEnded == OneShot => /\ latest = resets + 1
                        /\ \A arm \in Handles : EndsOnce(arm)

TimersInv == TimersTypeOK /\ LastTaskDecides /\ CallbackComing /\ LateWereClaimed /\ ArmsEnded

-----------------------------------------------------------------------------
LEMMA ArmedType ==
  ASSUME NEW delay \in Nat, NEW made \in Nat
  PROVE  Armed(delay, made) \in HandleStates
BY DEF Armed, HandleStates

LEMMA DoneType == Done \in HandleStates
BY DEF Done, HandleStates

LEMMA DelaysType == Delays \subseteq Nat
BY GoTimersAssumption DEF Delays

LEMMA CancelledType ==
  ASSUME NEW handle \in HandleStates, NEW swallowed \in BOOLEAN
  PROVE  Cancelled(handle, swallowed) \in HandleStates
BY DoneType DEF Cancelled, HandleStates

LEMMA CancelledGeneration ==
  ASSUME NEW handle \in HandleStates, NEW swallowed \in BOOLEAN
  PROVE  Cancelled(handle, swallowed).generation \in {0, handle.generation}
<1>1. Done.generation = 0
  BY DEF Done
<1>2. [handle EXCEPT !.state = "claimed", !.left = 0].generation = handle.generation
  BY DEF HandleStates
<1> QED
  BY <1>1, <1>2 DEF Cancelled

LEMMA EndingType ==
  ASSUME TimersTypeOK, NEW how \in Outcomes
  PROVE  Ending(how) \in [Handles -> Outcomes]
BY DEF TimersTypeOK, Outcomes, Ending

LEMMA StoppedType == TimersTypeOK => StoppedArms \in [Handles -> Outcomes]
BY EndingType DEF TimersTypeOK, Outcomes, StoppedArms

LEMMA FiredType ==
  ASSUME TimersTypeOK, NEW h \in Handles, FiredBy(h) \/ Unfired
  PROVE  outcome' \in [Handles -> Outcomes] /\ firer' \in [Handles -> Handles \union {0}]
BY EndingType DEF TimersTypeOK, Outcomes, FiredBy, Unfired

LEMMA StartTyped == TimersInit => TimersTypeOK
<1> SUFFICES ASSUME TimersInit PROVE TimersTypeOK
  OBVIOUS
<1>1. period \in Nat /\ handles \in [Handles -> HandleStates]
  BY ArmedType, DoneType, DelaysType DEF TimersInit
<1>2. latest \in Handles /\ resets \in 0..MaxResets
  BY GoTimersAssumption DEF TimersInit, Handles
<1>3. active \in BOOLEAN /\ event \in BOOLEAN
  BY DEF TimersInit
<1>4. kind \in Kinds /\ generation \in Nat \ {0} /\ result \in {"pending", "set", "cancelled"} /\ calls \in Nat
  BY DEF TimersInit
<1>5. outcome \in [Handles -> Outcomes] /\ firer \in [Handles -> Handles \union {0}] /\ crossed \in [Handles -> SUBSET Handles]
  BY DEF TimersInit, Outcomes
<1> QED
  BY <1>1, <1>2, <1>3, <1>4, <1>5 DEF TimersTypeOK

(***************************************************************************)
(* Types are kept, operation by operation.                                 *)
(***************************************************************************)
LEMMA StepTyped == TimersTypeOK /\ [TimersNext]_timerVars => TimersTypeOK'
<1> SUFFICES ASSUME TimersTypeOK, [TimersNext]_timerVars PROVE TimersTypeOK'
  OBVIOUS
<1> USE DEF TimersTypeOK
<1>1. CASE Elapse
  BY <1>1 DEF Elapse, HandleStates, armVars
<1>2. CASE Return
  BY <1>2 DEF Return, armVars
<1>3. CASE Stop
  <2> PICK swallowed \in BOOLEAN :
        handles' = [handles EXCEPT ![latest] = Cancelled(handles[latest], swallowed)]
    BY <1>3 DEF Stop
  <2>1. handles' \in [Handles -> HandleStates]
    BY CancelledType
  <2>2. outcome' \in [Handles -> Outcomes]
    BY <1>3, StoppedType DEF Stop
  <2>3. active' \in BOOLEAN
    BY <1>3 DEF Stop
  <2>4. generation' \in Nat \ {0} /\ result' \in {"pending", "set", "cancelled"}
    BY <1>3 DEF Stop
  <2>5. UNCHANGED <<kind, event, period, latest, resets, calls, firer, crossed>>
    BY <1>3 DEF Stop
  <2> QED
    BY <2>1, <2>2, <2>3, <2>4, <2>5
<1>4. CASE Reset
  <2> PICK delay \in Delays, swallowed \in BOOLEAN :
        /\ period' = delay
        /\ handles' = [h \in Handles |->
                         IF kind # "stream" /\ h = resets + 2 THEN Armed(delay, generation')
                         ELSE IF h = latest THEN Cancelled(handles[h], swallowed) ELSE handles[h]]
    BY <1>4 DEF Reset
  <2>1. generation' \in Nat \ {0}
    BY <1>4 DEF Reset
  <2>2. handles' \in [Handles -> HandleStates] /\ period' \in Nat
    BY <2>1, CancelledType, ArmedType, DelaysType
  <2>3. outcome' \in [Handles -> Outcomes]
    BY <1>4, StoppedType DEF Reset, Outcomes
  <2>4. latest' \in Handles /\ resets' \in 0..MaxResets
    BY <1>4, GoTimersAssumption DEF Reset, Handles
  <2>5. firer' = firer /\ crossed' \in [Handles -> SUBSET Handles]
    <3> DEFINE late == {h \in Handles : handles[h].state = "claimed"}
    <3>1. firer' = firer /\ crossed' = [crossed EXCEPT ![resets + 2] = late]
      BY <1>4 DEF Reset
    <3>2. late \in SUBSET Handles
      OBVIOUS
    <3> HIDE DEF late
    <3> QED
      BY <3>1, <3>2
  <2> QED
    BY <1>4, <2>1, <2>2, <2>3, <2>4, <2>5 DEF Reset
<1>5. CASE Receive
  BY <1>5 DEF Receive, armVars
<1>6. CASE Abandon
  BY <1>6, EndingType DEF Abandon, Outcomes
<1>7. CASE AwaitTick
  BY <1>7, ArmedType DEF AwaitTick, armVars
<1>8. ASSUME NEW h \in Handles, Claim(h) PROVE TimersTypeOK'
  BY <1>8 DEF Claim, HandleStates, armVars
<1>9. ASSUME NEW h \in Handles, Fire(h) PROVE TimersTypeOK'
  <2>1. CASE FireTimer(h)
    <3>1. active' \in BOOLEAN /\ event' \in BOOLEAN
      BY <2>1 DEF FireTimer
    <3>2. Count(active /\ kind = "func") \in 0..1
      BY DEF Count
    <3>3. calls' \in Nat
      BY <2>1, <3>2 DEF FireTimer
    <3>4. handles' \in [Handles -> HandleStates]
      BY <2>1, DoneType DEF FireTimer
    <3>5. outcome' \in [Handles -> Outcomes] /\ firer' \in [Handles -> Handles \union {0}]
      BY <2>1, FiredType DEF FireTimer
    <3> QED
      BY <1>9, <2>1, <3>1, <3>3, <3>4, <3>5 DEF Fire, FireTimer
  <2>2. CASE FireTicker(h)
    BY <1>9, <2>2, DoneType, ArmedType DEF Fire, FireTicker
  <2>3. CASE FireTask(h)
    <3>1. outcome' \in [Handles -> Outcomes] /\ firer' \in [Handles -> Handles \union {0}]
      BY <2>3, FiredType DEF FireTask
    <3> QED
      BY <1>9, <2>3, <3>1, DoneType DEF Fire, FireTask
  <2>4. CASE FireStream(h)
    BY <1>9, <2>4, DoneType DEF Fire, FireStream
  <2> QED
    BY <1>9, <2>1, <2>2, <2>3, <2>4 DEF Fire
<1>10. CASE UNCHANGED timerVars
  BY <1>10 DEF timerVars, armVars
<1> QED
  BY <1>1, <1>2, <1>3, <1>4, <1>5, <1>6, <1>7, <1>8, <1>9, <1>10 DEF TimersNext

(***************************************************************************)
(* The invariant: the start.                                               *)
(***************************************************************************)
LEMMA StartHolds == TimersInit => TimersInv
<1> SUFFICES ASSUME TimersInit PROVE TimersInv
  OBVIOUS
<1>1. TimersTypeOK
  BY StartTyped
<1>2. latest = 1 /\ 1 \in Handles /\ active = TRUE /\ resets = 0 /\ generation = 1 /\ result = "pending"
  BY GoTimersAssumption DEF TimersInit, Handles
<1>3. kind # "stream" => handles[latest].state = "pending" /\ handles[latest].generation = 1
  BY <1>2 DEF TimersInit, Armed
<1>4. \A h \in Handles : h # latest => handles[h].generation = 0 /\ handles[h].state = "done"
  BY <1>2 DEF TimersInit, Done
<1>5. LastTaskDecides
  BY <1>2, <1>3, <1>4 DEF LastTaskDecides
<1>6. CallbackComing
  BY <1>3 DEF CallbackComing
<1>7. OneShot => Active
  BY <1>2, <1>3 DEF OneShot, Active
<1>8. LateWereClaimed
  BY <1>4 DEF LateWereClaimed
<1>9. ASSUME OneShot, NEW arm \in Handles PROVE EndsOnce(arm)
  <2>1. outcome[arm] = IF arm = 1 THEN "armed" ELSE "unused"
    BY <1>9 DEF TimersInit
  <2>2. arm > 1 <=> arm # 1
    BY DEF Handles
  <2> QED
    BY <1>2, <1>7, <1>9, <2>1, <2>2 DEF EndsOnce
<1>10. ArmsEnded
  BY <1>2, <1>9 DEF ArmsEnded
<1> QED
  BY <1>1, <1>5, <1>6, <1>8, <1>10 DEF TimersInv

(***************************************************************************)
(* How armings move: they stay as they are, or the last one, which is      *)
(* active, ends.                                                           *)
(***************************************************************************)
LEMMA ArmsStay ==
  ASSUME ArmsEnded, UNCHANGED <<kind, latest, resets, outcome, firer, crossed>>, OneShot => (Active' <=> Active)
  PROVE  ArmsEnded'
BY DEF ArmsEnded, EndsOnce, OneShot

LEMMA LastArmEnds ==
  ASSUME TimersInv, UNCHANGED <<kind, latest, resets, crossed>>, OneShot, Active, ~Active',
         NEW how \in {"fired", "stopped", "abandoned"}, outcome' = Ending(how),
         how = "abandoned" => kind = "task",
         \A arm \in Handles : arm # latest => firer'[arm] = firer[arm],
         how = "fired" => firer'[latest] = latest \/ (kind # "task" /\ firer'[latest] \in crossed[latest])
  PROVE  ArmsEnded'
<1> USE DEF TimersInv, TimersTypeOK
<1>1. latest = resets + 1 /\ OneShot'
  BY DEF ArmsEnded, OneShot
<1>2. outcome[latest] = "armed"
  BY DEF ArmsEnded, EndsOnce
<1>3. outcome' = [outcome EXCEPT ![latest] = how]
  BY <1>2 DEF Ending
<1>4. ASSUME NEW arm \in Handles PROVE EndsOnce(arm)'
  <2>1. EndsOnce(arm)
    BY DEF ArmsEnded
  <2>2. CASE arm = latest
    <3>1. outcome'[arm] = how /\ ~(arm > resets + 1)
      BY <1>1, <1>3, <2>2
    <3> QED
      BY <2>2, <3>1 DEF EndsOnce
  <2>3. CASE arm # latest
    <3>1. outcome'[arm] = outcome[arm] /\ firer'[arm] = firer[arm]
      BY <1>3, <2>3
    <3> QED
      BY <2>1, <2>3, <3>1 DEF EndsOnce
  <2> QED
    BY <2>2, <2>3
<1> QED
  BY <1>1, <1>4 DEF ArmsEnded

(***************************************************************************)
(* Steps that arm nothing and end nothing.                                 *)
(***************************************************************************)
LEMMA QuietSteps ==
  ASSUME TimersInv, TimersTypeOK',
         UNCHANGED <<kind, active, latest, generation, result, resets, armVars>>,
         \A h \in Handles : /\ handles'[h].generation = handles[h].generation
                            /\ handles'[h].state = "done" <=> handles[h].state = "done"
                            /\ handles[h].state = "claimed" => handles'[h].state = "claimed"
  PROVE  TimersInv'
<1> USE DEF TimersInv, TimersTypeOK
<1>1. LastTaskDecides'
  BY DEF LastTaskDecides
<1>2. CallbackComing'
  BY DEF CallbackComing
<1>3. ArmsEnded'
  BY ArmsStay DEF Active, armVars
<1>4. LateWereClaimed'
  BY DEF LateWereClaimed, armVars
<1> QED
  BY <1>1, <1>2, <1>3, <1>4

LEMMA ElapseKeeps == TimersInv /\ TimersTypeOK' /\ Elapse => TimersInv'
<1> SUFFICES ASSUME TimersInv, TimersTypeOK', Elapse PROVE TimersInv'
  OBVIOUS
<1>1. \A h \in Handles : /\ handles'[h].generation = handles[h].generation
                         /\ handles'[h].state = handles[h].state
  BY DEF Elapse, TimersInv, TimersTypeOK, HandleStates
<1> QED
  BY <1>1, QuietSteps DEF Elapse

LEMMA ClaimKeeps == TimersInv /\ TimersTypeOK' /\ (\E h \in Handles : Claim(h)) => TimersInv'
<1> SUFFICES ASSUME TimersInv, TimersTypeOK', NEW h \in Handles, Claim(h) PROVE TimersInv'
  OBVIOUS
<1>1. \A other \in Handles : /\ handles'[other].generation = handles[other].generation
                             /\ handles'[other].state = "done" <=> handles[other].state = "done"
                             /\ handles[other].state = "claimed" => handles'[other].state = "claimed"
  BY DEF Claim, TimersInv, TimersTypeOK, HandleStates
<1> QED
  BY <1>1, QuietSteps DEF Claim

(* The iterator of an asynchronous ticker has no armings.                  *)
LEMMA StreamKeeps ==
  ASSUME TimersInv, TimersTypeOK', kind = "stream", UNCHANGED kind
  PROVE  TimersInv'
BY DEF TimersInv, LastTaskDecides, CallbackComing, LateWereClaimed, ArmsEnded, OneShot

(***************************************************************************)
(* Callbacks.                                                              *)
(***************************************************************************)
LEMMA FireTimerKeeps ==
  ASSUME TimersInv, TimersTypeOK', NEW h \in Handles, Fire(h), FireTimer(h)
  PROVE  TimersInv'
<1> USE DEF TimersInv, TimersTypeOK
<1>1. /\ UNCHANGED <<kind, latest, resets, crossed>> /\ kind \in {"timer", "func"} /\ active' = FALSE
      /\ handles' = [handles EXCEPT ![h] = Done]
  BY DEF Fire, FireTimer
<1>2. OneShot /\ (Active <=> active) /\ ~Active'
  BY <1>1 DEF OneShot, Active
<1>3. h = latest \/ h \in crossed[latest]
  BY <1>1 DEF Fire, LateWereClaimed
<1>4. ArmsEnded'
  <2>1. CASE active
    <3>1. outcome' = Ending("fired") /\ firer' = [firer EXCEPT ![latest] = h]
      BY <2>1 DEF FireTimer, FiredBy
    <3>2. firer'[latest] = h /\ \A arm \in Handles : arm # latest => firer'[arm] = firer[arm]
      BY <3>1
    <3> QED
      BY <1>1, <1>2, <1>3, <2>1, <3>1, <3>2, LastArmEnds
  <2>2. CASE ~active
    BY <1>1, <1>2, <2>2, ArmsStay DEF FireTimer, Unfired
  <2> QED
    BY <2>1, <2>2
<1>5. LateWereClaimed'
  BY <1>1 DEF LateWereClaimed, Done
<1> QED
  BY <1>1, <1>4, <1>5 DEF LastTaskDecides, CallbackComing

LEMMA FireTickerKeeps ==
  ASSUME TimersInv, TimersTypeOK', NEW h \in Handles, Fire(h), FireTicker(h)
  PROVE  TimersInv'
<1> USE DEF TimersInv, TimersTypeOK
<1>1. kind' = kind /\ kind = "ticker" /\ active' = active
  BY DEF Fire, FireTicker
<1>2. active => latest' = h /\ handles'[h].state = "pending"
  BY DEF FireTicker, Armed
<1> QED
  BY <1>1, <1>2 DEF LastTaskDecides, CallbackComing, LateWereClaimed, ArmsEnded, OneShot

LEMMA FireTaskKeeps ==
  ASSUME TimersInv, TimersTypeOK', NEW h \in Handles, Fire(h), FireTask(h)
  PROVE  TimersInv'
<1> USE DEF TimersInv, TimersTypeOK
<1> DEFINE sets == handles[h].generation = generation /\ result = "pending"
<1>1. /\ kind = "task" /\ handles' = [handles EXCEPT ![h] = Done]
      /\ result' = IF sets THEN "set" ELSE result
      /\ UNCHANGED <<kind, active, event, latest, calls, period, generation, resets, crossed>>
  BY DEF Fire, FireTask
<1>2. handles[h].state # "done"
  BY DEF Fire
<1>3. sets => h = latest
  BY <1>1 DEF LastTaskDecides
<1>4. result = "pending" /\ h = latest => sets
  BY <1>1 DEF LastTaskDecides
<1>5. LastTaskDecides'
  <2>1. \A other \in Handles : other # latest => handles'[other].generation < generation
    BY <1>1 DEF LastTaskDecides, Done
  <2>2. result' = "pending" => h # latest /\ result = "pending"
    BY <1>1, <1>4
  <2>3. result' = "pending" => handles'[latest] = handles[latest]
    BY <1>1, <2>2
  <2>4. handles'[latest].generation <= generation
    BY <1>1 DEF LastTaskDecides, Done
  <2> QED
    BY <1>1, <2>1, <2>2, <2>3, <2>4 DEF LastTaskDecides
<1>6. OneShot
  BY <1>1 DEF OneShot
<1>7. ArmsEnded'
  <2>1. CASE sets
    <3>1. Active /\ ~Active'
      BY <1>1, <1>2, <1>3, <2>1 DEF Active
    <3>2. outcome' = Ending("fired") /\ firer' = [firer EXCEPT ![latest] = latest]
      BY <1>3, <2>1 DEF FireTask, FiredBy
    <3>3. firer'[latest] = latest /\ \A arm \in Handles : arm # latest => firer'[arm] = firer[arm]
      BY <3>2
    <3> QED
      BY <1>1, <1>6, <3>1, <3>2, <3>3, LastArmEnds
  <2>2. CASE ~sets
    <3>1. Active' <=> Active
      BY <1>1, <1>4, <2>2 DEF Active
    <3>2. UNCHANGED <<outcome, firer>>
      BY <2>2 DEF FireTask, Unfired
    <3> QED
      BY <1>1, <3>1, <3>2, ArmsStay
  <2> QED
    BY <2>1, <2>2
<1> QED
  BY <1>1, <1>5, <1>7 DEF CallbackComing, LateWereClaimed

LEMMA FireKeeps == TimersInv /\ TimersTypeOK' /\ (\E h \in Handles : Fire(h)) => TimersInv'
<1> SUFFICES ASSUME TimersInv, TimersTypeOK', NEW h \in Handles, Fire(h) PROVE TimersInv'
  OBVIOUS
<1>1. CASE FireStream(h)
  BY <1>1, StreamKeeps DEF Fire, FireStream
<1> QED
  BY <1>1, FireTimerKeeps, FireTickerKeeps, FireTaskKeeps DEF Fire

(***************************************************************************)
(* What users call.                                                        *)
(***************************************************************************)
(* A handle that a stop or a reset cancels is not pending any more.        *)
LEMMA CancelledThreads ==
  ASSUME kind \in {"timer", "func"}, NEW handle \in HandleStates, NEW swallowed \in BOOLEAN
  PROVE  /\ Cancelled(handle, swallowed).state # "pending"
         /\ Cancelled(handle, swallowed).state = "claimed" => handle.state = "claimed"
BY DEF Cancelled, HandleStates, Done

LEMMA StopKeeps == TimersInv /\ TimersTypeOK' /\ Stop => TimersInv'
<1> SUFFICES ASSUME TimersInv, TimersTypeOK', Stop PROVE TimersInv'
  OBVIOUS
<1> USE DEF TimersInv, TimersTypeOK
<1> PICK swallowed \in BOOLEAN :
      handles' = [handles EXCEPT ![latest] = Cancelled(handles[latest], swallowed)]
  BY DEF Stop
<1>1. /\ UNCHANGED <<kind, latest, resets, firer, crossed>> /\ active' = FALSE
      /\ generation' = (IF kind = "task" THEN generation + 1 ELSE generation)
      /\ result' = (IF kind = "task" /\ result = "pending" THEN "cancelled" ELSE result)
      /\ outcome' = StoppedArms
  BY DEF Stop
<1>2. \A h \in Handles : h # latest => handles'[h] = handles[h]
  OBVIOUS
<1>3. LastTaskDecides'
  <2>1. handles'[latest].generation \in {0, handles[latest].generation}
    BY CancelledGeneration
  <2> QED
    BY <1>1, <1>2, <2>1 DEF LastTaskDecides, HandleStates
<1>4. OneShot => ~Active'
  BY <1>1 DEF OneShot, Active
<1>5. LateWereClaimed'
  BY <1>1, <1>2 DEF LateWereClaimed
<1>6. CASE OneShot /\ Active
  <2>1. outcome' = Ending("stopped")
    BY <1>1, <1>6 DEF StoppedArms
  <2>2. ArmsEnded'
    BY <1>1, <1>4, <1>6, <2>1, LastArmEnds
  <2> QED
    BY <1>1, <1>3, <1>5, <2>2 DEF CallbackComing
<1>7. CASE ~(OneShot /\ Active)
  <2>1. outcome' = outcome
    BY <1>1, <1>7 DEF StoppedArms
  <2>2. ArmsEnded'
    BY <1>1, <1>4, <1>7, <2>1, ArmsStay
  <2> QED
    BY <1>1, <1>3, <1>5, <2>2 DEF CallbackComing
<1> QED
  BY <1>6, <1>7

LEMMA ResetKeeps == TimersInv /\ TimersTypeOK' /\ Reset => TimersInv'
<1> SUFFICES ASSUME TimersInv, TimersTypeOK', Reset PROVE TimersInv'
  OBVIOUS
<1> USE DEF TimersInv, TimersTypeOK
<1>1. CASE kind = "stream"
  BY <1>1, StreamKeeps DEF Reset
<1>2. CASE kind # "stream"
  <2> PICK delay \in Delays, swallowed \in BOOLEAN :
        handles' = [h \in Handles |->
                      IF kind # "stream" /\ h = resets + 2 THEN Armed(delay, generation')
                      ELSE IF h = latest THEN Cancelled(handles[h], swallowed) ELSE handles[h]]
    BY DEF Reset
  <2>1. /\ kind' = kind /\ active' = TRUE /\ result' = "pending" /\ resets' = resets + 1 /\ latest' = resets + 2
        /\ generation' = (IF kind = "task" THEN generation + 2 ELSE generation)
    BY <1>2 DEF Reset
  <2>2. latest' \in Handles /\ handles'[latest'] = Armed(delay, generation')
    BY <1>2, <2>1
  <2>3. handles'[latest'].state = "pending" /\ handles'[latest'].generation = generation'
    BY <2>2 DEF Armed
  <2>4. ASSUME kind = "task", NEW h \in Handles, h # latest'
        PROVE  handles'[h].generation < generation'
    <3>1. CASE h = latest
      <4>1. handles'[h] = Cancelled(handles[h], swallowed)
        BY <2>1, <2>4, <3>1
      <4>2. handles[latest].generation \in 0..generation
        BY <2>4 DEF LastTaskDecides, HandleStates
      <4>3. handles'[h].generation \in {0, handles[latest].generation}
        BY <3>1, <4>1, CancelledGeneration
      <4>4. generation \in Nat /\ generation' = generation + 2
        BY <2>1, <2>4
      <4> QED
        BY <4>2, <4>3, <4>4
    <3>2. CASE h # latest
      BY <2>1, <2>4, <3>2 DEF LastTaskDecides, HandleStates
    <3> QED
      BY <3>1, <3>2
  <2>5. LastTaskDecides'
    BY <2>1, <2>3, <2>4 DEF LastTaskDecides
  <2>6. OneShot => Active'
    BY <2>1, <2>3 DEF OneShot, Active
  <2>7. /\ outcome' = [StoppedArms EXCEPT ![latest'] = IF OneShot THEN "armed" ELSE "unused"]
        /\ crossed' = [crossed EXCEPT ![latest'] = {h \in Handles : handles[h].state = "claimed"}]
        /\ firer' = firer
    BY <2>1 DEF Reset
  <2>8. ASSUME kind \in {"timer", "func"}, NEW h \in Handles, h # latest', handles'[h].state # "done"
        PROVE  handles'[h].state = "claimed" /\ h \in crossed'[latest']
    <3>1. handles'[h].state = "claimed" /\ handles[h].state = "claimed"
      <4>1. CASE h = latest
        <5>1. handles'[h] = Cancelled(handles[h], swallowed)
          BY <2>1, <2>8, <4>1
        <5>2. handles'[h].state \in {"pending", "claimed", "done"}
          BY DEF HandleStates
        <5> QED
          BY <2>8, <5>1, <5>2, CancelledThreads
      <4>2. CASE h # latest
        BY <2>1, <2>8, <4>2 DEF LateWereClaimed
      <4> QED
        BY <4>1, <4>2
    <3> QED
      BY <2>2, <2>7, <3>1
  <2>9. LateWereClaimed'
    BY <2>1, <2>8 DEF LateWereClaimed
  <2>10. ASSUME OneShot, NEW arm \in Handles PROVE EndsOnce(arm)'
    <3>1. EndsOnce(arm) /\ EndsOnce(latest) /\ latest = resets + 1 /\ resets \in Nat /\ arm \in Nat /\ latest # latest'
      BY <2>1, <2>10 DEF ArmsEnded, Handles
    <3>2. CASE arm = latest'
      <4>1. outcome'[arm] = "armed"
        BY <2>2, <2>7, <2>10, <3>2, StoppedType
      <4> QED
        BY <2>1, <2>6, <2>10, <3>1, <3>2, <4>1 DEF EndsOnce
    <3>3. CASE arm = latest
      <4>1. outcome'[arm] = StoppedArms[arm]
        BY <2>7, <3>1, <3>3, StoppedType
      <4>2. StoppedArms[arm] = IF Active THEN "stopped" ELSE outcome[arm]
        BY <2>10, <3>1, <3>3 DEF StoppedArms, Ending, EndsOnce
      <4>3. crossed'[arm] = crossed[arm] /\ ~(arm > resets' + 1) /\ ~(arm > resets + 1)
        BY <2>1, <2>7, <3>1, <3>3
      <4> QED
        BY <2>1, <2>7, <3>1, <3>3, <4>1, <4>2, <4>3 DEF EndsOnce
    <3>4. CASE arm # latest' /\ arm # latest
      <4>1. outcome'[arm] = StoppedArms[arm] /\ crossed'[arm] = crossed[arm]
        BY <2>7, <3>4, StoppedType
      <4>2. StoppedArms[arm] = outcome[arm]
        BY <3>4 DEF StoppedArms, Ending
      <4>3. arm > resets' + 1 <=> arm > resets + 1
        BY <2>1, <3>1, <3>4
      <4> QED
        BY <2>1, <2>7, <3>1, <3>4, <4>1, <4>2, <4>3 DEF EndsOnce
    <3> QED
      BY <3>2, <3>3, <3>4
  <2>11. ArmsEnded'
    BY <2>1, <2>10 DEF ArmsEnded, OneShot
  <2> QED
    BY <2>1, <2>3, <2>5, <2>9, <2>11 DEF CallbackComing
<1> QED
  BY <1>1, <1>2

LEMMA AbandonKeeps == TimersInv /\ TimersTypeOK' /\ Abandon => TimersInv'
<1> SUFFICES ASSUME TimersInv, TimersTypeOK', Abandon PROVE TimersInv'
  OBVIOUS
<1> USE DEF TimersInv, TimersTypeOK
<1>1. /\ kind = "task" /\ result' = "cancelled" /\ result = "pending"
      /\ UNCHANGED <<kind, handles, latest, generation, resets, firer, crossed>>
  BY DEF Abandon
<1>2. OneShot /\ Active /\ ~Active'
  BY <1>1 DEF OneShot, Active, LastTaskDecides
<1>3. outcome' = Ending("abandoned")
  BY <1>2 DEF Abandon
<1>4. ArmsEnded'
  BY <1>1, <1>2, <1>3, LastArmEnds
<1> QED
  BY <1>1, <1>4 DEF LastTaskDecides, CallbackComing, LateWereClaimed

LEMMA StepKeeps == TimersInv /\ [TimersNext]_timerVars => TimersInv'
<1> SUFFICES ASSUME TimersInv, [TimersNext]_timerVars PROVE TimersInv'
  OBVIOUS
<1>1. TimersTypeOK'
  BY StepTyped DEF TimersInv
<1>2. CASE Return \/ Receive
  BY <1>1, <1>2, QuietSteps DEF Return, Receive
<1>3. CASE AwaitTick
  BY <1>1, <1>3, StreamKeeps DEF AwaitTick
<1>4. CASE UNCHANGED timerVars
  BY <1>1, <1>4, QuietSteps DEF timerVars, armVars
<1> QED
  BY <1>1, <1>2, <1>3, <1>4, ElapseKeeps, ClaimKeeps, FireKeeps, StopKeeps, ResetKeeps, AbandonKeeps DEF TimersNext

-----------------------------------------------------------------------------
LEMMA InvHolds == TimersSpec => []TimersInv
<1>1. TimersInit => TimersInv
  BY StartHolds
<1>2. TimersInv /\ [TimersNext]_timerVars => TimersInv'
  BY StepKeeps
<1> QED
  BY <1>1, <1>2, PTL DEF TimersSpec

(***************************************************************************)
(* Every arming of a one-shot timer ends exactly once, by a fire, by a     *)
(* stop or reset that reports it, or, for an AsyncTimer, by a waiter that  *)
(* is cancelled; and it is fired by its own callback or, for a Timer, by   *)
(* one whose thread had claimed it before the arming (Timer._fire, stop,   *)
(* reset; AsyncTimer), for any number of resets.                           *)
(***************************************************************************)
THEOREM ArmsEndOnce == TimersSpec => []OneEventPerArm
<1>1. TimersInv => OneEventPerArm
  <2> SUFFICES ASSUME TimersInv PROVE OneEventPerArm
    OBVIOUS
  <2>1. Active /\ kind # "stream" => handles[latest].state # "done"
    BY DEF TimersInv, TimersTypeOK, Kinds, CallbackComing, Active
  <2> QED
    BY <2>1 DEF TimersInv, ArmsEnded, OneEventPerArm
<1> QED
  BY <1>1, InvHolds, PTL
=============================================================================
