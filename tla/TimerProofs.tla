----------------------------- MODULE TimerProofs -----------------------------
(***************************************************************************)
(* Proofs about Timer: for any timers, timeouts and delays.                *)
(***************************************************************************)
EXTENDS Timer, WellFoundedInduction, TLAPS

Places == {"none", "created", "action", "triggered", "returned"}

TypeOK ==
    /\ tm \in [Timers -> Int \cup {Out}]
    /\ running \in [Timers -> BOOLEAN]
    /\ delay \in [Timers -> Nat]
    /\ exec \in [Timers -> Places]
    /\ should_respawn_ \in [Timers -> BOOLEAN]
    /\ clock \in {"off", "awake", "waiting", "ended"}
    /\ wake \in Int
    /\ signalled \in BOOLEAN /\ shutdown \in BOOLEAN
    /\ life \in [Timers -> {"new", "up", "waiting", "dying", "gone"}]
    /\ quiet \in [Timers -> BOOLEAN]

(***************************************************************************)
(* When a timer cannot be running: before its constructor, once its        *)
(* destructor or stop_and_wait() has stopped it, and after a timeout has   *)
(* triggered.  Only the thread of a timeout comes to the last.             *)
(***************************************************************************)
Halted ==
    \A t \in Timers :
        /\ running[t] => /\ ~quiet[t]
                         /\ life[t] \in {"up", "waiting"}
                         /\ exec[t] # "triggered"
        /\ exec[t] = "triggered" => t \in Timeouts
        /\ life[t] = "new" => t \in Timeouts /\ exec[t] = "none" /\ ~quiet[t]

Inv == TypeOK /\ ClockInTime /\ RunningIsScheduled /\ StoppedForGood /\ Halted

(* Every set of natural numbers that is not empty has a least element, which
   is the time for which the clock sleeps.  *)
LEMMA LeastNatural ==
    ASSUME NEW S, S \subseteq Nat, S # {}
    PROVE  Min(S) \in Nat /\ \A y \in S : Min(S) <= y
<1>1. \E x \in S : \A y \in S : ~ (y < x)
  <2>1. PICK x \in S : \A y \in S : ~ (<<y, x>> \in OpToRel(<, Nat))
    BY NatLessThanWellFounded, WFMin, Zenon
  <2>2. ASSUME NEW y \in S PROVE ~ (y < x)
    <3>1. <<y, x>> \in Nat \X Nat /\ <<y, x>>[1] = y /\ <<y, x>>[2] = x
      BY Zenon
    <3> QED
      BY <2>1, <3>1, Zenon DEF OpToRel
  <2> QED
    BY <2>2, Zenon
<1>2. \E x \in S : \A y \in S : x <= y
  BY <1>1
<1>3. Min(S) \in S /\ \A y \in S : Min(S) <= y
  BY <1>2, Zenon DEF Min
<1> QED
  BY <1>3, Zenon

LEMMA InvInit == Init => Inv
<1> SUFFICES ASSUME Init PROVE Inv
  OBVIOUS
<1> USE TimerAssumption DEF Init
<1>1. TypeOK
  <2>1. tm \in [Timers -> Int \cup {Out}] /\ delay \in [Timers -> Nat] /\ wake \in Int
    OBVIOUS
  <2>2. /\ life \in [Timers -> {"new", "up", "waiting", "dying", "gone"}]
        /\ exec \in [Timers -> Places]
    BY DEF Places
  <2> QED
    BY <2>1, <2>2, Zenon DEF TypeOK
<1>2. ClockInTime
  BY DEF ClockInTime
<1>3. RunningIsScheduled /\ StoppedForGood
  BY DEF RunningIsScheduled, StoppedForGood, in_global_clock
<1>4. Halted
  BY DEF Halted
<1> QED
  BY <1>1, <1>2, <1>3, <1>4 DEF Inv

(***************************************************************************)
(* What each step does to the conjuncts.                                   *)
(***************************************************************************)

(* A timer that is added or moved: the clock is signalled, or another timer
   that it knows of is due no later.  *)
LEMMA ScheduleKeeps ==
    ASSUME TypeOK, ClockInTime, NEW t \in Timers, NEW time \in Int, Schedule(t, time),
           clock' = clock \/ clock' = "awake", wake' = wake
    PROVE  ClockInTime' /\ tm' \in [Timers -> Int \cup {Out}] /\ signalled' \in BOOLEAN
<1> USE TimerAssumption DEF TypeOK, Schedule, in_global_clock
<1>1. tm' \in [Timers -> Int \cup {Out}] /\ signalled' \in BOOLEAN
  OBVIOUS
<1>2. ASSUME clock' = "waiting", ~signalled' PROVE \A u \in Timers : tm'[u] # Out => wake <= tm'[u]
  <2>1. clock = "waiting" /\ ~signalled
    BY <1>2
  <2>2. \A u \in Timers : tm[u] # Out => wake <= tm[u]
    BY <2>1 DEF ClockInTime
  <2>3. PICK v \in Timers \ {t} : tm[v] # Out /\ ~(time < tm[v])
    BY <1>2, <2>1
  <2>4. tm[v] \in Int /\ tm[v] <= time
    BY <2>3
  <2>5. wake <= time
    BY <2>2, <2>3, <2>4
  <2> QED
    BY <2>2, <2>5
<1> QED
  BY <1>1, <1>2 DEF ClockInTime

(* The clock sleeps until the first of the timers that are left is due. *)
LEMMA ClockRunsKeeps ==
    ASSUME TypeOK, ClockRuns
    PROVE  ClockInTime' /\ tm' \in [Timers -> Int \cup {Out}] /\ wake' \in Int
<1> DEFINE due  == {t \in Timers : in_global_clock(t) /\ tm[t] <= 0}
           left == {tm[t] : t \in {u \in Timers \ due : in_global_clock(u)}}
<1> USE TimerAssumption
<1>1. /\ tm' = [t \in Timers |-> IF t \in due THEN Out ELSE tm[t]]
      /\ wake' = IF left = {} THEN IdleDelay ELSE Min(left)
  BY DEF ClockRuns
<1>2. \A t \in Timers : tm'[t] # Out => tm'[t] = tm[t] /\ tm[t] \in left
  BY <1>1 DEF in_global_clock
<1>3. left \subseteq Nat
  BY DEF TypeOK, in_global_clock
<1>4. wake' \in Int /\ \A y \in left : wake' <= y
  <2>1. CASE left = {}
    BY <1>1, <2>1
  <2>2. CASE left # {}
    <3>1. wake' = Min(left)
      BY <1>1, <2>2
    <3> HIDE DEF left
    <3>2. Min(left) \in Nat /\ \A y \in left : Min(left) <= y
      BY <1>3, <2>2, LeastNatural
    <3>3. wake' \in Nat /\ \A y \in left : wake' <= y
      BY <3>1, <3>2, Zenon
    <3> QED
      BY <3>3
  <2> QED
    BY <2>1, <2>2
<1>5. tm' \in [Timers -> Int \cup {Out}]
  BY <1>1 DEF TypeOK
<1> QED
  BY <1>2, <1>4, <1>5 DEF ClockInTime, in_global_clock

LEMMA TypeStep ==
    ASSUME TypeOK, ClockInTime, [Next]_vars
    PROVE  TypeOK'
<1> USE TimerAssumption DEF TypeOK, Places, objects, clockvars
<1>1. ASSUME NEW t \in Timers, start(t) \/ stop(t) \/ clear(t) PROVE TypeOK'
  <2>1. CASE start(t)
    BY <2>1 DEF start, add, Schedule
  <2>2. CASE stop(t)
    BY <2>2 DEF stop, remove
  <2>3. CASE clear(t)
    BY <2>3 DEF clear, remove
  <2> QED
    BY <1>1, <2>1, <2>2, <2>3
<1>2. ASSUME NEW t \in Timers, stop_and_wait(t) \/ destruct(t) \/ wait(t) PROVE TypeOK'
  <2>1. CASE stop_and_wait(t)
    BY <2>1 DEF stop_and_wait, remove
  <2>2. CASE destruct(t)
    BY <2>2 DEF destruct, remove
  <2>3. CASE wait(t)
    BY <2>3 DEF wait
  <2> QED
    BY <1>2, <2>1, <2>2, <2>3
<1>3. ASSUME NEW t \in Timers, Calls(t) \/ trigger_timeout(t) \/ thread_helper(t) PROVE TypeOK'
  BY <1>3 DEF Calls, trigger_timeout, thread_helper, remove
<1>4. ASSUME NEW t \in Timers, thread(t) PROVE TypeOK'
  BY <1>4 DEF thread, add, Schedule
<1>5. ASSUME NEW t \in Timers, NEW ms \in Delays, adjust_delay(t, ms) PROVE TypeOK'
  <2>1. delay' \in [Timers -> Nat]
    BY <1>5 DEF adjust_delay
  <2>2. tm' \in [Timers -> Int \cup {Out}] /\ signalled' \in BOOLEAN
    <3>1. CASE in_global_clock(t)
      <4>1. tm[t] - delay[t] + ms \in Int
        BY <3>1 DEF in_global_clock
      <4> QED
        BY <1>5, <3>1, <4>1, ScheduleKeeps DEF adjust_delay
    <3>2. CASE ~in_global_clock(t)
      BY <1>5, <3>2 DEF adjust_delay
    <3> QED
      BY <3>1, <3>2
  <2> QED
    BY <1>5, <2>1, <2>2 DEF adjust_delay
<1>6. ASSUME NEW t \in Timers, NEW ms \in Delays, timeout(t, ms) PROVE TypeOK'
  BY <1>6 DEF timeout, Schedule
<1>7. CASE ClockRuns
  <2>1. /\ exec' \in [Timers -> Places]
        /\ should_respawn_' \in [Timers -> BOOLEAN]
    BY <1>7 DEF ClockRuns, restart
  <2> QED
    BY <1>7, <2>1, ClockRunsKeeps DEF ClockRuns
<1>8. CASE ClockDestruct \/ ClockEnds
  BY <1>8 DEF ClockDestruct, ClockEnds
<1>9. CASE Tick
  BY <1>9 DEF Tick, in_global_clock
<1>10. CASE UNCHANGED vars
  BY <1>10 DEF vars
<1> QED
  BY <1>1, <1>2, <1>3, <1>4, <1>5, <1>6, <1>7, <1>8, <1>9, <1>10 DEF timeout_destruct, Next, Steps

LEMMA ClockInTimeStep ==
    ASSUME TypeOK, ClockInTime, [Next]_vars
    PROVE  ClockInTime'
<1> USE TimerAssumption DEF objects, clockvars
<1>1. ASSUME NEW t \in Timers, start(t) PROVE ClockInTime'
  <2>1. delay[t] \in Int
    BY DEF TypeOK
  <2> QED
    BY <1>1, <2>1, ScheduleKeeps DEF start, add
<1>2. ASSUME NEW t \in Timers,
             stop(t) \/ clear(t) \/ stop_and_wait(t) \/ destruct(t) \/ trigger_timeout(t)
      PROVE  ClockInTime'
  BY <1>2 DEF TypeOK, ClockInTime, in_global_clock, stop, clear, stop_and_wait, destruct,
              trigger_timeout, remove
<1>3. ASSUME NEW t \in Timers, wait(t) \/ Calls(t) \/ thread_helper(t) PROVE ClockInTime'
  BY <1>3 DEF ClockInTime, in_global_clock, wait, Calls, thread_helper
<1>4. ASSUME NEW t \in Timers, thread(t) PROVE ClockInTime'
  <2>1. delay[t] \in Int
    BY DEF TypeOK
  <2>2. CASE add(t)
    BY <2>1, <2>2, ScheduleKeeps DEF add
  <2>3. CASE UNCHANGED <<tm, clockvars>>
    BY <2>3 DEF ClockInTime, in_global_clock
  <2> QED
    BY <1>4, <2>2, <2>3 DEF thread
<1>5. ASSUME NEW t \in Timers, NEW ms \in Delays, adjust_delay(t, ms) PROVE ClockInTime'
  <2>1. CASE in_global_clock(t)
    <3>1. tm[t] - delay[t] + ms \in Int
      BY <2>1 DEF TypeOK, in_global_clock
    <3> QED
      BY <1>5, <2>1, <3>1, ScheduleKeeps DEF adjust_delay
  <2>2. CASE ~in_global_clock(t)
    BY <1>5, <2>2 DEF adjust_delay, ClockInTime, in_global_clock
  <2> QED
    BY <2>1, <2>2
<1>6. ASSUME NEW t \in Timers, NEW ms \in Delays, timeout(t, ms) PROVE ClockInTime'
  <2>1. ms \in Int
    OBVIOUS
  <2> QED
    BY <1>6, <2>1, ScheduleKeeps DEF timeout
<1>7. CASE ClockRuns
  BY <1>7, ClockRunsKeeps
<1>8. CASE ClockDestruct \/ ClockEnds
  BY <1>8 DEF ClockDestruct, ClockEnds, ClockInTime, in_global_clock
<1>9. CASE Tick
  BY <1>9 DEF Tick, TypeOK, ClockInTime, in_global_clock
<1>10. CASE UNCHANGED vars
  BY <1>10 DEF vars, ClockInTime, in_global_clock
<1> QED
  BY <1>1, <1>2, <1>3, <1>4, <1>5, <1>6, <1>7, <1>8, <1>9, <1>10 DEF timeout_destruct, Next, Steps

(* The other conjuncts, which need each other: a timer that does not run is not
   with the clock, hence its thread is not started again.  *)
Kept == RunningIsScheduled /\ StoppedForGood /\ Halted

LEMMA KeptStep ==
    ASSUME TypeOK, Kept, [Next]_vars
    PROVE  Kept'
<1> USE TimerAssumption
    DEF Kept, TypeOK, Places, RunningIsScheduled, StoppedForGood, Halted, in_global_clock,
        objects, clockvars
<1>1. ASSUME NEW t \in Timers, start(t) PROVE Kept'
  BY <1>1 DEF start, Usable, add, Schedule
<1>2. ASSUME NEW t \in Timers, stop(t) \/ clear(t) PROVE Kept'
  BY <1>2 DEF stop, clear, Usable, remove
<1>3. ASSUME NEW t \in Timers, stop_and_wait(t) PROVE Kept'
  BY <1>3 DEF stop_and_wait, remove
<1>4. ASSUME NEW t \in Timers, destruct(t) PROVE Kept'
  BY <1>4 DEF destruct, remove
<1>5. ASSUME NEW t \in Timers, wait(t) PROVE Kept'
  BY <1>5 DEF wait
<1>6. ASSUME NEW t \in Timers, Calls(t) PROVE Kept'
  BY <1>6 DEF Calls
<1>7. ASSUME NEW t \in Timers, trigger_timeout(t) PROVE Kept'
  BY <1>7 DEF trigger_timeout, remove
<1>8. ASSUME NEW t \in Timers, thread(t) PROVE Kept'
  BY <1>8 DEF thread, add, Schedule
<1>9. ASSUME NEW t \in Timers, thread_helper(t) PROVE Kept'
  BY <1>9 DEF thread_helper
<1>10. ASSUME NEW t \in Timers, NEW ms \in Delays, adjust_delay(t, ms) PROVE Kept'
  BY <1>10 DEF adjust_delay, Schedule
<1>11. ASSUME NEW t \in Timers, NEW ms \in Delays, timeout(t, ms) PROVE Kept'
  BY <1>11 DEF timeout, Schedule
<1>12. CASE ClockRuns
  <2>1. RunningIsScheduled'
    BY <1>12 DEF ClockRuns, restart
  <2>2. StoppedForGood'
    BY <1>12 DEF ClockRuns, restart
  <2>3. Halted'
    BY <1>12 DEF ClockRuns, restart
  <2> QED
    BY <2>1, <2>2, <2>3
<1>13. CASE ClockDestruct \/ ClockEnds
  BY <1>13 DEF ClockDestruct, ClockEnds
<1>14. CASE Tick
  BY <1>14 DEF Tick
<1>15. CASE UNCHANGED vars
  BY <1>15 DEF vars
<1> QED
  BY <1>1, <1>2, <1>3, <1>4, <1>5, <1>6, <1>7, <1>8, <1>9, <1>10, <1>11, <1>12, <1>13,
     <1>14, <1>15 DEF timeout_destruct, Next, Steps

LEMMA InvHolds == Spec => []Inv
<1>1. ASSUME Inv, [Next]_vars PROVE Inv'
  BY <1>1, TypeStep, ClockInTimeStep, KeptStep DEF Inv, Kept
<1> QED
  BY InvInit, <1>1, PTL DEF Spec

-----------------------------------------------------------------------------
(* The clock never sleeps past the time of a timer, whatever timers there are
   and whatever their delays.  *)
THEOREM TimerClockInTime == Spec => []ClockInTime
<1>1. Inv => ClockInTime
  BY DEF Inv
<1> QED
  BY InvHolds, <1>1, PTL

(* A timer is with the clock only while it runs, and while it runs it is with
   the clock or its thread will hand it back.  *)
THEOREM TimerRunningIsScheduled == Spec => []RunningIsScheduled
<1>1. Inv => RunningIsScheduled
  BY DEF Inv
<1> QED
  BY InvHolds, <1>1, PTL

(* After stop_and_wait() and after the destructor the action function is not
   called any more.  *)
THEOREM TimerStoppedForGood == Spec => []StoppedForGood
<1>1. Inv => StoppedForGood
  BY DEF Inv
<1> QED
  BY InvHolds, <1>1, PTL
=============================================================================
