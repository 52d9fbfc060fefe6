-------------------------------- MODULE Timer --------------------------------
(***************************************************************************)
(* class timer and timer_global_clock of dlib/timer, and class timeout of  *)
(* dlib/timeout.  One clock thread sleeps until the first timer is due and *)
(* restarts the thread of each timer that is: a threaded_object, of which  *)
(* only whether it is alive and should_respawn_ matter here (the module    *)
(* ThreadedObject has all of it).                                          *)
(*                                                                         *)
(* Everything is guarded by the mutex m of the clock: one action per       *)
(* critical section.  Times are in milliseconds from now, and Tick lets    *)
(* one pass.  No thread and no memory is ever refused.                     *)
(***************************************************************************)
EXTENDS Integers, FiniteSetsExt

CONSTANTS
    Timers,         \* timer objects
    Timeouts,       \* the ones that are the timer of a timeout object
    Delays,         \* what set_delay_time() is called with
    DefaultDelay,   \* the initial delay, 1000
    IdleDelay,      \* how long the clock sleeps without timers, 100000
    MaxLate,        \* bound: how late a timer may be
    Out             \* not a time: a timer that is not in tm

ASSUME TimerAssumption ==
    /\ Timeouts \subseteq Timers
    /\ Delays \subseteq Nat /\ DefaultDelay \in Nat /\ IdleDelay \in Nat /\ MaxLate \in Nat
    /\ Out \notin Int

VARIABLES
    tm,             \* when each timer is due, or Out
    running, delay, \* of the timers
    exec,           \* where the thread of each timer is
    should_respawn_,
    clock,          \* the clock's thread: off, awake, waiting or ended
    wake, signalled,\* when its wait ends, and whether s was signalled
    shutdown,
    life,           \* new, up, waiting (in stop_and_wait), dying or gone
    quiet           \* history: stop_and_wait() returned, no start() since

objects   == <<exec, should_respawn_>>
clockvars == <<clock, wake, signalled, shutdown>>
vars      == <<tm, running, delay, objects, clockvars, life, quiet>>

Init ==
    /\ tm = [t \in Timers |-> Out]
    /\ running = [t \in Timers |-> FALSE]
    /\ delay = [t \in Timers |-> DefaultDelay]
    /\ exec = [t \in Timers |-> "none"]
    /\ should_respawn_ = [t \in Timers |-> FALSE]
    /\ clock = "off" /\ wake = 0 /\ signalled = FALSE /\ shutdown = FALSE
    /\ life = [t \in Timers |-> IF t \in Timeouts THEN "new" ELSE "up"]
    /\ quiet = [t \in Timers |-> FALSE]

in_global_clock(t) == tm[t] # Out

Usable(t) == life[t] \in {"up", "waiting"} /\ t \notin Timeouts

-----------------------------------------------------------------------------
(* What add() and adjust_delay() do with t, due at time: the clock is told if
   t comes before all the others.  *)
Schedule(t, time) ==
    /\ tm' = [tm EXCEPT ![t] = time]
    /\ signalled' = (signalled \/ (/\ clock = "waiting"
                                   /\ \A u \in Timers \ {t} :
                                          in_global_clock(u) => time < tm[u]))

add(t) ==
    /\ Schedule(t, delay[t])
    /\ clock' = IF clock = "off" THEN "awake" ELSE clock
    /\ UNCHANGED <<wake, shutdown>>

remove(t) == tm' = [tm EXCEPT ![t] = Out]

start(t) ==
    /\ Usable(t) /\ ~running[t]
    /\ add(t)
    /\ running' = [running EXCEPT ![t] = TRUE]
    /\ quiet' = [quiet EXCEPT ![t] = FALSE]
    /\ UNCHANGED <<delay, objects, life>>

stop(t) ==
    /\ Usable(t)
    /\ running' = [running EXCEPT ![t] = FALSE]
    /\ remove(t)
    /\ UNCHANGED <<delay, objects, clockvars, life, quiet>>

clear(t) ==
    /\ Usable(t)
    /\ running' = [running EXCEPT ![t] = FALSE]
    /\ remove(t)
    /\ delay' = [delay EXCEPT ![t] = DefaultDelay]
    /\ UNCHANGED <<objects, clockvars, life, quiet>>

(* Mutant: the clock is not told. *)
adjust_delayQuietly(t, new) ==
    /\ Usable(t)
    /\ tm' = IF in_global_clock(t) THEN [tm EXCEPT ![t] = @ - delay[t] + new] ELSE tm
    /\ delay' = [delay EXCEPT ![t] = new]
    /\ UNCHANGED <<running, objects, clockvars, life, quiet>>

(* set_delay_time(): the time that has passed counts. *)
adjust_delay(t, new) ==
    /\ Usable(t)
    /\ \/ in_global_clock(t) /\ Schedule(t, tm[t] - delay[t] + new)
       \/ ~in_global_clock(t) /\ UNCHANGED <<tm, signalled>>
    /\ delay' = [delay EXCEPT ![t] = new]
    /\ UNCHANGED <<running, objects, clock, wake, shutdown, life, quiet>>

stop_and_wait(t) ==
    /\ life[t] = "up" /\ t \notin Timeouts
    /\ running' = [running EXCEPT ![t] = FALSE]
    /\ remove(t)
    /\ life' = [life EXCEPT ![t] = "waiting"]
    /\ UNCHANGED <<delay, objects, clockvars, quiet>>

(* The constructor of a timeout: set_delay_time() and start(). *)
timeout(t, ms) ==
    /\ life[t] = "new"
    /\ life' = [life EXCEPT ![t] = "up"]
    /\ delay' = [delay EXCEPT ![t] = ms]
    /\ Schedule(t, ms)
    /\ clock' = IF clock = "off" THEN "awake" ELSE clock
    /\ running' = [running EXCEPT ![t] = TRUE]
    /\ UNCHANGED <<objects, wake, shutdown, quiet>>

(* Mutant: the timer is left with the clock. *)
destructKeeps(t) ==
    /\ life[t] = "up"
    /\ life' = [life EXCEPT ![t] = "dying"]
    /\ running' = [running EXCEPT ![t] = FALSE]
    /\ delay' = [delay EXCEPT ![t] = DefaultDelay]
    /\ UNCHANGED <<tm, objects, clockvars, quiet>>

(* ~timer(): clear() and wait(). *)
destruct(t) ==
    /\ life[t] = "up"
    /\ life' = [life EXCEPT ![t] = "dying"]
    /\ running' = [running EXCEPT ![t] = FALSE]
    /\ remove(t)
    /\ delay' = [delay EXCEPT ![t] = DefaultDelay]
    /\ UNCHANGED <<objects, clockvars, quiet>>

(* ~timeout(): stop_and_wait(), and then the destructor of its timer t, which
   finds nothing left to stop.  *)
timeout_destruct(t) == t \in Timeouts /\ destruct(t)

(* wait() returns in stop_and_wait() or in the destructor. *)
wait(t) ==
    /\ exec[t] = "none"
    /\ \/ /\ life[t] = "waiting"
          /\ life' = [life EXCEPT ![t] = "up"]
          /\ quiet' = [quiet EXCEPT ![t] = ~running[t]]
       \/ /\ life[t] = "dying"
          /\ life' = [life EXCEPT ![t] = "gone"]
          /\ UNCHANGED quiet
    /\ UNCHANGED <<tm, running, delay, objects, clockvars>>

-----------------------------------------------------------------------------
(* thread_helper() of a timer's thread calls thread(), which calls the action
   function ...  *)
Calls(t) ==
    /\ exec[t] = "created"
    /\ exec' = [exec EXCEPT ![t] = "action"]
    /\ should_respawn_' = [should_respawn_ EXCEPT ![t] = FALSE]
    /\ UNCHANGED <<tm, running, delay, clockvars, life, quiet>>

(* ... which for a timeout calls stop() in the end ... *)
trigger_timeout(t) ==
    /\ t \in Timeouts /\ exec[t] = "action"
    /\ exec' = [exec EXCEPT ![t] = "triggered"]
    /\ running' = [running EXCEPT ![t] = FALSE]
    /\ remove(t)
    /\ UNCHANGED <<delay, should_respawn_, clockvars, life, quiet>>

(* Mutant: a timer that was stopped meanwhile is added again. *)
threadAnyway(t) ==
    /\ exec[t] = IF t \in Timeouts THEN "triggered" ELSE "action"
    /\ exec' = [exec EXCEPT ![t] = "returned"]
    /\ add(t)
    /\ UNCHANGED <<running, delay, should_respawn_, life, quiet>>

(* ... and then adds the timer again, if it runs. *)
thread(t) ==
    /\ exec[t] = IF t \in Timeouts THEN "triggered" ELSE "action"
    /\ exec' = [exec EXCEPT ![t] = "returned"]
    /\ \/ running[t] /\ add(t)
       \/ ~running[t] /\ UNCHANGED <<tm, clockvars>>
    /\ UNCHANGED <<running, delay, should_respawn_, life, quiet>>

thread_helper(t) ==
    /\ exec[t] = "returned"
    /\ exec' = [exec EXCEPT ![t] = IF should_respawn_[t] THEN "created" ELSE "none"]
    /\ UNCHANGED <<tm, running, delay, should_respawn_, clockvars, life, quiet>>

-----------------------------------------------------------------------------
(* Mutant: restart() leaves a thread that is alive alone. *)
restartOfNone(ts) ==
    /\ exec' = [t \in Timers |-> IF t \in ts /\ exec[t] = "none" THEN "created" ELSE exec[t]]
    /\ UNCHANGED should_respawn_

(* threaded_object::restart() of the timers ts. *)
restart(ts) ==
    /\ exec' = [t \in Timers |-> IF t \in ts /\ exec[t] = "none" THEN "created" ELSE exec[t]]
    /\ should_respawn_' = [t \in Timers |-> IF t \in ts THEN exec[t] # "none"
                                            ELSE should_respawn_[t]]

(* The clock restarts the timers that are due and sleeps until the next is. *)
ClockRuns ==
    /\ clock = "awake" \/ (clock = "waiting" /\ (signalled \/ wake <= 0))
    /\ ~shutdown
    /\ LET due  == {t \in Timers : in_global_clock(t) /\ tm[t] <= 0}
           left == {tm[t] : t \in {u \in Timers \ due : in_global_clock(u)}}
       IN  /\ tm' = [t \in Timers |-> IF t \in due THEN Out ELSE tm[t]]
           /\ restart({t \in due : running[t]})
           /\ wake' = IF left = {} THEN IdleDelay ELSE Min(left)
    /\ clock' = "waiting" /\ signalled' = FALSE
    /\ UNCHANGED <<running, delay, shutdown, life, quiet>>

(* ~timer_global_clock(), when the program and every timer has ended. *)
ClockDestruct ==
    /\ ~shutdown /\ \A t \in Timers : life[t] = "gone"
    /\ shutdown' = TRUE
    /\ signalled' = (clock = "waiting")
    /\ UNCHANGED <<tm, running, delay, objects, clock, wake, life, quiet>>

ClockEnds ==
    /\ clock = "awake" \/ (clock = "waiting" /\ (signalled \/ wake <= 0))
    /\ shutdown
    /\ clock' = "ended"
    /\ UNCHANGED <<tm, running, delay, objects, wake, signalled, shutdown, life, quiet>>

Tick ==
    /\ clock = "waiting" => wake > -MaxLate
    /\ \A t \in Timers : in_global_clock(t) => tm[t] > -MaxLate
    /\ tm' = [t \in Timers |-> IF in_global_clock(t) THEN tm[t] - 1 ELSE Out]
    /\ wake' = IF clock = "waiting" THEN wake - 1 ELSE wake
    /\ UNCHANGED <<running, delay, objects, clock, signalled, shutdown, life, quiet>>

Steps(t) == Calls(t) \/ trigger_timeout(t) \/ thread(t) \/ thread_helper(t) \/ wait(t)

Next ==
    \/ \E t \in Timers : start(t) \/ stop(t) \/ clear(t) \/ stop_and_wait(t)
    \/ \E t \in Timers \ Timeouts : destruct(t)
    \/ \E t \in Timers : timeout_destruct(t)
    \/ \E t \in Timers, ms \in Delays : adjust_delay(t, ms) \/ timeout(t, ms)
    \/ \E t \in Timers : Steps(t)
    \/ ClockRuns \/ ClockDestruct \/ ClockEnds \/ Tick

Spec == Init /\ [][Next]_vars

(* Time passes, even if the bound keeps it from passing now; threads run and
   action functions return.  *)
FairSpec ==
    /\ Spec
    /\ SF_vars(Tick) /\ WF_vars(ClockRuns) /\ WF_vars(ClockEnds)
    /\ \A t \in Timers : WF_vars(Steps(t))

-----------------------------------------------------------------------------
(* The clock never sleeps past a timer: whatever was added or moved to an
   earlier time since it looked, it was signalled.  *)
ClockInTime ==
    clock = "waiting" =>
        signalled \/ \A t \in Timers : in_global_clock(t) => wake <= tm[t]

(* "if (!running) then in_global_clock == false", and a timer that is running
   is with the clock, or its thread is about to give it back: so it is, though
   start(), stop(), the clock and the end of the action function interleave.  *)
RunningIsScheduled ==
    \A t \in Timers :
        /\ in_global_clock(t) => running[t] /\ clock # "off"
        /\ running[t] => \/ in_global_clock(t)
                         \/ exec[t] \in {"created", "action"}
                         \/ exec[t] = "returned" /\ should_respawn_[t]

(* After stop_and_wait(), until start(), and after the destructor the action
   function is not executing, nothing will call it, and the clock does not
   know the timer.  *)
StoppedForGood ==
    \A t \in Timers : quiet[t] \/ life[t] = "gone" =>
        exec[t] = "none" /\ ~in_global_clock(t)

(* The action function of a timer that stays running is called again and
   again, however often its delay is changed.  A timeout stays so until its
   function was called: "if (this object isn't destructed in ms_to_timeout
   milliseconds) then callback_function() will be called".  *)
CalledAgain ==
    \A t \in Timers : <>[]running[t] => []<>(exec[t] = "action")
=============================================================================
