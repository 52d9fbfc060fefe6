--------------------------- MODULE ThreadedObject ---------------------------
(***************************************************************************)
(* class threaded_object of dlib/threads/threaded_object_extension.cpp: an *)
(* object that runs its virtual function thread() in a thread of its own,  *)
(* which clients start, restart, pause, stop and wait for.                 *)
(*                                                                         *)
(* One action is a critical section of m_.  Any function of the object may *)
(* be called at any time, except by the thread that executes thread().     *)
(* should_respawn_ is not initialized by the constructor.                  *)
(***************************************************************************)
CONSTANTS
    Client,     \* threads that call the object
    Helper      \* threads that create_new_thread may run thread_helper in

ASSUME ThreadedObjectAssumption == Client \cap Helper = {}

VARIABLES
    is_alive_, is_running_, should_stop_, should_respawn_,
    pc,         \* where each thread is
    parked,     \* the threads that wait on the signaler s
    owed,       \* restart() was called, thread() has not begun since
    asked       \* a respawn was asked for since thread() began

flags == <<is_alive_, is_running_, should_stop_, should_respawn_>>
vars  == <<flags, pc, parked, owed, asked>>

Init ==
    /\ is_alive_ = FALSE
    /\ is_running_ = FALSE
    /\ should_stop_ = FALSE
    /\ should_respawn_ \in BOOLEAN
    /\ pc = [t \in Client \cup Helper |-> IF t \in Client THEN "idle" ELSE "none"]
    /\ parked = {}
    /\ owed = FALSE
    /\ asked = FALSE

Idle(c) == c \in Client /\ pc[c] = "idle"

Broadcast == parked' = {}

-----------------------------------------------------------------------------
(* What start and restart do last. *)
Running ==
    /\ is_alive_' = TRUE
    /\ is_running_' = TRUE
    /\ should_stop_' = FALSE
    /\ Broadcast

Creates ==
    \E h \in Helper : pc[h] = "none" /\ pc' = [pc EXCEPT ![h] = "created"]

(* create_new_thread returned false: thread_error is thrown. *)
CreationFails ==
    /\ ~is_alive_
    /\ is_running_' = FALSE
    /\ UNCHANGED <<is_alive_, should_stop_, should_respawn_, pc, parked, owed, asked>>

start ==
    \/ CreationFails
    \/ /\ IF is_alive_ THEN UNCHANGED pc ELSE Creates
       /\ Running
       /\ UNCHANGED <<should_respawn_, owed, asked>>

(* Mutant: restart() of a live thread is start(). *)
restartOfNone ==
    \/ CreationFails
    \/ /\ IF is_alive_ THEN UNCHANGED pc ELSE Creates
       /\ Running
       /\ owed' = TRUE
       /\ UNCHANGED <<should_respawn_, asked>>

(* Mutant: the life of the thread is not looked at. *)
restartAnyway ==
    /\ Creates
    /\ should_respawn_' = is_alive_
    /\ Running
    /\ owed' = TRUE
    /\ asked' = (asked \/ is_alive_)

restart ==
    \/ CreationFails
    \/ /\ IF is_alive_ THEN UNCHANGED pc ELSE Creates
       /\ should_respawn_' = is_alive_
       /\ Running
       /\ owed' = TRUE
       /\ asked' = (asked \/ is_alive_)

set_respawn ==
    /\ should_respawn_' = TRUE
    /\ asked' = TRUE
    /\ UNCHANGED <<is_alive_, is_running_, should_stop_, pc, parked, owed>>

pause ==
    /\ is_running_' = FALSE
    /\ UNCHANGED <<is_alive_, should_stop_, should_respawn_, pc, parked, owed, asked>>

(* Mutant: a paused thread is not told. *)
stopQuietly ==
    /\ should_stop_' = TRUE
    /\ is_running_' = FALSE
    /\ should_respawn_' = FALSE
    /\ owed' = FALSE
    /\ asked' = FALSE
    /\ UNCHANGED <<is_alive_, pc, parked>>

stop ==
    /\ should_stop_' = TRUE
    /\ is_running_' = FALSE
    /\ should_respawn_' = FALSE
    /\ Broadcast
    /\ owed' = FALSE
    /\ asked' = FALSE
    /\ UNCHANGED <<is_alive_, pc>>

(* wait(), called or woken up. *)
wait(c) ==
    /\ Idle(c) \/ (pc[c] = "wait" /\ c \notin parked)
    /\ pc' = [pc EXCEPT ![c] = IF is_alive_ THEN "wait" ELSE "idle"]
    /\ parked' = IF is_alive_ THEN parked \cup {c} ELSE parked
    /\ UNCHANGED <<flags, owed, asked>>

-----------------------------------------------------------------------------
(* Mutant: a respawn stays asked for. *)
BeginsAsBefore(h) ==
    /\ pc[h] = "created"
    /\ pc' = [pc EXCEPT ![h] = "thread"]
    /\ owed' = FALSE
    /\ asked' = FALSE
    /\ UNCHANGED <<flags, parked>>

(* thread_helper enters thread() ... *)
Begins(h) ==
    /\ pc[h] = "created"
    /\ should_respawn_' = FALSE
    /\ pc' = [pc EXCEPT ![h] = "thread"]
    /\ owed' = FALSE
    /\ asked' = FALSE
    /\ UNCHANGED <<is_alive_, is_running_, should_stop_, parked>>

(* ... which calls should_stop(), and ends if it returns true ... *)
should_stop(h) ==
    /\ pc[h] = "thread" \/ (pc[h] = "paused" /\ h \notin parked)
    /\ LET blocks == ~is_running_ /\ ~should_stop_ IN
       /\ pc' = [pc EXCEPT ![h] = CASE blocks       -> "paused"
                                    [] should_stop_ -> "returned"
                                    [] OTHER        -> "thread"]
       /\ parked' = IF blocks THEN parked \cup {h} ELSE parked
    /\ UNCHANGED <<flags, owed, asked>>

(* ... or ends whenever it likes. *)
ThreadReturns(h) ==
    /\ pc[h] = "thread"
    /\ pc' = [pc EXCEPT ![h] = "returned"]
    /\ UNCHANGED <<flags, parked, owed, asked>>

Respawns(h) ==
    /\ pc[h] = "returned" /\ should_respawn_
    /\ pc' = [pc EXCEPT ![h] = "created"]
    /\ UNCHANGED <<flags, parked, owed, asked>>

(* Mutant: the waiting threads are not told. *)
EndsQuietly(h) ==
    /\ pc[h] = "returned" /\ ~should_respawn_
    /\ is_alive_' = FALSE
    /\ is_running_' = FALSE
    /\ should_stop_' = FALSE
    /\ pc' = [pc EXCEPT ![h] = "none"]
    /\ UNCHANGED <<should_respawn_, parked, owed, asked>>

Ends(h) ==
    /\ pc[h] = "returned" /\ ~should_respawn_
    /\ is_alive_' = FALSE
    /\ is_running_' = FALSE
    /\ should_stop_' = FALSE
    /\ Broadcast
    /\ pc' = [pc EXCEPT ![h] = "none"]
    /\ UNCHANGED <<should_respawn_, owed, asked>>

SpuriousWakeUp ==
    /\ \E t \in parked : parked' = parked \ {t}
    /\ UNCHANGED <<flags, pc, owed, asked>>

ClientCalls ==
    (\E c \in Client : Idle(c)) /\ (start \/ restart \/ set_respawn \/ pause \/ stop)

thread_helper(h) == Begins(h) \/ should_stop(h) \/ ThreadReturns(h) \/ Respawns(h) \/ Ends(h)

Next ==
    \/ ClientCalls
    \/ \E c \in Client : wait(c)
    \/ \E h \in Helper : thread_helper(h)
    \/ SpuriousWakeUp

Spec == Init /\ [][Next]_vars

(***************************************************************************)
(* A woken client runs on.  The thread runs, and thread() calls            *)
(* should_stop() again and again, as the class asks it to: nothing else is *)
(* assumed of thread(), which need not end by itself.                      *)
(***************************************************************************)
FairSpec ==
    /\ Spec
    /\ \A c \in Client : WF_vars(pc[c] = "wait" /\ wait(c))
    /\ \A h \in Helper : WF_vars(Begins(h) \/ should_stop(h) \/ Respawns(h) \/ Ends(h))

-----------------------------------------------------------------------------
(* The variables have their types, and is_running() only if is_alive(). *)
TypeOK ==
    /\ is_alive_ \in BOOLEAN /\ is_running_ \in BOOLEAN
    /\ should_stop_ \in BOOLEAN /\ should_respawn_ \in BOOLEAN
    /\ owed \in BOOLEAN /\ asked \in BOOLEAN
    /\ pc \in [Client \cup Helper -> {"idle", "wait", "none", "created", "thread", "paused", "returned"}]
    /\ \A c \in Client : pc[c] \in {"idle", "wait"}
    /\ is_running_ => is_alive_
    /\ parked \subseteq {t \in Client \cup Helper : pc[t] \in {"wait", "paused"}}

(* thread() "is only executed in one thread at a time", and is_alive_ tells
   whether there is one, however starts, restarts and ends interleave.  *)
OneThreadIfAlive ==
    /\ is_alive_ <=> \E h \in Helper : pc[h] # "none"
    /\ \A g, h \in Helper : pc[g] # "none" /\ pc[h] # "none" => g = h

(* Nobody sleeps on the signaler after what it waits for: a client in wait()
   when the thread has ended, a paused thread when it was started or stopped.  *)
NobodyOverlooked ==
    /\ \A c \in Client \cap parked : is_alive_
    /\ \A h \in Helper \cap parked : ~is_running_ /\ ~should_stop_

(* restart() is never lost: unless stop() is called, the thread does not end
   before thread() has been entered after restart(), even if restart() comes
   after thread() has returned or before it was called.  *)
RestartNotLost == owed => is_alive_

(* "a single call to set_respawn() can cause at most one respawn": the thread
   respawns only if this was asked for since thread() was last entered.  *)
RespawnAtMostOnce == [][\A h \in Helper : Respawns(h) => asked]_vars

(* A thread that was told to stop ends, paused or not, unless a client asks
   for a respawn or starts it again.  *)
StopTakesEffect ==
    is_alive_ /\ should_stop_ /\ ~should_respawn_ ~> ~(is_alive_ /\ should_stop_ /\ ~should_respawn_)
=============================================================================
