--------------------------- MODULE ReadWriteMutex ---------------------------
(***************************************************************************)
(* dlib::read_write_mutex (dlib/threads/read_write_mutex_extension.h).     *)
(* A readonly lock takes one of max_locks locks, a write lock collects all *)
(* of them, piece by piece, while other threads release theirs.            *)
(*                                                                         *)
(* m is held throughout each method except inside s.wait(): one action is  *)
(* the critical section from the call, or from a wake-up, to the next wait *)
(* or to the return.                                                       *)
(***************************************************************************)
EXTENDS Integers, FiniteSets

CONSTANTS
    Thread,
    max_locks,
    MaxHeld,    \* readonly locks that one thread takes at a time
    StrayUnlock \* whether unlock_readonly is called without a readonly lock
                \* even while a writer collects locks

ASSUME RWAssumption ==
    /\ IsFiniteSet(Thread)
    /\ max_locks \in Nat \ {0}
    /\ MaxHeld \in Nat
    /\ StrayUnlock \in BOOLEAN

VARIABLES
    available_locks, write_lock_in_progress, write_lock_active,
    locks_obtained,     \* local of lock(); 0 outside its second loop
    pc,                 \* "idle", or the wait loop: "turn", "collect", "read"
    wait,               \* "no", "parked" in the wait set of s, or "woken"
    owner,              \* ghost: the threads that have the write lock
    held                \* ghost: the readonly locks held, as <<thread, n>>

vars == <<available_locks, write_lock_in_progress, write_lock_active,
          locks_obtained, pc, wait, owner, held>>

Tokens == Thread \X (1 .. MaxHeld)
HeldBy(t) == {h \in held : h[1] = t}

Init ==
    /\ available_locks = max_locks
    /\ write_lock_in_progress = FALSE
    /\ write_lock_active = FALSE
    /\ locks_obtained = [t \in Thread |-> 0]
    /\ pc = [t \in Thread |-> "idle"]
    /\ wait = [t \in Thread |-> "no"]
    /\ owner = {}
    /\ held = {}

-----------------------------------------------------------------------------
Broadcast == [t \in Thread |-> IF wait[t] = "parked" THEN "woken" ELSE wait[t]]

Parks(t, at) ==
    /\ pc' = [pc EXCEPT ![t] = at]
    /\ wait' = [wait EXCEPT ![t] = "parked"]

Returns(t) ==
    /\ pc' = [pc EXCEPT ![t] = "idle"]
    /\ wait' = [wait EXCEPT ![t] = "no"]

Wakes(t, at) == pc[t] = at /\ wait[t] = "woken"

-----------------------------------------------------------------------------
(* Mutant: the next writer is not let in. *)
WriteLockedAlone(t) ==
    /\ write_lock_in_progress' = TRUE
    /\ write_lock_active' = TRUE
    /\ locks_obtained' = [locks_obtained EXCEPT ![t] = 0]
    /\ owner' = owner \cup {t}
    /\ Returns(t)

(* t has the write lock and returns from lock(). *)
WriteLocked(t) ==
    /\ write_lock_in_progress' = FALSE
    /\ write_lock_active' = TRUE
    /\ locks_obtained' = [locks_obtained EXCEPT ![t] = 0]
    /\ owner' = owner \cup {t}
    /\ Returns(t)

(* t has got locks so far and waits for more. *)
Collecting(t, got) ==
    /\ write_lock_in_progress' = TRUE
    /\ locks_obtained' = [locks_obtained EXCEPT ![t] = got]
    /\ Parks(t, "collect")
    /\ UNCHANGED <<write_lock_active, owner>>

(* Mutants: the last lock is not waited for; the locks that were collected *)
(* stay available.                                                         *)
CollectTooSoon(t, got) ==
    /\ available_locks' = 0
    /\ IF got < max_locks - 1 THEN Collecting(t, got) ELSE WriteLocked(t)
    /\ UNCHANGED held
CollectKeeps(t, got) ==
    /\ IF got # max_locks THEN Collecting(t, got) ELSE WriteLocked(t)
    /\ UNCHANGED <<held, available_locks>>

(* The loop of lock() that collects locks. *)
Collect(t, got) ==
    /\ available_locks' = 0
    /\ IF got # max_locks THEN Collecting(t, got) ELSE WriteLocked(t)
    /\ UNCHANGED held

(* lock() from its first loop on: another write lock is in progress, or t  *)
(* begins to collect.                                                      *)
Turn(t) ==
    \/ /\ write_lock_in_progress
       /\ Parks(t, "turn")
       /\ UNCHANGED <<available_locks, write_lock_in_progress,
                      write_lock_active, locks_obtained, owner, held>>
    \/ /\ ~ write_lock_in_progress
       /\ Collect(t, available_locks)

lock(t) ==
    /\ pc[t] = "idle"
    /\ t \notin owner
    /\ HeldBy(t) = {}
    /\ Turn(t)

TurnResumes(t) == Wakes(t, "turn") /\ Turn(t)

CollectResumes(t) ==
    /\ Wakes(t, "collect")
    /\ Collect(t, locks_obtained[t] + available_locks)

unlock(t) ==
    /\ pc[t] = "idle"
    /\ t \in owner \/ owner = {}
    /\ \/ /\ write_lock_active
          /\ available_locks' = max_locks
          /\ write_lock_active' = FALSE
          /\ wait' = Broadcast
          /\ owner' = {}
       \/ /\ ~ write_lock_active
          /\ UNCHANGED <<available_locks, write_lock_active, wait, owner>>
    /\ UNCHANGED <<write_lock_in_progress, locks_obtained, pc, held>>

-----------------------------------------------------------------------------
Read(t) ==
    \/ /\ available_locks = 0
       /\ Parks(t, "read")
       /\ UNCHANGED <<available_locks, held>>
    \/ /\ available_locks # 0
       /\ available_locks' = available_locks - 1
       /\ Returns(t)
       /\ held' = held \cup {<<t, CHOOSE n \in 1 .. MaxHeld : <<t, n>> \notin held>>}

lock_readonly(t) ==
    /\ pc[t] = "idle"
    /\ t \notin owner
    /\ \E n \in 1 .. MaxHeld : <<t, n>> \notin held
    /\ Read(t)
    /\ UNCHANGED <<write_lock_in_progress, write_lock_active, locks_obtained, owner>>

ReadResumes(t) ==
    /\ Wakes(t, "read")
    /\ Read(t)
    /\ UNCHANGED <<write_lock_in_progress, write_lock_active, locks_obtained, owner>>

(* Mutant: only the pending writer is told. *)
TellWriter(n) == write_lock_in_progress

(* "only perform broadcast when there is another thread that might be      *)
(* listening"; n is the number of available locks now.                     *)
Listening(n) == n = 1 \/ write_lock_in_progress

GiveBack ==
    \/ /\ available_locks # max_locks
       /\ ~ write_lock_active
       /\ available_locks' = available_locks + 1
       /\ wait' = IF Listening(available_locks + 1) THEN Broadcast ELSE wait
    \/ /\ available_locks = max_locks \/ write_lock_active
       /\ UNCHANGED <<available_locks, wait>>

(* No thread has a readonly lock and yet unlock_readonly is called.  The   *)
(* bound: not any more once a writer has collected too many locks.         *)
Stray ==
    /\ held = {}
    /\ \/ \A t \in Thread : pc[t] # "collect"
       \/ StrayUnlock /\ \A t \in Thread : locks_obtained[t] <= max_locks
    /\ UNCHANGED held

unlock_readonly(t) ==
    /\ pc[t] = "idle"
    /\ \/ \E h \in HeldBy(t) : held' = held \ {h}
       \/ Stray
    /\ GiveBack
    /\ UNCHANGED <<write_lock_in_progress, write_lock_active, locks_obtained,
                   pc, owner>>

(* A wait on s may return although nobody signalled. *)
SpuriousWakeUp(t) ==
    /\ wait[t] = "parked"
    /\ wait' = [wait EXCEPT ![t] = "woken"]
    /\ UNCHANGED <<available_locks, write_lock_in_progress, write_lock_active,
                   locks_obtained, pc, owner, held>>

-----------------------------------------------------------------------------
Locks(t)   == lock(t) \/ lock_readonly(t)
Unlocks(t) == unlock(t) \/ unlock_readonly(t)
Resumes(t) == TurnResumes(t) \/ CollectResumes(t) \/ ReadResumes(t)

Next == \E t \in Thread :
    Locks(t) \/ Unlocks(t) \/ Resumes(t) \/ SpuriousWakeUp(t)

Spec == Init /\ [][Next]_vars

(* A woken thread gets m, and whoever has a lock gives it back. *)
Fairness == \A t \in Thread : WF_vars(Resumes(t)) /\ WF_vars(Unlocks(t))

FairSpec == Spec /\ Fairness

-----------------------------------------------------------------------------
In(at) == {t \in Thread : pc[t] = at}

TypeOK ==
    /\ available_locks \in 0 .. max_locks
    /\ write_lock_in_progress \in BOOLEAN
    /\ write_lock_active \in BOOLEAN
    /\ locks_obtained \in [Thread -> 0 .. max_locks]
    /\ pc \in [Thread -> {"idle", "turn", "collect", "read"}]
    /\ wait \in [Thread -> {"no", "parked", "woken"}]
    /\ owner \subseteq Thread
    /\ held \subseteq Tokens
    /\ \A t \in Thread : pc[t] = "idle" <=> wait[t] = "no"

(* A write lock excludes every other lock, and readonly locks never exceed *)
(* max_locks.                                                              *)
MutualExclusion ==
    /\ \A s, t \in owner : s = t
    /\ owner # {} => held = {}
    /\ Cardinality(held) <= max_locks

(* One thread at a time collects locks, and write_lock_in_progress says    *)
(* whether there is one: two of them would fight over the locks and each   *)
(* keep a part for ever.                                                   *)
OneCollector ==
    /\ \A s, t \in In("collect") : s = t
    /\ write_lock_in_progress <=> In("collect") # {}

(* Every one of the max_locks locks is in exactly one place: available,    *)
(* collected by the thread inside lock(), held by a reader, or part of the *)
(* write lock.  A lock lost or created between two waits of lock() would   *)
(* let a writer in too early, or hang it for ever.                         *)
Accounted(collected) ==
    available_locks + collected + Cardinality(held)
        + (IF write_lock_active THEN max_locks ELSE 0) = max_locks

AllLocksAccounted ==
    /\ \A t \in In("collect") : Accounted(locks_obtained[t])
    /\ In("collect") = {} => Accounted(0)

(* Nobody sleeps on s when no later call would wake him: a reader sleeps   *)
(* only while no lock is available, a collecting writer only while there   *)
(* is nothing to collect, and a writer waiting for his turn only while     *)
(* another writer collects or has the lock.                                *)
NobodyOverlooked ==
    \A t \in Thread : wait[t] = "parked" =>
        /\ pc[t] \in {"read", "collect"} => available_locks = 0
        /\ pc[t] = "turn" => write_lock_in_progress \/ write_lock_active

(* Once no further lock is asked for, everyone who waits gets his lock and *)
(* gives it back.                                                          *)
DrainsWhenQuiet ==
    <>[][\A t \in Thread : ~ Locks(t)]_vars => <>[](\A t \in Thread : pc[t] = "idle")
=============================================================================
