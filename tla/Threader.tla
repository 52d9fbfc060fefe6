------------------------------ MODULE Threader ------------------------------
(***************************************************************************)
(* The global pool behind dlib::create_new_thread: class threader in       *)
(* dlib/threads/threads_kernel_shared.cpp.  A function to run is handed    *)
(* over through a single slot, function_pointer, to a thread of the pool   *)
(* or to a new one.  A thread that has run its function calls the end      *)
(* handlers registered for it and waits in the pool for the next one, for  *)
(* DLIB_THREAD_POOL_TIMEOUT at most.                                       *)
(*                                                                         *)
(* One action is a critical section of data_mutex, or of reg.m.            *)
(***************************************************************************)
EXTENDS Integers, FiniteSets

CONSTANTS
    User,       \* threads that dlib did not create
    Pool,       \* identities of the threads that the threader creates
    Job,        \* functions to run; each is passed to create_new_thread once
    Handler,    \* end handlers
    None

Thread == User \cup Pool

ASSUME ThreaderAssumption ==
    /\ IsFiniteSet(Pool)
    /\ User \cap Pool = {}
    /\ None \notin Job \cup Handler

VARIABLES
    total_count, pool_count, function_pointer, destruct, thread_ids,
    reg,                \* the end handlers registered for each thread
    life,               \* "alive", "ending", "destroyed"; "kept" for ever
    pc, wait,           \* wait: "no", "parked", "woken" or "timedout"
    arg,                \* the argument of a create_new_thread that waits
    job,                \* the function a thread of the pool runs
    calling,            \* the end handler it is going to call
    status              \* what has become of each job

counts == <<total_count, pool_count>>
vars   == <<counts, function_pointer, destruct, thread_ids, reg, life, pc,
            wait, arg, job, calling, status>>

Init ==
    /\ total_count = 0
    /\ pool_count = 0
    /\ function_pointer = None
    /\ destruct = FALSE
    /\ thread_ids = {}
    /\ reg = [p \in Pool |-> {}]
    /\ life = "alive"
    /\ pc = [t \in Thread |-> IF t \in User THEN "user" ELSE "none"]
    /\ wait = [t \in Thread |-> "no"]
    /\ arg = [t \in Thread |-> None]
    /\ job = [p \in Pool |-> None]
    /\ calling = [p \in Pool |-> None]
    /\ status = [j \in Job |-> "new"]

-----------------------------------------------------------------------------
(* The signalers, as the waits on each. *)
DataReady  == {"ready"}
DataEmpty  == {"empty"}
Destructed == {"destruct"}

Parked(sig) == {t \in Thread : pc[t] \in sig /\ wait[t] = "parked"}

(* Mutant: the signal is lost. *)
SignalledNever(w, sig) == {w}

(* The wait sets that signal() may leave: it wakes one waiting thread. *)
Signalled(w, sig) ==
    IF Parked(sig) = {} THEN {w}
    ELSE {[w EXCEPT ![t] = "woken"] : t \in Parked(sig)}

Broadcast(sig) ==
    [t \in Thread |-> IF t \in Parked(sig) THEN "woken" ELSE wait[t]]

NotWaiting(t) == [wait EXCEPT ![t] = "no"]

Wakes(t, at) == pc[t] = at /\ wait[t] \in {"woken", "timedout"}

(* Code outside of the threader: of a user, or of a function that runs. *)
Home(t)   == IF t \in User THEN "user" ELSE "run"
InCode(t) == pc[t] = Home(t) /\ life = "alive"

-----------------------------------------------------------------------------
(* create_new_thread: the slot is taken. *)
WaitsForSlot(t, j) ==
    /\ function_pointer # None
    /\ pc' = [pc EXCEPT ![t] = "empty"]
    /\ wait' = [wait EXCEPT ![t] = "parked"]
    /\ arg' = [arg EXCEPT ![t] = j]
    /\ UNCHANGED <<total_count, function_pointer, status>>

(* A thread must be created ... *)
Spawns(t, j) ==
    /\ function_pointer = None /\ pool_count = 0
    /\ function_pointer' = j
    /\ total_count' = total_count + 1
    /\ status' = [status EXCEPT ![j] = "accepted"]
    /\ arg' = [arg EXCEPT ![t] = None]
    /\ wait' = NotWaiting(t)
    /\ \E p \in Pool : /\ pc[p] = "none"
                       /\ pc' = [pc EXCEPT ![t] = Home(t), ![p] = "start"]

(* Mutant: the slot is free again, but nobody is told. *)
SpawnFailsQuietly(t, j) ==
    /\ function_pointer = None /\ pool_count = 0
    /\ wait' = NotWaiting(t)
    /\ arg' = [arg EXCEPT ![t] = None]
    /\ pc' = [pc EXCEPT ![t] = Home(t)]
    /\ UNCHANGED <<total_count, function_pointer, status>>

(* ... which may fail: the call returns false. *)
SpawnFails(t, j) ==
    /\ function_pointer = None /\ pool_count = 0
    /\ wait' \in Signalled(NotWaiting(t), DataEmpty)
    /\ arg' = [arg EXCEPT ![t] = None]
    /\ pc' = [pc EXCEPT ![t] = Home(t)]
    /\ UNCHANGED <<total_count, function_pointer, status>>

(* A thread of the pool will do. *)
WakesOne(t, j) ==
    /\ function_pointer = None /\ pool_count > 0
    /\ function_pointer' = j
    /\ status' = [status EXCEPT ![j] = "accepted"]
    /\ arg' = [arg EXCEPT ![t] = None]
    /\ wait' \in Signalled(NotWaiting(t), DataReady)
    /\ pc' = [pc EXCEPT ![t] = Home(t)]
    /\ UNCHANGED total_count

Create(t, j) ==
    /\ WaitsForSlot(t, j) \/ Spawns(t, j) \/ SpawnFails(t, j) \/ WakesOne(t, j)
    /\ UNCHANGED <<pool_count, destruct, thread_ids, reg, life, job, calling>>

create_new_thread(t) ==
    /\ InCode(t)
    /\ \E j \in Job : /\ status[j] = "new" /\ \A s \in Thread : arg[s] # j
                      /\ Create(t, j)

CreateResumes(t) == Wakes(t, "empty") /\ Create(t, arg[t])

-----------------------------------------------------------------------------
(* thread_starter.  pool is pool_count with p in the pool. *)

(* p takes the function out of the slot and calls it. *)
Launches(p, pool) ==
    /\ pool_count' = pool - 1
    /\ job' = [job EXCEPT ![p] = function_pointer]
    /\ function_pointer' = None
    /\ status' = [status EXCEPT ![function_pointer] = "running"]
    /\ wait' \in Signalled(NotWaiting(p), DataEmpty)
    /\ pc' = [pc EXCEPT ![p] = "run"]
    /\ UNCHANGED total_count

WaitsInPool(p, pool) ==
    /\ pool_count' = pool
    /\ pc' = [pc EXCEPT ![p] = "ready"]
    /\ wait' = [wait EXCEPT ![p] = "parked"]
    /\ UNCHANGED <<total_count, function_pointer, job, status>>

(* Mutant: p still counts as in the pool. *)
QuitsCounted(p, pool) ==
    /\ pool_count' = pool
    /\ total_count' = total_count - 1
    /\ wait' \in Signalled(NotWaiting(p), Destructed)
    /\ pc' = [pc EXCEPT ![p] = "none"]
    /\ UNCHANGED <<function_pointer, job, status>>

(* p leaves the loop and ends. *)
Quits(p, pool) ==
    /\ pool_count' = pool - 1
    /\ total_count' = total_count - 1
    /\ wait' \in Signalled(NotWaiting(p), Destructed)
    /\ pc' = [pc EXCEPT ![p] = "none"]
    /\ UNCHANGED <<function_pointer, job, status>>

(* The outer loop, from its head. *)
Loops(p, pool) ==
    \/ destruct /\ Quits(p, pool)
    \/ ~ destruct /\ function_pointer # None /\ Launches(p, pool)
    \/ ~ destruct /\ function_pointer = None /\ WaitsInPool(p, pool)

ThreadIds(p) ==
    thread_ids' = IF pc'[p] = "none" THEN thread_ids \ {p} ELSE thread_ids \cup {p}

thread_starter(p) ==
    /\ pc[p] = "start"
    /\ Loops(p, pool_count + 1)
    /\ ThreadIds(p)
    /\ UNCHANGED <<destruct, reg, life, arg, calling>>

(* Mutant: a thread whose wait has timed out ends. *)
NothingToDoAfterTimeout(p) == wait[p] = "timedout"

TimedOutIdle(p) == wait[p] = "timedout" /\ function_pointer = None

PoolResumes(p) ==
    /\ Wakes(p, "ready")
    /\ \/ TimedOutIdle(p) /\ Quits(p, pool_count)
       \/ ~ TimedOutIdle(p) /\ Loops(p, pool_count)
    /\ ThreadIds(p)
    /\ UNCHANGED <<destruct, reg, life, arg, calling>>

(* The function returns. *)
FunctEnds(p) ==
    /\ pc[p] = "run"
    /\ pc' = [pc EXCEPT ![p] = "end"]
    /\ status' = [status EXCEPT ![job[p]] = "done"]
    /\ job' = [job EXCEPT ![p] = None]
    /\ UNCHANGED <<counts, function_pointer, destruct, thread_ids, reg, life,
                   wait, arg, calling>>

(* call_end_handlers: a handler is taken off the registry and, once the    *)
(* registry's mutex has been released, called.                             *)
call_end_handlers(p) ==
    /\ pc[p] = "end" /\ reg[p] # {}
    /\ \E h \in reg[p] : /\ reg' = [reg EXCEPT ![p] = @ \ {h}]
                         /\ calling' = [calling EXCEPT ![p] = h]
    /\ pc' = [pc EXCEPT ![p] = "handler"]
    /\ UNCHANGED <<counts, function_pointer, destruct, thread_ids, life, wait,
                   arg, job, status>>

HandlerCalled(p) ==
    /\ pc[p] = "handler"
    /\ calling' = [calling EXCEPT ![p] = None]
    /\ pc' = [pc EXCEPT ![p] = "end"]
    /\ UNCHANGED <<counts, function_pointer, destruct, thread_ids, reg, life,
                   wait, arg, job, status>>

(* Mutant: a thread that has run a function is free at once. *)
ReturnsEarly(p) ==
    /\ pc[p] = "end"
    /\ \/ function_pointer # None /\ Launches(p, pool_count + 1)
       \/ function_pointer = None /\ Loops(p, pool_count + 1)
    /\ ThreadIds(p)
    /\ UNCHANGED <<destruct, reg, life, arg, calling>>

(* Back in the pool, and in the inner loop: what is in the slot comes      *)
(* first, then destruct is looked at.                                      *)
ReturnsToPool(p) ==
    /\ pc[p] = "end" /\ reg[p] = {}
    /\ \/ function_pointer # None /\ Launches(p, pool_count + 1)
       \/ function_pointer = None /\ Loops(p, pool_count + 1)
    /\ ThreadIds(p)
    /\ UNCHANGED <<destruct, reg, life, arg, calling>>

-----------------------------------------------------------------------------
(* The registry of end handlers. *)
register_thread_end_handler(p, h) ==
    /\ pc[p] = "run"
    /\ reg' = [reg EXCEPT ![p] = @ \cup {h}]
    /\ UNCHANGED <<counts, function_pointer, destruct, thread_ids, life, pc,
                   wait, arg, job, calling, status>>

unregister_thread_end_handler(t, h) ==
    /\ InCode(t)
    /\ reg' = [p \in Pool |-> reg[p] \ {h}]
    /\ UNCHANGED <<counts, function_pointer, destruct, thread_ids, life, pc,
                   wait, arg, job, calling, status>>

-----------------------------------------------------------------------------
(* destruct_if_ready, when the program ends and no user thread is in the   *)
(* threader any more.                                                      *)
destruct_if_ready(u) ==
    /\ InCode(u) /\ \A v \in User : pc[v] = "user"
    /\ \/ /\ total_count = pool_count
          /\ destruct' = TRUE
          /\ wait' = Broadcast(DataReady)
          /\ pc' = [pc EXCEPT ![u] = "delete"]
          /\ life' = "ending"
       \/ /\ total_count # pool_count
          /\ life' = "kept"
          /\ UNCHANGED <<destruct, wait, pc>>
    /\ UNCHANGED <<counts, function_pointer, thread_ids, reg, arg, job,
                   calling, status>>

(* ~threader waits for the threads to end.  w is what wait has become. *)
WaitsForThreads(u, w) ==
    /\ \/ /\ total_count > 0
          /\ pc' = [pc EXCEPT ![u] = "destruct"]
          /\ wait' = [w EXCEPT ![u] = "parked"]
          /\ UNCHANGED life
       \/ /\ total_count = 0
          /\ pc' = [pc EXCEPT ![u] = "user"]
          /\ wait' = [w EXCEPT ![u] = "no"]
          /\ life' = "destroyed"
    /\ destruct' = TRUE
    /\ UNCHANGED <<counts, function_pointer, thread_ids, reg, arg, job,
                   calling, status>>

Destructs(u) ==
    \/ pc[u] = "delete" /\ WaitsForThreads(u, Broadcast(DataReady))
    \/ Wakes(u, "destruct") /\ WaitsForThreads(u, wait)

-----------------------------------------------------------------------------
(* wait_or_timeout() runs out of time, and waits return unsignalled. *)
TimeOut(p) ==
    /\ pc[p] = "ready" /\ wait[p] = "parked"
    /\ wait' = [wait EXCEPT ![p] = "timedout"]
    /\ UNCHANGED <<counts, function_pointer, destruct, thread_ids, reg, life,
                   pc, arg, job, calling, status>>

SpuriousWakeUp(t) ==
    /\ wait[t] = "parked"
    /\ wait' = [wait EXCEPT ![t] = "woken"]
    /\ UNCHANGED <<counts, function_pointer, destruct, thread_ids, reg, life,
                   pc, arg, job, calling, status>>

ThreadRuns(p) ==
    \/ thread_starter(p) \/ PoolResumes(p)
    \/ call_end_handlers(p) \/ HandlerCalled(p) \/ ReturnsToPool(p)

Next ==
    \/ \E t \in Thread :
          \/ create_new_thread(t)
          \/ CreateResumes(t)
          \/ SpuriousWakeUp(t)
          \/ \E h \in Handler : unregister_thread_end_handler(t, h)
    \/ \E p \in Pool :
          \/ ThreadRuns(p)
          \/ FunctEnds(p)
          \/ TimeOut(p)
          \/ \E h \in Handler : register_thread_end_handler(p, h)
    \/ \E u \in User : destruct_if_ready(u) \/ Destructs(u)

Spec == Init /\ [][Next]_vars

(* Threads run and get the mutexes they ask for.  Nothing is assumed of    *)
(* the functions: they may run for ever.                                   *)
Fairness ==
    /\ \A t \in Thread : WF_vars(CreateResumes(t))
    /\ \A p \in Pool : WF_vars(ThreadRuns(p))
    /\ \A u \in User : WF_vars(Destructs(u))

FairSpec == Spec /\ Fairness

-----------------------------------------------------------------------------
(* Properties. *)

(* Every variable keeps its type. *)
TypeOK ==
    /\ total_count \in Nat
    /\ pool_count \in Nat
    /\ function_pointer \in Job \cup {None}
    /\ destruct \in BOOLEAN
    /\ thread_ids \subseteq Pool
    /\ reg \in [Pool -> SUBSET Handler]
    /\ life \in {"alive", "ending", "destroyed", "kept"}
    /\ pc \in [Thread -> {"user", "none", "start", "run", "end", "handler",
                          "delete"} \cup DataReady \cup DataEmpty \cup Destructed]
    /\ wait \in [Thread -> {"no", "parked", "woken", "timedout"}]
    /\ arg \in [Thread -> Job \cup {None}]
    /\ job \in [Pool -> Job \cup {None}]
    /\ calling \in [Pool -> Handler \cup {None}]
    /\ status \in [Job -> {"new", "accepted", "running", "done"}]

(* "pool_count == the number of suspended threads in the thread pool",     *)
(* "total_count == the number of threads that are executing anywhere",     *)
(* "thread_ids == a set that contains the thread id for each thread        *)
(* spawned by this object": destruct_if_ready and ~threader rely on them.  *)
CountsExact ==
    /\ pool_count = Cardinality({p \in Pool : pc[p] = "ready"})
    /\ total_count = Cardinality({p \in Pool : pc[p] # "none"})
    /\ thread_ids = {p \in Pool : pc[p] \notin {"none", "start"}}

(* A function in the slot has a thread that is on its way to take it: one  *)
(* that was created, woken, or that timed out and will look again.         *)
OnTheirWay == {p \in Pool : pc[p] = "start" \/ Wakes(p, "ready")}

NoJobOverlooked ==
    function_pointer # None /\ ~ destruct => OnTheirWay # {}

(* The slot is empty and yet a create_new_thread waits for it: then        *)
(* another one has been told.  Each use of the slot wakes one of them.     *)
NoCreatorOverlooked ==
    function_pointer = None /\ Parked(DataEmpty) # {} =>
        \E t \in Thread : Wakes(t, "empty")

(* A thread is used for another function, or ends, only when all its end   *)
(* handlers have been called.                                              *)
HandlersBeforeReuse ==
    \A p \in Pool : pc[p] \in {"none", "ready"} => reg[p] = {} /\ calling[p] = None

(* A function that create_new_thread has accepted is called, unless the    *)
(* threader is being destroyed, even when every other function runs on;    *)
(* create_new_thread returns, and so does the destructor.                  *)
Progress ==
    /\ \A j \in Job : status[j] = "accepted" ~> (status[j] # "accepted" \/ destruct)
    /\ \A t \in Thread : pc[t] = "empty" ~> pc[t] # "empty"
    /\ life = "ending" ~> life = "destroyed"
=============================================================================
