----------------------------- MODULE ThreadPool -----------------------------
(***************************************************************************)
(* dlib::thread_pool (dlib/threads/thread_pool_extension.h and .cpp): as   *)
(* many task slots as worker threads.  A thread that adds a task waits for *)
(* an empty slot, except a worker, which then runs the task itself.        *)
(*                                                                         *)
(* m protects everything.  One action is a critical section, together with *)
(* the user code that runs before it outside of m: user code only calls    *)
(* the pool, throws or ends.                                               *)
(***************************************************************************)
EXTENDS Integers, FiniteSets

CONSTANTS
    Worker,     \* the threads of the pool
    Client,     \* other threads that use it
    Job,        \* the tasks; each is added once
    Throwing,   \* the tasks that may end with an exception
    None        \* no task: a client outside of any task, an idle worker

Thread == Worker \cup Client
Size   == Cardinality(Worker)
Slots  == 0 .. Size - 1

ASSUME PoolAssumption ==
    /\ IsFiniteSet(Worker)
    /\ Worker \cap Client = {}
    /\ Throwing \subseteq Job
    /\ None \notin Job

VARIABLES
    (* tasks[i], a task_state_type each *)
    is_being_processed, task_id, thread_id, next_task_id,
    eptr,               \* the task whose exception is kept, or None
    fn,                 \* the callable of the task (bfp, mfp0, mfp1, mfp2)
    worker_thread_ids, we_are_destructing,
    life,               \* "alive", "ending", "destroyed" or "terminated"
    pc,                 \* where a thread is; "user" in the code of a caller
    wait,               \* "no", "parked" in a signaler's wait set, "woken"
    idx,                \* a worker's local: the slot it works for
    arg,                \* argument of a call that waits
    frame,              \* the task whose code a thread runs, or None
    status,             \* what has become of each task
    id,                 \* the id add_task returned for it, 0 before
    parent,             \* the task that added it, or None
    inline              \* whether the thread that added it ran it

slots == <<is_being_processed, task_id, thread_id, next_task_id, eptr, fn>>
jobs  == <<status, id, parent, inline>>
vars  == <<slots, worker_thread_ids, we_are_destructing, life, pc, wait, idx,
           arg, frame, jobs>>

Init ==
    /\ is_being_processed = [i \in Slots |-> FALSE]
    /\ task_id = [i \in Slots |-> 0]
    /\ thread_id = [i \in Slots |-> None]
    /\ next_task_id = [i \in Slots |-> 2]
    /\ eptr = [i \in Slots |-> None]
    /\ fn = [i \in Slots |-> None]
    /\ worker_thread_ids = {}
    /\ we_are_destructing = FALSE
    /\ life = "alive"
    /\ pc = [t \in Thread |-> IF t \in Worker THEN "start" ELSE "user"]
    /\ wait = [t \in Thread |-> "no"]
    /\ idx = [w \in Worker |-> 0]
    /\ arg = [t \in Thread |-> None]
    /\ frame = [t \in Thread |-> None]
    /\ status = [j \in Job |-> "new"]
    /\ id = [j \in Job |-> 0]
    /\ parent = [j \in Job |-> None]
    /\ inline = [j \in Job |-> FALSE]

-----------------------------------------------------------------------------
(* The slots. *)
is_empty(i) == task_id[i] = 0
is_ready(i) == ~ is_being_processed[i] /\ ~ is_empty(i)

Empty   == {i \in Slots : is_empty(i)}
Ready   == {i \in Slots : is_ready(i)}
Trapped == {i \in Slots : eptr[i] # None}

First(S) == CHOOSE i \in S : \A k \in S : i <= k

task_id_to_index(n) == n % Size

is_worker_thread(t) == t \in worker_thread_ids \/ Size = 0

(* Mutant: an id is used again. *)
SameTaskId(i) == 2 * Size + i

make_next_task_id(i) == next_task_id[i] * Size + i

(* The signalers, as the waits on each. *)
TaskReady == {"ready"}
TaskDone  == {"room", "task", "all", "shutdown"}

Parked(sig) == {t \in Thread : pc[t] \in sig /\ wait[t] = "parked"}

Broadcast(sig) ==
    [t \in Thread |-> IF t \in Parked(sig) THEN "woken" ELSE wait[t]]

(* The wait sets that signal() may leave: it wakes one waiting thread. *)
Signalled(w, sig) ==
    IF Parked(sig) = {} THEN {w}
    ELSE {[w EXCEPT ![t] = "woken"] : t \in Parked(sig)}

Parks(t, at, x) ==
    /\ pc' = [pc EXCEPT ![t] = at]
    /\ wait' = [wait EXCEPT ![t] = "parked"]
    /\ arg' = [arg EXCEPT ![t] = x]

(* t is back in the code that called the pool. *)
Returns(t) ==
    /\ pc' = [pc EXCEPT ![t] = "user"]
    /\ arg' = [arg EXCEPT ![t] = None]

NotWaiting(t) == [wait EXCEPT ![t] = "no"]

Wakes(t, at) == pc[t] = at /\ wait[t] = "woken"

(* User code runs: of a task, or of a client while the pool is not being   *)
(* destroyed.                                                              *)
InUser(t) == pc[t] = "user" /\ (frame[t] # None \/ life = "alive")

-----------------------------------------------------------------------------
(* propagate_exception() on all slots in turn: the first that has trapped  *)
(* an exception lets it go.  The caller may handle it, or throw in turn.   *)
Propagates(t) ==
    /\ eptr' = [eptr EXCEPT ![First(Trapped)] = None]
    /\ status' = [status EXCEPT ![eptr[First(Trapped)]] = "rethrown"]
    /\ Returns(t)
    /\ wait' = NotWaiting(t)
    /\ UNCHANGED <<is_being_processed, task_id, thread_id, next_task_id, fn,
                   id, parent>>

(* Mutant: an exception does not keep a task from being added. *)
NothingTrapped == TRUE

(* find_empty_task_slot() throws unless this is so. *)
MayFindSlot == Trapped = {}

(* add_task, add_task_internal: task j is put into the slot i. *)
Hands(t, j, i) ==
    /\ thread_id' = [thread_id EXCEPT ![i] = t]
    /\ task_id' = [task_id EXCEPT ![i] = make_next_task_id(i)]
    /\ next_task_id' = [next_task_id EXCEPT ![i] = @ + 1]
    /\ fn' = [fn EXCEPT ![i] = j]
    /\ status' = [status EXCEPT ![j] = "queued"]
    /\ id' = [id EXCEPT ![j] = make_next_task_id(i)]
    /\ parent' = [parent EXCEPT ![j] = frame[t]]
    /\ wait' \in Signalled(NotWaiting(t), TaskReady)
    /\ Returns(t)
    /\ UNCHANGED <<is_being_processed, eptr>>

(* Every worker is busy: the worker t runs j on the spot. *)
RunsInline(t, j) ==
    /\ frame' = [frame EXCEPT ![t] = j]
    /\ parent' = [parent EXCEPT ![j] = frame[t]]
    /\ inline' = [inline EXCEPT ![j] = TRUE]
    /\ status' = [status EXCEPT ![j] = "running"]
    /\ UNCHANGED <<slots, pc, wait, arg, id>>

add_task(t, j) ==
    /\ InUser(t)
    /\ status[j] = "new" /\ \A s \in Thread : arg[s] # j
    /\ \/ ~ MayFindSlot /\ Propagates(t) /\ UNCHANGED <<frame, inline>>
       \/ /\ MayFindSlot /\ Empty # {}
          /\ Hands(t, j, First(Empty))
          /\ UNCHANGED <<frame, inline>>
       \/ MayFindSlot /\ Empty = {} /\ is_worker_thread(t) /\ RunsInline(t, j)
       \/ /\ MayFindSlot /\ Empty = {} /\ ~ is_worker_thread(t)
          /\ Parks(t, "room", j)
          /\ UNCHANGED <<slots, frame, jobs>>
    /\ UNCHANGED <<worker_thread_ids, we_are_destructing, life, idx>>

(* add_task has waited for a task to be done.  When it throws, the task    *)
(* has not been added.                                                     *)
AddResumes(t) ==
    /\ Wakes(t, "room")
    /\ \/ ~ MayFindSlot /\ Propagates(t)
       \/ MayFindSlot /\ Empty # {} /\ Hands(t, arg[t], First(Empty))
       \/ /\ MayFindSlot /\ Empty = {}
          /\ Parks(t, "room", arg[t])
          /\ UNCHANGED <<slots, status, id, parent>>
    /\ UNCHANGED <<worker_thread_ids, we_are_destructing, life, idx, frame, inline>>

-----------------------------------------------------------------------------
(* The waits for tasks.  busy says whether what t waits for goes on. *)
WaitBody(t, busy, at, x) ==
    /\ \/ busy /\ Parks(t, at, x) /\ UNCHANGED <<slots, status, id, parent>>
       \/ ~ busy /\ Trapped # {} /\ Propagates(t)
       \/ /\ ~ busy /\ Trapped = {}
          /\ Returns(t)
          /\ wait' = NotWaiting(t)
          /\ UNCHANGED <<slots, status, id, parent>>
    /\ UNCHANGED <<worker_thread_ids, we_are_destructing, life, idx, frame, inline>>

TaskGoesOn(n) == Size # 0 /\ task_id[task_id_to_index(n)] = n

(* Code waits for the tasks it has added itself. *)
wait_for_task(t) ==
    /\ InUser(t)
    /\ \E j \in Job : /\ parent[j] = frame[t]
                      /\ id[j] # 0
                      /\ WaitBody(t, TaskGoesOn(id[j]), "task", j)

TaskResumes(t) ==
    /\ Wakes(t, "task")
    /\ WaitBody(t, TaskGoesOn(id[arg[t]]), "task", arg[t])

(* Mutant: only tasks that a worker has taken are waited for. *)
TasksTakenOf(t) ==
    {i \in Slots : is_being_processed[i] /\ thread_id[i] = t}

TasksOf(t) == {i \in Slots : ~ is_empty(i) /\ thread_id[i] = t}

(* Tasks are waited for by thread: a task that calls this waits also for   *)
(* what earlier ones have left behind on its worker.                       *)
wait_for_all_tasks(t) ==
    /\ InUser(t)
    /\ WaitBody(t, TasksOf(t) # {}, "all", None)

AllResumes(t) == Wakes(t, "all") /\ WaitBody(t, TasksOf(t) # {}, "all", None)

-----------------------------------------------------------------------------
(* The worker threads. *)
ThreadStarts(w) ==
    /\ pc[w] = "start"
    /\ worker_thread_ids' = worker_thread_ids \cup {w}
    /\ pc' = [pc EXCEPT ![w] = "loop"]
    /\ UNCHANGED <<slots, we_are_destructing, life, wait, idx, arg, frame, jobs>>

(* Mutant: the slot of a task is free as soon as it is taken. *)
TakesAndFrees(w, i) ==
    /\ task_id' = [task_id EXCEPT ![i] = 0]
    /\ fn' = [fn EXCEPT ![i] = None]
    /\ idx' = [idx EXCEPT ![w] = i]
    /\ frame' = [frame EXCEPT ![w] = fn[i]]
    /\ status' = [status EXCEPT ![fn[i]] = "running"]
    /\ Returns(w)
    /\ wait' = NotWaiting(w)
    /\ UNCHANGED <<is_being_processed, thread_id, next_task_id, eptr>>

Takes(w, i) ==
    /\ is_being_processed' = [is_being_processed EXCEPT ![i] = TRUE]
    /\ idx' = [idx EXCEPT ![w] = i]
    /\ frame' = [frame EXCEPT ![w] = fn[i]]
    /\ status' = [status EXCEPT ![fn[i]] = "running"]
    /\ Returns(w)
    /\ wait' = NotWaiting(w)
    /\ UNCHANGED <<task_id, thread_id, next_task_id, eptr, fn>>

(* From the head of its loop, or awake again, a worker takes a task.       *)
ThreadLoops(w) ==
    /\ pc[w] = "loop" \/ Wakes(w, "ready")
    /\ \/ /\ we_are_destructing
          /\ pc' = [pc EXCEPT ![w] = "exit"]
          /\ wait' = NotWaiting(w)
          /\ UNCHANGED <<slots, idx, arg, frame, status>>
       \/ ~ we_are_destructing /\ Ready # {} /\ Takes(w, First(Ready))
       \/ /\ ~ we_are_destructing /\ Ready = {}
          /\ Parks(w, "ready", None)
          /\ UNCHANGED <<slots, idx, frame, status>>
    /\ UNCHANGED <<worker_thread_ids, we_are_destructing, life, id, parent, inline>>

(* Mutant: nobody is told. *)
DoneQuietly(w, threw) ==
    /\ is_being_processed' = [is_being_processed EXCEPT ![idx[w]] = FALSE]
    /\ task_id' = [task_id EXCEPT ![idx[w]] = 0]
    /\ fn' = [fn EXCEPT ![idx[w]] = None]
    /\ eptr' = [eptr EXCEPT ![idx[w]] = IF threw THEN frame[w] ELSE None]
    /\ wait' = wait

(* "clearing out the state of this task" *)
Done(w, threw) ==
    /\ is_being_processed' = [is_being_processed EXCEPT ![idx[w]] = FALSE]
    /\ task_id' = [task_id EXCEPT ![idx[w]] = 0]
    /\ fn' = [fn EXCEPT ![idx[w]] = None]
    /\ eptr' = [eptr EXCEPT ![idx[w]] = IF threw THEN frame[w] ELSE None]
    /\ wait' = Broadcast(TaskDone)

(* The code of a task ends in its worker. *)
TaskEnds(w) ==
    /\ pc[w] = "user" /\ frame[w] # None /\ ~ inline[frame[w]]
    /\ \E threw \in {FALSE} \cup {frame[w] \in Throwing} :
          /\ Done(w, threw)
          /\ status' = [status EXCEPT ![frame[w]] = IF threw THEN "failed" ELSE "done"]
    /\ frame' = [frame EXCEPT ![w] = None]
    /\ pc' = [pc EXCEPT ![w] = "loop"]
    /\ UNCHANGED <<thread_id, next_task_id, worker_thread_ids,
                   we_are_destructing, life, idx, arg, id, parent, inline>>

(* The code of a task ends in the thread that added it: add_task returns 1 *)
(* or lets the exception through.                                          *)
InlineEnds(t) ==
    /\ pc[t] = "user" /\ frame[t] # None /\ inline[frame[t]]
    /\ \E threw \in {FALSE} \cup {frame[t] \in Throwing} :
          /\ status' = [status EXCEPT ![frame[t]] =
                            IF threw THEN "rethrown" ELSE "done"]
          /\ id' = [id EXCEPT ![frame[t]] = IF threw THEN 0 ELSE 1]
    /\ frame' = [frame EXCEPT ![t] = parent[frame[t]]]
    /\ UNCHANGED <<slots, worker_thread_ids, we_are_destructing, life, pc,
                   wait, idx, arg, parent, inline>>

-----------------------------------------------------------------------------
(* Mutant: tasks that a worker has taken are taken care of already. *)
NoneReady == Ready = {}

Drained == Empty = Slots

(* ~thread_pool and shutdown_pool, called by a client when no other one    *)
(* is inside the pool.                                                     *)
ShutdownBody(c) ==
    /\ \/ /\ ~ Drained
          /\ Parks(c, "shutdown", None)
          /\ UNCHANGED we_are_destructing
       \/ /\ Drained
          /\ we_are_destructing' = TRUE
          /\ wait' = [Broadcast(TaskReady) EXCEPT ![c] = "no"]
          /\ pc' = [pc EXCEPT ![c] = "join"]
          /\ UNCHANGED arg
    /\ life' = "ending"
    /\ UNCHANGED <<slots, worker_thread_ids, idx, frame, jobs>>

shutdown_pool(c) ==
    /\ life = "alive"
    /\ \A d \in Client : pc[d] = "user" /\ frame[d] = None
    /\ ShutdownBody(c)

ShutdownResumes(c) == Wakes(c, "shutdown") /\ ShutdownBody(c)

(* All threads are joined.  An exception that nobody has received leaves   *)
(* the destructor and ends the program.                                    *)
Joins(c) ==
    /\ pc[c] = "join"
    /\ \A w \in Worker : pc[w] = "exit"
    /\ life' = IF Trapped # {} THEN "terminated" ELSE "destroyed"
    /\ pc' = [pc EXCEPT ![c] = "exit"]
    /\ UNCHANGED <<slots, worker_thread_ids, we_are_destructing, wait, idx,
                   arg, frame, jobs>>

-----------------------------------------------------------------------------
SpuriousWakeUp(t) ==
    /\ wait[t] = "parked"
    /\ wait' = [wait EXCEPT ![t] = "woken"]
    /\ UNCHANGED <<slots, worker_thread_ids, we_are_destructing, life, pc, idx,
                   arg, frame, jobs>>

Resumes(t) == AddResumes(t) \/ TaskResumes(t) \/ AllResumes(t)

Next ==
    \/ \E t \in Thread :
          \/ \E j \in Job : add_task(t, j)
          \/ wait_for_task(t)
          \/ wait_for_all_tasks(t)
          \/ InlineEnds(t)
          \/ Resumes(t)
          \/ SpuriousWakeUp(t)
    \/ \E w \in Worker : ThreadStarts(w) \/ ThreadLoops(w) \/ TaskEnds(w)
    \/ \E c \in Client : shutdown_pool(c) \/ ShutdownResumes(c) \/ Joins(c)

Spec == Init /\ [][Next]_vars

(* Threads run, a woken one gets m, and the code of a task ends. *)
Fairness ==
    /\ \A t \in Thread : WF_vars(Resumes(t)) /\ WF_vars(InlineEnds(t))
    /\ \A w \in Worker : /\ WF_vars(ThreadStarts(w) \/ ThreadLoops(w))
                         /\ WF_vars(TaskEnds(w))
    /\ \A c \in Client : WF_vars(ShutdownResumes(c) \/ Joins(c))

FairSpec == Spec /\ Fairness

-----------------------------------------------------------------------------
(* Properties. *)

(* Every variable keeps its type, an empty slot holds nothing, and the id  *)
(* of a task names its slot and is not the id of a task run inline.        *)
TypeOK ==
    /\ is_being_processed \in [Slots -> BOOLEAN]
    /\ task_id \in [Slots -> Nat]
    /\ thread_id \in [Slots -> Thread \cup {None}]
    /\ next_task_id \in [Slots -> Nat]
    /\ eptr \in [Slots -> Job \cup {None}]
    /\ fn \in [Slots -> Job \cup {None}]
    /\ worker_thread_ids \subseteq Worker
    /\ we_are_destructing \in BOOLEAN
    /\ life \in {"alive", "ending", "destroyed", "terminated"}
    /\ pc \in [Thread -> {"start", "loop", "user", "exit", "join"}
                            \cup TaskReady \cup TaskDone]
    /\ wait \in [Thread -> {"no", "parked", "woken"}]
    /\ idx \in [Worker -> Slots]
    /\ arg \in [Thread -> Job \cup {None}]
    /\ frame \in [Thread -> Job \cup {None}]
    /\ status \in [Job -> {"new", "queued", "running", "done",
                           "failed", "rethrown"}]
    /\ id \in [Job -> Nat]
    /\ parent \in [Job -> Job \cup {None}]
    /\ inline \in [Job -> BOOLEAN]
    /\ \A i \in Slots :
          IF is_empty(i) THEN fn[i] = None /\ ~ is_being_processed[i]
          ELSE fn[i] # None /\ task_id[i] > 1 /\ task_id_to_index(task_id[i]) = i

(* wait_for_task compares an id that the caller may have kept for long     *)
(* with the task that is in the slot now: it must recognise its own task   *)
(* and no other, however often the slot was used since.                    *)
IdsIdentify ==
    \A j \in Job : id[j] # 0 =>
        (TaskGoesOn(id[j]) <=> ~ inline[j] /\ status[j] \in {"queued", "running"})

(* A ready task never waits for a worker that waits for it: as there are   *)
(* as many slots as workers, some worker that runs no task is left for     *)
(* each.  This is why tasks may add tasks and wait for them.  And though   *)
(* add_task wakes one worker per task with signal(), others are on their   *)
(* way to every ready task while a worker still sleeps.                    *)
Working(w) == frame[w] # None

Looking == {w \in Worker : pc[w] \in {"start", "loop"} \/ Wakes(w, "ready")}

WorkerForEachTask ==
    /\ Cardinality({w \in Worker : ~ Working(w)}) >= Cardinality(Ready)
    /\ Parked(TaskReady) # {} => Cardinality(Looking) >= Cardinality(Ready)

(* "the exception will be trapped inside the thread pool and rethrown at a *)
(* later time": it stays in its slot until a caller has it, and no later   *)
(* task of the slot overwrites it.                                         *)
NoExceptionLost ==
    \A j \in Job : status[j] = "failed" <=> \E i \in Slots : eptr[i] = j

(* The workers are told to go only when every task has ended, those added  *)
(* by tasks while the destructor was waiting included.                     *)
AllDoneBeforeExit ==
    we_are_destructing =>
        \A j \in Job : status[j] \in {"new", "done", "failed", "rethrown"}

(* The worker t waits for the task that the worker u runs.                 *)
WaitsOn(t, u) ==
    /\ Working(u)
    /\ \/ pc[t] = "all" /\ idx[u] \in TasksOf(t)
       \/ pc[t] = "task" /\ id[arg[t]] = task_id[idx[u]]

(* wait_for_all_tasks() waits for what another task left behind.           *)
WaitsForOthers(t) ==
    pc[t] = "all" /\ \E i \in TasksOf(t) : status[parent[fn[i]]] # "running"

(* Workers wait for each other in a circle, or one for itself: a task that *)
(* calls wait_for_all_tasks() may itself have been left behind by an       *)
(* earlier task of its worker, or it waits for one that waits for it.      *)
CircularWait ==
    \E S \in SUBSET Worker :
        /\ \A t \in S : \E u \in S : WaitsOn(t, u)
        /\ \E t \in S : WaitsForOthers(t)

(* Every task that was added ends, and so does every wait: for room, of    *)
(* tasks for tasks, of the destructor.  There is one exception: a circle   *)
(* of workers that calls of wait_for_all_tasks() in tasks have closed      *)
(* lasts for ever.  wait_for_task() alone never closes one, nor does a     *)
(* wait_for_all_tasks() that finds only tasks added by code still running. *)
WaitsEnd ==
    /\ \A j \in Job : status[j] = "queued" ~>
          (status[j] \in {"done", "failed", "rethrown"} \/ CircularWait)
    /\ \A t \in Thread :
          pc[t] \in {"room", "task", "all", "shutdown", "join"} ~>
              (pc[t] \in {"user", "exit"} \/ CircularWait)
=============================================================================
