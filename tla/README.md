# dlib: the threading and networking core in TLA+

dlib is a C++ library of some 570,000 lines, most of them numeric code. What
holds the rest together is a layer of concurrency primitives written by hand:
the pipe, the mutexes, the pools and the objects that own threads. They are
small, used by everything else (servers, bridges, timers, `parallel_for`, the
threaded learners), and their errors are orders of events that no unit test
produces at will. On top of it sit three protocols of the library's own: the
server, the timers with their clock, and the message passing of `bsp`. This
project models that layer and those protocols, checks them with TLC and proves
their central invariants with TLAPS.

Paths below are relative to `src/`.

## 1. Inventory

Components, the state each keeps, its operations, and what is hard about it.
The first nine have modules; what is left out is in section 8. `PROJECT.json` has the complete list and the hazards at their lines.

| component | state | operations | what is hard | what makes it correct |
|---|---|---|---|---|
| `pipe` (`dlib/pipe/pipe_kernel_1.h`) | ring `data/first/last/pipe_size`, three flags, three waiter counters, one mutex, three signalers | `enqueue`, `dequeue`, both with time-out, `empty`, `wait_until_empty`, `wait_for_num_blocked_dequeues`, six switches, destructor | `signal` instead of `broadcast`, broadcasts left out on counter values, time-outs racing signals, hand-over with no slot, destruction under blocked calls | FIFO, nothing lost or duplicated, `true` exactly when the call took effect, nobody asleep without reason, destruction safe and finite |
| `read_write_mutex` (`dlib/threads/read_write_mutex_extension.h`) | `available_locks`, two flags, a local count in `lock()` | `lock`, `unlock`, `lock_readonly`, `unlock_readonly` | a writer collects locks over several waits, three kinds of sleepers on one signaler | exclusion, every lock in one place, no lost wake-up |
| `thread_pool` (`dlib/threads/thread_pool_extension.*`) | as many task slots as workers, ids, trapped exceptions, `we_are_destructing` | `add_task`, `wait_for_task`, `wait_for_all_tasks`, the worker loop, shutdown | tasks add tasks and wait for them, inline execution, stale ids, exceptions kept for later | each task once, nested waits end, no exception lost |
| `parallel_for` (`dlib/threads/parallel_for_extension.h`) | loop variable, a helper object on the caller's stack | cuts a range into tasks, waits | rounding, exceptions half way | every index once, blocks outlived by the call |
| `threader` (`dlib/threads/threads_kernel_shared.*`) | one hand-over slot, `pool_count`, `total_count`, thread ids, registry of end handlers | `create_new_thread`, `thread_starter`, (un)registering of end handlers, `destruct_if_ready`, destructor | pool threads time out while somebody counts on them; failing spawns; two mutexes | every accepted function runs once, exact counts, end handlers before reuse |
| `threaded_object` (`dlib/threads/threaded_object_extension.*`) | four flags, one thread | `start`, `restart`, `set_respawn`, `pause`, `stop`, `wait`, `should_stop` | any call while the thread is being created or is about to end | one thread, no restart lost |
| `bsp` (`dlib/bsp/bsp.cpp`) | per node an epoch, a message queue, the peers that ended; in node 0 two counters | `send`, `receive`, the barrier, read threads, closing | node 0 concludes from counters, reported over several connections, that all wait; early ends, exceptions | a barrier means that all wait and nothing is in flight; messages stay in their superstep; the job ends |
| `server` (`dlib/server/server_kernel.cpp`) | `thread_count`, `cons`, `running`, `shutting_down`, the limit, a mutex for each | `start`, `start_async`, `clear`, `set_max_connections`, the listener, `service_connection` | `clear` at any step of the listener; the count is changed after the thread was created | `cons` holds open connections only, exact count, the limit, `clear` returns and leaves nothing behind |
| `timer`, `timeout` (`dlib/timer`, `dlib/timeout`) | clock thread, map of due times, flags of each timer | `start`, `stop`, `stop_and_wait`, `clear`, `set_delay_time`, the action thread, destructors | `stop` and `start` between the action and re-arming; the clock asleep while due times move | the clock wakes in time, a running timer is armed, a stopped one silent, calls go on |
| `mutex`, `signaler` (`dlib/threads/threads_kernel_2.h`) | the operating system's | `lock`, `wait`, `wait_or_timeout`, `signal`, `broadcast` | spurious wake-ups, a time-out beside a signal | part of every module |
| `multithreaded_object` | registered functions, dead and running, one flag pair | `register_thread`, `start`, `stop`, `clear`, ... | one of several creations fails | not modelled |
| `rmutex`, `rsignaler` | owner, count | `lock`, `unlock`, `wait` | stale owner, giving up all levels | not modelled |
| `bridge` | connection, two activity flags, two pipes | three threads, destructor | mutex held across blocking calls | not modelled |

How they interact: every component uses `mutex` and `signaler`; `thread_pool`,
`threaded_object`, `multithreaded_object` and `server` get their threads from
the `threader`; `parallel_for` calls `thread_pool`; `timer` is a
`threaded_object` driven by a clock thread that calls `restart()`; `bridge` is a
`multithreaded_object` between two pipes; `thread_specific_data` hangs on the
end handlers of the `threader`. No component calls back into another with its
own mutex held, except `timer` (clock mutex, then `m_`) and `bridge` (its `m`,
then the mutex of a pipe).

## 2. How the code is modelled

Almost all of these classes have the same shape: one mutex, held from the first
statement of a method to its return, except inside `signaler::wait()`. Hence

* **one action is one critical section**: from the call, or from a wake-up, to
  the next wait or to the return, every assignment and notification included.
  Where the code releases a mutex in between (the end handlers of the
  `threader`, `thread()` of a `threaded_object` and of a `timer`) there are two
  actions. `server` has a mutex per variable: an action is there the part of a
  method between two changes of what other threads see, and `running_mutex`,
  which `start_async` holds while it waits for a thread, is a variable;
* `pc` tells the wait loop in which a thread is, and a second variable whether it
  still sits in the wait set of the signaler ("parked"), was woken, or has run
  out of time. A woken or timed-out thread has yet to get the mutex: everybody
  else may run first, which is where the races are;
* `signal` wakes any one parked thread, `broadcast` all; every wait may also end
  for no reason (`SpuriousWakeUp`; not in `Server` and `Timer`, whose loops only
  test again), and a timed wait at any moment (`TimeOut`);
* the nodes of `bsp` share nothing: they write to FIFO connections, one per pair
  and direction, that deliver after any delay, and a read thread per connection
  moves elements to the queue of the node. A node that throws cuts its
  connections, and its peers get a read error;
* time is abstract, except in `Timer`, where due times count down in
  milliseconds and `Tick` lets one pass;
* payloads, ids of the operating system, logging and memory are left out.

| module | code | notes |
|---|---|---|
| `Pipe` | `pipe_kernel_1.h`, all of it | `MayCall` says which thread calls which methods, `MaxSize = 0` is the pipe without slots |
| `BlockingFifo` | what `pipe_kernel_abstract.h` promises | the abstract queue: no ring, counters or signalers |
| `PipeFifo` | | the refinement mapping from `Pipe` to `BlockingFifo` |
| `MCPipe` | | the instances |
| `ReadWriteMutex` | `read_write_mutex_extension.h` | `owner` and `held` record who holds what |
| `ThreadPool` | `thread_pool_extension.cpp/.h` | user code of a task may add tasks, wait, throw, end |
| `ParallelFor`, `MCParallelFor` | `parallel_for_extension.h` | composed with `ThreadPool`: the caller is one of its clients, the blocks are its tasks. The pool has threads: without any, the function is called directly |
| `Threader` | `threads_kernel_shared.cpp/.h` | |
| `ThreadedObject` | `threaded_object_extension.cpp` | `owed` and `asked` record requests of clients |
| `Bsp`, `MCBsp` | `bsp.cpp` from `send_data` to the destructor | `Link`, `Leaves`, `Throws` say what the programs of the nodes do; connections are external |
| `Server` | `server_kernel.cpp` | users start and clear; connections carry the state of their threads; `disturbed` records a start during a `clear` |
| `Timer` | `timer.h`, `timer.cpp`, `timeout.h` | of the `threaded_object` under a timer only the life of its thread and `should_respawn_`; `quiet` records a returned `stop_and_wait` |
| `*Proofs` | | the theorems of section 5 |

Definitions named `...` with a comment that begins with "Mutant" are deliberate
errors (a lost signal, a missing reset, a dropped guard). They are not part of
any specification; `PROJECT.json` names, for each property, one definition and
the mutant that, put in its place, makes TLC report the property violated.

## 3. The runs

| run | instance | states | shows |
|---|---|---|---|
| `pipe_buffer` | 2 slots, 2 values, 5 threads with the whole interface | 94,000 | exact counters, no item overlooked, refinement of `BlockingFifo` |
| `pipe_rendezvous` | no slots, 6 threads, two enqueuers | 9,900 | no enqueue overlooked, refinement, safe destruction; the destructor returns, `disable` releases everybody, items are taken |
| `rw` | 4 threads, 2 locks | 2,800 | exclusion, accounts, no lost wake-up, all served once nobody asks for more |
| `thread_pool` | 2 workers, 1 client, 3 tasks, one of which may throw | 131,000 | ids identify, a free worker for each ready task, exceptions kept, destruction after the last task; tasks and waits end but for circles of workers |
| `parallel_for` | 2 workers, 4 ranges, 1 or 2 chunks per thread | 11,000 | each index once if the call returns |
| `threader` | 2 users, 3 pool threads, 3 functions, 1 handler | 16,000 | exact counts, no function and no creator overlooked, handlers before reuse, progress |
| `threaded_object` | 3 clients, 2 threads | 2,200 | one thread, nobody overlooked, no restart lost, at most one respawn, `stop` takes effect |
| `bsp` | 3 nodes, 3 supersteps, sends 2 to 1 and 1 to 0, all may leave, 1 may throw | 218,000 | sound barriers, all unblock together, messages in their superstep, nothing lost, the job ends |
| `bsp_relay` | 3 nodes, node 1 passes a message of 0 on to 2 | 6,000 | **violation**, finding 1 |
| `server` | a starter, a clearer, 2 threads of `start_async`, 2 connections, limits 1 and 2 | 360,000 | connections in `cons` are open, one listener, exact `thread_count`, the limit, `clear` returns |
| `server_clear` | one user, one connection | 1,800 | **violation**, finding 2 |
| `timer` | a timer and a timeout, delays 0 to 2 | 44,000 | the clock is never late by its own fault, running means armed, stopped means silent, calls go on |

**Bounds.** Every passing run explores its instance completely (a violation run
stops at the first counterexample, its count is what was seen until then); there are no state
constraints. The bounds are the constants of the `.cfg` files.

* Pipe: a lost wake-up needs one thread to notify and two that sleep or race for
  the item, hence two dequeuers (one timed, one not) in both instances, and two
  enqueuers where they contend for one offer. Two slots make the ring wrap, fill
  and empty with a middle position; one slot and none are the special cases of
  the index arithmetic (`first` and `last` start at 1), of which the instances
  have none. Two values show order.
* Read/write mutex: with two locks a writer collects in two pieces; four threads
  give two readers and two writers.
* Thread pool: two workers and a third task are the least with which a worker
  finds every slot taken and runs a task inline, and a slot is used twice. A
  task is added once in a behaviour.
* `parallel_for`: empty range, one index, fewer indices than workers, a last
  block that is cut short, blocks of one and two indices, negative begin.
* Threader: three functions on three threads, which functions also create, give
  two creators that wait for the slot beside a thread that comes back.
* Threaded object: the calls keep no history, so the instance is finite without
  a bound on their number. A second helper thread exists so that a wrong second
  creation would be seen.

* Bsp: with three nodes the reports of two of them race to node 0, and two
  messages make a chain, the second sent after the first was received. Three
  supersteps let a message of the next one overtake the news of a barrier, twice.
* Server: the count and the limit matter from two connections on, at a limit of
  one. A user may start the server again and again; two threads are enough for
  `start_async`, which waits for the previous one.
* Timer: two timers make the order of due times matter. Delay 0 is due at once, 2
  is later than the default. `MaxLate` bounds how late the clock and the
  threads are: time stands still at the bound, so `Tick` is strongly fair.

**Deadlock** is not checked in runs in which the system may rightly stop: every
thread may be blocked in an empty pipe, or have nothing more to do. That nobody
is stuck wrongly is what the properties on overlooked sleepers and the
liveness properties say. `threaded_object` and `timer` are checked for deadlock.

**Fairness.** Only weak fairness of steps that the scheduler and a mutex
guarantee: a woken thread gets the mutex and runs on, a timed wait runs out, a
created thread begins. Calls of users are never fair: nobody needs to call
anything. In addition `thread_pool` and `parallel_for` assume that the code of a
task ends, `threaded_object` that `thread()` calls `should_stop()` again and
again, as the class asks of it, and `rw` that a lock is given back. `bsp` assumes
that what was written arrives, that a program receives or returns, and that one
that can always return does; `server` that `accept()` returns within its
time-out, and that `on_connect()` ends once its connection was shut down, as the
class asks (`server_kernel_abstract.h:281`), while that of another connection may
run for ever; `timer` that time passes and action functions return. `threader`
assumes nothing of the functions: they may run for ever. Where weak fairness
does not suffice because other threads may always be faster, the property says
so: `DrainsWhenQuiet` asks for progress once no further locks are requested,
`ClearReturns` holds as long as nobody starts the server during a `clear()` and
names the connections a `clear()` may wait for in vain, `WaitsEnd` excepts circles
of workers (section 4), `JobEnds` is about jobs that receive every message that
was sent or in which a node throws before it has told the others its end, and
`CalledAgain` is about a timer that stays running.

## 4. Findings

Two runs violate a sentence of the repository's own documentation.

1. `bsp_relay`: `receive()` may return false to all nodes while one is still
   running. The reports of two nodes reach node 0 over two connections: that node
   2 received and waits may arrive before that node 1 received, which sent to it,
   and the counts then look as if all were waiting (`bsp.cpp:353`). Programs in
   which only node 0 receives from nodes that have received are safe: the run
   `bsp` shows it for one of them, `BspBarrierIsSound` proves it for all.
2. `server_clear`: `clear()` may return while `on_connect()` runs, for a connection
   that the listener accepted before it could see `shutting_down`
   (`server_kernel.cpp:130`). By `ThreadCountExact` it is one connection at most.
   If the listener is faster and counts the thread before `clear()` looks at
   `thread_count`, `clear()` waits for that connection, which nobody shuts down:
   for ever, if it stays open. `ClearReturns` says that `clear()` waits in vain for
   nothing else; the history variable `late` is the set of these connections.

Other divergences, met while modelling, that have no run. The models behave as
the code does, and no property claims otherwise.

* `pipe::enqueue_or_timeout` without slots may block for ever, with time-out 0
  too: it counts on a `dequeue_or_timeout` that has already run out of time
  (`pipe_kernel_1.h:501`, `:543`).
* `pipe::wait_for_num_blocked_dequeues` is not notified when a dequeue takes the
  last item while enough others are blocked (`pipe_kernel_1.h:438`, `:659`);
  `disable_dequeue()` wakes neither it nor `wait_until_empty()` (`:734`).
* Without slots, `enqueue()` returns `true` from a pipe that was disabled after
  its item had been taken. The item was delivered.
* `read_write_mutex::unlock_readonly` without a readonly lock should have no
  effect, but while a writer collects it adds a lock that does not exist
  (`read_write_mutex_extension.h:138`); the constant `StrayUnlock` admits such
  calls. A thread with one readonly lock that asks for a second one may
  deadlock with a writer that collects (`:123`), and readers that keep coming may
  starve a writer.
* `parallel_for` is left by an exception from `add_task` without waiting for the
  blocks that refer to its stack (`parallel_for_extension.h:104`).
* `wait_for_all_tasks()` identifies tasks by thread. A task that calls it waits
  also for what an earlier task on the same worker left behind, which may be the
  caller itself, or wait for it (`thread_pool_extension.cpp:128`). Such a circle of
  workers is a deadlock. Two tasks suffice: the first adds the second and ends, and
  the same worker takes the second, which waits for all. The run reaches it (`CircularWait`), and
  `WaitsEnd` shows that every wait ends unless there is one.
* `server` compares the number of connections with the limit after a connection
  only, not before its first `accept()` and not after one that timed out
  (`server_kernel.cpp:315`). If the limit is lowered to the number of open
  connections while the listener is in `accept()`, it goes on calling `accept()`
  and admits one more connection, against "accept() will simply not be called"
  (`server_kernel_abstract.h:54`). `AcceptBelowMax` is therefore about the limit
  that the listener has looked at last, which the history variable `limit` keeps.
* In a `bsp` job that leaves a message unreceived, a node that has told the others
  its end and then throws for that reason is noticed by nobody: the others may
  wait in `receive()` for ever (`bsp.cpp:247`). The documentation asks jobs to
  receive all messages; `JobEnds` leaves these out.
* An end handler may be called after `unregister_thread_end_handler` has returned
  (`threads_kernel_shared.cpp:160`); `thread_specific_data` relies on it in its
  destructor.
* `should_respawn_` of a `threaded_object` is not initialised, against the
  documented initial value. `Init` allows both values; no respawn follows from
  it (`RespawnAtMostOnce`).
* `destruct_if_ready()` at program end may drop a function that was accepted but
  not yet started; `Progress` excludes this case.
* `set_max_connections(0)`, no limit, while the listener waits for room: the loop
  then tests `thread_count >= 0`, which stays true (`server_kernel.cpp:422`). The
  run calls it with limits above zero only.
* `start_async()` after the background thread failed holds `running_mutex` while
  it waits for that thread, which needs the mutex to finish its own `clear()`
  (`server_kernel.cpp:187`). The model has this deadlock, as a start during a
  `clear()`.
* The timed calls of the pipe start their time-out again after each wake-up, and
  a timer that is stopped and started during a long action function is called
  again without a pause. The length of a wait is not a property of the models.

## 5. Proofs

All theorems hold for every value of the constants that the `ASSUME` of the
module admits (in substance: finitely many threads). They were checked by tlapm
with Z3, Zenon and LS4.

* **`PipeProofs`**: everything the runs check of the pipe but liveness.
  * `PipeTypeOK`, `PipeWaiterCounts`. The three waiter counters decide which
    notifications are left out and when the destructor may go on. They are
    incremented and decremented by hand on every path. The inductive invariant is
    `CountInv == TypeOK /\ WaiterCounts /\ RingIndex /\ TakenLoop`: a counter stays a
    natural number because it counts the thread that decrements it, and an item
    that leaves the ring has a type because `first` is a slot whenever the ring is
    in use. One lemma computes how the number of threads in a set of loops changes
    when one thread moves; one lemma per method uses it.
  * `PipeNoEnqueueOverlooked`, stated thread by thread: whoever sleeps has a reason
    to (`SoundSleep`). A broadcast is left out only when a counter says that nobody
    waits, and by `CountInv` nobody does.
  * `PipeDestructorSafe`, with `LifeInv`: once the destructor has begun the pipe is
    disabled, hence every call that leaves wakes it, and while it sleeps such a
    call is left.
  * `PipeNoItemOverlooked`, with `ItemInv`: a dequeue sleeps only in an enabled
    pipe, and each step changes items and dequeues on their way by the same number,
    or wakes all.
  * `PipeRefinesFifo`: the pipe implements `BlockingFifo`. The queue is the ring read
    from `first`; an offer in a pipe without slots counts as still in the hand of
    its enqueuer until `last` is reset. The step lemmas need `FifoInv`, which adds to
    `CountInv` that `last` is the slot of the newest item (`RingOrder`), that there is
    one offer at a time (`OneOffer`), and that a thread outside both calls holds no
    item (`EmptyHanded`).
* **`ReadWriteMutexProofs`**: `RWMutualExclusion`, `RWAllLocksAccounted`,
  `RWNobodyOverlooked`, under the assumption `~StrayUnlock` (with stray calls they
  are false, section 4). Exclusion is not inductive: it follows from the account
  of all locks together with `OneCollector` and the link between `owner` and
  `write_lock_active`.
* **`ThreaderProofs`**: `ThreaderCountsExact`, `ThreaderNoJobOverlooked`,
  `ThreaderNoCreatorOverlooked`, `ThreaderHandlersBeforeReuse`. The invariant
  adds to these four who is in which wait set, that waiting creators have a
  function, and where handlers may be held. The counts are what makes the rest
  work: `create_new_thread` signals instead of spawning when `pool_count > 0`,
  which is right because then some thread is in the pool's wait, asleep (and
  woken by the signal) or about to look at the slot (also if it timed out).
* **`ThreadedObjectProofs`**: `ObjectOneThread`, `ObjectNobodyOverlooked`,
  `ObjectRestartNotLost`, `ObjectRespawnAtMostOnce` (an action property). The
  strengthening `RespawnFlag` says that once `thread()` has been entered, an owed
  restart is recorded in `should_respawn_`, and that the flag is set only if
  somebody asked since.
* **`ThreadPoolProofs`**: `PoolTypeOK`, `PoolIdsIdentify`, `PoolNoExceptionLost`,
  `PoolAllDoneBeforeExit`, `PoolWorkerForEachTask`, for any workers, also none, any
  clients and any tasks. The invariant `PoolInv` has two halves. `Tasks`: a slot and
  its task agree on callable, id and state; ids of a slot only grow (`Ids`), so an
  old one never comes back; and the tasks under way lie on the stacks of the
  threads, the one of the slot at the bottom and those run inline above it
  (`OnStacks`, with a witness for whose stack and how deep). The stacks are needed
  because a task run inline ends and uncovers the one below. `Places`: where
  workers and clients can be, and that all slots are empty once the workers are
  told to go. `LookInv` is the second half of `WorkerForEachTask`; the first is a
  count: slots in use by running tasks are as many as workers that run one.

  `ParallelForEachIndexOnce`, for any pool with threads, any range and any number
  of chunks. Every step of the call or of a worker is a step of the pool, so
  `PoolInv` holds; `PForInv` adds that the tasks added are the blocks below `i`,
  numbered without a gap, that the function was called for the blocks that are
  done, and that an exception received has ended the call. The rest is division:
  every index lies in one block (`OneBlock`, `BlocksCover`, `BlocksApart`).
* **`BspProofs`**: `BspNothingLost`, for any number of nodes and any `Link`, `Leaves`
  and `Throws`, those of finding 1 included. Node 0 compares with zero a counter
  that lags behind. `Account` says that the counter and the reports that are unread
  or in its queue together make the number of messages sent and not received.
  `Ordered` says that NODE_TERMINATE is the last that a node writes to node 0, and
  that the priority queue does not put it before that node's reports, which have
  epoch 0 as it has. So when all others have terminated nothing is pending, the
  counter is exact, and none of them will send or receive again (`AllGone`).

  `BspAllUnblock`, `BspBarrierIsSound` and `BspReceivedInItsSuperstep` (the last two
  are action properties) are about the barriers in the middle of a job, for any
  number of nodes, any `Leaves` and `Throws`, and every `Link` in which a node other
  than 0 that somebody sends to sends to node 0 only (`NoRelay`). Without this
  hypothesis finding 1 refutes `BarrierIsSound`; the `Link` of the run `bsp` meets it.
  The invariant `BarrierInv` looks at the *word* of each connection, what was
  written to it and not yet taken from the reader's queue. `Current`: a message on
  its way is of the superstep of node 0. `InFlight`: there are no more of them than
  sent and not received. `UpToDate`: a node is in the superstep of node 0, or waits
  one behind with the news of that barrier, and of no other, in its word.
  `Reporting`: node 0 sees every node at a *stand* (running, message written but
  not reported, waiting, terminated), it counts those that wait, and the word of a
  node is a path from its stand to where the node really is. When node 0 finds that
  all wait (`BarrierReached`), every stand is "waiting" or "terminated". A path
  leaves "waiting" by GOT_MESSAGE only, and a SENT_MESSAGE behind that is, under
  `NoRelay`, of a message to node 0, which lies before it in the same word. So there
  are at most as many SENT_MESSAGE pending as messages in flight, which are at most
  those not received, and these are, by `Account` with the counter at 0, the pending
  SENT_MESSAGE less the pending GOT_MESSAGE. Hence no GOT_MESSAGE is pending, no path
  leaves its stand, nobody runs, and nothing is in flight.

* **`ServerProofs`**: `ServerThreadCountExact`, `ServerConsAreOpen`,
  `ServerAcceptBelowMax`, for any threads and finitely many
  connections. `thread_count` is changed at two places, one of them late; it is
  exact because one thread at most listens (`OneListener`: only `start` and
  `start_async` make a listener, and only while `running` is false, which a
  listener keeps true to its last step). `ClientAccepted` and `ConsHaveThread`
  say to whom a connection belongs between `accept()` and its thread, so that
  whoever deletes it is not in the way of `clear()`. The limit follows from the
  count: at the test the listener has counted what it created, and until it
  creates the next thread connections only end (`LimitInv`).
* **`TimerProofs`**: `TimerClockInTime`, `TimerRunningIsScheduled`,
  `TimerStoppedForGood`, for any timers and delays. A timer that is added or moved
  without a signal has another one, due no later, for which the clock already
  wakes (`ScheduleKeeps`), and the least due time exists because the times that
  are left are positive (`LeastNatural`). `Halted` is the strengthening of the
  other two: who is stopped for good cannot be running, hence is not with the
  clock, hence its thread is not restarted.

Only model-checked: all liveness (the provers do not handle fairness). Every
invariant and action property of a passing run is the subject of a theorem, those
of the barriers in `Bsp` under `NoRelay`. `PipeTypeOK` and `PoolTypeOK` are
proved and not properties of a run.

The invariants behind the theorems (`FifoInv`, `PoolInv`, `PForInv`, `BspInv` and so
on) were model-checked on the instances of the runs before they were proved,
`BarrierInv` for five `Link` that meet `NoRelay`.

## 6. Hazards

`PROJECT.json` lists what is hard to test in this code, each at its line, with
the properties that would catch it. Those that no property covers have a note:
behaviour of section 4, or components that are not modelled.

## 7. Plan

Done: `Pipe` (with `BlockingFifo`), `ReadWriteMutex`, `ThreadPool`, `ParallelFor`,
`Threader`, `ThreadedObject`, `Bsp`, `Server`, `Timer`, and the theorems above.

What is left: `parallel_for` for the exceptions of `add_task`, `bridge` over `Pipe`
and a connection that fails, and a weaker hypothesis than `NoRelay` (a node may
pass on what it got in an earlier superstep).

## 8. What is not modelled, and why

Containers, compression, parsing and text are sequential code for which a small
instance shows little more than their unit tests; linear algebra, optimisation,
machine learning and images are floating-point arithmetic, out of TLC's reach;
sockets, the logger, the GUI and the Windows versions of the primitives are
wrappers of the operating system; scope guards (`auto_mutex`, `auto_unlock`) are
the extent of the actions; `dlib/external` is third-party code.

`multithreaded_object` repeats the life of a `threaded_object` for several
threads, `rmutex` is a count beside an owner, and what is hard about
`thread_specific_data`, the order of end handlers and reuse, is in `Threader`.
`bridge` joins two pipes over a connection that it sets up again when it fails;
what blocks in it is a pipe. `timer_heavy` is an older version of `timer`.

Of `bsp` the set-up of the connections is left out, which looks at the error of
its helper thread too early (`bsp.h:175`); every behaviour begins with all of
them. Of `server`: memory running out (`new` failing at `server_kernel.cpp:355`
leaves a deleted connection in `cons`), `start_async` failing to create its
thread, the destructor, ports and addresses, and the streams of
`server_iostream` and `server_http`. Of `timer`: threads that cannot be created.

Within the modelled components: queries that only read are left out, as are
allocation failures other than a failing spawn, the checks under `ENABLE_ASSERTS`
(they became guards on who calls what), and memory reclamation.
