---------------------------- MODULE ThreadPoolProofs ----------------------------
(***************************************************************************)
(* Theorems about ThreadPool for every set of workers, also the empty one, *)
(* every set of clients and every number of tasks, and then about          *)
(* ParallelFor, for every number of workers, every range and every number  *)
(* of chunks.  The theorems about the pool rest on PoolAssumption alone.   *)
(***************************************************************************)
EXTENDS ParallelFor, FiniteSetTheorems, WellFoundedInduction, TLAPS

LEMMA SizeNat ==
    /\ Size \in Nat
    /\ Size = 0 <=> Worker = {}
    /\ Worker # {} => 0 \in Slots
<1>1. Size \in Nat /\ (Size = 0 <=> Worker = {})
  BY PoolAssumption, FS_CardinalityType, FS_EmptySet DEF Size
<1> QED
  BY <1>1 DEF Slots

(* The ids made for slot ix are those that task_id_to_index maps to ix. *)
LEMMA IdNamesSlot ==
    ASSUME NEW n \in Nat, NEW ix \in Slots
    PROVE  (n * Size + ix) % Size = ix
<1>1. Size \in Nat /\ Size > 0 /\ ix \in Nat /\ ix < Size
  BY SizeNat DEF Slots
<1> DEFINE a == n * Size + ix
<1>2. a \in Nat
  BY <1>1
<1>3. /\ a % Size \in 0 .. Size - 1
      /\ a = Size * (a \div Size) + (a % Size)
      /\ a \div Size \in Int
  BY <1>1, <1>2
<1>4. PICK q \in Int, r \in Int : q = a \div Size /\ r = a % Size
  BY <1>3
<1>5. Size * (n - q) = r - ix
  BY <1>1, <1>3, <1>4
<1>6. ~ (n - q >= 1)
  BY <1>1, <1>3, <1>4, <1>5
<1>7. ~ (n - q <= -1)
  BY <1>1, <1>3, <1>4, <1>5
<1> QED
  BY <1>1, <1>3, <1>4, <1>5, <1>6, <1>7

LEMMA NextIdLarger ==
    ASSUME NEW n \in Nat, n >= 2, NEW ix \in Slots
    PROVE  /\ n * Size + ix \in Nat
           /\ n * Size + ix > 1
           /\ n * Size + ix < (n + 1) * Size + ix
<1>1. Size \in Nat /\ Size > 0 /\ ix \in Nat /\ ix < Size
  BY SizeNat DEF Slots
<1>2. n * Size >= 2 * Size /\ n * Size \in Nat
  BY <1>1
<1>3. (n + 1) * Size = n * Size + Size
  BY <1>1
<1> QED
  BY <1>1, <1>2, <1>3

LEMMA ModSlot ==
    ASSUME NEW n \in Nat, Size > 0
    PROVE  n % Size \in Slots
BY SizeNat DEF Slots

LEMMA LeastNatural ==
    ASSUME NEW S, S \subseteq Slots, S # {}
    PROVE  First(S) \in S
<1>0. S \subseteq Nat
  BY DEF Slots
<1>1. \E x \in S : \A y \in S : ~ (y < x)
  <2>1. PICK x \in S : \A y \in S : ~ (<<y, x>> \in OpToRel(<, Nat))
    BY <1>0, NatLessThanWellFounded, WFMin, Zenon
  <2>2. ASSUME NEW y \in S PROVE ~ (y < x)
    <3>1. <<y, x>> \in Nat \X Nat /\ <<y, x>>[1] = y /\ <<y, x>>[2] = x
      BY <1>0, Zenon
    <3> QED
      BY <2>1, <3>1, Zenon DEF OpToRel
  <2> QED
    BY <2>2, Zenon
<1>2. \E x \in S : \A y \in S : x <= y
  BY <1>0, <1>1
<1> QED
  BY <1>2, Zenon DEF First
-----------------------------------------------------------------------------
(* The inductive invariant.  First, TypeOK in three parts. *)
SlotsOK ==
    /\ is_being_processed \in [Slots -> BOOLEAN]
    /\ task_id \in [Slots -> Nat]
    /\ thread_id \in [Slots -> Thread \cup {None}]
    /\ next_task_id \in [Slots -> Nat]
    /\ eptr \in [Slots -> Job \cup {None}]
    /\ fn \in [Slots -> Job \cup {None}]
    /\ \A ix \in Slots :
          IF is_empty(ix) THEN fn[ix] = None /\ ~ is_being_processed[ix]
          ELSE fn[ix] # None /\ task_id[ix] > 1 /\ task_id_to_index(task_id[ix]) = ix

Statuses == {"new", "queued", "running", "done", "failed", "rethrown"}

JobsOK ==
    /\ idx \in [Worker -> Slots]
    /\ frame \in [Thread -> Job \cup {None}]
    /\ status \in [Job -> Statuses]
    /\ id \in [Job -> Nat]
    /\ parent \in [Job -> Job \cup {None}]
    /\ inline \in [Job -> BOOLEAN]

ThreadsOK ==
    /\ worker_thread_ids \subseteq Worker
    /\ we_are_destructing \in BOOLEAN
    /\ life \in {"alive", "ending", "destroyed", "terminated"}
    /\ pc \in [Thread -> {"start", "loop", "user", "exit", "join"}
                            \cup TaskReady \cup TaskDone]
    /\ wait \in [Thread -> {"no", "parked", "woken"}]
    /\ arg \in [Thread -> Job \cup {None}]

LEMMA TypeParts == TypeOK <=> SlotsOK /\ JobsOK /\ ThreadsOK
BY DEF TypeOK, SlotsOK, JobsOK, ThreadsOK, Statuses

(* A slot in use and its task know each other, by callable and by id, and  *)
(* it keeps no exception.                                                  *)
SlotJobs ==
    \A ix \in Slots : fn[ix] # None =>
        /\ ~ inline[fn[ix]] /\ id[fn[ix]] = task_id[ix]
        /\ status[fn[ix]] = IF is_being_processed[ix] THEN "running" ELSE "queued"
        /\ eptr[ix] = None

JobSlots ==
    \A j \in Job :
        /\ status[j] = "queued" => \E ix \in Slots : fn[ix] = j
        /\ status[j] = "new" => id[j] = 0 /\ ~ inline[j]
        /\ inline[j] => status[j] \in {"running", "done", "rethrown"} /\ id[j] <= 1
        /\ id[j] = 1 => inline[j]

(* Ids grow slot by slot, so that none is used twice. *)
Ids ==
    /\ \A ix \in Slots : next_task_id[ix] >= 2
    /\ \A j \in Job : id[j] > 1 =>
          Size > 0 /\ id[j] < next_task_id[id[j] % Size] * Size + (id[j] % Size)
    /\ \A j, k \in Job : id[j] = id[k] /\ id[j] > 1 => j = k

Exceptions ==
    /\ NoExceptionLost
    /\ \A ix, k \in Slots : eptr[ix] = eptr[k] /\ eptr[ix] # None => ix = k

(***************************************************************************)
(* The tasks under way are on the stacks of the threads: own is the thread *)
(* whose stack a task is on and depth how deep.  At the bottom of a        *)
(* worker's stack is the task of its slot; above it are tasks it runs      *)
(* inline, each in the code of the one below; frame is the top.            *)
(***************************************************************************)
Running == {j \in Job : status[j] = "running"}

Tops(own, depth) ==
    /\ \A t \in Thread : frame[t] # None => frame[t] \in Running /\ own[frame[t]] = t
    /\ \A j \in Running : /\ own[j] \in Thread
                           /\ frame[own[j]] # None
                           /\ depth[j] <= depth[frame[own[j]]]

Bottoms(own, depth) ==
    /\ \A w \in Worker : frame[w] # None => fn[idx[w]] \in Running /\ own[fn[idx[w]]] = w
    /\ \A j \in Running : ~ inline[j] =>
          depth[j] = 1 /\ own[j] \in Worker /\ fn[idx[own[j]]] = j
    /\ \A j \in Running : inline[j] /\ parent[j] = None =>
          depth[j] = 1 /\ own[j] \in Client

Chained(own, depth) ==
    \A j \in Running : inline[j] /\ parent[j] # None =>
        /\ parent[j] \in Running
        /\ own[parent[j]] = own[j]
        /\ depth[j] = depth[parent[j]] + 1

OneAtEachDepth(own, depth) ==
    \A j, k \in Running : own[j] = own[k] /\ depth[j] = depth[k] => j = k

Stacks(own, depth) ==
    /\ Tops(own, depth)
    /\ Bottoms(own, depth)
    /\ Chained(own, depth)
    /\ OneAtEachDepth(own, depth)

OnStacks == \E own \in [Job -> Thread \cup {None}], depth \in [Job -> Nat \ {0}] : Stacks(own, depth)

Tasks == SlotsOK /\ JobsOK /\ SlotJobs /\ JobSlots /\ Ids /\ Exceptions /\ OnStacks

(* Where threads can be, and what a call waits with.  Only clients wait    *)
(* for room, and none is inside the pool once it is being destroyed.       *)
Outside == {"start", "loop", "ready", "exit"}

WorkerPlaces ==
    \A w \in Worker :
        /\ pc[w] \in Outside \cup {"user", "task", "all"}
        /\ frame[w] = None <=> pc[w] \in Outside
        /\ pc[w] = "start" \/ w \in worker_thread_ids

ClientPlaces ==
    \A c \in Client :
        /\ pc[c] \in TaskDone \cup {"user", "join", "exit"}
        /\ life = "alive" \/ (frame[c] = None /\ pc[c] \in {"user", "shutdown", "join", "exit"})
        /\ pc[c] \in {"shutdown", "join", "exit"} => life # "alive"

Waiting ==
    /\ \A t \in Thread : pc[t] = "room" =>
          /\ arg[t] \in Job /\ status[arg[t]] = "new"
          /\ \A s \in Thread \ {t} : arg[s] # arg[t]
    /\ \A t \in Thread : pc[t] = "task" => arg[t] \in Job

Ending ==
    we_are_destructing =>
        /\ life # "alive"
        /\ Empty = Slots
        /\ \A t \in Thread : frame[t] = None

Places == ThreadsOK /\ WorkerPlaces /\ ClientPlaces /\ Waiting /\ Ending

PoolInv == Tasks /\ Places

-----------------------------------------------------------------------------
(* A task goes into an empty slot. *)
LEMMA HandsSlots ==
    ASSUME SlotsOK, JobsOK, Ids, NEW t \in Thread, NEW j \in Job, NEW ix \in Slots,
           Hands(t, j, ix)
    PROVE  SlotsOK' /\ make_next_task_id(ix) \in Nat /\ make_next_task_id(ix) > 1
           /\ make_next_task_id(ix) % Size = ix
<1>1. next_task_id[ix] \in Nat /\ next_task_id[ix] >= 2
  BY DEF SlotsOK, Ids
<1>2. /\ make_next_task_id(ix) \in Nat /\ make_next_task_id(ix) > 1
      /\ make_next_task_id(ix) % Size = ix
  BY <1>1, IdNamesSlot, NextIdLarger DEF make_next_task_id
<1>3. j # None
  BY PoolAssumption
<1> QED
  BY <1>2, <1>3 DEF Hands, SlotsOK, is_empty, task_id_to_index

LEMMA HandsTasks ==
    ASSUME Tasks, NEW t \in Thread, NEW j \in Job, NEW ix \in Slots,
           status[j] = "new", is_empty(ix), Trapped = {},
           Hands(t, j, ix), UNCHANGED <<idx, frame, inline>>
    PROVE  Tasks'
<1>0. SlotsOK /\ JobsOK /\ SlotJobs /\ JobSlots /\ Ids /\ Exceptions /\ OnStacks
  BY DEF Tasks
<1> DEFINE n == make_next_task_id(ix)
<1>1. SlotsOK' /\ n \in Nat /\ n > 1 /\ n % Size = ix
  BY <1>0, HandsSlots
<1>2. /\ task_id' = [task_id EXCEPT ![ix] = n]
      /\ next_task_id' = [next_task_id EXCEPT ![ix] = @ + 1]
      /\ fn' = [fn EXCEPT ![ix] = j]
      /\ status' = [status EXCEPT ![j] = "queued"]
      /\ id' = [id EXCEPT ![j] = n]
      /\ parent' = [parent EXCEPT ![j] = frame[t]]
      /\ UNCHANGED <<is_being_processed, eptr>>
      /\ n = next_task_id[ix] * Size + ix
  BY DEF Hands, make_next_task_id
<1> HIDE DEF n
<1>3. fn[ix] = None /\ ~ is_being_processed[ix] /\ eptr[ix] = None /\ id[j] = 0 /\ ~ inline[j]
  BY <1>0 DEF SlotsOK, JobSlots, Trapped
<1>n. j # None /\ None \notin Job
  BY PoolAssumption
<1>4. JobsOK'
  BY <1>0, <1>1, <1>2 DEF JobsOK, Statuses
<1>5. SlotJobs'
  BY <1>0, <1>1, <1>2, <1>3, <1>n DEF SlotJobs, SlotsOK, JobsOK
<1>6. JobSlots'
  <2> SUFFICES ASSUME NEW k \in Job
               PROVE  /\ status'[k] = "queued" => \E m \in Slots : fn'[m] = k
                      /\ status'[k] = "new" => id'[k] = 0 /\ ~ inline'[k]
                      /\ inline'[k] => status'[k] \in {"running", "done", "rethrown"} /\ id'[k] <= 1
                      /\ id'[k] = 1 => inline'[k]
    BY DEF JobSlots
  <2>1. CASE k = j
    BY <1>0, <1>1, <1>2, <1>3, <2>1 DEF JobsOK, SlotsOK
  <2>2. CASE k # j
    <3>1. status'[k] = status[k] /\ id'[k] = id[k] /\ inline'[k] = inline[k]
      BY <1>0, <1>2, <2>2 DEF JobsOK
    <3>2. ASSUME NEW m \in Slots, fn[m] = k PROVE fn'[m] = k
      BY <1>0, <1>2, <1>3, <1>n, <3>2 DEF SlotsOK
    <3> QED
      BY <1>0, <3>1, <3>2 DEF JobSlots
  <2> QED
    BY <2>1, <2>2
<1>7. Ids'
  <2>1. next_task_id[ix] \in Nat /\ next_task_id[ix] >= 2
    BY <1>0 DEF Ids, SlotsOK
  <2>2. n < (next_task_id[ix] + 1) * Size + ix
    BY <1>2, <2>1, NextIdLarger
  <2>3. \A k \in Slots : next_task_id'[k] = IF k = ix THEN next_task_id[ix] + 1 ELSE next_task_id[k]
    BY <1>0, <1>2 DEF SlotsOK
  <2>s. Size > 0 /\ Size \in Nat /\ ix \in Nat
    BY SizeNat DEF Slots
  <2>4. ASSUME NEW k \in Job, k # j, id[k] > 1
        PROVE  id[k] # n /\ id[k] < next_task_id'[id[k] % Size] * Size + (id[k] % Size)
    <3>0. id[k] \in Nat
      BY <1>0 DEF JobsOK
    <3>1. id[k] % Size \in Slots
      BY <2>s, <3>0, ModSlot
    <3>2. id[k] < next_task_id[id[k] % Size] * Size + (id[k] % Size)
      BY <1>0, <2>4 DEF Ids
    <3>3. CASE id[k] % Size = ix
      <4>1. id[k] < n
        BY <1>2, <3>2, <3>3
      <4>2. next_task_id'[id[k] % Size] * Size + (id[k] % Size) = (next_task_id[ix] + 1) * Size + ix
        BY <2>3, <3>3
      <4>3. (next_task_id[ix] + 1) * Size + ix \in Nat
        BY <2>1, <2>s
      <4> QED
        BY <1>1, <2>2, <3>0, <4>1, <4>2, <4>3
    <3>4. CASE id[k] % Size # ix
      BY <1>1, <2>3, <3>1, <3>2, <3>4
    <3> QED
      BY <3>3, <3>4
  <2>5. \A k \in Job : id'[k] = IF k = j THEN n ELSE id[k]
    BY <1>0, <1>2 DEF JobsOK
  <2>6. ASSUME NEW k \in Job, id'[k] > 1
        PROVE  Size > 0 /\ id'[k] < next_task_id'[id'[k] % Size] * Size + (id'[k] % Size)
    <3>1. CASE k = j
      <4>1. id'[k] = n /\ id'[k] % Size = ix
        BY <1>1, <2>5, <3>1
      <4>2. next_task_id'[id'[k] % Size] = next_task_id[ix] + 1
        BY <2>3, <4>1
      <4> QED
        BY <2>2, <2>s, <4>1, <4>2
    <3>2. CASE k # j
      BY <2>4, <2>5, <2>6, <2>s, <3>2
    <3> QED
      BY <3>1, <3>2
  <2>7. ASSUME NEW k \in Job, NEW m \in Job, id'[k] = id'[m], id'[k] > 1
        PROVE  k = m
    BY <1>0, <2>4, <2>5, <2>7 DEF Ids
  <2>8. \A k \in Slots : next_task_id'[k] >= 2
    BY <1>0, <2>1, <2>3 DEF Ids
  <2> QED
    BY <2>6, <2>7, <2>8 DEF Ids
<1>8. Exceptions'
  BY <1>0, <1>2 DEF Exceptions, NoExceptionLost, JobsOK
<1>9. OnStacks'
  <2>1. PICK own \in [Job -> Thread \cup {None}], depth \in [Job -> Nat \ {0}] : Stacks(own, depth)
    BY <1>0 DEF OnStacks
  <2>2. /\ Running' = Running /\ j \notin Running
        /\ \A k \in Running : parent'[k] = parent[k]
    BY <1>0, <1>2 DEF Running, JobsOK
  <2>3. \A k \in Slots : fn[k] # None => fn'[k] = fn[k]
    BY <1>0, <1>2, <1>3 DEF SlotsOK
  <2>4. \A k \in Running : k # None
    BY <1>n DEF Running
  <2>5. Tops(own, depth)'
    BY <2>1, <2>2 DEF Stacks, Tops
  <2>6. Bottoms(own, depth)'
    BY <1>0, <2>1, <2>2, <2>3, <2>4 DEF Stacks, Bottoms, JobsOK
  <2>7. Chained(own, depth)'
    BY <2>1, <2>2 DEF Stacks, Chained
  <2>8. OneAtEachDepth(own, depth)'
    BY <2>1, <2>2 DEF Stacks, OneAtEachDepth
  <2>9. Stacks(own, depth)'
    BY <2>5, <2>6, <2>7, <2>8 DEF Stacks
  <2> QED
    BY <2>9 DEF OnStacks
<1> QED
  BY <1>1, <1>4, <1>5, <1>6, <1>7, <1>8, <1>9 DEF Tasks

-----------------------------------------------------------------------------
(* A worker, or any thread of a pool without workers, runs a task itself. *)
LEMMA InlineTasks ==
    ASSUME Tasks, NEW t \in Thread, NEW j \in Job, status[j] = "new",
           t \in Worker => frame[t] # None,
           RunsInline(t, j), UNCHANGED idx
    PROVE  Tasks'
<1>0. SlotsOK /\ JobsOK /\ SlotJobs /\ JobSlots /\ Ids /\ Exceptions /\ OnStacks
  BY DEF Tasks
<1>n. j # None /\ None \notin Job
  BY PoolAssumption
<1>1. /\ frame' = [frame EXCEPT ![t] = j]
      /\ parent' = [parent EXCEPT ![j] = frame[t]]
      /\ inline' = [inline EXCEPT ![j] = TRUE]
      /\ status' = [status EXCEPT ![j] = "running"]
      /\ UNCHANGED <<is_being_processed, task_id, thread_id, next_task_id, eptr, fn, id, idx>>
  BY DEF RunsInline, slots
<1>2. SlotsOK' /\ JobsOK'
  BY <1>0, <1>1 DEF SlotsOK, JobsOK, Statuses, is_empty
<1>3. id[j] = 0 /\ ~ inline[j] /\ \A ix \in Slots : fn[ix] # j
  BY <1>0, <1>n DEF JobSlots, SlotJobs
<1>4. SlotJobs'
  BY <1>0, <1>1, <1>3 DEF SlotJobs, SlotsOK, JobsOK
<1>5. JobSlots'
  BY <1>0, <1>1, <1>3 DEF JobSlots, JobsOK
<1>6. Ids'
  BY <1>0, <1>1 DEF Ids
<1>7. Exceptions'
  BY <1>0, <1>1 DEF Exceptions, NoExceptionLost, JobsOK
<1>8. OnStacks'
  <2>1. PICK own \in [Job -> Thread \cup {None}], depth \in [Job -> Nat \ {0}] : Stacks(own, depth)
    BY <1>0 DEF OnStacks
  <2>2. PICK n \in Nat \ {0} : n = IF frame[t] = None THEN 1 ELSE depth[frame[t]] + 1
    BY <1>0 DEF JobsOK
  <2>3. PICK o \in [Job -> Thread \cup {None}] : o = [own EXCEPT ![j] = t]
    OBVIOUS
  <2>4. PICK d \in [Job -> Nat \ {0}] : d = [depth EXCEPT ![j] = n]
    OBVIOUS
  <2>5. Running' = Running \cup {j} /\ j \notin Running /\ Running \subseteq Job
    BY <1>0, <1>1 DEF Running, JobsOK
  <2>6. \A k \in Running : /\ o[k] = own[k] /\ d[k] = depth[k]
                           /\ parent'[k] = parent[k] /\ inline'[k] = inline[k]
    BY <1>0, <1>1, <2>3, <2>4, <2>5 DEF JobsOK
  <2>7. o[j] = t /\ d[j] = n /\ inline'[j] /\ parent'[j] = frame[t]
    BY <1>0, <1>1, <2>3, <2>4 DEF JobsOK
  <2>8. frame'[t] = j /\ \A s \in Thread \ {t} : frame'[s] = frame[s]
    BY <1>0, <1>1 DEF JobsOK
  <2>t. frame[t] # None => frame[t] \in Running /\ own[frame[t]] = t
    BY <2>1 DEF Stacks, Tops
  <2>u. \A k \in Running : own[k] = t => depth[k] < n
    BY <2>1, <2>2, <2>5, <2>t DEF Stacks, Tops
  <2>9. Tops(o, d)'
    <3>1. ASSUME NEW s \in Thread, frame'[s] # None
          PROVE  frame'[s] \in Running' /\ o[frame'[s]] = s
      BY <2>1, <2>5, <2>6, <2>7, <2>8, <3>1 DEF Stacks, Tops
    <3>2. ASSUME NEW k \in Running'
          PROVE  /\ o[k] \in Thread /\ frame'[o[k]] # None
                 /\ d[k] <= d[frame'[o[k]]]
      <4>1. CASE k = j
        BY <1>n, <2>7, <2>8, <4>1
      <4>2. CASE k # j /\ own[k] = t
        BY <1>n, <2>2, <2>5, <2>6, <2>7, <2>8, <2>u, <4>2
      <4>3. CASE k # j /\ own[k] # t
        <5>1. k \in Running /\ own[k] \in Thread \ {t}
          BY <2>1, <2>5, <4>3 DEF Stacks, Tops
        <5>2. frame'[o[k]] = frame[own[k]]
          BY <2>6, <2>8, <5>1
        <5>3. frame[own[k]] \in Running /\ depth[k] <= depth[frame[own[k]]]
              /\ frame[own[k]] # None
          BY <2>1, <5>1 DEF Stacks, Tops
        <5> QED
          BY <2>6, <5>1, <5>2, <5>3
      <4> QED
        BY <4>1, <4>2, <4>3
    <3> QED
      BY <3>1, <3>2 DEF Tops
  <2>10. Bottoms(o, d)'
    <3>1. ASSUME NEW w \in Worker, frame'[w] # None
          PROVE  fn'[idx'[w]] \in Running' /\ o[fn'[idx'[w]]] = w
      <4>1. frame[w] # None
        BY <2>8, <3>1 DEF Thread
      <4> QED
        <5>1. fn[idx[w]] \in Running /\ own[fn[idx[w]]] = w
          BY <2>1, <4>1 DEF Stacks, Bottoms
        <5>2. fn'[idx'[w]] = fn[idx[w]]
          BY <1>1
        <5> QED
          BY <2>5, <2>6, <5>1, <5>2
    <3>2. ASSUME NEW k \in Running', ~ inline'[k]
          PROVE  d[k] = 1 /\ o[k] \in Worker /\ fn'[idx'[o[k]]] = k
      <4>1. k \in Running /\ ~ inline[k]
        BY <2>5, <2>6, <2>7, <3>2
      <4>2. depth[k] = 1 /\ own[k] \in Worker /\ fn[idx[own[k]]] = k
        BY <2>1, <4>1 DEF Stacks, Bottoms
      <4> QED
        BY <1>1, <2>6, <4>1, <4>2
    <3>3. ASSUME NEW k \in Running', inline'[k], parent'[k] = None
          PROVE  d[k] = 1 /\ o[k] \in Client
      BY <2>1, <2>2, <2>5, <2>6, <2>7, <3>3 DEF Stacks, Bottoms, Thread
    <3> QED
      BY <3>1, <3>2, <3>3 DEF Bottoms
  <2>11. Chained(o, d)'
    <3> SUFFICES ASSUME NEW k \in Running', inline'[k], parent'[k] # None
                 PROVE  /\ parent'[k] \in Running' /\ o[parent'[k]] = o[k]
                        /\ d[k] = d[parent'[k]] + 1
      BY DEF Chained
    <3>1. CASE k = j
      BY <2>2, <2>5, <2>6, <2>7, <2>t, <3>1
    <3>2. CASE k # j
      <4>1. k \in Running /\ inline[k] /\ parent[k] # None
        BY <2>5, <2>6, <3>2
      <4>2. parent[k] \in Running /\ own[parent[k]] = own[k] /\ depth[k] = depth[parent[k]] + 1
        BY <2>1, <4>1 DEF Stacks, Chained
      <4> QED
        BY <2>5, <2>6, <4>1, <4>2
    <3> QED
      BY <3>1, <3>2
  <2>12. OneAtEachDepth(o, d)'
    <3> SUFFICES ASSUME NEW k \in Running', NEW m \in Running', o[k] = o[m], d[k] = d[m]
                 PROVE  k = m
      BY DEF OneAtEachDepth
    <3> QED
      BY <2>1, <2>5, <2>6, <2>7, <2>u DEF Stacks, OneAtEachDepth
  <2>13. Stacks(o, d)'
    BY <2>9, <2>10, <2>11, <2>12 DEF Stacks
  <2> QED
    BY <2>13 DEF OnStacks
<1> QED
  BY <1>2, <1>4, <1>5, <1>6, <1>7, <1>8 DEF Tasks

(* A kept exception is let go. *)
LEMMA PropagatesTasks ==
    ASSUME Tasks, NEW t \in Thread, Trapped # {},
           Propagates(t), UNCHANGED <<idx, frame, inline>>
    PROVE  Tasks'
<1>0. SlotsOK /\ JobsOK /\ SlotJobs /\ JobSlots /\ Ids /\ Exceptions /\ OnStacks
  BY DEF Tasks
<1>n. None \notin Job
  BY PoolAssumption
<1>1. First(Trapped) \in Trapped
  BY LeastNatural DEF Trapped
<1>2. PICK ix \in Slots : ix = First(Trapped) /\ eptr[ix] # None
  BY <1>1 DEF Trapped
<1>3. PICK j \in Job : j = eptr[ix]
  BY <1>0, <1>2 DEF SlotsOK
<1>4. /\ eptr' = [eptr EXCEPT ![ix] = None]
      /\ status' = [status EXCEPT ![j] = "rethrown"]
      /\ UNCHANGED <<is_being_processed, task_id, thread_id, next_task_id, fn,
                     id, parent, inline, idx, frame>>
  BY <1>2, <1>3 DEF Propagates
<1>5. status[j] = "failed" /\ \A k \in Slots : eptr[k] = j => k = ix
  BY <1>0, <1>2, <1>3 DEF Exceptions, NoExceptionLost
<1>6. SlotsOK' /\ JobsOK'
  BY <1>0, <1>4 DEF SlotsOK, JobsOK, Statuses, is_empty
<1>7. SlotJobs'
  BY <1>0, <1>4, <1>5 DEF SlotJobs, SlotsOK, JobsOK
<1>8. JobSlots'
  BY <1>0, <1>4, <1>5 DEF JobSlots, JobsOK
<1>9. Ids'
  BY <1>0, <1>4 DEF Ids
<1>10. Exceptions'
  <2>1. \A k \in Slots : eptr'[k] = IF k = ix THEN None ELSE eptr[k]
    BY <1>0, <1>4 DEF SlotsOK
  <2>2. \A k \in Job : status'[k] = IF k = j THEN "rethrown" ELSE status[k]
    BY <1>0, <1>4 DEF JobsOK
  <2>3. ASSUME NEW k \in Job
        PROVE  status'[k] = "failed" <=> \E m \in Slots : eptr'[m] = k
    <3>1. CASE k = j
      BY <1>5, <1>n, <2>1, <2>2, <3>1
    <3>2. CASE k # j
      BY <1>0, <1>3, <1>n, <2>1, <2>2, <3>2 DEF Exceptions, NoExceptionLost
    <3> QED
      BY <3>1, <3>2
  <2>4. \A k, m \in Slots : eptr'[k] = eptr'[m] /\ eptr'[k] # None => k = m
    BY <1>0, <2>1 DEF Exceptions
  <2> QED
    BY <2>3, <2>4 DEF Exceptions, NoExceptionLost
<1>11. OnStacks'
  <2>1. PICK own \in [Job -> Thread \cup {None}], depth \in [Job -> Nat \ {0}] : Stacks(own, depth)
    BY <1>0 DEF OnStacks
  <2>2. Running' = Running
    BY <1>0, <1>4, <1>5 DEF Running, JobsOK
  <2>3. Stacks(own, depth)'
    BY <1>4, <2>1, <2>2 DEF Stacks, Tops, Bottoms, Chained, OneAtEachDepth
  <2> QED
    BY <2>3 DEF OnStacks
<1> QED
  BY <1>6, <1>7, <1>8, <1>9, <1>10, <1>11 DEF Tasks

(* A worker takes the task of a ready slot. *)
LEMMA TakesTasks ==
    ASSUME Tasks, NEW w \in Worker, frame[w] = None, NEW ix \in Slots, ix \in Ready,
           Takes(w, ix), UNCHANGED <<id, parent, inline>>
    PROVE  Tasks'
<1>0. SlotsOK /\ JobsOK /\ SlotJobs /\ JobSlots /\ Ids /\ Exceptions /\ OnStacks
  BY DEF Tasks
<1>n. None \notin Job /\ w \in Thread
  BY PoolAssumption DEF Thread
<1>1. fn[ix] # None /\ ~ is_being_processed[ix]
  BY <1>0 DEF Ready, is_ready, SlotsOK
<1>2. PICK j \in Job : j = fn[ix]
  BY <1>0, <1>1 DEF SlotsOK
<1>3. /\ is_being_processed' = [is_being_processed EXCEPT ![ix] = TRUE]
      /\ idx' = [idx EXCEPT ![w] = ix]
      /\ frame' = [frame EXCEPT ![w] = j]
      /\ status' = [status EXCEPT ![j] = "running"]
      /\ UNCHANGED <<task_id, thread_id, next_task_id, eptr, fn, id, parent, inline>>
  BY <1>2 DEF Takes
<1>4. status[j] = "queued" /\ ~ inline[j] /\ id[j] = task_id[ix] /\ id[j] > 1
  BY <1>0, <1>1, <1>2 DEF SlotJobs, SlotsOK
<1>5. \A k \in Slots : fn[k] = j => k = ix
  BY <1>0, <1>2, <1>4, <1>n DEF SlotJobs, SlotsOK
<1>6. SlotsOK' /\ JobsOK'
  BY <1>0, <1>1, <1>3, <1>n DEF SlotsOK, JobsOK, Statuses, is_empty
<1>7. SlotJobs'
  BY <1>0, <1>1, <1>2, <1>3, <1>5 DEF SlotJobs, SlotsOK, JobsOK
<1>8. JobSlots'
  BY <1>0, <1>3, <1>4 DEF JobSlots, JobsOK
<1>9. Ids'
  BY <1>0, <1>3 DEF Ids
<1>10. Exceptions'
  BY <1>0, <1>3, <1>4 DEF Exceptions, NoExceptionLost, JobsOK
<1>11. OnStacks'
  <2>1. PICK own \in [Job -> Thread \cup {None}], depth \in [Job -> Nat \ {0}] : Stacks(own, depth)
    BY <1>0 DEF OnStacks
  <2>3. PICK o \in [Job -> Thread \cup {None}] : o = [own EXCEPT ![j] = w]
    BY <1>n
  <2>2. [depth EXCEPT ![j] = 1] \in [Job -> Nat \ {0}]
    OBVIOUS
  <2>4. PICK d \in [Job -> Nat \ {0}] : d = [depth EXCEPT ![j] = 1]
    BY <2>2
  <2>5. Running' = Running \cup {j} /\ j \notin Running /\ Running \subseteq Job
    BY <1>0, <1>3, <1>4 DEF Running, JobsOK
  <2>6. \A k \in Running : o[k] = own[k] /\ d[k] = depth[k]
    BY <2>3, <2>4, <2>5
  <2>7. o[j] = w /\ d[j] = 1 /\ ~ inline'[j]
    BY <1>3, <1>4, <2>3, <2>4
  <2>8. frame'[w] = j /\ \A s \in Thread \ {w} : frame'[s] = frame[s]
    BY <1>0, <1>3, <1>n DEF JobsOK
  <2>9. \A k \in Running : own[k] \in Thread \ {w}
    BY <2>1, <2>5 DEF Stacks, Tops
  <2>10. idx'[w] = ix /\ \A v \in Worker \ {w} : idx'[v] = idx[v]
    BY <1>0, <1>3 DEF JobsOK
  <2>11. Tops(o, d)'
    <3>1. ASSUME NEW s \in Thread, frame'[s] # None
          PROVE  frame'[s] \in Running' /\ o[frame'[s]] = s
      BY <2>1, <2>5, <2>6, <2>7, <2>8, <3>1 DEF Stacks, Tops
    <3>2. ASSUME NEW k \in Running'
          PROVE  /\ o[k] \in Thread /\ frame'[o[k]] # None
                 /\ d[k] <= d[frame'[o[k]]]
      <4>1. CASE k = j
        BY <1>n, <2>7, <2>8, <4>1
      <4>2. CASE k # j
        <5>1. k \in Running /\ own[k] \in Thread \ {w}
          BY <2>5, <2>9, <4>2
        <5>2. frame'[o[k]] = frame[own[k]]
          BY <2>6, <2>8, <5>1
        <5>3. frame[own[k]] \in Running /\ depth[k] <= depth[frame[own[k]]]
              /\ frame[own[k]] # None
          BY <2>1, <5>1 DEF Stacks, Tops
        <5> QED
          BY <2>6, <5>1, <5>2, <5>3
      <4> QED
        BY <4>1, <4>2
    <3> QED
      BY <3>1, <3>2 DEF Tops
  <2>12. Bottoms(o, d)'
    <3>1. ASSUME NEW v \in Worker, frame'[v] # None
          PROVE  fn'[idx'[v]] \in Running' /\ o[fn'[idx'[v]]] = v
      <4>1. CASE v = w
        BY <1>2, <1>3, <2>5, <2>7, <2>10, <4>1
      <4>2. CASE v # w
        <5>1. frame[v] # None
          BY <2>8, <3>1, <4>2 DEF Thread
        <5>2. fn[idx[v]] \in Running /\ own[fn[idx[v]]] = v
          BY <2>1, <5>1 DEF Stacks, Bottoms
        <5>3. fn'[idx'[v]] = fn[idx[v]]
          BY <1>3, <2>10, <4>2
        <5> QED
          BY <2>5, <2>6, <5>2, <5>3
      <4> QED
        BY <4>1, <4>2
    <3>2. ASSUME NEW k \in Running', ~ inline'[k]
          PROVE  d[k] = 1 /\ o[k] \in Worker /\ fn'[idx'[o[k]]] = k
      <4>1. CASE k = j
        BY <1>2, <1>3, <2>7, <2>10, <4>1
      <4>2. CASE k # j
        <5>1. k \in Running /\ ~ inline[k]
          BY <1>3, <2>5, <3>2, <4>2
        <5>2. depth[k] = 1 /\ own[k] \in Worker /\ fn[idx[own[k]]] = k
          BY <2>1, <5>1 DEF Stacks, Bottoms
        <5> QED
          BY <1>3, <2>6, <2>9, <2>10, <5>1, <5>2
      <4> QED
        BY <4>1, <4>2
    <3>3. ASSUME NEW k \in Running', inline'[k], parent'[k] = None
          PROVE  d[k] = 1 /\ o[k] \in Client
      <4>1. k \in Running /\ inline[k] /\ parent[k] = None
        BY <1>3, <2>5, <2>7, <3>3
      <4> QED
        BY <2>1, <2>6, <4>1 DEF Stacks, Bottoms
    <3> QED
      BY <3>1, <3>2, <3>3 DEF Bottoms
  <2>13. Chained(o, d)'
    <3> SUFFICES ASSUME NEW k \in Running', inline'[k], parent'[k] # None
                 PROVE  /\ parent'[k] \in Running' /\ o[parent'[k]] = o[k]
                        /\ d[k] = d[parent'[k]] + 1
      BY DEF Chained
    <3>1. k \in Running /\ inline[k] /\ parent'[k] = parent[k] /\ parent[k] # None
      BY <1>3, <2>5, <2>7
    <3>2. parent[k] \in Running /\ own[parent[k]] = own[k] /\ depth[k] = depth[parent[k]] + 1
      BY <2>1, <3>1 DEF Stacks, Chained
    <3> QED
      BY <2>5, <2>6, <3>1, <3>2
  <2>14. OneAtEachDepth(o, d)'
    BY <2>1, <2>5, <2>6, <2>7, <2>9 DEF Stacks, OneAtEachDepth
  <2>15. Stacks(o, d)'
    BY <2>11, <2>12, <2>13, <2>14 DEF Stacks
  <2> QED
    BY <2>15 DEF OnStacks
<1> QED
  BY <1>6, <1>7, <1>8, <1>9, <1>10, <1>11 DEF Tasks

-----------------------------------------------------------------------------
(* The task on top of a stack ends: nothing on the stacks is left above it, *)
(* and what is left of its stack is below it.                              *)
LEMMA TopEnds ==
    ASSUME JobsOK, NEW own \in [Job -> Thread \cup {None}], NEW depth \in [Job -> Nat \ {0}],
           Stacks(own, depth), NEW t \in Thread, NEW j \in Job, frame[t] = j
    PROVE  /\ j \in Running /\ own[j] = t
           /\ \A k \in Running \ {j} : own[k] = t => depth[k] < depth[j]
           /\ \A k \in Running : inline[k] => parent[k] # j
<1>n. j # None /\ None \notin Job
  BY PoolAssumption
<1>1. j \in Running /\ own[j] = t
  BY <1>n DEF Stacks, Tops
<1>2. \A k \in Running : own[k] = t => depth[k] <= depth[j]
  BY DEF Stacks, Tops
<1>3. \A k \in Running \ {j} : own[k] = t => depth[k] # depth[j]
  BY <1>1 DEF Stacks, OneAtEachDepth
<1>4. Running \subseteq Job
  BY DEF Running
<1>5. \A k \in Running \ {j} : own[k] = t => depth[k] < depth[j]
  BY <1>2, <1>3, <1>4
<1>6. ASSUME NEW k \in Running, inline[k], parent[k] = j PROVE FALSE
  <2>1. own[j] = own[k] /\ depth[k] = depth[j] + 1
    BY <1>6, <1>n DEF Stacks, Chained
  <2> QED
    BY <1>1, <1>2, <1>4, <2>1
<1> QED
  BY <1>1, <1>5, <1>6

LEMMA InlineEndsTasks ==
    ASSUME Tasks, NEW t \in Thread, InlineEnds(t)
    PROVE  Tasks' /\ (t \in Worker => frame'[t] # None)
<1>0. SlotsOK /\ JobsOK /\ SlotJobs /\ JobSlots /\ Ids /\ Exceptions /\ OnStacks
  BY DEF Tasks
<1>n. None \notin Job
  BY PoolAssumption
<1>1. PICK j \in Job : j = frame[t] /\ inline[j]
  BY <1>0 DEF InlineEnds, JobsOK
<1>2. PICK v \in {"rethrown", "done"}, n \in {0, 1} :
          /\ status' = [status EXCEPT ![j] = v]
          /\ id' = [id EXCEPT ![j] = n]
  BY <1>1 DEF InlineEnds
<1>3. /\ frame' = [frame EXCEPT ![t] = parent[j]]
      /\ UNCHANGED <<is_being_processed, task_id, thread_id, next_task_id, eptr, fn,
                     idx, parent, inline>>
  BY <1>1 DEF InlineEnds, slots
<1>4. PICK own \in [Job -> Thread \cup {None}], depth \in [Job -> Nat \ {0}] : Stacks(own, depth)
  BY <1>0 DEF OnStacks
<1>5. /\ j \in Running /\ own[j] = t
      /\ \A k \in Running \ {j} : own[k] = t => depth[k] < depth[j]
      /\ \A k \in Running : inline[k] => parent[k] # j
  BY <1>0, <1>1, <1>4, TopEnds
<1>6. status[j] = "running" /\ \A ix \in Slots : fn[ix] # j
  BY <1>0, <1>1, <1>5, <1>n DEF Running, SlotJobs
<1>7. SlotsOK' /\ JobsOK'
  BY <1>0, <1>2, <1>3 DEF SlotsOK, JobsOK, Statuses, is_empty
<1>8. SlotJobs'
  BY <1>0, <1>2, <1>3, <1>6 DEF SlotJobs, SlotsOK, JobsOK
<1>9. JobSlots'
  BY <1>0, <1>1, <1>2, <1>3 DEF JobSlots, JobsOK
<1>10. Ids'
  <2>1. \A k \in Job : id'[k] > 1 => id'[k] = id[k]
    BY <1>0, <1>2 DEF JobsOK
  <2> QED
    BY <1>0, <1>3, <2>1 DEF Ids
<1>11. Exceptions'
  BY <1>0, <1>2, <1>3, <1>6 DEF Exceptions, NoExceptionLost, JobsOK
<1>12. /\ Running' = Running \ {j} /\ Running \subseteq Job
       /\ frame'[t] = parent[j] /\ \A s \in Thread \ {t} : frame'[s] = frame[s]
  BY <1>0, <1>2, <1>3 DEF Running, JobsOK
<1>13. parent[j] # None => /\ parent[j] \in Running /\ parent[j] # j
                           /\ own[parent[j]] = t /\ depth[j] = depth[parent[j]] + 1
  BY <1>1, <1>4, <1>5 DEF Stacks, Chained
<1>14. parent[j] = None => depth[j] = 1 /\ t \in Client
  BY <1>1, <1>4, <1>5 DEF Stacks, Bottoms
<1>15. Tops(own, depth)'
  <2>1. ASSUME NEW s \in Thread, frame'[s] # None
        PROVE  frame'[s] \in Running' /\ own[frame'[s]] = s
    <3>1. CASE s = t
      BY <1>12, <1>13, <2>1, <3>1
    <3>2. CASE s # t
      BY <1>4, <1>5, <1>12, <2>1, <3>2 DEF Stacks, Tops
    <3> QED
      BY <3>1, <3>2
  <2>2. ASSUME NEW k \in Running'
        PROVE  /\ own[k] \in Thread /\ frame'[own[k]] # None
               /\ depth[k] <= depth[frame'[own[k]]]
    <3>0. k \in Running \ {j} /\ k \in Job /\ depth[k] \in Nat \ {0}
      BY <1>12
    <3>1. CASE own[k] = t
      <4>1. depth[k] < depth[j] /\ depth[j] \in Nat
        BY <1>5, <3>0, <3>1
      <4>2. parent[j] # None
        BY <1>14, <3>0, <4>1
      <4>3. depth[parent[j]] \in Nat
        BY <1>12, <1>13, <4>2
      <4> QED
        BY <1>12, <1>13, <3>0, <3>1, <4>1, <4>2, <4>3
    <3>2. CASE own[k] # t
      <4>1. frame'[own[k]] = frame[own[k]]
        BY <1>4, <1>12, <3>0, <3>2 DEF Stacks, Tops
      <4> QED
        BY <1>4, <3>0, <4>1 DEF Stacks, Tops
    <3> QED
      BY <3>1, <3>2
  <2> QED
    BY <2>1, <2>2 DEF Tops
<1>16. Bottoms(own, depth)'
  <2>1. ASSUME NEW w \in Worker, frame'[w] # None
        PROVE  fn'[idx'[w]] \in Running' /\ own[fn'[idx'[w]]] = w
    <3>1. frame[w] # None
      BY <1>1, <1>12, <1>n, <2>1 DEF Thread
    <3>2. fn[idx[w]] \in Running /\ own[fn[idx[w]]] = w
      BY <1>4, <3>1 DEF Stacks, Bottoms
    <3>3. fn'[idx'[w]] = fn[idx[w]] /\ fn[idx[w]] # j
      BY <1>0, <1>3, <1>6 DEF JobsOK
    <3> QED
      BY <1>12, <3>2, <3>3
  <2>2. ASSUME NEW k \in Running', ~ inline'[k]
        PROVE  depth[k] = 1 /\ own[k] \in Worker /\ fn'[idx'[own[k]]] = k
    BY <1>3, <1>4, <1>12, <2>2 DEF Stacks, Bottoms
  <2>3. ASSUME NEW k \in Running', inline'[k], parent'[k] = None
        PROVE  depth[k] = 1 /\ own[k] \in Client
    BY <1>3, <1>4, <1>12, <2>3 DEF Stacks, Bottoms
  <2> QED
    BY <2>1, <2>2, <2>3 DEF Bottoms
<1>17. Chained(own, depth)'
  BY <1>3, <1>4, <1>5, <1>12 DEF Stacks, Chained
<1>18. OneAtEachDepth(own, depth)'
  BY <1>4, <1>12 DEF Stacks, OneAtEachDepth
<1>19. Stacks(own, depth)'
  BY <1>15, <1>16, <1>17, <1>18 DEF Stacks
<1>20. OnStacks'
  BY <1>19 DEF OnStacks
<1>21. t \in Worker => frame'[t] # None
  BY <1>12, <1>14, PoolAssumption
<1> QED
  BY <1>7, <1>8, <1>9, <1>10, <1>11, <1>20, <1>21 DEF Tasks

LEMMA TaskEndsTasks ==
    ASSUME Tasks, NEW w \in Worker, TaskEnds(w)
    PROVE  Tasks'
<1>0. SlotsOK /\ JobsOK /\ SlotJobs /\ JobSlots /\ Ids /\ Exceptions /\ OnStacks
  BY DEF Tasks
<1>n. None \notin Job /\ w \in Thread /\ Worker \subseteq Thread
  BY PoolAssumption DEF Thread
<1>1. PICK j \in Job : j = frame[w] /\ ~ inline[j]
  BY <1>0, <1>n DEF TaskEnds, JobsOK
<1>2. PICK ix \in Slots : ix = idx[w]
  BY <1>0 DEF JobsOK
<1>3. PICK threw \in BOOLEAN :
          /\ eptr' = [eptr EXCEPT ![ix] = IF threw THEN j ELSE None]
          /\ status' = [status EXCEPT ![j] = IF threw THEN "failed" ELSE "done"]
  BY <1>1, <1>2 DEF TaskEnds, Done
<1>4. /\ is_being_processed' = [is_being_processed EXCEPT ![ix] = FALSE]
      /\ task_id' = [task_id EXCEPT ![ix] = 0]
      /\ fn' = [fn EXCEPT ![ix] = None]
      /\ frame' = [frame EXCEPT ![w] = None]
      /\ UNCHANGED <<thread_id, next_task_id, idx, id, parent, inline>>
  BY <1>1, <1>2 DEF TaskEnds, Done
<1>5. PICK own \in [Job -> Thread \cup {None}], depth \in [Job -> Nat \ {0}] : Stacks(own, depth)
  BY <1>0 DEF OnStacks
<1>6. /\ j \in Running /\ own[j] = w
      /\ \A k \in Running \ {j} : own[k] = w => depth[k] < depth[j]
      /\ \A k \in Running : inline[k] => parent[k] # j
  BY <1>0, <1>1, <1>5, <1>n, TopEnds
<1>7. depth[j] = 1 /\ fn[ix] = j
  BY <1>1, <1>2, <1>5, <1>6 DEF Stacks, Bottoms
<1>8. status[j] = "running" /\ eptr[ix] = None /\ id[j] = task_id[ix] /\ id[j] > 1
  BY <1>0, <1>6, <1>7, <1>n DEF Running, SlotJobs, SlotsOK, is_empty
<1>9. \A k \in Slots : fn[k] = j => k = ix
  BY <1>0, <1>7, <1>8, <1>n DEF SlotJobs, SlotsOK, is_empty
<1>10. SlotsOK'
  BY <1>0, <1>3, <1>4 DEF SlotsOK, is_empty
<1>11. JobsOK'
  BY <1>0, <1>3, <1>4 DEF JobsOK, Statuses
<1>12. SlotJobs'
  BY <1>0, <1>3, <1>4, <1>9 DEF SlotJobs, SlotsOK, JobsOK
<1>13. JobSlots'
  <2> SUFFICES ASSUME NEW k \in Job
               PROVE  /\ status'[k] = "queued" => \E m \in Slots : fn'[m] = k
                      /\ status'[k] = "new" => id'[k] = 0 /\ ~ inline'[k]
                      /\ inline'[k] => status'[k] \in {"running", "done", "rethrown"} /\ id'[k] <= 1
                      /\ id'[k] = 1 => inline'[k]
    BY DEF JobSlots
  <2>1. CASE k = j
    BY <1>0, <1>1, <1>3, <1>4, <1>8, <2>1 DEF JobsOK
  <2>2. CASE k # j
    <3>1. status'[k] = status[k] /\ id'[k] = id[k] /\ inline'[k] = inline[k]
      BY <1>0, <1>3, <1>4, <2>2 DEF JobsOK
    <3>2. ASSUME NEW m \in Slots, fn[m] = k PROVE fn'[m] = k
      BY <1>0, <1>4, <1>7, <2>2, <3>2 DEF SlotsOK
    <3> QED
      BY <1>0, <3>1, <3>2 DEF JobSlots
  <2> QED
    BY <2>1, <2>2
<1>14. Ids'
  BY <1>0, <1>4 DEF Ids
<1>15. Exceptions'
  <2>1. \A k \in Slots : eptr'[k] = IF k = ix THEN (IF threw THEN j ELSE None) ELSE eptr[k]
    BY <1>0, <1>3 DEF SlotsOK
  <2>2. \A k \in Job : status'[k] = IF k = j THEN (IF threw THEN "failed" ELSE "done")
                                    ELSE status[k]
    BY <1>0, <1>3 DEF JobsOK
  <2>3. \A k \in Slots : eptr[k] # j
    BY <1>0, <1>8 DEF Exceptions, NoExceptionLost
  <2>4. ASSUME NEW k \in Job
        PROVE  status'[k] = "failed" <=> \E m \in Slots : eptr'[m] = k
    <3>1. CASE k = j
      BY <1>n, <2>1, <2>2, <2>3, <3>1
    <3>2. CASE k # j
      <4>1. ASSUME NEW m \in Slots PROVE eptr'[m] = k <=> eptr[m] = k
        BY <1>8, <1>n, <2>1, <3>2
      <4> QED
        BY <1>0, <2>2, <3>2, <4>1 DEF Exceptions, NoExceptionLost
    <3> QED
      BY <3>1, <3>2
  <2>5. \A k, m \in Slots : eptr'[k] = eptr'[m] /\ eptr'[k] # None => k = m
    BY <1>0, <2>1, <2>3 DEF Exceptions
  <2> QED
    BY <2>4, <2>5 DEF Exceptions, NoExceptionLost
<1>16. /\ Running' = Running \ {j} /\ Running \subseteq Job
       /\ frame'[w] = None /\ \A s \in Thread \ {w} : frame'[s] = frame[s]
  BY <1>0, <1>3, <1>4, <1>n DEF Running, JobsOK
<1>17. \A k \in Running \ {j} : own[k] \in Thread \ {w}
  <2> SUFFICES ASSUME NEW k \in Running \ {j}, own[k] = w PROVE FALSE
    BY <1>5, <1>16 DEF Stacks, Tops
  <2>1. depth[k] < 1 /\ depth[k] \in Nat \ {0}
    BY <1>6, <1>7, <1>16
  <2> QED
    BY <2>1
<1>18. \A v \in Worker \ {w} : frame[v] # None => idx[v] # ix
  <2> SUFFICES ASSUME NEW v \in Worker \ {w}, frame[v] # None, idx[v] = ix PROVE FALSE
    OBVIOUS
  <2>1. own[fn[idx[v]]] = v
    BY <1>5 DEF Stacks, Bottoms
  <2> QED
    BY <1>6, <1>7, <2>1
<1>19. Tops(own, depth)'
  <2>1. ASSUME NEW s \in Thread, frame'[s] # None
        PROVE  frame'[s] \in Running' /\ own[frame'[s]] = s
    BY <1>5, <1>6, <1>16, <2>1 DEF Stacks, Tops
  <2>2. ASSUME NEW k \in Running'
        PROVE  /\ own[k] \in Thread /\ frame'[own[k]] # None
               /\ depth[k] <= depth[frame'[own[k]]]
    <3>1. k \in Running \ {j} /\ frame'[own[k]] = frame[own[k]]
      BY <1>16, <1>17
    <3> QED
      BY <1>5, <3>1 DEF Stacks, Tops
  <2> QED
    BY <2>1, <2>2 DEF Tops
<1>20. Bottoms(own, depth)'
  <2>1. ASSUME NEW v \in Worker, frame'[v] # None
        PROVE  fn'[idx'[v]] \in Running' /\ own[fn'[idx'[v]]] = v
    <3>1. v # w /\ frame[v] # None
      BY <1>16, <1>n, <2>1
    <3>2. fn[idx[v]] \in Running /\ own[fn[idx[v]]] = v
      BY <1>5, <3>1 DEF Stacks, Bottoms
    <3>3. idx[v] \in Slots /\ idx[v] # ix
      BY <1>0, <1>18, <3>1 DEF JobsOK
    <3>4. fn'[idx'[v]] = fn[idx[v]] /\ fn[idx[v]] # j
      BY <1>0, <1>4, <1>9, <3>3 DEF SlotsOK
    <3> QED
      BY <1>16, <3>2, <3>4
  <2>2. ASSUME NEW k \in Running', ~ inline'[k]
        PROVE  depth[k] = 1 /\ own[k] \in Worker /\ fn'[idx'[own[k]]] = k
    <3>1. k \in Running \ {j} /\ ~ inline[k]
      BY <1>4, <1>16, <2>2
    <3>2. depth[k] = 1 /\ own[k] \in Worker /\ fn[idx[own[k]]] = k
      BY <1>5, <3>1 DEF Stacks, Bottoms
    <3>3. idx[own[k]] \in Slots /\ idx[own[k]] # ix
      BY <1>0, <1>7, <3>1, <3>2 DEF JobsOK
    <3>4. fn'[idx'[own[k]]] = fn[idx[own[k]]]
      BY <1>0, <1>4, <3>3 DEF SlotsOK
    <3> QED
      BY <3>2, <3>4
  <2>3. ASSUME NEW k \in Running', inline'[k], parent'[k] = None
        PROVE  depth[k] = 1 /\ own[k] \in Client
    BY <1>4, <1>5, <1>16, <2>3 DEF Stacks, Bottoms
  <2> QED
    BY <2>1, <2>2, <2>3 DEF Bottoms
<1>21. Chained(own, depth)'
  BY <1>4, <1>5, <1>6, <1>16 DEF Stacks, Chained
<1>22. OneAtEachDepth(own, depth)'
  BY <1>5, <1>16 DEF Stacks, OneAtEachDepth
<1>23. OnStacks'
  <2>1. Stacks(own, depth)'
    BY <1>19, <1>20, <1>21, <1>22 DEF Stacks
  <2> QED
    BY <2>1 DEF OnStacks
<1> QED
  BY <1>10, <1>11, <1>12, <1>13, <1>14, <1>15, <1>23 DEF Tasks

(* Every other step leaves slots, tasks and stacks alone. *)
LEMMA SameTasks ==
    ASSUME Tasks, UNCHANGED <<slots, jobs, idx, frame>>
    PROVE  Tasks'
<1>1. SlotsOK' /\ JobsOK'
  BY DEF Tasks, SlotsOK, JobsOK, slots, jobs, is_empty
<1>2. SlotJobs' /\ JobSlots' /\ Ids' /\ Exceptions'
  BY DEF Tasks, SlotJobs, JobSlots, Ids, Exceptions, NoExceptionLost, slots, jobs
<1>3. OnStacks'
  <2>1. PICK own \in [Job -> Thread \cup {None}], depth \in [Job -> Nat \ {0}] : Stacks(own, depth)
    BY DEF Tasks, OnStacks
  <2>2. Stacks(own, depth)'
    BY <2>1 DEF Stacks, Tops, Bottoms, Chained, OneAtEachDepth, Running, slots, jobs
  <2> QED
    BY <2>2 DEF OnStacks
<1> QED
  BY <1>1, <1>2, <1>3 DEF Tasks

-----------------------------------------------------------------------------
(* Where the threads are. *)
WaitStates == {"no", "parked", "woken"}

LEMMA SignalledType ==
    ASSUME ThreadsOK, NEW t \in Thread, NEW sig
    PROVE  /\ NotWaiting(t) \in [Thread -> WaitStates]
           /\ Broadcast(sig) \in [Thread -> WaitStates]
           /\ [Broadcast(sig) EXCEPT ![t] = "no"] \in [Thread -> WaitStates]
           /\ [wait EXCEPT ![t] = "parked"] \in [Thread -> WaitStates]
           /\ Signalled(NotWaiting(t), sig) \subseteq [Thread -> WaitStates]
BY DEF ThreadsOK, NotWaiting, Broadcast, Signalled, Parked, WaitStates

(* A caller of the pool is a worker in the code of a task, or a client of  *)
(* a pool that lives.                                                      *)
LEMMA Callers ==
    ASSUME Places, NEW t \in Thread,
           InUser(t) \/ Wakes(t, "room") \/ Wakes(t, "task") \/ Wakes(t, "all")
    PROVE  /\ t \in Worker => /\ pc[t] \in {"user", "task", "all"}
                              /\ frame[t] # None
                              /\ t \in worker_thread_ids
           /\ t \in Client => life = "alive"
           /\ ~ we_are_destructing
<1>1. t \in Worker => /\ pc[t] \in {"user", "task", "all"}
                      /\ frame[t] # None
                      /\ t \in worker_thread_ids
  BY DEF Places, WorkerPlaces, InUser, Wakes, Outside
<1>2. t \in Client => life = "alive"
  BY DEF Places, ClientPlaces, InUser, Wakes
<1> QED
  BY <1>1, <1>2 DEF Places, Ending, Thread

(* The calls of others that wait for room still hold tasks of their own. *)
Undisturbed(t, x) ==
    \A s \in Thread \ {t} : pc[s] = "room" => status'[arg[s]] = "new" /\ arg[s] # x

(* What t may wait with at v. *)
MayWait(t, v, x) ==
    /\ v = "room" => /\ x \in Job /\ status'[x] = "new" /\ t \notin Worker
                     /\ \A s \in Thread \ {t} : arg[s] # x
    /\ v = "task" => x \in Job

LEMMA CallerMoves ==
    ASSUME Places, NEW t \in Thread, NEW v \in {"user", "room", "task", "all"},
           NEW x \in Job \cup {None},
           InUser(t) \/ Wakes(t, "room") \/ Wakes(t, "task") \/ Wakes(t, "all"),
           pc' = [pc EXCEPT ![t] = v],
           arg' = [arg EXCEPT ![t] = x],
           wait' \in [Thread -> WaitStates],
           UNCHANGED <<frame, worker_thread_ids, life, we_are_destructing>>,
           Undisturbed(t, x), MayWait(t, v, x)
    PROVE  Places'
<1>1. /\ t \in Worker => pc[t] \in {"user", "task", "all"} /\ frame[t] # None
      /\ t \in Client => life = "alive"
      /\ ~ we_are_destructing
  BY Callers
<1>0. ThreadsOK /\ WorkerPlaces /\ ClientPlaces /\ Waiting
  BY DEF Places
<1>2. ThreadsOK'
  BY <1>0 DEF ThreadsOK, TaskDone, WaitStates
<1>3. WorkerPlaces'
  <2>1. t \in Worker => v # "room"
    BY DEF MayWait
  <2> QED
    BY <1>0, <1>1, <2>1 DEF WorkerPlaces, Outside, ThreadsOK
<1>4. ClientPlaces'
  BY <1>0, <1>1 DEF ClientPlaces, ThreadsOK, TaskDone
<1>5. Waiting'
  BY <1>0 DEF Waiting, ThreadsOK, Undisturbed, MayWait
<1>6. Ending'
  BY <1>1 DEF Ending
<1> QED
  BY <1>2, <1>3, <1>4, <1>5, <1>6 DEF Places

(* A task that is put into a slot is nobody else's. *)
LEMMA HandsPlaces ==
    ASSUME Tasks, Places, NEW t \in Thread, NEW j \in Job, NEW ix \in Slots,
           InUser(t) \/ Wakes(t, "room"),
           \A s \in Thread \ {t} : pc[s] = "room" => arg[s] # j,
           Hands(t, j, ix),
           UNCHANGED <<frame, worker_thread_ids, life, we_are_destructing>>
    PROVE  Places'
<1>1. wait' \in [Thread -> WaitStates]
  BY SignalledType DEF Hands, Places
<1>2. ASSUME NEW s \in Thread \ {t}, pc[s] = "room"
      PROVE  status'[arg[s]] = "new" /\ arg[s] # None
  BY <1>2, PoolAssumption DEF Places, Waiting, Hands, Tasks, JobsOK
<1>3. pc' = [pc EXCEPT ![t] = "user"] /\ arg' = [arg EXCEPT ![t] = None]
  BY DEF Hands, Returns
<1>4. Undisturbed(t, None) /\ MayWait(t, "user", None)
  BY <1>2 DEF Undisturbed, MayWait
<1> QED
  BY <1>1, <1>3, <1>4, CallerMoves

LEMMA PropagatesPlaces ==
    ASSUME Tasks, Places, NEW t \in Thread, Trapped # {},
           InUser(t) \/ Wakes(t, "room") \/ Wakes(t, "task") \/ Wakes(t, "all"),
           Propagates(t),
           UNCHANGED <<frame, worker_thread_ids, life, we_are_destructing>>
    PROVE  Places'
<1>1. wait' \in [Thread -> WaitStates]
  BY SignalledType DEF Propagates, Places
<1>2. First(Trapped) \in Trapped
  BY LeastNatural DEF Trapped
<1>3. status[eptr[First(Trapped)]] = "failed"
  BY <1>2 DEF Tasks, Exceptions, NoExceptionLost, Trapped, SlotsOK
<1>4. ASSUME NEW s \in Thread \ {t}, pc[s] = "room"
      PROVE  status'[arg[s]] = "new" /\ arg[s] # None
  BY <1>3, <1>4, PoolAssumption DEF Places, Waiting, Propagates, Tasks, JobsOK
<1>5. pc' = [pc EXCEPT ![t] = "user"] /\ arg' = [arg EXCEPT ![t] = None]
  BY DEF Propagates, Returns
<1>6. Undisturbed(t, None) /\ MayWait(t, "user", None)
  BY <1>4 DEF Undisturbed, MayWait
<1> QED
  BY <1>1, <1>5, <1>6, CallerMoves

(* A wait for tasks: the call parks, or returns, with or without an exception. *)
LEMMA WaitBodyKeeps ==
    ASSUME PoolInv, NEW t \in Thread, NEW busy \in BOOLEAN, NEW at \in {"task", "all"},
           NEW x \in Job \cup {None}, at = "task" => x \in Job,
           \A s \in Thread \ {t} : pc[s] = "room" => arg[s] # x,
           InUser(t) \/ Wakes(t, "task") \/ Wakes(t, "all"),
           WaitBody(t, busy, at, x)
    PROVE  PoolInv'
<1>0. Tasks /\ Places
  BY DEF PoolInv
<1>u. UNCHANGED <<worker_thread_ids, we_are_destructing, life, idx, frame, inline>>
  BY DEF WaitBody
<1>r. \A s \in Thread \ {t} : pc[s] = "room" => status[arg[s]] = "new" /\ arg[s] # None
  BY <1>0, PoolAssumption DEF Places, Waiting
<1>1. CASE Parks(t, at, x) /\ UNCHANGED <<slots, status, id, parent>>
  <2>1. Tasks'
    BY <1>0, <1>1, <1>u, SameTasks DEF jobs
  <2>2. wait' \in [Thread -> WaitStates]
    BY <1>0, <1>1, SignalledType DEF Parks, Places
  <2>3. Undisturbed(t, x) /\ MayWait(t, at, x)
    BY <1>1, <1>r DEF Undisturbed, MayWait
  <2>4. Places'
    BY <1>0, <1>1, <1>u, <2>2, <2>3, CallerMoves DEF Parks
  <2> QED
    BY <2>1, <2>4 DEF PoolInv
<1>2. CASE Trapped # {} /\ Propagates(t)
  BY <1>0, <1>2, <1>u, PropagatesTasks, PropagatesPlaces DEF PoolInv
<1>3. CASE Returns(t) /\ wait' = NotWaiting(t) /\ UNCHANGED <<slots, status, id, parent>>
  <2>1. Tasks'
    BY <1>0, <1>3, <1>u, SameTasks DEF jobs
  <2>2. wait' \in [Thread -> WaitStates]
    BY <1>0, <1>3, SignalledType DEF Places
  <2>3. Undisturbed(t, None) /\ MayWait(t, "user", None)
    BY <1>3, <1>r DEF Undisturbed, MayWait
  <2>4. Places'
    BY <1>0, <1>3, <1>u, <2>2, <2>3, CallerMoves DEF Returns
  <2> QED
    BY <2>1, <2>4 DEF PoolInv
<1> QED
  BY <1>1, <1>2, <1>3 DEF WaitBody

-----------------------------------------------------------------------------
(* One lemma per action. *)
LEMMA AddKeeps ==
    ASSUME PoolInv, NEW t \in Thread, NEW j \in Job, add_task(t, j)
    PROVE  PoolInv'
<1>0. Tasks /\ Places
  BY DEF PoolInv
<1>1. /\ InUser(t) /\ status[j] = "new" /\ \A s \in Thread : arg[s] # j
      /\ UNCHANGED <<worker_thread_ids, we_are_destructing, life, idx>>
  BY DEF add_task
<1>2. /\ t \in Worker => pc[t] = "user" /\ frame[t] # None /\ t \in worker_thread_ids
      /\ t \in Client => life = "alive"
      /\ ~ we_are_destructing
  BY <1>0, <1>1, Callers DEF InUser
<1>3. CASE ~ MayFindSlot /\ Propagates(t) /\ UNCHANGED <<frame, inline>>
  BY <1>0, <1>1, <1>3, PropagatesTasks, PropagatesPlaces DEF PoolInv, MayFindSlot
<1>4. CASE /\ MayFindSlot /\ Empty # {}
           /\ Hands(t, j, First(Empty)) /\ UNCHANGED <<frame, inline>>
  <2>1. First(Empty) \in Slots /\ is_empty(First(Empty)) /\ Trapped = {}
    BY <1>4, LeastNatural DEF Empty, MayFindSlot
  <2> QED
    BY <1>0, <1>1, <1>4, <2>1, HandsTasks, HandsPlaces DEF PoolInv
<1>5. CASE RunsInline(t, j)
  <2>1. Tasks'
    BY <1>0, <1>1, <1>2, <1>5, InlineTasks
  <2>2. /\ frame' = [frame EXCEPT ![t] = j] /\ j # None
        /\ status' = [status EXCEPT ![j] = "running"]
        /\ UNCHANGED <<pc, wait, arg, task_id>>
    BY <1>5, PoolAssumption DEF RunsInline, slots
  <2>3. ThreadsOK'
    BY <1>0, <1>1, <2>2 DEF Places, ThreadsOK
  <2>4. WorkerPlaces'
    BY <1>0, <1>1, <1>2, <2>2 DEF Places, WorkerPlaces, Outside, Tasks, JobsOK
  <2>5. ClientPlaces'
    BY <1>0, <1>1, <1>2, <2>2 DEF Places, ClientPlaces, Tasks, JobsOK
  <2>6. Waiting'
    BY <1>0, <1>1, <2>2 DEF Places, Waiting, Tasks, JobsOK
  <2>7. Ending'
    BY <1>1, <1>2 DEF Ending
  <2> QED
    BY <2>1, <2>3, <2>4, <2>5, <2>6, <2>7 DEF PoolInv, Places
<1>6. CASE ~ is_worker_thread(t) /\ Parks(t, "room", j) /\ UNCHANGED <<slots, frame, jobs>>
  <2>1. Tasks'
    BY <1>0, <1>1, <1>6, SameTasks
  <2>2. wait' \in [Thread -> WaitStates]
    BY <1>0, <1>6, SignalledType DEF Parks, Places
  <2>3. t \notin Worker
    BY <1>2, <1>6 DEF is_worker_thread
  <2>4. Undisturbed(t, j) /\ MayWait(t, "room", j)
    BY <1>0, <1>1, <1>6, <2>3 DEF Undisturbed, MayWait, Places, Waiting, jobs
  <2>5. Places'
    BY <1>0, <1>1, <1>6, <2>2, <2>4, CallerMoves DEF Parks
  <2> QED
    BY <2>1, <2>5 DEF PoolInv
<1> QED
  BY <1>3, <1>4, <1>5, <1>6 DEF add_task

LEMMA AddResumesKeeps ==
    ASSUME PoolInv, NEW t \in Thread, AddResumes(t)
    PROVE  PoolInv'
<1>0. Tasks /\ Places
  BY DEF PoolInv
<1>1. /\ Wakes(t, "room") /\ pc[t] = "room"
      /\ UNCHANGED <<worker_thread_ids, we_are_destructing, life, idx, frame, inline>>
  BY DEF AddResumes, Wakes
<1>2. /\ arg[t] \in Job /\ status[arg[t]] = "new"
      /\ \A s \in Thread \ {t} : arg[s] # arg[t]
  BY <1>0, <1>1 DEF Places, Waiting
<1>3. CASE ~ MayFindSlot /\ Propagates(t)
  BY <1>0, <1>1, <1>3, PropagatesTasks, PropagatesPlaces DEF PoolInv, MayFindSlot
<1>4. CASE MayFindSlot /\ Empty # {} /\ Hands(t, arg[t], First(Empty))
  <2>1. First(Empty) \in Slots /\ is_empty(First(Empty)) /\ Trapped = {}
    BY <1>4, LeastNatural DEF Empty, MayFindSlot
  <2> QED
    BY <1>0, <1>1, <1>2, <1>4, <2>1, HandsTasks, HandsPlaces DEF PoolInv
<1>5. CASE Parks(t, "room", arg[t]) /\ UNCHANGED <<slots, status, id, parent>>
  <2>1. Tasks'
    BY <1>0, <1>1, <1>5, SameTasks DEF jobs
  <2>2. wait' \in [Thread -> WaitStates]
    BY <1>0, <1>5, SignalledType DEF Parks, Places
  <2>3. t \notin Worker
    BY <1>0, <1>1 DEF Places, WorkerPlaces, Outside
  <2>4. Undisturbed(t, arg[t]) /\ MayWait(t, "room", arg[t])
    BY <1>0, <1>2, <1>5, <2>3 DEF Undisturbed, MayWait, Places, Waiting
  <2>5. Places'
    BY <1>0, <1>1, <1>2, <1>5, <2>2, <2>4, CallerMoves DEF Parks
  <2> QED
    BY <2>1, <2>5 DEF PoolInv
<1> QED
  BY <1>3, <1>4, <1>5 DEF AddResumes

LEMMA WaitsKeep ==
    ASSUME PoolInv, NEW t \in Thread,
           wait_for_task(t) \/ TaskResumes(t) \/ wait_for_all_tasks(t) \/ AllResumes(t)
    PROVE  PoolInv'
<1>0. Tasks /\ Places
  BY DEF PoolInv
<1>r. \A s \in Thread : pc[s] = "room" => /\ status[arg[s]] = "new" /\ arg[s] \in Job
                                          /\ id[arg[s]] = 0 /\ arg[s] # None
                                          /\ \A u \in Thread \ {s} : arg[s] # arg[u]
  BY <1>0, PoolAssumption DEF Places, Waiting, Tasks, JobSlots
<1>b. \A n : TaskGoesOn(n) \in BOOLEAN /\ (TasksOf(t) # {}) \in BOOLEAN
  BY DEF TaskGoesOn
<1>1. CASE wait_for_task(t)
  <2>1. PICK j \in Job : id[j] # 0 /\ WaitBody(t, TaskGoesOn(id[j]), "task", j) /\ InUser(t)
    BY <1>1 DEF wait_for_task
  <2>2. \A s \in Thread \ {t} : pc[s] = "room" => arg[s] # j
    BY <1>r, <2>1
  <2> QED
    BY <1>b, <2>1, <2>2, WaitBodyKeeps
<1>2. CASE TaskResumes(t)
  <2>1. Wakes(t, "task") /\ WaitBody(t, TaskGoesOn(id[arg[t]]), "task", arg[t])
    BY <1>2 DEF TaskResumes
  <2>2. arg[t] \in Job
    BY <1>0, <2>1 DEF Places, Waiting, Wakes
  <2>3. \A s \in Thread \ {t} : pc[s] = "room" => arg[s] # arg[t]
    BY <1>r
  <2> QED
    BY <1>b, <2>1, <2>2, <2>3, WaitBodyKeeps
<1>3. CASE wait_for_all_tasks(t) \/ AllResumes(t)
  <2>1. /\ InUser(t) \/ Wakes(t, "all")
        /\ WaitBody(t, TasksOf(t) # {}, "all", None)
    BY <1>3 DEF wait_for_all_tasks, AllResumes
  <2>2. \A s \in Thread \ {t} : pc[s] = "room" => arg[s] # None
    BY <1>r
  <2> QED
    BY <1>b, <2>1, <2>2, WaitBodyKeeps
<1> QED
  BY <1>1, <1>2, <1>3

LEMMA InlineEndsKeeps ==
    ASSUME PoolInv, NEW t \in Thread, InlineEnds(t)
    PROVE  PoolInv'
<1>0. Tasks /\ Places
  BY DEF PoolInv
<1>1. Tasks' /\ (t \in Worker => frame'[t] # None)
  BY <1>0, InlineEndsTasks
<1>2. /\ pc[t] = "user" /\ frame[t] \in Job /\ inline[frame[t]]
      /\ \A s \in Thread \ {t} : frame'[s] = frame[s]
      /\ UNCHANGED <<pc, wait, arg, task_id, worker_thread_ids, we_are_destructing, life>>
  BY <1>0 DEF InlineEnds, slots, Tasks, JobsOK
<1>s. PICK v \in {"rethrown", "done"} : status' = [status EXCEPT ![frame[t]] = v]
  BY DEF InlineEnds
<1>3. status[frame[t]] # "new"
  BY <1>0, <1>2 DEF Tasks, JobSlots
<1>4. ~ we_are_destructing /\ (t \in Client => life = "alive")
  BY <1>0, <1>2, PoolAssumption DEF Places, Ending, ClientPlaces
<1>5. ThreadsOK'
  BY <1>0, <1>2 DEF Places, ThreadsOK
<1>6. WorkerPlaces'
  BY <1>0, <1>1, <1>2, PoolAssumption DEF Places, WorkerPlaces, Outside, Thread
<1>7. ClientPlaces'
  BY <1>0, <1>2, <1>4 DEF Places, ClientPlaces, Thread
<1>8. Waiting'
  BY <1>0, <1>2, <1>3, <1>s DEF Places, Waiting, Tasks, JobsOK
<1>9. Ending'
  BY <1>2, <1>4 DEF Ending
<1> QED
  BY <1>1, <1>5, <1>6, <1>7, <1>8, <1>9 DEF PoolInv, Places

LEMMA ThreadStartsKeeps ==
    ASSUME PoolInv, NEW w \in Worker, ThreadStarts(w)
    PROVE  PoolInv'
<1>0. Tasks /\ Places
  BY DEF PoolInv
<1>1. /\ pc[w] = "start" /\ pc' = [pc EXCEPT ![w] = "loop"]
      /\ worker_thread_ids' = worker_thread_ids \cup {w}
      /\ UNCHANGED <<slots, we_are_destructing, life, wait, idx, arg, frame, jobs>>
  BY DEF ThreadStarts
<1>2. Tasks'
  BY <1>0, <1>1, SameTasks
<1>3. ThreadsOK'
  BY <1>0, <1>1 DEF Places, ThreadsOK
<1>4. WorkerPlaces'
  BY <1>0, <1>1 DEF Places, WorkerPlaces, Outside, ThreadsOK
<1>5. ClientPlaces'
  BY <1>0, <1>1, PoolAssumption DEF Places, ClientPlaces, ThreadsOK
<1>6. Waiting'
  BY <1>0, <1>1 DEF Places, Waiting, ThreadsOK, jobs
<1>7. Ending'
  BY <1>0, <1>1 DEF Places, Ending, Empty, is_empty, slots
<1> QED
  BY <1>2, <1>3, <1>4, <1>5, <1>6, <1>7 DEF PoolInv, Places

LEMMA ThreadLoopsKeeps ==
    ASSUME PoolInv, NEW w \in Worker, ThreadLoops(w)
    PROVE  PoolInv'
<1>0. Tasks /\ Places
  BY DEF PoolInv
<1>n. w \in Thread /\ w \notin Client
  BY PoolAssumption DEF Thread
<1>1. /\ pc[w] \in {"loop", "ready"} /\ frame[w] = None
      /\ UNCHANGED <<worker_thread_ids, we_are_destructing, life, id, parent, inline>>
  BY <1>0 DEF ThreadLoops, Wakes, Places, WorkerPlaces, Outside
<1>2. ASSUME NEW v \in {"exit", "ready"}, pc' = [pc EXCEPT ![w] = v],
             wait' \in [Thread -> WaitStates],
             arg' = arg \/ arg' = [arg EXCEPT ![w] = None],
             UNCHANGED <<slots, idx, frame, status>>
      PROVE  PoolInv'
  <2>1. Tasks'
    BY <1>0, <1>1, <1>2, SameTasks DEF jobs
  <2>2. ThreadsOK'
    BY <1>0, <1>1, <1>2 DEF Places, ThreadsOK, TaskReady, WaitStates
  <2>3. WorkerPlaces'
    BY <1>0, <1>1, <1>2 DEF Places, WorkerPlaces, Outside, ThreadsOK
  <2>4. ClientPlaces'
    BY <1>0, <1>1, <1>2, <1>n DEF Places, ClientPlaces, ThreadsOK
  <2>5. Waiting'
    BY <1>0, <1>1, <1>2, PoolAssumption DEF Places, Waiting, ThreadsOK
  <2>6. Ending'
    BY <1>0, <1>1, <1>2 DEF Places, Ending, Empty, is_empty, slots
  <2> QED
    BY <2>1, <2>2, <2>3, <2>4, <2>5, <2>6 DEF PoolInv, Places
<1>3. CASE /\ pc' = [pc EXCEPT ![w] = "exit"] /\ wait' = NotWaiting(w)
           /\ UNCHANGED <<slots, idx, arg, frame, status>>
  BY <1>0, <1>2, <1>3, <1>n, SignalledType DEF Places
<1>4. CASE Parks(w, "ready", None) /\ UNCHANGED <<slots, idx, frame, status>>
  BY <1>0, <1>2, <1>4, <1>n, SignalledType DEF Places, Parks
<1>5. CASE ~ we_are_destructing /\ Ready # {} /\ Takes(w, First(Ready))
  <2>1. First(Ready) \in Ready /\ First(Ready) \in Slots
    BY <1>5, LeastNatural DEF Ready
  <2>2. Tasks'
    BY <1>0, <1>1, <1>5, <2>1, TakesTasks
  <2>3. PICK ix \in Slots : ix \in Ready /\ Takes(w, ix)
    BY <1>5, <2>1
  <2>4. PICK j \in Job : j = fn[ix]
    BY <1>0, <2>3 DEF Tasks, SlotsOK, Ready, is_ready
  <2>5. /\ frame' = [frame EXCEPT ![w] = j] /\ j # None
        /\ status' = [status EXCEPT ![j] = "running"]
        /\ pc' = [pc EXCEPT ![w] = "user"]
        /\ arg' = [arg EXCEPT ![w] = None]
        /\ wait' \in [Thread -> WaitStates]
        /\ UNCHANGED task_id
    BY <1>0, <1>n, <2>3, <2>4, PoolAssumption, SignalledType DEF Takes, Returns, Places
  <2>6. status[j] = "queued"
    BY <1>0, <2>3, <2>4, <2>5 DEF Tasks, SlotJobs, Ready, is_ready
  <2>7. ThreadsOK'
    BY <1>0, <1>1, <2>5 DEF Places, ThreadsOK, WaitStates
  <2>8. WorkerPlaces'
    BY <1>0, <1>1, <1>n, <2>5 DEF Places, WorkerPlaces, Outside, ThreadsOK, Tasks, JobsOK
  <2>9. ClientPlaces'
    BY <1>0, <1>1, <1>n, <2>5 DEF Places, ClientPlaces, ThreadsOK, Tasks, JobsOK
  <2>10. Waiting'
    BY <1>0, <2>5, <2>6, PoolAssumption DEF Places, Waiting, ThreadsOK, Tasks, JobsOK
  <2>11. Ending'
    BY <1>1, <1>5 DEF Ending
  <2> QED
    BY <2>2, <2>7, <2>8, <2>9, <2>10, <2>11 DEF PoolInv, Places
<1> QED
  BY <1>3, <1>4, <1>5 DEF ThreadLoops

LEMMA TaskEndsKeeps ==
    ASSUME PoolInv, NEW w \in Worker, TaskEnds(w)
    PROVE  PoolInv'
<1>0. Tasks /\ Places
  BY DEF PoolInv
<1>n. w \in Thread /\ w \notin Client
  BY PoolAssumption DEF Thread
<1>1. Tasks'
  BY <1>0, TaskEndsTasks
<1>2. /\ pc[w] = "user" /\ frame[w] \in Job
      /\ frame' = [frame EXCEPT ![w] = None]
      /\ pc' = [pc EXCEPT ![w] = "loop"]
      /\ UNCHANGED <<arg, worker_thread_ids, we_are_destructing, life>>
  BY <1>0, <1>n DEF TaskEnds, Tasks, JobsOK
<1>3. PICK v \in {"failed", "done"} : status' = [status EXCEPT ![frame[w]] = v]
  BY DEF TaskEnds
<1>4. status[frame[w]] # "new"
  BY <1>0, <1>2, <1>n, PoolAssumption DEF Tasks, OnStacks, Stacks, Tops, Running
<1>5. wait' \in [Thread -> WaitStates]
  BY <1>0, <1>n, SignalledType DEF TaskEnds, Done, Places
<1>6. ~ we_are_destructing
  BY <1>0, <1>2, <1>n, PoolAssumption DEF Places, Ending
<1>7. ThreadsOK'
  BY <1>0, <1>2, <1>5 DEF Places, ThreadsOK, WaitStates
<1>8. WorkerPlaces'
  BY <1>0, <1>2, <1>n DEF Places, WorkerPlaces, Outside, ThreadsOK, Tasks, JobsOK
<1>9. ClientPlaces'
  BY <1>0, <1>2, <1>n DEF Places, ClientPlaces, ThreadsOK, Tasks, JobsOK
<1>10. Waiting'
  BY <1>0, <1>2, <1>3, <1>4 DEF Places, Waiting, ThreadsOK, Tasks, JobsOK
<1>11. Ending'
  BY <1>2, <1>6 DEF Ending
<1> QED
  BY <1>1, <1>7, <1>8, <1>9, <1>10, <1>11 DEF PoolInv, Places

(* With every slot empty, no worker has a task left. *)
LEMMA DrainedIdle ==
    ASSUME Tasks, Drained
    PROVE  \A w \in Worker : frame[w] = None
<1> SUFFICES ASSUME NEW w \in Worker, frame[w] # None PROVE FALSE
  OBVIOUS
<1>1. fn[idx[w]] \in Job
  BY DEF Tasks, OnStacks, Stacks, Bottoms, Running
<1>2. idx[w] \in Slots
  BY DEF Tasks, JobsOK
<1> QED
  BY <1>1, <1>2, PoolAssumption DEF Drained, Empty, Tasks, SlotsOK

LEMMA ShutdownKeeps ==
    ASSUME PoolInv, NEW c \in Client, shutdown_pool(c) \/ ShutdownResumes(c)
    PROVE  PoolInv'
<1>0. Tasks /\ Places
  BY DEF PoolInv
<1>n. c \in Thread /\ c \notin Worker
  BY PoolAssumption DEF Thread
<1>1. /\ ShutdownBody(c) /\ life' = "ending"
      /\ UNCHANGED <<slots, worker_thread_ids, idx, frame, jobs>>
  BY DEF shutdown_pool, ShutdownResumes, ShutdownBody
<1>2. \A d \in Client : frame[d] = None /\ pc[d] \in {"user", "shutdown", "join", "exit"}
  <2>1. CASE life = "alive" /\ shutdown_pool(c)
    BY <2>1 DEF shutdown_pool
  <2>2. CASE life # "alive"
    BY <1>0, <2>2 DEF Places, ClientPlaces
  <2>3. CASE life = "alive" /\ ShutdownResumes(c)
    BY <1>0, <2>3 DEF Places, ClientPlaces, ShutdownResumes, Wakes
  <2> QED
    BY <2>1, <2>2, <2>3 DEF shutdown_pool
<1>3. Tasks'
  BY <1>0, <1>1, SameTasks
<1>4. /\ \/ /\ pc' = [pc EXCEPT ![c] = "shutdown"]
            /\ arg' = [arg EXCEPT ![c] = None]
            /\ UNCHANGED we_are_destructing
         \/ /\ pc' = [pc EXCEPT ![c] = "join"]
            /\ UNCHANGED arg
            /\ Drained /\ we_are_destructing' = TRUE
      /\ wait' \in [Thread -> WaitStates]
  BY <1>0, <1>1, <1>n, SignalledType DEF ShutdownBody, Parks, Places
<1>p. PICK v \in {"shutdown", "join"} : pc' = [pc EXCEPT ![c] = v]
  BY <1>4
<1>5. ThreadsOK'
  BY <1>0, <1>1, <1>4 DEF Places, ThreadsOK, WaitStates, TaskDone
<1>6. WorkerPlaces'
  BY <1>0, <1>1, <1>p, <1>n DEF Places, WorkerPlaces, Outside, ThreadsOK
<1>7. ClientPlaces'
  BY <1>0, <1>1, <1>2, <1>p, <1>n DEF Places, ClientPlaces, ThreadsOK, TaskDone
<1>8. Waiting'
  BY <1>0, <1>1, <1>4, <1>n, PoolAssumption DEF Places, Waiting, ThreadsOK, jobs
<1>9. Ending'
  <2>1. UNCHANGED <<Empty, frame>> /\ life' # "alive"
    BY <1>1 DEF Empty, is_empty, slots
  <2>2. Drained => Empty = Slots /\ \A t \in Thread : frame[t] = None
    BY <1>0, <1>2, DrainedIdle DEF Drained, Thread
  <2> QED
    BY <1>0, <1>4, <2>1, <2>2 DEF Places, Ending
<1> QED
  BY <1>3, <1>5, <1>6, <1>7, <1>8, <1>9 DEF PoolInv, Places

LEMMA JoinsKeeps ==
    ASSUME PoolInv, NEW c \in Client, Joins(c)
    PROVE  PoolInv'
<1>0. Tasks /\ Places
  BY DEF PoolInv
<1>n. c \in Thread /\ c \notin Worker
  BY PoolAssumption DEF Thread
<1>1. /\ pc[c] = "join" /\ pc' = [pc EXCEPT ![c] = "exit"]
      /\ life' \in {"terminated", "destroyed"}
      /\ UNCHANGED <<slots, worker_thread_ids, we_are_destructing, wait, idx,
                     arg, frame, jobs>>
  BY DEF Joins
<1>2. life # "alive"
  BY <1>0, <1>1 DEF Places, ClientPlaces
<1>3. Tasks'
  BY <1>0, <1>1, SameTasks
<1>4. ThreadsOK'
  BY <1>0, <1>1 DEF Places, ThreadsOK
<1>5. WorkerPlaces'
  BY <1>0, <1>1, <1>n DEF Places, WorkerPlaces, Outside, ThreadsOK
<1>6. ClientPlaces'
  BY <1>0, <1>1, <1>2, <1>n DEF Places, ClientPlaces, ThreadsOK, TaskDone
<1>7. Waiting'
  BY <1>0, <1>1 DEF Places, Waiting, ThreadsOK, jobs
<1>8. Ending'
  BY <1>0, <1>1 DEF Places, Ending, Empty, is_empty, slots
<1> QED
  BY <1>3, <1>4, <1>5, <1>6, <1>7, <1>8 DEF PoolInv, Places

LEMMA WakeUpKeeps ==
    ASSUME PoolInv,
           \/ UNCHANGED vars
           \/ \E t \in Thread : SpuriousWakeUp(t)
    PROVE  PoolInv'
<1>0. Tasks /\ Places
  BY DEF PoolInv
<1>1. UNCHANGED <<slots, worker_thread_ids, we_are_destructing, life, pc, idx,
                  arg, frame, jobs>>
  BY DEF SpuriousWakeUp, vars
<1>2. wait' \in [Thread -> WaitStates]
  BY <1>0 DEF SpuriousWakeUp, vars, Places, ThreadsOK, WaitStates
<1>3. Tasks'
  BY <1>0, <1>1, SameTasks
<1>4. ThreadsOK'
  BY <1>0, <1>1, <1>2 DEF Places, ThreadsOK, WaitStates
<1>5. WorkerPlaces' /\ ClientPlaces' /\ Waiting'
  BY <1>0, <1>1 DEF Places, WorkerPlaces, ClientPlaces, Waiting, jobs
<1>6. Ending'
  BY <1>0, <1>1 DEF Places, Ending, Empty, is_empty, slots
<1> QED
  BY <1>3, <1>4, <1>5, <1>6 DEF PoolInv, Places

-----------------------------------------------------------------------------
LEMMA PoolInit == Init => PoolInv
<1> SUFFICES ASSUME Init PROVE PoolInv
  OBVIOUS
<1>n. None \notin Job /\ Worker \cap Client = {}
  BY PoolAssumption
<1>1. SlotsOK
  BY DEF Init, SlotsOK, is_empty
<1>2. JobsOK
  BY SizeNat DEF Init, JobsOK, Statuses
<1>3. SlotJobs /\ JobSlots /\ Ids
  BY DEF Init, SlotJobs, JobSlots, Ids
<1>4. Exceptions
  BY <1>n DEF Init, Exceptions, NoExceptionLost
<1>5. OnStacks
  <2>1. Running = {}
    BY DEF Init, Running
  <2>2. PICK own \in [Job -> Thread \cup {None}] : TRUE
    <3>1. [j \in Job |-> None] \in [Job -> Thread \cup {None}]
      OBVIOUS
    <3> QED
      BY <3>1
  <2>3. PICK depth \in [Job -> Nat \ {0}] : TRUE
    <3>1. [j \in Job |-> 1] \in [Job -> Nat \ {0}]
      OBVIOUS
    <3> QED
      BY <3>1
  <2>4. \A t \in Thread : frame[t] = None
    BY DEF Init
  <2>5. Stacks(own, depth)
    BY <2>1, <2>4 DEF Stacks, Tops, Bottoms, Chained, OneAtEachDepth, Thread
  <2> QED
    BY <2>5 DEF OnStacks
<1>6. ThreadsOK
  BY DEF Init, ThreadsOK
<1>7. WorkerPlaces /\ ClientPlaces /\ Waiting /\ Ending
  BY <1>n DEF Init, WorkerPlaces, ClientPlaces, Waiting, Ending, Outside, Thread
<1> QED
  BY <1>1, <1>2, <1>3, <1>4, <1>5, <1>6, <1>7 DEF PoolInv, Tasks, Places

LEMMA PoolNext == PoolInv /\ [Next]_vars => PoolInv'
<1> SUFFICES ASSUME PoolInv, [Next]_vars PROVE PoolInv'
  OBVIOUS
<1>1. ASSUME NEW t \in Thread, NEW j \in Job, add_task(t, j) PROVE PoolInv'
  BY <1>1, AddKeeps
<1>2. ASSUME NEW t \in Thread, InlineEnds(t) PROVE PoolInv'
  BY <1>2, InlineEndsKeeps
<1>3. ASSUME NEW t \in Thread, wait_for_task(t) \/ wait_for_all_tasks(t) \/ Resumes(t)
      PROVE  PoolInv'
  BY <1>3, AddResumesKeeps, WaitsKeep DEF Resumes
<1>4. ASSUME NEW w \in Worker, ThreadStarts(w) \/ ThreadLoops(w) \/ TaskEnds(w)
      PROVE  PoolInv'
  BY <1>4, ThreadStartsKeeps, ThreadLoopsKeeps, TaskEndsKeeps
<1>5. ASSUME NEW c \in Client, shutdown_pool(c) \/ ShutdownResumes(c) \/ Joins(c)
      PROVE  PoolInv'
  BY <1>5, ShutdownKeeps, JoinsKeeps
<1>6. CASE UNCHANGED vars \/ \E t \in Thread : SpuriousWakeUp(t)
  BY <1>6, WakeUpKeeps
<1> QED
  BY <1>1, <1>2, <1>3, <1>4, <1>5, <1>6 DEF Next

LEMMA PoolInvariant == Spec => []PoolInv
BY PoolInit, PoolNext, PTL DEF Spec

-----------------------------------------------------------------------------
(* Type correctness, for any workers, clients and tasks, also in a pool    *)
(* without workers; an id names the slot of its task.                      *)
THEOREM PoolTypeOK == Spec => []TypeOK
<1>1. PoolInv => TypeOK
  BY TypeParts DEF PoolInv, Tasks, Places
<1> QED
  BY <1>1, PoolInvariant, PTL

(* wait_for_task recognises exactly its own task by the id it has kept,    *)
(* however often the slot has been used since.                             *)
THEOREM PoolIdsIdentify == Spec => []IdsIdentify
<1>1. PoolInv => IdsIdentify
  <2> SUFFICES ASSUME PoolInv, NEW j \in Job, id[j] # 0
               PROVE  TaskGoesOn(id[j]) <=>
                         ~ inline[j] /\ status[j] \in {"queued", "running"}
    BY DEF IdsIdentify
  <2>0. SlotsOK /\ JobsOK /\ SlotJobs /\ JobSlots /\ Ids /\ OnStacks
    BY DEF PoolInv, Tasks
  <2>n. None \notin Job /\ id[j] \in Nat
    BY <2>0, PoolAssumption DEF JobsOK
  <2>1. ASSUME TaskGoesOn(id[j])
        PROVE  ~ inline[j] /\ status[j] \in {"queued", "running"}
    <3>1. Size > 0
      BY <2>1, SizeNat DEF TaskGoesOn
    <3>2. PICK ix \in Slots : ix = task_id_to_index(id[j])
      BY <2>n, <3>1, ModSlot DEF task_id_to_index
    <3>3. task_id[ix] = id[j] /\ fn[ix] # None /\ task_id[ix] > 1
      BY <2>0, <2>1, <3>2 DEF TaskGoesOn, SlotsOK, is_empty
    <3>4. fn[ix] \in Job /\ id[fn[ix]] = id[j]
      BY <2>0, <3>3 DEF SlotsOK, SlotJobs
    <3>5. fn[ix] = j
      BY <2>0, <3>3, <3>4 DEF Ids
    <3> QED
      BY <2>0, <3>3, <3>5 DEF SlotJobs
  <2>2. ASSUME ~ inline[j], status[j] \in {"queued", "running"}
        PROVE  TaskGoesOn(id[j])
    <3>1. PICK ix \in Slots : fn[ix] = j
      <4>1. CASE status[j] = "queued"
        BY <2>0, <4>1 DEF JobSlots
      <4>2. CASE status[j] = "running"
        BY <2>0, <2>2, <4>2 DEF OnStacks, Stacks, Bottoms, Running, JobsOK
      <4> QED
        BY <2>2, <4>1, <4>2
    <3>2. id[j] = task_id[ix] /\ task_id_to_index(task_id[ix]) = ix /\ task_id[ix] # 0
      BY <2>0, <2>n, <3>1 DEF SlotJobs, SlotsOK, is_empty
    <3>3. Size # 0
      BY SizeNat DEF Slots
    <3> QED
      BY <3>2, <3>3 DEF TaskGoesOn
  <2> QED
    BY <2>1, <2>2
<1> QED
  BY <1>1, PoolInvariant, PTL

(* No exception is overwritten: the next task of a slot finds it empty.    *)
THEOREM PoolNoExceptionLost == Spec => []NoExceptionLost
<1>1. PoolInv => NoExceptionLost
  BY DEF PoolInv, Tasks, Exceptions
<1> QED
  BY <1>1, PoolInvariant, PTL

(* The destructor lets the workers go only after the last task, those that *)
(* tasks have added in the meantime included.                              *)
THEOREM PoolAllDoneBeforeExit == Spec => []AllDoneBeforeExit
<1>1. PoolInv => AllDoneBeforeExit
  <2> SUFFICES ASSUME PoolInv, we_are_destructing, NEW j \in Job
               PROVE  status[j] \in {"new", "done", "failed", "rethrown"}
    BY DEF AllDoneBeforeExit
  <2>0. SlotsOK /\ JobsOK /\ JobSlots /\ OnStacks /\ Ending
    BY DEF PoolInv, Tasks, Places
  <2>1. status[j] # "queued"
    BY <2>0, PoolAssumption DEF JobSlots, Ending, Empty, SlotsOK
  <2>2. status[j] # "running"
    BY <2>0 DEF OnStacks, Stacks, Tops, Running, Ending
  <2> QED
    BY <2>0, <2>1, <2>2 DEF JobsOK, Statuses
<1> QED
  BY <1>1, PoolInvariant, PTL

-----------------------------------------------------------------------------
(* Workers for tasks. *)
LEMMA Counting ==
    /\ IsFiniteSet(Worker) /\ IsFiniteSet(Slots)
    /\ Cardinality(Worker) = Size /\ Cardinality(Slots) = Size
    /\ Size \in Nat
<1>1. Size \in Nat /\ Cardinality(Worker) = Size /\ IsFiniteSet(Worker)
  BY SizeNat, PoolAssumption DEF Size
<1>2. IsFiniteSet(Slots) /\ Cardinality(Slots) = IF 0 > Size - 1 THEN 0 ELSE (Size - 1) - 0 + 1
  BY <1>1, FS_Interval DEF Slots
<1> QED
  BY <1>1, <1>2

LEMMA DisjointUnion ==
    ASSUME NEW S, NEW T, IsFiniteSet(S), IsFiniteSet(T), S \cap T = {}
    PROVE  Cardinality(S \cup T) = Cardinality(S) + Cardinality(T)
<1>1. Cardinality(S \cup T) = Cardinality(S) + Cardinality(T) - Cardinality(S \cap T)
  BY FS_Union
<1>2. Cardinality(S \cap T) = 0
  BY FS_EmptySet
<1>3. Cardinality(S) \in Nat /\ Cardinality(T) \in Nat
  BY FS_CardinalityType
<1> QED
  BY <1>1, <1>2, <1>3

(* Each worker at a task keeps a slot of its own busy, so that the ready   *)
(* slots are no more than the other workers.                               *)
LEMMA IdleWorkers ==
    ASSUME PoolInv
    PROVE  Cardinality({w \in Worker : ~ Working(w)}) >= Cardinality(Ready)
<1> DEFINE Busy == {w \in Worker : Working(w)}
           Idle == {w \in Worker : ~ Working(w)}
           Used == {ix \in Slots : is_being_processed[ix]}
<1>0. SlotsOK /\ JobsOK /\ SlotJobs /\ OnStacks
  BY DEF PoolInv, Tasks
<1>1. PICK own \in [Job -> Thread \cup {None}], depth \in [Job -> Nat \ {0}] : Stacks(own, depth)
  BY <1>0 DEF OnStacks
<1>2. ASSUME NEW w \in Busy
      PROVE  idx[w] \in Used /\ own[fn[idx[w]]] = w
  <2>1. w \in Worker /\ frame[w] # None
    BY DEF Working
  <2>2. fn[idx[w]] \in Running /\ own[fn[idx[w]]] = w
    BY <1>1, <2>1 DEF Stacks, Bottoms
  <2>3. idx[w] \in Slots
    BY <1>0, <2>1 DEF JobsOK
  <2>4. is_being_processed[idx[w]]
    BY <1>0, <2>2, <2>3, PoolAssumption DEF SlotJobs, Running
  <2> QED
    BY <2>2, <2>3, <2>4
<1> DEFINE f == [w \in Busy |-> idx[w]]
<1>3. f \in Injection(Busy, Used)
  <2>1. f \in [Busy -> Used]
    BY <1>2
  <2>2. \A v, w \in Busy : f[v] = f[w] => v = w
    BY <1>2
  <2> QED
    BY <2>1, <2>2 DEF Injection, IsInjective
<1> HIDE DEF f
<1>4. IsFiniteSet(Used) /\ IsFiniteSet(Ready) /\ IsFiniteSet(Busy) /\ IsFiniteSet(Idle)
  BY Counting, FS_Subset DEF Ready
<1>5. Cardinality(Busy) <= Cardinality(Used)
  BY <1>3, <1>4, FS_Injection
<1>6. Cardinality(Busy) + Cardinality(Idle) = Size
  <2>1. Busy \cap Idle = {} /\ Busy \cup Idle = Worker
    OBVIOUS
  <2> QED
    BY <1>4, <2>1, Counting, DisjointUnion
<1>7. Cardinality(Used) + Cardinality(Ready) <= Size
  <2>1. Used \cap Ready = {} /\ Used \cup Ready \subseteq Slots
    BY DEF Ready, is_ready
  <2>2. Cardinality(Used \cup Ready) = Cardinality(Used) + Cardinality(Ready)
    BY <1>4, <2>1, DisjointUnion
  <2>3. Cardinality(Used \cup Ready) <= Cardinality(Slots)
    BY <2>1, Counting, FS_Subset
  <2> QED
    BY <2>2, <2>3, Counting
<1>8. /\ Cardinality(Busy) \in Nat /\ Cardinality(Used) \in Nat
      /\ Cardinality(Ready) \in Nat /\ Cardinality(Idle) \in Nat
  BY <1>4, FS_CardinalityType
<1> HIDE DEF Busy, Idle, Used
<1>9. Cardinality(Idle) >= Cardinality(Ready)
  BY <1>5, <1>6, <1>7, <1>8, Counting
<1> QED
  BY <1>9 DEF Idle

(* While a worker sleeps, as many others look for a task as tasks are ready. *)
LookInv == Parked(TaskReady) # {} => Cardinality(Looking) >= Cardinality(Ready)

LEMMA LookFinite ==
    /\ IsFiniteSet(Looking) /\ IsFiniteSet(Ready)
    /\ Cardinality(Looking) \in Nat /\ Cardinality(Ready) \in Nat
    /\ IsFiniteSet(Looking') /\ IsFiniteSet(Ready')
    /\ Cardinality(Looking') \in Nat /\ Cardinality(Ready') \in Nat
<1>1. Looking \subseteq Worker /\ Ready \subseteq Slots
      /\ Looking' \subseteq Worker /\ Ready' \subseteq Slots
  BY DEF Looking, Ready
<1> QED
  BY <1>1, Counting, FS_Subset, FS_CardinalityType

(* Nobody stops looking and no task becomes ready. *)
LEMMA LookKept ==
    ASSUME LookInv, Looking \subseteq Looking', Ready' \subseteq Ready,
           Parked(TaskReady)' \subseteq Parked(TaskReady)
    PROVE  LookInv'
<1>1. Cardinality(Looking) <= Cardinality(Looking')
  BY LookFinite, FS_Subset
<1>2. Cardinality(Ready') <= Cardinality(Ready)
  BY LookFinite, FS_Subset
<1>3. Cardinality(Looking)' = Cardinality(Looking') /\ Cardinality(Ready)' = Cardinality(Ready')
  OBVIOUS
<1> QED
  BY <1>1, <1>2, <1>3, LookFinite DEF LookInv

LEMMA LookNoneReady ==
    ASSUME Ready' = {}
    PROVE  LookInv'
<1>1. Cardinality(Ready') = 0
  BY FS_EmptySet
<1>2. Cardinality(Looking)' = Cardinality(Looking') /\ Cardinality(Ready)' = Cardinality(Ready')
  OBVIOUS
<1> QED
  BY <1>1, <1>2, LookFinite DEF LookInv

(* add_task's signal(). *)
LEMMA HandsLook ==
    ASSUME PoolInv, LookInv, NEW t \in Thread, NEW j \in Job, NEW ix \in Slots,
           pc[t] \in {"user", "room"}, is_empty(ix), Hands(t, j, ix)
    PROVE  LookInv'
<1>0. SlotsOK /\ ThreadsOK /\ ClientPlaces
  BY DEF PoolInv, Tasks, Places
<1>1. /\ pc' = [pc EXCEPT ![t] = "user"]
      /\ task_id' = [task_id EXCEPT ![ix] = make_next_task_id(ix)]
      /\ wait' \in Signalled(NotWaiting(t), TaskReady)
      /\ UNCHANGED is_being_processed
  BY DEF Hands, Returns
<1>2. Ready' \subseteq Ready \cup {ix} /\ ix \notin Ready
  BY <1>0, <1>1 DEF Ready, is_ready, is_empty, SlotsOK
<1>3. CASE Parked(TaskReady) = {}
  <2>1. wait' = NotWaiting(t)
    BY <1>1, <1>3 DEF Signalled
  <2>2. Parked(TaskReady)' = {}
    BY <1>0, <1>1, <1>3, <2>1 DEF Parked, NotWaiting, TaskReady, ThreadsOK
  <2> QED
    BY <2>2 DEF LookInv
<1>4. CASE Parked(TaskReady) # {}
  <2>1. PICK s \in Parked(TaskReady) : wait' = [NotWaiting(t) EXCEPT ![s] = "woken"]
    BY <1>1, <1>4 DEF Signalled
  <2>2. s \in Thread /\ pc[s] = "ready" /\ wait[s] = "parked" /\ s # t
    BY DEF Parked, TaskReady
  <2>3. s \in Worker
    BY <1>0, <2>2 DEF ClientPlaces, TaskDone, Thread
  <2>4. s \notin Looking
    BY <2>2 DEF Looking, Wakes
  <2>5. wait'[s] = "woken" /\ \A u \in Thread \ {s, t} : wait'[u] = wait[u]
    BY <1>0, <2>1, <2>2 DEF NotWaiting, ThreadsOK
  <2>6. \A u \in Thread \ {t} : pc'[u] = pc[u]
    BY <1>0, <1>1 DEF ThreadsOK
  <2>7. t \notin Looking
    BY DEF Looking, Wakes
  <2>8. Looking \cup {s} \subseteq Looking'
    BY <2>2, <2>3, <2>5, <2>6, <2>7 DEF Looking, Wakes, Thread
  <2>9. Cardinality(Looking \cup {s}) = Cardinality(Looking) + 1
    BY <2>4, LookFinite, FS_AddElement
  <2>10. Cardinality(Looking \cup {s}) <= Cardinality(Looking')
    BY <2>8, LookFinite, FS_Subset
  <2>11. Cardinality(Ready \cup {ix}) = Cardinality(Ready) + 1 /\ IsFiniteSet(Ready \cup {ix})
    BY <1>2, LookFinite, FS_AddElement
  <2>12. Cardinality(Ready') <= Cardinality(Ready \cup {ix})
    BY <1>2, <2>11, FS_Subset
  <2>13. Cardinality(Looking) >= Cardinality(Ready)
    BY <1>4 DEF LookInv
  <2>14. Cardinality(Looking') >= Cardinality(Ready')
    BY <2>9, <2>10, <2>11, <2>12, <2>13, LookFinite
  <2>15. Cardinality(Looking)' = Cardinality(Looking') /\ Cardinality(Ready)' = Cardinality(Ready')
    OBVIOUS
  <2> QED
    BY <2>14, <2>15 DEF LookInv
<1> QED
  BY <1>3, <1>4

(* A thread that neither looks for a task nor sleeps for one moves on, and *)
(* at most threads that wait for something else are woken.                 *)
LEMMA OthersLook ==
    ASSUME ThreadsOK, LookInv, NEW t \in Thread, NEW v,
           pc[t] \notin {"start", "loop", "ready"}, v # "ready",
           pc' = [pc EXCEPT ![t] = v],
           \A s \in Thread \ {t} : pc[s] = "ready" => wait'[s] = wait[s],
           Ready' \subseteq Ready
    PROVE  LookInv'
<1>1. Looking \subseteq Looking'
  BY DEF Looking, Wakes, ThreadsOK, Thread
<1>2. Parked(TaskReady)' \subseteq Parked(TaskReady)
  BY DEF Parked, TaskReady, ThreadsOK
<1> QED
  BY <1>1, <1>2, LookKept

LEMMA SameReady ==
    UNCHANGED <<is_being_processed, task_id>> => Ready' = Ready
BY DEF Ready, is_ready, is_empty

(* A worker stops looking because it has found a task. *)
LEMMA TakesLook ==
    ASSUME SlotsOK, ThreadsOK, LookInv, NEW w \in Worker, NEW ix \in Ready,
           pc[w] = "loop" \/ Wakes(w, "ready"), Takes(w, ix)
    PROVE  LookInv'
<1>0. w \in Thread /\ ix \in Slots
  BY DEF Thread, Ready
<1>1. /\ is_being_processed' = [is_being_processed EXCEPT ![ix] = TRUE]
      /\ pc' = [pc EXCEPT ![w] = "user"]
      /\ wait' = [wait EXCEPT ![w] = "no"]
      /\ UNCHANGED task_id
  BY DEF Takes, Returns, NotWaiting
<1>2. Ready' = Ready \ {ix}
  BY <1>0, <1>1 DEF Ready, is_ready, is_empty, SlotsOK
<1>3. Looking' = Looking \ {w} /\ w \in Looking
  BY <1>0, <1>1 DEF Looking, Wakes, ThreadsOK, Thread
<1>4. Parked(TaskReady)' \subseteq Parked(TaskReady)
  BY <1>0, <1>1 DEF Parked, TaskReady, ThreadsOK
<1>5. Cardinality(Ready') = Cardinality(Ready) - 1
  BY <1>2, LookFinite, FS_RemoveElement
<1>6. Cardinality(Looking') = Cardinality(Looking) - 1
  BY <1>3, LookFinite, FS_RemoveElement
<1>7. Cardinality(Looking)' = Cardinality(Looking') /\ Cardinality(Ready)' = Cardinality(Ready')
  OBVIOUS
<1> QED
  BY <1>4, <1>5, <1>6, <1>7, LookFinite DEF LookInv

LEMMA CallsLook ==
    ASSUME PoolInv, LookInv, NEW t \in Thread,
           \/ \E j \in Job : add_task(t, j)
           \/ wait_for_task(t) \/ wait_for_all_tasks(t) \/ Resumes(t)
    PROVE  LookInv'
<1>0. ThreadsOK
  BY DEF PoolInv, Places
<1>1. pc[t] \in {"user", "room", "task", "all"}
  BY DEF add_task, wait_for_task, wait_for_all_tasks, Resumes, AddResumes, TaskResumes,
         AllResumes, InUser, Wakes
<1>2. ASSUME NEW v \in {"user", "room", "task", "all"},
             pc' = [pc EXCEPT ![t] = v],
             \E u : wait' = [wait EXCEPT ![t] = u],
             UNCHANGED <<is_being_processed, task_id>>
      PROVE  LookInv'
  <2>1. \A s \in Thread \ {t} : pc[s] = "ready" => wait'[s] = wait[s]
    BY <1>0, <1>2 DEF ThreadsOK
  <2> QED
    BY <1>0, <1>1, <1>2, <2>1, SameReady, OthersLook
<1>3. CASE Propagates(t)
  BY <1>2, <1>3 DEF Propagates, Returns, NotWaiting
<1>4. CASE \E x : /\ Parks(t, "room", x) \/ Parks(t, "task", x) \/ Parks(t, "all", x)
                  /\ UNCHANGED slots
  BY <1>2, <1>4 DEF Parks, slots
<1>5. CASE Returns(t) /\ wait' = NotWaiting(t) /\ UNCHANGED slots
  BY <1>2, <1>5 DEF Returns, NotWaiting, slots
<1>6. CASE \E j : RunsInline(t, j)
  <2>1. UNCHANGED <<pc, wait, slots>>
    BY <1>6 DEF RunsInline
  <2>2. Looking' = Looking /\ Parked(TaskReady)' = Parked(TaskReady) /\ Ready' = Ready
    BY <2>1, SameReady DEF Looking, Wakes, Parked, slots
  <2> QED
    BY <2>2, LookKept
<1>7. ASSUME NEW j \in Job, Empty # {}, Hands(t, j, First(Empty)), pc[t] \in {"user", "room"}
      PROVE  LookInv'
  <2>1. First(Empty) \in Slots /\ is_empty(First(Empty))
    BY <1>7, LeastNatural DEF Empty
  <2> QED
    BY <1>7, <2>1, HandsLook
<1>8. CASE \E j \in Job : add_task(t, j)
  BY <1>3, <1>4, <1>5, <1>6, <1>7, <1>8 DEF add_task, InUser
<1>9. CASE AddResumes(t)
  <2>1. pc[t] = "room" /\ arg[t] \in Job
    BY <1>9 DEF AddResumes, Wakes, PoolInv, Places, Waiting
  <2> QED
    BY <1>3, <1>4, <1>7, <1>9, <2>1 DEF AddResumes
<1>10. ASSUME NEW busy, NEW at \in {"task", "all"}, NEW x, WaitBody(t, busy, at, x)
       PROVE  LookInv'
  BY <1>3, <1>4, <1>5, <1>10 DEF WaitBody
<1>11. CASE wait_for_task(t) \/ wait_for_all_tasks(t) \/ TaskResumes(t) \/ AllResumes(t)
  BY <1>10, <1>11 DEF wait_for_task, wait_for_all_tasks, TaskResumes, AllResumes
<1> QED
  BY <1>8, <1>9, <1>11 DEF Resumes

LEMMA LookNext == PoolInv /\ LookInv /\ [Next]_vars => LookInv'
<1> SUFFICES ASSUME PoolInv, LookInv, [Next]_vars PROVE LookInv'
  OBVIOUS
<1>0. SlotsOK /\ JobsOK /\ ThreadsOK /\ WorkerPlaces /\ ClientPlaces /\ Ending
  BY DEF PoolInv, Tasks, Places
<1>d. ASSUME Empty = Slots, UNCHANGED slots PROVE LookInv'
  <2>1. Ready = {}
    BY <1>d DEF Ready, is_ready, Empty
  <2> QED
    BY <1>d, <2>1, SameReady, LookNoneReady DEF slots
<1>1. ASSUME NEW t \in Thread,
             \/ \E j \in Job : add_task(t, j)
             \/ wait_for_task(t) \/ wait_for_all_tasks(t) \/ Resumes(t)
      PROVE  LookInv'
  BY <1>1, CallsLook
<1>2. CASE UNCHANGED vars \/ \E t \in Thread : InlineEnds(t)
  <2>1. UNCHANGED <<pc, wait, slots>>
    BY <1>2 DEF vars, InlineEnds
  <2>2. Looking' = Looking /\ Parked(TaskReady)' = Parked(TaskReady) /\ Ready' = Ready
    BY <2>1, SameReady DEF Looking, Wakes, Parked, slots
  <2> QED
    BY <2>2, LookKept
<1>3. ASSUME NEW t \in Thread, SpuriousWakeUp(t) PROVE LookInv'
  <2>1. wait' = [wait EXCEPT ![t] = "woken"] /\ UNCHANGED <<pc, slots>>
    BY <1>3 DEF SpuriousWakeUp
  <2>2. Looking \subseteq Looking' /\ Parked(TaskReady)' \subseteq Parked(TaskReady)
    BY <1>0, <2>1 DEF Looking, Wakes, Parked, ThreadsOK, Thread
  <2> QED
    BY <2>1, <2>2, SameReady, LookKept DEF slots
<1>4. ASSUME NEW w \in Worker, ThreadStarts(w) PROVE LookInv'
  <2>1. pc[w] = "start" /\ pc' = [pc EXCEPT ![w] = "loop"] /\ UNCHANGED <<wait, slots>>
    BY <1>4 DEF ThreadStarts
  <2>2. Looking \subseteq Looking' /\ Parked(TaskReady)' \subseteq Parked(TaskReady)
    BY <1>0, <2>1 DEF Looking, Wakes, Parked, TaskReady, ThreadsOK, Thread
  <2> QED
    BY <2>1, <2>2, SameReady, LookKept DEF slots
<1>5. ASSUME NEW w \in Worker, ThreadLoops(w) PROVE LookInv'
  <2>1. CASE we_are_destructing /\ UNCHANGED slots
    BY <1>0, <1>d, <2>1 DEF Ending
  <2>2. CASE Ready # {} /\ Takes(w, First(Ready))
    <3>1. First(Ready) \in Ready
      BY <2>2, LeastNatural DEF Ready
    <3> QED
      BY <1>0, <1>5, <2>2, <3>1, TakesLook DEF ThreadLoops
  <2>3. CASE Ready = {} /\ UNCHANGED slots
    BY <2>3, SameReady, LookNoneReady DEF slots
  <2> QED
    BY <1>5, <2>1, <2>2, <2>3 DEF ThreadLoops
<1>6. ASSUME NEW w \in Worker, TaskEnds(w) PROVE LookInv'
  <2>1. /\ pc[w] = "user" /\ pc' = [pc EXCEPT ![w] = "loop"]
        /\ wait' = Broadcast(TaskDone)
        /\ is_being_processed' = [is_being_processed EXCEPT ![idx[w]] = FALSE]
        /\ task_id' = [task_id EXCEPT ![idx[w]] = 0]
    BY <1>6 DEF TaskEnds, Done
  <2>2. Ready' \subseteq Ready
    BY <1>0, <2>1 DEF Ready, is_ready, is_empty, SlotsOK
  <2>3. \A s \in Thread \ {w} : pc[s] = "ready" => wait'[s] = wait[s]
    BY <2>1 DEF Broadcast, Parked, TaskDone
  <2>4. w \in Thread
    BY DEF Thread
  <2> QED
    BY <1>0, <2>1, <2>2, <2>3, <2>4, OthersLook
<1>7. ASSUME NEW c \in Client, shutdown_pool(c) \/ ShutdownResumes(c) PROVE LookInv'
  <2>1. ShutdownBody(c) /\ UNCHANGED slots
    BY <1>7 DEF shutdown_pool, ShutdownResumes, ShutdownBody
  <2>2. CASE Drained
    BY <1>d, <2>1, <2>2 DEF Drained
  <2>3. CASE Parks(c, "shutdown", None)
    <3>1. /\ pc' = [pc EXCEPT ![c] = "shutdown"] /\ c \in Thread
          /\ pc[c] \notin {"start", "loop", "ready"}
          /\ \A s \in Thread \ {c} : pc[s] = "ready" => wait'[s] = wait[s]
      BY <1>0, <2>3 DEF Parks, Thread, ThreadsOK, ClientPlaces, TaskDone
    <3> QED
      BY <1>0, <2>1, <3>1, SameReady, OthersLook DEF slots
  <2> QED
    BY <2>1, <2>2, <2>3 DEF ShutdownBody
<1>8. ASSUME NEW c \in Client, Joins(c) PROVE LookInv'
  <2>1. /\ pc[c] = "join" /\ pc' = [pc EXCEPT ![c] = "exit"] /\ c \in Thread
        /\ UNCHANGED <<wait, slots>>
    BY <1>8 DEF Joins, Thread
  <2> QED
    BY <1>0, <2>1, SameReady, OthersLook DEF slots
<1> QED
  BY <1>1, <1>2, <1>3, <1>4, <1>5, <1>6, <1>7, <1>8 DEF Next

(* Tasks may add tasks and wait for them: a ready task has a worker that   *)
(* is free for it, and signal() wakes enough of them.                      *)
THEOREM PoolWorkerForEachTask == Spec => []WorkerForEachTask
<1>1. Init => LookInv
  BY DEF Init, LookInv, Parked, TaskReady
<1>2. PoolInv /\ LookInv /\ [Next]_vars => LookInv'
  BY LookNext
<1>3. PoolInv /\ LookInv => WorkerForEachTask
  BY IdleWorkers DEF WorkerForEachTask, LookInv
<1> QED
  BY <1>1, <1>2, <1>3, PoolInvariant, PTL DEF Spec

-----------------------------------------------------------------------------
(***************************************************************************)
(* parallel_for.  The steps of the call and of the workers are steps of    *)
(* the pool, so that its invariant holds, and the call adds its own.       *)
(***************************************************************************)

(* The range of the call, and the bounds of its variables. *)
CallOK ==
    /\ call.begin \in Int /\ call.end \in Int /\ num \in Nat
    /\ block_size \in Nat \ {0}
    /\ 1 .. num \subseteq Job
    /\ i \in Nat
    /\ phase \in {"running", "returned", "threw"}
    /\ Size # 0

(* The tasks added are the blocks below i, numbered from 1. *)
Added == {j \in Job : status[j] # "new"}

BlocksAdded ==
    \E m \in Nat : /\ i = m * block_size
                   /\ m = 0 \/ (m - 1) * block_size < num
                   /\ Added = 1 .. m

(* They are all tasks of the caller, and workers run them. *)
CallersTasks ==
    /\ \A j \in Job : ~ inline[j]
    /\ \A s \in Slots : fn[s] # None => thread_id[s] = Caller

CallerAt ==
    /\ pc[Caller] \in {"user", "room", "all"}
    /\ pc[Caller] = "room" => arg[Caller] = TaskAt(i) /\ i < num
    /\ pc[Caller] = "all" => i >= num

(* What was called for are the indices of the blocks that are done. *)
CalledIsDone ==
    called = {c \in Job \X Int : status[c[1]] = "done" /\ c[2] \in Indices(c[1])}

(* An exception that a caller received has ended the call. *)
NothingRethrown == phase # "threw" => \A j \in Job : status[j] # "rethrown"

AllDone ==
    phase = "returned" => i >= num /\ \A j \in Job : status[j] \in {"new", "done"}

PForInv ==
    /\ CallOK /\ BlocksAdded /\ CallersTasks /\ CallerAt
    /\ CalledIsDone /\ NothingRethrown /\ AllDone

-----------------------------------------------------------------------------
(* Division: the block of an index. *)
LEMMA Quotient ==
    ASSUME NEW k \in Nat, NEW b \in Nat \ {0}
    PROVE  /\ k \div b \in Nat
           /\ (k \div b) * b <= k
           /\ k < (k \div b) * b + b
OBVIOUS

(* A number lies in one block only. *)
LEMMA OneBlock ==
    ASSUME NEW k \in Nat, NEW b \in Nat \ {0}, NEW p \in Nat, NEW q \in Nat,
           p * b <= k, k < p * b + b, q * b <= k, k < q * b + b
    PROVE  p = q
<1>1. ASSUME NEW x \in Nat, NEW y \in Nat, x < y
      PROVE  x * b + b <= y * b
  <2>1. PICK d \in Nat : y = x + 1 + d
    BY <1>1
  <2>2. y * b = x * b + b + d * b /\ d * b \in Nat /\ x * b \in Nat
    BY <2>1
  <2> QED
    BY <2>2
<1>2. p * b \in Nat /\ q * b \in Nat
  OBVIOUS
<1>3. ~ p < q
  BY <1>1, <1>2
<1>4. ~ q < p
  BY <1>1, <1>2
<1> QED
  BY <1>3, <1>4

LEMMA Products ==
    ASSUME NEW p \in Nat, NEW q \in Nat, NEW b \in Nat \ {0}
    PROVE  /\ p * b \in Nat /\ p <= p * b
           /\ (p + 1) * b = p * b + b
           /\ (p * b) \div b = p
           /\ p * b < q * b => p < q
<1>1. p * b \in Nat /\ p <= p * b /\ (p + 1) * b = p * b + b
  OBVIOUS
<1>2. (p * b) \div b = p
  BY <1>1, OneBlock, Quotient
<1>3. p * b < q * b => p < q
  OBVIOUS
<1> QED
  BY <1>1, <1>2, <1>3

-----------------------------------------------------------------------------
(* The blocks cover the range and do not overlap. *)
LEMMA BlockOf ==
    ASSUME CallOK, NEW p \in Nat, NEW x \in Int
    PROVE  x \in Indices(p + 1) <=>
              /\ x \in call.begin .. call.end - 1
              /\ p * block_size <= x - call.begin
              /\ x - call.begin < p * block_size + block_size
<1>1. PICK b \in Nat \ {0}, n \in Nat, e \in Int :
         b = block_size /\ n = num /\ e = call.begin /\ call.end = e + n
  BY DEF CallOK, num
<1>2. PICK f \in Nat : f = p * b
  BY <1>1, Products
<1>3. Indices(p + 1) = e + f .. e + (IF f + b < n THEN f + b ELSE n) - 1
  <2>1. (p + 1) - 1 = p
    OBVIOUS
  <2> QED
    BY <1>1, <1>2, <2>1 DEF Indices, BlockFrom
<1>4. p * block_size = f /\ block_size = b /\ call.begin = e /\ call.end = e + n
  BY <1>1, <1>2
<1>5. x \in e + f .. e + (IF f + b < n THEN f + b ELSE n) - 1 <=>
         x \in e .. (e + n) - 1 /\ f <= x - e /\ x - e < f + b
  OBVIOUS
<1> QED
  BY <1>3, <1>4, <1>5

LEMMA BlocksCover ==
    ASSUME CallOK, NEW m \in Nat, num <= m * block_size,
           NEW x \in call.begin .. call.end - 1
    PROVE  \E j \in 1 .. m : x \in Indices(j)
<1>0. /\ call.begin \in Int /\ call.end \in Int /\ num = call.end - call.begin
      /\ num \in Nat /\ block_size \in Nat \ {0} /\ m * block_size \in Nat
  BY Products DEF CallOK, num
<1>1. PICK k \in Nat : k = x - call.begin /\ k < num
  BY <1>0
<1>2. PICK b \in Nat \ {0} : b = block_size
  BY <1>0
<1>3. PICK p \in Nat : p * b <= k /\ k < p * b + b
  BY Quotient
<1>4. p * b < m * b
  <2>1. p * b \in Nat
    BY Products
  <2> QED
    BY <1>0, <1>1, <1>2, <1>3, <2>1
<1>5. p + 1 \in 1 .. m
  BY <1>4, Products
<1>6. x \in Indices(p + 1)
  BY <1>1, <1>2, <1>3, BlockOf
<1> QED
  BY <1>5, <1>6

LEMMA BlocksApart ==
    ASSUME CallOK, NEW j \in Nat \ {0}, NEW k \in Nat \ {0}, NEW x \in Int,
           x \in Indices(j), x \in Indices(k)
    PROVE  j = k /\ x \in call.begin .. call.end - 1
<1>1. PICK p \in Nat : j = p + 1
  <2>1. j - 1 \in Nat /\ j = (j - 1) + 1
    OBVIOUS
  <2> QED
    BY <2>1
<1>2. PICK q \in Nat : k = q + 1
  <2>1. k - 1 \in Nat /\ k = (k - 1) + 1
    OBVIOUS
  <2> QED
    BY <2>1
<1>3. /\ x \in call.begin .. call.end - 1
      /\ p * block_size <= x - call.begin /\ x - call.begin < p * block_size + block_size
      /\ q * block_size <= x - call.begin /\ x - call.begin < q * block_size + block_size
  BY <1>1, <1>2, BlockOf
<1>4. x - call.begin \in Nat /\ block_size \in Nat \ {0}
  BY <1>3 DEF CallOK
<1>5. p = q
  BY <1>3, <1>4, OneBlock
<1> QED
  BY <1>1, <1>2, <1>3, <1>5

(* The property, from the invariant. *)
LEMMA CallIsRight == PForInv => EachIndexOnce
<1> SUFFICES ASSUME PForInv, phase = "returned"
             PROVE  /\ {c[2] : c \in called} = call.begin .. call.end - 1
                    /\ \A c, d \in called : c[2] = d[2] => c = d
  BY DEF EachIndexOnce
<1>0. CallOK /\ BlocksAdded /\ CalledIsDone /\ AllDone
  BY DEF PForInv
<1>1. PICK m \in Nat : i = m * block_size /\ Added = 1 .. m
  BY <1>0 DEF BlocksAdded
<1>2. \A j \in Job : status[j] = "done" <=> j \in 1 .. m
  BY <1>0, <1>1 DEF AllDone, Added
<1>3. num <= m * block_size /\ 1 .. m \subseteq Job
  <2>1. num \in Nat /\ i \in Nat
    BY <1>0 DEF CallOK
  <2> QED
    BY <1>0, <1>1, <2>1 DEF AllDone, Added
<1>4. ASSUME NEW c \in called
      PROVE  /\ c[1] \in 1 .. m /\ c[2] \in Int /\ c[2] \in Indices(c[1])
             /\ c = <<c[1], c[2]>> /\ c[2] \in call.begin .. call.end - 1
  <2>1. /\ c \in Job \X Int /\ c[1] \in 1 .. m /\ c[2] \in Indices(c[1])
        /\ c = <<c[1], c[2]>>
    BY <1>0, <1>2 DEF CalledIsDone
  <2>2. c[1] \in Nat \ {0} /\ c[2] \in Int
    BY <2>1
  <2> QED
    BY <1>0, <2>1, <2>2, BlocksApart
<1>5. ASSUME NEW c \in called, NEW d \in called, c[2] = d[2] PROVE c = d
  <2>1. c[1] \in Nat \ {0} /\ d[1] \in Nat \ {0}
    BY <1>4
  <2>2. c[1] = d[1]
    BY <1>0, <1>4, <1>5, <2>1, BlocksApart
  <2> QED
    BY <1>4, <1>5, <2>2
<1>6. ASSUME NEW x \in call.begin .. call.end - 1 PROVE \E c \in called : c[2] = x
  <2>1. PICK j \in 1 .. m : x \in Indices(j)
    BY <1>0, <1>3, BlocksCover
  <2>2. j \in Job /\ x \in Int /\ status[j] = "done"
    BY <1>0, <1>2, <1>3 DEF CallOK
  <2>3. <<j, x>> \in called
    BY <1>0, <2>1, <2>2 DEF CalledIsDone
  <2> QED
    BY <2>3
<1> QED
  BY <1>4, <1>5, <1>6

-----------------------------------------------------------------------------
(* What a step keeps that leaves the call alone. *)
LEMMA CallKept ==
    ASSUME UNCHANGED call
    PROVE  /\ num' = num /\ block_size' = block_size
           /\ \A k : TaskAt(k)' = TaskAt(k)
           /\ \A j : Indices(j)' = Indices(j)
BY DEF num, block_size, TaskAt, Indices, BlockFrom

LEMMA CallOKKept ==
    ASSUME CallOK, UNCHANGED call, i' \in Nat, phase' \in {"running", "returned", "threw"}
    PROVE  CallOK'
BY CallKept DEF CallOK

LEMMA BlocksKept ==
    ASSUME BlocksAdded, UNCHANGED <<call, i>>,
           \A j \in Job : status'[j] = "new" <=> status[j] = "new"
    PROVE  BlocksAdded'
<1>1. Added' = Added
  BY DEF Added
<1> QED
  BY <1>1, CallKept DEF BlocksAdded

LEMMA CalledKept ==
    ASSUME CalledIsDone, UNCHANGED <<call, called>>,
           \A j \in Job : status'[j] = "done" <=> status[j] = "done"
    PROVE  CalledIsDone'
<1>1. \A j \in Job : Indices(j)' = Indices(j)
  BY CallKept
<1> QED
  BY <1>1 DEF CalledIsDone

(* The caller is not one of the workers. *)
LEMMA CallerOutside ==
    /\ Caller \in Client /\ Caller \in Thread /\ Caller \notin Worker
    /\ PoolInv /\ Size # 0 => ~ is_worker_thread(Caller)
BY ParallelForAssumption, PoolAssumption
   DEF Thread, is_worker_thread, PoolInv, Places, ThreadsOK

(* The next block is a new task. *)
LEMMA NextBlock ==
    ASSUME CallOK, BlocksAdded, i < num
    PROVE  \E m \in Nat : /\ i = m * block_size /\ Added = 1 .. m
                          /\ TaskAt(i) = m + 1 /\ m + 1 \in Job
                          /\ status[m + 1] = "new"
<1>1. PICK m \in Nat : i = m * block_size /\ Added = 1 .. m
  BY DEF BlocksAdded
<1>2. PICK b \in Nat \ {0} : b = block_size
  BY DEF CallOK
<1>3. m <= i /\ i \div b = m
  BY <1>1, <1>2, Products
<1>4. TaskAt(i) = m + 1
  BY <1>2, <1>3 DEF TaskAt
<1>5. m + 1 \in 1 .. num
  BY <1>3 DEF CallOK
<1>6. m + 1 \in Job /\ m + 1 \notin Added
  BY <1>1, <1>5 DEF CallOK
<1> QED
  BY <1>1, <1>4, <1>6 DEF Added

-----------------------------------------------------------------------------
(* An exception of an earlier block ends the call. *)
LEMMA PropagatesCall ==
    ASSUME PoolInv, PForInv, Trapped # {}, Propagates(Caller), phase' = "threw",
           UNCHANGED <<call, i, called, inline>>
    PROVE  PForInv'
<1>0. /\ CallOK /\ BlocksAdded /\ CallersTasks /\ CallerAt /\ CalledIsDone
      /\ SlotsOK /\ JobsOK /\ Exceptions /\ ThreadsOK
  BY DEF PForInv, PoolInv, Tasks, Places
<1>n. Caller \in Thread /\ None \notin Job
  BY CallerOutside, PoolAssumption
<1>1. First(Trapped) \in Trapped
  BY LeastNatural DEF Trapped
<1>2. PICK s \in Slots : s = First(Trapped) /\ eptr[s] # None
  BY <1>1 DEF Trapped
<1>3. PICK j \in Job : j = eptr[s]
  BY <1>0, <1>2 DEF SlotsOK
<1>4. /\ status' = [status EXCEPT ![j] = "rethrown"]
      /\ pc' = [pc EXCEPT ![Caller] = "user"]
      /\ UNCHANGED <<thread_id, fn>>
  BY <1>2, <1>3 DEF Propagates, Returns
<1>5. status[j] = "failed"
  BY <1>0, <1>2, <1>3 DEF Exceptions, NoExceptionLost
<1>6. \A k \in Job : /\ status'[k] = "new" <=> status[k] = "new"
                     /\ status'[k] = "done" <=> status[k] = "done"
  BY <1>0, <1>4, <1>5 DEF JobsOK
<1>7. CallOK'
  BY <1>0, CallOKKept DEF CallOK
<1>8. BlocksAdded' /\ CalledIsDone'
  BY <1>0, <1>6, BlocksKept, CalledKept
<1>9. CallersTasks'
  BY <1>0, <1>4 DEF CallersTasks
<1>10. CallerAt'
  BY <1>0, <1>4, <1>n DEF CallerAt, ThreadsOK
<1>11. NothingRethrown' /\ AllDone'
  BY DEF NothingRethrown, AllDone
<1> QED
  BY <1>7, <1>8, <1>9, <1>10, <1>11 DEF PForInv

(* A block is handed over. *)
LEMMA HandsCall ==
    ASSUME PoolInv, PForInv, phase = "running", i < num, NEW s \in Slots,
           Hands(Caller, TaskAt(i), s),
           i' = i + block_size, UNCHANGED <<call, phase, called, inline>>
    PROVE  PForInv'
<1>0. /\ CallOK /\ BlocksAdded /\ CallersTasks /\ CallerAt /\ CalledIsDone
      /\ NothingRethrown /\ SlotsOK /\ JobsOK /\ ThreadsOK
  BY DEF PForInv, PoolInv, Tasks, Places
<1>n. Caller \in Thread
  BY CallerOutside
<1>1. PICK m \in Nat : /\ i = m * block_size /\ Added = 1 .. m
                       /\ TaskAt(i) = m + 1 /\ m + 1 \in Job
                       /\ status[m + 1] = "new"
  BY <1>0, NextBlock
<1>2. /\ status' = [status EXCEPT ![m + 1] = "queued"]
      /\ thread_id' = [thread_id EXCEPT ![s] = Caller]
      /\ fn' = [fn EXCEPT ![s] = m + 1]
      /\ pc' = [pc EXCEPT ![Caller] = "user"]
  BY <1>1 DEF Hands, Returns
<1>3. PICK b \in Nat \ {0} : b = block_size /\ b = block_size'
  BY <1>0, CallKept DEF CallOK
<1>4. i' = (m + 1) * b /\ (m + 1) - 1 = m /\ m + 1 \in Nat /\ i' \in Nat
  <2>1. m * b \in Nat /\ (m + 1) * b = m * b + b
    BY Products
  <2>2. i' = m * b + b
    BY <1>1, <1>3
  <2> QED
    BY <2>1, <2>2
<1>5. CallOK'
  BY <1>0, <1>4, CallOKKept DEF CallOK
<1>6. Added' = 1 .. m + 1
  <2>1. \A k \in Job : status'[k] # "new" <=> status[k] # "new" \/ k = m + 1
    BY <1>0, <1>1, <1>2 DEF JobsOK
  <2>2. Added' = Added \cup {m + 1}
    BY <1>1, <2>1 DEF Added
  <2> QED
    BY <1>1, <2>2
<1>7. BlocksAdded'
  <2>1. ((m + 1) - 1) * b < num'
    BY <1>1, <1>3, <1>4, CallKept
  <2> QED
    BY <1>3, <1>4, <1>6, <2>1 DEF BlocksAdded
<1>8. CalledIsDone'
  <2>1. \A j \in Job : status'[j] = "done" <=> status[j] = "done"
    BY <1>0, <1>1, <1>2 DEF JobsOK
  <2> QED
    BY <1>0, <2>1, CalledKept
<1>9. CallersTasks'
  BY <1>0, <1>2 DEF CallersTasks, SlotsOK
<1>10. CallerAt'
  BY <1>0, <1>2, <1>n DEF CallerAt, ThreadsOK
<1>11. NothingRethrown' /\ AllDone'
  BY <1>0, <1>1, <1>2 DEF NothingRethrown, AllDone, JobsOK
<1> QED
  BY <1>5, <1>7, <1>8, <1>9, <1>10, <1>11 DEF PForInv

-----------------------------------------------------------------------------
(* The tasks and the call stay as they are, up to where the caller is. *)
LEMMA SameCall ==
    ASSUME PForInv, CallerAt', UNCHANGED <<pfvars, fn, thread_id, status, inline>>
    PROVE  PForInv'
<1>0. /\ CallOK /\ BlocksAdded /\ CallersTasks /\ CalledIsDone
      /\ NothingRethrown /\ AllDone /\ UNCHANGED <<call, i, phase, called>>
  BY DEF PForInv, pfvars
<1>1. CallOK'
  BY <1>0, CallOKKept DEF CallOK
<1>2. BlocksAdded' /\ CalledIsDone'
  BY <1>0, BlocksKept, CalledKept
<1>3. CallersTasks' /\ NothingRethrown' /\ AllDone'
  BY <1>0, CallKept DEF CallersTasks, NothingRethrown, AllDone
<1> QED
  BY <1>1, <1>2, <1>3 DEF PForInv

LEMMA ParksCall ==
    ASSUME PoolInv, PForInv, NEW at, NEW x, Parks(Caller, at, x),
           \/ at = "room" /\ i < num /\ x = TaskAt(i)
           \/ at = "all" /\ i >= num,
           UNCHANGED <<pfvars, fn, thread_id, status, inline>>
    PROVE  PForInv'
<1>0. ThreadsOK /\ UNCHANGED <<call, i>> /\ Caller \in Thread
  BY CallerOutside DEF PoolInv, Places, pfvars
<1>1. pc'[Caller] = at /\ arg'[Caller] = x
  BY <1>0 DEF Parks, ThreadsOK
<1>2. CallerAt'
  BY <1>0, <1>1, CallKept DEF CallerAt
<1> QED
  BY <1>2, SameCall

LEMMA SubmitsKeeps ==
    ASSUME PoolInv, PForInv, Submits
    PROVE  PoolInv' /\ PForInv'
<1>0. /\ CallOK /\ BlocksAdded /\ CallerAt /\ JobsOK
  BY DEF PForInv, PoolInv, Tasks
<1>n. Caller \in Thread /\ ~ is_worker_thread(Caller)
  BY <1>0, CallerOutside DEF CallOK
<1>1. /\ phase = "running" /\ i < num
      /\ i' = IF status'[TaskAt(i)] = "queued" THEN i + block_size ELSE i
      /\ phase' = IF Trapped # {} THEN "threw" ELSE phase
      /\ UNCHANGED <<call, called>>
  BY DEF Submits
<1>2. PICK j \in Job : j = TaskAt(i) /\ status[j] = "new"
  BY <1>0, <1>1, NextBlock
<1>3. PoolInv'
  BY <1>2, <1>n, AddKeeps, AddResumesKeeps DEF Submits
<1>4. \/ ~ MayFindSlot /\ Propagates(Caller) /\ UNCHANGED inline
      \/ /\ MayFindSlot /\ Empty # {}
         /\ Hands(Caller, j, First(Empty)) /\ UNCHANGED inline
      \/ /\ MayFindSlot /\ Parks(Caller, "room", j)
         /\ UNCHANGED <<fn, thread_id, status, inline>>
  <2>1. CASE add_task(Caller, j)
    BY <2>1, <1>n DEF add_task, slots, jobs
  <2>2. CASE AddResumes(Caller)
    <3>1. arg[Caller] = j
      BY <1>0, <1>2, <2>2 DEF AddResumes, Wakes, CallerAt
    <3> QED
      BY <2>2, <3>1 DEF AddResumes, slots
  <2> QED
    BY <1>2, <2>1, <2>2 DEF Submits
<1>5. CASE ~ MayFindSlot /\ Propagates(Caller) /\ UNCHANGED inline
  <2>1. Trapped # {} /\ phase' = "threw"
    BY <1>1, <1>5 DEF MayFindSlot
  <2>2. status'[j] # "queued"
    BY <1>0, <1>2, <1>5 DEF Propagates, JobsOK
  <2> QED
    BY <1>1, <1>2, <1>3, <1>5, <2>1, <2>2, PropagatesCall
<1>6. CASE MayFindSlot /\ Empty # {} /\ Hands(Caller, j, First(Empty)) /\ UNCHANGED inline
  <2>1. First(Empty) \in Slots /\ phase' = phase
    BY <1>1, <1>6, LeastNatural DEF Empty, MayFindSlot
  <2>2. status'[j] = "queued"
    BY <1>0, <1>6 DEF Hands, JobsOK
  <2> QED
    BY <1>1, <1>2, <1>3, <1>6, <2>1, <2>2, HandsCall
<1>7. CASE /\ MayFindSlot /\ Parks(Caller, "room", j)
           /\ UNCHANGED <<fn, thread_id, status, inline>>
  <2>1. UNCHANGED pfvars
    BY <1>1, <1>2, <1>7 DEF pfvars, MayFindSlot
  <2> QED
    BY <1>1, <1>2, <1>3, <1>7, <2>1, ParksCall
<1> QED
  BY <1>4, <1>5, <1>6, <1>7

-----------------------------------------------------------------------------
(* The wait at the end.  When no slot holds a task of the caller, all its  *)
(* blocks have ended, and without an exception kept they are done.         *)
LEMMA NoneLeft ==
    ASSUME PoolInv, PForInv, phase = "running", TasksOf(Caller) = {}, Trapped = {}
    PROVE  \A j \in Job : status[j] \in {"new", "done"}
<1>0. /\ CallersTasks /\ NothingRethrown /\ SlotsOK /\ JobsOK /\ JobSlots
      /\ Exceptions /\ OnStacks
  BY DEF PForInv, PoolInv, Tasks
<1>1. \A s \in Slots : fn[s] = None
  BY <1>0 DEF TasksOf, CallersTasks, SlotsOK, is_empty
<1>2. ASSUME NEW j \in Job PROVE status[j] \notin {"queued", "running", "failed", "rethrown"}
  <2>1. status[j] # "queued"
    BY <1>0, <1>1, PoolAssumption DEF JobSlots
  <2>2. status[j] # "running"
    <3> SUFFICES ASSUME status[j] = "running" PROVE FALSE
      OBVIOUS
    <3>1. PICK own \in [Job -> Thread \cup {None}], depth \in [Job -> Nat \ {0}] :
             Stacks(own, depth)
      BY <1>0 DEF OnStacks
    <3>2. own[j] \in Worker /\ fn[idx[own[j]]] = j
      BY <1>0, <3>1 DEF Stacks, Bottoms, Running, CallersTasks
    <3>3. idx[own[j]] \in Slots
      BY <1>0, <3>2 DEF JobsOK
    <3> QED
      BY <1>1, <3>2, <3>3, PoolAssumption
  <2>3. status[j] # "failed"
    BY <1>0, PoolAssumption DEF Exceptions, NoExceptionLost, Trapped
  <2>4. status[j] # "rethrown"
    BY <1>0 DEF NothingRethrown
  <2> QED
    BY <2>1, <2>2, <2>3, <2>4
<1> QED
  BY <1>0, <1>2 DEF JobsOK, Statuses

LEMMA WaitsForAllKeeps ==
    ASSUME PoolInv, PForInv, WaitsForAll
    PROVE  PoolInv' /\ PForInv'
<1>0. /\ CallOK /\ BlocksAdded /\ CallersTasks /\ CallerAt /\ CalledIsDone
      /\ NothingRethrown /\ ThreadsOK
  BY DEF PForInv, PoolInv, Places
<1>n. Caller \in Thread
  BY CallerOutside
<1>1. /\ phase = "running" /\ i >= num
      /\ phase' = CASE pc'[Caller] = "all" -> phase
                    [] pc'[Caller] # "all" /\ Trapped = {} -> "returned"
                    [] OTHER -> "threw"
      /\ UNCHANGED <<call, i, called>>
  BY DEF WaitsForAll
<1>2. PoolInv'
  BY <1>n, WaitsKeep DEF WaitsForAll, Resumes
<1>3. WaitBody(Caller, TasksOf(Caller) # {}, "all", None)
  BY DEF WaitsForAll, wait_for_all_tasks, AllResumes
<1>4. CASE Parks(Caller, "all", None) /\ UNCHANGED <<slots, status, id, parent>>
  <2>1. pc'[Caller] = "all"
    BY <1>0, <1>4, <1>n DEF Parks, ThreadsOK
  <2>2. UNCHANGED <<pfvars, fn, thread_id, status, inline>>
    BY <1>1, <1>3, <1>4, <2>1 DEF pfvars, slots, WaitBody
  <2> QED
    BY <1>1, <1>2, <1>4, <2>2, ParksCall
<1>5. CASE Trapped # {} /\ Propagates(Caller)
  <2>1. pc'[Caller] = "user"
    BY <1>0, <1>5, <1>n DEF Propagates, Returns, ThreadsOK
  <2>2. phase' = "threw" /\ UNCHANGED inline
    BY <1>1, <1>3, <1>5, <2>1 DEF WaitBody
  <2> QED
    BY <1>1, <1>2, <1>5, <2>2, PropagatesCall
<1>6. CASE /\ TasksOf(Caller) = {} /\ Trapped = {} /\ Returns(Caller)
           /\ UNCHANGED <<slots, status, id, parent>>
  <2>1. pc'[Caller] = "user"
    BY <1>0, <1>6, <1>n DEF Returns, ThreadsOK
  <2>2. phase' = "returned" /\ UNCHANGED <<fn, thread_id, status, inline>>
    BY <1>1, <1>3, <1>6, <2>1 DEF WaitBody, slots
  <2>3. CallOK' /\ BlocksAdded' /\ CalledIsDone'
    BY <1>0, <1>1, <2>2, CallOKKept, BlocksKept, CalledKept DEF CallOK
  <2>4. CallersTasks' /\ CallerAt'
    BY <1>0, <2>1, <2>2 DEF CallersTasks, CallerAt
  <2>5. \A j \in Job : status[j] \in {"new", "done"}
    BY <1>1, <1>6, NoneLeft
  <2>6. NothingRethrown' /\ AllDone'
    BY <1>1, <2>2, <2>5, CallKept DEF NothingRethrown, AllDone
  <2> QED
    BY <1>2, <2>3, <2>4, <2>6 DEF PForInv
<1> QED
  BY <1>3, <1>4, <1>5, <1>6 DEF WaitBody

-----------------------------------------------------------------------------
(* The workers go on by themselves. *)
LEMMA OthersStep ==
    ASSUME PForInv, CalledIsDone', UNCHANGED <<call, i, phase, inline>>,
           pc'[Caller] = pc[Caller], arg'[Caller] = arg[Caller],
           \A s \in Slots : fn'[s] # None => fn[s] # None /\ thread_id'[s] = thread_id[s],
           \A j \in Job : \/ status'[j] = status[j]
                          \/ /\ status[j] \in {"queued", "running"}
                             /\ status'[j] \in {"running", "done", "failed"}
    PROVE  PForInv'
<1>0. CallOK /\ BlocksAdded /\ CallersTasks /\ CallerAt /\ NothingRethrown /\ AllDone
  BY DEF PForInv
<1>1. CallOK' /\ BlocksAdded'
  BY <1>0, CallOKKept, BlocksKept DEF CallOK
<1>2. CallersTasks' /\ NothingRethrown'
  BY <1>0 DEF CallersTasks, NothingRethrown
<1>3. CallerAt' /\ AllDone'
  BY <1>0, CallKept DEF CallerAt, AllDone
<1> QED
  BY <1>1, <1>2, <1>3 DEF PForInv

LEMMA LoopsCall ==
    ASSUME PoolInv, PForInv, NEW w \in Worker, ThreadStarts(w) \/ ThreadLoops(w),
           UNCHANGED pfvars
    PROVE  PForInv'
<1>0. /\ CalledIsDone /\ ThreadsOK /\ SlotsOK /\ JobsOK /\ SlotJobs
      /\ UNCHANGED <<call, i, phase, called>>
  BY DEF PForInv, PoolInv, Places, Tasks, pfvars
<1>n. Caller \in Thread /\ Caller # w
  BY CallerOutside
<1>1. /\ pc'[Caller] = pc[Caller] /\ arg'[Caller] = arg[Caller]
      /\ UNCHANGED <<fn, thread_id, inline>>
  BY <1>0, <1>n DEF ThreadStarts, ThreadLoops, Parks, Takes, Returns, ThreadsOK, slots, jobs
<1>2. \A j \in Job : \/ status'[j] = status[j]
                     \/ status[j] = "queued" /\ status'[j] = "running"
  <2>1. CASE UNCHANGED status
    BY <2>1
  <2>2. CASE Ready # {} /\ Takes(w, First(Ready))
    <3>1. First(Ready) \in Ready
      BY <2>2, LeastNatural DEF Ready
    <3>2. PICK s \in Slots : s = First(Ready) /\ is_ready(s)
      BY <3>1 DEF Ready
    <3>3. fn[s] \in Job /\ status[fn[s]] = "queued"
      BY <1>0, <3>2 DEF is_ready, SlotsOK, SlotJobs
    <3>4. status' = [status EXCEPT ![fn[s]] = "running"]
      BY <2>2, <3>2 DEF Takes
    <3> QED
      BY <1>0, <3>3, <3>4 DEF JobsOK
  <2> QED
    BY <2>1, <2>2 DEF ThreadStarts, ThreadLoops, jobs
<1>3. CalledIsDone'
  BY <1>0, <1>2, CalledKept
<1> QED
  BY <1>0, <1>1, <1>2, <1>3, OthersStep

LEMMA BlockEndsCall ==
    ASSUME PoolInv, PForInv, NEW w \in Worker, BlockEnds(w)
    PROVE  PForInv'
<1>0. /\ CallOK /\ BlocksAdded /\ CalledIsDone /\ ThreadsOK /\ SlotsOK /\ JobsOK
      /\ OnStacks
  BY DEF PForInv, PoolInv, Places, Tasks
<1>n. Caller \in Thread /\ Caller # w /\ w \in Thread
  BY CallerOutside DEF Thread
<1>1. PICK j \in Job : j = frame[w] /\ status[j] = "running"
  BY <1>0, <1>n DEF BlockEnds, TaskEnds, OnStacks, Stacks, Tops, Running
<1>2. PICK v \in {"done", "failed"} : status' = [status EXCEPT ![j] = v]
  BY <1>1 DEF BlockEnds, TaskEnds
<1>3. /\ called' = called \cup (IF status'[j] = "done" THEN {j} \X Indices(j) ELSE {})
      /\ fn' = [fn EXCEPT ![idx[w]] = None]
      /\ pc' = [pc EXCEPT ![w] = "loop"]
      /\ UNCHANGED <<call, i, phase, arg, thread_id, inline>>
  BY <1>1 DEF BlockEnds, TaskEnds, Done
<1>4. \A k \in Job : status'[k] = IF k = j THEN v ELSE status[k]
  BY <1>0, <1>2 DEF JobsOK
<1>5. Indices(j) \subseteq Int
  <2>1. j \in Nat
    BY <1>0, <1>1 DEF BlocksAdded, Added
  <2> QED
    BY <1>0, <2>1 DEF CallOK, Indices, BlockFrom
<1>6. CalledIsDone'
  <2>1. \A k \in Job : Indices(k)' = Indices(k)
    BY <1>3, CallKept
  <2>2. ASSUME NEW c
        PROVE  c \in called' <=>
                   c \in Job \X Int /\ status'[c[1]] = "done" /\ c[2] \in Indices(c[1])
    <3>1. c \in called <=>
             c \in Job \X Int /\ status[c[1]] = "done" /\ c[2] \in Indices(c[1])
      BY <1>0 DEF CalledIsDone
    <3>2. c \in {j} \X Indices(j) <=> c \in Job \X Int /\ c[1] = j /\ c[2] \in Indices(c[1])
      BY <1>5
    <3>3. c \in Job \X Int => c[1] \in Job
      OBVIOUS
    <3> QED
      BY <1>1, <1>3, <1>4, <3>1, <3>2, <3>3
  <2> QED
    BY <2>1, <2>2 DEF CalledIsDone
<1>7. pc'[Caller] = pc[Caller] /\ arg'[Caller] = arg[Caller]
  BY <1>0, <1>3, <1>n DEF ThreadsOK
<1>8. \A s \in Slots : fn'[s] # None => fn[s] # None /\ thread_id'[s] = thread_id[s]
  BY <1>0, <1>3 DEF SlotsOK
<1>9. \A k \in Job : \/ status'[k] = status[k]
                     \/ /\ status[k] \in {"queued", "running"}
                        /\ status'[k] \in {"running", "done", "failed"}
  BY <1>1, <1>4
<1> QED
  BY <1>3, <1>6, <1>7, <1>8, <1>9, OthersStep

LEMMA CallInit == PFInit => PForInv
<1> SUFFICES ASSUME PFInit PROVE PForInv
  OBVIOUS
<1>1. PICK r \in Ranges, n \in Chunks : call = [begin |-> r[1], end |-> r[2], chunks |-> n]
  BY DEF PFInit
<1>2. /\ r[1] \in Int /\ r[2] \in Int /\ r[1] <= r[2]
      /\ 1 .. r[2] - r[1] \subseteq Job /\ n \in Nat \ {0}
  BY ParallelForAssumption
<1>3. call.begin = r[1] /\ call.end = r[2] /\ call.chunks = n
  BY <1>1
<1>4. num \in Nat
  BY <1>2, <1>3 DEF num
<1>5. block_size \in Nat \ {0}
  <2>1. PICK d \in Nat \ {0} : d = Size * call.chunks
    BY <1>2, <1>3, SizeNat DEF PFInit
  <2>2. num \div d \in Nat
    BY <1>4, Quotient
  <2> QED
    BY <2>1, <2>2 DEF block_size
<1>6. i = 0 /\ phase = "running" /\ called = {} /\ Init
  BY DEF PFInit
<1>7. CallOK
  BY <1>2, <1>3, <1>4, <1>5, <1>6 DEF CallOK, num, PFInit
<1>8. BlocksAdded
  <2>1. Added = 1 .. 0 /\ 0 = 0 * block_size
    BY <1>5, <1>6 DEF Added, Init
  <2> QED
    BY <1>6, <2>1 DEF BlocksAdded
<1>9. CallersTasks /\ CalledIsDone /\ NothingRethrown /\ AllDone
  BY <1>6 DEF Init, CallersTasks, CalledIsDone, NothingRethrown, AllDone
<1>10. CallerAt
  BY <1>6, CallerOutside DEF Init, CallerAt
<1> QED
  BY <1>7, <1>8, <1>9, <1>10 DEF PForInv

LEMMA CallNext ==
    PoolInv /\ PForInv /\ [PFNext]_<<vars, pfvars>> => PoolInv' /\ PForInv'
<1> SUFFICES ASSUME PoolInv, PForInv, [PFNext]_<<vars, pfvars>>
             PROVE  PoolInv' /\ PForInv'
  OBVIOUS
<1>1. CASE Submits
  BY <1>1, SubmitsKeeps
<1>2. CASE WaitsForAll
  BY <1>2, WaitsForAllKeeps
<1>3. ASSUME NEW w \in Worker, WorkerSteps(w) PROVE PoolInv' /\ PForInv'
  <2>1. PoolInv'
    BY <1>3, ThreadStartsKeeps, ThreadLoopsKeeps, TaskEndsKeeps DEF WorkerSteps, BlockEnds
  <2> QED
    BY <1>3, <2>1, LoopsCall, BlockEndsCall DEF WorkerSteps
<1>4. CASE \/ UNCHANGED <<vars, pfvars>>
           \/ \E t \in Thread : SpuriousWakeUp(t) /\ UNCHANGED pfvars
  <2>1. PoolInv'
    BY <1>4, WakeUpKeeps
  <2>2. UNCHANGED <<pfvars, fn, thread_id, status, inline, pc, arg>>
    BY <1>4 DEF SpuriousWakeUp, vars, slots, jobs
  <2>3. CallerAt'
    BY <2>2, CallKept DEF PForInv, CallerAt, pfvars
  <2> QED
    BY <2>1, <2>2, <2>3, SameCall
<1> QED
  BY <1>1, <1>2, <1>3, <1>4 DEF PFNext

(* parallel_for on a pool with any number of workers, any range and any    *)
(* number of chunks, with blocks that may throw: when the call returns,    *)
(* the function has been called once for every index of the range.         *)
THEOREM ParallelForEachIndexOnce == PFSpec => []EachIndexOnce
<1>1. PFInit => PoolInv /\ PForInv
  BY PoolInit, CallInit DEF PFInit
<1> QED
  BY <1>1, CallNext, CallIsRight, PTL DEF PFSpec
=============================================================================
