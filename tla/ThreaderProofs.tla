--------------------------- MODULE ThreaderProofs ---------------------------
(***************************************************************************)
(* Proofs about Threader for any users, functions and end handlers, and    *)
(* any number of threads.                                                  *)
(***************************************************************************)
EXTENDS Threader, FiniteSetTheorems, TLAPS

Places == {"user", "none", "start", "run", "end", "handler", "delete"}
            \cup DataReady \cup DataEmpty \cup Destructed

InPool == {p \in Pool : pc[p] = "ready"}
Alive  == {p \in Pool : pc[p] # "none"}

(* A thread is in a wait set exactly while it is in a loop that waits. *)
WaitLoops == \A t \in Thread : wait[t] = "no" <=> pc[t] \notin {"ready", "empty", "destruct"}

(* A thread holds a handler only while it calls it, and has handlers       *)
(* registered only from its first function on.                             *)
HandlerHeld ==
    \A p \in Pool : /\ pc[p] # "handler" => calling[p] = None
                    /\ pc[p] \in {"none", "start", "ready"} => reg[p] = {}

(* Only threads of the pool wait in it. *)
ReadyIsPool == \A t \in Thread : pc[t] = "ready" => t \in Pool

(* A create_new_thread that waits has a function to run. *)
ArgHeld == \A t \in Thread : pc[t] = "empty" => arg[t] \in Job

(***************************************************************************)
(* The inductive invariant.  A signal on data_ready reaches a thread of    *)
(* the pool because pool_count counts the threads in that wait, which are  *)
(* asleep or about to look at the slot.                                    *)
(***************************************************************************)
Inv == TypeOK /\ CountsExact /\ WaitLoops /\ HandlerHeld /\ ArgHeld
         /\ ReadyIsPool /\ NoJobOverlooked /\ NoCreatorOverlooked

-----------------------------------------------------------------------------
(* The sizes of sets of threads of the pool. *)
LEMMA Sizes ==
    ASSUME NEW S \in SUBSET Pool, NEW p \in Pool
    PROVE  /\ Cardinality(S) \in Nat
           /\ Cardinality(S) = 0 <=> S = {}
           /\ Cardinality(S \cup {p}) = IF p \in S THEN Cardinality(S) ELSE Cardinality(S) + 1
           /\ Cardinality(S \ {p}) = IF p \in S THEN Cardinality(S) - 1 ELSE Cardinality(S)
BY ThreaderAssumption, FS_Subset, FS_CardinalityType, FS_EmptySet, FS_AddElement, FS_RemoveElement

(* What the counts say. *)
LEMMA Counts ==
    ASSUME CountsExact
    PROVE  pool_count = Cardinality(InPool) /\ total_count = Cardinality(Alive)
BY DEF CountsExact, InPool, Alive

(* signal() wakes one thread that is asleep, if there is one. *)
LEMMA SignalledWakes ==
    ASSUME NEW w, NEW sig, w \in [Thread -> {"no", "parked", "woken", "timedout"}],
           wait' \in Signalled(w, sig)
    PROVE  /\ wait' \in [Thread -> {"no", "parked", "woken", "timedout"}]
           /\ \A t \in Thread : wait'[t] = w[t] \/ (t \in Parked(sig) /\ wait'[t] = "woken")
           /\ Parked(sig) # {} => \E t \in Parked(sig) : wait'[t] = "woken"
BY DEF Signalled, Parked

LEMMA InvInit == Init => Inv
<1> SUFFICES ASSUME Init PROVE Inv
  OBVIOUS
<1> USE ThreaderAssumption DEF Init, Thread
<1>1. TypeOK
  BY DEF TypeOK
<1>2. InPool = {} /\ Alive = {}
  BY DEF InPool, Alive
<1>3. CountsExact
  BY <1>2, FS_EmptySet DEF CountsExact, InPool, Alive
<1>4. WaitLoops /\ HandlerHeld /\ ArgHeld /\ ReadyIsPool /\ NoJobOverlooked /\ NoCreatorOverlooked
  BY DEF WaitLoops, HandlerHeld, ArgHeld, ReadyIsPool, NoJobOverlooked, NoCreatorOverlooked, Parked, DataEmpty
<1> QED
  BY <1>1, <1>3, <1>4 DEF Inv

(* A thread that runs a function, or does not belong to the pool, moves. *)
LEMMA CountsUndisturbed ==
    ASSUME CountsExact, UNCHANGED <<counts, thread_ids>>,
           \A p \in Pool : pc'[p] = pc[p] \/ {pc[p], pc'[p]} \cap {"none", "start", "ready"} = {}
    PROVE  CountsExact'
BY DEF CountsExact, counts

-----------------------------------------------------------------------------
(* create_new_thread, called or woken up. *)
LEMMA CreateKeeps ==
    ASSUME Inv, NEW t \in Thread, NEW j \in Job, Create(t, j),
           pc[t] = Home(t) \/ Wakes(t, "empty")
    PROVE  Inv'
<1> USE ThreaderAssumption DEF Inv
<1>1. t \in Pool => pc[t] \in {"run", "empty"} /\ Home(t) = "run"
  BY DEF Home, Wakes
<1>2. UNCHANGED <<pool_count, destruct, thread_ids, reg, life, job, calling>>
  BY DEF Create
<1>3. wait \in [Thread -> {"no", "parked", "woken", "timedout"}]
  BY DEF TypeOK
<1>4. NotWaiting(t) \in [Thread -> {"no", "parked", "woken", "timedout"}]
  BY <1>3 DEF NotWaiting
<1>5. Home(t) \in {"user", "run"} /\ pc[t] \in {"user", "run", "empty"}
  BY DEF Home, Wakes
<1>8. pc \in [Thread -> Places]
  BY DEF TypeOK, Places
<1>6. CASE WaitsForSlot(t, j)
  <2>1. TypeOK'
    BY <1>2, <1>6 DEF WaitsForSlot, TypeOK, DataEmpty
  <2>2. CountsExact'
    BY <1>1, <1>2, <1>6, CountsUndisturbed DEF WaitsForSlot, TypeOK, counts
  <2>3. WaitLoops' /\ HandlerHeld' /\ ArgHeld' /\ ReadyIsPool'
    BY <1>1, <1>2, <1>6 DEF WaitsForSlot, TypeOK, WaitLoops, HandlerHeld, ArgHeld, ReadyIsPool, Thread
  <2>4. NoJobOverlooked'
    BY <1>1, <1>2, <1>6 DEF WaitsForSlot, TypeOK, NoJobOverlooked, OnTheirWay, Wakes, Thread
  <2>5. NoCreatorOverlooked'
    BY <1>6 DEF WaitsForSlot, NoCreatorOverlooked
  <2> QED
    BY <2>1, <2>2, <2>3, <2>4, <2>5
<1>7. CASE Spawns(t, j)
  <2>0. PICK p \in Pool : pc[p] = "none" /\ pc' = [pc EXCEPT ![t] = Home(t), ![p] = "start"]
    BY <1>7 DEF Spawns
  <2>a. p # t /\ p \in Thread
    BY <1>5, <2>0 DEF Thread
  <2>b. /\ pc' \in [Thread -> Places] /\ pc'[p] = "start" /\ pc'[t] = Home(t)
        /\ \A q \in Thread \ {p, t} : pc'[q] = pc[q]
    BY <1>5, <1>8, <2>0, <2>a DEF Places
  <2>c. wait' = [wait EXCEPT ![t] = "no"] /\ function_pointer' = j /\ total_count' = total_count + 1
        /\ status' = [status EXCEPT ![j] = "accepted"] /\ arg' = [arg EXCEPT ![t] = None]
    BY <1>7 DEF Spawns, NotWaiting
  <2>1. TypeOK'
    BY <1>2, <2>b, <2>c DEF TypeOK, Places
  <2>2. InPool' = InPool /\ Alive' = Alive \cup {p} /\ p \notin Alive
    BY <1>1, <2>0, <2>a, <2>b DEF InPool, Alive, Thread
  <2>3. Alive \in SUBSET Pool
    BY DEF Alive
  <2>4. pool_count' = Cardinality(InPool') /\ total_count' = Cardinality(Alive')
    BY <1>2, <2>c, <2>2, <2>3, Counts, Sizes
  <2>5. thread_ids' = {q \in Pool : pc'[q] \notin {"none", "start"}}
    BY <1>1, <1>2, <2>0, <2>a, <2>b DEF CountsExact, Thread
  <2>6. CountsExact'
    BY <2>4, <2>5 DEF CountsExact, InPool, Alive
  <2>7. WaitLoops' /\ HandlerHeld' /\ ArgHeld' /\ ReadyIsPool'
    BY <1>1, <1>2, <1>5, <1>3, <2>0, <2>a, <2>b, <2>c DEF WaitLoops, HandlerHeld, ArgHeld, ReadyIsPool, Thread, TypeOK
  <2>8. NoJobOverlooked' /\ NoCreatorOverlooked'
    BY <2>b, <2>c DEF NoJobOverlooked, NoCreatorOverlooked, OnTheirWay
  <2> QED
    BY <2>1, <2>6, <2>7, <2>8
<1>9. CASE SpawnFails(t, j)
  <2>1. TypeOK'
    BY <1>2, <1>4, <1>5, <1>9, SignalledWakes DEF SpawnFails, TypeOK
  <2>2. CountsExact'
    BY <1>1, <1>2, <1>9, <1>8, CountsUndisturbed DEF SpawnFails, counts
  <2>a. pc' = [pc EXCEPT ![t] = Home(t)] /\ arg' = [arg EXCEPT ![t] = None]
        /\ UNCHANGED function_pointer
    BY <1>9 DEF SpawnFails
  <2>b. \A s \in Thread : wait'[s] = NotWaiting(t)[s] \/ (pc[s] = "empty" /\ wait[s] = "parked" /\ wait'[s] = "woken")
    <3>1. \A s \in Thread : wait'[s] = NotWaiting(t)[s] \/ (s \in Parked(DataEmpty) /\ wait'[s] = "woken")
      BY <1>4, <1>9, SignalledWakes DEF SpawnFails
    <3> QED
      BY <3>1 DEF Parked, DataEmpty
  <2>c. Parked(DataEmpty) # {} => \E s \in Parked(DataEmpty) : wait'[s] = "woken"
    BY <1>4, <1>9, SignalledWakes DEF SpawnFails
  <2>d. t \notin Parked(DataEmpty)
    BY <1>3, <1>5 DEF Wakes, Parked, DataEmpty, Home
  <2>3. WaitLoops' /\ HandlerHeld' /\ ArgHeld' /\ ReadyIsPool'
    BY <1>1, <1>2, <1>3, <1>5, <1>8, <2>a, <2>b, <2>d
    DEF WaitLoops, HandlerHeld, ArgHeld, ReadyIsPool, Thread, NotWaiting, Parked, DataEmpty, TypeOK
  <2>4. NoJobOverlooked'
    BY <1>9, <2>a DEF SpawnFails, NoJobOverlooked
  <2>5. NoCreatorOverlooked'
    <3>1. Parked(DataEmpty)' \subseteq Parked(DataEmpty)
      BY <1>3, <1>5, <1>8, <2>a, <2>b DEF Parked, DataEmpty, NotWaiting
    <3> QED
      BY <1>8, <2>a, <2>c, <2>d, <3>1 DEF NoCreatorOverlooked, Parked, Wakes, DataEmpty
  <2> QED
    BY <2>1, <2>2, <2>3, <2>4, <2>5
<1>10. CASE WakesOne(t, j)
  <2>a. pc' = [pc EXCEPT ![t] = Home(t)] /\ arg' = [arg EXCEPT ![t] = None]
        /\ function_pointer' = j /\ total_count' = total_count /\ pool_count > 0
        /\ status' = [status EXCEPT ![j] = "accepted"]
    BY <1>10 DEF WakesOne
  <2>b. /\ wait' \in [Thread -> {"no", "parked", "woken", "timedout"}]
        /\ \A s \in Thread : wait'[s] = NotWaiting(t)[s] \/ (pc[s] = "ready" /\ wait[s] = "parked" /\ wait'[s] = "woken")
    <3>1. /\ wait' \in [Thread -> {"no", "parked", "woken", "timedout"}]
          /\ \A s \in Thread : wait'[s] = NotWaiting(t)[s] \/ (s \in Parked(DataReady) /\ wait'[s] = "woken")
      BY <1>4, <1>10, SignalledWakes DEF WakesOne
    <3> QED
      BY <3>1 DEF Parked, DataReady
  <2>c. Parked(DataReady) # {} => \E s \in Parked(DataReady) : wait'[s] = "woken"
    BY <1>4, <1>10, SignalledWakes DEF WakesOne
  <2>1. TypeOK'
    BY <1>2, <1>5, <2>a, <2>b DEF TypeOK
  <2>2. CountsExact'
    BY <1>1, <1>2, <2>a, <1>8, CountsUndisturbed DEF counts
  <2>3. WaitLoops' /\ HandlerHeld' /\ ArgHeld' /\ ReadyIsPool'
    BY <1>1, <1>2, <1>3, <1>5, <1>8, <2>a, <2>b
    DEF WaitLoops, HandlerHeld, ArgHeld, ReadyIsPool, Thread, NotWaiting, TypeOK
  <2>4. NoCreatorOverlooked'
    BY <2>a DEF NoCreatorOverlooked
  <2>5. NoJobOverlooked'
    <3>1. PICK p \in Pool : pc[p] = "ready"
      <4>1. InPool \in SUBSET Pool /\ InPool # {}
        BY <2>a, Counts, FS_EmptySet DEF InPool
      <4> QED
        BY <4>1 DEF InPool
    <3>2. \E q \in Thread : pc[q] = "ready" /\ q # t /\ wait'[q] \in {"woken", "timedout"}
      <4>1. CASE Parked(DataReady) # {}
        BY <1>5, <2>c, <4>1 DEF Parked, DataReady
      <4>2. CASE Parked(DataReady) = {}
        BY <1>3, <1>5, <2>b, <3>1, <4>2 DEF Parked, DataReady, WaitLoops, Thread, NotWaiting
      <4> QED
        BY <4>1, <4>2
    <3>3. \A q \in Thread : pc[q] = "ready" => q \in Pool
      BY DEF ReadyIsPool
    <3> QED
      BY <1>8, <2>a, <3>2, <3>3 DEF NoJobOverlooked, OnTheirWay, Wakes
  <2> QED
    BY <2>1, <2>2, <2>3, <2>4, <2>5
<1> QED
  BY <1>6, <1>7, <1>9, <1>10 DEF Create

-----------------------------------------------------------------------------
(* thread_starter, p being at the head of one of its loops: pool is        *)
(* pool_count with p in the pool.                                          *)
AtLoop(p, pool) ==
    \/ pc[p] = "ready" /\ wait[p] \in {"woken", "timedout"} /\ pool = pool_count
    \/ pc[p] \in {"start", "end"} /\ pool = pool_count + 1

(* p takes the function, waits in the pool, or ends. *)
LoopStep(p, pool) ==
    \/ function_pointer # None /\ Launches(p, pool)
    \/ function_pointer = None /\ WaitsInPool(p, pool)
    \/ (function_pointer = None \/ destruct) /\ Quits(p, pool)

LEMMA LoopCounts ==
    ASSUME Inv, NEW p \in Pool, NEW pool, AtLoop(p, pool), LoopStep(p, pool), ThreadIds(p)
    PROVE  CountsExact' /\ pool_count' \in Nat /\ total_count' \in Nat
<1> USE ThreaderAssumption DEF Inv
<1>1. pc \in [Thread -> Places] /\ p \in Thread /\ p \in Alive
  BY DEF TypeOK, Places, Thread, AtLoop, Alive
<1>2. InPool \in SUBSET Pool /\ Alive \in SUBSET Pool
  BY DEF InPool, Alive
<1>a. pool_count = Cardinality(InPool) /\ total_count = Cardinality(Alive)
  BY Counts
<1>b. /\ Cardinality(InPool) \in Nat
      /\ Cardinality(InPool) = 0 <=> InPool = {}
      /\ Cardinality(InPool \cup {p}) = IF p \in InPool THEN Cardinality(InPool) ELSE Cardinality(InPool) + 1
      /\ Cardinality(InPool \ {p}) = IF p \in InPool THEN Cardinality(InPool) - 1 ELSE Cardinality(InPool)
  BY <1>2, Sizes
<1>c. /\ Cardinality(Alive) \in Nat
      /\ Cardinality(Alive) = 0 <=> Alive = {}
      /\ Cardinality(Alive \ {p}) = Cardinality(Alive) - 1
  BY <1>1, <1>2, Sizes
<1>d. p \in InPool <=> pc[p] = "ready"
  BY DEF InPool
<1>3. /\ pool_count \in Nat /\ total_count \in Nat /\ total_count > 0
      /\ p \in InPool => pool_count > 0
  BY <1>1, <1>a, <1>b, <1>c
<1>4. CASE Launches(p, pool)
  <2>1. pc' = [pc EXCEPT ![p] = "run"] /\ pool_count' = pool - 1 /\ total_count' = total_count
    BY <1>4 DEF Launches
  <2>2. InPool' = InPool \ {p} /\ Alive' = Alive
    BY <1>1, <2>1 DEF InPool, Alive, Thread
  <2>3. pool_count' = Cardinality(InPool') /\ total_count' = Cardinality(Alive')
    BY <1>a, <1>b, <1>d, <2>1, <2>2 DEF AtLoop
  <2>4. thread_ids' = {q \in Pool : pc'[q] \notin {"none", "start"}}
    BY <1>1, <2>1 DEF CountsExact, ThreadIds, Thread
  <2> QED
    BY <1>3, <2>1, <2>3, <2>4 DEF CountsExact, InPool, Alive, AtLoop
<1>5. CASE WaitsInPool(p, pool)
  <2>1. pc' = [pc EXCEPT ![p] = "ready"] /\ pool_count' = pool /\ total_count' = total_count
    BY <1>5 DEF WaitsInPool
  <2>2. InPool' = InPool \cup {p} /\ Alive' = Alive
    BY <1>1, <2>1 DEF InPool, Alive, Thread
  <2>3. pool_count' = Cardinality(InPool') /\ total_count' = Cardinality(Alive')
    BY <1>a, <1>b, <1>d, <2>1, <2>2 DEF AtLoop
  <2>4. thread_ids' = {q \in Pool : pc'[q] \notin {"none", "start"}}
    BY <1>1, <2>1 DEF CountsExact, ThreadIds, Thread
  <2> QED
    BY <1>3, <2>1, <2>3, <2>4 DEF CountsExact, InPool, Alive, AtLoop
<1>6. CASE Quits(p, pool)
  <2>1. pc' = [pc EXCEPT ![p] = "none"] /\ pool_count' = pool - 1 /\ total_count' = total_count - 1
    BY <1>6 DEF Quits
  <2>2. InPool' = InPool \ {p} /\ Alive' = Alive \ {p}
    BY <1>1, <2>1 DEF InPool, Alive, Thread
  <2>3. pool_count' = Cardinality(InPool') /\ total_count' = Cardinality(Alive')
    BY <1>a, <1>b, <1>c, <1>d, <2>1, <2>2 DEF AtLoop
  <2>4. thread_ids' = {q \in Pool : pc'[q] \notin {"none", "start"}}
    BY <1>1, <2>1 DEF CountsExact, ThreadIds, Thread
  <2> QED
    BY <1>3, <2>1, <2>3, <2>4 DEF CountsExact, InPool, Alive, AtLoop
<1> QED
  BY <1>4, <1>5, <1>6 DEF LoopStep

LEMMA LoopKeeps ==
    ASSUME Inv, NEW p \in Pool, NEW pool, AtLoop(p, pool), LoopStep(p, pool), ThreadIds(p),
           pc[p] = "end" => reg[p] = {},
           UNCHANGED <<destruct, reg, life, arg, calling>>
    PROVE  Inv'
<1> USE ThreaderAssumption DEF Inv
<1>1. pc \in [Thread -> Places] /\ p \in Thread
  BY DEF TypeOK, Places, Thread
<1>2. /\ wait \in [Thread -> {"no", "parked", "woken", "timedout"}]
      /\ NotWaiting(p) \in [Thread -> {"no", "parked", "woken", "timedout"}]
  BY DEF TypeOK, NotWaiting
<1>3. CountsExact' /\ pool_count' \in Nat /\ total_count' \in Nat
  BY LoopCounts
<1>4. pc[p] \in {"ready", "start", "end"} /\ wait[p] # "parked"
  BY <1>1 DEF AtLoop, WaitLoops
<1>5. thread_ids' \subseteq Pool
  BY DEF ThreadIds, TypeOK
<1>6. CASE function_pointer # None /\ Launches(p, pool)
  <2>1. /\ pc' = [pc EXCEPT ![p] = "run"] /\ function_pointer' = None
        /\ job' = [job EXCEPT ![p] = function_pointer]
        /\ status' = [status EXCEPT ![function_pointer] = "running"]
        /\ wait' \in Signalled(NotWaiting(p), DataEmpty)
    BY <1>6 DEF Launches
  <2>2. /\ wait' \in [Thread -> {"no", "parked", "woken", "timedout"}]
        /\ \A t \in Thread : wait'[t] = NotWaiting(p)[t] \/ (t \in Parked(DataEmpty) /\ wait'[t] = "woken")
        /\ Parked(DataEmpty) # {} => \E t \in Parked(DataEmpty) : wait'[t] = "woken"
    BY <1>2, <2>1, SignalledWakes
  <2>3. TypeOK'
    BY <1>1, <1>3, <1>5, <2>1, <2>2 DEF TypeOK
  <2>4. WaitLoops' /\ HandlerHeld' /\ ArgHeld' /\ ReadyIsPool'
    BY <1>1, <1>2, <1>4, <2>1, <2>2
    DEF WaitLoops, HandlerHeld, ArgHeld, ReadyIsPool, NotWaiting, Parked, DataEmpty, Thread
  <2>5. NoJobOverlooked'
    BY <2>1 DEF NoJobOverlooked
  <2>6. NoCreatorOverlooked'
    <3>1. Parked(DataEmpty)' \subseteq Parked(DataEmpty)
      BY <1>1, <1>2, <2>1, <2>2 DEF Parked, DataEmpty, NotWaiting
    <3> QED
      BY <1>1, <1>4, <2>1, <2>2, <3>1 DEF NoCreatorOverlooked, Parked, Wakes, DataEmpty
  <2> QED
    BY <1>3, <2>3, <2>4, <2>5, <2>6
<1>7. CASE function_pointer = None /\ WaitsInPool(p, pool)
  <2>1. /\ pc' = [pc EXCEPT ![p] = "ready"] /\ wait' = [wait EXCEPT ![p] = "parked"]
        /\ UNCHANGED <<function_pointer, job, status>>
    BY <1>7 DEF WaitsInPool
  <2>2. TypeOK'
    BY <1>1, <1>3, <1>5, <2>1 DEF TypeOK, DataReady
  <2>3. WaitLoops' /\ HandlerHeld' /\ ArgHeld' /\ ReadyIsPool'
    BY <1>1, <1>2, <1>4, <2>1 DEF WaitLoops, HandlerHeld, ArgHeld, ReadyIsPool, Thread
  <2>4. NoJobOverlooked' /\ NoCreatorOverlooked'
    BY <1>1, <1>2, <1>4, <1>7, <2>1 DEF NoJobOverlooked, NoCreatorOverlooked, Parked, Wakes, DataEmpty
  <2> QED
    BY <1>3, <2>2, <2>3, <2>4
<1>8. CASE (function_pointer = None \/ destruct) /\ Quits(p, pool)
  <2>1. /\ pc' = [pc EXCEPT ![p] = "none"] /\ UNCHANGED <<function_pointer, job, status>>
        /\ wait' \in Signalled(NotWaiting(p), Destructed)
    BY <1>8 DEF Quits
  <2>2. /\ wait' \in [Thread -> {"no", "parked", "woken", "timedout"}]
        /\ \A t \in Thread : wait'[t] = NotWaiting(p)[t] \/ (t \in Parked(Destructed) /\ wait'[t] = "woken")
    BY <1>2, <2>1, SignalledWakes
  <2>3. TypeOK'
    BY <1>1, <1>3, <1>5, <2>1, <2>2 DEF TypeOK
  <2>4. WaitLoops' /\ HandlerHeld' /\ ArgHeld' /\ ReadyIsPool'
    BY <1>1, <1>2, <1>4, <2>1, <2>2
    DEF WaitLoops, HandlerHeld, ArgHeld, ReadyIsPool, NotWaiting, Parked, Destructed, Thread
  <2>5. NoJobOverlooked' /\ NoCreatorOverlooked'
    BY <1>1, <1>2, <1>4, <1>8, <2>1, <2>2
    DEF NoJobOverlooked, NoCreatorOverlooked, Parked, Wakes, DataEmpty, Destructed, NotWaiting
  <2> QED
    BY <1>3, <2>3, <2>4, <2>5
<1> QED
  BY <1>6, <1>7, <1>8 DEF LoopStep

(* The three ways to the head of a loop. *)
LEMMA ThreadKeeps ==
    ASSUME Inv, NEW p \in Pool, thread_starter(p) \/ PoolResumes(p) \/ ReturnsToPool(p)
    PROVE  Inv'
<1> USE DEF Loops
<1>1. CASE thread_starter(p)
  BY <1>1, LoopKeeps DEF thread_starter, AtLoop, LoopStep
<1>2. CASE PoolResumes(p)
  BY <1>2, LoopKeeps DEF PoolResumes, Wakes, TimedOutIdle, AtLoop, LoopStep
<1>3. CASE ReturnsToPool(p)
  BY <1>3, LoopKeeps DEF ReturnsToPool, AtLoop, LoopStep
<1> QED
  BY <1>1, <1>2, <1>3

-----------------------------------------------------------------------------
(* A function that runs, its end, and the end handlers. *)
LEMMA FunctionKeeps ==
    ASSUME Inv, NEW p \in Pool,
           \/ FunctEnds(p) \/ call_end_handlers(p) \/ HandlerCalled(p)
           \/ \E h \in Handler : register_thread_end_handler(p, h)
    PROVE  Inv'
<1> USE ThreaderAssumption DEF Inv
<1>1. pc \in [Thread -> Places] /\ p \in Thread
  BY DEF TypeOK, Places, Thread
<1>2. \E v \in {"run", "end", "handler"} : pc' = [pc EXCEPT ![p] = v]
  BY <1>1 DEF FunctEnds, call_end_handlers, HandlerCalled, register_thread_end_handler
<1>3. pc[p] \in {"run", "end", "handler"} /\ UNCHANGED <<counts, function_pointer, destruct, thread_ids, life, wait, arg>>
  BY DEF FunctEnds, call_end_handlers, HandlerCalled, register_thread_end_handler
<1>4. TypeOK'
  BY <1>1, <1>2, <1>3 DEF TypeOK, counts, FunctEnds, call_end_handlers, HandlerCalled, register_thread_end_handler
<1>5. CountsExact'
  BY <1>1, <1>2, <1>3, CountsUndisturbed DEF counts
<1>6. WaitLoops' /\ ArgHeld' /\ ReadyIsPool' /\ NoJobOverlooked' /\ NoCreatorOverlooked'
  BY <1>1, <1>2, <1>3
  DEF WaitLoops, ArgHeld, ReadyIsPool, NoJobOverlooked, NoCreatorOverlooked, OnTheirWay, Wakes, Parked, DataEmpty, Thread
<1>7. HandlerHeld'
  <2> USE DEF HandlerHeld, TypeOK
  <2>1. CASE FunctEnds(p)
    BY <1>1, <2>1 DEF FunctEnds
  <2>2. CASE call_end_handlers(p)
    BY <1>1, <2>2 DEF call_end_handlers
  <2>3. CASE HandlerCalled(p)
    BY <1>1, <2>3 DEF HandlerCalled
  <2>4. ASSUME NEW h \in Handler, register_thread_end_handler(p, h)
        PROVE  HandlerHeld'
    BY <1>1, <2>4 DEF register_thread_end_handler
  <2> QED
    BY <2>1, <2>2, <2>3, <2>4
<1> QED
  BY <1>4, <1>5, <1>6, <1>7

(* Time-outs, spurious wake-ups and unregister_thread_end_handler. *)
LEMMA WakeKeeps ==
    ASSUME Inv, NEW t \in Thread,
           \/ t \in Pool /\ TimeOut(t)
           \/ SpuriousWakeUp(t)
           \/ \E h \in Handler : unregister_thread_end_handler(t, h)
    PROVE  Inv'
<1> USE ThreaderAssumption DEF Inv
<1>1. UNCHANGED <<counts, function_pointer, destruct, thread_ids, life, pc, arg, job, calling, status>>
  BY DEF TimeOut, SpuriousWakeUp, unregister_thread_end_handler
<1>2. \/ UNCHANGED wait
      \/ wait[t] = "parked" /\ UNCHANGED reg
            /\ \E v \in {"woken", "timedout"} : wait' = [wait EXCEPT ![t] = v]
  BY DEF TimeOut, SpuriousWakeUp, unregister_thread_end_handler
<1>3. wait \in [Thread -> {"no", "parked", "woken", "timedout"}]
  BY DEF TypeOK
<1>4. TypeOK' /\ HandlerHeld'
  <2>1. reg' \in [Pool -> SUBSET Handler] /\ \A p \in Pool : reg'[p] \subseteq reg[p]
    BY DEF TypeOK, TimeOut, SpuriousWakeUp, unregister_thread_end_handler
  <2> QED
    BY <1>1, <1>2, <1>3, <2>1 DEF TypeOK, HandlerHeld, counts
<1>5. CountsExact'
  BY <1>1, CountsUndisturbed
<1>6. WaitLoops' /\ ArgHeld' /\ ReadyIsPool'
  BY <1>1, <1>2, <1>3 DEF WaitLoops, ArgHeld, ReadyIsPool
<1>7. NoJobOverlooked' /\ NoCreatorOverlooked'
  BY <1>1, <1>2, <1>3 DEF NoJobOverlooked, NoCreatorOverlooked, OnTheirWay, Wakes, Parked, DataEmpty, Thread
<1> QED
  BY <1>4, <1>5, <1>6, <1>7

(* destruct_if_ready and ~threader. *)
LEMMA DestructKeeps ==
    ASSUME Inv, NEW u \in User, destruct_if_ready(u) \/ Destructs(u)
    PROVE  Inv'
<1> USE ThreaderAssumption DEF Inv
<1>1. pc \in [Thread -> Places] /\ u \in Thread /\ u \notin Pool
  BY DEF TypeOK, Places, Thread
<1>2. wait \in [Thread -> {"no", "parked", "woken", "timedout"}]
  BY DEF TypeOK
<1>3. UNCHANGED <<counts, function_pointer, thread_ids, reg, arg, job, calling, status>>
  BY DEF destruct_if_ready, Destructs, WaitsForThreads
<1>4. \/ UNCHANGED <<pc, wait, destruct>>
      \/ /\ destruct' = TRUE
         /\ \E v \in {"user", "delete", "destruct"} : pc' = [pc EXCEPT ![u] = v]
         /\ pc[u] \in {"user", "delete", "destruct"}
         /\ wait' \in [Thread -> {"no", "parked", "woken", "timedout"}]
         /\ wait'[u] = "no" <=> pc'[u] # "destruct"
         /\ \A t \in Thread \ {u} : wait'[t] = wait[t] \/ (pc[t] = "ready" /\ wait'[t] = "woken")
  <2>1. CASE destruct_if_ready(u)
    BY <1>1, <1>2, <2>1 DEF destruct_if_ready, InCode, Home, Broadcast, Parked, DataReady, WaitLoops, Places
  <2>2. CASE pc[u] = "delete" /\ WaitsForThreads(u, Broadcast(DataReady))
    BY <1>1, <1>2, <2>2 DEF WaitsForThreads, Broadcast, Parked, DataReady
  <2>3. CASE Wakes(u, "destruct") /\ WaitsForThreads(u, wait)
    BY <1>1, <1>2, <2>3 DEF WaitsForThreads, Wakes
  <2> QED
    BY <2>1, <2>2, <2>3 DEF Destructs
<1>5. life' \in {"alive", "ending", "destroyed", "kept"}
  BY DEF TypeOK, destruct_if_ready, Destructs, WaitsForThreads
<1>6. TypeOK'
  <2>0. {"user", "delete", "destruct"} \subseteq Places
    BY DEF Places, Destructed
  <2>1. pc' \in [Thread -> Places]
    BY <1>1, <1>4, <2>0
  <2>3. destruct' \in BOOLEAN
    BY <1>4 DEF TypeOK
  <2>2. wait' \in [Thread -> {"no", "parked", "woken", "timedout"}]
    BY <1>2, <1>4
  <2> QED
    BY <1>3, <1>5, <2>1, <2>2, <2>3 DEF TypeOK, counts, Places
<1>7. CountsExact'
  BY <1>1, <1>3, <1>4, CountsUndisturbed
<1>8. WaitLoops' /\ HandlerHeld' /\ ArgHeld' /\ ReadyIsPool'
  BY <1>1, <1>2, <1>3, <1>4 DEF WaitLoops, HandlerHeld, ArgHeld, ReadyIsPool, Thread
<1>9. NoJobOverlooked' /\ NoCreatorOverlooked'
  BY <1>1, <1>2, <1>3, <1>4 DEF NoJobOverlooked, NoCreatorOverlooked, OnTheirWay, Wakes, Parked, DataEmpty, Thread
<1> QED
  BY <1>6, <1>7, <1>8, <1>9

-----------------------------------------------------------------------------
LEMMA InvNext == Inv /\ [Next]_vars => Inv'
<1> SUFFICES ASSUME Inv, [Next]_vars PROVE Inv'
  OBVIOUS
<1>1. CASE UNCHANGED vars
  BY <1>1 DEF vars, counts, Inv, TypeOK, CountsExact, WaitLoops, HandlerHeld, ArgHeld, ReadyIsPool,
              NoJobOverlooked, NoCreatorOverlooked, OnTheirWay, Wakes, Parked
<1>2. ASSUME NEW t \in Thread, create_new_thread(t) \/ CreateResumes(t)
      PROVE  Inv'
  <2>1. CASE create_new_thread(t)
    BY <2>1, CreateKeeps DEF create_new_thread, InCode
  <2>2. CASE CreateResumes(t)
    <3>1. arg[t] \in Job
      BY <2>2 DEF CreateResumes, Wakes, Inv, ArgHeld
    <3> QED
      BY <2>2, <3>1, CreateKeeps DEF CreateResumes
  <2> QED
    BY <1>2, <2>1, <2>2
<1>3. ASSUME NEW p \in Pool, ThreadRuns(p) \/ FunctEnds(p)
                              \/ \E h \in Handler : register_thread_end_handler(p, h)
      PROVE  Inv'
  BY <1>3, ThreadKeeps, FunctionKeeps DEF ThreadRuns
<1>4. ASSUME NEW p \in Pool, TimeOut(p)
      PROVE  Inv'
  BY <1>4, WakeKeeps DEF Thread
<1>5. ASSUME NEW t \in Thread, SpuriousWakeUp(t) \/ \E h \in Handler : unregister_thread_end_handler(t, h)
      PROVE  Inv'
  BY <1>5, WakeKeeps
<1> QED
  BY <1>1, <1>2, <1>3, <1>4, <1>5, DestructKeeps DEF Next

(* The counts that destruct_if_ready and ~threader rely on are exact. *)
THEOREM ThreaderCountsExact == Spec => [](TypeOK /\ CountsExact)
<1>1. Inv => TypeOK /\ CountsExact
  BY DEF Inv
<1> QED
  BY <1>1, InvInit, InvNext, PTL DEF Spec

(* A function in the slot always has a thread that is going to look there, *)
(* although threads of the pool time out at any moment.                    *)
THEOREM ThreaderNoJobOverlooked == Spec => []NoJobOverlooked
<1>1. Inv => NoJobOverlooked
  BY DEF Inv
<1> QED
  BY <1>1, InvInit, InvNext, PTL DEF Spec

(* No create_new_thread sleeps beside an empty slot without another one    *)
(* being awake, although each use of the slot wakes only one.              *)
THEOREM ThreaderNoCreatorOverlooked == Spec => []NoCreatorOverlooked
<1>1. Inv => NoCreatorOverlooked
  BY DEF Inv
<1> QED
  BY <1>1, InvInit, InvNext, PTL DEF Spec

(* A thread has no end handler left when it is used again or ends. *)
THEOREM ThreaderHandlersBeforeReuse == Spec => []HandlersBeforeReuse
<1>1. Inv => HandlersBeforeReuse
  BY DEF Inv, HandlerHeld, HandlersBeforeReuse
<1> QED
  BY <1>1, InvInit, InvNext, PTL DEF Spec
=============================================================================
