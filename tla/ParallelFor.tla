---------------------------- MODULE ParallelFor -----------------------------
(***************************************************************************)
(* dlib::parallel_for_blocked and parallel_for                             *)
(* (dlib/threads/parallel_for_extension.h), called by a client of a thread *)
(* pool: the range [begin, end) is cut into blocks, each block is a task,  *)
(* and the call waits for all of them at the end.  The tasks refer to the  *)
(* caller's function through an object on the stack of the call.           *)
(***************************************************************************)
EXTENDS ThreadPool

CONSTANTS
    Caller,             \* the client that calls it
    Ranges,             \* pairs <<begin, end>> it is called with
    Chunks              \* values of chunks_per_thread

ASSUME ParallelForAssumption ==
    /\ Caller \in Client
    /\ \A r \in Ranges : r \in Int \X Int /\ r[1] <= r[2] /\ 1 .. r[2] - r[1] \subseteq Job
    /\ Chunks \subseteq Nat \ {0}

VARIABLES
    call,               \* begin, end and chunks_per_thread
    i,                  \* the variable of the loop
    phase,              \* "running", "returned", or "threw" an exception
    called              \* <<task, index>>: the calls of the function made

pfvars == <<call, i, phase, called>>

num == call.end - call.begin

(* The indices of the block that starts at begin + from. *)
BlockFrom(from, size) ==
    LET to == from + size
    IN  call.begin + from .. call.begin + (IF to < num THEN to ELSE num) - 1

block_size ==
    LET share == num \div (Size * call.chunks)
    IN  IF share > 1 THEN share ELSE 1

(* The block that starts at i is task number i / block_size + 1. *)
TaskAt(k)  == k \div block_size + 1
Indices(j) == BlockFrom((j - 1) * block_size, block_size)

(* The call finds threads in the pool; without any, it calls the function
   itself.  *)
PFInit ==
    /\ Init /\ Size # 0
    /\ call \in {[begin |-> r[1], end |-> r[2], chunks |-> n] :
                    r \in Ranges, n \in Chunks}
    /\ i = 0
    /\ phase = "running"
    /\ called = {}

(* One turn of the loop, or a part of it: add_task hands the block over,   *)
(* waits for a slot, or throws what another task has thrown.               *)
Submits ==
    /\ phase = "running" /\ i < num
    /\ add_task(Caller, TaskAt(i)) \/ AddResumes(Caller)
    /\ i' = IF status'[TaskAt(i)] = "queued" THEN i + block_size ELSE i
    /\ phase' = IF Trapped # {} THEN "threw" ELSE phase
    /\ UNCHANGED <<call, called>>

(* wait_for_all_tasks() after the loop. *)
WaitsForAll ==
    /\ phase = "running" /\ i >= num
    /\ wait_for_all_tasks(Caller) \/ AllResumes(Caller)
    /\ phase' = CASE pc'[Caller] = "all" -> phase
                  [] pc'[Caller] # "all" /\ Trapped = {} -> "returned"
                  [] OTHER -> "threw"
    /\ UNCHANGED <<call, i, called>>

(* A worker has gone through its block. *)
BlockEnds(w) ==
    /\ TaskEnds(w)
    /\ called' = called \cup (IF status'[frame[w]] = "done"
                              THEN {frame[w]} \X Indices(frame[w]) ELSE {})
    /\ UNCHANGED <<call, i, phase>>

WorkerSteps(w) ==
    \/ BlockEnds(w)
    \/ (ThreadStarts(w) \/ ThreadLoops(w)) /\ UNCHANGED pfvars

PFNext ==
    \/ Submits
    \/ WaitsForAll
    \/ \E w \in Worker : WorkerSteps(w)
    \/ \E t \in Thread : SpuriousWakeUp(t) /\ UNCHANGED pfvars

PFSpec == PFInit /\ [][PFNext]_<<vars, pfvars>>

-----------------------------------------------------------------------------
(* "the subranges are non-overlapping and completely cover the total range *)
(* of [begin, end)", and when parallel_for has returned, the function has  *)
(* been called once for every index and for nothing else.                  *)
EachIndexOnce ==
    phase = "returned" =>
        /\ {c[2] : c \in called} = call.begin .. call.end - 1
        /\ \A c, d \in called : c[2] = d[2] => c = d
=============================================================================
