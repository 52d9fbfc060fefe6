----------------------------- MODULE PipeProofs -----------------------------
(***************************************************************************)
(* Theorems about Pipe for every set of threads, every MaxSize, every set  *)
(* of items and every assignment of calls to threads.                      *)
(***************************************************************************)
EXTENDS PipeFifo, FiniteSetTheorems, SequenceTheorems, TLAPS

Loops == {"idle"} \cup EnqueueSig \cup DequeueSig \cup UnblockSig

(* The ring indices are slots whenever a slot is in use. *)
RingIndex == pipe_size > 0 => first \in Slots /\ last \in Slots

(* Only a pipe without slots has the second wait loop of enqueue. *)
TakenLoop == \A t \in Thread : pc[t] = "taken" => MaxSize = 0

(* The inductive invariant behind TypeOK and WaiterCounts: a counter stays *)
(* a natural number because it counts the thread that decrements it, and   *)
(* an item that leaves the ring has a type because first is then a slot.   *)
CountInv == TypeOK /\ WaiterCounts /\ RingIndex /\ TakenLoop

-----------------------------------------------------------------------------
(* (i + 1) % MaxSize is a slot. *)
LEMMA ModSlot ==
    ASSUME MaxSize > 0, NEW i \in Nat
    PROVE  (i + 1) % MaxSize \in Slots
BY PipeAssumption DEF Slots

(* +1, 0 or -1: what a move of one thread from loop u to loop v does to    *)
(* the number of threads in sig.                                           *)
Moves(sig, u, v) == (IF v \in sig THEN 1 ELSE 0) - (IF u \in sig THEN 1 ELSE 0)

(* How the threads in a set of loops change when one thread changes loop. *)
LEMMA InStep ==
    ASSUME NEW t \in Thread, NEW v, NEW sig,
           pc \in [Thread -> Loops],
           pc' = [pc EXCEPT ![t] = v]
    PROVE  /\ IsFiniteSet(In(sig))
           /\ Cardinality(In(sig)) \in Nat
           /\ In(sig)' = IF v \in sig THEN In(sig) \cup {t} ELSE In(sig) \ {t}
           /\ Cardinality(In(sig))' = Cardinality(In(sig)) + Moves(sig, pc[t], v)
           /\ Cardinality(In(sig))' \in Nat
           /\ pc[t] \in sig => Cardinality(In(sig)) > 0
<1>1. In(sig) \subseteq Thread
  BY DEF In
<1>2. IsFiniteSet(In(sig)) /\ Cardinality(In(sig)) \in Nat
  BY <1>1, PipeAssumption, FS_Subset, FS_CardinalityType
<1>3. In(sig)' = IF v \in sig THEN In(sig) \cup {t} ELSE In(sig) \ {t}
  BY DEF In
<1>4. /\ Cardinality(In(sig) \cup {t}) =
            IF t \in In(sig) THEN Cardinality(In(sig)) ELSE Cardinality(In(sig)) + 1
      /\ Cardinality(In(sig) \ {t}) =
            IF t \in In(sig) THEN Cardinality(In(sig)) - 1 ELSE Cardinality(In(sig))
  BY <1>2, FS_AddElement, FS_RemoveElement
<1>5. t \in In(sig) <=> pc[t] \in sig
  BY DEF In
<1>6. pc[t] \in sig => Cardinality(In(sig)) > 0
  BY <1>2, <1>5, FS_EmptySet
<1>7. Cardinality(In(sig))' = Cardinality(In(sig)')
  OBVIOUS
<1> QED
  BY <1>2, <1>3, <1>4, <1>5, <1>6 DEF Moves

-----------------------------------------------------------------------------
(* What broadcasts and signals do to the wait sets: they only wake. *)
WaitStates == {"no", "parked", "woken", "timedout"}

Woken(w) ==
    /\ w \in [Thread -> WaitStates]
    /\ \A s \in Thread : w[s] = wait[s] \/ (wait[s] = "parked" /\ w[s] = "woken")

LEMMA WokenWait == TypeOK => Woken(wait)
BY DEF TypeOK, Woken, WaitStates

LEMMA WokenBroadcast ==
    ASSUME NEW w, NEW sig, NEW cond, Woken(w)
    PROVE  /\ Woken(Broadcast(w, sig))
           /\ Woken(BroadcastIf(cond, w, sig))
BY DEF Woken, WaitStates, Broadcast, BroadcastIf, Parked

LEMMA WokenSignalled ==
    ASSUME NEW w, NEW sig, NEW cond, Woken(w), NEW v \in SignalledIf(cond, w, sig)
    PROVE  Woken(v)
BY DEF Woken, WaitStates, Signalled, SignalledIf, Parked

LEMMA WokenAll == TypeOK => Woken(BroadcastAll)
BY WokenWait, WokenBroadcast DEF BroadcastAll

(* The thread part of TypeOK. *)
ThreadOK ==
    /\ pc \in [Thread -> Loops]
    /\ wait \in [Thread -> WaitStates]
    /\ patience \in [Thread -> {"forever", "some", "none"}]
    /\ item \in [Thread -> Item \cup {Blank}]
    /\ num \in [Thread -> Nat]
    /\ returned \subseteq [by : Thread, op : {"enqueue", "dequeue"},
                            result : BOOLEAN, item : Item \cup {Blank}]
    /\ \A t \in Thread : pc[t] = "idle" <=> wait[t] = "no"
    /\ \A t \in Thread : wait[t] = "timedout" =>
          patience[t] = "some" /\ pc[t] \in {"room", "dequeue"}
    /\ TakenLoop

LEMMA ParksOK ==
    ASSUME ThreadOK, NEW t \in Thread, NEW w, Woken(w),
           NEW at \in Loops \ {"idle"}, at = "taken" => MaxSize = 0,
           Parks(t, at, w),
           patience' \in [Thread -> {"forever", "some", "none"}],
           \A s \in Thread \ {t} : patience'[s] = patience[s],
           item' \in [Thread -> Item \cup {Blank}],
           num' \in [Thread -> Nat]
    PROVE  ThreadOK'
BY DEF ThreadOK, TakenLoop, Woken, WaitStates, Parks

LEMMA LeavesOK ==
    ASSUME ThreadOK, NEW t \in Thread, NEW w, Woken(w), Leaves(t, w),
           returned' \subseteq [by : Thread, op : {"enqueue", "dequeue"},
                                result : BOOLEAN, item : Item \cup {Blank}]
    PROVE  ThreadOK'
BY DEF ThreadOK, TakenLoop, Woken, WaitStates, Leaves, Loops

LEMMA ReturnsOK ==
    ASSUME ThreadOK, NEW t \in Thread, NEW w, Woken(w), Returns(t, w)
    PROVE  ThreadOK'
BY LeavesOK DEF Returns

LEMMA ReturnsWithOK ==
    ASSUME ThreadOK, NEW t \in Thread, NEW w, Woken(w),
           NEW op \in {"enqueue", "dequeue"}, NEW r \in BOOLEAN,
           NEW y \in Item \cup {Blank}, ReturnsWith(t, w, op, r, y)
    PROVE  ThreadOK'
BY LeavesOK DEF ReturnsWith

LEMMA WakesOK ==
    ASSUME ThreadOK, Woken(wait'), returned' = {},
           UNCHANGED <<pc, patience, item, num>>
    PROVE  ThreadOK'
BY DEF ThreadOK, TakenLoop, Woken

-----------------------------------------------------------------------------
(* The rest of TypeOK. *)
StoreOK ==
    /\ pipe_size \in 0 .. MaxSize
    /\ data \in [Slots -> Item \cup {Blank}]
    /\ first \in Slots \cup {1}
    /\ last \in Slots \cup {1}
    /\ enabled \in BOOLEAN
    /\ enqueue_enabled \in BOOLEAN
    /\ dequeue_enabled \in BOOLEAN
    /\ life \in {"alive", "destroying", "destroyed"}
    /\ RingIndex

CountersOK ==
    /\ dequeue_waiters \in Nat
    /\ enqueue_waiters \in Nat
    /\ unblock_sig_waiters \in Nat
    /\ WaiterCounts

LEMMA CountInvParts == CountInv <=> StoreOK /\ ThreadOK /\ CountersOK
BY DEF CountInv, TypeOK, StoreOK, ThreadOK, CountersOK, Loops, WaitStates

LEMMA CountersStep ==
    ASSUME ThreadOK, CountersOK, NEW t \in Thread, NEW v,
           pc' = [pc EXCEPT ![t] = v],
           dequeue_waiters' = dequeue_waiters + Moves(DequeueSig, pc[t], v),
           enqueue_waiters' = enqueue_waiters + Moves(EnqueueSig, pc[t], v),
           unblock_sig_waiters' = unblock_sig_waiters + Moves(UnblockSig, pc[t], v)
    PROVE  CountersOK'
<1>1. pc \in [Thread -> Loops]
  BY DEF ThreadOK
<1>2. /\ Cardinality(In(DequeueSig))' = Cardinality(In(DequeueSig)) + Moves(DequeueSig, pc[t], v)
      /\ Cardinality(In(DequeueSig))' \in Nat
  BY <1>1, InStep
<1>3. /\ Cardinality(In(EnqueueSig))' = Cardinality(In(EnqueueSig)) + Moves(EnqueueSig, pc[t], v)
      /\ Cardinality(In(EnqueueSig))' \in Nat
  BY <1>1, InStep
<1>4. /\ Cardinality(In(UnblockSig))' = Cardinality(In(UnblockSig)) + Moves(UnblockSig, pc[t], v)
      /\ Cardinality(In(UnblockSig))' \in Nat
  BY <1>1, InStep
<1> QED
  BY <1>2, <1>3, <1>4 DEF CountersOK, WaiterCounts

(* A call on the enqueue side: ew counts it, whether it has just come in   *)
(* or resumes, and it waits (again) or leaves.                             *)
LEMMA EnqueueSideCounters ==
    ASSUME ThreadOK, CountersOK, NEW t \in Thread, NEW ew,
           NEW v \in EnqueueSig \cup {"idle"},
           \/ pc[t] = "idle" /\ ew = enqueue_waiters + 1
           \/ pc[t] \in EnqueueSig /\ ew = enqueue_waiters,
           pc' = [pc EXCEPT ![t] = v],
           enqueue_waiters' = IF v = "idle" THEN ew - 1 ELSE ew,
           UNCHANGED <<dequeue_waiters, unblock_sig_waiters>>
    PROVE  CountersOK'
<1>1. /\ Moves(DequeueSig, pc[t], v) = 0
      /\ Moves(UnblockSig, pc[t], v) = 0
  BY DEF Moves, EnqueueSig, DequeueSig, UnblockSig
<1>2. enqueue_waiters' = enqueue_waiters + Moves(EnqueueSig, pc[t], v)
  BY DEF Moves, EnqueueSig, CountersOK
<1>3. /\ dequeue_waiters' = dequeue_waiters + Moves(DequeueSig, pc[t], v)
      /\ unblock_sig_waiters' = unblock_sig_waiters + Moves(UnblockSig, pc[t], v)
  BY <1>1 DEF CountersOK
<1> QED
  BY <1>2, <1>3, CountersStep

LEMMA DequeueSideCounters ==
    ASSUME ThreadOK, CountersOK, NEW t \in Thread, NEW dw,
           NEW v \in DequeueSig \cup {"idle"},
           \/ pc[t] = "idle" /\ dw = dequeue_waiters + 1
           \/ pc[t] \in DequeueSig /\ dw = dequeue_waiters,
           pc' = [pc EXCEPT ![t] = v],
           dequeue_waiters' = IF v = "idle" THEN dw - 1 ELSE dw,
           UNCHANGED <<enqueue_waiters, unblock_sig_waiters>>
    PROVE  CountersOK'
<1>1. /\ Moves(EnqueueSig, pc[t], v) = 0
      /\ Moves(UnblockSig, pc[t], v) = 0
  BY DEF Moves, EnqueueSig, DequeueSig, UnblockSig
<1>2. dequeue_waiters' = dequeue_waiters + Moves(DequeueSig, pc[t], v)
  BY DEF Moves, DequeueSig, CountersOK
<1>3. /\ enqueue_waiters' = enqueue_waiters + Moves(EnqueueSig, pc[t], v)
      /\ unblock_sig_waiters' = unblock_sig_waiters + Moves(UnblockSig, pc[t], v)
  BY <1>1 DEF CountersOK
<1> QED
  BY <1>2, <1>3, CountersStep

LEMMA UnblockSideCounters ==
    ASSUME ThreadOK, CountersOK, NEW t \in Thread, NEW uw,
           NEW v \in UnblockSig \cup {"idle"},
           \/ pc[t] = "idle" /\ uw = unblock_sig_waiters + 1
           \/ pc[t] \in UnblockSig /\ uw = unblock_sig_waiters,
           pc' = [pc EXCEPT ![t] = v],
           unblock_sig_waiters' = IF v = "idle" THEN uw - 1 ELSE uw,
           UNCHANGED <<enqueue_waiters, dequeue_waiters>>
    PROVE  CountersOK'
<1>1. /\ Moves(EnqueueSig, pc[t], v) = 0
      /\ Moves(DequeueSig, pc[t], v) = 0
  BY DEF Moves, EnqueueSig, DequeueSig, UnblockSig
<1>2. unblock_sig_waiters' = unblock_sig_waiters + Moves(UnblockSig, pc[t], v)
  BY DEF Moves, UnblockSig, CountersOK
<1>3. /\ enqueue_waiters' = enqueue_waiters + Moves(EnqueueSig, pc[t], v)
      /\ dequeue_waiters' = dequeue_waiters + Moves(DequeueSig, pc[t], v)
  BY <1>1 DEF CountersOK
<1> QED
  BY <1>2, <1>3, CountersStep

LEMMA CountersStutter ==
    ASSUME CountersOK, UNCHANGED <<pc, counts>>
    PROVE  CountersOK'
BY DEF CountersOK, WaiterCounts, In, counts

LEMMA StoreStutter ==
    ASSUME StoreOK, UNCHANGED <<flags, ring, life>>
    PROVE  StoreOK'
BY DEF StoreOK, RingIndex, flags, ring

-----------------------------------------------------------------------------
(* Each method keeps the three parts. *)
LEMMA EnqueueKeeps ==
    ASSUME StoreOK, ThreadOK, CountersOK, NEW t \in Thread, NEW ew,
           NEW x \in Item \cup {Blank}, NEW p \in {"forever", "some", "none"},
           NEW timed_out \in BOOLEAN,
           \/ pc[t] = "idle" /\ ew = enqueue_waiters + 1
           \/ pc[t] = "room" /\ ew = enqueue_waiters,
           EnqueueBody(t, ew, x, p, timed_out)
    PROVE  StoreOK' /\ ThreadOK' /\ CountersOK'
<1>w. Woken(wait)
  BY DEF ThreadOK, Woken
<1>p. \/ pc[t] = "idle" /\ ew = enqueue_waiters + 1
      \/ pc[t] \in EnqueueSig /\ ew = enqueue_waiters
  BY DEF EnqueueSig
<1>1. CASE Parks(t, "room", wait) /\ enqueue_waiters' = ew
           /\ item' = [item EXCEPT ![t] = x]
           /\ patience' = [patience EXCEPT ![t] = p]
           /\ UNCHANGED <<flags, ring, dequeue_waiters, unblock_sig_waiters, num, life>>
  <2>1. StoreOK'
    BY <1>1, StoreStutter
  <2>2. ThreadOK'
    <3>1. "room" \in Loops \ {"idle"}
      BY DEF Loops, EnqueueSig
    <3> QED
      BY <1>w, <1>1, <3>1, ParksOK DEF ThreadOK
  <2>3. CountersOK'
    BY <1>1, <1>p, EnqueueSideCounters DEF Parks, EnqueueSig
  <2> QED
    BY <2>1, <2>2, <2>3
<1>2. CASE EnqueueFails(t, ew, x)
  <2>1. StoreOK'
    BY <1>2, StoreStutter DEF EnqueueFails
  <2>2. ThreadOK'
    BY <1>w, <1>2, WokenBroadcast, ReturnsWithOK DEF EnqueueFails
  <2>3. CountersOK'
    BY <1>2, <1>p, EnqueueSideCounters DEF EnqueueFails, ReturnsWith, Leaves
  <2> QED
    BY <2>1, <2>2, <2>3
<1>3. CASE ~ RoomWait(p) /\ enabled /\ enqueue_enabled /\ EnqueueAccepts(t, ew, x, p)
  <2>s. NextSlot \in Slots
    BY ModSlot, PipeAssumption DEF NextSlot, Slots, StoreOK, RingIndex
  <2>d. data[NextSlot] \in Item \cup {Blank}
    BY <2>s DEF StoreOK
  <2>1. PICK w \in SignalledIf(dequeue_waiters > 0, wait, DequeueSig) :
          \/ /\ MaxSize > 0
             /\ pipe_size' = pipe_size + 1
             /\ enqueue_waiters' = ew - 1
             /\ ReturnsWith(t, w, "enqueue", TRUE, data[NextSlot])
          \/ /\ MaxSize = 0
             /\ enqueue_waiters' = ew
             /\ item' = [item EXCEPT ![t] = data[NextSlot]]
             /\ patience' = [patience EXCEPT ![t] = p]
             /\ Parks(t, "taken", w)
             /\ UNCHANGED <<pipe_size, num>>
    BY <1>3 DEF EnqueueAccepts
  <2>w. Woken(w)
    BY <1>w, <2>1, WokenSignalled
  <2>2. /\ first' = IF pipe_size = 0 THEN 0 ELSE first
        /\ last' = NextSlot
        /\ data' = [data EXCEPT ![NextSlot] = x]
        /\ UNCHANGED <<flags, dequeue_waiters, unblock_sig_waiters, life>>
    BY <1>3 DEF EnqueueAccepts
  <2>3. data' \in [Slots -> Item \cup {Blank}]
    BY <2>2, <2>s DEF StoreOK
  <2>4. CASE MaxSize > 0
    <3>m. MaxSize # 0
      BY <2>4
    <3>r. /\ pipe_size' = pipe_size + 1
          /\ enqueue_waiters' = ew - 1
          /\ ReturnsWith(t, w, "enqueue", TRUE, data[NextSlot])
      BY <2>1, <3>m
    <3>n. pipe_size # MaxSize
      BY <1>3, <3>m DEF RoomWait
    <3>1. pipe_size' = pipe_size + 1 /\ pipe_size < MaxSize
      BY <3>r, <3>n, PipeAssumption DEF StoreOK
    <3>2. first' \in Slots /\ last' \in Slots
      BY <2>2, <2>s, <2>4, PipeAssumption DEF StoreOK, RingIndex, Slots
    <3>3. StoreOK'
      BY <2>2, <2>3, <3>1, <3>2, PipeAssumption DEF StoreOK, RingIndex, flags
    <3>4. ThreadOK'
      BY <3>r, <2>w, <2>d, ReturnsWithOK
    <3>5. CountersOK'
      BY <1>p, <2>2, <3>r, EnqueueSideCounters DEF ReturnsWith, Leaves
    <3> QED
      BY <3>3, <3>4, <3>5
  <2>5. CASE MaxSize = 0
    <3>1. pipe_size = 0 /\ UNCHANGED pipe_size
      BY <2>1, <2>5 DEF StoreOK
    <3>2. first' = 0 /\ last' = 0 /\ 0 \in Slots
      BY <2>2, <2>s, <3>1 DEF NextSlot
    <3>3. StoreOK'
      BY <2>2, <2>3, <3>1, <3>2 DEF StoreOK, RingIndex, flags
    <3>4. ThreadOK'
      <4>1. "taken" \in Loops \ {"idle"}
        BY DEF Loops, EnqueueSig
      <4> QED
        BY <2>1, <2>5, <2>w, <2>d, <4>1, ParksOK DEF ThreadOK
    <3>5. CountersOK'
      BY <1>p, <2>1, <2>2, <2>5, EnqueueSideCounters DEF Parks, EnqueueSig
    <3> QED
      BY <3>3, <3>4, <3>5
  <2> QED
    BY <2>4, <2>5, PipeAssumption
<1> QED
  BY <1>1, <1>2, <1>3 DEF EnqueueBody

LEMMA TakenKeeps ==
    ASSUME StoreOK, ThreadOK, CountersOK, NEW t \in Thread, EnqueueTakenResumes(t)
    PROVE  StoreOK' /\ ThreadOK' /\ CountersOK'
<1>w. Woken(wait)
  BY DEF ThreadOK, Woken
<1>p. pc[t] = "taken" /\ MaxSize = 0
  BY DEF EnqueueTakenResumes, Wakes, ThreadOK, TakenLoop
<1>0. pipe_size = 0 /\ Slots = {0}
  BY <1>p DEF StoreOK, Slots
<1>1. CASE TakenReparks(t)
  <2>1. StoreOK'
    BY <1>1, StoreStutter DEF TakenReparks
  <2>2. ThreadOK'
    <3>1. "taken" \in Loops \ {"idle"}
      BY DEF Loops, EnqueueSig
    <3> QED
      BY <1>w, <1>p, <1>1, <3>1, ParksOK DEF TakenReparks, ThreadOK
  <2>3. CountersOK'
    BY <1>1, <1>p, EnqueueSideCounters DEF TakenReparks, Parks, EnqueueSig, counts
  <2> QED
    BY <2>1, <2>2, <2>3
<1>2. CASE OfferWithdrawn(t)
  <2>1. StoreOK'
    <3>1. data' \in [Slots -> Item \cup {Blank}]
      BY <1>0, <1>2 DEF OfferWithdrawn, StoreOK, ThreadOK
    <3> QED
      BY <1>0, <1>2, <3>1 DEF OfferWithdrawn, StoreOK, RingIndex, flags
  <2>2. ThreadOK'
    <3>1. data[0] \in Item \cup {Blank}
      BY <1>0 DEF StoreOK
    <3>2. Woken(BroadcastIf(unblock_sig_waiters > 0, wait, UnblockSig))
      BY <1>w, WokenBroadcast
    <3> QED
      BY <1>2, <3>1, <3>2, ReturnsWithOK DEF OfferWithdrawn
  <2>3. CountersOK'
    BY <1>2, <1>p, EnqueueSideCounters
    DEF OfferWithdrawn, ReturnsWith, Leaves, EnqueueSig
  <2> QED
    BY <2>1, <2>2, <2>3
<1>3. CASE OfferTaken(t)
  <2>1. StoreOK'
    BY <1>0, <1>3 DEF OfferTaken, StoreOK, RingIndex, flags
  <2>2. ThreadOK'
    <3>1. item[t] \in Item \cup {Blank}
      BY DEF ThreadOK
    <3>2. Woken(BroadcastIf(~ enabled /\ unblock_sig_waiters > 0,
                   BroadcastIf(enqueue_waiters > 1, wait, EnqueueSig), UnblockSig))
      BY <1>w, WokenBroadcast
    <3> QED
      BY <1>3, <3>1, <3>2, ReturnsWithOK DEF OfferTaken
  <2>3. CountersOK'
    BY <1>3, <1>p, EnqueueSideCounters
    DEF OfferTaken, ReturnsWith, Leaves, EnqueueSig
  <2> QED
    BY <2>1, <2>2, <2>3
<1> QED
  BY <1>1, <1>2, <1>3 DEF EnqueueTakenResumes

LEMMA DequeueKeeps ==
    ASSUME StoreOK, ThreadOK, CountersOK, NEW t \in Thread, NEW dw, NEW w, Woken(w),
           NEW x \in Item \cup {Blank}, NEW p \in {"forever", "some", "none"},
           NEW timed_out \in BOOLEAN,
           \/ pc[t] = "idle" /\ dw = dequeue_waiters + 1
           \/ pc[t] = "dequeue" /\ dw = dequeue_waiters,
           DequeueBody(t, dw, w, x, p, timed_out)
    PROVE  StoreOK' /\ ThreadOK' /\ CountersOK'
<1>p. \/ pc[t] = "idle" /\ dw = dequeue_waiters + 1
      \/ pc[t] \in DequeueSig /\ dw = dequeue_waiters
  BY DEF DequeueSig
<1>1. CASE Parks(t, "dequeue", w) /\ dequeue_waiters' = dw
           /\ item' = [item EXCEPT ![t] = x]
           /\ patience' = [patience EXCEPT ![t] = p]
           /\ UNCHANGED <<flags, ring, enqueue_waiters, unblock_sig_waiters, num, life>>
  <2>1. StoreOK'
    BY <1>1, StoreStutter
  <2>2. ThreadOK'
    <3>1. "dequeue" \in Loops \ {"idle"}
      BY DEF Loops, DequeueSig
    <3> QED
      BY <1>1, <3>1, ParksOK DEF ThreadOK
  <2>3. CountersOK'
    BY <1>1, <1>p, DequeueSideCounters DEF Parks, DequeueSig
  <2> QED
    BY <2>1, <2>2, <2>3
<1>2. CASE DequeueFails(t, dw, w, x)
  <2>1. StoreOK'
    BY <1>2, StoreStutter DEF DequeueFails
  <2>2. ThreadOK'
    BY <1>2, WokenBroadcast, ReturnsWithOK DEF DequeueFails
  <2>3. CountersOK'
    BY <1>2, <1>p, DequeueSideCounters DEF DequeueFails, ReturnsWith, Leaves
  <2> QED
    BY <2>1, <2>2, <2>3
<1>3. CASE ~ ItemWait /\ enabled /\ dequeue_enabled /\ DequeueTakes(t, dw, w, x)
  <2>f. /\ first \in Slots
        /\ pipe_size = 0 => MaxSize = 0
    <3>1. pipe_size = 0 => MaxSize = 0 /\ first = 0
      BY <1>3 DEF ItemWait
    <3>2. pipe_size # 0 => first \in Slots
      BY PipeAssumption DEF StoreOK, RingIndex
    <3>3. 0 \in Slots
      BY PipeAssumption DEF Slots
    <3> QED
      BY <3>1, <3>2, <3>3
  <2>d. data[first] \in Item \cup {Blank}
    BY <2>f DEF StoreOK
  <2>1. StoreOK'
    <3>1. data' \in [Slots -> Item \cup {Blank}]
      BY <1>3, <2>f DEF DequeueTakes, StoreOK
    <3>2. UNCHANGED <<flags, life>>
      BY <1>3 DEF DequeueTakes
    <3>3. CASE MaxSize > 0
      <4>m. MaxSize # 0
        BY <3>3
      <4>1. /\ first' = (first + 1) % MaxSize
            /\ pipe_size' = pipe_size - 1
            /\ UNCHANGED last
        BY <1>3, <4>m DEF DequeueTakes
      <4>2. first' \in Slots
        BY <2>f, <3>3, <4>1, ModSlot, PipeAssumption DEF Slots
      <4>3. pipe_size' \in 0 .. MaxSize /\ pipe_size > 0
        BY <2>f, <4>m, <4>1, PipeAssumption DEF StoreOK
      <4> QED
        BY <3>1, <3>2, <4>1, <4>2, <4>3 DEF StoreOK, RingIndex, flags
    <3>4. CASE MaxSize = 0
      <4>1. last' = 1 /\ UNCHANGED <<first, pipe_size>>
        BY <1>3, <3>4 DEF DequeueTakes
      <4>2. pipe_size = 0
        BY <3>4 DEF StoreOK
      <4> QED
        BY <3>1, <3>2, <4>1, <4>2 DEF StoreOK, RingIndex, flags
    <3> QED
      BY <3>3, <3>4, PipeAssumption
  <2>2. ThreadOK'
    BY <1>3, <2>d, WokenBroadcast, ReturnsWithOK DEF DequeueTakes
  <2>3. CountersOK'
    BY <1>3, <1>p, DequeueSideCounters DEF DequeueTakes, ReturnsWith, Leaves
  <2> QED
    BY <2>1, <2>2, <2>3
<1> QED
  BY <1>1, <1>2, <1>3 DEF DequeueBody

LEMMA UntilEmptyKeeps ==
    ASSUME StoreOK, ThreadOK, CountersOK, NEW t \in Thread, NEW ew,
           \/ pc[t] = "idle" /\ ew = enqueue_waiters + 1
           \/ pc[t] = "until_empty" /\ ew = enqueue_waiters,
           UntilEmptyBody(t, ew)
    PROVE  StoreOK' /\ ThreadOK' /\ CountersOK'
<1>w. Woken(wait)
  BY DEF ThreadOK, Woken
<1>p. \/ pc[t] = "idle" /\ ew = enqueue_waiters + 1
      \/ pc[t] \in EnqueueSig /\ ew = enqueue_waiters
  BY DEF EnqueueSig
<1>u. UNCHANGED <<flags, ring, dequeue_waiters, unblock_sig_waiters, life>>
  BY DEF UntilEmptyBody
<1>1. StoreOK'
  BY <1>u, StoreStutter
<1>2. CASE UntilEmptyReturns(t, ew)
  <2>1. ThreadOK'
    BY <1>2, <1>w, WokenBroadcast, ReturnsOK DEF UntilEmptyReturns
  <2>2. CountersOK'
    BY <1>2, <1>p, <1>u, EnqueueSideCounters DEF UntilEmptyReturns, Returns, Leaves
  <2> QED
    BY <1>1, <2>1, <2>2
<1>3. CASE Parks(t, "until_empty", wait) /\ enqueue_waiters' = ew
           /\ UNCHANGED <<patience, item, num>>
  <2>1. ThreadOK'
    <3>1. "until_empty" \in Loops \ {"idle"}
      BY DEF Loops, EnqueueSig
    <3> QED
      BY <1>3, <1>w, <3>1, ParksOK DEF ThreadOK
  <2>2. CountersOK'
    BY <1>3, <1>p, <1>u, EnqueueSideCounters DEF Parks, EnqueueSig
  <2> QED
    BY <1>1, <2>1, <2>2
<1> QED
  BY <1>2, <1>3 DEF UntilEmptyBody

LEMMA NumBlockedKeeps ==
    ASSUME StoreOK, ThreadOK, CountersOK, NEW t \in Thread, NEW uw, NEW n \in Nat,
           \/ pc[t] = "idle" /\ uw = unblock_sig_waiters + 1
           \/ pc[t] = "num_blocked" /\ uw = unblock_sig_waiters,
           NumBlockedBody(t, uw, n)
    PROVE  StoreOK' /\ ThreadOK' /\ CountersOK'
<1>w. Woken(wait)
  BY DEF ThreadOK, Woken
<1>p. \/ pc[t] = "idle" /\ uw = unblock_sig_waiters + 1
      \/ pc[t] \in UnblockSig /\ uw = unblock_sig_waiters
  BY DEF UnblockSig
<1>u. UNCHANGED <<flags, ring, dequeue_waiters, enqueue_waiters, life>>
  BY DEF NumBlockedBody
<1>1. StoreOK'
  BY <1>u, StoreStutter
<1>2. CASE NumBlockedReturns(t, uw)
  <2>1. ThreadOK'
    BY <1>2, <1>w, WokenBroadcast, ReturnsOK DEF NumBlockedReturns
  <2>2. CountersOK'
    BY <1>2, <1>p, <1>u, UnblockSideCounters DEF NumBlockedReturns, Returns, Leaves
  <2> QED
    BY <1>1, <2>1, <2>2
<1>3. CASE Parks(t, "num_blocked", wait) /\ unblock_sig_waiters' = uw
           /\ num' = [num EXCEPT ![t] = n] /\ UNCHANGED <<patience, item>>
  <2>1. ThreadOK'
    <3>1. "num_blocked" \in Loops \ {"idle"}
      BY DEF Loops, UnblockSig
    <3> QED
      BY <1>3, <1>w, <3>1, ParksOK DEF ThreadOK
  <2>2. CountersOK'
    BY <1>3, <1>p, <1>u, UnblockSideCounters DEF Parks, UnblockSig
  <2> QED
    BY <1>1, <2>1, <2>2
<1> QED
  BY <1>2, <1>3 DEF NumBlockedBody

LEMMA DestructKeeps ==
    ASSUME StoreOK, ThreadOK, CountersOK, NEW t \in Thread, NEW uw, NEW w, Woken(w),
           \/ pc[t] = "idle" /\ uw = unblock_sig_waiters + 1
           \/ pc[t] = "destruct" /\ uw = unblock_sig_waiters,
           enabled' \in BOOLEAN,
           UNCHANGED <<enqueue_enabled, dequeue_enabled, ring,
                       dequeue_waiters, enqueue_waiters>>,
           DestructBody(t, uw, w)
    PROVE  StoreOK' /\ ThreadOK' /\ CountersOK'
<1>p. \/ pc[t] = "idle" /\ uw = unblock_sig_waiters + 1
      \/ pc[t] \in UnblockSig /\ uw = unblock_sig_waiters
  BY DEF UnblockSig
<1>1. StoreOK'
  BY DEF StoreOK, RingIndex, ring, DestructBody
<1>2. CASE Parks(t, "destruct", w) /\ unblock_sig_waiters' = uw
           /\ UNCHANGED <<patience, item, num>>
  <2>1. ThreadOK'
    <3>1. "destruct" \in Loops \ {"idle"}
      BY DEF Loops, UnblockSig
    <3> QED
      BY <1>2, <3>1, ParksOK DEF ThreadOK
  <2>2. CountersOK'
    BY <1>2, <1>p, UnblockSideCounters DEF Parks, UnblockSig
  <2> QED
    BY <1>1, <2>1, <2>2
<1>3. CASE Returns(t, w) /\ unblock_sig_waiters' = uw - 1
  <2>1. ThreadOK'
    BY <1>3, ReturnsOK
  <2>2. CountersOK'
    BY <1>3, <1>p, UnblockSideCounters DEF Returns, Leaves
  <2> QED
    BY <1>1, <2>1, <2>2
<1> QED
  BY <1>2, <1>3 DEF DestructBody

-----------------------------------------------------------------------------
LEMMA CountInvInit == Init => CountInv
<1> SUFFICES ASSUME Init PROVE CountInv
  OBVIOUS
<1>1. \A sig : sig \in {DequeueSig, EnqueueSig, UnblockSig} => In(sig) = {}
  BY DEF Init, In, DequeueSig, EnqueueSig, UnblockSig
<1>2. WaiterCounts
  BY <1>1, FS_EmptySet DEF WaiterCounts, Init
<1>3. TypeOK
  BY PipeAssumption DEF TypeOK, Init, Slots
<1> QED
  BY <1>2, <1>3 DEF CountInv, RingIndex, TakenLoop, Init

LEMMA CountInvNext == CountInv /\ [Next]_vars => CountInv'
<1> SUFFICES ASSUME CountInv, [Next]_vars PROVE StoreOK' /\ ThreadOK' /\ CountersOK'
  BY CountInvParts, PTL
<1>0. StoreOK /\ ThreadOK /\ CountersOK
  BY CountInvParts
<1>w. Woken(wait)
  BY <1>0 DEF ThreadOK, Woken
<1>1. CASE UNCHANGED vars
  <2>1. StoreOK' /\ CountersOK'
    BY <1>0, <1>1, StoreStutter, CountersStutter DEF vars, thread
  <2>2. ThreadOK'
    BY <1>0, <1>1 DEF vars, thread, ThreadOK, TakenLoop
  <2> QED
    BY <2>1, <2>2
<1>2. ASSUME NEW t \in Thread, Call(t)
      PROVE  StoreOK' /\ ThreadOK' /\ CountersOK'
  <2>1. CASE enqueue(t)
    <3>1. PICK x \in Item : EnqueueBody(t, enqueue_waiters + 1, x, "forever", FALSE)
      BY <2>1 DEF enqueue
    <3> QED
      BY <1>0, <2>1, <3>1, EnqueueKeeps DEF enqueue, Calls
  <2>2. CASE enqueue_or_timeout(t)
    <3>1. PICK x \in Item, p \in {"some", "none"} :
            EnqueueBody(t, enqueue_waiters + 1, x, p, FALSE)
      BY <2>2 DEF enqueue_or_timeout
    <3> QED
      BY <1>0, <2>2, <3>1, EnqueueKeeps DEF enqueue_or_timeout, Calls
  <2>w. Woken(DequeueAnnounced)
    BY <1>w, WokenBroadcast DEF DequeueAnnounced
  <2>3. CASE dequeue(t)
    BY <1>0, <2>3, <2>w, DequeueKeeps DEF dequeue, Calls
  <2>4. CASE dequeue_or_timeout(t)
    <3>1. PICK p \in {"some", "none"} :
            DequeueBody(t, dequeue_waiters + 1, DequeueAnnounced, Blank, p, FALSE)
      BY <2>4 DEF dequeue_or_timeout
    <3> QED
      BY <1>0, <2>4, <2>w, <3>1, DequeueKeeps DEF dequeue_or_timeout, Calls
  <2>5. CASE wait_until_empty(t)
    BY <1>0, <2>5, UntilEmptyKeeps DEF wait_until_empty, Calls
  <2>6. CASE wait_for_num_blocked_dequeues(t)
    <3>1. PICK n \in Nums : NumBlockedBody(t, unblock_sig_waiters + 1, n)
      BY <2>6 DEF wait_for_num_blocked_dequeues
    <3>2. n \in Nat
      BY PipeAssumption
    <3> QED
      BY <1>0, <2>6, <3>1, <3>2, NumBlockedKeeps
      DEF wait_for_num_blocked_dequeues, Calls
  <2>7. CASE empty(t)
    <3>1. StoreOK'
      BY <1>0, <2>7, PipeAssumption DEF empty, StoreOK, RingIndex, flags
    <3>2. CountersOK'
      BY <1>0, <2>7, CountersStutter DEF empty
    <3>3. ThreadOK'
      BY <1>0, <1>w, <2>7, WokenBroadcast, WakesOK DEF empty
    <3> QED
      BY <3>1, <3>2, <3>3
  <2>8. CASE destroy(t)
    <3>1. Woken(BroadcastAll)
      BY <1>w, WokenBroadcast DEF BroadcastAll
    <3> QED
      BY <1>0, <2>8, <3>1, DestructKeeps DEF destroy, Calls
  <2>9. ASSUME \/ disable(t) \/ disable_enqueue(t) \/ disable_dequeue(t)
               \/ enable(t) \/ enable_enqueue(t) \/ enable_dequeue(t)
        PROVE  StoreOK' /\ ThreadOK' /\ CountersOK'
    <3>1. StoreOK'
      BY <1>0, <2>9 DEF StoreOK, RingIndex, ring, disable, disable_enqueue,
         disable_dequeue, enable, enable_enqueue, enable_dequeue
    <3>2. UNCHANGED <<pc, counts>>
      BY <2>9 DEF thread, disable, disable_enqueue,
         disable_dequeue, enable, enable_enqueue, enable_dequeue
    <3>3. Woken(wait')
      BY <1>w, <2>9, WokenBroadcast DEF thread, BroadcastAll, disable, disable_enqueue,
         disable_dequeue, enable, enable_enqueue, enable_dequeue
    <3>4. returned' = {} /\ UNCHANGED <<patience, item, num>>
      BY <2>9 DEF thread, disable, disable_enqueue,
         disable_dequeue, enable, enable_enqueue, enable_dequeue
    <3> QED
      BY <1>0, <3>1, <3>2, <3>3, <3>4, CountersStutter, WakesOK
  <2> QED
    BY <1>2, <2>1, <2>2, <2>3, <2>4, <2>5, <2>6, <2>7, <2>8, <2>9 DEF Call
<1>3. ASSUME NEW t \in Thread, Resumes(t)
      PROVE  StoreOK' /\ ThreadOK' /\ CountersOK'
  <2>t. /\ item[t] \in Item \cup {Blank}
        /\ patience[t] \in {"forever", "some", "none"}
        /\ num[t] \in Nat
    BY <1>0 DEF ThreadOK
  <2>1. CASE EnqueueRoomResumes(t)
    BY <1>0, <2>t, <2>1, EnqueueKeeps DEF EnqueueRoomResumes, Wakes
  <2>2. CASE EnqueueTakenResumes(t)
    BY <1>0, <2>2, TakenKeeps
  <2>3. CASE DequeueResumes(t)
    BY <1>0, <1>w, <2>t, <2>3, DequeueKeeps DEF DequeueResumes, Wakes
  <2>4. CASE UntilEmptyResumes(t)
    BY <1>0, <2>4, UntilEmptyKeeps DEF UntilEmptyResumes, Wakes
  <2>5. CASE NumBlockedResumes(t)
    BY <1>0, <2>t, <2>5, NumBlockedKeeps DEF NumBlockedResumes, Wakes
  <2>6. CASE DestructResumes(t)
    <3>1. enabled' \in BOOLEAN /\ UNCHANGED <<enqueue_enabled, dequeue_enabled>>
      BY <1>0, <2>6 DEF DestructResumes, flags, StoreOK
    <3> QED
      BY <1>0, <1>w, <2>6, <3>1, DestructKeeps DEF DestructResumes, Wakes
  <2> QED
    BY <1>3, <2>1, <2>2, <2>3, <2>4, <2>5, <2>6 DEF Resumes
<1>4. ASSUME NEW t \in Thread, TimeOut(t) \/ SpuriousWakeUp(t)
      PROVE  StoreOK' /\ ThreadOK' /\ CountersOK'
  <2>1. StoreOK' /\ CountersOK'
    BY <1>0, <1>4, StoreStutter, CountersStutter DEF TimeOut, SpuriousWakeUp
  <2>2. ThreadOK'
    BY <1>0, <1>4 DEF TimeOut, SpuriousWakeUp, ThreadOK, TakenLoop, WaitStates
  <2> QED
    BY <2>1, <2>2
<1> QED
  BY <1>1, <1>2, <1>3, <1>4 DEF Next

(* On every path through every method the pipe keeps its types, and its    *)
(* waiter counters count exactly the threads inside the methods.           *)
THEOREM PipeTypeOK == Spec => []TypeOK
<1>1. CountInv => TypeOK
  BY DEF CountInv
<1> QED
  BY <1>1, CountInvInit, CountInvNext, PTL DEF Spec

THEOREM PipeWaiterCounts == Spec => []WaiterCounts
<1>1. CountInv => WaiterCounts
  BY DEF CountInv
<1> QED
  BY <1>1, CountInvInit, CountInvNext, PTL DEF Spec

-----------------------------------------------------------------------------
(* Who still sleeps after a broadcast: only threads on other signalers. *)
LEMMA BroadcastParks ==
    ASSUME NEW w, NEW sig, NEW cond, Woken(w), NEW s \in Thread
    PROVE  /\ Broadcast(w, sig)[s] = "parked" => w[s] = "parked" /\ pc[s] \notin sig
           /\ BroadcastIf(cond, w, sig)[s] = "parked" =>
                 w[s] = "parked" /\ (cond => pc[s] \notin sig)
BY DEF Woken, Broadcast, BroadcastIf, Parked

LEMMA SignalledParks ==
    ASSUME NEW w, NEW sig, NEW cond, Woken(w),
           NEW v \in SignalledIf(cond, w, sig), NEW s \in Thread
    PROVE  v[s] = "parked" => w[s] = "parked"
BY DEF Woken, WaitStates, SignalledIf, Signalled, Parked

LEMMA AllWoken ==
    ASSUME ThreadOK, NEW s \in Thread
    PROVE  BroadcastAll[s] # "parked"
<1>1. Woken(wait)
  BY DEF ThreadOK, Woken
<1>2. Woken(Broadcast(wait, DequeueSig))
  BY <1>1, WokenBroadcast
<1>3. Woken(Broadcast(Broadcast(wait, DequeueSig), EnqueueSig))
  BY <1>2, WokenBroadcast
<1>4. BroadcastAll[s] = "parked" =>
         wait[s] = "parked" /\ pc[s] \notin DequeueSig \cup EnqueueSig \cup UnblockSig
  <2>1. BroadcastAll[s] = "parked" =>
           /\ Broadcast(Broadcast(wait, DequeueSig), EnqueueSig)[s] = "parked"
           /\ pc[s] \notin UnblockSig
    BY <1>3, BroadcastParks DEF BroadcastAll
  <2>2. Broadcast(Broadcast(wait, DequeueSig), EnqueueSig)[s] = "parked" =>
           Broadcast(wait, DequeueSig)[s] = "parked" /\ pc[s] \notin EnqueueSig
    BY <1>2, BroadcastParks
  <2>3. Broadcast(wait, DequeueSig)[s] = "parked" =>
           wait[s] = "parked" /\ pc[s] \notin DequeueSig
    BY <1>1, BroadcastParks
  <2> QED
    BY <2>1, <2>2, <2>3
<1>5. wait[s] = "parked" => pc[s] # "idle"
  BY DEF ThreadOK
<1>6. pc[s] \in {"idle"} \cup DequeueSig \cup EnqueueSig \cup UnblockSig
  BY DEF ThreadOK, Loops
<1> QED
  BY <1>4, <1>5, <1>6

(* A thread in a loop is counted. *)
LEMMA Counted ==
    ASSUME ThreadOK, CountersOK, NEW s \in Thread
    PROVE  /\ pc[s] \in DequeueSig => dequeue_waiters > 0
           /\ pc[s] \in EnqueueSig => enqueue_waiters > 0
           /\ pc[s] \in UnblockSig => unblock_sig_waiters > 0
<1>1. ASSUME NEW sig, pc[s] \in sig
      PROVE  Cardinality(In(sig)) > 0
  <2>1. In(sig) \subseteq Thread /\ s \in In(sig)
    BY <1>1 DEF In
  <2>2. IsFiniteSet(In(sig))
    BY <2>1, PipeAssumption, FS_Subset
  <2> QED
    BY <2>1, <2>2, FS_EmptySet, FS_CardinalityType
<1> QED
  BY <1>1 DEF CountersOK, WaiterCounts

(* Two threads in loops of one signaler are counted twice. *)
LEMMA CountedTwice ==
    ASSUME ThreadOK, NEW sig, NEW s \in In(sig), NEW t \in In(sig), s # t
    PROVE  Cardinality(In(sig)) > 1
<1>1. In(sig) \subseteq Thread
  BY DEF In
<1>2. IsFiniteSet(In(sig))
  BY <1>1, PipeAssumption, FS_Subset
<1>3. /\ IsFiniteSet(In(sig) \ {t})
      /\ Cardinality(In(sig) \ {t}) = Cardinality(In(sig)) - 1
  BY <1>2, FS_RemoveElement
<1>4. s \in In(sig) \ {t}
  OBVIOUS
<1>5. Cardinality(In(sig) \ {t}) # 0 /\ Cardinality(In(sig) \ {t}) \in Nat
  BY <1>3, <1>4, FS_EmptySet, FS_CardinalityType
<1> QED
  BY <1>2, <1>3, <1>5, FS_CardinalityType

-----------------------------------------------------------------------------
(* NoEnqueueOverlooked, thread by thread. *)
SoundSleep(t) ==
    /\ pc[t] = "room" => RoomWait(patience[t])
    /\ pc[t] = "taken" => TakenWait
    /\ pc[t] = "until_empty" => pipe_size > 0 /\ enabled

LEMMA SleepersStep ==
    ASSUME ThreadOK, NoEnqueueOverlooked, NEW t \in Thread, NEW w, Woken(w),
           NEW v, NEW u,
           pc' = [pc EXCEPT ![t] = v],
           wait' = [w EXCEPT ![t] = u],
           u = "parked" => SoundSleep(t)',
           \A s \in Thread \ {t} :
              pc[s] \in EnqueueSig /\ w[s] = "parked" /\ SoundSleep(s) => SoundSleep(s)'
    PROVE  NoEnqueueOverlooked'
<1> SUFFICES ASSUME NEW s \in Thread, s \in Parked(EnqueueSig)'
             PROVE  SoundSleep(s)'
  BY DEF NoEnqueueOverlooked, Parked, SoundSleep
<1>1. CASE s = t
  BY <1>1 DEF Parked, Woken
<1>2. CASE s # t
  <2>1. pc[s] \in EnqueueSig /\ w[s] = "parked"
    BY <1>2 DEF Parked, Woken, ThreadOK
  <2>2. SoundSleep(s)
    BY <2>1 DEF NoEnqueueOverlooked, SoundSleep, Parked, Woken, WaitStates
  <2> QED
    BY <1>2, <2>1, <2>2
<1> QED
  BY <1>1, <1>2

(* A step that leaves the store alone, and no more dequeues inside. *)
LEMMA StoreSleepers ==
    ASSUME ThreadOK, CountersOK, NEW t \in Thread, NEW v,
           UNCHANGED <<flags, ring>>, dequeue_waiters' \in Nat,
           dequeue_waiters' <= dequeue_waiters,
           pc' = [pc EXCEPT ![t] = v],
           \A s \in Thread \ {t} : patience'[s] = patience[s]
    PROVE  \A s \in Thread \ {t} : SoundSleep(s) => SoundSleep(s)'
<1> SUFFICES ASSUME NEW s \in Thread \ {t}, SoundSleep(s)
             PROVE  SoundSleep(s)'
  OBVIOUS
<1>1. pc'[s] = pc[s]
  BY DEF ThreadOK
<1>2. RoomWait(patience[s]) => RoomWait(patience[s])'
  BY DEF RoomWait, flags, ring, CountersOK
<1> QED
  BY <1>1, <1>2 DEF SoundSleep, TakenWait, flags, ring

LEMMA EnqueueSleepers ==
    ASSUME StoreOK, ThreadOK, CountersOK, NoEnqueueOverlooked,
           NEW t \in Thread, NEW ew,
           NEW x \in Item \cup {Blank}, NEW p \in {"forever", "some", "none"},
           NEW timed_out \in BOOLEAN,
           EnqueueBody(t, ew, x, p, timed_out)
    PROVE  NoEnqueueOverlooked'
<1>w. Woken(wait)
  BY DEF ThreadOK, Woken
<1>d. dequeue_waiters \in Nat
  BY DEF CountersOK
<1>1. CASE RoomWait(p) /\ Parks(t, "room", wait)
           /\ patience' = [patience EXCEPT ![t] = p]
           /\ UNCHANGED <<flags, ring, dequeue_waiters>>
  <2>1. SoundSleep(t)'
    <3>1. pc'[t] = "room" /\ patience'[t] = p
      BY <1>1 DEF Parks, ThreadOK
    <3>2. RoomWait(p)'
      BY <1>1 DEF RoomWait, flags, ring
    <3> QED
      BY <3>1, <3>2 DEF SoundSleep
  <2>2. \A s \in Thread \ {t} : SoundSleep(s) => SoundSleep(s)'
    <3>1. /\ \A s \in Thread \ {t} : patience'[s] = patience[s]
          /\ dequeue_waiters' \in Nat /\ dequeue_waiters' <= dequeue_waiters
      BY <1>1, <1>d DEF ThreadOK
    <3> QED
      BY <1>1, <3>1, StoreSleepers DEF Parks
  <2> QED
    BY <1>1, <1>w, <2>1, <2>2, SleepersStep DEF Parks
<1>2. CASE EnqueueFails(t, ew, x)
  <2>1. /\ Woken(Broadcast(wait, UnblockSig))
        /\ pc' = [pc EXCEPT ![t] = "idle"]
        /\ wait' = [Broadcast(wait, UnblockSig) EXCEPT ![t] = "no"]
        /\ patience' = [patience EXCEPT ![t] = "forever"]
        /\ UNCHANGED <<flags, ring, dequeue_waiters>>
    BY <1>w, <1>2, WokenBroadcast DEF EnqueueFails, ReturnsWith, Leaves
  <2>2. \A s \in Thread \ {t} : SoundSleep(s) => SoundSleep(s)'
    <3>1. /\ \A s \in Thread \ {t} : patience'[s] = patience[s]
          /\ dequeue_waiters' \in Nat /\ dequeue_waiters' <= dequeue_waiters
      BY <2>1, <1>d DEF ThreadOK
    <3> QED
      BY <2>1, <3>1, StoreSleepers
  <2> QED
    BY <2>1, <2>2, SleepersStep
<1>3. CASE ~ RoomWait(p) /\ enabled /\ enqueue_enabled /\ EnqueueAccepts(t, ew, x, p)
  <2>1. PICK w \in SignalledIf(dequeue_waiters > 0, wait, DequeueSig) :
          \/ /\ MaxSize > 0
             /\ pipe_size' = pipe_size + 1
             /\ enqueue_waiters' = ew - 1
             /\ ReturnsWith(t, w, "enqueue", TRUE, data[NextSlot])
          \/ /\ MaxSize = 0
             /\ enqueue_waiters' = ew
             /\ item' = [item EXCEPT ![t] = data[NextSlot]]
             /\ patience' = [patience EXCEPT ![t] = p]
             /\ Parks(t, "taken", w)
             /\ UNCHANGED <<pipe_size, num>>
    BY <1>3 DEF EnqueueAccepts
  <2>w. Woken(w)
    BY <1>w, <2>1, WokenSignalled
  <2>2. /\ first' = IF pipe_size = 0 THEN 0 ELSE first
        /\ last' = NextSlot
        /\ UNCHANGED <<flags, dequeue_waiters>>
    BY <1>3 DEF EnqueueAccepts
  <2>4. CASE MaxSize > 0
    <3>1. /\ pipe_size' = pipe_size + 1
          /\ pc' = [pc EXCEPT ![t] = "idle"]
          /\ wait' = [w EXCEPT ![t] = "no"]
          /\ patience' = [patience EXCEPT ![t] = "forever"]
      BY <2>1, <2>4, PipeAssumption DEF ReturnsWith, Leaves
    <3>2. pipe_size # MaxSize
      BY <1>3, <2>4, PipeAssumption DEF RoomWait
    <3>3. ASSUME NEW s \in Thread \ {t}, SoundSleep(s)
          PROVE  SoundSleep(s)'
      <4>1. pc'[s] = pc[s]
        BY <3>1 DEF ThreadOK
      <4>2. pc[s] # "room"
        BY <3>2, <3>3 DEF SoundSleep, RoomWait
      <4>3. pc[s] # "taken"
        BY <2>4, PipeAssumption DEF ThreadOK, TakenLoop
      <4>4. pipe_size > 0 => pipe_size' > 0
        BY <3>1 DEF StoreOK
      <4> QED
        BY <2>2, <3>3, <4>1, <4>2, <4>3, <4>4 DEF SoundSleep, flags
    <3> QED
      BY <2>w, <3>1, <3>3, SleepersStep
  <2>5. CASE MaxSize = 0
    <3>1. /\ pc' = [pc EXCEPT ![t] = "taken"]
          /\ wait' = [w EXCEPT ![t] = "parked"]
          /\ patience' = [patience EXCEPT ![t] = p]
          /\ UNCHANGED pipe_size
      BY <2>1, <2>5 DEF Parks
    <3>2. pipe_size = 0
      BY <2>5 DEF StoreOK
    <3>3. first' = 0 /\ last' = 0
      BY <2>2, <3>2 DEF NextSlot
    <3>4. TakenWait'
      BY <1>3, <2>2, <3>3 DEF TakenWait, flags
    <3>5. \A q : RoomWait(q)'
      BY <1>3, <2>2, <2>5, <3>1, <3>2, <3>3 DEF RoomWait, flags
    <3>6. pc'[t] = "taken"
      BY <3>1 DEF ThreadOK
    <3>7. SoundSleep(t)'
      BY <3>4, <3>6 DEF SoundSleep
    <3>8. ASSUME NEW s \in Thread \ {t}, SoundSleep(s)
          PROVE  SoundSleep(s)'
      <4>1. pc'[s] = pc[s]
        BY <3>1 DEF ThreadOK
      <4>2. pc[s] # "until_empty"
        BY <3>2, <3>8 DEF SoundSleep
      <4> QED
        BY <3>4, <3>5, <4>1, <4>2 DEF SoundSleep
    <3> QED
      BY <2>w, <3>1, <3>7, <3>8, SleepersStep
  <2> QED
    BY <2>4, <2>5, PipeAssumption
<1> QED
  BY <1>1, <1>2, <1>3 DEF EnqueueBody

LEMMA TakenSleepers ==
    ASSUME StoreOK, ThreadOK, CountersOK, NoEnqueueOverlooked,
           NEW t \in Thread, EnqueueTakenResumes(t)
    PROVE  NoEnqueueOverlooked'
<1>w. Woken(wait)
  BY DEF ThreadOK, Woken
<1>d. dequeue_waiters \in Nat
  BY DEF CountersOK
<1>p. pc[t] = "taken" /\ MaxSize = 0 /\ pipe_size = 0
  BY DEF EnqueueTakenResumes, Wakes, ThreadOK, TakenLoop, StoreOK
<1>1. CASE TakenReparks(t)
  <2>1. SoundSleep(t)'
    BY <1>1 DEF TakenReparks, Parks, ThreadOK, SoundSleep, TakenWait, flags, ring
  <2>2. \A s \in Thread \ {t} : SoundSleep(s) => SoundSleep(s)'
    <3>1. /\ \A s \in Thread \ {t} : patience'[s] = patience[s]
          /\ dequeue_waiters' \in Nat /\ dequeue_waiters' <= dequeue_waiters
      BY <1>1, <1>d DEF TakenReparks, counts
    <3> QED
      BY <1>1, <3>1, StoreSleepers DEF TakenReparks, Parks
  <2> QED
    BY <1>1, <1>w, <2>1, <2>2, SleepersStep DEF TakenReparks, Parks
<1>2. CASE OfferWithdrawn(t)
  <2> DEFINE w == BroadcastIf(unblock_sig_waiters > 0, wait, UnblockSig)
  <2>0. Woken(w)
    BY <1>w, WokenBroadcast
  <2>1. /\ pc' = [pc EXCEPT ![t] = "idle"]
        /\ wait' = [w EXCEPT ![t] = "no"]
        /\ ~ (enabled /\ enqueue_enabled)
    BY <1>2 DEF OfferWithdrawn, ReturnsWith, Leaves
  <2>2. ASSUME NEW s \in Thread \ {t}, pc[s] \in EnqueueSig, SoundSleep(s)
        PROVE  FALSE
    BY <1>p, <2>1, <2>2 DEF SoundSleep, EnqueueSig, RoomWait, TakenWait
  <2> HIDE DEF w
  <2> QED
    BY <2>0, <2>1, <2>2, SleepersStep
<1>3. CASE OfferTaken(t)
  <2> DEFINE w1 == BroadcastIf(enqueue_waiters > 1, wait, EnqueueSig)
             w2 == BroadcastIf(~ enabled /\ unblock_sig_waiters > 0, w1, UnblockSig)
  <2>0. Woken(w1) /\ Woken(w2)
    BY <1>w, WokenBroadcast
  <2>1. /\ pc' = [pc EXCEPT ![t] = "idle"]
        /\ wait' = [w2 EXCEPT ![t] = "no"]
    BY <1>3 DEF OfferTaken, ReturnsWith, Leaves
  <2>2. ASSUME NEW s \in Thread \ {t}, pc[s] \in EnqueueSig, w2[s] = "parked"
        PROVE  FALSE
    <3>1. s \in In(EnqueueSig) /\ t \in In(EnqueueSig)
      BY <1>p, <2>2 DEF In, EnqueueSig
    <3>2. enqueue_waiters > 1
      BY <3>1, CountedTwice DEF CountersOK, WaiterCounts
    <3>3. w1[s] = "parked"
      BY <1>w, <2>0, <2>2, BroadcastParks
    <3> QED
      BY <1>w, <2>2, <3>2, <3>3, BroadcastParks
  <2> HIDE DEF w1, w2
  <2> QED
    BY <2>0, <2>1, <2>2, SleepersStep
<1> QED
  BY <1>1, <1>2, <1>3 DEF EnqueueTakenResumes

LEMMA QuietSleepers ==
    ASSUME ThreadOK, CountersOK, NoEnqueueOverlooked, NEW t \in Thread,
           NEW w, Woken(w), NEW v, NEW u,
           UNCHANGED <<flags, ring>>, dequeue_waiters' \in Nat,
           dequeue_waiters' <= dequeue_waiters,
           pc' = [pc EXCEPT ![t] = v],
           wait' = [w EXCEPT ![t] = u],
           u = "parked" => SoundSleep(t)',
           \A s \in Thread \ {t} : patience'[s] = patience[s]
    PROVE  NoEnqueueOverlooked'
<1>1. \A s \in Thread \ {t} : SoundSleep(s) => SoundSleep(s)'
  BY StoreSleepers
<1> QED
  BY <1>1, SleepersStep

LEMMA DequeueSleepers ==
    ASSUME StoreOK, ThreadOK, CountersOK, NoEnqueueOverlooked,
           NEW t \in Thread, NEW dw, NEW w, Woken(w),
           NEW x, NEW p, NEW timed_out,
           \/ pc[t] = "idle" /\ dw = dequeue_waiters + 1
           \/ pc[t] = "dequeue" /\ dw = dequeue_waiters,
           pipe_size = 0 /\ dw # dequeue_waiters =>
              \A s \in Thread : pc[s] \in EnqueueSig => w[s] # "parked",
           DequeueBody(t, dw, w, x, p, timed_out)
    PROVE  NoEnqueueOverlooked'
<1>d. dequeue_waiters \in Nat /\ dw - 1 \in Nat /\ dw - 1 <= dequeue_waiters
  <2>1. pc[t] = "dequeue" => dequeue_waiters > 0
    BY Counted DEF DequeueSig
  <2> QED
    BY <2>1 DEF CountersOK
<1>1. CASE Parks(t, "dequeue", w) /\ dequeue_waiters' = dw
           /\ patience' = [patience EXCEPT ![t] = p]
           /\ UNCHANGED <<flags, ring>>
  <2>0. /\ pc' = [pc EXCEPT ![t] = "dequeue"]
        /\ wait' = [w EXCEPT ![t] = "parked"]
        /\ \A s \in Thread \ {t} : patience'[s] = patience[s]
    BY <1>1 DEF Parks, ThreadOK
  <2>1. SoundSleep(t)'
    BY <2>0 DEF SoundSleep, ThreadOK
  <2>2. CASE dw = dequeue_waiters
    <3>1. dequeue_waiters' \in Nat /\ dequeue_waiters' <= dequeue_waiters
      BY <1>1, <1>d, <2>2
    <3> QED
      BY <1>1, <2>0, <2>1, <3>1, QuietSleepers
  <2>3. CASE dw # dequeue_waiters
    <3>1. ASSUME NEW s \in Thread \ {t}, pc[s] \in EnqueueSig, w[s] = "parked", SoundSleep(s)
          PROVE  SoundSleep(s)'
      <4>1. pipe_size # 0
        BY <2>3, <3>1
      <4>2. MaxSize # 0
        BY <4>1 DEF StoreOK
      <4>3. pc'[s] = pc[s] /\ patience'[s] = patience[s]
        BY <2>0 DEF ThreadOK
      <4>4. RoomWait(patience[s]) => RoomWait(patience[s])'
        BY <1>1, <4>2 DEF RoomWait, flags, ring
      <4> QED
        BY <1>1, <3>1, <4>3, <4>4 DEF SoundSleep, TakenWait, flags, ring
    <3> QED
      BY <2>0, <2>1, <3>1, SleepersStep
  <2> QED
    BY <2>2, <2>3
<1>2. CASE DequeueFails(t, dw, w, x)
  <2> DEFINE v == Broadcast(w, UnblockSig)
  <2>1. /\ Woken(v)
        /\ pc' = [pc EXCEPT ![t] = "idle"]
        /\ wait' = [v EXCEPT ![t] = "no"]
        /\ \A s \in Thread \ {t} : patience'[s] = patience[s]
        /\ UNCHANGED <<flags, ring>> /\ dequeue_waiters' = dw - 1
    BY <1>2, WokenBroadcast DEF DequeueFails, ReturnsWith, Leaves, ThreadOK
  <2>2. dequeue_waiters' \in Nat /\ dequeue_waiters' <= dequeue_waiters
    BY <1>d, <2>1
  <2> HIDE DEF v
  <2> QED
    BY <2>1, <2>2, QuietSleepers
<1>3. CASE DequeueTakes(t, dw, w, x)
  <2> DEFINE v == BroadcastIf(enqueue_waiters > 0, w, EnqueueSig)
  <2>1. /\ Woken(v)
        /\ pc' = [pc EXCEPT ![t] = "idle"]
        /\ wait' = [v EXCEPT ![t] = "no"]
    BY <1>3, WokenBroadcast DEF DequeueTakes, ReturnsWith, Leaves
  <2>2. \A s \in Thread : pc[s] \in EnqueueSig => v[s] # "parked"
    BY Counted, BroadcastParks
  <2> HIDE DEF v
  <2> QED
    BY <2>1, <2>2, SleepersStep
<1> QED
  BY <1>1, <1>2, <1>3 DEF DequeueBody

LEMMA ObserverSleepers ==
    ASSUME StoreOK, ThreadOK, CountersOK, NoEnqueueOverlooked, NEW t \in Thread,
           \/ \E ew : UntilEmptyBody(t, ew)
           \/ \E uw, n : NumBlockedBody(t, uw, n)
           \/ DestructResumes(t)
    PROVE  NoEnqueueOverlooked'
<1>w. Woken(wait) /\ dequeue_waiters \in Nat
  BY DEF ThreadOK, Woken, CountersOK
<1>u. UNCHANGED <<flags, ring, dequeue_waiters>>
  BY DEF UntilEmptyBody, NumBlockedBody, DestructResumes
<1>d. dequeue_waiters' \in Nat /\ dequeue_waiters' <= dequeue_waiters
  BY <1>w, <1>u
<1>1. ASSUME NEW at \in {"until_empty", "num_blocked", "destruct"},
             Parks(t, at, wait), UNCHANGED patience,
             at = "until_empty" => UntilEmptyWait
      PROVE  NoEnqueueOverlooked'
  <2>1. pc' = [pc EXCEPT ![t] = at] /\ wait' = [wait EXCEPT ![t] = "parked"]
    BY <1>1 DEF Parks
  <2>2. SoundSleep(t)'
    BY <1>1, <1>u, <2>1 DEF SoundSleep, ThreadOK, UntilEmptyWait, flags, ring
  <2> QED
    BY <1>1, <1>w, <1>u, <1>d, <2>1, <2>2, QuietSleepers
<1>2. ASSUME NEW w, Woken(w), Returns(t, w)
      PROVE  NoEnqueueOverlooked'
  <2>1. /\ pc' = [pc EXCEPT ![t] = "idle"] /\ wait' = [w EXCEPT ![t] = "no"]
        /\ \A s \in Thread \ {t} : patience'[s] = patience[s]
    BY <1>2 DEF Returns, Leaves, ThreadOK
  <2> QED
    BY <1>2, <1>u, <1>d, <2>1, QuietSleepers
<1>3. CASE \E ew : UntilEmptyBody(t, ew)
  BY <1>w, <1>1, <1>2, <1>3, WokenBroadcast DEF UntilEmptyBody, UntilEmptyReturns
<1>4. CASE \E uw, n : NumBlockedBody(t, uw, n)
  BY <1>w, <1>1, <1>2, <1>4, WokenBroadcast DEF NumBlockedBody, NumBlockedReturns
<1>5. CASE DestructResumes(t)
  BY <1>w, <1>1, <1>2, <1>5 DEF DestructResumes, DestructBody
<1> QED
  BY <1>3, <1>4, <1>5

LEMMA SleepersInit == Init => NoEnqueueOverlooked
BY DEF Init, NoEnqueueOverlooked, Parked

LEMMA SleepersNext ==
    CountInv /\ NoEnqueueOverlooked /\ [Next]_vars => NoEnqueueOverlooked'
<1> SUFFICES ASSUME CountInv, NoEnqueueOverlooked, [Next]_vars
             PROVE  NoEnqueueOverlooked'
  OBVIOUS
<1>0. StoreOK /\ ThreadOK /\ CountersOK
  BY CountInvParts
<1>w. Woken(wait)
  BY <1>0 DEF ThreadOK, Woken
<1>e. ASSUME UNCHANGED pc, \A s \in Thread : pc[s] \in EnqueueSig => wait'[s] # "parked"
      PROVE  NoEnqueueOverlooked'
  BY <1>e DEF NoEnqueueOverlooked, Parked
<1>q. ASSUME UNCHANGED <<pc, patience, ring, dequeue_waiters>>,
             \A s \in Thread : wait'[s] = "parked" => wait[s] = "parked",
             enabled => enabled', enqueue_enabled => enqueue_enabled'
      PROVE  NoEnqueueOverlooked'
  BY <1>q DEF NoEnqueueOverlooked, Parked, RoomWait, TakenWait, ring
<1>1. CASE UNCHANGED vars
  BY <1>1, <1>q DEF vars, thread, counts, flags
<1>2. ASSUME NEW t \in Thread, Call(t)
      PROVE  NoEnqueueOverlooked'
  <2>1. CASE enqueue(t) \/ enqueue_or_timeout(t)
    <3>1. PICK x \in Item, p \in {"forever", "some", "none"} :
             EnqueueBody(t, enqueue_waiters + 1, x, p, FALSE)
      BY <2>1 DEF enqueue, enqueue_or_timeout
    <3> QED
      BY <1>0, <3>1, EnqueueSleepers
  <2>2. CASE dequeue(t) \/ dequeue_or_timeout(t)
    <3>1. PICK p : DequeueBody(t, dequeue_waiters + 1, DequeueAnnounced, Blank, p, FALSE)
      BY <2>2 DEF dequeue, dequeue_or_timeout
    <3> DEFINE v == BroadcastIf(pipe_size = 0 /\ unblock_sig_waiters > 0, wait, UnblockSig)
    <3>2. Woken(v)
      BY <1>w, WokenBroadcast
    <3>3. Woken(DequeueAnnounced)
      BY <3>2, WokenBroadcast DEF DequeueAnnounced
    <3>4. ASSUME pipe_size = 0, NEW s \in Thread, pc[s] \in EnqueueSig
          PROVE  DequeueAnnounced[s] # "parked"
      <4>1. enqueue_waiters > 0
        BY <1>0, <3>4, Counted
      <4> HIDE DEF v
      <4> QED
        BY <3>2, <3>4, <4>1, BroadcastParks DEF DequeueAnnounced, v
    <3>5. pc[t] = "idle"
      BY <2>2 DEF dequeue, dequeue_or_timeout, Calls
    <3> QED
      BY <1>0, <3>1, <3>3, <3>4, <3>5, DequeueSleepers
  <2>3. CASE wait_until_empty(t)
    BY <1>0, <2>3, ObserverSleepers DEF wait_until_empty
  <2>4. CASE wait_for_num_blocked_dequeues(t)
    BY <1>0, <2>4, ObserverSleepers DEF wait_for_num_blocked_dequeues
  <2>5. CASE empty(t)
    <3>1. \A s \in Thread : pc[s] \in EnqueueSig => wait'[s] # "parked"
      BY <1>0, <1>w, <2>5, Counted, BroadcastParks DEF empty
    <3> QED
      BY <1>e, <2>5, <3>1 DEF empty
  <2>6. CASE disable(t)
    BY <1>0, <1>e, <2>6, AllWoken DEF disable
  <2>7. CASE disable_enqueue(t)
    BY <1>w, <1>e, <2>7, BroadcastParks DEF disable_enqueue
  <2>8. CASE disable_dequeue(t)
    BY <1>w, <1>q, <2>8, BroadcastParks DEF disable_dequeue, counts
  <2>9. CASE enable(t) \/ enable_enqueue(t) \/ enable_dequeue(t)
    BY <1>q, <2>9 DEF enable, enable_enqueue, enable_dequeue, counts, thread
  <2>10. CASE destroy(t)
    <3>1. \A s \in Thread : BroadcastAll[s] # "parked"
      BY <1>0, AllWoken
    <3>2. Woken(BroadcastAll)
      BY <1>w, WokenBroadcast DEF BroadcastAll
    <3>3. PICK v \in {"destruct", "idle"}, u \in {"parked", "no"} :
             /\ pc' = [pc EXCEPT ![t] = v]
             /\ wait' = [BroadcastAll EXCEPT ![t] = u]
      BY <2>10 DEF destroy, DestructBody, Parks, Returns, Leaves
    <3>4. SoundSleep(t)'
      BY <1>0, <3>3 DEF SoundSleep, ThreadOK
    <3> QED
      BY <1>0, <3>1, <3>2, <3>3, <3>4, SleepersStep
  <2> QED
    BY <1>2, <2>1, <2>2, <2>3, <2>4, <2>5, <2>6, <2>7, <2>8, <2>9, <2>10 DEF Call
<1>3. ASSUME NEW t \in Thread, Resumes(t)
      PROVE  NoEnqueueOverlooked'
  <2>t. /\ item[t] \in Item \cup {Blank}
        /\ patience[t] \in {"forever", "some", "none"}
    BY <1>0 DEF ThreadOK
  <2>1. CASE EnqueueRoomResumes(t)
    BY <1>0, <2>t, <2>1, EnqueueSleepers DEF EnqueueRoomResumes
  <2>2. CASE EnqueueTakenResumes(t)
    BY <1>0, <2>2, TakenSleepers
  <2>3. CASE DequeueResumes(t)
    BY <1>0, <1>w, <2>3, DequeueSleepers DEF DequeueResumes, Wakes
  <2>4. CASE UntilEmptyResumes(t) \/ NumBlockedResumes(t) \/ DestructResumes(t)
    BY <1>0, <2>4, ObserverSleepers DEF UntilEmptyResumes, NumBlockedResumes
  <2> QED
    BY <1>3, <2>1, <2>2, <2>3, <2>4 DEF Resumes
<1>4. ASSUME NEW t \in Thread, TimeOut(t) \/ SpuriousWakeUp(t)
      PROVE  NoEnqueueOverlooked'
  <2>1. \A s \in Thread : wait'[s] = "parked" => wait[s] = "parked"
    BY <1>0, <1>4 DEF TimeOut, SpuriousWakeUp, ThreadOK
  <2> QED
    BY <1>4, <1>q, <2>1 DEF TimeOut, SpuriousWakeUp, flags, counts
<1> QED
  BY <1>1, <1>2, <1>3, <1>4 DEF Next

(* Whatever the threads, the calls and MaxSize: nobody on the enqueue side *)
(* sleeps on although what it waits for is the case.                       *)
THEOREM PipeNoEnqueueOverlooked == Spec => []NoEnqueueOverlooked
<1>1. Init => CountInv /\ NoEnqueueOverlooked
  BY CountInvInit, SleepersInit
<1>2. CountInv /\ NoEnqueueOverlooked /\ [Next]_vars => (CountInv /\ NoEnqueueOverlooked)'
  BY CountInvNext, SleepersNext
<1> QED
  BY <1>1, <1>2, PTL DEF Spec

-----------------------------------------------------------------------------
(* The destructor: once it has begun the pipe is disabled, so that whoever *)
(* leaves wakes it; and while it sleeps somebody is left to do so.         *)
LifeInv ==
    /\ life = "alive" => \A t \in Thread : pc[t] # "destruct"
    /\ life # "alive" => ~ enabled
    /\ life = "destroyed" => \A t \in Thread : pc[t] = "idle"
    /\ \A t \in Thread : pc[t] = "destruct" /\ wait[t] = "parked" =>
          DestructWait(dequeue_waiters, enqueue_waiters, unblock_sig_waiters)

LEMMA AliveStep ==
    ASSUME ThreadOK, LifeInv, NEW t \in Thread, NEW v,
           life = "alive", life' = "alive", v # "destruct",
           pc' = [pc EXCEPT ![t] = v]
    PROVE  LifeInv'
BY DEF LifeInv, ThreadOK

LEMMA DestroyingStep ==
    ASSUME ThreadOK, LifeInv, NEW t \in Thread, NEW w, Woken(w),
           life = "destroying", life' = "destroying", UNCHANGED enabled,
           pc' = [pc EXCEPT ![t] = "idle"],
           wait' = [w EXCEPT ![t] = "no"],
           \A s \in Thread : pc[s] = "destruct" => w[s] # "parked"
    PROVE  LifeInv'
BY DEF LifeInv, ThreadOK, Woken

(* The destructor's step. *)
LEMMA DestructStep ==
    ASSUME ThreadOK, CountersOK, NEW t \in Thread, NEW uw, NEW w, Woken(w),
           \/ pc[t] = "idle" /\ uw = unblock_sig_waiters + 1
           \/ pc[t] = "destruct" /\ uw = unblock_sig_waiters,
           ~ enabled', UNCHANGED <<dequeue_waiters, enqueue_waiters>>,
           DestructBody(t, uw, w)
    PROVE  LifeInv'
<1>1. CASE DestructWait(dequeue_waiters, enqueue_waiters, uw)
           /\ unblock_sig_waiters' = uw /\ life' = "destroying"
  BY <1>1 DEF LifeInv, DestructWait
<1>2. CASE ~ DestructWait(dequeue_waiters, enqueue_waiters, uw)
           /\ Returns(t, w) /\ unblock_sig_waiters' = uw - 1 /\ life' = "destroyed"
  <2>1. pc' = [pc EXCEPT ![t] = "idle"]
    BY <1>2 DEF Returns, Leaves
  <2>2. ASSUME NEW s \in Thread, s # t, pc[s] # "idle"
        PROVE  FALSE
    <3>0. dequeue_waiters = 0 /\ enqueue_waiters = 0 /\ uw <= 1
      BY <1>2 DEF DestructWait, CountersOK
    <3>1. pc[s] \in UnblockSig
      BY <2>2, <3>0, Counted DEF ThreadOK, Loops
    <3>2. unblock_sig_waiters > 0
      BY <3>1, Counted
    <3>3. pc[t] = "destruct"
      BY <3>0, <3>2 DEF CountersOK
    <3>4. s \in In(UnblockSig) /\ t \in In(UnblockSig)
      BY <3>1, <3>3 DEF In, UnblockSig
    <3> QED
      BY <2>2, <3>0, <3>3, <3>4, CountedTwice DEF CountersOK, WaiterCounts
  <2>3. \A s \in Thread : pc'[s] = "idle"
    BY <2>1, <2>2 DEF ThreadOK
  <2> QED
    BY <1>2, <2>3 DEF LifeInv
<1> QED
  BY <1>1, <1>2 DEF DestructBody

LEMMA LifeInit == Init => LifeInv
BY DEF Init, LifeInv

LEMMA LifeNext == CountInv /\ LifeInv /\ [Next]_vars => LifeInv'
<1> SUFFICES ASSUME CountInv, LifeInv, [Next]_vars
             PROVE  LifeInv'
  OBVIOUS
<1>0. StoreOK /\ ThreadOK /\ CountersOK
  BY CountInvParts
<1>w. Woken(wait)
  BY <1>0 DEF ThreadOK, Woken
<1>s. ASSUME UNCHANGED <<pc, counts, enabled, life>>,
             \A s \in Thread : wait'[s] = "parked" => wait[s] = "parked"
      PROVE  LifeInv'
  BY <1>s DEF LifeInv, counts
<1>1. CASE UNCHANGED vars
  BY <1>1, <1>s DEF vars, thread, flags
<1>2. ASSUME NEW t \in Thread, Call(t)
      PROVE  LifeInv'
  <2>1. life = "alive" /\ pc[t] = "idle"
    BY <1>2 DEF Call, Calls, enqueue, enqueue_or_timeout, dequeue, dequeue_or_timeout,
       wait_until_empty, wait_for_num_blocked_dequeues, empty, enable, disable,
       enable_enqueue, disable_enqueue, enable_dequeue, disable_dequeue, destroy
  <2>2. CASE destroy(t)
    <3>1. Woken(BroadcastAll)
      BY <1>w, WokenBroadcast DEF BroadcastAll
    <3> QED
      BY <1>0, <2>1, <2>2, <3>1, DestructStep DEF destroy
  <2>3. CASE enqueue(t) \/ enqueue_or_timeout(t)
    <3>1. PICK v \in {"idle", "room", "taken"} : pc' = [pc EXCEPT ![t] = v]
      BY <2>3 DEF enqueue, enqueue_or_timeout, EnqueueBody, EnqueueFails,
         EnqueueAccepts, ReturnsWith, Leaves, Parks
    <3>2. UNCHANGED life
      BY <2>3 DEF enqueue, enqueue_or_timeout, EnqueueBody, EnqueueFails, EnqueueAccepts
    <3> QED
      BY <1>0, <2>1, <3>1, <3>2, AliveStep
  <2>4. CASE dequeue(t) \/ dequeue_or_timeout(t)
    <3>1. PICK v \in {"idle", "dequeue"} : pc' = [pc EXCEPT ![t] = v]
      BY <2>4 DEF dequeue, dequeue_or_timeout, DequeueBody, DequeueFails,
         DequeueTakes, ReturnsWith, Leaves, Parks
    <3>2. UNCHANGED life
      BY <2>4 DEF dequeue, dequeue_or_timeout, DequeueBody, DequeueFails, DequeueTakes
    <3> QED
      BY <1>0, <2>1, <3>1, <3>2, AliveStep
  <2>5. CASE wait_until_empty(t) \/ wait_for_num_blocked_dequeues(t)
    <3>1. PICK v \in {"idle", "until_empty", "num_blocked"} : pc' = [pc EXCEPT ![t] = v]
      BY <2>5 DEF wait_until_empty, wait_for_num_blocked_dequeues, UntilEmptyBody,
         UntilEmptyReturns, NumBlockedBody, NumBlockedReturns, Returns, Leaves, Parks
    <3>2. UNCHANGED life
      BY <2>5 DEF wait_until_empty, wait_for_num_blocked_dequeues, UntilEmptyBody,
         NumBlockedBody
    <3> QED
      BY <1>0, <2>1, <3>1, <3>2, AliveStep
  <2>6. CASE \/ empty(t) \/ enable(t) \/ disable(t) \/ enable_enqueue(t)
             \/ disable_enqueue(t) \/ enable_dequeue(t) \/ disable_dequeue(t)
    <3>1. UNCHANGED <<pc, life>>
      BY <2>6 DEF empty, enable, disable, enable_enqueue, disable_enqueue,
         enable_dequeue, disable_dequeue, thread
    <3> QED
      BY <2>1, <3>1 DEF LifeInv
  <2> QED
    BY <1>2, <2>2, <2>3, <2>4, <2>5, <2>6 DEF Call
<1>3. ASSUME NEW t \in Thread, Resumes(t)
      PROVE  LifeInv'
  <2>1. CASE DestructResumes(t)
    <3>1. pc[t] = "destruct"
      BY <2>1 DEF DestructResumes, Wakes
    <3>2. ~ enabled'
      BY <2>1, <3>1 DEF LifeInv, DestructResumes, flags, StoreOK
    <3> QED
      BY <1>0, <1>w, <2>1, <3>1, <3>2, DestructStep DEF DestructResumes
  <2>2. CASE ~ DestructResumes(t)
    <3>0. pc[t] \notin {"idle", "destruct"}
      BY <1>3, <2>2 DEF Resumes, EnqueueRoomResumes, EnqueueTakenResumes, DequeueResumes,
         UntilEmptyResumes, NumBlockedResumes, Wakes
    <3>1. UNCHANGED <<flags, life>>
      BY <1>3, <2>2 DEF Resumes, EnqueueRoomResumes, EnqueueBody, EnqueueFails,
         EnqueueAccepts, EnqueueTakenResumes, TakenReparks, OfferWithdrawn, OfferTaken,
         DequeueResumes, DequeueBody, DequeueFails, DequeueTakes, UntilEmptyResumes,
         UntilEmptyBody, NumBlockedResumes, NumBlockedBody
    <3>2. CASE life = "alive"
      <4>1. PICK v \in Loops \ {"destruct"} : pc' = [pc EXCEPT ![t] = v]
        BY <1>3, <2>2 DEF Resumes, EnqueueRoomResumes, EnqueueBody, EnqueueFails,
           EnqueueAccepts, EnqueueTakenResumes, TakenReparks, OfferWithdrawn, OfferTaken,
           DequeueResumes, DequeueBody, DequeueFails, DequeueTakes, UntilEmptyResumes,
           UntilEmptyBody, NumBlockedResumes, NumBlockedBody, UntilEmptyReturns,
           NumBlockedReturns, ReturnsWith, Returns, Leaves, Parks, Loops, EnqueueSig,
           DequeueSig, UnblockSig
      <4> QED
        BY <1>0, <3>1, <3>2, <4>1, AliveStep
    <3>3. CASE life = "destroying"
      <4>0. ~ enabled
        BY <3>3 DEF LifeInv
      <4>1. ASSUME NEW w, Woken(w), Leaves(t, w),
                   \A s \in Thread : pc[s] = "destruct" => w[s] # "parked"
            PROVE  LifeInv'
        BY <1>0, <3>1, <3>3, <4>1, DestroyingStep DEF Leaves, flags
      <4>2. ASSUME NEW v, Woken(v)
            PROVE  /\ Woken(Broadcast(v, UnblockSig))
                   /\ \A s \in Thread : pc[s] = "destruct" =>
                         Broadcast(v, UnblockSig)[s] # "parked"
        <5>1. "destruct" \in UnblockSig
          BY DEF UnblockSig
        <5> QED
          BY <4>2, <5>1, WokenBroadcast, BroadcastParks
      <4>4. ASSUME NEW v, Woken(v)
            PROVE  /\ Woken(BroadcastIf(unblock_sig_waiters > 0, v, UnblockSig))
                   /\ \A s \in Thread : pc[s] = "destruct" =>
                         BroadcastIf(unblock_sig_waiters > 0, v, UnblockSig)[s] # "parked"
        <5>1. Woken(BroadcastIf(unblock_sig_waiters > 0, v, UnblockSig))
          BY <4>4, WokenBroadcast
        <5>2. ASSUME NEW s \in Thread, pc[s] = "destruct"
              PROVE  BroadcastIf(unblock_sig_waiters > 0, v, UnblockSig)[s] # "parked"
          <6>1. pc[s] \in UnblockSig /\ unblock_sig_waiters > 0
            BY <1>0, <5>2, Counted DEF UnblockSig
          <6> QED
            BY <4>4, <6>1, BroadcastParks
        <5> QED
          BY <5>1, <5>2
      <4>5. CASE EnqueueRoomResumes(t)
        <5>1. PICK ew, x : EnqueueFails(t, ew, x)
          BY <4>0, <4>5 DEF EnqueueRoomResumes, EnqueueBody, RoomWait
        <5> QED
          BY <1>w, <4>1, <4>2, <5>1 DEF EnqueueFails, ReturnsWith
      <4>6. CASE OfferWithdrawn(t)
        BY <1>w, <4>1, <4>4, <4>6 DEF OfferWithdrawn, ReturnsWith
      <4>7. CASE OfferTaken(t)
        <5>1. Woken(BroadcastIf(enqueue_waiters > 1, wait, EnqueueSig))
          BY <1>w, WokenBroadcast
        <5>2. Leaves(t, BroadcastIf(unblock_sig_waiters > 0,
                            BroadcastIf(enqueue_waiters > 1, wait, EnqueueSig),
                            UnblockSig))
          BY <4>0, <4>7 DEF OfferTaken, ReturnsWith, BroadcastIf
        <5> QED
          BY <4>1, <4>4, <5>1, <5>2
      <4>8. CASE DequeueResumes(t)
        <5>1. PICK dw, x : DequeueFails(t, dw, wait, x)
          BY <4>0, <4>8 DEF DequeueResumes, DequeueBody, ItemWait
        <5> QED
          BY <1>w, <4>1, <4>2, <5>1 DEF DequeueFails, ReturnsWith
      <4>9. CASE UntilEmptyResumes(t) \/ NumBlockedResumes(t)
        <5>1. Leaves(t, Broadcast(wait, UnblockSig))
          BY <4>0, <4>9 DEF UntilEmptyResumes, UntilEmptyBody, UntilEmptyWait,
             UntilEmptyReturns, NumBlockedResumes, NumBlockedBody, NumBlockedWait,
             NumBlockedReturns, Returns, BroadcastIf
        <5> QED
          BY <1>w, <4>1, <4>2, <5>1
      <4>10. CASE TakenReparks(t)
        BY <4>0, <4>10 DEF TakenReparks, TakenWait
      <4> QED
        BY <1>3, <2>2, <4>5, <4>6, <4>7, <4>8, <4>9, <4>10
        DEF Resumes, EnqueueTakenResumes
    <3>4. life # "destroyed"
      BY <3>0 DEF LifeInv
    <3> QED
      BY <1>0, <3>2, <3>3, <3>4 DEF StoreOK
  <2> QED
    BY <2>1, <2>2
<1>4. ASSUME NEW t \in Thread, TimeOut(t) \/ SpuriousWakeUp(t)
      PROVE  LifeInv'
  <2>1. \A s \in Thread : wait'[s] = "parked" => wait[s] = "parked"
    BY <1>0, <1>4 DEF TimeOut, SpuriousWakeUp, ThreadOK
  <2> QED
    BY <1>4, <1>s, <2>1 DEF TimeOut, SpuriousWakeUp, flags
<1> QED
  BY <1>1, <1>2, <1>3, <1>4 DEF Next

(* ~pipe never sleeps with nobody left to wake it, and frees the buffer    *)
(* only after the last thread has left.                                    *)
THEOREM PipeDestructorSafe == Spec => []DestructorSafe
<1>1. Init => CountInv /\ LifeInv
  BY CountInvInit, LifeInit
<1>2. CountInv /\ LifeInv /\ [Next]_vars => (CountInv /\ LifeInv)'
  BY CountInvNext, LifeNext
<1>3. LifeInv => DestructorSafe
  BY DEF LifeInv, DestructorSafe, In
<1> QED
  BY <1>1, <1>2, <1>3, PTL DEF Spec

-----------------------------------------------------------------------------
(* No item overlooked.  A dequeue sleeps only in an enabled pipe, so that  *)
(* enabling it again never finds a sleeper that nobody will wake.          *)
ItemInv ==
    Parked(DequeueSig) # {} =>
        /\ enabled /\ dequeue_enabled
        /\ Cardinality(AwakeDequeues) >= pipe_size
        /\ ~ ItemWait => AwakeDequeues # {}

LEMMA AwakeFinite ==
    /\ IsFiniteSet(AwakeDequeues) /\ Cardinality(AwakeDequeues) \in Nat
    /\ IsFiniteSet(AwakeDequeues') /\ Cardinality(AwakeDequeues') \in Nat
<1>1. AwakeDequeues \subseteq Thread /\ AwakeDequeues' \subseteq Thread
  BY DEF AwakeDequeues, In
<1> QED
  BY <1>1, PipeAssumption, FS_Subset, FS_CardinalityType

(* Steps that leave the sleepers no better and no worse off. *)
LEMMA ItemsKept ==
    ASSUME StoreOK, StoreOK', ItemInv,
           Parked(DequeueSig)' \subseteq Parked(DequeueSig),
           AwakeDequeues \subseteq AwakeDequeues',
           Parked(DequeueSig) # {} /\ enabled /\ dequeue_enabled =>
              /\ enabled' /\ dequeue_enabled'
              /\ pipe_size' <= pipe_size
              /\ ~ ItemWait' => ~ ItemWait
    PROVE  ItemInv'
<1> SUFFICES ASSUME Parked(DequeueSig)' # {}
             PROVE  /\ enabled' /\ dequeue_enabled'
                    /\ Cardinality(AwakeDequeues') >= pipe_size'
                    /\ ~ ItemWait' => AwakeDequeues' # {}
  BY DEF ItemInv
<1>1. Parked(DequeueSig) # {}
  OBVIOUS
<1>2. /\ Cardinality(AwakeDequeues) >= pipe_size
      /\ ~ ItemWait => AwakeDequeues # {}
      /\ enabled /\ dequeue_enabled
  BY <1>1 DEF ItemInv
<1>3. /\ Cardinality(AwakeDequeues) \in Nat /\ Cardinality(AwakeDequeues') \in Nat
      /\ Cardinality(AwakeDequeues) <= Cardinality(AwakeDequeues')
  BY AwakeFinite, FS_Subset
<1>4. pipe_size \in Nat /\ pipe_size' \in Nat
  BY DEF StoreOK
<1> QED
  BY <1>1, <1>2, <1>3, <1>4

(* There is nothing to take. *)
LEMMA NoItems ==
    ASSUME enabled', dequeue_enabled', pipe_size' = 0, ItemWait'
    PROVE  ItemInv'
<1>1. Cardinality(AwakeDequeues)' = Cardinality(AwakeDequeues')
  OBVIOUS
<1> QED
  BY <1>1, AwakeFinite DEF ItemInv

(* What a step of t does to the other dequeues. *)
LEMMA OthersAwake ==
    ASSUME ThreadOK, NEW t \in Thread, NEW w, Woken(w), NEW v, NEW u,
           pc' = [pc EXCEPT ![t] = v],
           wait' = [w EXCEPT ![t] = u]
    PROVE  AwakeDequeues \ {t} \subseteq AwakeDequeues'
BY DEF ThreadOK, AwakeDequeues, In, Woken, WaitStates, DequeueSig

LEMMA OthersParked ==
    ASSUME ThreadOK, NEW t \in Thread, NEW w, Woken(w), NEW v, NEW u,
           pc' = [pc EXCEPT ![t] = v],
           wait' = [w EXCEPT ![t] = u],
           v # "dequeue"
    PROVE  Parked(DequeueSig)' \subseteq Parked(DequeueSig)
BY DEF ThreadOK, Parked, Woken, WaitStates, DequeueSig

LEMMA OutsiderSteps ==
    ASSUME StoreOK, StoreOK', ThreadOK, ItemInv, NEW t \in Thread, NEW w, Woken(w),
           NEW v, NEW u,
           pc' = [pc EXCEPT ![t] = v],
           wait' = [w EXCEPT ![t] = u],
           v # "dequeue", t \notin AwakeDequeues,
           UNCHANGED <<flags, ring>>
    PROVE  ItemInv'
<1>0. /\ AwakeDequeues \ {t} \subseteq AwakeDequeues'
      /\ Parked(DequeueSig)' \subseteq Parked(DequeueSig)
  BY OthersAwake, OthersParked
<1>1. AwakeDequeues \subseteq AwakeDequeues'
  BY <1>0
<1>2. /\ enabled' = enabled /\ dequeue_enabled' = dequeue_enabled
      /\ pipe_size' = pipe_size /\ ItemWait' = ItemWait
  BY DEF flags, ring, ItemWait
<1>3. pipe_size' <= pipe_size
  BY <1>2 DEF StoreOK
<1> QED
  BY <1>0, <1>1, <1>2, <1>3, ItemsKept

LEMMA EnqueueItems ==
    ASSUME StoreOK, StoreOK', ThreadOK, CountersOK, ItemInv,
           NEW t \in Thread, NEW ew, NEW x, NEW p, NEW timed_out,
           pc[t] \in {"idle", "room"},
           EnqueueBody(t, ew, x, p, timed_out)
    PROVE  ItemInv'
<1>w. Woken(wait)
  BY DEF ThreadOK, Woken
<1>o. t \notin AwakeDequeues
  BY DEF AwakeDequeues, In, DequeueSig
<1>1. CASE Parks(t, "room", wait) /\ UNCHANGED <<flags, ring>>
  BY <1>1, <1>w, <1>o, OutsiderSteps DEF Parks
<1>2. CASE EnqueueFails(t, ew, x)
  <2> DEFINE w == Broadcast(wait, UnblockSig)
  <2>1. /\ Woken(w)
        /\ pc' = [pc EXCEPT ![t] = "idle"]
        /\ wait' = [w EXCEPT ![t] = "no"]
        /\ UNCHANGED <<flags, ring>>
    BY <1>w, <1>2, WokenBroadcast DEF EnqueueFails, ReturnsWith, Leaves
  <2> HIDE DEF w
  <2> QED
    BY <1>o, <2>1, OutsiderSteps
<1>3. CASE EnqueueAccepts(t, ew, x, p)
  <2>1. PICK w \in SignalledIf(dequeue_waiters > 0, wait, DequeueSig) :
          \/ /\ MaxSize > 0
             /\ pipe_size' = pipe_size + 1
             /\ enqueue_waiters' = ew - 1
             /\ ReturnsWith(t, w, "enqueue", TRUE, data[NextSlot])
          \/ /\ MaxSize = 0
             /\ enqueue_waiters' = ew
             /\ item' = [item EXCEPT ![t] = data[NextSlot]]
             /\ patience' = [patience EXCEPT ![t] = p]
             /\ Parks(t, "taken", w)
             /\ UNCHANGED <<pipe_size, num>>
    BY <1>3 DEF EnqueueAccepts
  <2>w. Woken(w)
    BY <1>w, <2>1, WokenSignalled
  <2>f. UNCHANGED flags
    BY <1>3 DEF EnqueueAccepts
  <2>2. PICK v \in {"idle", "taken"}, u \in {"no", "parked"} :
          /\ pc' = [pc EXCEPT ![t] = v]
          /\ wait' = [w EXCEPT ![t] = u]
    BY <2>1 DEF ReturnsWith, Leaves, Parks
  <2> SUFFICES ASSUME Parked(DequeueSig)' # {}
               PROVE  ItemInv'
    BY DEF ItemInv
  <2>3. Parked(DequeueSig) # {}
    BY <2>w, <2>2, OthersParked
  <2>4. PICK s \in Parked(DequeueSig) : w = [wait EXCEPT ![s] = "woken"]
    <3>1. dequeue_waiters > 0
      BY <2>3, Counted DEF Parked
    <3> QED
      BY <2>1, <2>3, <3>1 DEF SignalledIf, Signalled
  <2>5. s \notin AwakeDequeues /\ s # t /\ s \in Thread
    BY <2>4 DEF Parked, AwakeDequeues, DequeueSig
  <2>6. s \in AwakeDequeues'
    BY <2>2, <2>4, <2>5 DEF ThreadOK, AwakeDequeues, In, Parked
  <2>7. AwakeDequeues \cup {s} \subseteq AwakeDequeues'
    BY <1>o, <2>w, <2>2, <2>6, OthersAwake
  <2>8. Cardinality(AwakeDequeues') >= Cardinality(AwakeDequeues) + 1
    <3>1. /\ IsFiniteSet(AwakeDequeues \cup {s})
          /\ Cardinality(AwakeDequeues \cup {s}) = Cardinality(AwakeDequeues) + 1
      BY <2>5, AwakeFinite, FS_AddElement
    <3>2. Cardinality(AwakeDequeues \cup {s}) <= Cardinality(AwakeDequeues')
      BY <2>7, AwakeFinite, FS_Subset
    <3> QED
      BY <3>1, <3>2, AwakeFinite
  <2>9. enabled' /\ dequeue_enabled' /\ Cardinality(AwakeDequeues) >= pipe_size
    BY <2>3, <2>f DEF ItemInv, flags
  <2>10. pipe_size' <= pipe_size + 1
    <3>1. pipe_size' = pipe_size + 1 \/ pipe_size' = pipe_size
      BY <2>1
    <3> QED
      BY <3>1 DEF StoreOK
  <2>11. Cardinality(AwakeDequeues)' >= pipe_size'
    <3>1. Cardinality(AwakeDequeues)' = Cardinality(AwakeDequeues')
      OBVIOUS
    <3> QED
      BY <2>8, <2>9, <2>10, <3>1, AwakeFinite DEF StoreOK
  <2> QED
    BY <2>6, <2>9, <2>11 DEF ItemInv
<1> QED
  BY <1>1, <1>2, <1>3 DEF EnqueueBody

LEMMA DequeueItems ==
    ASSUME StoreOK, StoreOK', ThreadOK, CountersOK, ItemInv,
           NEW t \in Thread, NEW dw, NEW w, Woken(w), NEW x, NEW p,
           NEW timed_out \in BOOLEAN,
           timed_out => wait[t] = "timedout",
           DequeueBody(t, dw, w, x, p, timed_out)
    PROVE  ItemInv'
<1>1. CASE ItemWait /\ UNCHANGED <<flags, ring>>
  BY <1>1, NoItems DEF ItemWait, flags, ring
<1>2. CASE (~ enabled \/ ~ dequeue_enabled \/ timed_out) /\ DequeueFails(t, dw, w, x)
  <2> DEFINE v == Broadcast(w, UnblockSig)
  <2>1. /\ Woken(v)
        /\ pc' = [pc EXCEPT ![t] = "idle"]
        /\ wait' = [v EXCEPT ![t] = "no"]
        /\ UNCHANGED <<flags, ring>>
    BY <1>2, WokenBroadcast DEF DequeueFails, ReturnsWith, Leaves
  <2> HIDE DEF v
  <2>2. CASE timed_out
    <3>1. t \notin AwakeDequeues
      BY <2>2 DEF AwakeDequeues
    <3> QED
      BY <2>1, <3>1, OutsiderSteps
  <2>3. CASE ~ enabled \/ ~ dequeue_enabled
    <3>1. Parked(DequeueSig) = {}
      BY <2>3 DEF ItemInv
    <3>2. Parked(DequeueSig)' \subseteq Parked(DequeueSig)
      BY <2>1, OthersParked
    <3>3. Parked(DequeueSig)' = {}
      BY <3>1, <3>2
    <3> QED
      BY <3>3 DEF ItemInv
  <2> QED
    BY <1>2, <2>2, <2>3
<1>3. CASE enabled /\ dequeue_enabled /\ ~ ItemWait /\ DequeueTakes(t, dw, w, x)
  <2> DEFINE v == BroadcastIf(enqueue_waiters > 0, w, EnqueueSig)
  <2>1. /\ Woken(v)
        /\ pc' = [pc EXCEPT ![t] = "idle"]
        /\ wait' = [v EXCEPT ![t] = "no"]
        /\ UNCHANGED flags
    BY <1>3, WokenBroadcast DEF DequeueTakes, ReturnsWith, Leaves
  <2> HIDE DEF v
  <2>2. enabled' /\ dequeue_enabled'
    BY <1>3, <2>1 DEF flags
  <2>3. CASE MaxSize = 0
    <3>1. pipe_size' = 0 /\ last' = 1
      BY <1>3, <2>3 DEF DequeueTakes, StoreOK
    <3> QED
      BY <2>2, <3>1, NoItems DEF ItemWait
  <2>4. CASE MaxSize > 0
    <3>1. pipe_size' = pipe_size - 1
      BY <1>3, <2>4, PipeAssumption DEF DequeueTakes
    <3> SUFFICES ASSUME Parked(DequeueSig)' # {}
                 PROVE  ItemInv'
      BY DEF ItemInv
    <3>2. Parked(DequeueSig) # {}
      <4>1. Parked(DequeueSig)' \subseteq Parked(DequeueSig)
        BY <2>1, OthersParked
      <4> QED
        BY <4>1
    <3>3. Cardinality(AwakeDequeues) >= pipe_size
      BY <3>2 DEF ItemInv
    <3>4. AwakeDequeues \ {t} \subseteq AwakeDequeues'
      BY <2>1, OthersAwake
    <3>5. Cardinality(AwakeDequeues') >= Cardinality(AwakeDequeues) - 1
      <4>1. /\ IsFiniteSet(AwakeDequeues \ {t})
            /\ Cardinality(AwakeDequeues \ {t}) \in Nat
            /\ Cardinality(AwakeDequeues \ {t}) >= Cardinality(AwakeDequeues) - 1
        <5>1. /\ IsFiniteSet(AwakeDequeues \ {t})
              /\ Cardinality(AwakeDequeues \ {t}) =
                    IF t \in AwakeDequeues THEN Cardinality(AwakeDequeues) - 1
                    ELSE Cardinality(AwakeDequeues)
          BY AwakeFinite, FS_RemoveElement
        <5>2. Cardinality(AwakeDequeues \ {t}) \in Nat
          BY <5>1, FS_CardinalityType
        <5> QED
          BY <5>1, <5>2, AwakeFinite
      <4>2. Cardinality(AwakeDequeues \ {t}) <= Cardinality(AwakeDequeues')
        BY <3>4, AwakeFinite, FS_Subset
      <4> QED
        BY <4>1, <4>2, AwakeFinite
    <3>6. Cardinality(AwakeDequeues)' = Cardinality(AwakeDequeues')
      OBVIOUS
    <3>7. Cardinality(AwakeDequeues)' >= pipe_size'
      BY <3>1, <3>3, <3>5, <3>6, AwakeFinite DEF StoreOK
    <3>8. ~ ItemWait' => AwakeDequeues' # {}
      <4>1. ~ ItemWait' => pipe_size' # 0
        BY <2>2, <2>4, PipeAssumption DEF ItemWait
      <4>2. pipe_size' # 0 => Cardinality(AwakeDequeues') # 0
        BY <3>6, <3>7, AwakeFinite DEF StoreOK
      <4> QED
        BY <4>1, <4>2, FS_EmptySet
    <3> QED
      BY <2>2, <3>7, <3>8 DEF ItemInv
  <2> QED
    BY <2>3, <2>4, PipeAssumption
<1>4. ItemWait /\ DequeueFails(t, dw, w, x) => UNCHANGED <<flags, ring>>
  BY DEF DequeueFails
<1> QED
  BY <1>1, <1>2, <1>3, <1>4 DEF DequeueBody

LEMMA TakenItems ==
    ASSUME StoreOK, StoreOK', ThreadOK, ItemInv, NEW t \in Thread, EnqueueTakenResumes(t)
    PROVE  ItemInv'
<1>w. Woken(wait)
  BY DEF ThreadOK, Woken
<1>p. pc[t] = "taken" /\ pipe_size = 0
  BY DEF EnqueueTakenResumes, Wakes, ThreadOK, TakenLoop, StoreOK
<1>o. t \notin AwakeDequeues
  BY <1>p DEF AwakeDequeues, In, DequeueSig
<1>1. CASE TakenReparks(t)
  BY <1>1, <1>w, <1>o, OutsiderSteps DEF TakenReparks, Parks
<1>2. CASE OfferWithdrawn(t) \/ OfferTaken(t)
  <2>1. /\ last' = 1
        /\ UNCHANGED <<flags, pipe_size>>
    BY <1>2 DEF OfferWithdrawn, OfferTaken
  <2>2. PICK w : Woken(w) /\ Leaves(t, w)
    <3>1. /\ Woken(BroadcastIf(unblock_sig_waiters > 0, wait, UnblockSig))
          /\ Woken(BroadcastIf(~ enabled /\ unblock_sig_waiters > 0,
                     BroadcastIf(enqueue_waiters > 1, wait, EnqueueSig), UnblockSig))
      BY <1>w, WokenBroadcast
    <3> QED
      BY <1>2, <3>1 DEF OfferWithdrawn, OfferTaken, ReturnsWith
  <2>3. pc' = [pc EXCEPT ![t] = "idle"] /\ wait' = [w EXCEPT ![t] = "no"]
    BY <2>2 DEF Leaves
  <2>4. /\ AwakeDequeues \ {t} \subseteq AwakeDequeues'
        /\ Parked(DequeueSig)' \subseteq Parked(DequeueSig)
    BY <2>2, <2>3, OthersAwake, OthersParked
  <2>5. AwakeDequeues \subseteq AwakeDequeues'
    BY <1>o, <2>4
  <2>6. enabled' = enabled /\ dequeue_enabled' = dequeue_enabled /\ pipe_size' <= pipe_size
    BY <1>p, <2>1 DEF flags
  <2>7. enabled /\ dequeue_enabled => ItemWait'
    BY <1>p, <2>1, <2>6 DEF ItemWait
  <2> QED
    BY <2>4, <2>5, <2>6, <2>7, ItemsKept
<1> QED
  BY <1>1, <1>2 DEF EnqueueTakenResumes

LEMMA ObserverItems ==
    ASSUME StoreOK, StoreOK', ThreadOK, ItemInv, NEW t \in Thread,
           pc[t] \notin DequeueSig,
           \/ \E ew : UntilEmptyBody(t, ew)
           \/ \E uw, n : NumBlockedBody(t, uw, n)
           \/ DestructResumes(t)
    PROVE  ItemInv'
<1>w. Woken(wait)
  BY DEF ThreadOK, Woken
<1>o. t \notin AwakeDequeues
  BY DEF AwakeDequeues, In
<1>u. UNCHANGED <<flags, ring>>
  BY DEF UntilEmptyBody, NumBlockedBody, DestructResumes
<1>1. Woken(BroadcastIf(~ enabled, wait, UnblockSig))
  BY <1>w, WokenBroadcast
<1>2. ASSUME NEW v \in {"until_empty", "num_blocked", "destruct"}, Parks(t, v, wait)
      PROVE  ItemInv'
  BY <1>w, <1>o, <1>u, <1>2, OutsiderSteps DEF Parks
<1>3. ASSUME NEW w, Woken(w), Returns(t, w)
      PROVE  ItemInv'
  BY <1>o, <1>u, <1>3, OutsiderSteps DEF Returns, Leaves
<1>4. CASE \E ew : UntilEmptyBody(t, ew)
  BY <1>1, <1>2, <1>3, <1>4 DEF UntilEmptyBody, UntilEmptyReturns
<1>5. CASE \E uw, n : NumBlockedBody(t, uw, n)
  BY <1>1, <1>2, <1>3, <1>5 DEF NumBlockedBody, NumBlockedReturns
<1>6. CASE DestructResumes(t)
  BY <1>w, <1>2, <1>3, <1>6 DEF DestructResumes, DestructBody
<1> QED
  BY <1>4, <1>5, <1>6

LEMMA ItemInit == Init => ItemInv
BY DEF Init, ItemInv, Parked

LEMMA ItemNext == CountInv /\ CountInv' /\ ItemInv /\ [Next]_vars => ItemInv'
<1> SUFFICES ASSUME CountInv, CountInv', ItemInv, [Next]_vars
             PROVE  ItemInv'
  OBVIOUS
<1>0. StoreOK /\ ThreadOK /\ CountersOK
  BY CountInvParts
<1>00. StoreOK'
  BY CountInvParts, PTL
<1>w. Woken(wait)
  BY <1>0 DEF ThreadOK, Woken
<1>z. ASSUME Parked(DequeueSig)' = {}
      PROVE  ItemInv'
  BY <1>z DEF ItemInv
<1>k. ASSUME UNCHANGED pc, Woken(wait'),
             Parked(DequeueSig) # {} /\ enabled /\ dequeue_enabled =>
                /\ enabled' /\ dequeue_enabled'
                /\ pipe_size' <= pipe_size
                /\ ~ ItemWait' => ~ ItemWait
      PROVE  ItemInv'
  <2>1. /\ AwakeDequeues \subseteq AwakeDequeues'
        /\ Parked(DequeueSig)' \subseteq Parked(DequeueSig)
    BY <1>k DEF AwakeDequeues, Parked, In, Woken, DequeueSig
  <2> QED
    BY <1>0, <1>00, <1>k, <2>1, ItemsKept
<1>r. UNCHANGED ring => UNCHANGED <<pipe_size, first, last>> /\ pipe_size' <= pipe_size
  BY <1>0 DEF ring, StoreOK
<1>1. CASE UNCHANGED vars
  <2>1. UNCHANGED <<pc, wait, flags, ring>>
    BY <1>1 DEF vars, thread
  <2> QED
    BY <1>k, <1>r, <1>w, <2>1 DEF ItemWait, flags
<1>2. ASSUME NEW t \in Thread, Call(t)
      PROVE  ItemInv'
  <2>i. pc[t] = "idle" /\ wait[t] = "no"
    BY <1>0, <1>2 DEF Call, Calls, enqueue, enqueue_or_timeout, dequeue, dequeue_or_timeout,
       wait_until_empty, wait_for_num_blocked_dequeues, empty, enable, disable,
       enable_enqueue, disable_enqueue, enable_dequeue, disable_dequeue, destroy, ThreadOK
  <2>1. CASE enqueue(t) \/ enqueue_or_timeout(t)
    <3>1. PICK ew, x, p, timed_out : EnqueueBody(t, ew, x, p, timed_out)
      BY <2>1 DEF enqueue, enqueue_or_timeout
    <3> QED
      BY <1>0, <1>00, <2>i, <3>1, EnqueueItems
  <2>2. CASE dequeue(t) \/ dequeue_or_timeout(t)
    <3>1. PICK p : DequeueBody(t, dequeue_waiters + 1, DequeueAnnounced, Blank, p, FALSE)
      BY <2>2 DEF dequeue, dequeue_or_timeout
    <3>2. Woken(DequeueAnnounced)
      BY <1>w, WokenBroadcast DEF DequeueAnnounced
    <3> QED
      BY <1>0, <1>00, <3>1, <3>2, DequeueItems
  <2>3. CASE wait_until_empty(t) \/ wait_for_num_blocked_dequeues(t)
    BY <1>0, <1>00, <2>i, <2>3, ObserverItems
    DEF wait_until_empty, wait_for_num_blocked_dequeues, DequeueSig
  <2>4. CASE empty(t)
    <3>1. UNCHANGED <<pc, flags, first, last>> /\ pipe_size' = 0 /\ Woken(wait')
      BY <1>w, <2>4, WokenBroadcast DEF empty
    <3>2. pipe_size' <= pipe_size
      BY <1>0, <3>1 DEF StoreOK
    <3>3. MaxSize = 0 => pipe_size = 0
      BY <1>0 DEF StoreOK
    <3>4. enabled /\ dequeue_enabled /\ ~ ItemWait' => ~ ItemWait
      BY <3>1, <3>3 DEF ItemWait, flags
    <3> QED
      BY <1>k, <3>1, <3>2, <3>4 DEF flags
  <2>5. CASE disable(t)
    BY <1>0, <1>z, <2>5, AllWoken DEF disable, Parked
  <2>6. CASE disable_dequeue(t)
    BY <1>w, <1>z, <2>6, BroadcastParks DEF disable_dequeue, Parked
  <2>7. CASE disable_enqueue(t) \/ enable(t) \/ enable_enqueue(t) \/ enable_dequeue(t)
    <3>1. /\ UNCHANGED <<pc, ring>>
          /\ Woken(wait')
      BY <1>w, <2>7, WokenBroadcast
      DEF disable_enqueue, enable, enable_enqueue, enable_dequeue, thread
    <3>2. enabled /\ dequeue_enabled => enabled' /\ dequeue_enabled'
      BY <2>7 DEF disable_enqueue, enable, enable_enqueue, enable_dequeue
    <3> QED
      BY <1>k, <1>r, <3>1, <3>2 DEF ItemWait
  <2>8. CASE destroy(t)
    <3>1. PICK v \in {"destruct", "idle"}, u \in {"parked", "no"} :
             /\ pc' = [pc EXCEPT ![t] = v]
             /\ wait' = [BroadcastAll EXCEPT ![t] = u]
      BY <2>8 DEF destroy, DestructBody, Parks, Returns, Leaves
    <3>2. \A s \in Thread : BroadcastAll[s] # "parked"
      BY <1>0, AllWoken
    <3>3. Woken(BroadcastAll)
      BY <1>w, WokenBroadcast DEF BroadcastAll
    <3>4. Parked(DequeueSig)' = {}
      BY <1>0, <3>1, <3>2, <3>3 DEF Parked, DequeueSig, ThreadOK, Woken
    <3> QED
      BY <1>z, <3>4
  <2> QED
    BY <1>2, <2>1, <2>2, <2>3, <2>4, <2>5, <2>6, <2>7, <2>8 DEF Call
<1>3. ASSUME NEW t \in Thread, Resumes(t)
      PROVE  ItemInv'
  <2>1. CASE EnqueueRoomResumes(t)
    BY <1>0, <1>00, <2>1, EnqueueItems DEF EnqueueRoomResumes, Wakes
  <2>2. CASE EnqueueTakenResumes(t)
    BY <1>0, <1>00, <2>2, TakenItems
  <2>3. CASE DequeueResumes(t)
    <3>1. (wait[t] = "timedout") \in BOOLEAN
      OBVIOUS
    <3> QED
      BY <1>0, <1>00, <1>w, <2>3, <3>1, DequeueItems DEF DequeueResumes
  <2>4. CASE UntilEmptyResumes(t) \/ NumBlockedResumes(t) \/ DestructResumes(t)
    <3>1. pc[t] \notin DequeueSig
      BY <2>4 DEF UntilEmptyResumes, NumBlockedResumes, DestructResumes, Wakes, DequeueSig
    <3> QED
      BY <1>0, <1>00, <2>4, <3>1, ObserverItems DEF UntilEmptyResumes, NumBlockedResumes
  <2> QED
    BY <1>3, <2>1, <2>2, <2>3, <2>4 DEF Resumes
<1>4. ASSUME NEW t \in Thread, TimeOut(t) \/ SpuriousWakeUp(t)
      PROVE  ItemInv'
  <2>1. UNCHANGED <<pc, flags, ring>>
    BY <1>4 DEF TimeOut, SpuriousWakeUp
  <2>2. /\ AwakeDequeues \subseteq AwakeDequeues'
        /\ Parked(DequeueSig)' \subseteq Parked(DequeueSig)
    BY <1>0, <1>4 DEF TimeOut, SpuriousWakeUp, AwakeDequeues, Parked, In, ThreadOK, WaitStates
  <2> QED
    BY <1>0, <1>00, <1>r, <2>1, <2>2, ItemsKept DEF ItemWait, flags
<1> QED
  BY <1>1, <1>2, <1>3, <1>4 DEF Next

(* enqueue's single signal() is enough: while a dequeue sleeps, there are  *)
(* as many dequeues on their way as items to take, whatever timed out,     *)
(* was switched off and on again or came in between.                       *)
THEOREM PipeNoItemOverlooked == Spec => []NoItemOverlooked
<1>1. Init => CountInv /\ ItemInv
  BY CountInvInit, ItemInit
<1>2. CountInv /\ ItemInv /\ [Next]_vars => (CountInv /\ ItemInv)'
  BY CountInvNext, ItemNext
<1>3. ItemInv => NoItemOverlooked
  BY DEF ItemInv, NoItemOverlooked
<1> QED
  BY <1>1, <1>2, <1>3, PTL DEF Spec
-----------------------------------------------------------------------------
(***************************************************************************)
(* Pipe implements BlockingFifo: initial states map to initial states, and *)
(* every step of the pipe is a step of the queue.                          *)
(***************************************************************************)
Value == Item \cup {Blank}

(* The slot of the i-th item when f is the slot of the first. *)
Slot(f, i) == (f + i - 1) % MaxSize

LEMMA SlotIs ==
    ASSUME MaxSize > 0, NEW f \in 0 .. MaxSize - 1, NEW i \in 1 .. MaxSize
    PROVE  /\ Slot(f, i) = IF f + i - 1 < MaxSize THEN f + i - 1 ELSE f + i - 1 - MaxSize
           /\ Slot(f, i) \in 0 .. MaxSize - 1
<1>1. MaxSize \in Nat /\ f \in Nat /\ i \in Nat
  BY PipeAssumption
<1>2. f + i - 1 \in Nat /\ f + i - 1 < MaxSize + MaxSize
  BY <1>1
<1>3. Slot(f, i) = IF f + i - 1 < MaxSize THEN f + i - 1 ELSE f + i - 1 - MaxSize
  BY <1>1, <1>2, PipeAssumption DEF Slot
<1> QED
  BY <1>1, <1>2, <1>3

LEMMA SlotsDiffer ==
    ASSUME MaxSize > 0, NEW f \in 0 .. MaxSize - 1,
           NEW i \in 1 .. MaxSize, NEW j \in 1 .. MaxSize, i # j
    PROVE  Slot(f, i) # Slot(f, j)
<1>1. MaxSize \in Nat
  BY PipeAssumption
<1>2. Slot(f, i) = IF f + i - 1 < MaxSize THEN f + i - 1 ELSE f + i - 1 - MaxSize
  BY SlotIs
<1>3. Slot(f, j) = IF f + j - 1 < MaxSize THEN f + j - 1 ELSE f + j - 1 - MaxSize
  BY SlotIs
<1> QED
  BY <1>1, <1>2, <1>3

(* One slot further along the ring is the next item's. *)
LEMMA SlotAfter ==
    ASSUME MaxSize > 0, NEW f \in 0 .. MaxSize - 1, NEW i \in 1 .. MaxSize - 1
    PROVE  /\ (Slot(f, i) + 1) % MaxSize = Slot(f, i + 1)
           /\ Slot((f + 1) % MaxSize, i) = Slot(f, i + 1)
<1>0. MaxSize \in Nat /\ i \in 1 .. MaxSize /\ i + 1 \in 1 .. MaxSize
  BY PipeAssumption
<1>1. /\ Slot(f, i) = IF f + i - 1 < MaxSize THEN f + i - 1 ELSE f + i - 1 - MaxSize
      /\ Slot(f, i) \in 0 .. MaxSize - 1
  BY <1>0, SlotIs
<1>2. Slot(f, i + 1) = IF f + (i + 1) - 1 < MaxSize THEN f + (i + 1) - 1
                       ELSE f + (i + 1) - 1 - MaxSize
  BY <1>0, SlotIs
<1>3. Slot(f, i) + 1 \in Nat /\ Slot(f, i) + 1 < MaxSize + MaxSize
  BY <1>0, <1>1
<1>4. (Slot(f, i) + 1) % MaxSize =
         IF Slot(f, i) + 1 < MaxSize THEN Slot(f, i) + 1 ELSE Slot(f, i) + 1 - MaxSize
  BY <1>0, <1>1, <1>3, PipeAssumption
<1>5. f + 1 \in Nat /\ f + 1 < MaxSize + MaxSize
  BY <1>0
<1>6. (f + 1) % MaxSize = IF f + 1 < MaxSize THEN f + 1 ELSE f + 1 - MaxSize
  BY <1>0, <1>5, PipeAssumption
<1>7. (f + 1) % MaxSize \in 0 .. MaxSize - 1
  BY <1>0, <1>6
<1>8. Slot((f + 1) % MaxSize, i) =
         IF ((f + 1) % MaxSize) + i - 1 < MaxSize THEN ((f + 1) % MaxSize) + i - 1
         ELSE ((f + 1) % MaxSize) + i - 1 - MaxSize
  BY <1>0, <1>7, SlotIs
<1>9. (Slot(f, i) + 1) % MaxSize = Slot(f, i + 1)
  BY <1>0, <1>1, <1>2, <1>4
<1>10. Slot((f + 1) % MaxSize, i) = Slot(f, i + 1)
  BY <1>0, <1>2, <1>6, <1>8
<1> QED
  BY <1>9, <1>10

LEMMA FunctionIsSeq ==
    ASSUME NEW S, NEW n \in Nat, NEW f \in [1 .. n -> S]
    PROVE  f \in Seq(S) /\ Len(f) = n
<1>1. f \in Seq(S)
  BY SeqDef
<1>2. DOMAIN f = 1 .. n /\ DOMAIN f = 1 .. Len(f) /\ Len(f) \in Nat
  BY <1>1, LenProperties
<1> QED
  BY <1>1, <1>2

(* The sequence that Queue is. *)
QueueOK ==
    /\ Queue \in Seq(Value)
    /\ Len(Queue) = pipe_size
    /\ \A i \in 1 .. pipe_size : Queue[i] = data[Slot(first, i)]
    /\ Queue = << >> <=> pipe_size = 0

LEMMA QueueIsSeq == StoreOK => QueueOK
<1> SUFFICES ASSUME StoreOK PROVE QueueOK
  OBVIOUS
<1>1. pipe_size \in Nat /\ pipe_size <= MaxSize /\ MaxSize \in Nat
  BY PipeAssumption DEF StoreOK
<1>2. ASSUME NEW i \in 1 .. pipe_size
      PROVE  data[Slot(first, i)] \in Value
  <2>1. i \in 1 .. MaxSize /\ pipe_size > 0 /\ MaxSize > 0
    BY <1>1
  <2>2. first \in 0 .. MaxSize - 1 /\ Slots = 0 .. MaxSize - 1
    BY <2>1 DEF StoreOK, RingIndex, Slots
  <2> QED
    BY <2>1, <2>2, SlotIs DEF StoreOK, Value
<1>3. Queue = [i \in 1 .. pipe_size |-> data[Slot(first, i)]]
  BY DEF Queue, Slot
<1>4. Queue \in [1 .. pipe_size -> Value]
  BY <1>2, <1>3
<1>5. Queue \in Seq(Value) /\ Len(Queue) = pipe_size
  BY <1>1, <1>4, FunctionIsSeq
<1>6. Queue = << >> <=> pipe_size = 0
  BY <1>5, EmptySeq
<1> QED
  BY <1>3, <1>5, <1>6 DEF QueueOK

(* last is the slot of the newest item. *)
RingOrder == pipe_size > 0 => last = Slot(first, pipe_size)

(* An item put into the slot after last joins the queue at its end. *)
LEMMA QueuePut ==
    ASSUME StoreOK, QueueOK, QueueOK', RingOrder, MaxSize > 0, pipe_size # MaxSize,
           NEW x \in Value,
           first' = IF pipe_size = 0 THEN 0 ELSE first,
           last' = NextSlot,
           data' = [data EXCEPT ![NextSlot] = x],
           pipe_size' = pipe_size + 1
    PROVE  Queue' = Append(Queue, x) /\ RingOrder'
<1>n. /\ pipe_size \in Nat /\ MaxSize \in Nat /\ pipe_size < MaxSize
      /\ pipe_size + 1 \in 1 .. MaxSize
      /\ Slots = 0 .. MaxSize - 1
  BY PipeAssumption DEF StoreOK, Slots
<1>f. /\ first' \in 0 .. MaxSize - 1
      /\ pipe_size > 0 => first' = first
  BY <1>n DEF StoreOK, RingIndex
<1>2. NextSlot = Slot(first', pipe_size + 1)
  <2>1. CASE pipe_size = 0
    <3>1. first' = 0 /\ Slot(0, 1) = 0
      BY <1>n, <2>1, SlotIs
    <3> QED
      BY <1>n, <2>1, <3>1 DEF NextSlot
  <2>2. CASE pipe_size > 0
    <3>1. first' = first /\ pipe_size \in 1 .. MaxSize - 1
      BY <1>n, <1>f, <2>2
    <3>2. (last + 1) % MaxSize = Slot(first, pipe_size + 1)
      BY <1>f, <2>2, <3>1, SlotAfter DEF RingOrder
    <3> QED
      BY <2>2, <3>1, <3>2 DEF NextSlot
  <2> QED
    BY <1>n, <2>1, <2>2
<1>3. RingOrder'
  BY <1>2 DEF RingOrder
<1>4. ASSUME NEW i \in 1 .. pipe_size
      PROVE  data'[Slot(first', i)] = data[Slot(first, i)]
  <2>1. i \in 1 .. MaxSize /\ i # pipe_size + 1 /\ pipe_size > 0
    BY <1>n
  <2>2. Slot(first', i) \in Slots /\ Slot(first', i) # Slot(first', pipe_size + 1)
    BY <1>n, <1>f, <2>1, SlotIs, SlotsDiffer
  <2> QED
    BY <1>f, <1>2, <2>1, <2>2 DEF StoreOK
<1>5. data'[Slot(first', pipe_size + 1)] = x
  <2>1. NextSlot \in Slots
    BY <1>n, <1>f, <1>2, SlotIs
  <2> QED
    BY <1>2, <2>1 DEF StoreOK
<1>7. /\ Queue' \in Seq(Value) /\ Len(Queue') = pipe_size + 1
      /\ \A i \in 1 .. pipe_size + 1 : Queue'[i] = data'[Slot(first', i)]
  BY DEF QueueOK
<1>8. /\ Append(Queue, x) \in Seq(Value)
      /\ Len(Append(Queue, x)) = pipe_size + 1
      /\ \A i \in 1 .. pipe_size : Append(Queue, x)[i] = data[Slot(first, i)]
      /\ Append(Queue, x)[pipe_size + 1] = x
  BY AppendProperties DEF QueueOK
<1>9. \A i \in 1 .. pipe_size + 1 : Queue'[i] = Append(Queue, x)[i]
  <2> SUFFICES ASSUME NEW i \in 1 .. pipe_size + 1
               PROVE  Queue'[i] = Append(Queue, x)[i]
    OBVIOUS
  <2>1. i \in 1 .. pipe_size \/ i = pipe_size + 1
    BY <1>n
  <2> QED
    BY <1>4, <1>5, <1>7, <1>8, <2>1
<1>10. Queue' = Append(Queue, x)
  BY <1>7, <1>8, <1>9, SeqEqual
<1> QED
  BY <1>3, <1>10

(* The item in first leaves, and the next one is the oldest. *)
LEMMA QueueTake ==
    ASSUME StoreOK, QueueOK, QueueOK', RingOrder, MaxSize > 0, pipe_size > 0, NEW x,
           first' = (first + 1) % MaxSize,
           data' = [data EXCEPT ![first] = x],
           pipe_size' = pipe_size - 1,
           UNCHANGED last
    PROVE  /\ Queue # << >> /\ Head(Queue) = data[first]
           /\ Queue' = Tail(Queue)
           /\ RingOrder'
<1>n. /\ pipe_size \in Nat /\ MaxSize \in Nat /\ pipe_size <= MaxSize
      /\ first \in 0 .. MaxSize - 1 /\ Slots = 0 .. MaxSize - 1
  BY PipeAssumption DEF StoreOK, RingIndex, Slots
<1>1. ASSUME NEW i \in 1 .. pipe_size - 1
      PROVE  Slot(first', i) = Slot(first, i + 1)
  <2>1. i \in 1 .. MaxSize - 1
    BY <1>n
  <2> QED
    BY <1>n, <2>1, SlotAfter
<1>2. RingOrder'
  <2> SUFFICES ASSUME pipe_size' > 0
               PROVE  last' = Slot(first', pipe_size')
    BY DEF RingOrder
  <2>1. pipe_size' \in 1 .. pipe_size - 1 /\ pipe_size' + 1 = pipe_size
    BY <1>n
  <2>2. Slot(first', pipe_size') = Slot(first, pipe_size' + 1)
    BY <1>1, <2>1
  <2> QED
    BY <2>1, <2>2 DEF RingOrder
<1>3. Slot(first, 1) = first
  BY <1>n, SlotIs
<1>4. ASSUME NEW i \in 1 .. pipe_size - 1
      PROVE  data'[Slot(first', i)] = data[Slot(first, i + 1)]
  <2>1. i + 1 \in 1 .. MaxSize /\ 1 \in 1 .. MaxSize /\ i + 1 # 1
    BY <1>n
  <2>2. Slot(first, i + 1) # first /\ Slot(first, i + 1) \in Slots
    BY <1>n, <1>3, <2>1, SlotIs, SlotsDiffer
  <2> QED
    BY <1>1, <2>2 DEF StoreOK
<1>7. /\ Queue' \in Seq(Value) /\ Len(Queue') = pipe_size - 1
      /\ \A i \in 1 .. pipe_size - 1 : Queue'[i] = data'[Slot(first', i)]
  BY DEF QueueOK
<1>8. Queue # << >> /\ Queue \in Seq(Value)
  BY DEF QueueOK
<1>9. /\ Tail(Queue) \in Seq(Value)
      /\ Len(Tail(Queue)) = pipe_size - 1
      /\ \A i \in 1 .. pipe_size - 1 : Tail(Queue)[i] = data[Slot(first, i + 1)]
  <2>1. /\ Tail(Queue) \in Seq(Value)
        /\ Len(Tail(Queue)) = pipe_size - 1
        /\ \A i \in 1 .. pipe_size - 1 : Tail(Queue)[i] = Queue[i + 1]
    BY <1>8, HeadTailProperties DEF QueueOK
  <2>2. \A i \in 1 .. pipe_size - 1 : i + 1 \in 1 .. pipe_size
    BY <1>n
  <2> QED
    BY <2>1, <2>2 DEF QueueOK
<1>10. Head(Queue) = data[first]
  <2>1. Head(Queue) = Queue[1]
    BY <1>8
  <2>2. 1 \in 1 .. pipe_size
    BY <1>n
  <2> QED
    BY <1>3, <2>1, <2>2 DEF QueueOK
<1>11. \A i \in 1 .. pipe_size - 1 : Queue'[i] = Tail(Queue)[i]
  BY <1>4, <1>7, <1>9
<1>12. Queue' = Tail(Queue)
  BY <1>7, <1>9, <1>11, SeqEqual
<1> QED
  BY <1>2, <1>8, <1>10, <1>12

-----------------------------------------------------------------------------
(* A pipe without slots has one offer at a time: first is 0 from the offer *)
(* until the offerer leaves, and last from the offer until it is taken.    *)
OneOffer ==
    /\ \A s, t \in Thread : pc[s] = "taken" /\ pc[t] = "taken" => s = t
    /\ \A t \in Thread : pc[t] = "taken" => first = 0
    /\ MaxSize = 0 /\ last = 0 => \E t \in Thread : pc[t] = "taken"

(* A thread that is in neither enqueue nor dequeue holds no item. *)
EmptyHanded ==
    \A t \in Thread : pc[t] \notin {"room", "taken", "dequeue"} => item[t] = Blank

FifoInv == CountInv /\ OneOffer /\ EmptyHanded /\ RingOrder

(* What a thread in loop v with item x is in the abstract queue. *)
CallIn(v) ==
    IF v = "taken" /\ last # 0 THEN "passed"
    ELSE IF v \in {"room", "taken", "dequeue"} THEN "in" ELSE "out"

(* A step of t that does not touch another thread's offer. *)
LEMMA ThreadMoves ==
    ASSUME ThreadOK, NEW t \in Thread, NEW v, NEW x,
           pc' = [pc EXCEPT ![t] = v],
           item' = [item EXCEPT ![t] = x],
           UNCHANGED <<last, data>> \/ \A s \in Thread \ {t} : pc[s] # "taken"
    PROVE  /\ CallState' = [CallState EXCEPT ![t] = CallIn(v)']
           /\ Hand' = [Hand EXCEPT ![t] = IF v = "taken" /\ last' = 0 THEN data'[0] ELSE x]
BY DEF ThreadOK, CallState, CallIn, Hand, Offers

(* What the thread that takes a step was before. *)
LEMMA ThreadWas ==
    ASSUME NEW t \in Thread
    PROVE  /\ CallState[t] = CallIn(pc[t])
           /\ Hand[t] = IF pc[t] = "taken" /\ last = 0 THEN data[0] ELSE item[t]
           /\ [CallState EXCEPT ![t] = CallState[t]] = CallState
           /\ [Hand EXCEPT ![t] = Hand[t]] = Hand
BY DEF CallState, CallIn, Hand, Offers

LEMMA QueueStutter == UNCHANGED <<pipe_size, data, first>> => UNCHANGED Queue
BY DEF Queue

LEMMA NoSlotsNoQueue ==
    ASSUME StoreOK, StoreOK', MaxSize = 0
    PROVE  UNCHANGED Queue
<1>1. pipe_size = 0 /\ pipe_size' = 0
  BY DEF StoreOK
<1>2. Queue = << >>
  BY <1>1, QueueIsSeq DEF QueueOK
<1>3. Queue' = << >>
  <2>1. QueueOK'
    BY QueueIsSeq, PTL
  <2> QED
    BY <1>1, <2>1 DEF QueueOK
<1> QED
  BY <1>2, <1>3

(* The invariant of the offer, of hands and of ring order. *)
LEMMA OfferStep ==
    ASSUME ThreadOK, OneOffer, NEW t \in Thread, NEW v,
           pc' = [pc EXCEPT ![t] = v], v # "taken", pc[t] # "taken",
           UNCHANGED <<first, last>>
    PROVE  OneOffer'
BY DEF OneOffer, ThreadOK

LEMMA HandStep ==
    ASSUME ThreadOK, EmptyHanded, NEW t \in Thread, NEW v, NEW x,
           pc' = [pc EXCEPT ![t] = v],
           item' = [item EXCEPT ![t] = x],
           v \notin {"room", "taken", "dequeue"} => x = Blank
    PROVE  EmptyHanded'
BY DEF EmptyHanded, ThreadOK

-----------------------------------------------------------------------------
(* Steps that the abstract queue does not see, and calls that have to wait. *)
LEMMA WaitsOn ==
    ASSUME StoreOK, ThreadOK, OneOffer, EmptyHanded, NEW t \in Thread,
           NEW v \in {"room", "dequeue"}, NEW x \in Value,
           pc[t] = "idle" \/ (pc[t] = v /\ x = item[t]),
           pc' = [pc EXCEPT ![t] = v],
           item' = [item EXCEPT ![t] = x],
           returned' = {}, UNCHANGED ring
    PROVE  Fifo!Next /\ OneOffer' /\ EmptyHanded'
<1>1. /\ CallState' = [CallState EXCEPT ![t] = "in"]
      /\ Hand' = [Hand EXCEPT ![t] = x]
  <2>1. CallIn(v)' = "in"
    BY DEF CallIn
  <2>2. UNCHANGED <<last, data>> /\ v # "taken"
    BY DEF ring
  <2>3. /\ CallState' = [CallState EXCEPT ![t] = CallIn(v)']
        /\ Hand' = [Hand EXCEPT ![t] = IF v = "taken" /\ last' = 0 THEN data'[0] ELSE x]
    BY <2>2, ThreadMoves
  <2> QED
    BY <2>1, <2>2, <2>3
<1>2. UNCHANGED Queue
  BY QueueStutter DEF ring
<1>3. OneOffer' /\ EmptyHanded'
  BY OfferStep, HandStep DEF ring
<1>4. CASE pc[t] = "idle"
  <2>1. CallState[t] = "out"
    BY <1>4, ThreadWas DEF CallIn
  <2>2. Fifo!Enter(t, x)
    BY <1>1, <1>2, <2>1 DEF Fifo!Enter
  <2> QED
    BY <1>3, <2>2 DEF Fifo!Next, Fifo!Value, Value
<1>5. CASE pc[t] = v /\ x = item[t]
  <2>1. CallState[t] = "in" /\ Hand[t] = x
    BY <1>5, ThreadWas DEF CallIn
  <2>2. CallState' = CallState /\ Hand' = Hand
    BY <1>1, <2>1, ThreadWas
  <2>3. Fifo!Quiet
    BY <1>2, <2>2 DEF Fifo!Quiet
  <2> QED
    BY <1>3, <2>3 DEF Fifo!Next
<1> QED
  BY <1>4, <1>5

LEMMA FailsQuietly ==
    ASSUME StoreOK, ThreadOK, OneOffer, EmptyHanded, NEW t \in Thread,
           NEW at \in {"room", "dequeue"}, NEW x \in Value, NEW w,
           NEW op \in {"enqueue", "dequeue"},
           pc[t] = "idle" \/ (pc[t] = at /\ x = item[t]),
           ReturnsWith(t, w, op, FALSE, x), UNCHANGED ring
    PROVE  Fifo!Next /\ OneOffer' /\ EmptyHanded'
<1>0. /\ pc' = [pc EXCEPT ![t] = "idle"]
      /\ item' = [item EXCEPT ![t] = Blank]
      /\ returned' = {[by |-> t, op |-> op, result |-> FALSE, item |-> x]}
  BY DEF ReturnsWith, Leaves
<1>1. /\ CallState' = [CallState EXCEPT ![t] = "out"]
      /\ Hand' = [Hand EXCEPT ![t] = Blank]
  <2>1. CallIn("idle")' = "out"
    BY DEF CallIn
  <2> QED
    BY <1>0, <2>1, ThreadMoves DEF ring
<1>2. UNCHANGED Queue
  BY QueueStutter DEF ring
<1>3. OneOffer' /\ EmptyHanded'
  BY <1>0, OfferStep, HandStep DEF ring
<1>4. CallState[t] # "passed" /\ (CallState[t] = "in" => x = Hand[t])
  BY ThreadWas DEF CallIn
<1>5. Fifo!Fail(t, op, x)
  BY <1>0, <1>1, <1>2, <1>4 DEF Fifo!Fail, Fifo!Returns, Fifo!CameWith
<1> QED
  BY <1>3, <1>5 DEF Fifo!Next, Fifo!Value, Value

LEMMA RingStutter == RingOrder /\ UNCHANGED ring => RingOrder'
BY DEF RingOrder, Slot, ring

Steps == Fifo!Next /\ OneOffer' /\ EmptyHanded' /\ RingOrder'

LEMMA EnqueueRefines ==
    ASSUME StoreOK, StoreOK', ThreadOK, OneOffer, EmptyHanded, RingOrder,
           NEW t \in Thread, NEW ew, NEW x \in Value, NEW p, NEW timed_out,
           pc[t] = "idle" \/ (pc[t] = "room" /\ x = item[t]),
           p \in {"forever", "some", "none"},
           EnqueueBody(t, ew, x, p, timed_out)
    PROVE  Steps
<1>1. CASE Parks(t, "room", wait) /\ item' = [item EXCEPT ![t] = x] /\ UNCHANGED ring
  BY <1>1, WaitsOn, RingStutter DEF Parks, Steps
<1>2. CASE EnqueueFails(t, ew, x)
  <2>1. UNCHANGED ring /\ ReturnsWith(t, Broadcast(wait, UnblockSig), "enqueue", FALSE, x)
    BY <1>2 DEF EnqueueFails
  <2> QED
    BY <2>1, FailsQuietly, RingStutter DEF Steps
<1>3. CASE ~ RoomWait(p) /\ enabled /\ enqueue_enabled /\ EnqueueAccepts(t, ew, x, p)
  <2>1. PICK w \in SignalledIf(dequeue_waiters > 0, wait, DequeueSig) :
          \/ /\ MaxSize > 0
             /\ pipe_size' = pipe_size + 1
             /\ enqueue_waiters' = ew - 1
             /\ ReturnsWith(t, w, "enqueue", TRUE, data[NextSlot])
          \/ /\ MaxSize = 0
             /\ enqueue_waiters' = ew
             /\ item' = [item EXCEPT ![t] = data[NextSlot]]
             /\ patience' = [patience EXCEPT ![t] = p]
             /\ Parks(t, "taken", w)
             /\ UNCHANGED <<pipe_size, num>>
    BY <1>3 DEF EnqueueAccepts
  <2>2. /\ first' = IF pipe_size = 0 THEN 0 ELSE first
        /\ last' = NextSlot
        /\ data' = [data EXCEPT ![NextSlot] = x]
    BY <1>3 DEF EnqueueAccepts
  <2>s. NextSlot \in Slots
    BY ModSlot, PipeAssumption DEF NextSlot, Slots, StoreOK, RingIndex
  <2>d. data[NextSlot] \in Value
    BY <2>s DEF StoreOK, Value
  <2>3. CASE MaxSize > 0
    <3>0. MaxSize # 0
      BY <2>3
    <3>1. /\ pipe_size' = pipe_size + 1
          /\ pc' = [pc EXCEPT ![t] = "idle"]
          /\ item' = [item EXCEPT ![t] = Blank]
          /\ returned' = {[by |-> t, op |-> "enqueue", result |-> TRUE,
                           item |-> data[NextSlot]]}
      BY <2>1, <3>0 DEF ReturnsWith, Leaves
    <3>2. pipe_size # MaxSize
      BY <1>3, <3>0 DEF RoomWait
    <3>3. QueueOK /\ QueueOK'
      BY QueueIsSeq, PTL
    <3>4. Queue' = Append(Queue, x) /\ RingOrder'
      BY <2>2, <2>3, <3>1, <3>2, <3>3, QueuePut
    <3>5. \A s \in Thread : pc[s] # "taken"
      BY <3>0 DEF ThreadOK, TakenLoop
    <3>6. OneOffer' /\ EmptyHanded'
      BY <3>0, <3>1, <3>5, HandStep DEF OneOffer, ThreadOK
    <3>7. /\ CallState' = [CallState EXCEPT ![t] = "out"]
          /\ Hand' = [Hand EXCEPT ![t] = Blank]
      <4>1. CallIn("idle")' = "out"
        BY DEF CallIn
      <4>2. \A s \in Thread \ {t} : pc[s] # "taken"
        BY <3>5
      <4>3. /\ CallState' = [CallState EXCEPT ![t] = CallIn("idle")']
            /\ Hand' = [Hand EXCEPT ![t] = IF "idle" = "taken" /\ last' = 0
                                          THEN data'[0] ELSE Blank]
        BY <3>1, <4>2, ThreadMoves
      <4> QED
        BY <4>1, <4>3
    <3>8. CallState[t] # "passed" /\ (CallState[t] = "in" => x = Hand[t])
      BY ThreadWas DEF CallIn
    <3>9. Len(Queue) < MaxSize
      BY <3>2, <3>3, PipeAssumption DEF QueueOK, StoreOK
    <3>10. Fifo!Put(t, x, data[NextSlot])
      BY <3>1, <3>4, <3>7, <3>8, <3>9 DEF Fifo!Put, Fifo!Returns, Fifo!CameWith
    <3> QED
      BY <2>d, <3>4, <3>6, <3>10 DEF Fifo!Next, Fifo!Value, Value, Steps
  <2>4. CASE MaxSize = 0
    <3>1. /\ UNCHANGED pipe_size
          /\ pc' = [pc EXCEPT ![t] = "taken"]
          /\ item' = [item EXCEPT ![t] = data[NextSlot]]
          /\ returned' = {}
      BY <2>1, <2>4 DEF Parks
    <3>2. pipe_size = 0
      BY <2>4 DEF StoreOK
    <3>3. first = 1 /\ NextSlot = 0 /\ first' = 0 /\ last' = 0 /\ 0 \in Slots
      BY <1>3, <2>2, <2>4, <2>s, <3>2 DEF RoomWait, NextSlot
    <3>4. \A s \in Thread : pc[s] # "taken"
      BY <3>3 DEF OneOffer
    <3>5. data'[0] = x
      BY <2>2, <3>3 DEF StoreOK
    <3>6. OneOffer'
      BY <3>1, <3>3, <3>4 DEF OneOffer, ThreadOK
    <3>7. EmptyHanded'
      BY <3>1, HandStep
    <3>8. RingOrder'
      BY <3>1, <3>2 DEF RingOrder
    <3>9. UNCHANGED Queue
      BY <2>4, NoSlotsNoQueue
    <3>10. /\ CallState' = [CallState EXCEPT ![t] = "in"]
           /\ Hand' = [Hand EXCEPT ![t] = x]
      <4>1. CallIn("taken")' = "in"
        BY <3>3 DEF CallIn
      <4> QED
        BY <3>1, <3>3, <3>4, <3>5, <4>1, ThreadMoves
    <3>11. CASE pc[t] = "idle"
      <4>1. CallState[t] = "out"
        BY <3>11, ThreadWas DEF CallIn
      <4>2. Fifo!Enter(t, x)
        BY <3>1, <3>9, <3>10, <4>1 DEF Fifo!Enter
      <4> QED
        BY <3>6, <3>7, <3>8, <4>2 DEF Fifo!Next, Fifo!Value, Value, Steps
    <3>12. CASE pc[t] = "room" /\ x = item[t]
      <4>1. CallState[t] = "in" /\ Hand[t] = x
        BY <3>12, ThreadWas DEF CallIn
      <4>2. CallState' = CallState /\ Hand' = Hand
        BY <3>10, <4>1, ThreadWas
      <4>3. Fifo!Quiet
        BY <3>1, <3>9, <4>2 DEF Fifo!Quiet
      <4> QED
        BY <3>6, <3>7, <3>8, <4>3 DEF Fifo!Next, Steps
    <3> QED
      BY <3>11, <3>12
  <2> QED
    BY <2>3, <2>4, PipeAssumption
<1> QED
  BY <1>1, <1>2, <1>3 DEF EnqueueBody

LEMMA TakenRefines ==
    ASSUME StoreOK, StoreOK', ThreadOK, OneOffer, EmptyHanded, RingOrder,
           NEW t \in Thread, EnqueueTakenResumes(t)
    PROVE  Steps
<1>p. pc[t] = "taken" /\ MaxSize = 0 /\ pipe_size = 0 /\ pipe_size' = 0 /\ Slots = {0}
  BY DEF EnqueueTakenResumes, Wakes, ThreadOK, TakenLoop, StoreOK, Slots
<1>q. UNCHANGED Queue
  BY <1>p, NoSlotsNoQueue
<1>r. RingOrder'
  BY <1>p DEF RingOrder
<1>o. \A s \in Thread \ {t} : pc[s] # "taken"
  BY <1>p DEF OneOffer
<1>1. CASE TakenReparks(t)
  <2>1. pc' = [pc EXCEPT ![t] = pc[t]] /\ UNCHANGED <<item, ring>> /\ returned' = {}
    BY <1>1, <1>p DEF TakenReparks, Parks
  <2>2. pc' = pc
    BY <2>1 DEF ThreadOK
  <2>3. OneOffer' /\ EmptyHanded'
    BY <2>1, <2>2 DEF OneOffer, EmptyHanded, ring
  <2>4. UNCHANGED <<CallState, Hand>>
    BY <2>1, <2>2 DEF CallState, Hand, Offers, ring
  <2>5. Fifo!Quiet
    BY <1>q, <2>1, <2>4 DEF Fifo!Quiet
  <2> QED
    BY <1>r, <2>3, <2>5 DEF Fifo!Next, Steps
<1>2. ASSUME NEW w, NEW r, NEW y, ReturnsWith(t, w, "enqueue", r, y), last' = 1, first' = 1
      PROVE  /\ CallState' = [CallState EXCEPT ![t] = "out"]
             /\ Hand' = [Hand EXCEPT ![t] = Blank]
             /\ returned' = {[by |-> t, op |-> "enqueue", result |-> r, item |-> y]}
             /\ OneOffer' /\ EmptyHanded'
  <2>1. /\ pc' = [pc EXCEPT ![t] = "idle"]
        /\ item' = [item EXCEPT ![t] = Blank]
        /\ returned' = {[by |-> t, op |-> "enqueue", result |-> r, item |-> y]}
    BY <1>2 DEF ReturnsWith, Leaves
  <2>2. CallIn("idle")' = "out"
    BY DEF CallIn
  <2>3. /\ CallState' = [CallState EXCEPT ![t] = "out"]
        /\ Hand' = [Hand EXCEPT ![t] = Blank]
    <3>1. /\ CallState' = [CallState EXCEPT ![t] = CallIn("idle")']
          /\ Hand' = [Hand EXCEPT ![t] = IF "idle" = "taken" /\ last' = 0
                                        THEN data'[0] ELSE Blank]
      BY <1>o, <2>1, ThreadMoves
    <3> QED
      BY <2>2, <3>1
  <2>4. EmptyHanded'
    BY <2>1, HandStep
  <2>5. OneOffer'
    BY <1>2, <1>o, <2>1 DEF OneOffer, ThreadOK
  <2> QED
    BY <2>1, <2>3, <2>4, <2>5
<1>3. CASE OfferWithdrawn(t)
  <2>1. /\ last = 0 /\ last' = 1 /\ first' = 1
        /\ ReturnsWith(t, BroadcastIf(unblock_sig_waiters > 0, wait, UnblockSig),
                       "enqueue", FALSE, data[0])
    BY <1>3 DEF OfferWithdrawn
  <2>2. CallState[t] = "in" /\ Hand[t] = data[0]
    BY <1>p, <2>1, ThreadWas DEF CallIn
  <2>3. data[0] \in Value
    BY <1>p DEF StoreOK, Value
  <2>4. Fifo!Fail(t, "enqueue", data[0])
    BY <1>2, <1>q, <2>1, <2>2 DEF Fifo!Fail, Fifo!Returns, Fifo!CameWith
  <2> QED
    BY <1>2, <1>r, <2>1, <2>3, <2>4 DEF Fifo!Next, Fifo!Value, Value, Steps
<1>4. CASE OfferTaken(t)
  <2>1. PICK w : /\ last # 0 /\ last' = 1 /\ first' = 1
                 /\ ReturnsWith(t, w, "enqueue", TRUE, item[t])
    BY <1>4 DEF OfferTaken
  <2>2. CallState[t] = "passed" /\ Hand[t] = item[t]
    BY <1>p, <2>1, ThreadWas DEF CallIn
  <2>3. Fifo!Passed(t)
    BY <1>2, <1>q, <2>1, <2>2 DEF Fifo!Passed, Fifo!Returns
  <2> QED
    BY <1>2, <1>r, <2>1, <2>3 DEF Fifo!Next, Steps
<1> QED
  BY <1>1, <1>3, <1>4 DEF EnqueueTakenResumes

-----------------------------------------------------------------------------
LEMMA DequeueRefines ==
    ASSUME StoreOK, StoreOK', ThreadOK, OneOffer, EmptyHanded, RingOrder,
           NEW t \in Thread, NEW dw, NEW w, NEW x \in Value, NEW p,
           NEW timed_out \in BOOLEAN,
           pc[t] = "idle" \/ (pc[t] = "dequeue" /\ x = item[t]),
           DequeueBody(t, dw, w, x, p, timed_out)
    PROVE  Steps
<1>1. CASE Parks(t, "dequeue", w) /\ item' = [item EXCEPT ![t] = x] /\ UNCHANGED ring
  BY <1>1, WaitsOn, RingStutter DEF Parks, Steps
<1>2. CASE DequeueFails(t, dw, w, x)
  <2>1. UNCHANGED ring /\ ReturnsWith(t, Broadcast(w, UnblockSig), "dequeue", FALSE, x)
    BY <1>2 DEF DequeueFails
  <2> QED
    BY <2>1, FailsQuietly, RingStutter DEF Steps
<1>3. CASE ~ ItemWait /\ enabled /\ dequeue_enabled /\ DequeueTakes(t, dw, w, x)
  <2>1. /\ data' = [data EXCEPT ![first] = x]
        /\ pc' = [pc EXCEPT ![t] = "idle"]
        /\ item' = [item EXCEPT ![t] = Blank]
        /\ returned' = {[by |-> t, op |-> "dequeue", result |-> TRUE,
                         item |-> data[first]]}
    BY <1>3 DEF DequeueTakes, ReturnsWith, Leaves
  <2>e. EmptyHanded'
    BY <2>1, HandStep
  <2>p. CallState[t] # "passed"
    BY ThreadWas DEF CallIn
  <2>2. CASE MaxSize > 0
    <3>1. /\ first' = (first + 1) % MaxSize
          /\ pipe_size' = pipe_size - 1
          /\ UNCHANGED last
      BY <1>3, <2>2 DEF DequeueTakes
    <3>2. pipe_size > 0
      BY <1>3, <2>2 DEF ItemWait, StoreOK
    <3>3. QueueOK /\ QueueOK'
      BY QueueIsSeq, PTL
    <3>4. /\ Queue # << >> /\ Head(Queue) = data[first]
          /\ Queue' = Tail(Queue)
          /\ RingOrder'
      BY <2>1, <2>2, <3>1, <3>2, <3>3, QueueTake
    <3>5. \A s \in Thread : pc[s] # "taken"
      BY <2>2 DEF ThreadOK, TakenLoop
    <3>6. OneOffer'
      BY <2>1, <2>2, <3>5 DEF OneOffer, ThreadOK
    <3>7. /\ CallState' = [CallState EXCEPT ![t] = "out"]
          /\ Hand' = [Hand EXCEPT ![t] = Blank]
      <4>1. CallIn("idle")' = "out"
        BY DEF CallIn
      <4>2. \A s \in Thread \ {t} : pc[s] # "taken"
        BY <3>5
      <4>3. /\ CallState' = [CallState EXCEPT ![t] = CallIn("idle")']
            /\ Hand' = [Hand EXCEPT ![t] = IF "idle" = "taken" /\ last' = 0
                                          THEN data'[0] ELSE Blank]
        BY <2>1, <4>2, ThreadMoves
      <4> QED
        BY <4>1, <4>3
    <3>8. Fifo!Take(t)
      BY <2>1, <2>p, <3>4, <3>7 DEF Fifo!Take, Fifo!Returns
    <3> QED
      BY <2>e, <3>4, <3>6, <3>8 DEF Fifo!Next, Steps
  <2>3. CASE MaxSize = 0
    <3>1. /\ last' = 1
          /\ UNCHANGED <<first, pipe_size>>
          /\ pipe_size = 0 /\ Slots = {0}
      BY <1>3, <2>3 DEF DequeueTakes, StoreOK, Slots
    <3>2. first = 0 /\ last = 0
      BY <1>3, <2>3, <3>1 DEF ItemWait
    <3>3. PICK s \in Thread : pc[s] = "taken"
      BY <2>3, <3>2 DEF OneOffer
    <3>4. s # t /\ \A r \in Thread \ {s} : pc[r] # "taken"
      BY <3>3 DEF OneOffer
    <3>5. /\ CallState[s] = "in" /\ Hand[s] = data[0]
      BY <3>2, <3>3, ThreadWas DEF CallIn
    <3>6. CallState' = [CallState EXCEPT ![s] = "passed", ![t] = "out"]
      <4>1. ASSUME NEW r \in Thread
            PROVE  CallState'[r] = IF r = t THEN "out" ELSE IF r = s THEN "passed"
                                   ELSE CallState[r]
        <5>1. CASE r = t
          BY <2>1, <5>1 DEF CallState, ThreadOK
        <5>2. CASE r = s
          BY <2>1, <3>1, <3>3, <3>4, <5>2 DEF CallState, ThreadOK
        <5>3. CASE r # s /\ r # t
          BY <2>1, <3>4, <5>3 DEF CallState, ThreadOK
        <5> QED
          BY <3>4, <5>1, <5>2, <5>3
      <4> QED
        BY <3>4, <4>1 DEF CallState
    <3>7. Hand' = [Hand EXCEPT ![s] = item[s], ![t] = Blank]
      <4>1. ASSUME NEW r \in Thread
            PROVE  Hand'[r] = IF r = t THEN Blank ELSE IF r = s THEN item[s] ELSE Hand[r]
        <5>1. Hand'[r] = item'[r]
          BY <3>1 DEF Hand, Offers
        <5>2. r # s => Hand[r] = item[r]
          BY <3>4 DEF Hand, Offers
        <5> QED
          BY <2>1, <3>4, <5>1, <5>2 DEF ThreadOK
      <4> QED
        BY <3>4, <4>1 DEF Hand
    <3>8. UNCHANGED Queue
      BY <2>3, NoSlotsNoQueue
    <3>9. Fifo!HandOver(s, t, item[s])
      BY <2>1, <2>p, <3>2, <3>4, <3>5, <3>6, <3>7, <3>8 DEF Fifo!HandOver
    <3>10. item[s] \in Value
      BY DEF ThreadOK, Value
    <3>11. OneOffer'
      BY <2>1, <3>1, <3>2, <3>4 DEF OneOffer, ThreadOK
    <3>12. RingOrder'
      BY <3>1 DEF RingOrder
    <3>13. Fifo!Next
      BY <2>3, <3>9, <3>10 DEF Fifo!Next, Fifo!Value, Value
    <3> QED
      BY <2>e, <3>11, <3>12, <3>13 DEF Steps
  <2> QED
    BY <2>2, <2>3, PipeAssumption
<1> QED
  BY <1>1, <1>2, <1>3 DEF DequeueBody

(* A step of a thread that is, and stays, outside enqueue and dequeue. *)
LEMMA OutsiderRefines ==
    ASSUME ThreadOK, OneOffer, EmptyHanded, RingOrder,
           NEW t \in Thread, NEW v, NEW x,
           pc[t] \notin {"room", "taken", "dequeue"},
           v \notin {"room", "taken", "dequeue"},
           pc' = [pc EXCEPT ![t] = v],
           item' = [item EXCEPT ![t] = x], x \in {Blank, item[t]},
           returned' = {}, UNCHANGED ring
    PROVE  Steps
<1>1. item[t] = Blank /\ x = Blank /\ v # "taken" /\ pc[t] # "taken"
  BY DEF EmptyHanded
<1>2. /\ CallState' = [CallState EXCEPT ![t] = "out"]
      /\ Hand' = [Hand EXCEPT ![t] = Blank]
  <2>1. CallIn(v)' = "out"
    BY DEF CallIn
  <2>2. UNCHANGED <<last, data>>
    BY DEF ring
  <2>3. /\ CallState' = [CallState EXCEPT ![t] = CallIn(v)']
        /\ Hand' = [Hand EXCEPT ![t] = IF v = "taken" /\ last' = 0 THEN data'[0] ELSE x]
    BY <2>2, ThreadMoves
  <2> QED
    BY <1>1, <2>1, <2>3
<1>3. CallState[t] = "out" /\ Hand[t] = Blank
  BY <1>1, ThreadWas DEF CallIn
<1>4. UNCHANGED <<CallState, Hand>>
  BY <1>2, <1>3, ThreadWas
<1>5. UNCHANGED Queue
  BY QueueStutter DEF ring
<1>6. Fifo!Quiet
  BY <1>4, <1>5 DEF Fifo!Quiet
<1>7. OneOffer' /\ EmptyHanded'
  BY <1>1, OfferStep, HandStep DEF ring
<1> QED
  BY <1>6, <1>7, RingStutter DEF Steps, Fifo!Next

(* A step that leaves every call where it is. *)
LEMMA CallsStay ==
    ASSUME ThreadOK, OneOffer, EmptyHanded,
           UNCHANGED <<pc, item, first, last, data>>
    PROVE  UNCHANGED <<CallState, Hand>> /\ OneOffer' /\ EmptyHanded'
BY DEF CallState, Hand, Offers, OneOffer, EmptyHanded

LEMMA StandstillRefines ==
    ASSUME ThreadOK, OneOffer, EmptyHanded, RingOrder,
           UNCHANGED <<pc, item, ring>>, returned' = {}
    PROVE  Steps
<1>1. UNCHANGED <<CallState, Hand>> /\ OneOffer' /\ EmptyHanded'
  BY CallsStay DEF ring
<1>2. UNCHANGED Queue
  BY QueueStutter DEF ring
<1>3. Fifo!Quiet
  BY <1>1, <1>2 DEF Fifo!Quiet
<1> QED
  BY <1>1, <1>3, RingStutter DEF Steps, Fifo!Next

LEMMA ObserverRefines ==
    ASSUME ThreadOK, OneOffer, EmptyHanded, RingOrder, NEW t \in Thread,
           \/ wait_until_empty(t) \/ UntilEmptyResumes(t)
           \/ wait_for_num_blocked_dequeues(t) \/ NumBlockedResumes(t)
           \/ destroy(t) \/ DestructResumes(t)
    PROVE  Steps
<1>1. pc[t] \notin {"room", "taken", "dequeue"}
  BY DEF wait_until_empty, UntilEmptyResumes, wait_for_num_blocked_dequeues,
         NumBlockedResumes, destroy, DestructResumes, Calls, Wakes
<1>2. UNCHANGED ring /\ returned' = {}
  BY DEF wait_until_empty, UntilEmptyResumes, wait_for_num_blocked_dequeues,
         NumBlockedResumes, destroy, DestructResumes, UntilEmptyBody, NumBlockedBody,
         DestructBody, Parks, Returns, UntilEmptyReturns, NumBlockedReturns
<1>3. PICK v \in {"until_empty", "num_blocked", "destruct", "idle"} :
          /\ pc' = [pc EXCEPT ![t] = v]
          /\ item' = item \/ item' = [item EXCEPT ![t] = Blank]
  BY DEF wait_until_empty, UntilEmptyResumes, wait_for_num_blocked_dequeues,
         NumBlockedResumes, destroy, DestructResumes, UntilEmptyBody, NumBlockedBody,
         DestructBody, Parks, Returns, Leaves, UntilEmptyReturns, NumBlockedReturns
<1>4. item = [item EXCEPT ![t] = item[t]]
  BY DEF ThreadOK
<1>5. v \notin {"room", "taken", "dequeue"}
  BY <1>3
<1>6. CASE item' = item
  BY <1>1, <1>2, <1>3, <1>4, <1>5, <1>6, OutsiderRefines
<1>7. CASE item' = [item EXCEPT ![t] = Blank]
  BY <1>1, <1>2, <1>3, <1>5, <1>7, OutsiderRefines
<1> QED
  BY <1>3, <1>6, <1>7

LEMMA EmptyRefines ==
    ASSUME StoreOK, StoreOK', ThreadOK, OneOffer, EmptyHanded, NEW t \in Thread, empty(t)
    PROVE  Steps
<1>1. pipe_size' = 0 /\ returned' = {} /\ UNCHANGED <<pc, item, first, last, data>>
  BY DEF empty
<1>2. UNCHANGED <<CallState, Hand>> /\ OneOffer' /\ EmptyHanded'
  BY <1>1, CallsStay
<1>3. QueueOK'
  BY QueueIsSeq, PTL
<1>4. Queue' = << >>
  BY <1>1, <1>3 DEF QueueOK
<1>5. Fifo!Clear
  BY <1>1, <1>2, <1>4 DEF Fifo!Clear
<1>6. RingOrder'
  BY <1>1 DEF RingOrder
<1> QED
  BY <1>2, <1>5, <1>6 DEF Steps, Fifo!Next

-----------------------------------------------------------------------------
LEMMA FifoInit == Init => FifoInv /\ Fifo!Init
<1> SUFFICES ASSUME Init PROVE FifoInv /\ Fifo!Init
  OBVIOUS
<1>1. CountInv
  BY CountInvInit
<1>2. StoreOK
  BY <1>1, CountInvParts
<1>3. OneOffer /\ EmptyHanded
  BY DEF Init, OneOffer, EmptyHanded
<1>4. RingOrder
  BY DEF Init, RingOrder
<1>5. Queue = << >>
  BY <1>2, QueueIsSeq DEF QueueOK, Init
<1>6. CallState = [t \in Thread |-> "out"] /\ Hand = [t \in Thread |-> Blank]
  BY DEF Init, CallState, Hand, Offers
<1>7. Fifo!Init
  BY <1>5, <1>6 DEF Fifo!Init, Init
<1> QED
  BY <1>1, <1>3, <1>4, <1>7 DEF FifoInv

LEMMA FifoNext == FifoInv /\ [Next]_vars => [Fifo!Next]_(Fifo!vars) /\ FifoInv'
<1> SUFFICES ASSUME FifoInv, [Next]_vars
             PROVE  [Fifo!Next]_(Fifo!vars) /\ FifoInv'
  OBVIOUS
<1>0. /\ CountInv /\ CountInv'
      /\ OneOffer /\ EmptyHanded /\ RingOrder
  BY CountInvNext DEF FifoInv
<1>1. StoreOK /\ ThreadOK
  BY <1>0, CountInvParts
<1>2. StoreOK'
  BY <1>0, CountInvParts, PTL
<1>v. Blank \in Value /\ Item \subseteq Value /\ \A t \in Thread : item[t] \in Value
  BY <1>1 DEF Value, ThreadOK
<1>s. Steps => [Fifo!Next]_(Fifo!vars) /\ FifoInv'
  BY <1>0 DEF Steps, FifoInv
<1>3. CASE UNCHANGED vars
  <2>1. UNCHANGED <<CallState, Hand>> /\ OneOffer' /\ EmptyHanded'
    BY <1>0, <1>1, <1>3, CallsStay DEF vars, ring, thread
  <2>2. UNCHANGED Queue
    BY <1>3, QueueStutter DEF vars, ring
  <2>3. RingOrder'
    BY <1>0, <1>3, RingStutter DEF vars
  <2>4. UNCHANGED Fifo!vars
    BY <1>3, <2>1, <2>2 DEF Fifo!vars, vars
  <2> QED
    BY <1>0, <2>1, <2>3, <2>4 DEF FifoInv
<1>4. ASSUME NEW t \in Thread, Call(t)
      PROVE  Steps
  <2>1. CASE enqueue(t) \/ enqueue_or_timeout(t)
    <3>1. PICK x \in Item, p \in {"forever", "some", "none"} :
             EnqueueBody(t, enqueue_waiters + 1, x, p, FALSE)
      BY <2>1 DEF enqueue, enqueue_or_timeout
    <3>2. x \in Value /\ pc[t] = "idle"
      BY <1>v, <2>1 DEF enqueue, enqueue_or_timeout, Calls
    <3> QED
      BY <1>0, <1>1, <1>2, <3>1, <3>2, EnqueueRefines
  <2>2. CASE dequeue(t) \/ dequeue_or_timeout(t)
    <3>1. PICK p \in {"forever", "some", "none"} :
             DequeueBody(t, dequeue_waiters + 1, DequeueAnnounced, Blank, p, FALSE)
      BY <2>2 DEF dequeue, dequeue_or_timeout
    <3>2. pc[t] = "idle"
      BY <2>2 DEF dequeue, dequeue_or_timeout, Calls
    <3> QED
      BY <1>0, <1>1, <1>2, <1>v, <3>1, <3>2, DequeueRefines
  <2>3. CASE \/ wait_until_empty(t) \/ wait_for_num_blocked_dequeues(t) \/ destroy(t)
    BY <1>0, <1>1, <2>3, ObserverRefines
  <2>4. CASE empty(t)
    BY <1>0, <1>1, <1>2, <2>4, EmptyRefines
  <2>5. CASE \/ enable(t) \/ disable(t) \/ enable_enqueue(t) \/ disable_enqueue(t)
             \/ enable_dequeue(t) \/ disable_dequeue(t)
    <3>1. UNCHANGED <<pc, item, ring>> /\ returned' = {}
      BY <2>5 DEF enable, disable, enable_enqueue, disable_enqueue, enable_dequeue,
                  disable_dequeue, thread
    <3> QED
      BY <1>0, <1>1, <3>1, StandstillRefines
  <2> QED
    BY <1>4, <2>1, <2>2, <2>3, <2>4, <2>5 DEF Call
<1>5. ASSUME NEW t \in Thread, Resumes(t)
      PROVE  Steps
  <2>1. CASE EnqueueRoomResumes(t)
    <3>1. /\ pc[t] = "room" /\ item[t] \in Value
          /\ patience[t] \in {"forever", "some", "none"}
          /\ EnqueueBody(t, enqueue_waiters, item[t], patience[t], wait[t] = "timedout")
      BY <1>1, <1>v, <2>1 DEF EnqueueRoomResumes, Wakes, ThreadOK
    <3> QED
      BY <1>0, <1>1, <1>2, <3>1, EnqueueRefines
  <2>2. CASE EnqueueTakenResumes(t)
    BY <1>0, <1>1, <1>2, <2>2, TakenRefines
  <2>3. CASE DequeueResumes(t)
    <3>1. /\ pc[t] = "dequeue" /\ item[t] \in Value
          /\ (wait[t] = "timedout") \in BOOLEAN
          /\ DequeueBody(t, dequeue_waiters, wait, item[t], patience[t],
                         wait[t] = "timedout")
      BY <1>v, <2>3 DEF DequeueResumes, Wakes
    <3> QED
      BY <1>0, <1>1, <1>2, <3>1, DequeueRefines
  <2>4. CASE UntilEmptyResumes(t) \/ NumBlockedResumes(t) \/ DestructResumes(t)
    BY <1>0, <1>1, <2>4, ObserverRefines
  <2> QED
    BY <1>5, <2>1, <2>2, <2>3, <2>4 DEF Resumes
<1>6. ASSUME NEW t \in Thread, TimeOut(t) \/ SpuriousWakeUp(t)
      PROVE  Steps
  <2>1. UNCHANGED <<pc, item, ring>> /\ returned' = {}
    BY <1>6 DEF TimeOut, SpuriousWakeUp
  <2> QED
    BY <1>0, <1>1, <2>1, StandstillRefines
<1> QED
  BY <1>s, <1>3, <1>4, <1>5, <1>6 DEF Next

(* The pipe is a blocking first in, first out queue of at most MaxSize     *)
(* items, and a rendezvous without slots, for every number of threads,     *)
(* every size and every set of items: what the ring, the resets of first   *)
(* and last and the swaps do amounts to one atomic effect per call.        *)
THEOREM PipeRefinesFifo == Spec => RefinesFifo
<1>1. Init => FifoInv /\ Fifo!Init
  BY FifoInit
<1>2. FifoInv /\ [Next]_vars => [Fifo!Next]_(Fifo!vars) /\ FifoInv'
  BY FifoNext
<1> QED
  BY <1>1, <1>2, PTL DEF Spec, RefinesFifo, Fifo!Spec
=============================================================================
