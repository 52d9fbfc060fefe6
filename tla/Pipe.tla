-------------------------------- MODULE Pipe --------------------------------
(***************************************************************************)
(* dlib::pipe<T> (dlib/pipe/pipe_kernel_1.h): a bounded queue of MaxSize   *)
(* slots that threads enqueue into and dequeue from, and a rendezvous when *)
(* MaxSize = 0.                                                            *)
(*                                                                         *)
(* Every method holds the mutex m from its first statement to its return,  *)
(* except while it waits on one of the three signalers of m.  One action   *)
(* is therefore one critical section: from the call, or from a wake-up, to *)
(* the next wait or to the return.  pc says in which wait loop a thread    *)
(* is, wait whether it still sits in the signaler's wait set ("parked"),   *)
(* has been woken, or has run out of time and wants m back.                *)
(***************************************************************************)
EXTENDS Integers, FiniteSets

CONSTANTS
    Thread,     \* the threads that use the pipe
    MaxSize,    \* pipe_max_size
    Item,       \* values a caller enqueues
    Blank,      \* what a caller hands to dequeue, and what new T[] holds
    MayCall,    \* the methods each thread calls
    Nums        \* arguments of wait_for_num_blocked_dequeues

Method == {"enqueue", "enqueue_or_timeout", "dequeue", "dequeue_or_timeout",
           "empty", "wait_until_empty", "wait_for_num_blocked_dequeues",
           "enable", "disable", "enable_enqueue", "disable_enqueue",
           "enable_dequeue", "disable_dequeue", "~pipe"}

ASSUME PipeAssumption ==
    /\ IsFiniteSet(Thread)
    /\ MaxSize \in Nat
    /\ Blank \notin Item
    /\ MayCall \in [Thread -> SUBSET Method]
    /\ Nums \subseteq Nat

VARIABLES
    pipe_size, enabled, data, first, last,
    dequeue_waiters, enqueue_waiters, unblock_sig_waiters,
    enqueue_enabled, dequeue_enabled,
    life,       \* "alive", "destroying" (inside ~pipe) or "destroyed"
    pc,         \* the wait loop a thread is in, "idle" outside the pipe
    wait,       \* "no", or its standing in the signaler's wait set
    patience,   \* timeout of the call: "forever", "some" or "none" (0 ms)
    item,       \* the object passed by reference to the current call
    num,        \* argument of wait_for_num_blocked_dequeues
    returned    \* the return of an enqueue or dequeue in the last step, if any

flags  == <<enabled, enqueue_enabled, dequeue_enabled>>
ring   == <<pipe_size, data, first, last>>
counts == <<dequeue_waiters, enqueue_waiters, unblock_sig_waiters>>
thread == <<pc, wait, patience, item, num>>
vars   == <<flags, ring, counts, thread, life, returned>>

Slots == 0 .. (IF MaxSize > 0 THEN MaxSize ELSE 1) - 1

-----------------------------------------------------------------------------
(* The constructor. *)
Init ==
    /\ pipe_size = 0
    /\ data = [i \in Slots |-> Blank]
    /\ first = 1
    /\ last = 1
    /\ enabled = TRUE
    /\ enqueue_enabled = TRUE
    /\ dequeue_enabled = TRUE
    /\ dequeue_waiters = 0
    /\ enqueue_waiters = 0
    /\ unblock_sig_waiters = 0
    /\ life = "alive"
    /\ pc = [t \in Thread |-> "idle"]
    /\ wait = [t \in Thread |-> "no"]
    /\ patience = [t \in Thread |-> "forever"]
    /\ item = [t \in Thread |-> Blank]
    /\ num = [t \in Thread |-> 0]
    /\ returned = {}

-----------------------------------------------------------------------------
(* The signalers: the wait loops that wait on each, and the wait sets that *)
(* a broadcast or a signal leaves behind.                                  *)
EnqueueSig == {"room", "taken", "until_empty"}
DequeueSig == {"dequeue"}
UnblockSig == {"num_blocked", "destruct"}

Parked(sig) == {t \in Thread : pc[t] \in sig /\ wait[t] = "parked"}

Broadcast(w, sig) ==
    [t \in Thread |-> IF t \in Parked(sig) THEN "woken" ELSE w[t]]

(* Mutant: a waiter alone on its side is not worth a broadcast. *)
BroadcastToCrowd(cond, w, sig) ==
    IF cond /\ enqueue_waiters > 1 THEN Broadcast(w, sig) ELSE w

BroadcastIf(cond, w, sig) == IF cond THEN Broadcast(w, sig) ELSE w

(* signal() wakes one waiting thread, whichever the scheduler picks. *)
Signalled(w, sig) ==
    IF Parked(sig) = {} THEN {w}
    ELSE {[w EXCEPT ![t] = "woken"] : t \in Parked(sig)}

(* Mutant: the signal is sent only into an empty pipe. *)
SignalIfEmpty(cond, w, sig) ==
    IF cond /\ pipe_size = 0 THEN Signalled(w, sig) ELSE {w}

SignalledIf(cond, w, sig) == IF cond THEN Signalled(w, sig) ELSE {w}

(* Common ends of a critical section: t waits in the loop at, or leaves. *)
Parks(t, at, w) ==
    /\ pc' = [pc EXCEPT ![t] = at]
    /\ wait' = [w EXCEPT ![t] = "parked"]
    /\ returned' = {}

Leaves(t, w) ==
    /\ pc' = [pc EXCEPT ![t] = "idle"]
    /\ wait' = [w EXCEPT ![t] = "no"]
    /\ patience' = [patience EXCEPT ![t] = "forever"]
    /\ item' = [item EXCEPT ![t] = Blank]
    /\ num' = [num EXCEPT ![t] = 0]

Returns(t, w) == Leaves(t, w) /\ returned' = {}

(* enqueue or dequeue returns r and leaves y in the caller's object. *)
ReturnsWith(t, w, op, r, y) ==
    /\ Leaves(t, w)
    /\ returned' = {[by |-> t, op |-> op, result |-> r, item |-> y]}

(* t may start a call: a pipe is not used once its destructor has begun. *)
Calls(t, method) ==
    /\ life = "alive"
    /\ pc[t] = "idle"
    /\ method \in MayCall[t]

(* t has m again after a wait in the loop at. *)
Wakes(t, at) == pc[t] = at /\ wait[t] \in {"woken", "timedout"}

-----------------------------------------------------------------------------
(* The conditions of the wait loops. *)

(* enqueue ("forever") and enqueue_or_timeout: there is no room.  Without  *)
(* slots, room is that no other offer is pending, and the timed call also  *)
(* wants a thread inside dequeue.                                          *)
RoomWait(p) ==
    /\ pipe_size = MaxSize
    /\ enabled
    /\ enqueue_enabled
    /\ ~ (MaxSize = 0 /\ first = 1 /\ (p = "forever" \/ dequeue_waiters > 0))

(* The offered item has not been taken (MaxSize = 0). *)
TakenWait == last = 0 /\ enabled /\ enqueue_enabled

(* Mutant: an offer that was already taken is taken again. *)
ItemWaitIgnoresLast ==
    pipe_size = 0 /\ enabled /\ dequeue_enabled /\ ~ (MaxSize = 0 /\ first = 0)

ItemWait ==
    /\ pipe_size = 0
    /\ enabled
    /\ dequeue_enabled
    /\ ~ (MaxSize = 0 /\ first = 0 /\ last = 0)

UntilEmptyWait == pipe_size > 0 /\ enabled /\ dequeue_enabled

NumBlockedWait(n) ==
    (dequeue_waiters < n \/ pipe_size # 0) /\ enabled /\ dequeue_enabled

(* Mutant: the observers are forgotten. *)
DestructWaitForgetful(dw, ew, uw) == dw > 0 \/ ew > 0

DestructWait(dw, ew, uw) == dw > 0 \/ ew > 0 \/ uw > 1

-----------------------------------------------------------------------------
(* enqueue and enqueue_or_timeout.  x is the value of item, p the timeout, *)
(* ew the value of enqueue_waiters that counts this call.                  *)

EnqueueFails(t, ew, x) ==
    /\ enqueue_waiters' = ew - 1
    /\ ReturnsWith(t, Broadcast(wait, UnblockSig), "enqueue", FALSE, x)
    /\ UNCHANGED <<flags, ring, dequeue_waiters, unblock_sig_waiters, life>>

(* Mutant: last is not reset when the pipe has run empty. *)
NextSlotNoReset == IF MaxSize = 0 THEN 0 ELSE (last + 1) % MaxSize

NextSlot == IF pipe_size = 0 THEN 0 ELSE (last + 1) % MaxSize

EnqueueAccepts(t, ew, x, p) ==
    /\ first' = IF pipe_size = 0 THEN 0 ELSE first
    /\ last' = NextSlot
    /\ data' = [data EXCEPT ![NextSlot] = x]
    /\ \E w \in SignalledIf(dequeue_waiters > 0, wait, DequeueSig) :
          \/ /\ MaxSize > 0
             /\ pipe_size' = pipe_size + 1
             /\ enqueue_waiters' = ew - 1
             /\ ReturnsWith(t, w, "enqueue", TRUE, data[NextSlot])
          \/ /\ MaxSize = 0
             /\ enqueue_waiters' = ew
             /\ item' = [item EXCEPT ![t] = data[NextSlot]]
             /\ patience' = [patience EXCEPT ![t] = p]
             /\ Parks(t, "taken", w)
             /\ UNCHANGED <<pipe_size, num>>
    /\ UNCHANGED <<flags, dequeue_waiters, unblock_sig_waiters, life>>

EnqueueBody(t, ew, x, p, timed_out) ==
    \/ /\ RoomWait(p) /\ ~ timed_out /\ p # "none"
       /\ Parks(t, "room", wait)
       /\ enqueue_waiters' = ew
       /\ item' = [item EXCEPT ![t] = x]
       /\ patience' = [patience EXCEPT ![t] = p]
       /\ UNCHANGED <<flags, ring, dequeue_waiters, unblock_sig_waiters,
                      num, life>>
    \/ /\ \/ ~ enabled
          \/ ~ enqueue_enabled
          \/ timed_out
          \/ RoomWait(p) /\ p = "none"
       /\ EnqueueFails(t, ew, x)
    \/ /\ enabled /\ enqueue_enabled /\ ~ timed_out /\ ~ RoomWait(p)
       /\ EnqueueAccepts(t, ew, x, p)

enqueue(t) ==
    /\ Calls(t, "enqueue")
    /\ \E x \in Item : EnqueueBody(t, enqueue_waiters + 1, x, "forever", FALSE)

enqueue_or_timeout(t) ==
    /\ Calls(t, "enqueue_or_timeout")
    /\ \E x \in Item, p \in {"some", "none"} :
          EnqueueBody(t, enqueue_waiters + 1, x, p, FALSE)

EnqueueRoomResumes(t) ==
    /\ Wakes(t, "room")
    /\ EnqueueBody(t, enqueue_waiters, item[t], patience[t],
                   wait[t] = "timedout")

(* The second wait loop, of a pipe without slots. *)
TakenReparks(t) ==
    /\ TakenWait
    /\ Parks(t, "taken", wait)
    /\ UNCHANGED <<flags, ring, counts, patience, item, num, life>>

OfferWithdrawn(t) ==
    /\ last = 0
    /\ ~ (enabled /\ enqueue_enabled)
    /\ last' = 1
    /\ first' = 1
    /\ data' = [data EXCEPT ![0] = item[t]]
    /\ enqueue_waiters' = enqueue_waiters - 1
    /\ ReturnsWith(t, BroadcastIf(unblock_sig_waiters > 0, wait, UnblockSig),
                   "enqueue", FALSE, data[0])
    /\ UNCHANGED <<flags, pipe_size, dequeue_waiters, unblock_sig_waiters, life>>

OfferTaken(t) ==
    /\ last # 0
    /\ last' = 1
    /\ first' = 1
    /\ enqueue_waiters' = enqueue_waiters - 1
    /\ ReturnsWith(t, BroadcastIf(~ enabled /\ unblock_sig_waiters > 0,
                          BroadcastIf(enqueue_waiters > 1, wait, EnqueueSig),
                          UnblockSig),
                   "enqueue", TRUE, item[t])
    /\ UNCHANGED <<flags, pipe_size, data, dequeue_waiters,
                   unblock_sig_waiters, life>>

EnqueueTakenResumes(t) ==
    /\ Wakes(t, "taken")
    /\ TakenReparks(t) \/ OfferWithdrawn(t) \/ OfferTaken(t)

-----------------------------------------------------------------------------
(* dequeue and dequeue_or_timeout.  w is wait after the broadcasts made at *)
(* the start of the call.                                                  *)

DequeueFails(t, dw, w, x) ==
    /\ dequeue_waiters' = dw - 1
    /\ ReturnsWith(t, Broadcast(w, UnblockSig), "dequeue", FALSE, x)
    /\ UNCHANGED <<flags, ring, enqueue_waiters, unblock_sig_waiters, life>>

DequeueTakes(t, dw, w, x) ==
    /\ data' = [data EXCEPT ![first] = x]
    /\ \/ /\ MaxSize > 0
          /\ first' = (first + 1) % MaxSize
          /\ pipe_size' = pipe_size - 1
          /\ UNCHANGED last
       \/ /\ MaxSize = 0
          /\ last' = 1
          /\ UNCHANGED <<first, pipe_size>>
    /\ dequeue_waiters' = dw - 1
    /\ ReturnsWith(t, BroadcastIf(enqueue_waiters > 0, w, EnqueueSig),
                   "dequeue", TRUE, data[first])
    /\ UNCHANGED <<flags, enqueue_waiters, unblock_sig_waiters, life>>

DequeueBody(t, dw, w, x, p, timed_out) ==
    \/ /\ ItemWait /\ ~ timed_out /\ p # "none"
       /\ Parks(t, "dequeue", w)
       /\ dequeue_waiters' = dw
       /\ item' = [item EXCEPT ![t] = x]
       /\ patience' = [patience EXCEPT ![t] = p]
       /\ UNCHANGED <<flags, ring, enqueue_waiters, unblock_sig_waiters,
                      num, life>>
    \/ /\ \/ ~ enabled
          \/ ~ dequeue_enabled
          \/ timed_out
          \/ ItemWait /\ p = "none"
       /\ DequeueFails(t, dw, w, x)
    \/ /\ enabled /\ dequeue_enabled /\ ~ timed_out /\ ~ ItemWait
       /\ DequeueTakes(t, dw, w, x)

(* A dequeue that finds the pipe empty announces itself. *)
DequeueAnnounced ==
    BroadcastIf(pipe_size = 0 /\ enqueue_waiters > 0,
        BroadcastIf(pipe_size = 0 /\ unblock_sig_waiters > 0, wait, UnblockSig),
        EnqueueSig)

dequeue(t) ==
    /\ Calls(t, "dequeue")
    /\ DequeueBody(t, dequeue_waiters + 1, DequeueAnnounced, Blank,
                   "forever", FALSE)

dequeue_or_timeout(t) ==
    /\ Calls(t, "dequeue_or_timeout")
    /\ \E p \in {"some", "none"} :
          DequeueBody(t, dequeue_waiters + 1, DequeueAnnounced, Blank, p, FALSE)

DequeueResumes(t) ==
    /\ Wakes(t, "dequeue")
    /\ DequeueBody(t, dequeue_waiters, wait, item[t], patience[t],
                   wait[t] = "timedout")

-----------------------------------------------------------------------------
(* The waits of observers. *)

(* Mutant: the counter is not decremented. *)
UntilEmptyLeaks(t, ew) ==
    /\ enqueue_waiters' = ew
    /\ Returns(t, BroadcastIf(~ enabled, wait, UnblockSig))

UntilEmptyReturns(t, ew) ==
    /\ enqueue_waiters' = ew - 1
    /\ Returns(t, BroadcastIf(~ enabled, wait, UnblockSig))

UntilEmptyBody(t, ew) ==
    /\ \/ /\ UntilEmptyWait
          /\ Parks(t, "until_empty", wait)
          /\ enqueue_waiters' = ew
          /\ UNCHANGED <<patience, item, num>>
       \/ /\ ~ UntilEmptyWait
          /\ UntilEmptyReturns(t, ew)
    /\ UNCHANGED <<flags, ring, dequeue_waiters, unblock_sig_waiters, life>>

wait_until_empty(t) ==
    /\ Calls(t, "wait_until_empty")
    /\ UntilEmptyBody(t, enqueue_waiters + 1)

UntilEmptyResumes(t) ==
    /\ Wakes(t, "until_empty")
    /\ UntilEmptyBody(t, enqueue_waiters)

NumBlockedReturns(t, uw) ==
    /\ unblock_sig_waiters' = uw - 1
    /\ Returns(t, BroadcastIf(~ enabled, wait, UnblockSig))

NumBlockedBody(t, uw, n) ==
    /\ \/ /\ NumBlockedWait(n)
          /\ Parks(t, "num_blocked", wait)
          /\ unblock_sig_waiters' = uw
          /\ num' = [num EXCEPT ![t] = n]
          /\ UNCHANGED <<patience, item>>
       \/ /\ ~ NumBlockedWait(n)
          /\ NumBlockedReturns(t, uw)
    /\ UNCHANGED <<flags, ring, dequeue_waiters, enqueue_waiters, life>>

wait_for_num_blocked_dequeues(t) ==
    /\ Calls(t, "wait_for_num_blocked_dequeues")
    /\ \E n \in Nums : NumBlockedBody(t, unblock_sig_waiters + 1, n)

NumBlockedResumes(t) ==
    /\ Wakes(t, "num_blocked")
    /\ NumBlockedBody(t, unblock_sig_waiters, num[t])

-----------------------------------------------------------------------------
(* The methods that never wait. *)

empty(t) ==
    /\ Calls(t, "empty")
    /\ returned' = {}
    /\ pipe_size' = 0
    /\ wait' = BroadcastIf(enqueue_waiters > 0, wait, EnqueueSig)
    /\ UNCHANGED <<flags, data, first, last, counts, pc, patience, item, num,
                   life>>

(* Mutant: enqueue_sig is forgotten. *)
BroadcastTwo == Broadcast(Broadcast(wait, DequeueSig), UnblockSig)

BroadcastAll == Broadcast(Broadcast(Broadcast(wait, DequeueSig), EnqueueSig),
                          UnblockSig)

disable(t) ==
    /\ Calls(t, "disable")
    /\ returned' = {}
    /\ enabled' = FALSE
    /\ wait' = BroadcastAll
    /\ UNCHANGED <<enqueue_enabled, dequeue_enabled, ring, counts, pc,
                   patience, item, num, life>>

enable(t) ==
    /\ Calls(t, "enable")
    /\ returned' = {}
    /\ enabled' = TRUE
    /\ UNCHANGED <<enqueue_enabled, dequeue_enabled, ring, counts, thread, life>>

disable_enqueue(t) ==
    /\ Calls(t, "disable_enqueue")
    /\ returned' = {}
    /\ enqueue_enabled' = FALSE
    /\ wait' = Broadcast(wait, EnqueueSig)
    /\ UNCHANGED <<enabled, dequeue_enabled, ring, counts, pc, patience,
                   item, num, life>>

enable_enqueue(t) ==
    /\ Calls(t, "enable_enqueue")
    /\ returned' = {}
    /\ enqueue_enabled' = TRUE
    /\ UNCHANGED <<enabled, dequeue_enabled, ring, counts, thread, life>>

disable_dequeue(t) ==
    /\ Calls(t, "disable_dequeue")
    /\ returned' = {}
    /\ dequeue_enabled' = FALSE
    /\ wait' = Broadcast(wait, DequeueSig)
    /\ UNCHANGED <<enabled, enqueue_enabled, ring, counts, pc, patience,
                   item, num, life>>

enable_dequeue(t) ==
    /\ Calls(t, "enable_dequeue")
    /\ returned' = {}
    /\ dequeue_enabled' = TRUE
    /\ UNCHANGED <<enabled, enqueue_enabled, ring, counts, thread, life>>

-----------------------------------------------------------------------------
(* The destructor. *)

DestructBody(t, uw, w) ==
    \/ /\ DestructWait(dequeue_waiters, enqueue_waiters, uw)
       /\ Parks(t, "destruct", w)
       /\ unblock_sig_waiters' = uw
       /\ life' = "destroying"
       /\ UNCHANGED <<patience, item, num>>
    \/ /\ ~ DestructWait(dequeue_waiters, enqueue_waiters, uw)
       /\ Returns(t, w)
       /\ unblock_sig_waiters' = uw - 1
       /\ life' = "destroyed"

destroy(t) ==
    /\ Calls(t, "~pipe")
    /\ enabled' = FALSE
    /\ DestructBody(t, unblock_sig_waiters + 1, BroadcastAll)
    /\ UNCHANGED <<enqueue_enabled, dequeue_enabled, ring, dequeue_waiters,
                   enqueue_waiters>>

DestructResumes(t) ==
    /\ Wakes(t, "destruct")
    /\ DestructBody(t, unblock_sig_waiters, wait)
    /\ UNCHANGED <<flags, ring, dequeue_waiters, enqueue_waiters>>

-----------------------------------------------------------------------------
(* What the signalers do by themselves (threads_kernel_2.h over pthreads). *)

(* wait_or_timeout(): the time of a timed wait runs out.  The wait for the *)
(* offer to be taken is not timed.                                         *)
TimeOut(t) ==
    /\ wait[t] = "parked"
    /\ pc[t] \in {"room", "dequeue"}
    /\ patience[t] = "some"
    /\ wait' = [wait EXCEPT ![t] = "timedout"]
    /\ returned' = {}
    /\ UNCHANGED <<flags, ring, counts, pc, patience, item, num, life>>

(* A wait may return although nobody signalled. *)
SpuriousWakeUp(t) ==
    /\ wait[t] = "parked"
    /\ wait' = [wait EXCEPT ![t] = "woken"]
    /\ returned' = {}
    /\ UNCHANGED <<flags, ring, counts, pc, patience, item, num, life>>

-----------------------------------------------------------------------------
Resumes(t) ==
    \/ EnqueueRoomResumes(t)
    \/ EnqueueTakenResumes(t)
    \/ DequeueResumes(t)
    \/ UntilEmptyResumes(t)
    \/ NumBlockedResumes(t)
    \/ DestructResumes(t)

Call(t) ==
    \/ enqueue(t)
    \/ enqueue_or_timeout(t)
    \/ dequeue(t)
    \/ dequeue_or_timeout(t)
    \/ wait_until_empty(t)
    \/ wait_for_num_blocked_dequeues(t)
    \/ empty(t)
    \/ enable(t)
    \/ disable(t)
    \/ enable_enqueue(t)
    \/ disable_enqueue(t)
    \/ enable_dequeue(t)
    \/ disable_dequeue(t)
    \/ destroy(t)

Next == \E t \in Thread :
    Call(t) \/ Resumes(t) \/ TimeOut(t) \/ SpuriousWakeUp(t)

Spec == Init /\ [][Next]_vars

(* A woken thread eventually gets the mutex, and a timed wait eventually   *)
(* runs out.  Nobody is obliged to call anything.                          *)
Fairness == \A t \in Thread : WF_vars(Resumes(t)) /\ WF_vars(TimeOut(t))

FairSpec == Spec /\ Fairness

-----------------------------------------------------------------------------
(* Properties. *)

In(loops) == {t \in Thread : pc[t] \in loops}

(* Every variable keeps its type; a thread stands in a wait set exactly    *)
(* when it is in a wait loop, and only timed calls run out of time.        *)
TypeOK ==
    /\ pipe_size \in 0 .. MaxSize
    /\ data \in [Slots -> Item \cup {Blank}]
    /\ first \in Slots \cup {1}
    /\ last \in Slots \cup {1}
    /\ enabled \in BOOLEAN
    /\ enqueue_enabled \in BOOLEAN
    /\ dequeue_enabled \in BOOLEAN
    /\ dequeue_waiters \in Nat
    /\ enqueue_waiters \in Nat
    /\ unblock_sig_waiters \in Nat
    /\ life \in {"alive", "destroying", "destroyed"}
    /\ pc \in [Thread -> {"idle"} \cup EnqueueSig \cup DequeueSig \cup UnblockSig]
    /\ wait \in [Thread -> {"no", "parked", "woken", "timedout"}]
    /\ patience \in [Thread -> {"forever", "some", "none"}]
    /\ item \in [Thread -> Item \cup {Blank}]
    /\ num \in [Thread -> Nat]
    /\ returned \subseteq [by : Thread, op : {"enqueue", "dequeue"},
                            result : BOOLEAN, item : Item \cup {Blank}]
    /\ \A t \in Thread : pc[t] = "idle" <=> wait[t] = "no"
    /\ \A t \in Thread : wait[t] = "timedout" =>
          patience[t] = "some" /\ pc[t] \in {"room", "dequeue"}

(* The three counters, kept by hand on every path through every method,    *)
(* count exactly the threads inside the methods they stand for: an early   *)
(* return that forgot one would hang the destructor, or let it go too soon.*)
WaiterCounts ==
    /\ dequeue_waiters = Cardinality(In(DequeueSig))
    /\ enqueue_waiters = Cardinality(In(EnqueueSig))
    /\ unblock_sig_waiters = Cardinality(In(UnblockSig))

(* enqueue wakes one dequeue per item, with signal() and not broadcast():  *)
(* whenever a dequeue still sleeps although items are there to be taken,   *)
(* enough other dequeues are on their way to take every one of them.       *)
AwakeDequeues == {t \in In(DequeueSig) : wait[t] # "parked" /\ wait[t] # "timedout"}

NoItemOverlooked ==
    (Parked(DequeueSig) # {} /\ enabled /\ dequeue_enabled) =>
        /\ Cardinality(AwakeDequeues) >= pipe_size
        /\ ~ ItemWait => AwakeDequeues # {}

(* No enqueue sleeps while what it waits for is already the case, and no   *)
(* wait_until_empty sleeps on an empty or disabled pipe.                   *)
NoEnqueueOverlooked ==
    \A t \in Parked(EnqueueSig) :
        /\ pc[t] = "room" => RoomWait(patience[t])
        /\ pc[t] = "taken" => TakenWait
        /\ pc[t] = "until_empty" => pipe_size > 0 /\ enabled

(* ~pipe sleeps only while a thread is inside the pipe that will wake it   *)
(* again, and deletes the buffer only once every thread has left.          *)
DestructorSafe ==
    /\ \A t \in In({"destruct"}) : wait[t] = "parked" =>
          DestructWait(dequeue_waiters, enqueue_waiters, unblock_sig_waiters)
    /\ life = "destroyed" => \A t \in Thread : pc[t] = "idle"

(* The destructor returns: every thread that waits in the pipe leaves it.  *)
DestructorReturns == (life = "destroying") ~> (life = "destroyed")

(* disable() releases everyone: a thread inside the pipe leaves it unless  *)
(* the pipe is enabled again.                                              *)
DisableReleases ==
    \A t \in Thread : (pc[t] # "idle" /\ ~ enabled) ~> (pc[t] = "idle" \/ enabled)

(* A waiting dequeue returns, unless the item it could take goes to        *)
(* another one: the signal sent for an item is never lost on a call that   *)
(* timed out or came too late.                                             *)
ItemsAreTaken ==
    \A t \in Thread : (pc[t] = "dequeue" /\ ~ ItemWait) ~> (pc[t] = "idle" \/ ItemWait)

(* The destructor, every call into a disabled pipe, and every dequeue for  *)
(* which there is an item return, though the calls that wake each other    *)
(* time out, are disabled or begin too late to be woken.  That an enqueue  *)
(* for which there is room returns is left to NoEnqueueOverlooked.         *)
CallsReturn == DestructorReturns /\ DisableReleases /\ ItemsAreTaken
=============================================================================
