---------------------------- MODULE BlockingFifo ----------------------------
(***************************************************************************)
(* What dlib::pipe promises its users (dlib/pipe/pipe_kernel_abstract.h):  *)
(* a first in, first out queue of at most MaxSize items or, if MaxSize is  *)
(* 0, items passed from hand to hand.  No ring, no counters, no signalers: *)
(* each call takes effect at one instant, or fails and leaves the caller's *)
(* item alone.                                                             *)
(***************************************************************************)
EXTENDS Naturals, Sequences

CONSTANTS Thread, MaxSize, Item, Blank

VARIABLES
    queue,      \* the items in the pipe, oldest first
    call,       \* "out" of the pipe, "in" a call, or "passed" its item on
    hand,       \* the item object of a call that is under way
    returned    \* the return of a call in the last step, if any

vars == <<queue, call, hand, returned>>

Value == Item \cup {Blank}

Init ==
    /\ queue = <<>>
    /\ call = [t \in Thread |-> "out"]
    /\ hand = [t \in Thread |-> Blank]
    /\ returned = {}

(* A call that is already under way has the item it came with. *)
CameWith(t, x) ==
    /\ call[t] # "passed"
    /\ call[t] = "in" => x = hand[t]

(* t's call returns r and leaves y in the caller's object. *)
Returns(t, op, r, y) ==
    /\ returned' = {[by |-> t, op |-> op, result |-> r, item |-> y]}
    /\ call' = [call EXCEPT ![t] = "out"]
    /\ hand' = [hand EXCEPT ![t] = Blank]

(* A call comes in and has to wait. *)
Enter(t, x) ==
    /\ returned' = {}
    /\ call[t] = "out"
    /\ call' = [call EXCEPT ![t] = "in"]
    /\ hand' = [hand EXCEPT ![t] = x]
    /\ UNCHANGED queue

(* enqueue returns true; what its item becomes (y) is not specified. *)
Put(t, x, y) ==
    /\ Returns(t, "enqueue", TRUE, y)
    /\ CameWith(t, x)
    /\ Len(queue) < MaxSize
    /\ queue' = Append(queue, x)

(* dequeue returns true with the oldest item. *)
Take(t) ==
    /\ queue # <<>>
    /\ Returns(t, "dequeue", TRUE, Head(queue))
    /\ call[t] # "passed"
    /\ queue' = Tail(queue)

(* The enqueue of s passes its item to the dequeue of t; s has yet to return. *)
HandOver(s, t, y) ==
    /\ s # t
    /\ returned' = {[by |-> t, op |-> "dequeue", result |-> TRUE,
                     item |-> hand[s]]}
    /\ call[s] = "in"
    /\ call[t] # "passed"
    /\ call' = [call EXCEPT ![s] = "passed", ![t] = "out"]
    /\ hand' = [hand EXCEPT ![s] = y, ![t] = Blank]
    /\ UNCHANGED queue

(* The enqueue whose item was passed on returns. *)
Passed(t) ==
    /\ call[t] = "passed"
    /\ Returns(t, "enqueue", TRUE, hand[t])
    /\ UNCHANGED queue

(* A call fails: the pipe and the caller's item are as they were. *)
Fail(t, op, x) ==
    /\ Returns(t, op, FALSE, x)
    /\ CameWith(t, x)
    /\ UNCHANGED queue

(* empty() *)
Clear ==
    /\ queue' = <<>>
    /\ returned' = {}
    /\ UNCHANGED <<call, hand>>

(* Anything that neither moves an item nor ends an enqueue or a dequeue. *)
Quiet ==
    /\ returned' = {}
    /\ UNCHANGED <<queue, call, hand>>

Next ==
    \/ Quiet
    \/ Clear
    \/ \E t \in Thread :
          \/ Take(t)
          \/ Passed(t)
          \/ \E x \in Value :
                \/ Enter(t, x)
                \/ Fail(t, "enqueue", x)
                \/ Fail(t, "dequeue", x)
                \/ \E y \in Value : Put(t, x, y)
          \/ MaxSize = 0 /\ \E s \in Thread, y \in Value : HandOver(s, t, y)

Spec == Init /\ [][Next]_vars
=============================================================================
