------------------------------ MODULE PipeFifo ------------------------------
(* How the state of Pipe stands for a state of BlockingFifo. *)
EXTENDS Pipe, Sequences

(* The items in the slots from first on, in ring order. *)
Queue == [i \in 1 .. pipe_size |-> data[(first + i - 1) % MaxSize]]

(* An item on offer in a pipe without slots is still in the offerer's hand *)
(* though it sits in data[0]; once last is reset it has been passed on.    *)
Offers(t) == pc[t] = "taken" /\ last = 0

CallState ==
    [t \in Thread |-> IF pc[t] = "taken" /\ last # 0 THEN "passed"
                      ELSE IF pc[t] \in {"room", "taken", "dequeue"} THEN "in"
                      ELSE "out"]

Hand == [t \in Thread |-> IF Offers(t) THEN data[0] ELSE item[t]]

Fifo == INSTANCE BlockingFifo WITH queue <- Queue, call <- CallState, hand <- Hand

(* Every step of the pipe is a step of the blocking FIFO queue, or is      *)
(* invisible in it: order, capacity, nothing lost, duplicated or invented, *)
(* and true is returned exactly to the calls that took effect.             *)
RefinesFifo == Fifo!Spec
=============================================================================
