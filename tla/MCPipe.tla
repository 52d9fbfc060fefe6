------------------------------- MODULE MCPipe -------------------------------
(* Instances of Pipe for TLC. *)
EXTENDS PipeFifo, TLC

CONSTANTS e1, e2, d1, d2, w1, c1

Controls == {"disable", "enable", "disable_enqueue", "enable_enqueue",
             "disable_dequeue", "enable_dequeue"}

(* The whole interface: plain and timed calls on both sides, observers, a  *)
(* thread that switches the pipe off and on and finally destroys it.       *)
BufferThreads == {e1, d1, d2, w1, c1}
BufferCalls ==
    (e1 :> {"enqueue", "enqueue_or_timeout"}) @@
    (d1 :> {"dequeue"}) @@ (d2 :> {"dequeue_or_timeout"}) @@
    (w1 :> {"wait_until_empty", "wait_for_num_blocked_dequeues", "empty"}) @@
    (c1 :> Controls \cup {"~pipe"})

(* Two enqueuers contend for the one offer that a pipe without slots has. *)
OfferThreads == {e1, e2, d1, d2, w1, c1}
OfferCalls ==
    (e1 :> {"enqueue"}) @@ (e2 :> {"enqueue_or_timeout"}) @@
    (d1 :> {"dequeue"}) @@ (d2 :> {"dequeue_or_timeout"}) @@
    (w1 :> {"wait_until_empty", "wait_for_num_blocked_dequeues", "empty"}) @@
    (c1 :> Controls \cup {"~pipe"})
=============================================================================
