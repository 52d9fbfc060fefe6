--------------------------------- MODULE Bsp --------------------------------
(***************************************************************************)
(* class bsp_context of dlib/bsp/bsp.cpp: nodes that send each other       *)
(* messages over one connection per pair, and receive calls that return    *)
(* false to all nodes at once when every node waits and no message is in   *)
(* flight.  Node 0 finds that out by counting what the nodes report.       *)
(*                                                                         *)
(* A connection delivers in order, after any delay, and has one writer: a  *)
(* call that writes to several connections is one action.  The program of  *)
(* a node sends over Link, receives, and returns in superstep LastEpoch,   *)
(* or before that if the node is in Leaves; the ones in Throws may throw.  *)
(* The counters of node 0 are unsigned, but only added to and compared for *)
(* equality: integers stand for them, also below zero.                     *)
(***************************************************************************)
EXTENDS Integers, FiniteSets, SequencesExt

CONSTANTS
    N,              \* number_of_nodes()
    Link,           \* <<n, m>>: the program of n sends messages to m
    Leaves,         \* nodes that may return in any superstep
    Throws,         \* nodes whose program may throw an exception
    MaxSend,        \* bound: messages that a node sends
    LastEpoch       \* bound: the last superstep

Node     == 0 .. N - 1
Peers(n) == Node \ {n}
Conn     == {c \in Node \X Node : c[1] # c[2]}

ASSUME BspAssumption ==
    /\ N \in Nat \ {0}
    /\ Link \subseteq Conn
    /\ Leaves \subseteq Node /\ Throws \subseteq Node
    /\ MaxSend \in Nat /\ LastEpoch \in Nat

VARIABLES
    pc,                     \* where each node's program is
    current_epoch, msg_buffer,
    terminated,             \* the peers that a node knows to have terminated
    outstanding_messages, num_waiting_nodes,    \* of node 0
    stream,                 \* what was written to a connection and not yet read
    sent,                   \* how many messages each node sent
    unreceived              \* how many messages were sent and not received, by all

counts == <<outstanding_messages, num_waiting_nodes>>
vars   == <<pc, current_epoch, msg_buffer, terminated, counts, stream, sent, unreceived>>

Init ==
    /\ pc = [n \in Node |-> "running"]
    /\ current_epoch = [n \in Node |-> 1]
    /\ msg_buffer = [n \in Node |-> <<>>]
    /\ terminated = [n \in Node |-> {}]
    /\ outstanding_messages = 0
    /\ num_waiting_nodes = 0
    /\ stream = [c \in Conn |-> <<>>]
    /\ sent = [n \in Node |-> 0]
    /\ unreceived = 0

Ended(n) == pc[n] \in {"returned", "threw"}

-----------------------------------------------------------------------------
(* The streams s after n wrote msg to each of its connections to targets; for
   a node that is gone, it is lost.  *)
Written(s, n, targets, msg) ==
    [c \in Conn |-> IF c[1] = n /\ c[2] \in targets /\ ~Ended(c[2])
                    THEN Append(s[c], msg) ELSE s[c]]

Control(type)  == [msg_type |-> type, epoch |-> 0]
Content(epoch) == [msg_type |-> "MESSAGE_HEADER", epoch |-> epoch]

notify_control_node(s, n, type) ==
    IF n = 0 THEN s ELSE Written(s, n, {0}, Control(type))

(* ~bsp_context(): nobody reads what is still on the way to n. *)
Destroyed(n, how, s) ==
    /\ pc' = [pc EXCEPT ![n] = how]
    /\ stream' = [c \in Conn |-> IF c[2] = n THEN <<>> ELSE s[c]]
    /\ msg_buffer' = [msg_buffer EXCEPT ![n] = <<>>]

(* An exception leaves the node's program, and the destructor shuts its
   connections down: who still reads from one gets a read error.  Nobody
   does after NODE_TERMINATE.  *)
Throw(n) ==
    Destroyed(n, "threw", IF pc[n] = "closing" /\ n # 0 THEN stream
                          ELSE Written(stream, n, Peers(n), Control("SHUTDOWN")))

(* read_thread of node n for its connection to m. *)
read_thread(m, n) ==
    /\ ~Ended(n) /\ stream[<<m, n>>] # <<>>
    /\ LET msg  == Head(stream[<<m, n>>])
           type == IF msg.msg_type = "SHUTDOWN" THEN "READ_ERROR" ELSE msg.msg_type
       IN  msg_buffer' = [msg_buffer EXCEPT ![n] = Append(@,
               [msg_type |-> type, epoch |-> msg.epoch, sender_id |-> m])]
    /\ stream' = [stream EXCEPT ![<<m, n>>] = Tail(@)]
    /\ UNCHANGED <<pc, current_epoch, terminated, counts, sent, unreceived>>

(* The next element of the priority queue: least epoch, then first come. *)
Top(n) ==
    LET q == msg_buffer[n]
    IN  CHOOSE i \in DOMAIN q : \A j \in DOMAIN q :
            q[i].epoch < q[j].epoch \/ (q[i].epoch = q[j].epoch /\ i <= j)

(* Mutant: the epoch is not looked at. *)
PoppedAnyEpoch(n, max) ==
    {msg \in Range(msg_buffer[n]) : msg = msg_buffer[n][Top(n)]}

(* What pop(msg, max) may return in msg: the first element, if it is of epoch
   max or earlier ...  *)
Popped(n, max) ==
    {msg \in Range(msg_buffer[n]) : msg = msg_buffer[n][Top(n)] /\ msg.epoch <= max}

(* ... and what it leaves in the queue. *)
Pops(n) == msg_buffer' = [msg_buffer EXCEPT ![n] = RemoveAt(@, Top(n))]

-----------------------------------------------------------------------------
send_data(n, to) ==
    /\ pc[n] = "running" /\ sent[n] < MaxSend
    /\ \/ /\ to \notin terminated[n]
          /\ stream' = notify_control_node(
                 Written(stream, n, {to}, Content(current_epoch[n])), n, "SENT_MESSAGE")
          /\ outstanding_messages' = outstanding_messages + (IF n = 0 THEN 1 ELSE 0)
          /\ sent' = [sent EXCEPT ![n] = @ + 1]
          /\ unreceived' = unreceived + 1
          /\ UNCHANGED <<pc, msg_buffer>>
       \/ /\ to \in terminated[n]
          /\ Throw(n)
          /\ UNCHANGED <<outstanding_messages, sent, unreceived>>
    /\ UNCHANGED <<current_epoch, terminated, num_waiting_nodes>>

(* receive_data() is called. *)
receive_data(n) ==
    /\ pc[n] = "running" /\ current_epoch[n] < LastEpoch
    /\ pc' = [pc EXCEPT ![n] = "receiving"]
    /\ stream' = notify_control_node(stream, n, "IN_WAITING_STATE")
    /\ UNCHANGED <<current_epoch, msg_buffer, terminated, counts, sent, unreceived>>

NobodyLeft(n) == Cardinality(terminated[n]) = N - 1

(* What node 0 must find to conclude that all nodes wait. *)
AllWait(n) ==
    /\ n = 0
    /\ outstanding_messages = 0
    /\ Cardinality(terminated[0]) + num_waiting_nodes = N - 1

(* Mutant: the loop over the nodes ends too early. *)
SeeAllButLast ==
    /\ num_waiting_nodes' = 0
    /\ stream' = Written(stream, 0, {n \in Peers(0) : n < N - 1} \ terminated[0],
                         Control("SEE_ALL_IN_WAITING_STATE"))
    /\ current_epoch' = [current_epoch EXCEPT ![0] = @ + 1]
    /\ UNCHANGED <<msg_buffer, terminated, outstanding_messages, sent, unreceived>>

(* It tells everybody, and the next superstep begins. *)
SeeAll ==
    /\ num_waiting_nodes' = 0
    /\ stream' = Written(stream, 0, Peers(0) \ terminated[0],
                         Control("SEE_ALL_IN_WAITING_STATE"))
    /\ current_epoch' = [current_epoch EXCEPT ![0] = @ + 1]
    /\ UNCHANGED <<msg_buffer, terminated, outstanding_messages, sent, unreceived>>

(* Mutant: a node that got a message still counts as waiting. *)
CountsStillWaiting(type) ==
    /\ num_waiting_nodes' = num_waiting_nodes +
           (IF type = "IN_WAITING_STATE" THEN 1 ELSE 0)
    /\ outstanding_messages' = outstanding_messages +
           (CASE type = "SENT_MESSAGE" -> 1 [] type = "GOT_MESSAGE" -> -1 [] OTHER -> 0)

(* How node 0 counts what the others report. *)
Counts(type) ==
    /\ num_waiting_nodes' = num_waiting_nodes +
           (CASE type = "IN_WAITING_STATE" -> 1 [] type = "GOT_MESSAGE" -> -1 [] OTHER -> 0)
    /\ outstanding_messages' = outstanding_messages +
           (CASE type = "SENT_MESSAGE" -> 1 [] type = "GOT_MESSAGE" -> -1 [] OTHER -> 0)

Reports == {"IN_WAITING_STATE", "GOT_MESSAGE", "SENT_MESSAGE", "NODE_TERMINATE"}

Takes(n, report) ==
    /\ Counts(report.msg_type)
    /\ terminated' = IF report.msg_type = "NODE_TERMINATE"
                     THEN [terminated EXCEPT ![n] = @ \cup {report.sender_id}] ELSE terminated

(* receive_data() returns false because nobody is left, or everybody waits ... *)
ReceiveReturnsFalse(n) ==
    /\ pc[n] = "receiving"
    /\ pc' = [pc EXCEPT ![n] = "running"]
    /\ \/ NobodyLeft(n) /\ msg_buffer[n] = <<>>
          /\ UNCHANGED <<current_epoch, msg_buffer, terminated, counts, stream, sent, unreceived>>
       \/ ~(NobodyLeft(n) /\ msg_buffer[n] = <<>>) /\ AllWait(n) /\ SeeAll

(* ... or it takes an element from the queue: a message or the news that all
   wait end the call, a read error throws, and the rest is only counted.  *)
ReceivePops(n) ==
    /\ pc[n] = "receiving" /\ ~AllWait(n)
    /\ \E msg \in Popped(n, current_epoch[n]) :
       \/ /\ msg.msg_type = "MESSAGE_HEADER"
          /\ Pops(n)
          /\ pc' = [pc EXCEPT ![n] = "running"]
          /\ stream' = notify_control_node(stream, n, "GOT_MESSAGE")
          /\ outstanding_messages' = outstanding_messages - (IF n = 0 THEN 1 ELSE 0)
          /\ unreceived' = unreceived - 1
          /\ UNCHANGED <<current_epoch, terminated, num_waiting_nodes>>
       \/ /\ msg.msg_type = "SEE_ALL_IN_WAITING_STATE"
          /\ Pops(n)
          /\ pc' = [pc EXCEPT ![n] = "running"]
          /\ current_epoch' = [current_epoch EXCEPT ![n] = @ + 1]
          /\ UNCHANGED <<stream, terminated, counts, unreceived>>
       \/ /\ msg.msg_type = "READ_ERROR"
          /\ Throw(n)
          /\ UNCHANGED <<current_epoch, terminated, counts, unreceived>>
       \/ /\ msg.msg_type \in Reports
          /\ Pops(n)
          /\ Takes(n, msg)
          /\ UNCHANGED <<pc, stream, current_epoch, unreceived>>
    /\ UNCHANGED sent

-----------------------------------------------------------------------------
(* Mutant: only the control node is told. *)
ClosesQuietly(n) ==
    /\ pc[n] = "running"
    /\ current_epoch[n] >= LastEpoch \/ n \in Leaves \/ NobodyLeft(n)
    /\ pc' = [pc EXCEPT ![n] = "closing"]
    /\ stream' = IF n = 0 THEN stream
                 ELSE Written(stream, n, {0}, Control("NODE_TERMINATE"))
    /\ UNCHANGED <<current_epoch, msg_buffer, terminated, counts, sent, unreceived>>

(* The program of node n returns: close_all_connections_gracefully(). *)
Closes(n) ==
    /\ pc[n] = "running"
    /\ current_epoch[n] >= LastEpoch \/ n \in Leaves \/ NobodyLeft(n)
    /\ pc' = [pc EXCEPT ![n] = "closing"]
    /\ stream' = IF n = 0 THEN stream
                 ELSE Written(stream, n, Peers(n), Control("NODE_TERMINATE"))
    /\ UNCHANGED <<current_epoch, msg_buffer, terminated, counts, sent, unreceived>>

ClosingSeesAll(n) ==
    /\ pc[n] = "closing" /\ ~NobodyLeft(n)
    /\ AllWait(n) /\ SeeAll
    /\ UNCHANGED pc

(* A node that is closing takes elements of any epoch, and expects no message. *)
ClosingPops(n) ==
    /\ pc[n] = "closing" /\ ~NobodyLeft(n) /\ ~AllWait(n)
    /\ \E msg \in Range(msg_buffer[n]) :
       /\ msg \in Popped(n, msg.epoch)
       /\ \/ /\ msg.msg_type \in {"READ_ERROR", "MESSAGE_HEADER"}
             /\ Throw(n)
             /\ UNCHANGED <<terminated, counts>>
          \/ /\ msg.msg_type \in Reports \cup {"SEE_ALL_IN_WAITING_STATE"}
             /\ Pops(n)
             /\ Takes(n, msg)
             /\ UNCHANGED <<pc, stream>>
    /\ UNCHANGED <<current_epoch, sent, unreceived>>

(* Mutant: messages that nobody received are not noticed. *)
AllClosedAnyway(n) ==
    /\ pc[n] = "closing" /\ NobodyLeft(n)
    /\ Destroyed(n, "returned",
                 IF n # 0 THEN stream
                 ELSE Written(stream, n, Peers(n), Control("NODE_TERMINATE")))
    /\ UNCHANGED <<current_epoch, terminated, counts, sent, unreceived>>

(* All others have terminated; messages nobody received are an error. *)
AllClosed(n) ==
    /\ pc[n] = "closing" /\ NobodyLeft(n)
    /\ Destroyed(n, IF n = 0 /\ outstanding_messages # 0 THEN "threw" ELSE "returned",
                 IF n # 0 THEN stream
                 ELSE Written(stream, n, Peers(n), Control("NODE_TERMINATE")))
    /\ UNCHANGED <<current_epoch, terminated, counts, sent, unreceived>>

(* The program throws; so does a write to a node that is gone, unless the
   write goes unnoticed.  *)
ProgramThrows(n) ==
    /\ pc[n] = "running"
    /\ n \in Throws \/ \E m \in Peers(n) : pc[m] = "threw"
    /\ Throw(n)
    /\ UNCHANGED <<current_epoch, terminated, counts, sent, unreceived>>

Library(n) ==
    \/ ReceiveReturnsFalse(n) \/ ReceivePops(n)
    \/ ClosingSeesAll(n) \/ ClosingPops(n) \/ AllClosed(n)

Next ==
    \/ \E c \in Link : send_data(c[1], c[2])
    \/ \E n \in Node : receive_data(n) \/ Closes(n) \/ ProgramThrows(n) \/ Library(n)
    \/ \E c \in Conn : read_thread(c[1], c[2])

Spec == Init /\ [][Next]_vars

(***************************************************************************)
(* What was written arrives, the library runs, and a program does not stay *)
(* where it is: it receives or returns, and returns if it always could.    *)
(***************************************************************************)
FairSpec ==
    /\ Spec
    /\ WF_vars(\E c \in Conn : read_thread(c[1], c[2]))
    /\ \A n \in Node : WF_vars(Library(n) \/ receive_data(n)) /\ SF_vars(Closes(n))

-----------------------------------------------------------------------------
(* The elements on their way to n, unread or queued. *)
OnTheWay(n) ==
    (UNION {Range(stream[<<m, n>>]) : m \in Peers(n)}) \cup Range(msg_buffer[n])

MessagesFor(n) == {msg \in OnTheWay(n) : msg.msg_type = "MESSAGE_HEADER"}

(* "All other nodes were blocked on calls to receive(), try_receive(), or have
   terminated.  There were not any messages in flight between any nodes": so
   it is in the state in which node 0 lets everybody's receive return.  *)
BarrierIsSound ==
    [][current_epoch'[0] # current_epoch[0] =>
         /\ \A n \in Peers(0) :
               /\ pc[n] # "running"
               /\ pc[n] = "receiving" => current_epoch[n] = current_epoch[0]
         /\ \A n \in Node : MessagesFor(n) = {}]_vars

(* A message is received in the superstep in which it was sent, although it
   may overtake the news of a barrier on its way: "we can tell if a sent
   message is from before or after one of these 'all nodes waiting'
   synchronization events".  *)
ReceivedInItsSuperstep ==
    [][\A n \in Node :
         pc[n] = "receiving" /\ unreceived' < unreceived /\ msg_buffer'[n] # msg_buffer[n] =>
             msg_buffer[n][Top(n)].epoch = current_epoch[n]]_vars

(* "it is NOT the case that just a subset of BSP nodes unblock": a node is
   behind node 0 by the one barrier that it has yet to be told of, and only
   while it waits.  *)
AllUnblock ==
    \A n \in Peers(0) : pc[n] \in {"running", "receiving"} =>
        \/ current_epoch[n] = current_epoch[0]
        \/ /\ current_epoch[n] = current_epoch[0] - 1
           /\ pc[n] = "receiving"
           /\ \E msg \in OnTheWay(n) : msg.msg_type = "SEE_ALL_IN_WAITING_STATE"

(* When bsp_connect returns normally, every message sent was received. *)
NothingLost == pc[0] = "returned" => unreceived = 0

(* A node threw in its program, and not at its end, where it has told the others
   that it terminates and nobody reads from it any more.  *)
ThrewInProgram == \E n \in Node : pc[n] = "threw" /\ \A m \in Peers(n) : n \notin terminated[m]

(* "Make sure all sent messages have a corresponding call to receive()": then
   every node's program ends, also when a node leaves early.  If one throws,
   everybody's ends, whatever messages it leaves unreceived.  Not covered is a
   job that leaves a message unreceived and in which nobody throws but at its
   end: there the others may wait for ever.  *)
JobEnds == <>[](unreceived = 0 \/ ThrewInProgram) => <>(\A n \in Node : Ended(n))
=============================================================================
