---------------------------- MODULE ServerProofs -----------------------------
(***************************************************************************)
(* Proofs about Server: for any numbers of threads and connections and any *)
(* limits.                                                                 *)
(***************************************************************************)
EXTENDS Server, FiniteSetTheorems, TLAPS

(* Where a listener can be, from the opened socket to its end. *)
Busy == {"open", "accept", "accepted", "add", "create", "count", "max", "full",
         "stopping", "failed"}

Elsewhere == {"idle", "joining", "clear", "reset", "sweep", "until zero",
              "until stopped", "cleared"}

PcType == pc \in [Thread -> Busy \cup Elsewhere]

DataType ==
    /\ thread_count \in Int /\ max_connections \in Nat
    /\ cons \subseteq Con
    /\ client \in [Thread -> Con \cup {None}]
    /\ state \in [Con -> {"none", "accepted", "on_connect", "closing"}]

TypeOK == PcType /\ DataType

(* A thread starts to listen only if the server is not running. *)
OneListener ==
    /\ \A s, t \in Thread : pc[s] \in Busy /\ pc[t] \in Busy => s = t
    /\ \A t \in Thread : pc[t] \in Busy => running /\ (sock \/ pc[t] = "failed")

(* The listener alone has the connection that it has accepted. *)
ClientAccepted ==
    \A t \in Thread :
        /\ client[t] # None => /\ pc[t] \in {"accepted", "add", "create"}
                               /\ state[client[t]] = "accepted"
        /\ pc[t] \in {"add", "create"} => client[t] # None

(* What is in cons has a thread, or the listener is about to create it. *)
ConsHaveThread ==
    \A c \in cons : \/ state[c] = "on_connect"
                    \/ \E t \in Thread : pc[t] = "create" /\ client[t] = c

(* The listener has created a thread and not counted it. *)
Uncounted == IF \E t \in Thread : pc[t] = "count" THEN 1 ELSE 0

CountInv == thread_count = Cardinality(Served) - Uncounted

Inv == TypeOK /\ OneListener /\ ClientAccepted /\ ConsHaveThread /\ CountInv

LEMMA InvInit == Init => Inv
<1> SUFFICES ASSUME Init PROVE Inv
  OBVIOUS
<1> USE ServerAssumption DEF Init
<1>1. TypeOK
  BY DEF TypeOK, PcType, DataType, Busy, Elsewhere
<1>2. OneListener /\ ClientAccepted /\ ConsHaveThread
  BY DEF OneListener, ClientAccepted, ConsHaveThread, Busy
<1>3. CountInv
  <2>1. Served = {} /\ Uncounted = 0
    BY DEF Served, Uncounted
  <2> QED
    BY <2>1, FS_EmptySet DEF CountInv
<1> QED
  BY <1>1, <1>2, <1>3 DEF Inv

(***************************************************************************)
(* Steps that only move one thread.                                        *)
(***************************************************************************)
Moves(t, from, to) ==
    /\ pc[t] \in from
    /\ \E x \in to : pc' = [pc EXCEPT ![t] = x]
    /\ UNCHANGED <<client, state, thread_count>>

ClearMoves(t) ==
    /\ Moves(t, Elsewhere, Elsewhere)
    /\ cons' \subseteq cons /\ UNCHANGED <<running, sock>>
    /\ max_connections' \in {max_connections, DefaultMax}

(* clear() concerns the listener only through shutting_down. *)
LEMMA ClearingMoves ==
    ASSUME PcType, NEW t \in Thread, clear(t) \/ Clearing(t)
    PROVE  ClearMoves(t)
<1> USE DEF ClearMoves, Moves, Elsewhere, Goes, socket, listening, serving
<1>1. CASE clear(t) \/ ClearBegins(t) \/ ClearResets(t) \/ Sweep(t) \/ ClearEnds(t)
  BY <1>1 DEF clear, ClearBegins, ClearResets, Sweep, ClearEnds
<1>2. CASE WaitForZero(t) \/ WaitForListener(t)
  <2>1. /\ pc[t] \in {"until zero", "until stopped"}
        /\ pc' = pc \/ \E x \in {"until stopped", "cleared"} : pc' = [pc EXCEPT ![t] = x]
        /\ UNCHANGED <<max_connections, socket, serving, client>>
    BY <1>2 DEF WaitForZero, WaitForListener, WaitLoop
  <2>2. pc = [pc EXCEPT ![t] = pc[t]]
    BY DEF PcType
  <2> QED
    BY <2>1, <2>2
<1> QED
  BY <1>1, <1>2 DEF Clearing

ListenMoves(t) ==
    /\ Moves(t, {"open", "max", "full"}, {"accept", "full", "stopping"})
    /\ (running' = running \/ running' = TRUE)
    /\ UNCHANGED <<sock, max_connections, cons>>

LEMMA ListeningMoves ==
    ASSUME PcType, NEW t \in Thread, OpenAgain(t) \/ CheckMax(t) \/ ChecksMaxAgain(t)
    PROVE  ListenMoves(t)
<1> USE DEF ListenMoves, Moves, Goes, socket, listening, serving
<1>1. CASE OpenAgain(t) \/ CheckMax(t)
  BY <1>1 DEF OpenAgain, CheckMax
<1>2. CASE ChecksMaxAgain(t)
  <2>1. /\ pc[t] = "full"
        /\ pc' = pc \/ \E x \in {"stopping", "accept"} : pc' = [pc EXCEPT ![t] = x]
        /\ UNCHANGED <<max_connections, socket, serving, client>>
    BY <1>2 DEF ChecksMaxAgain, WaitLoop
  <2>2. pc = [pc EXCEPT ![t] = pc[t]]
    BY DEF PcType
  <2> QED
    BY <2>1, <2>2
<1> QED
  BY <1>1, <1>2

(* Threads are where the code can be. *)
LEMMA PcStep ==
    ASSUME PcType, [Next]_vars
    PROVE  PcType'
<1> USE ServerAssumption
    DEF PcType, Busy, Elsewhere,
        Goes, User, Thread, socket, listening, serving
<1>1. ASSUME NEW u \in Starter, start(u) PROVE PcType'
  BY <1>1 DEF start, OpenFails, OpenSucceeds
<1>2. ASSUME NEW u \in Starter, start_async(u) PROVE PcType'
  BY <1>2 DEF start_async, OpenFails, OpenSucceeds
<1>3. ASSUME NEW u \in Starter, Joined(u) PROVE PcType'
  BY <1>3 DEF Joined
<1>4. ASSUME NEW u \in User, NEW max \in Limits, set_max_connections(u, max) PROVE PcType'
  BY <1>4 DEF set_max_connections
<1>5. ASSUME NEW t \in Thread, ListenMoves(t) PROVE PcType'
  BY <1>5 DEF ListenMoves, Moves
<1>6. ASSUME NEW t \in Thread, Accept(t) PROVE PcType'
  BY <1>6 DEF Accept
<1>7. ASSUME NEW t \in Thread, LooksAtShuttingDown(t) PROVE PcType'
  BY <1>7 DEF LooksAtShuttingDown, DeleteClient
<1>8. ASSUME NEW t \in Thread, Add(t) PROVE PcType'
  BY <1>8 DEF Add
<1>9. ASSUME NEW t \in Thread, Create(t) PROVE PcType'
  BY <1>9 DEF Create, DeleteClient
<1>10. ASSUME NEW t \in Thread, Count(t) PROVE PcType'
  BY <1>10 DEF Count
<1>11. ASSUME NEW t \in Thread, Stops(t) PROVE PcType'
  BY <1>11 DEF Stops
<1>12. ASSUME NEW t \in Thread, ClearMoves(t) PROVE PcType'
  BY <1>12 DEF ClearMoves, Moves
<1>13. ASSUME NEW c \in Con, Leaves(c) PROVE PcType'
  BY <1>13 DEF Leaves
<1>14. ASSUME NEW c \in Con, ThreadEnds(c) PROVE PcType'
  BY <1>14 DEF ThreadEnds
<1>15. CASE UNCHANGED vars
  BY <1>15 DEF vars
<1> QED
  BY <1>1, <1>2, <1>3, <1>4, <1>5, <1>6, <1>7, <1>8, <1>9, <1>10, <1>11, <1>12,
     <1>13, <1>14, <1>15,
     ClearingMoves, ListeningMoves DEF TypeOK, Next, Listener

(* The counter, the limit, cons and the connections keep their types. *)
LEMMA DataStep ==
    ASSUME TypeOK, ClientAccepted, [Next]_vars
    PROVE  DataType'
<1> USE ServerAssumption
    DEF TypeOK, DataType, ClientAccepted,
        Goes, User, Thread, socket, listening, serving
<1>1. ASSUME NEW u \in Starter, start(u) PROVE DataType'
  BY <1>1 DEF start, OpenFails, OpenSucceeds
<1>2. ASSUME NEW u \in Starter, start_async(u) PROVE DataType'
  BY <1>2 DEF start_async, OpenFails, OpenSucceeds
<1>3. ASSUME NEW u \in Starter, Joined(u) PROVE DataType'
  BY <1>3 DEF Joined
<1>4. ASSUME NEW u \in User, NEW max \in Limits, set_max_connections(u, max) PROVE DataType'
  BY <1>4 DEF set_max_connections
<1>5. ASSUME NEW t \in Thread, ListenMoves(t) PROVE DataType'
  BY <1>5 DEF ListenMoves, Moves
<1>6. ASSUME NEW t \in Thread, Accept(t) PROVE DataType'
  BY <1>6 DEF Accept
<1>7. ASSUME NEW t \in Thread, LooksAtShuttingDown(t) PROVE DataType'
  BY <1>7 DEF LooksAtShuttingDown, DeleteClient
<1>8. ASSUME NEW t \in Thread, Add(t) PROVE DataType'
  BY <1>8 DEF Add
<1>9. ASSUME NEW t \in Thread, Create(t) PROVE DataType'
  BY <1>9 DEF Create, DeleteClient
<1>10. ASSUME NEW t \in Thread, Count(t) PROVE DataType'
  <2>1. thread_count' = thread_count + 1 /\ UNCHANGED <<max_connections, cons, client, state>>
    BY <1>10 DEF Count
  <2> QED
    BY <2>1
<1>11. ASSUME NEW t \in Thread, Stops(t) PROVE DataType'
  BY <1>11 DEF Stops
<1>12. ASSUME NEW t \in Thread, ClearMoves(t) PROVE DataType'
  BY <1>12 DEF ClearMoves, Moves
<1>13. ASSUME NEW c \in Con, Leaves(c) PROVE DataType'
  BY <1>13 DEF Leaves
<1>14. ASSUME NEW c \in Con, ThreadEnds(c) PROVE DataType'
  <2>1. thread_count' = thread_count - 1 /\ UNCHANGED <<max_connections, cons, client>>
    BY <1>14 DEF ThreadEnds
  <2>2. state' = [state EXCEPT ![c] = "none"]
    BY <1>14 DEF ThreadEnds
  <2> QED
    BY <2>1, <2>2
<1>15. CASE UNCHANGED vars
  BY <1>15 DEF vars
<1> QED
  BY <1>1, <1>2, <1>3, <1>4, <1>5, <1>6, <1>7, <1>8, <1>9, <1>10, <1>11, <1>12,
     <1>13, <1>14, <1>15,
     ClearingMoves, ListeningMoves DEF TypeOK, Next, Listener

(* Only start() and start_async() make a listener, if there is none. *)
LEMMA ListenerStep ==
    ASSUME TypeOK, OneListener, [Next]_vars
    PROVE  OneListener'
<1> USE ServerAssumption
    DEF TypeOK, PcType, OneListener, Busy, Elsewhere,
        Goes, User, Thread, socket, listening, serving
<1>1. ASSUME NEW u \in Starter, start(u) PROVE OneListener'
  BY <1>1 DEF start, OpenFails, OpenSucceeds
<1>2. ASSUME NEW u \in Starter, start_async(u) PROVE OneListener'
  BY <1>2 DEF start_async, OpenFails, OpenSucceeds
<1>3. ASSUME NEW u \in Starter, Joined(u) PROVE OneListener'
  BY <1>3 DEF Joined
<1>4. ASSUME NEW u \in User, NEW max \in Limits, set_max_connections(u, max) PROVE OneListener'
  BY <1>4 DEF set_max_connections
<1>5. ASSUME NEW t \in Thread, ListenMoves(t) PROVE OneListener'
  <2>1. pc[t] \in {"open", "max", "full"} /\ (running' = running \/ running' = TRUE) /\ sock' = sock
    BY <1>5 DEF ListenMoves, Moves
  <2>2. running /\ sock
    BY <2>1
  <2>3. PICK x : pc' = [pc EXCEPT ![t] = x]
    BY <1>5 DEF ListenMoves, Moves
  <2> QED
    BY <2>1, <2>2, <2>3
<1>6. ASSUME NEW t \in Thread, Accept(t) PROVE OneListener'
  BY <1>6 DEF Accept
<1>7. ASSUME NEW t \in Thread, LooksAtShuttingDown(t) PROVE OneListener'
  BY <1>7 DEF LooksAtShuttingDown, DeleteClient
<1>8. ASSUME NEW t \in Thread, Add(t) PROVE OneListener'
  BY <1>8 DEF Add
<1>9. ASSUME NEW t \in Thread, Create(t) PROVE OneListener'
  <2>1. running' = running /\ pc[t] = "create"
    BY <1>9 DEF Create
  <2>2. CASE pc' = [pc EXCEPT ![t] = "count"] /\ sock' = sock
    BY <2>1, <2>2
  <2>3. CASE pc' = [pc EXCEPT ![t] = "failed"]
    BY <2>1, <2>3
  <2> QED
    BY <1>9, <2>2, <2>3 DEF Create
<1>10. ASSUME NEW t \in Thread, Count(t) PROVE OneListener'
  BY <1>10 DEF Count
<1>11. ASSUME NEW t \in Thread, Stops(t) PROVE OneListener'
  BY <1>11 DEF Stops
<1>12. ASSUME NEW t \in Thread, ClearMoves(t) PROVE OneListener'
  BY <1>12 DEF ClearMoves, Moves
<1>13. ASSUME NEW c \in Con, Leaves(c) PROVE OneListener'
  BY <1>13 DEF Leaves
<1>14. ASSUME NEW c \in Con, ThreadEnds(c) PROVE OneListener'
  BY <1>14 DEF ThreadEnds
<1>15. CASE UNCHANGED vars
  BY <1>15 DEF vars
<1> QED
  BY <1>1, <1>2, <1>3, <1>4, <1>5, <1>6, <1>7, <1>8, <1>9, <1>10, <1>11, <1>12,
     <1>13, <1>14, <1>15,
     ClearingMoves, ListeningMoves DEF TypeOK, Next, Listener

(* The connection that the listener holds is its own until its thread exists. *)
LEMMA ClientStep ==
    ASSUME TypeOK, OneListener, ClientAccepted, [Next]_vars
    PROVE  ClientAccepted'
<1> USE ServerAssumption
    DEF TypeOK, PcType, DataType, OneListener, ClientAccepted, Busy, Elsewhere,
        Goes, User, Thread, socket, listening, serving
<1>1. ASSUME NEW u \in Starter, start(u) PROVE ClientAccepted'
  BY <1>1 DEF start, OpenFails, OpenSucceeds
<1>2. ASSUME NEW u \in Starter, start_async(u) PROVE ClientAccepted'
  BY <1>2 DEF start_async, OpenFails, OpenSucceeds
<1>3. ASSUME NEW u \in Starter, Joined(u) PROVE ClientAccepted'
  BY <1>3 DEF Joined
<1>4. ASSUME NEW u \in User, NEW max \in Limits, set_max_connections(u, max) PROVE ClientAccepted'
  BY <1>4 DEF set_max_connections
<1>5. ASSUME NEW t \in Thread, ListenMoves(t) PROVE ClientAccepted'
  BY <1>5 DEF ListenMoves, Moves
<1>6. ASSUME NEW t \in Thread, Accept(t) PROVE ClientAccepted'
  <2>1. pc[t] = "accept" /\ client[t] = None
    BY <1>6 DEF Accept
  <2>2. PICK x \in {"failed", "accepted"} : pc' = [pc EXCEPT ![t] = x]
    BY <1>6 DEF Accept
  <2>3. CASE UNCHANGED <<client, state>>
    BY <2>1, <2>2, <2>3
  <2>4. ASSUME NEW c \in Con, state[c] = "none", state' = [state EXCEPT ![c] = "accepted"],
               client' = [client EXCEPT ![t] = c], pc' = [pc EXCEPT ![t] = "accepted"]
        PROVE  ClientAccepted'
    BY <2>1, <2>4
  <2> QED
    BY <1>6, <2>3, <2>4 DEF Accept
<1>7. ASSUME NEW t \in Thread, LooksAtShuttingDown(t) PROVE ClientAccepted'
  BY <1>7 DEF LooksAtShuttingDown, DeleteClient
<1>8. ASSUME NEW t \in Thread, Add(t) PROVE ClientAccepted'
  BY <1>8 DEF Add
<1>9. ASSUME NEW t \in Thread, Create(t) PROVE ClientAccepted'
  <2>1. pc[t] = "create" /\ client' = [client EXCEPT ![t] = None]
    BY <1>9 DEF Create, DeleteClient
  <2>2. PICK x \in {"failed", "count"} : pc' = [pc EXCEPT ![t] = x]
    BY <1>9 DEF Create
  <2>3. \A s \in Thread : client'[s] = None
    BY <2>1
  <2> QED
    BY <2>1, <2>2, <2>3
<1>10. ASSUME NEW t \in Thread, Count(t) PROVE ClientAccepted'
  BY <1>10 DEF Count
<1>11. ASSUME NEW t \in Thread, Stops(t) PROVE ClientAccepted'
  BY <1>11 DEF Stops
<1>12. ASSUME NEW t \in Thread, ClearMoves(t) PROVE ClientAccepted'
  BY <1>12 DEF ClearMoves, Moves
<1>13. ASSUME NEW c \in Con, Leaves(c) PROVE ClientAccepted'
  BY <1>13 DEF Leaves
<1>14. ASSUME NEW c \in Con, ThreadEnds(c) PROVE ClientAccepted'
  BY <1>14 DEF ThreadEnds
<1>15. CASE UNCHANGED vars
  BY <1>15 DEF vars
<1> QED
  BY <1>1, <1>2, <1>3, <1>4, <1>5, <1>6, <1>7, <1>8, <1>9, <1>10, <1>11, <1>12,
     <1>13, <1>14, <1>15,
     ClearingMoves, ListeningMoves DEF TypeOK, Next, Listener

(* A connection of cons keeps its thread, or the listener that will create it. *)
LEMMA ConsStep ==
    ASSUME TypeOK, OneListener, ClientAccepted, ConsHaveThread, [Next]_vars
    PROVE  ConsHaveThread'
<1> USE ServerAssumption DEF Goes, User, Thread, socket, listening, serving
<1> DEFINE Kept == \A c \in Con : state[c] = "on_connect" => state'[c] = "on_connect"
<1>1. ASSUME NEW t \in Thread, pc[t] \in Busy \ {"create"}, cons' \subseteq cons, Kept
      PROVE  ConsHaveThread'
  <2>1. \A s \in Thread : pc[s] # "create"
    BY <1>1 DEF OneListener, Busy
  <2>2. \A c \in cons : state[c] = "on_connect"
    BY <2>1, Zenon DEF ConsHaveThread
  <2> QED
    BY <1>1, <2>2 DEF ConsHaveThread, TypeOK, DataType
<1>2. ASSUME NEW t \in Thread, Accept(t) PROVE ConsHaveThread'
  <2>1. pc[t] = "accept" /\ cons' = cons
    BY <1>2 DEF Accept
  <2>2. Kept
    BY <1>2 DEF Accept, TypeOK, DataType
  <2> QED
    BY <1>1, <2>1, <2>2 DEF Busy
<1>3. ASSUME NEW t \in Thread, LooksAtShuttingDown(t) PROVE ConsHaveThread'
  <2>1. pc[t] = "accepted" /\ cons' = cons
    BY <1>3 DEF LooksAtShuttingDown
  <2>2. client[t] # None => state[client[t]] = "accepted"
    BY DEF ClientAccepted
  <2>3. Kept
    BY <1>3, <2>2 DEF LooksAtShuttingDown, DeleteClient, TypeOK, DataType
  <2> QED
    BY <1>1, <2>1, <2>3 DEF Busy
<1>4. ASSUME NEW t \in Thread, ListenMoves(t) \/ Count(t) \/ Stops(t) PROVE ConsHaveThread'
  <2>1. pc[t] \in Busy \ {"create"} /\ cons' = cons /\ state' = state
    BY <1>4 DEF ListenMoves, Moves, Count, Stops, Busy
  <2> QED
    BY <1>1, <2>1
<1>5. ASSUME NEW t \in Thread, Add(t) PROVE ConsHaveThread'
  <2>1. pc[t] = "add" /\ cons' = cons \cup {client[t]} /\ UNCHANGED <<client, state>>
    BY <1>5 DEF Add
  <2>2. \A s \in Thread : pc[s] # "create"
    BY <2>1 DEF OneListener, Busy
  <2>3. \A c \in cons : state[c] = "on_connect"
    BY <2>2, Zenon DEF ConsHaveThread
  <2>4. pc'[t] = "create"
    BY <1>5 DEF Add, TypeOK, PcType
  <2> QED
    BY <2>1, <2>3, <2>4 DEF ConsHaveThread
<1>6. ASSUME NEW t \in Thread, Create(t) PROVE ConsHaveThread'
  <2>1. pc[t] = "create"
    BY <1>6 DEF Create
  <2>2. \A s \in Thread : pc[s] = "create" => s = t
    BY <2>1 DEF OneListener, Busy
  <2>3. \A c \in cons : state[c] = "on_connect" \/ c = client[t]
    BY <2>2, Zenon DEF ConsHaveThread
  <2>4. client[t] \in Con
    BY <2>1 DEF ClientAccepted, TypeOK, DataType
  <2>5. CASE cons' = cons /\ state' = [state EXCEPT ![client[t]] = "on_connect"]
    <3>1. \A c \in cons : state'[c] = "on_connect"
      BY <2>3, <2>4, <2>5 DEF TypeOK, DataType
    <3> QED
      BY <2>5, <3>1 DEF ConsHaveThread
  <2>6. CASE cons' = cons \ {client[t]} /\ DeleteClient(t)
    <3>1. \A c \in cons' : state'[c] = "on_connect"
      BY <2>3, <2>6 DEF DeleteClient, TypeOK, DataType
    <3> QED
      BY <3>1 DEF ConsHaveThread
  <2> QED
    BY <1>6, <2>5, <2>6 DEF Create
<1>7. ASSUME cons' \subseteq cons, UNCHANGED <<client, state>>,
             \A s \in Thread : pc[s] = "create" => pc'[s] = "create"
      PROVE  ConsHaveThread'
  BY <1>7, Zenon DEF ConsHaveThread
<1>8. ASSUME NEW u \in Starter, start(u) \/ start_async(u) \/ Joined(u) PROVE ConsHaveThread'
  <2>1. cons' = cons /\ UNCHANGED <<client, state>>
    BY <1>8 DEF start, start_async, Joined
  <2>2. \A s \in Thread : pc[s] = "create" => pc'[s] = "create"
    <3>1. CASE start(u) \/ Joined(u)
      BY <3>1 DEF start, Joined, TypeOK, PcType
    <3>2. CASE start_async(u)
      BY <3>2 DEF start_async, TypeOK, PcType
    <3> QED
      BY <1>8, <3>1, <3>2
  <2> QED
    BY <1>7, <2>1, <2>2
<1>9. ASSUME NEW t \in Thread, ClearMoves(t) PROVE ConsHaveThread'
  <2>1. PICK x : pc' = [pc EXCEPT ![t] = x]
    BY <1>9 DEF ClearMoves, Moves
  <2>2. pc[t] # "create" /\ cons' \subseteq cons /\ UNCHANGED <<client, state>>
    BY <1>9 DEF ClearMoves, Moves, Elsewhere
  <2>3. \A s \in Thread : pc[s] = "create" => pc'[s] = "create"
    BY <2>1, <2>2 DEF TypeOK, PcType
  <2> QED
    BY <1>7, <2>2, <2>3
<1>10. ASSUME NEW c \in Con, Leaves(c) \/ ThreadEnds(c) PROVE ConsHaveThread'
  <2>1. UNCHANGED <<pc, client>> /\ cons' \subseteq cons
    BY <1>10 DEF Leaves, ThreadEnds
  <2>2. \A d \in cons' : state[d] = "on_connect" => state'[d] = "on_connect"
    BY <1>10 DEF Leaves, ThreadEnds, TypeOK, DataType
  <2> QED
    BY <2>1, <2>2, Zenon DEF ConsHaveThread
<1>11. CASE UNCHANGED vars \/ \E u \in User, max \in Limits : set_max_connections(u, max)
  BY <1>7, <1>11 DEF vars, set_max_connections
<1> QED
  BY <1>2, <1>3, <1>4, <1>5, <1>6, <1>8, <1>9, <1>10, <1>11, ClearingMoves, ListeningMoves
  DEF TypeOK, Next, Listener

(* thread_count and the listener's part change with the threads. *)
LEMMA CountStep ==
    ASSUME TypeOK, OneListener, ClientAccepted, CountInv, [Next]_vars
    PROVE  CountInv'
<1> USE ServerAssumption DEF Goes, User, Thread, socket, listening, serving
<1>1. IsFiniteSet(Served) /\ Cardinality(Served) \in Nat /\ Uncounted \in {0, 1}
  <2>1. Served \subseteq Con
    BY DEF Served
  <2> QED
    BY <2>1, FS_Subset, FS_CardinalityType DEF Uncounted
<1>2. ASSUME NEW t \in Thread, pc[t] \in Busy \ {"count"} PROVE \A s \in Thread : pc[s] # "count"
  BY <1>2 DEF OneListener, Busy
<1>3. ASSUME thread_count' = thread_count,
             \A s \in Thread : pc'[s] = "count" <=> pc[s] = "count",
             \A c \in Con : state'[c] \in {"on_connect", "closing"}
                               <=> state[c] \in {"on_connect", "closing"}
      PROVE  CountInv'
  <2>1. Served' = Served
    BY <1>3, Zenon DEF Served
  <2>2. Uncounted' = Uncounted
    BY <1>3 DEF Uncounted
  <2> QED
    BY <1>3, <2>1, <2>2 DEF CountInv
<1>4. ASSUME NEW u \in Starter, start(u) \/ start_async(u) \/ Joined(u) PROVE CountInv'
  <2>1. UNCHANGED <<thread_count, state>>
    BY <1>4 DEF start, start_async, Joined
  <2>2. \A s \in Thread : pc'[s] = "count" <=> pc[s] = "count"
    <3>1. CASE start(u) \/ Joined(u)
      BY <3>1 DEF start, Joined, TypeOK, PcType
    <3>2. CASE start_async(u)
      BY <3>2 DEF start_async, TypeOK, PcType
    <3> QED
      BY <1>4, <3>1, <3>2
  <2> QED
    BY <1>3, <2>1, <2>2
<1>5. ASSUME NEW t \in Thread, ListenMoves(t) \/ ClearMoves(t) PROVE CountInv'
  <2>1. /\ pc[t] # "count" /\ UNCHANGED <<thread_count, state>>
        /\ \E x : pc' = [pc EXCEPT ![t] = x] /\ x # "count"
    BY <1>5 DEF ListenMoves, ClearMoves, Moves, Elsewhere
  <2>2. \A s \in Thread : pc'[s] = "count" <=> pc[s] = "count"
    BY <2>1 DEF TypeOK, PcType
  <2> QED
    BY <1>3, <2>1, <2>2
<1>6. ASSUME NEW t \in Thread, Accept(t) PROVE CountInv'
  <2>1. \A s \in Thread : pc'[s] = "count" <=> pc[s] = "count"
    BY <1>6 DEF Accept, TypeOK, PcType
  <2>2. \A c \in Con : state'[c] \in {"on_connect", "closing"}
                          <=> state[c] \in {"on_connect", "closing"}
    BY <1>6 DEF Accept, TypeOK, DataType
  <2>3. thread_count' = thread_count
    BY <1>6 DEF Accept
  <2> QED
    BY <1>3, <2>1, <2>2, <2>3
<1>7. ASSUME NEW t \in Thread, LooksAtShuttingDown(t) PROVE CountInv'
  <2>1. \A s \in Thread : pc'[s] = "count" <=> pc[s] = "count"
    BY <1>7 DEF LooksAtShuttingDown, TypeOK, PcType
  <2>2. client[t] # None => state[client[t]] = "accepted"
    BY DEF ClientAccepted
  <2>3. \A c \in Con : state'[c] \in {"on_connect", "closing"}
                          <=> state[c] \in {"on_connect", "closing"}
    BY <1>7, <2>2 DEF LooksAtShuttingDown, DeleteClient, TypeOK, DataType
  <2>4. thread_count' = thread_count
    BY <1>7 DEF LooksAtShuttingDown
  <2> QED
    BY <1>3, <2>1, <2>3, <2>4
<1>8. ASSUME NEW t \in Thread, Add(t) \/ Stops(t) PROVE CountInv'
  <2>1. \A s \in Thread : pc'[s] = "count" <=> pc[s] = "count"
    BY <1>8 DEF Add, Stops, TypeOK, PcType
  <2>2. UNCHANGED <<thread_count, state>>
    BY <1>8 DEF Add, Stops
  <2> QED
    BY <1>3, <2>1, <2>2
<1>9. ASSUME NEW t \in Thread, Create(t) PROVE CountInv'
  <2>1. pc[t] = "create" /\ thread_count' = thread_count
    BY <1>9 DEF Create
  <2>2. client[t] \in Con /\ state[client[t]] = "accepted"
    BY <2>1 DEF ClientAccepted, TypeOK, DataType
  <2>3. \A s \in Thread : pc[s] # "count"
    BY <1>2, <2>1 DEF Busy
  <2>4. CASE pc' = [pc EXCEPT ![t] = "count"] /\ state' = [state EXCEPT ![client[t]] = "on_connect"]
    <3>1. Uncounted = 0 /\ Uncounted' = 1
      BY <2>3, <2>4 DEF Uncounted, TypeOK, PcType
    <3>2. client[t] \notin Served /\ Served' = Served \cup {client[t]}
      BY <2>2, <2>4 DEF Served, TypeOK, DataType
    <3>3. Cardinality(Served') = Cardinality(Served) + 1
      BY <1>1, <3>2, FS_AddElement
    <3> QED
      BY <1>1, <2>1, <3>1, <3>3 DEF CountInv
  <2>5. CASE pc' = [pc EXCEPT ![t] = "failed"] /\ DeleteClient(t)
    <3>1. \A s \in Thread : pc'[s] = "count" <=> pc[s] = "count"
      BY <2>1, <2>5 DEF TypeOK, PcType
    <3>2. \A c \in Con : state'[c] \in {"on_connect", "closing"}
                            <=> state[c] \in {"on_connect", "closing"}
      BY <2>2, <2>5 DEF DeleteClient, TypeOK, DataType
    <3> QED
      BY <1>3, <2>1, <3>1, <3>2
  <2> QED
    BY <1>9, <2>4, <2>5 DEF Create
<1>10. ASSUME NEW t \in Thread, Count(t) PROVE CountInv'
  <2>1. /\ pc[t] = "count" /\ pc' = [pc EXCEPT ![t] = "max"]
        /\ thread_count' = thread_count + 1 /\ state' = state
    BY <1>10 DEF Count
  <2>2. \A s \in Thread : pc[s] = "count" => s = t
    BY <2>1 DEF OneListener, Busy
  <2>3. Uncounted = 1 /\ Uncounted' = 0
    BY <2>1, <2>2 DEF Uncounted, TypeOK, PcType
  <2>4. Served' = Served
    BY <2>1 DEF Served
  <2> QED
    BY <1>1, <2>1, <2>3, <2>4 DEF CountInv
<1>11. ASSUME NEW c \in Con, Leaves(c) PROVE CountInv'
  <2>1. UNCHANGED <<pc, thread_count>>
    BY <1>11 DEF Leaves
  <2>2. \A d \in Con : state'[d] \in {"on_connect", "closing"}
                          <=> state[d] \in {"on_connect", "closing"}
    BY <1>11 DEF Leaves, TypeOK, DataType
  <2> QED
    BY <1>3, <2>1, <2>2
<1>12. ASSUME NEW c \in Con, ThreadEnds(c) PROVE CountInv'
  <2>1. /\ state[c] = "closing" /\ state' = [state EXCEPT ![c] = "none"]
        /\ thread_count' = thread_count - 1 /\ pc' = pc
    BY <1>12 DEF ThreadEnds
  <2>2. c \in Served /\ Served' = Served \ {c}
    BY <2>1 DEF Served, TypeOK, DataType
  <2>3. Cardinality(Served') = Cardinality(Served) - 1
    BY <1>1, <2>2, FS_RemoveElement
  <2>4. Uncounted' = Uncounted
    BY <2>1 DEF Uncounted
  <2> QED
    BY <1>1, <2>1, <2>3, <2>4 DEF CountInv
<1>13. CASE UNCHANGED vars \/ \E u \in User, max \in Limits : set_max_connections(u, max)
  BY <1>3, <1>13 DEF vars, set_max_connections
<1> QED
  BY <1>4, <1>5, <1>6, <1>7, <1>8, <1>9, <1>10, <1>11, <1>12, <1>13, ClearingMoves,
     ListeningMoves DEF TypeOK, Next, Listener

LEMMA InvHolds == Spec => []Inv
<1>1. ASSUME Inv, [Next]_vars PROVE Inv'
  BY <1>1, PcStep, DataStep, ListenerStep, ClientStep, ConsStep, CountStep DEF Inv, TypeOK
<1> QED
  BY InvInit, <1>1, PTL DEF Spec

-----------------------------------------------------------------------------
(* thread_count is exact but for the thread that the listener has yet to count,
   for any number of connections.  *)
THEOREM ServerThreadCountExact == Spec => []ThreadCountExact
<1>1. Inv => ThreadCountExact
  <2> SUFFICES ASSUME Inv PROVE ThreadCountExact
    OBVIOUS
  <2> DEFINE C == {t \in Thread : pc[t] = "count"}
  <2>1. CASE \E t \in Thread : pc[t] = "count"
    <3>1. PICK t \in Thread : pc[t] = "count"
      BY <2>1
    <3>2. C = {t}
      BY <3>1 DEF Inv, OneListener, Busy
    <3>3. Cardinality(C) = 1
      BY <3>2, FS_Singleton
    <3> QED
      BY <2>1, <3>3 DEF Inv, CountInv, Uncounted, ThreadCountExact
  <2>2. CASE ~ \E t \in Thread : pc[t] = "count"
    <3>1. C = {}
      BY <2>2
    <3>2. Cardinality(C) = 0
      BY <3>1, FS_EmptySet
    <3> QED
      BY <2>2, <3>2 DEF Inv, CountInv, Uncounted, ThreadCountExact
  <2> QED
    BY <2>1, <2>2
<1> QED
  BY InvHolds, <1>1, PTL

(* clear() finds in cons no connection that is being deleted, and there is one
   listener at most, whatever starts and clears the server.  *)
THEOREM ServerConsAreOpen == Spec => []ConsAreOpen
<1>1. Inv => ConsAreOpen
  <2> SUFFICES ASSUME Inv PROVE ConsAreOpen
    OBVIOUS
  <2>1. Listeners = {t \in Thread : pc[t] \in Busy}
    <3>1. \A t \in Thread : pc[t] \in Busy \cup Elsewhere
      BY DEF Inv, TypeOK, PcType
    <3> QED
      BY <3>1 DEF Listeners, InClear, Busy, Elsewhere
  <2>2. \A c \in cons : state[c] \in {"accepted", "on_connect"}
    <3>1. \A t \in Thread : client[t] # None => state[client[t]] = "accepted"
      BY DEF Inv, ClientAccepted
    <3>2. None \notin cons
      BY ServerAssumption DEF Inv, TypeOK, DataType
    <3> QED
      BY <3>1, <3>2 DEF Inv, ConsHaveThread
  <2>3. Cardinality(Listeners) <= 1
    <3>1. CASE Listeners = {}
      BY <3>1, FS_EmptySet
    <3>2. CASE Listeners # {}
      <4>1. PICK t : Listeners = {t}
        BY <2>1, <3>2 DEF Inv, OneListener
      <4> QED
        BY <4>1, FS_Singleton
    <3> QED
      BY <3>1, <3>2
  <2>4. Listeners # {} => running /\ (sock \/ \E t \in Listeners : pc[t] = "failed")
    BY <2>1 DEF Inv, OneListener
  <2> QED
    BY <2>2, <2>3, <2>4 DEF ConsAreOpen
<1> QED
  BY InvHolds, <1>1, PTL

-----------------------------------------------------------------------------
(* Between the check of the limit and the creation of the next thread the
   listener stays below the limit that it has checked.  *)
Below == limit = 0 \/ Cardinality(Served) < limit

StaysBelow ==
    \A t \in Thread : pc[t] \in {"open", "accept", "accepted", "add", "create"} => Below

LimitInv == limit \in Nat /\ StaysBelow

(* What the listener counts when it looks at the limit is exact. *)
LEMMA CountAtMax ==
    ASSUME Inv, NEW t \in Thread, pc[t] \in {"max", "full"}, ~Full
    PROVE  Cardinality(Served) < max_connections
<1>1. \A s \in Thread : pc[s] # "count"
  BY DEF Inv, OneListener, Busy
<1>2. IsFiniteSet(Served) /\ Cardinality(Served) \in Nat
  BY ServerAssumption, FS_Subset, FS_CardinalityType DEF Served
<1>3. thread_count = Cardinality(Served)
  BY <1>1, <1>2 DEF Inv, CountInv, Uncounted
<1> QED
  BY <1>2, <1>3 DEF Full, Inv, TypeOK, DataType

(* Only a new thread of the listener makes more connections served. *)
LEMMA ServedStep ==
    ASSUME Inv, [Next]_vars, \A t \in Thread : ~Create(t)
    PROVE  Served' \subseteq Served
<1> USE ServerAssumption DEF Inv, TypeOK, DataType, Served, socket, listening, serving
<1>1. ASSUME NEW u \in Starter, start(u) \/ start_async(u) \/ Joined(u) PROVE Served' = Served
  BY <1>1 DEF start, start_async, Joined
<1>2. ASSUME NEW u \in User, NEW max \in Limits, set_max_connections(u, max)
      PROVE  Served' = Served
  BY <1>2 DEF set_max_connections
<1>3. ASSUME NEW t \in Thread, Accept(t) \/ LooksAtShuttingDown(t) PROVE Served' \subseteq Served
  BY <1>3 DEF Accept, LooksAtShuttingDown, DeleteClient
<1>4. ASSUME NEW t \in Thread, ListenMoves(t) \/ ClearMoves(t) PROVE Served' = Served
  BY <1>4 DEF ListenMoves, ClearMoves, Moves
<1>5. ASSUME NEW t \in Thread, Add(t) \/ Count(t) \/ Stops(t) PROVE Served' = Served
  BY <1>5 DEF Add, Count, Stops
<1>6. ASSUME NEW c \in Con, Leaves(c) \/ ThreadEnds(c) PROVE Served' \subseteq Served
  BY <1>6 DEF Leaves, ThreadEnds
<1>7. CASE UNCHANGED vars
  BY <1>7 DEF vars
<1> QED
  BY <1>1, <1>2, <1>3, <1>4, <1>5, <1>6, <1>7, ClearingMoves, ListeningMoves
  DEF Next, Listener, User, Thread

(* The limit is kept while the listener stays below it. *)
LEMMA LimitStep ==
    ASSUME Inv, LimitInv, [Next]_vars
    PROVE  LimitInv'
<1> USE ServerAssumption DEF LimitInv
<1> DEFINE Held == {"open", "accept", "accepted", "add", "create"}
<1>1. IsFiniteSet(Served) /\ Cardinality(Served) \in Nat
  BY FS_Subset, FS_CardinalityType DEF Served
<1>2. ASSUME NEW t \in Thread, pc[t] \in Held, Served' \subseteq Served, limit' = limit
      PROVE  Below'
  <2>1. Cardinality(Served') \in Nat /\ Cardinality(Served') <= Cardinality(Served)
    BY <1>1, <1>2, FS_Subset, FS_CardinalityType
  <2>2. Below
    BY <1>2 DEF StaysBelow
  <2> QED
    BY <1>1, <1>2, <2>1, <2>2 DEF Below
<1>3. ASSUME limit' = limit, Served' \subseteq Served,
             \A t \in Thread : pc'[t] \in Held => \E s \in Thread : pc[s] \in Held
      PROVE  LimitInv'
  BY <1>2, <1>3 DEF StaysBelow
<1>4. ASSUME limit' = 0 PROVE LimitInv'
  BY <1>4 DEF StaysBelow, Below
<1> USE DEF Inv, TypeOK, PcType, Goes, User, Thread, socket, listening, serving
<1>5. ASSUME NEW t \in Thread, Create(t) PROVE LimitInv'
  <2>1. pc[t] = "create" /\ limit' = limit /\ \E x \in {"count", "failed"} : pc' = [pc EXCEPT ![t] = x]
    BY <1>5 DEF Create
  <2>2. \A s \in Thread : pc[s] \in Held => s = t
    BY <2>1 DEF OneListener, Busy
  <2>3. \A s \in Thread : pc'[s] \notin Held
    BY <2>1, <2>2
  <2> QED
    BY <2>1, <2>3 DEF StaysBelow
<1>6. ASSUME \A t \in Thread : ~Create(t) PROVE LimitInv'
  <2>1. Served' \subseteq Served
    BY <1>6, ServedStep
  <2>2. ASSUME NEW t \in Thread, CheckMax(t) PROVE LimitInv'
    <3>1. CASE pc' = [pc EXCEPT ![t] = "full"] /\ limit' = limit
      BY <1>3, <2>1, <3>1
    <3>2. CASE (max_connections = 0 \/ ~Full) /\ limit' = max_connections
      <4>1. pc[t] = "max" /\ Served' = Served
        BY <2>2 DEF CheckMax, Served
      <4>2. max_connections = 0 \/ Cardinality(Served) < max_connections
        BY <3>2, <4>1, CountAtMax
      <4> QED
        BY <3>2, <4>1, <4>2 DEF StaysBelow, Below, DataType
    <3> QED
      BY <2>2, <3>1, <3>2 DEF CheckMax
  <2>3. ASSUME NEW t \in Thread, ChecksMaxAgain(t) PROVE LimitInv'
    <3>1. CASE limit' = limit /\ (pc' = pc \/ pc' = [pc EXCEPT ![t] = "stopping"])
      BY <1>3, <2>1, <3>1
    <3>2. CASE ~Full /\ limit' = max_connections
      <4>1. pc[t] = "full" /\ Served' = Served
        BY <2>3 DEF ChecksMaxAgain, Served
      <4>2. Cardinality(Served) < max_connections
        BY <3>2, <4>1, CountAtMax
      <4> QED
        BY <3>2, <4>1, <4>2 DEF StaysBelow, Below, DataType
    <3> QED
      BY <2>3, <3>1, <3>2 DEF ChecksMaxAgain, WaitLoop
  <2>4. ASSUME NEW u \in Starter, start(u) \/ start_async(u) PROVE LimitInv'
    <3>1. CASE OpenSucceeds
      BY <1>4, <3>1 DEF OpenSucceeds
    <3>2. CASE OpenFails
      <4>1. limit' = limit
        BY <3>2 DEF OpenFails
      <4>2. CASE pc' = pc
        BY <1>3, <2>1, <4>1, <4>2
      <4>3. CASE pc' # pc
        BY <1>4, <2>4, <4>3 DEF start, start_async, OpenSucceeds
      <4> QED
        BY <4>2, <4>3
    <3> QED
      BY <2>4, <3>1, <3>2 DEF start, start_async
  <2>5. ASSUME NEW u \in Starter, Joined(u) PROVE LimitInv'
    BY <1>3, <2>1, <2>5 DEF Joined
  <2>6. ASSUME NEW t \in Thread, OpenAgain(t) \/ Accept(t) \/ LooksAtShuttingDown(t) \/ Add(t)
                                  \/ Count(t) \/ Stops(t)
        PROVE  LimitInv'
    BY <1>3, <2>1, <2>6 DEF OpenAgain, Accept, LooksAtShuttingDown, Add, Count, Stops
  <2>7. ASSUME NEW t \in Thread, clear(t) \/ Clearing(t) PROVE LimitInv'
    <3>1. limit' = limit
      BY <2>7 DEF clear, Clearing, ClearBegins, ClearResets, Sweep, WaitForZero,
                  WaitForListener, ClearEnds
    <3>2. \E x \in Elsewhere : pc' = [pc EXCEPT ![t] = x]
      BY <2>7, ClearingMoves DEF ClearMoves, Moves
    <3> QED
      BY <1>3, <2>1, <3>1, <3>2 DEF Elsewhere
  <2>8. ASSUME NEW c \in Con, Leaves(c) \/ ThreadEnds(c) PROVE LimitInv'
    BY <1>3, <2>1, <2>8 DEF Leaves, ThreadEnds
  <2>9. CASE UNCHANGED vars \/ \E u \in User, max \in Limits : set_max_connections(u, max)
    BY <1>3, <2>1, <2>9 DEF vars, set_max_connections
  <2> QED
    BY <1>6, <2>2, <2>3, <2>4, <2>5, <2>6, <2>7, <2>8, <2>9 DEF Next, Listener
<1> QED
  BY <1>5, <1>6

(* While the listener is in accept(), fewer connections are open than the limit
   that it has checked last, for any threads, connections and limits.  *)
THEOREM ServerAcceptBelowMax == Spec => []AcceptBelowMax
<1>1. Init => LimitInv
  BY ServerAssumption DEF Init, LimitInv, StaysBelow, Below
<1>2. ASSUME Inv, LimitInv, [Next]_vars PROVE LimitInv'
  BY <1>2, LimitStep
<1>3. LimitInv => AcceptBelowMax
  BY DEF LimitInv, StaysBelow, Below, AcceptBelowMax
<1> QED
  BY InvHolds, <1>1, <1>2, <1>3, PTL DEF Spec
=============================================================================
