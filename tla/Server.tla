------------------------------- MODULE Server --------------------------------
(***************************************************************************)
(* class server of dlib/server/server_kernel.cpp: a listener accepts       *)
(* connections and creates a thread for each of them; clear() tells the    *)
(* listener to stop, shuts the connections down and waits for all.         *)
(*                                                                         *)
(* One action per critical section.  Every mutex but running_mutex is held *)
(* within one action only; start_async() holds running_mutex while it      *)
(* waits for the thread of the previous start_async().                     *)
(*                                                                         *)
(* Memory does not run out and start_async() can always create its thread. *)
(* Ports, addresses and the time close_gracefully() takes are left out.    *)
(***************************************************************************)
EXTENDS Integers, FiniteSets

CONSTANTS
    Starter,        \* threads of the program that start the server ...
    Clearer,        \* ... and that clear it; they may be the same
    Async,          \* threads that start_async() creates; two are enough
    Con,            \* connections
    Limits,         \* what set_max_connections() is called with
    DefaultMax,     \* the initial max_connections, 1000
    None

User   == Starter \cup Clearer
Thread == User \cup Async

ASSUME ServerAssumption ==
    /\ User \cap Async = {} /\ None \notin User \cup Async \cup Con
    /\ IsFiniteSet(Con) /\ Limits \subseteq Nat /\ DefaultMax \in Nat

VARIABLES
    shutting_down, running, sock, max_connections, thread_count, cons,
    running_mutex,          \* the user in start_async() that holds it, or None
    async_start_thread,     \* the thread that start_async() created last, or None
    pc, client,             \* of the threads in start(), start_async() and clear()
    asleep,                 \* the threads that wait on the signaler of their pc
    state,                  \* of each connection and the thread that serves it
    shut,                   \* the connections that were shut down
    disturbed,              \* history: the server was started during a clear(),
    late,                   \* the connections added to cons after a clear() swept it,
    limit                   \* and the limit that the listener last found room below

socket    == <<running, sock, running_mutex, async_start_thread, disturbed>>
listening == <<socket, limit>>
serving   == <<thread_count, cons, state, shut, late>>
vars      == <<shutting_down, max_connections, listening, serving, pc, client, asleep>>

Init ==
    /\ shutting_down = FALSE /\ running = FALSE /\ sock = FALSE
    /\ max_connections = DefaultMax
    /\ thread_count = 0 /\ cons = {}
    /\ running_mutex = None /\ async_start_thread = None
    /\ pc = [t \in Thread |-> "idle"]
    /\ client = [t \in Thread |-> None]
    /\ asleep = {}
    /\ state = [c \in Con |-> "none"]
    /\ shut = {} /\ disturbed = FALSE /\ late = {} /\ limit = 0

Goes(t, from, to) == pc[t] = from /\ pc' = [pc EXCEPT ![t] = to]

InClear(t) == pc[t] \in {"clear", "reset", "sweep", "until zero", "until stopped", "cleared"}

(* What broadcast() leaves asleep of the threads that wait at step. *)
Broadcast(step) == {t \in asleep : pc[t] # step}

-----------------------------------------------------------------------------
(* clear(), in its own thread or at the end of a listener that failed. *)
clear(u) ==
    /\ Goes(u, "idle", "clear")
    /\ UNCHANGED <<shutting_down, max_connections, listening, serving, client, asleep>>

ClearBegins(t) ==
    /\ Goes(t, "clear", "reset")
    /\ shutting_down' = TRUE
    /\ UNCHANGED <<max_connections, listening, serving, client, asleep>>

ClearResets(t) ==
    /\ Goes(t, "reset", "sweep")
    /\ max_connections' = DefaultMax
    /\ UNCHANGED <<shutting_down, listening, serving, client, asleep>>

(* Mutant: the connections are forgotten, and not shut down. *)
SweepsOnly(t) ==
    /\ Goes(t, "sweep", "until zero")
    /\ cons' = {}
    /\ UNCHANGED <<shutting_down, max_connections, listening, thread_count, state, shut,
                   late, client, asleep>>

Sweep(t) ==
    /\ Goes(t, "sweep", "until zero")
    /\ shut' = shut \cup cons
    /\ cons' = {}
    /\ UNCHANGED <<shutting_down, max_connections, listening, thread_count, state, late,
                   client, asleep>>

(* A wait loop: t goes on unless cond holds, and sleeps otherwise. *)
WaitLoop(t, cond, next) ==
    /\ t \notin asleep
    /\ \/ cond /\ asleep' = asleep \cup {t} /\ UNCHANGED pc
       \/ ~cond /\ pc' = [pc EXCEPT ![t] = next] /\ UNCHANGED asleep

WaitForZero(t) ==
    /\ pc[t] = "until zero"
    /\ WaitLoop(t, thread_count > 0, "until stopped")
    /\ UNCHANGED <<shutting_down, max_connections, listening, serving, client>>

WaitForListener(t) ==
    /\ pc[t] = "until stopped" /\ running_mutex = None
    /\ WaitLoop(t, running, "cleared")
    /\ UNCHANGED <<shutting_down, max_connections, listening, serving, client>>

ClearEnds(t) ==
    /\ Goes(t, "cleared", "idle")
    /\ shutting_down' = FALSE
    /\ UNCHANGED <<max_connections, listening, serving, client, asleep>>

-----------------------------------------------------------------------------
(* open_listening_socket(), with the socket still to be created. *)
OpenFails == max_connections' = DefaultMax /\ UNCHANGED <<sock, running, disturbed, limit>>

OpenSucceeds ==
    /\ sock' = TRUE /\ running' = TRUE /\ limit' = 0
    /\ disturbed' = (disturbed \/ \E t \in Thread : InClear(t))
    /\ UNCHANGED max_connections

(* start_async() returns at once if the server is running. *)
start_async(u) ==
    /\ pc[u] = "idle" /\ running_mutex = None /\ ~running
    /\ \/ OpenFails /\ UNCHANGED <<pc, running_mutex>>
       \/ /\ OpenSucceeds
          /\ running_mutex' = u
          /\ \E a \in Async \ {async_start_thread} :
                /\ pc[a] = "idle"
                /\ pc' = [pc EXCEPT ![u] = "joining", ![a] = "open"]
    /\ UNCHANGED <<shutting_down, async_start_thread, serving, client, asleep>>

(* async_start_thread.reset() waits for the thread it replaces; the new one
   cannot go on before.  *)
Joined(u) ==
    /\ async_start_thread # None => pc[async_start_thread] = "idle"
    /\ Goes(u, "joining", "idle")
    /\ async_start_thread' = CHOOSE a \in Async : pc[a] = "open"
    /\ running_mutex' = None
    /\ UNCHANGED <<shutting_down, max_connections, running, sock, disturbed, limit, serving,
                   client, asleep>>

(* start() requires that the server is not running, and nobody starts it
   before start() has opened the socket.  *)
start(u) ==
    /\ pc[u] = "idle" /\ running_mutex = None /\ ~running
    /\ \/ OpenFails /\ UNCHANGED pc
       \/ OpenSucceeds /\ Goes(u, "idle", "accept")
    /\ UNCHANGED <<shutting_down, running_mutex, async_start_thread, serving, client, asleep>>

(* The thread of start_async() finds the socket open. *)
OpenAgain(t) ==
    /\ running_mutex = None
    /\ Goes(t, "open", "accept")
    /\ running' = TRUE
    /\ UNCHANGED <<shutting_down, max_connections, sock, running_mutex, async_start_thread,
                   disturbed, limit, serving, client, asleep>>

-----------------------------------------------------------------------------
(* accept() of the listener t fails, times out or returns a connection. *)
Accept(t) ==
    /\ \/ Goes(t, "accept", "failed") /\ UNCHANGED <<client, state>>
       \/ Goes(t, "accept", "accepted") /\ UNCHANGED <<client, state>>
       \/ /\ Goes(t, "accept", "accepted")
          /\ \E c \in Con :
                /\ state[c] = "none"
                /\ state' = [state EXCEPT ![c] = "accepted"]
                /\ client' = [client EXCEPT ![t] = c]
    /\ UNCHANGED <<shutting_down, max_connections, listening, thread_count, cons, shut, late,
                   asleep>>

(* The new connection is deleted again. *)
DeleteClient(t) ==
    /\ state' = [c \in Con |-> IF c = client[t] THEN "none" ELSE state[c]]
    /\ client' = [client EXCEPT ![t] = None]

LooksAtShuttingDown(t) ==
    /\ \/ shutting_down /\ Goes(t, "accepted", "stopping") /\ DeleteClient(t)
       \/ ~shutting_down /\ client[t] = None /\ Goes(t, "accepted", "accept")
          /\ UNCHANGED <<client, state>>
       \/ ~shutting_down /\ client[t] # None /\ Goes(t, "accepted", "add")
          /\ UNCHANGED <<client, state>>
    /\ UNCHANGED <<shutting_down, max_connections, listening, thread_count, cons, shut, late,
                   asleep>>

Add(t) ==
    /\ Goes(t, "add", "create")
    /\ cons' = cons \cup {client[t]}
    /\ late' = IF \E s \in Thread : pc[s] \in {"until zero", "until stopped"}
               THEN late \cup {client[t]} ELSE late
    /\ UNCHANGED <<shutting_down, max_connections, listening, thread_count, state, shut,
                   client, asleep>>

(* create_new_thread() succeeds or fails. *)
Create(t) ==
    /\ \/ /\ Goes(t, "create", "count")
          /\ state' = [state EXCEPT ![client[t]] = "on_connect"]
          /\ client' = [client EXCEPT ![t] = None]
          /\ UNCHANGED <<sock, cons, shut, late>>
       \/ /\ Goes(t, "create", "failed")
          /\ sock' = FALSE
          /\ cons' = cons \ {client[t]}
          /\ shut' = shut \ {client[t]} /\ late' = late \ {client[t]}
          /\ DeleteClient(t)
    /\ UNCHANGED <<shutting_down, max_connections, running, running_mutex, async_start_thread,
                   disturbed, limit, thread_count, asleep>>

Count(t) ==
    /\ Goes(t, "count", "max")
    /\ thread_count' = thread_count + 1
    /\ asleep' = IF thread_count' = 0 THEN Broadcast("until zero") ELSE asleep
    /\ UNCHANGED <<shutting_down, max_connections, listening, cons, state, shut, late,
                   client>>

(* Mutant: off by one. *)
FullTooLate == thread_count > max_connections

Full == thread_count >= max_connections

CheckMax(t) ==
    /\ \/ /\ max_connections = 0 \/ ~Full
          /\ Goes(t, "max", "accept") /\ limit' = max_connections /\ UNCHANGED asleep
       \/ /\ max_connections # 0 /\ Full
          /\ Goes(t, "max", "full") /\ asleep' = asleep \cup {t} /\ UNCHANGED limit
    /\ UNCHANGED <<shutting_down, max_connections, socket, serving, client>>

(* The listener was woken by the end of a connection. *)
ChecksMaxAgain(t) ==
    /\ pc[t] = "full" /\ t \notin asleep
    /\ \/ shutting_down /\ Goes(t, "full", "stopping") /\ UNCHANGED <<asleep, limit>>
       \/ /\ ~shutting_down /\ WaitLoop(t, Full, "accept")
          /\ limit' = IF Full THEN limit ELSE max_connections
    /\ UNCHANGED <<shutting_down, max_connections, socket, serving, client>>

(* Mutant: clear() is not told. *)
StopsQuietly(t) ==
    /\ running_mutex = None
    /\ Goes(t, "stopping", "idle") \/ Goes(t, "failed", "clear")
    /\ sock' = FALSE /\ running' = FALSE
    /\ UNCHANGED <<shutting_down, max_connections, running_mutex, async_start_thread,
                   disturbed, limit, serving, client, asleep>>

(* The listener ends; after an error it goes on to clear(), and then throws. *)
Stops(t) ==
    /\ running_mutex = None
    /\ Goes(t, "stopping", "idle") \/ Goes(t, "failed", "clear")
    /\ sock' = FALSE /\ running' = FALSE
    /\ asleep' = Broadcast("until stopped")
    /\ UNCHANGED <<shutting_down, max_connections, running_mutex, async_start_thread,
                   disturbed, limit, serving, client>>

-----------------------------------------------------------------------------
(* Mutant: the connection is left in cons. *)
LeavesCons(c) ==
    /\ state[c] = "on_connect"
    /\ state' = [state EXCEPT ![c] = "closing"]
    /\ UNCHANGED <<shutting_down, max_connections, listening, cons, thread_count, shut,
                   late, pc, client, asleep>>

(* on_connect() returns, and service_connection() takes c out of cons ... *)
Leaves(c) ==
    /\ state[c] = "on_connect"
    /\ state' = [state EXCEPT ![c] = "closing"]
    /\ cons' = cons \ {c}
    /\ UNCHANGED <<shutting_down, max_connections, listening, thread_count, shut, late,
                   pc, client, asleep>>

(* Mutant: the count is kept from becoming negative. *)
ThreadEndsAboveZero(c) ==
    /\ state[c] = "closing"
    /\ state' = [state EXCEPT ![c] = "none"]
    /\ shut' = shut \ {c} /\ late' = late \ {c}
    /\ thread_count' = IF thread_count > 0 THEN thread_count - 1 ELSE 0
    /\ asleep' = IF thread_count' = 0
                 THEN Broadcast("full") \cap Broadcast("until zero") ELSE Broadcast("full")
    /\ UNCHANGED <<shutting_down, max_connections, listening, cons, pc, client>>

(* ... closes it, which deletes it, and ends. *)
ThreadEnds(c) ==
    /\ state[c] = "closing"
    /\ state' = [state EXCEPT ![c] = "none"]
    /\ shut' = shut \ {c} /\ late' = late \ {c}
    /\ thread_count' = thread_count - 1
    /\ asleep' = IF thread_count' = 0
                 THEN Broadcast("full") \cap Broadcast("until zero") ELSE Broadcast("full")
    /\ UNCHANGED <<shutting_down, max_connections, listening, cons, pc, client>>

set_max_connections(u, max) ==
    /\ pc[u] = "idle"
    /\ max_connections' = max
    /\ UNCHANGED <<shutting_down, listening, serving, pc, client, asleep>>

Listener(t) ==
    \/ OpenAgain(t) \/ Accept(t) \/ LooksAtShuttingDown(t) \/ Add(t) \/ Create(t)
    \/ Count(t) \/ CheckMax(t) \/ ChecksMaxAgain(t) \/ Stops(t)

Clearing(t) ==
    \/ ClearBegins(t) \/ ClearResets(t) \/ Sweep(t)
    \/ WaitForZero(t) \/ WaitForListener(t) \/ ClearEnds(t)

Next ==
    \/ \E u \in Starter : start(u) \/ start_async(u) \/ Joined(u)
    \/ \E u \in Clearer : clear(u)
    \/ \E u \in User, max \in Limits : set_max_connections(u, max)
    \/ \E t \in Thread : Listener(t) \/ Clearing(t)
    \/ \E c \in Con : Leaves(c) \/ ThreadEnds(c)

Spec == Init /\ [][Next]_vars

(***************************************************************************)
(* Threads that can go on do so, accept() returns within its timeout, and  *)
(* on_connect() returns some time after its connection was shut down.  It  *)
(* may return at any time for another connection, and need not.            *)
(***************************************************************************)
FairSpec ==
    /\ Spec
    /\ \A t \in Thread : WF_vars(Listener(t)) /\ WF_vars(Clearing(t))
    /\ \A u \in Starter : WF_vars(Joined(u))
    /\ \A c \in Con : WF_vars(c \in shut /\ Leaves(c)) /\ WF_vars(ThreadEnds(c))

-----------------------------------------------------------------------------
Listeners == {t \in Thread : ~InClear(t) /\ pc[t] \notin {"idle", "joining"}}

Served == {c \in Con : state[c] \in {"on_connect", "closing"}}

(* clear() may run at any moment, and shuts down what it finds in cons: that
   is never a connection that its thread is closing or has deleted, nor one
   that the listener has deleted.  A server that is accepting has one
   listener, which alone uses the socket.  *)
ConsAreOpen ==
    /\ \A c \in cons : state[c] \in {"accepted", "on_connect"}
    /\ Cardinality(Listeners) <= 1
    /\ Listeners # {} => running /\ (sock \/ \E t \in Listeners : pc[t] = "failed")

(* thread_count, which is increased after the thread was created and may be
   -1, counts the threads but for the one that the listener has yet to count;
   so clear() may be early for one connection, and never for two.  *)
ThreadCountExact ==
    thread_count = Cardinality(Served) - Cardinality({t \in Thread : pc[t] = "count"})

(* The listener is in accept() only with fewer connections open than the limit
   that it has last found room below, although it counts them by a thread_count
   that lags behind, and sleeps with one mutex given up while the limit and the
   threads change.  It looks at the limit after a connection only: not before
   its first accept(), where limit is 0, and not after one that timed out, so
   that a lower limit, set while it is in accept(), holds from the next but one
   connection on.  *)
AcceptBelowMax ==
    \A t \in Thread : pc[t] = "accept" => limit = 0 \/ Cardinality(Served) < limit

(* clear() returns, if the server is never started during a clear(), unless it
   waits for a connection that the listener added after clear() had swept cons,
   that nobody shuts down and that does not close by itself.  In particular the
   listener is never left asleep, nor a connection of cons unshut.  *)
ClearReturns ==
    \A t \in Thread : <>[]InClear(t) => <>[](disturbed \/ \E c \in late : state[c] = "on_connect")

(* "clear() function does not return until all calls to on_connect() have
   finished and the start() function has been shutdown".  *)
ClearWaitsForAll ==
    \A u \in User : pc[u] = "cleared" /\ ~running =>
        \A c \in Con : state[c] # "on_connect"
=============================================================================
