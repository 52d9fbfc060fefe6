------------------------ MODULE ThreadedObjectProofs ------------------------
(***************************************************************************)
(* Proofs about ThreadedObject, for any number of clients.                 *)
(***************************************************************************)
EXTENDS ThreadedObject, TLAPS

(***************************************************************************)
(* Why a restart is not lost, and a respawn not repeated: once thread()    *)
(* has been entered, should_respawn_ is set while a restart is owed, and   *)
(* only if somebody asked for a respawn since.                             *)
(***************************************************************************)
RespawnFlag ==
    \A h \in Helper : pc[h] \in {"thread", "paused", "returned"} =>
        (owed => should_respawn_) /\ (should_respawn_ => asked)

Inv == TypeOK /\ OneThreadIfAlive /\ NobodyOverlooked /\ RestartNotLost /\ RespawnFlag

LEMMA InvInit == Init => Inv
BY ThreadedObjectAssumption
DEF Init, Inv, TypeOK, OneThreadIfAlive, NobodyOverlooked, RestartNotLost, RespawnFlag

(* start() and restart(), with or without a thread to create. *)
LEMMA CreationKeeps ==
    ASSUME Inv, start \/ restart
    PROVE  Inv'
<1> USE ThreadedObjectAssumption DEF Inv
<1>1. CASE CreationFails
  BY <1>1 DEF CreationFails, TypeOK, OneThreadIfAlive, NobodyOverlooked, RestartNotLost, RespawnFlag
<1>2. CASE ~CreationFails
  <2>1. Running /\ IF is_alive_ THEN UNCHANGED pc ELSE Creates
    BY <1>2 DEF start, restart
  <2>2. owed' \in BOOLEAN /\ asked' \in BOOLEAN /\ should_respawn_' \in BOOLEAN
    BY <1>2 DEF start, restart, TypeOK
  <2>3. TypeOK'
    BY <2>1, <2>2 DEF TypeOK, Running, Creates, Broadcast
  <2>4. OneThreadIfAlive'
    BY <2>1 DEF TypeOK, OneThreadIfAlive, Running, Creates
  <2>5. NobodyOverlooked' /\ RestartNotLost'
    BY <2>1 DEF NobodyOverlooked, RestartNotLost, Running, Broadcast
  <2>6. RespawnFlag'
    <3>1. CASE is_alive_
      BY <1>2, <2>1, <3>1 DEF RespawnFlag, start, restart, TypeOK
    <3>2. CASE ~is_alive_
      <4>1. \A h \in Helper : pc[h] = "none"
        BY <3>2 DEF OneThreadIfAlive
      <4> QED
        BY <2>1, <3>2, <4>1 DEF RespawnFlag, Creates, TypeOK
    <3> QED
      BY <3>1, <3>2
  <2> QED
    BY <2>3, <2>4, <2>5, <2>6
<1> QED
  BY <1>1, <1>2

(* The calls that only set flags, and wait(). *)
LEMMA CallKeeps ==
    ASSUME Inv, set_respawn \/ pause \/ stop \/ SpuriousWakeUp \/ \E c \in Client : wait(c)
    PROVE  Inv'
<1> USE ThreadedObjectAssumption
        DEF Inv, TypeOK, OneThreadIfAlive, NobodyOverlooked, RestartNotLost, RespawnFlag
<1>1. CASE set_respawn
  BY <1>1 DEF set_respawn
<1>2. CASE pause
  BY <1>2 DEF pause
<1>3. CASE stop
  BY <1>3 DEF stop, Broadcast
<1>4. CASE SpuriousWakeUp
  BY <1>4 DEF SpuriousWakeUp, flags
<1>5. ASSUME NEW c \in Client, wait(c)
      PROVE  Inv'
  BY <1>5 DEF wait, Idle, flags
<1> QED
  BY <1>1, <1>2, <1>3, <1>4, <1>5

(* The thread itself. *)
LEMMA HelperKeeps ==
    ASSUME Inv, NEW h \in Helper, thread_helper(h)
    PROVE  Inv'
<1> USE ThreadedObjectAssumption
        DEF Inv, TypeOK, OneThreadIfAlive, NobodyOverlooked, RestartNotLost, RespawnFlag
<1>1. CASE Begins(h)
  BY <1>1 DEF Begins
<1>2. CASE should_stop(h)
  BY <1>2 DEF should_stop, flags
<1>3. CASE ThreadReturns(h)
  BY <1>3 DEF ThreadReturns, flags
<1>4. CASE Respawns(h)
  BY <1>4 DEF Respawns, flags
<1>5. CASE Ends(h)
  BY <1>5 DEF Ends, Broadcast
<1> QED
  BY <1>1, <1>2, <1>3, <1>4, <1>5 DEF thread_helper

LEMMA InvNext == Inv /\ [Next]_vars => Inv'
<1>1. ASSUME Inv, UNCHANGED vars
      PROVE  Inv'
  BY <1>1 DEF vars, flags, Inv, TypeOK, OneThreadIfAlive, NobodyOverlooked, RestartNotLost, RespawnFlag
<1>2. ASSUME Inv, Next
      PROVE  Inv'
  BY <1>2, CreationKeeps, CallKeeps, HelperKeeps DEF Next, ClientCalls
<1> QED
  BY <1>1, <1>2

(* The object has one thread, and is_alive_ says so, whatever its clients do. *)
THEOREM ObjectOneThread == Spec => [](TypeOK /\ OneThreadIfAlive)
<1>1. Inv => TypeOK /\ OneThreadIfAlive
  BY DEF Inv
<1> QED
  BY <1>1, InvInit, InvNext, PTL DEF Spec

(* No thread sleeps on the signaler after what it waits for. *)
THEOREM ObjectNobodyOverlooked == Spec => []NobodyOverlooked
<1>1. Inv => NobodyOverlooked
  BY DEF Inv
<1> QED
  BY <1>1, InvInit, InvNext, PTL DEF Spec

(* restart() is followed by a run of thread() before the thread may end. *)
THEOREM ObjectRestartNotLost == Spec => []RestartNotLost
<1>1. Inv => RestartNotLost
  BY DEF Inv
<1> QED
  BY <1>1, InvInit, InvNext, PTL DEF Spec

(* The thread respawns only if a client asked for it since thread() began, *)
(* although should_respawn_ starts with any value.                         *)
THEOREM ObjectRespawnAtMostOnce == Spec => RespawnAtMostOnce
<1>1. Inv /\ [Next]_vars => [\A h \in Helper : Respawns(h) => asked]_vars
  BY DEF Inv, RespawnFlag, Respawns
<1> QED
  BY <1>1, InvInit, InvNext, PTL DEF Spec, RespawnAtMostOnce
=============================================================================
