------------------------ MODULE ReadWriteMutexProofs ------------------------
(***************************************************************************)
(* Mutual exclusion of ReadWriteMutex, for every set of threads and every  *)
(* number of locks, when threads only unlock what they have locked.        *)
(***************************************************************************)
EXTENDS ReadWriteMutex, FiniteSetTheorems, TLAPS

(* write_lock_active is the truth about the write lock, and a thread that  *)
(* is inside lock() or lock_readonly() does not have the write lock.       *)
OwnerFlag ==
    /\ write_lock_active <=> owner # {}
    /\ \A s, t \in owner : s = t
    /\ \A t \in owner : pc[t] = "idle"
    /\ \A t \in Thread : pc[t] = "read" => \E n \in 1 .. MaxHeld : <<t, n>> \notin held
    /\ IsFiniteSet(held)

RWInv == TypeOK /\ OwnerFlag /\ OneCollector /\ AllLocksAccounted

LEMMA RWInvInit == Init => RWInv
<1> SUFFICES ASSUME Init PROVE RWInv
  OBVIOUS
<1>1. In("collect") = {}
  BY DEF Init, In
<1>2. Cardinality(held) = 0 /\ IsFiniteSet(held)
  BY FS_EmptySet DEF Init
<1>3. TypeOK
  <2>1. 0 \in 0 .. max_locks /\ max_locks \in 0 .. max_locks
    BY RWAssumption
  <2> QED
    BY <2>1 DEF Init, TypeOK
<1>4. AllLocksAccounted
  BY <1>1, <1>2, RWAssumption DEF Init, AllLocksAccounted, Accounted
<1> QED
  BY <1>1, <1>2, <1>3, <1>4 DEF Init, RWInv, OwnerFlag, OneCollector

(* The accounts when one thread enters or leaves the collecting loop. *)
LEMMA CollectOK ==
    ASSUME RWInv, NEW t \in Thread, NEW got \in Nat,
           pc[t] # "read",
           t \notin owner,
           pc[t] = "collect" \/ ~ write_lock_in_progress,
           got = available_locks + (IF pc[t] = "collect" THEN locks_obtained[t] ELSE 0),
           Collect(t, got)
    PROVE  RWInv'
<1>1. /\ available_locks \in Nat /\ Cardinality(held) \in Nat
      /\ max_locks \in Nat /\ max_locks # 0
  BY RWAssumption, FS_CardinalityType DEF RWInv, OwnerFlag, TypeOK
<1>2. Accounted(IF pc[t] = "collect" THEN locks_obtained[t] ELSE 0)
  BY DEF RWInv, OneCollector, AllLocksAccounted, In
<1>3. /\ got + Cardinality(held) + (IF write_lock_active THEN max_locks ELSE 0) = max_locks
      /\ got \in 0 .. max_locks
  BY <1>1, <1>2 DEF Accounted, RWInv, TypeOK
<1>4. \A s \in Thread : pc[s] = "collect" => s = t
  BY DEF RWInv, OneCollector, In
<1>5. CASE got # max_locks
  <2>1. Collecting(t, got) /\ available_locks' = 0 /\ UNCHANGED held
    BY <1>5 DEF Collect
  <2>2. TypeOK'
    BY <1>1, <1>3, <2>1 DEF Collecting, Parks, RWInv, TypeOK
  <2>3. OwnerFlag'
    BY <2>1 DEF Collecting, Parks, RWInv, OwnerFlag, TypeOK
  <2>4. In("collect")' = {t}
    BY <1>4, <2>1 DEF In, Collecting, Parks, RWInv, TypeOK
  <2>5. OneCollector'
    BY <2>1, <2>4 DEF OneCollector, Collecting
  <2>6. locks_obtained'[t] = got
    BY <2>1 DEF Collecting, RWInv, TypeOK
  <2>7. Accounted(got)'
    BY <1>1, <1>3, <2>1 DEF Accounted, Collecting
  <2>8. AllLocksAccounted'
    BY <2>4, <2>6, <2>7 DEF AllLocksAccounted
  <2> QED
    BY <2>2, <2>3, <2>5, <2>8 DEF RWInv
<1>6. CASE got = max_locks
  <2>1. WriteLocked(t) /\ available_locks' = 0 /\ UNCHANGED held
    BY <1>6 DEF Collect
  <2>2. ~ write_lock_active /\ Cardinality(held) = 0
    BY <1>1, <1>3, <1>6 DEF RWInv, TypeOK
  <2>3. TypeOK'
    <3>1. 0 \in 0 .. max_locks
      BY <1>1
    <3> QED
      BY <2>1, <3>1 DEF WriteLocked, Returns, RWInv, TypeOK
  <2>4. OwnerFlag'
    BY <2>1, <2>2 DEF WriteLocked, Returns, RWInv, OwnerFlag, TypeOK
  <2>5. In("collect")' = {}
    BY <1>4, <2>1 DEF In, WriteLocked, Returns, RWInv, TypeOK
  <2>6. OneCollector'
    BY <2>1, <2>5 DEF OneCollector, WriteLocked
  <2>7. Accounted(0)'
    BY <1>1, <2>1, <2>2 DEF Accounted, WriteLocked
  <2>8. AllLocksAccounted'
    BY <2>5, <2>7 DEF AllLocksAccounted
  <2> QED
    BY <2>3, <2>4, <2>6, <2>8 DEF RWInv
<1> QED
  BY <1>5, <1>6

LEMMA TurnOK ==
    ASSUME RWInv, NEW t \in Thread, pc[t] \in {"idle", "turn"}, t \notin owner, Turn(t)
    PROVE  RWInv'
<1>1. CASE write_lock_in_progress /\ Parks(t, "turn")
           /\ UNCHANGED <<available_locks, write_lock_in_progress,
                          write_lock_active, locks_obtained, owner, held>>
  <2>1. TypeOK'
    BY <1>1 DEF Parks, RWInv, TypeOK
  <2>2. OwnerFlag'
    BY <1>1 DEF Parks, RWInv, OwnerFlag, TypeOK
  <2>3. In("collect")' = In("collect")
    BY <1>1 DEF In, Parks, RWInv, TypeOK
  <2>4. OneCollector' /\ AllLocksAccounted'
    BY <1>1, <2>3 DEF RWInv, OneCollector, AllLocksAccounted, Accounted
  <2> QED
    BY <2>1, <2>2, <2>4 DEF RWInv
<1>2. CASE ~ write_lock_in_progress /\ Collect(t, available_locks)
  <2>1. available_locks \in Nat /\ available_locks = available_locks + 0
    BY RWAssumption DEF RWInv, TypeOK
  <2> QED
    BY <1>2, <2>1, CollectOK
<1> QED
  BY <1>1, <1>2 DEF Turn

LEMMA ReadOK ==
    ASSUME RWInv, NEW t \in Thread, pc[t] \in {"idle", "read"}, t \notin owner,
           \E n \in 1 .. MaxHeld : <<t, n>> \notin held,
           Read(t),
           UNCHANGED <<write_lock_in_progress, write_lock_active, locks_obtained, owner>>
    PROVE  RWInv'
<1>1. In("collect")' = In("collect")
  BY DEF In, Read, Parks, Returns, RWInv, TypeOK
<1>2. OneCollector'
  BY <1>1 DEF RWInv, OneCollector
<1>3. CASE Parks(t, "read") /\ UNCHANGED <<available_locks, held>>
  <2>1. TypeOK'
    BY <1>3 DEF Parks, RWInv, TypeOK
  <2>2. OwnerFlag'
    BY <1>3 DEF Parks, RWInv, OwnerFlag, TypeOK
  <2>3. AllLocksAccounted'
    BY <1>1, <1>3 DEF RWInv, AllLocksAccounted, Accounted
  <2> QED
    BY <1>2, <2>1, <2>2, <2>3 DEF RWInv
<1>4. CASE available_locks # 0 /\ available_locks' = available_locks - 1 /\ Returns(t)
           /\ held' = held \cup {<<t, CHOOSE n \in 1 .. MaxHeld : <<t, n>> \notin held>>}
  <2> DEFINE k == CHOOSE n \in 1 .. MaxHeld : <<t, n>> \notin held
  <2>1. k \in 1 .. MaxHeld /\ <<t, k>> \notin held
    OBVIOUS
  <2>2. held' = held \cup {<<t, k>>}
    BY <1>4
  <2> HIDE DEF k
  <2>3. /\ IsFiniteSet(held') /\ Cardinality(held) \in Nat
        /\ Cardinality(held') = Cardinality(held) + 1
    BY <2>1, <2>2, FS_AddElement, FS_CardinalityType DEF RWInv, OwnerFlag
  <2>4. available_locks \in Nat /\ available_locks <= max_locks /\ max_locks \in Nat
    BY RWAssumption DEF RWInv, TypeOK
  <2>5. available_locks' \in 0 .. max_locks
    BY <1>4, <2>4
  <2>6. TypeOK'
    BY <1>4, <2>1, <2>2, <2>5 DEF Returns, RWInv, TypeOK, Tokens
  <2>7. OwnerFlag'
    <3>1. \A s \in Thread : pc'[s] = "read" => \E n \in 1 .. MaxHeld : <<s, n>> \notin held'
      BY <1>4, <2>2 DEF Returns, RWInv, OwnerFlag, TypeOK
    <3> QED
      BY <1>4, <2>3, <3>1 DEF Returns, RWInv, OwnerFlag, TypeOK
  <2>8. \A c \in Nat : Accounted(c) => Accounted(c)'
    BY <1>4, <2>3, <2>4 DEF Accounted
  <2>9. AllLocksAccounted'
    <3>1. \A s \in In("collect") : locks_obtained[s] \in Nat
      BY RWAssumption DEF RWInv, TypeOK, In
    <3>2. ASSUME NEW s \in In("collect") PROVE Accounted(locks_obtained[s])'
      <4>1. Accounted(locks_obtained[s])
        BY <3>2 DEF RWInv, AllLocksAccounted
      <4> QED
        BY <1>4, <2>3, <2>4, <3>1, <3>2, <4>1 DEF Accounted
    <3> QED
      BY <1>1, <2>8, <3>2 DEF RWInv, AllLocksAccounted
  <2> QED
    BY <1>2, <2>6, <2>7, <2>9 DEF RWInv
<1> QED
  BY <1>3, <1>4 DEF Read

LEMMA UnlockOK ==
    ASSUME RWInv, NEW t \in Thread, unlock(t), owner # {}
    PROVE  RWInv'
<1>1. write_lock_active /\ owner = {t} /\ pc[t] = "idle"
  BY DEF unlock, RWInv, OwnerFlag
<1>2. /\ available_locks' = max_locks
      /\ write_lock_active' = FALSE
      /\ wait' = Broadcast
      /\ owner' = {}
      /\ UNCHANGED <<write_lock_in_progress, locks_obtained, pc, held>>
  BY <1>1 DEF unlock
<1>3. /\ available_locks \in Nat /\ max_locks \in Nat /\ max_locks # 0
      /\ Cardinality(held) \in Nat
      /\ \A s \in Thread : locks_obtained[s] \in Nat
  BY RWAssumption, FS_CardinalityType DEF RWInv, OwnerFlag, TypeOK
<1>4. max_locks \in 0 .. max_locks
  BY <1>3
<1>5. TypeOK'
  BY <1>2, <1>4 DEF RWInv, TypeOK, Broadcast
<1>6. OwnerFlag'
  BY <1>2 DEF RWInv, OwnerFlag
<1>7. In("collect")' = In("collect")
  BY <1>2 DEF In
<1>8. OneCollector'
  BY <1>2, <1>7 DEF RWInv, OneCollector
<1>9. ASSUME NEW c \in Nat, Accounted(c) PROVE Accounted(c)'
  <2>1. available_locks + c + Cardinality(held) + max_locks = max_locks
    BY <1>1, <1>9 DEF Accounted
  <2>2. max_locks + c + Cardinality(held) + 0 = max_locks
    BY <1>3, <2>1
  <2> QED
    BY <1>2, <2>2 DEF Accounted
<1>10. AllLocksAccounted'
  <2>1. ASSUME NEW s \in In("collect") PROVE Accounted(locks_obtained[s])'
    <3>1. Accounted(locks_obtained[s]) /\ s \in Thread
      BY <2>1 DEF RWInv, AllLocksAccounted, In
    <3> QED
      BY <1>1, <1>2, <1>3, <3>1 DEF Accounted
  <2> QED
    BY <1>7, <1>9, <2>1 DEF RWInv, AllLocksAccounted
<1> QED
  BY <1>5, <1>6, <1>8, <1>10 DEF RWInv

LEMMA UnlockReadonlyOK ==
    ASSUME RWInv, NEW t \in Thread, unlock_readonly(t),
           NEW h \in HeldBy(t), held' = held \ {h}
    PROVE  RWInv'
<1>1. held' = held \ {h}
  OBVIOUS
<1>2. /\ h \in held /\ Cardinality(held) \in Nat /\ Cardinality(held) # 0
      /\ IsFiniteSet(held')
      /\ Cardinality(held') = Cardinality(held) - 1
  BY <1>1, FS_RemoveElement, FS_CardinalityType, FS_EmptySet DEF RWInv, OwnerFlag, HeldBy
<1>3. /\ available_locks \in Nat /\ max_locks \in Nat
      /\ \A s \in Thread : locks_obtained[s] \in Nat
  BY RWAssumption DEF RWInv, TypeOK
<1>4. \E c \in Nat : Accounted(c)
  <2>1. CASE In("collect") = {}
    BY <2>1 DEF RWInv, AllLocksAccounted
  <2>2. CASE In("collect") # {}
    BY <1>3, <2>2 DEF RWInv, AllLocksAccounted, In
  <2> QED
    BY <2>1, <2>2
<1>5. available_locks # max_locks /\ ~ write_lock_active
  <2>1. available_locks < max_locks
    BY <1>2, <1>3, <1>4 DEF Accounted
  <2>2. ~ write_lock_active
    BY <1>2, <1>3, <1>4 DEF Accounted
  <2> QED
    BY <1>3, <2>1, <2>2
<1>6. /\ available_locks' = available_locks + 1
      /\ wait' = IF Listening(available_locks + 1) THEN Broadcast ELSE wait
      /\ UNCHANGED <<write_lock_in_progress, write_lock_active, locks_obtained, pc, owner>>
  BY <1>5 DEF unlock_readonly, GiveBack
<1>7. available_locks' \in 0 .. max_locks
  BY <1>3, <1>5, <1>6 DEF RWInv, TypeOK
<1>8. TypeOK'
  BY <1>1, <1>6, <1>7 DEF RWInv, TypeOK, Broadcast
<1>9. OwnerFlag'
  BY <1>1, <1>2, <1>6 DEF RWInv, OwnerFlag
<1>10. In("collect")' = In("collect")
  BY <1>6 DEF In
<1>11. OneCollector'
  BY <1>6, <1>10 DEF RWInv, OneCollector
<1>12. ASSUME NEW c \in Nat, Accounted(c) PROVE Accounted(c)'
  BY <1>2, <1>3, <1>5, <1>6, <1>12 DEF Accounted
<1>13. AllLocksAccounted'
  <2>1. ASSUME NEW s \in In("collect") PROVE Accounted(locks_obtained[s])'
    <3>1. Accounted(locks_obtained[s]) /\ s \in Thread
      BY <2>1 DEF RWInv, AllLocksAccounted, In
    <3> QED
      BY <1>2, <1>3, <1>5, <1>6, <3>1 DEF Accounted
  <2> QED
    BY <1>10, <1>12, <2>1 DEF RWInv, AllLocksAccounted
<1> QED
  BY <1>8, <1>9, <1>11, <1>13 DEF RWInv

-----------------------------------------------------------------------------
LEMMA VarsOK ==
    ASSUME RWInv, UNCHANGED vars
    PROVE  RWInv'
BY DEF vars, RWInv, TypeOK, OwnerFlag, OneCollector, AllLocksAccounted, Accounted, In

(* unlock and unlock_readonly have no effect when there is nothing to      *)
(* unlock and no thread collects.                                          *)
LEMMA StrayOK ==
    ASSUME RWInv, ~ StrayUnlock, NEW t \in Thread,
           (unlock(t) /\ owner = {}) \/ (unlock_readonly(t) /\ Stray)
    PROVE  RWInv'
<1>1. CASE unlock(t) /\ owner = {}
  BY <1>1, VarsOK DEF unlock, vars, RWInv, OwnerFlag
<1>2. CASE unlock_readonly(t) /\ Stray
  <2>1. In("collect") = {} /\ held = {}
    BY <1>2 DEF Stray, In
  <2>2. Accounted(0) /\ Cardinality(held) = 0
    BY <2>1, FS_EmptySet DEF RWInv, AllLocksAccounted
  <2>3. available_locks \in Nat /\ max_locks \in Nat
    BY RWAssumption DEF RWInv, TypeOK
  <2>4. ~ write_lock_active => available_locks = max_locks
    BY <2>2, <2>3 DEF Accounted
  <2>5. UNCHANGED vars
    BY <1>2, <2>4 DEF unlock_readonly, Stray, GiveBack, vars
  <2> QED
    BY <2>5, VarsOK
<1> QED
  BY <1>1, <1>2

LEMMA RWInvNext == ~ StrayUnlock => (RWInv /\ [Next]_vars => RWInv')
<1> SUFFICES ASSUME ~ StrayUnlock, RWInv, [Next]_vars PROVE RWInv'
  OBVIOUS
<1>1. CASE UNCHANGED vars
  BY <1>1, VarsOK
<1>2. ASSUME NEW t \in Thread, Locks(t) PROVE RWInv'
  <2>1. CASE lock(t)
    BY <2>1, TurnOK DEF lock
  <2>2. CASE lock_readonly(t)
    BY <2>2, ReadOK DEF lock_readonly
  <2> QED
    BY <1>2, <2>1, <2>2 DEF Locks
<1>3. ASSUME NEW t \in Thread, Unlocks(t) PROVE RWInv'
  <2>1. CASE unlock(t)
    BY <2>1, UnlockOK, StrayOK
  <2>2. CASE unlock_readonly(t)
    <3>1. CASE Stray
      BY <2>2, <3>1, StrayOK
    <3>2. CASE \E h \in HeldBy(t) : held' = held \ {h}
      BY <2>2, <3>2, UnlockReadonlyOK
    <3> QED
      BY <2>2, <3>1, <3>2 DEF unlock_readonly
  <2> QED
    BY <1>3, <2>1, <2>2 DEF Unlocks
<1>4. ASSUME NEW t \in Thread, Resumes(t) PROVE RWInv'
  <2>0. pc[t] # "idle" => t \notin owner
    BY DEF RWInv, OwnerFlag
  <2>1. CASE TurnResumes(t)
    BY <2>0, <2>1, TurnOK DEF TurnResumes, Wakes
  <2>2. CASE CollectResumes(t)
    <3>1. pc[t] = "collect" /\ Collect(t, locks_obtained[t] + available_locks)
      BY <2>2 DEF CollectResumes, Wakes
    <3>2. /\ locks_obtained[t] + available_locks \in Nat
          /\ locks_obtained[t] + available_locks = available_locks + locks_obtained[t]
      BY RWAssumption DEF RWInv, TypeOK
    <3> QED
      BY <2>0, <3>1, <3>2, CollectOK
  <2>3. CASE ReadResumes(t)
    <3>1. pc[t] = "read" /\ Read(t) /\ t \notin owner
      BY <2>0, <2>3 DEF ReadResumes, Wakes
    <3>2. \E n \in 1 .. MaxHeld : <<t, n>> \notin held
      BY <3>1 DEF RWInv, OwnerFlag
    <3> QED
      BY <2>3, <3>1, <3>2, ReadOK DEF ReadResumes
  <2> QED
    BY <1>4, <2>1, <2>2, <2>3 DEF Resumes
<1>5. ASSUME NEW t \in Thread, SpuriousWakeUp(t) PROVE RWInv'
  BY <1>5 DEF SpuriousWakeUp, RWInv, TypeOK, OwnerFlag, OneCollector,
              AllLocksAccounted, Accounted, In
<1> QED
  BY <1>1, <1>2, <1>3, <1>4, <1>5 DEF Next

LEMMA RWInvImplies == RWInv => MutualExclusion
<1> SUFFICES ASSUME RWInv PROVE MutualExclusion
  OBVIOUS
<1>1. /\ available_locks \in Nat /\ max_locks \in Nat /\ max_locks # 0
      /\ Cardinality(held) \in Nat
      /\ \A s \in Thread : locks_obtained[s] \in Nat
  BY RWAssumption, FS_CardinalityType DEF RWInv, OwnerFlag, TypeOK
<1>2. \E c \in Nat : Accounted(c)
  <2>1. CASE In("collect") = {}
    BY <2>1 DEF RWInv, AllLocksAccounted
  <2>2. CASE In("collect") # {}
    BY <1>1, <2>2 DEF RWInv, AllLocksAccounted, In
  <2> QED
    BY <2>1, <2>2
<1>3. Cardinality(held) <= max_locks
  BY <1>1, <1>2 DEF Accounted
<1>4. write_lock_active => Cardinality(held) = 0
  BY <1>1, <1>2 DEF Accounted
<1>5. owner # {} => held = {}
  BY <1>4, FS_EmptySet DEF RWInv, OwnerFlag
<1> QED
  BY <1>3, <1>5 DEF MutualExclusion, RWInv, OwnerFlag

(* A write lock excludes every other lock, whatever the interleaving of    *)
(* lock, unlock, lock_readonly and unlock_readonly and of the waits inside *)
(* them: the collecting loop of lock() returns only with all the locks.    *)
THEOREM RWMutualExclusion ==
    ASSUME ~ StrayUnlock PROVE Spec => []MutualExclusion
<1>1. RWInv /\ [Next]_vars => RWInv'
  BY RWInvNext
<1> QED
  BY <1>1, RWInvInit, RWInvImplies, PTL DEF Spec

(* No lock is ever lost or created, and one thread at a time collects.     *)
THEOREM RWAllLocksAccounted ==
    ASSUME ~ StrayUnlock PROVE Spec => [](TypeOK /\ OneCollector /\ AllLocksAccounted)
<1>1. RWInv /\ [Next]_vars => RWInv'
  BY RWInvNext
<1>2. RWInv => TypeOK /\ OneCollector /\ AllLocksAccounted
  BY DEF RWInv
<1> QED
  BY <1>1, <1>2, RWInvInit, PTL DEF Spec

-----------------------------------------------------------------------------
(* NobodyOverlooked is inductive given the types. *)
LEMMA CollectOverlooksNobody ==
    ASSUME TypeOK, NobodyOverlooked, NEW t \in Thread, NEW got, Collect(t, got)
    PROVE  NobodyOverlooked'
<1>1. CASE Collecting(t, got) /\ available_locks' = 0
  BY <1>1 DEF Collecting, Parks, TypeOK, NobodyOverlooked
<1>2. CASE WriteLocked(t) /\ available_locks' = 0
  BY <1>2 DEF WriteLocked, Returns, TypeOK, NobodyOverlooked
<1> QED
  BY <1>1, <1>2 DEF Collect

LEMMA TurnOverlooksNobody ==
    ASSUME TypeOK, NobodyOverlooked, NEW t \in Thread, Turn(t)
    PROVE  NobodyOverlooked'
<1>1. CASE write_lock_in_progress /\ Parks(t, "turn")
           /\ UNCHANGED <<available_locks, write_lock_in_progress, write_lock_active>>
  BY <1>1 DEF Parks, TypeOK, NobodyOverlooked
<1> QED
  BY <1>1, CollectOverlooksNobody DEF Turn

LEMMA ReadOverlooksNobody ==
    ASSUME TypeOK, NobodyOverlooked, NEW t \in Thread, Read(t),
           UNCHANGED <<write_lock_in_progress, write_lock_active>>
    PROVE  NobodyOverlooked'
<1>1. CASE available_locks = 0 /\ Parks(t, "read") /\ UNCHANGED available_locks
  BY <1>1 DEF Parks, TypeOK, NobodyOverlooked
<1>2. CASE available_locks # 0 /\ Returns(t)
  BY <1>2 DEF Returns, TypeOK, NobodyOverlooked
<1> QED
  BY <1>1, <1>2 DEF Read

LEMMA OverlookedNext == TypeOK /\ NobodyOverlooked /\ [Next]_vars => NobodyOverlooked'
<1> SUFFICES ASSUME TypeOK, NobodyOverlooked, [Next]_vars PROVE NobodyOverlooked'
  OBVIOUS
<1>1. CASE UNCHANGED vars
  BY <1>1 DEF vars, NobodyOverlooked
<1>2. ASSUME NEW t \in Thread, Locks(t) \/ Resumes(t) PROVE NobodyOverlooked'
  BY <1>2, TurnOverlooksNobody, CollectOverlooksNobody, ReadOverlooksNobody
  DEF Locks, Resumes, lock, lock_readonly, TurnResumes, CollectResumes, ReadResumes
<1>3. ASSUME NEW t \in Thread, unlock(t) PROVE NobodyOverlooked'
  BY <1>3 DEF unlock, Broadcast, TypeOK, NobodyOverlooked
<1>4. ASSUME NEW t \in Thread, unlock_readonly(t) PROVE NobodyOverlooked'
  <2>1. CASE available_locks' = available_locks + 1 /\ wait' = Broadcast
    BY <1>4, <2>1 DEF unlock_readonly, Broadcast, TypeOK, NobodyOverlooked
  <2>2. CASE /\ available_locks' = available_locks + 1
             /\ wait' = wait
             /\ ~ Listening(available_locks + 1)
    <3>1. available_locks # 0
      BY <2>2 DEF Listening
    <3> QED
      BY <1>4, <2>2, <3>1 DEF unlock_readonly, NobodyOverlooked
  <2>3. CASE UNCHANGED <<available_locks, wait>>
    BY <1>4, <2>3 DEF unlock_readonly, NobodyOverlooked
  <2> QED
    BY <1>4, <2>1, <2>2, <2>3 DEF unlock_readonly, GiveBack
<1>5. ASSUME NEW t \in Thread, SpuriousWakeUp(t) PROVE NobodyOverlooked'
  BY <1>5 DEF SpuriousWakeUp, TypeOK, NobodyOverlooked
<1> QED
  BY <1>1, <1>2, <1>3, <1>4, <1>5 DEF Next, Unlocks

(* No wake-up is lost: the broadcasts that unlock_readonly leaves out, and *)
(* the one that lock() does not make when it ends, are never missed.       *)
THEOREM RWNobodyOverlooked ==
    ASSUME ~ StrayUnlock PROVE Spec => []NobodyOverlooked
<1>1. RWInv /\ [Next]_vars => RWInv'
  BY RWInvNext
<1>2. RWInv => TypeOK
  BY DEF RWInv
<1>3. Init => NobodyOverlooked
  BY DEF Init, NobodyOverlooked
<1> QED
  BY <1>1, <1>2, <1>3, RWInvInit, OverlookedNext, PTL DEF Spec
=============================================================================
