----------------------------- MODULE BspProofs ------------------------------
(***************************************************************************)
(* When node 0 returns normally from bsp_connect, every message sent was   *)
(* received: for every number of nodes, whoever sends to whom, leaves or   *)
(* throws, and whatever the delays.                                        *)
(*                                                                         *)
(* Node 0 compares with zero a counter that lags behind: the reports of    *)
(* the others may be unread or in its queue.  The invariant has two parts. *)
(* The account: counter and pending reports together make the number of    *)
(* messages sent and not received.  The order: NODE_TERMINATE is the last  *)
(* that a node writes, and the priority queue, in which messages go behind *)
(* everything else, does not put it before that node's reports; so when    *)
(* all have terminated, nothing is pending.                                *)
(*                                                                         *)
(* The second half of the module is about the barriers: node 0 lets the    *)
(* receive calls return only when nobody runs and no message is in flight, *)
(* everybody unblocks, and a message is received in the superstep in which *)
(* it was sent.  This takes a hypothesis about the programs, NoRelay.      *)
(***************************************************************************)
EXTENDS Bsp, FiniteSetTheorems, SequenceTheorems, WellFoundedInduction, TLAPS

(***************************************************************************)
(* The types.  Only what node 0 reads is counted, and every element but a  *)
(* message has epoch 0, which puts it first in the queue.                  *)
(***************************************************************************)
Types   == Reports \cup {"MESSAGE_HEADER", "SEE_ALL_IN_WAITING_STATE", "SHUTDOWN", "READ_ERROR"}
Counted == {"SENT_MESSAGE", "GOT_MESSAGE", "IN_WAITING_STATE"}

(* What node n reads, and what its queue holds. *)
Wire(n) ==
    {e \in [msg_type : Types, epoch : Nat] :
        /\ e.msg_type \in Counted => n = 0
        /\ e.msg_type # "MESSAGE_HEADER" => e.epoch = 0}

Queued(n) ==
    {e \in [msg_type : Types, epoch : Nat, sender_id : Peers(n)] :
        /\ e.msg_type \in Counted => n = 0
        /\ e.msg_type # "MESSAGE_HEADER" => e.epoch = 0}

Places == {"running", "receiving", "closing", "returned", "threw"}

StreamsOK(s) == DOMAIN s = Conn /\ \A c \in Conn : s[c] \in Seq(Wire(c[2]))

QueuesOK  == DOMAIN msg_buffer = Node /\ \A n \in Node : msg_buffer[n] \in Seq(Queued(n))

KnownGone == DOMAIN terminated = Node /\ \A n \in Node : terminated[n] \in SUBSET Peers(n)

TypeOK ==
    /\ pc \in [Node -> Places]
    /\ current_epoch \in [Node -> Nat]
    /\ StreamsOK(stream) /\ QueuesOK /\ KnownGone
    /\ outstanding_messages \in Int /\ num_waiting_nodes \in Int
    /\ unreceived \in Int

(***************************************************************************)
(* The account of node 0.  v is what the others have written to it and it  *)
(* has not read, b its queue; Unread and Unpopped are the places of the    *)
(* reports of a kind in them.                                              *)
(***************************************************************************)
Unread(v, type) ==
    {p \in Peers(0) \X Nat : p[2] \in DOMAIN v[p[1]] /\ v[p[1]][p[2]].msg_type = type}

Unpopped(b, type) == {k \in DOMAIN b : b[k].msg_type = type}

Pending(v, b, type) == Cardinality(Unread(v, type)) + Cardinality(Unpopped(b, type))

(* Node 0 has counted what was sent and not received, but for the reports  *)
(* that are still on their way.                                            *)
Account(v, b, outstanding, open) ==
    /\ \A type \in Counted : IsFiniteSet(Unread(v, type))
    /\ outstanding + Pending(v, b, "SENT_MESSAGE") - Pending(v, b, "GOT_MESSAGE") = open

(* NODE_TERMINATE is the last that a node writes to node 0, and node 0     *)
(* finds it after all reports of that node.                                *)
Final(v, b, gone, act, m) ==
    /\ \A k \in DOMAIN v[m] : v[m][k].msg_type = "NODE_TERMINATE" =>
          k = Len(v[m]) /\ m \notin act
    /\ \A k \in DOMAIN b : b[k].sender_id = m /\ b[k].msg_type = "NODE_TERMINATE" =>
          /\ v[m] = <<>> /\ m \notin act
          /\ \A l \in DOMAIN b : l > k => b[l].sender_id # m
    /\ m \in gone =>
          /\ v[m] = <<>> /\ m \notin act
          /\ \A l \in DOMAIN b : b[l].sender_id = m => b[l].msg_type \notin Counted

Ordered(v, b, gone, act) == \A m \in Peers(0) : Final(v, b, gone, act, m)

View(s) == [m \in Peers(0) |-> s[<<m, 0>>]]

(* The nodes that may still send and receive messages. *)
Active == {n \in Node : pc[n] \in {"running", "receiving"}}

Control0 ==
    ~ Ended(0) =>
        /\ Account(View(stream), msg_buffer[0], outstanding_messages, unreceived)
        /\ Ordered(View(stream), msg_buffer[0], terminated[0], Active)

(* Once node 0 has returned, nobody sends or receives. *)
AllGone == pc[0] = "returned" => unreceived = 0 /\ Active = {}

BspInv == TypeOK /\ Control0 /\ AllGone

-----------------------------------------------------------------------------
(* Sequences and sets. *)
LEMMA SameSize ==
    ASSUME NEW S, NEW T, IsFiniteSet(S), NEW f \in [S -> T],
           \A a, b \in S : f[a] = f[b] => a = b,
           \A y \in T : \E a \in S : f[a] = y
    PROVE  IsFiniteSet(T) /\ Cardinality(T) = Cardinality(S)
<1>1. f \in Bijection(S, T)
  BY DEF Bijection, Injection, Surjection, IsInjective
<1>2. ExistsBijection(S, T)
  BY <1>1 DEF ExistsBijection
<1> QED
  BY <1>2, FS_Bijection

LEMMA Removed ==
    ASSUME NEW S, NEW s \in Seq(S), NEW x \in DOMAIN s
    PROVE  /\ RemoveAt(s, x) \in Seq(S)
           /\ DOMAIN RemoveAt(s, x) = 1 .. Len(s) - 1
           /\ \A k \in 1 .. Len(s) - 1 :
                 RemoveAt(s, x)[k] = IF k < x THEN s[k] ELSE s[k + 1]
<1>1. x \in 1 .. Len(s) /\ Len(s) \in Nat /\ \A k \in 1 .. Len(s) : s[k] \in S
  OBVIOUS
<1>2. /\ SubSeq(s, 1, x - 1) \in Seq(S) /\ Len(SubSeq(s, 1, x - 1)) = x - 1
      /\ \A k \in 1 .. x - 1 : SubSeq(s, 1, x - 1)[k] = s[k]
  <2>1. \A k \in 1 .. x - 1 : s[k] \in S
    BY <1>1
  <2>2. x - 1 \in Int /\ 1 \in Int
    BY <1>1
  <2> QED
    BY <1>1, <2>1, <2>2, SubSeqProperties
<1>3. /\ SubSeq(s, x + 1, Len(s)) \in Seq(S) /\ Len(SubSeq(s, x + 1, Len(s))) = Len(s) - x
      /\ \A k \in 1 .. Len(s) - x : SubSeq(s, x + 1, Len(s))[k] = s[x + k]
  <2>1. \A k \in x + 1 .. Len(s) : s[k] \in S
    BY <1>1
  <2>2. x + 1 \in Int /\ Len(s) \in Int
    BY <1>1
  <2>3. /\ SubSeq(s, x + 1, Len(s)) \in Seq(S)
        /\ Len(SubSeq(s, x + 1, Len(s))) =
              IF x + 1 <= Len(s) THEN Len(s) - (x + 1) + 1 ELSE 0
        /\ \A k \in 1 .. Len(s) - (x + 1) + 1 :
              SubSeq(s, x + 1, Len(s))[k] = s[(x + 1) + k - 1]
    BY <2>1, <2>2, SubSeqProperties
  <2>4. Len(s) - (x + 1) + 1 = Len(s) - x /\ \A k \in Nat : (x + 1) + k - 1 = x + k
    BY <1>1
  <2>5. \A k \in 1 .. Len(s) - x : k \in Nat
    OBVIOUS
  <2>6. \A k \in 1 .. Len(s) - x : SubSeq(s, x + 1, Len(s))[k] = s[x + k]
    BY <2>3, <2>4, <2>5
  <2>7. Len(SubSeq(s, x + 1, Len(s))) = Len(s) - x
    BY <1>1, <2>3
  <2> QED
    BY <2>3, <2>6, <2>7
<1> DEFINE a == SubSeq(s, 1, x - 1)
           b == SubSeq(s, x + 1, Len(s))
<1>4. RemoveAt(s, x) = a \o b
  BY DEF RemoveAt
<1>5. a \in Seq(S) /\ b \in Seq(S) /\ Len(a) = x - 1 /\ Len(b) = Len(s) - x
      /\ (\A k \in 1 .. x - 1 : a[k] = s[k]) /\ (\A k \in 1 .. Len(s) - x : b[k] = s[x + k])
  BY <1>2, <1>3
<1> HIDE DEF a, b
<1>6. /\ a \o b \in Seq(S) /\ Len(a \o b) = Len(s) - 1
      /\ \A k \in 1 .. Len(s) - 1 : (a \o b)[k] = IF k <= x - 1 THEN a[k] ELSE b[k - (x - 1)]
  <2>1. Len(a) + Len(b) = Len(s) - 1
    BY <1>1, <1>5
  <2>2. /\ a \o b \in Seq(S) /\ Len(a \o b) = Len(a) + Len(b)
        /\ \A k \in 1 .. Len(a) + Len(b) :
              (a \o b)[k] = IF k <= Len(a) THEN a[k] ELSE b[k - Len(a)]
    BY <1>5, ConcatProperties
  <2> QED
    BY <1>5, <2>1, <2>2
<1>7. \A k \in 1 .. Len(s) - 1 : (a \o b)[k] = IF k < x THEN s[k] ELSE s[k + 1]
  <2> SUFFICES ASSUME NEW k \in 1 .. Len(s) - 1
               PROVE  (a \o b)[k] = IF k < x THEN s[k] ELSE s[k + 1]
    OBVIOUS
  <2>1. CASE k < x
    BY <1>1, <1>5, <1>6, <2>1
  <2>2. CASE ~ k < x
    <3>1. k - (x - 1) \in 1 .. Len(s) - x /\ x + (k - (x - 1)) = k + 1 /\ ~ k <= x - 1
      BY <1>1, <2>2
    <3> QED
      BY <1>5, <1>6, <2>2, <3>1
  <2> QED
    BY <2>1, <2>2
<1> QED
  BY <1>4, <1>6, <1>7

LEMMA Appended ==
    ASSUME NEW S, NEW s \in Seq(S), NEW e \in S
    PROVE  /\ Append(s, e) \in Seq(S) /\ Len(s) \in Nat /\ DOMAIN s = 1 .. Len(s)
           /\ DOMAIN Append(s, e) = 1 .. Len(s) + 1
           /\ Len(Append(s, e)) = Len(s) + 1
           /\ \A k \in 1 .. Len(s) : Append(s, e)[k] = s[k]
           /\ Append(s, e)[Len(s) + 1] = e
OBVIOUS

LEMMA Beheaded ==
    ASSUME NEW S, NEW s \in Seq(S), s # <<>>
    PROVE  /\ Tail(s) \in Seq(S) /\ Head(s) = s[1] /\ Head(s) \in S
           /\ Len(s) \in Nat \ {0} /\ DOMAIN s = 1 .. Len(s)
           /\ DOMAIN Tail(s) = 1 .. Len(s) - 1
           /\ Len(Tail(s)) = Len(s) - 1
           /\ \A k \in 1 .. Len(s) - 1 : Tail(s)[k] = s[k + 1]
OBVIOUS

-----------------------------------------------------------------------------
(* How the numbers of reports on their way change. *)
One(e, type) == IF e.msg_type = type THEN 1 ELSE 0

(* The streams r are the streams q, but for that of n. *)
Becomes(q, r, n, s) == \A m \in Peers(0) : r[m] = IF m = n THEN s ELSE q[m]

LEMMA GrowsByOne ==
    ASSUME NEW S, NEW T, NEW x, NEW cond \in BOOLEAN, IsFiniteSet(S), x \notin S,
           T = IF cond THEN S \cup {x} ELSE S
    PROVE  /\ IsFiniteSet(T)
           /\ Cardinality(S) \in Nat /\ Cardinality(T) = Cardinality(S) + (IF cond THEN 1 ELSE 0)
<1>1. Cardinality(S) \in Nat
  BY FS_CardinalityType
<1>2. CASE cond
  BY <1>1, <1>2, FS_AddElement
<1>3. CASE ~ cond
  BY <1>1, <1>3
<1> QED
  BY <1>1, <1>2, <1>3

LEMMA UnreadAppended ==
    ASSUME NEW W, NEW q \in [Peers(0) -> Seq(W)], NEW n \in Peers(0), NEW e \in W, NEW type,
           IsFiniteSet(Unread(q, type)),
           NEW r, Becomes(q, r, n, Append(q[n], e))
    PROVE  /\ IsFiniteSet(Unread(r, type))
           /\ Cardinality(Unread(q, type)) \in Nat
           /\ Cardinality(Unread(r, type)) = Cardinality(Unread(q, type)) + One(e, type)
<1> DEFINE x == <<n, Len(q[n]) + 1>>
<1>0. /\ Append(q[n], e) \in Seq(W) /\ Len(q[n]) \in Nat /\ DOMAIN q[n] = 1 .. Len(q[n])
      /\ DOMAIN Append(q[n], e) = 1 .. Len(q[n]) + 1
      /\ \A k \in 1 .. Len(q[n]) : Append(q[n], e)[k] = q[n][k]
      /\ Append(q[n], e)[Len(q[n]) + 1] = e
  BY Appended
<1>1. \A m \in Peers(0) : r[m] = IF m = n THEN Append(q[n], e) ELSE q[m]
  BY DEF Becomes
<1>2. x \notin Unread(q, type)
  BY <1>0 DEF Unread
<1>3. ASSUME NEW p
      PROVE  p \in Unread(r, type) <=>
                 p \in Unread(q, type) \/ (e.msg_type = type /\ p = x)
  <2>1. CASE p \notin Peers(0) \X Nat
    BY <1>0, <2>1 DEF Unread
  <2>2. ASSUME NEW m \in Peers(0), NEW k \in Nat, p = <<m, k>>
        PROVE  p \in Unread(r, type) <=>
                 p \in Unread(q, type) \/ (e.msg_type = type /\ p = x)
    <3>1. /\ p \in Unread(r, type) <=> k \in DOMAIN r[m] /\ r[m][k].msg_type = type
          /\ p \in Unread(q, type) <=> k \in DOMAIN q[m] /\ q[m][k].msg_type = type
          /\ p = x <=> m = n /\ k = Len(q[n]) + 1
      BY <2>2 DEF Unread
    <3>2. CASE m # n
      BY <1>1, <3>1, <3>2
    <3>3. CASE m = n
      <4>1. r[m] = Append(q[n], e) /\ q[m] = q[n]
        BY <1>1, <3>3
      <4>2. CASE k = Len(q[n]) + 1
        BY <1>0, <3>1, <3>3, <4>1, <4>2
      <4>3. CASE k # Len(q[n]) + 1
        BY <1>0, <3>1, <3>3, <4>1, <4>3
      <4> QED
        BY <4>2, <4>3
    <3> QED
      BY <3>2, <3>3
  <2>3. p \in Peers(0) \X Nat => \E m \in Peers(0), k \in Nat : p = <<m, k>>
    OBVIOUS
  <2> QED
    BY <2>1, <2>2, <2>3
<1>4. Unread(r, type) = IF e.msg_type = type THEN Unread(q, type) \cup {x} ELSE Unread(q, type)
  BY <1>3
<1>5. (e.msg_type = type) \in BOOLEAN
  OBVIOUS
<1> HIDE DEF x
<1>6. /\ IsFiniteSet(Unread(r, type)) /\ Cardinality(Unread(q, type)) \in Nat
      /\ Cardinality(Unread(r, type)) =
            Cardinality(Unread(q, type)) + (IF e.msg_type = type THEN 1 ELSE 0)
  BY <1>2, <1>4, <1>5, GrowsByOne
<1> QED
  BY <1>1, <1>6 DEF One

LEMMA UnreadBeheaded ==
    ASSUME NEW W, NEW q \in [Peers(0) -> Seq(W)], NEW n \in Peers(0), NEW type,
           IsFiniteSet(Unread(q, type)), q[n] # <<>>,
           NEW r, Becomes(q, r, n, Tail(q[n]))
    PROVE  /\ IsFiniteSet(Unread(r, type))
           /\ Cardinality(Unread(r, type)) \in Nat
           /\ Cardinality(Unread(q, type)) =
                 Cardinality(Unread(r, type)) + One(Head(q[n]), type)
<1> DEFINE x == <<n, 1>>
           S == Unread(q, type) \ {x}
           f == [p \in S |-> IF p[1] = n THEN <<n, p[2] - 1>> ELSE p]
<1>0. /\ Tail(q[n]) \in Seq(W) /\ Head(q[n]) = q[n][1]
      /\ Len(q[n]) \in Nat \ {0} /\ DOMAIN q[n] = 1 .. Len(q[n])
      /\ DOMAIN Tail(q[n]) = 1 .. Len(q[n]) - 1
      /\ \A k \in 1 .. Len(q[n]) - 1 : Tail(q[n])[k] = q[n][k + 1]
  BY Beheaded
<1>1. \A m \in Peers(0) : r[m] = IF m = n THEN Tail(q[n]) ELSE q[m]
  BY DEF Becomes
<1>2. \A m \in Peers(0), k \in Nat :
         /\ <<m, k>> \in Unread(r, type) <=> k \in DOMAIN r[m] /\ r[m][k].msg_type = type
         /\ <<m, k>> \in Unread(q, type) <=> k \in DOMAIN q[m] /\ q[m][k].msg_type = type
  BY DEF Unread
<1>3. \A s, p : p \in Unread(s, type) => \E m \in Peers(0), k \in Nat : p = <<m, k>>
  BY DEF Unread
<1>4. \A k \in Nat :
         /\ <<n, k>> \in Unread(r, type) =>
               \E j \in Nat : j - 1 = k /\ j # 1 /\ <<n, j>> \in Unread(q, type)
         /\ <<n, k>> \in Unread(q, type) /\ k # 1 => k > 1 /\ <<n, k - 1>> \in Unread(r, type)
  <2>1. r[n] = Tail(q[n])
    BY <1>1
  <2>2. ASSUME NEW k \in Nat, <<n, k>> \in Unread(r, type)
        PROVE  \E j \in Nat : j - 1 = k /\ j # 1 /\ <<n, j>> \in Unread(q, type)
    <3>0. k \in DOMAIN r[n] /\ r[n][k].msg_type = type
      BY <1>2, <2>2
    <3>1. k \in 1 .. Len(q[n]) - 1 /\ q[n][k + 1].msg_type = type
      BY <1>0, <2>1, <3>0
    <3>2. PICK j \in Nat : j = k + 1 /\ j \in DOMAIN q[n] /\ j # 1 /\ j - 1 = k
      BY <1>0, <3>1
    <3>3. <<n, j>> \in Unread(q, type)
      BY <1>2, <3>1, <3>2
    <3> QED
      BY <3>2, <3>3
  <2>3. ASSUME NEW k \in Nat, <<n, k>> \in Unread(q, type), k # 1
        PROVE  k > 1 /\ <<n, k - 1>> \in Unread(r, type)
    <3>1. k \in 1 .. Len(q[n]) /\ q[n][k].msg_type = type
      BY <1>0, <1>2, <2>3
    <3>2. k > 1 /\ k - 1 \in Nat /\ k - 1 \in 1 .. Len(q[n]) - 1 /\ (k - 1) + 1 = k
      BY <1>0, <2>3, <3>1
    <3>3. Tail(q[n])[k - 1] = q[n][k]
      BY <1>0, <3>2
    <3> QED
      BY <1>0, <1>2, <2>1, <3>1, <3>2, <3>3
  <2> QED
    BY <2>2, <2>3
<1>5. \A m \in Peers(0), k \in Nat : m # n =>
         (<<m, k>> \in Unread(r, type) <=> <<m, k>> \in Unread(q, type))
  BY <1>1, <1>2
<1>6. \A m \in Peers(0), k \in Nat : <<m, k>> \in S =>
         f[<<m, k>>] = IF m = n THEN <<n, k - 1>> ELSE <<m, k>>
  OBVIOUS
<1>7. f \in [S -> Unread(r, type)]
  <2> SUFFICES ASSUME NEW p \in S
               PROVE  (IF p[1] = n THEN <<n, p[2] - 1>> ELSE p) \in Unread(r, type)
    OBVIOUS
  <2>1. PICK m \in Peers(0), k \in Nat : p = <<m, k>>
    BY <1>3
  <2>2. p[1] = m /\ p[2] = k
    BY <2>1
  <2>3. CASE m = n
    <3>1. <<n, k>> \in Unread(q, type) /\ k # 1
      BY <2>1, <2>3
    <3> QED
      BY <1>4, <2>2, <2>3, <3>1
  <2>4. CASE m # n
    BY <1>5, <2>1, <2>2, <2>4
  <2> QED
    BY <2>3, <2>4
<1>8. \A a, b \in S : f[a] = f[b] => a = b
  <2> SUFFICES ASSUME NEW a \in S, NEW b \in S, f[a] = f[b] PROVE a = b
    OBVIOUS
  <2>1. PICK m \in Peers(0), k \in Nat : a = <<m, k>>
    BY <1>3
  <2>2. PICK l \in Peers(0), j \in Nat : b = <<l, j>>
    BY <1>3
  <2>3. /\ f[a] = IF m = n THEN <<n, k - 1>> ELSE <<m, k>>
        /\ f[b] = IF l = n THEN <<n, j - 1>> ELSE <<l, j>>
    BY <1>6, <2>1, <2>2
  <2> HIDE DEF f, S
  <2> QED
    BY <2>1, <2>2, <2>3
<1>9. \A y \in Unread(r, type) : \E a \in S : f[a] = y
  <2> SUFFICES ASSUME NEW y \in Unread(r, type) PROVE \E a \in S : f[a] = y
    OBVIOUS
  <2>1. PICK m \in Peers(0), k \in Nat : y = <<m, k>>
    BY <1>3
  <2>2. CASE m = n
    <3>0. <<n, k>> \in Unread(r, type)
      BY <2>1, <2>2
    <3>1. PICK j \in Nat : j - 1 = k /\ j # 1 /\ <<n, j>> \in Unread(q, type)
      BY <1>4, <3>0
    <3>2. <<n, j>> \in S
      BY <3>1
    <3>3. f[<<n, j>>] = <<n, k>>
      BY <1>6, <3>1, <3>2
    <3> QED
      BY <2>1, <2>2, <3>2, <3>3
  <2>3. CASE m # n
    <3>1. <<m, k>> \in S
      BY <1>5, <2>1, <2>3
    <3>2. f[<<m, k>>] = <<m, k>>
      BY <1>6, <2>3, <3>1
    <3> QED
      BY <2>1, <3>1, <3>2
  <2> QED
    BY <2>2, <2>3
<1>10. IsFiniteSet(S)
  BY FS_Subset
<1>11. x \notin S /\ x \in Unread(q, type) <=> Head(q[n]).msg_type = type
  BY <1>0, <1>2
<1>12. Unread(q, type) = IF Head(q[n]).msg_type = type THEN S \cup {x} ELSE S
  BY <1>11
<1>13. (Head(q[n]).msg_type = type) \in BOOLEAN /\ x \notin S
  OBVIOUS
<1> HIDE DEF x, S, f
<1>14. IsFiniteSet(Unread(r, type)) /\ Cardinality(Unread(r, type)) = Cardinality(S)
  BY <1>7, <1>8, <1>9, <1>10, SameSize
<1>15. /\ Cardinality(S) \in Nat
       /\ Cardinality(Unread(q, type)) =
             Cardinality(S) + (IF Head(q[n]).msg_type = type THEN 1 ELSE 0)
  BY <1>10, <1>12, <1>13, GrowsByOne
<1> QED
  BY <1>1, <1>14, <1>15 DEF One

LEMMA UnpoppedFinite ==
    ASSUME NEW S, NEW b \in Seq(S), NEW type
    PROVE  IsFiniteSet(Unpopped(b, type)) /\ Cardinality(Unpopped(b, type)) \in Nat
<1>1. 1 \in Int /\ Len(b) \in Int /\ DOMAIN b = 1 .. Len(b)
  OBVIOUS
<1>2. IsFiniteSet(1 .. Len(b))
  BY <1>1, FS_Interval
<1>3. Unpopped(b, type) \subseteq 1 .. Len(b)
  BY <1>1 DEF Unpopped
<1> QED
  BY <1>2, <1>3, FS_Subset, FS_CardinalityType

LEMMA UnpoppedAppended ==
    ASSUME NEW S, NEW b \in Seq(S), NEW e \in S, NEW type
    PROVE  Cardinality(Unpopped(Append(b, e), type)) =
              Cardinality(Unpopped(b, type)) + One(e, type)
<1> DEFINE x == Len(b) + 1
<1>1. /\ Len(b) \in Nat /\ DOMAIN b = 1 .. Len(b) /\ DOMAIN Append(b, e) = 1 .. Len(b) + 1
      /\ \A k \in 1 .. Len(b) : Append(b, e)[k] = b[k]
      /\ Append(b, e)[Len(b) + 1] = e
  BY Appended
<1>2. x \notin Unpopped(b, type)
  BY <1>1 DEF Unpopped
<1>3. Unpopped(Append(b, e), type) =
         IF e.msg_type = type THEN Unpopped(b, type) \cup {x} ELSE Unpopped(b, type)
  BY <1>1 DEF Unpopped
<1>4. IsFiniteSet(Unpopped(b, type)) /\ (e.msg_type = type) \in BOOLEAN
  BY UnpoppedFinite
<1> HIDE DEF x
<1> QED
  BY <1>2, <1>3, <1>4, GrowsByOne DEF One

LEMMA UnpoppedRemoved ==
    ASSUME NEW S, NEW b \in Seq(S), NEW x \in DOMAIN b, NEW type
    PROVE  Cardinality(Unpopped(b, type)) =
              Cardinality(Unpopped(RemoveAt(b, x), type)) + One(b[x], type)
<1> DEFINE R == Unpopped(RemoveAt(b, x), type)
           T == Unpopped(b, type) \ {x}
           f == [k \in T |-> IF k < x THEN k ELSE k - 1]
<1>1. /\ Len(b) \in Nat /\ DOMAIN b = 1 .. Len(b) /\ x \in 1 .. Len(b)
      /\ DOMAIN RemoveAt(b, x) = 1 .. Len(b) - 1
      /\ \A k \in 1 .. Len(b) - 1 : RemoveAt(b, x)[k] = IF k < x THEN b[k] ELSE b[k + 1]
  BY Removed
<1>2. \A k : k \in R <=> /\ k \in 1 .. Len(b) - 1
                         /\ (IF k < x THEN b[k] ELSE b[k + 1]).msg_type = type
  BY <1>1 DEF Unpopped
<1>3. \A k : k \in T <=> k \in 1 .. Len(b) /\ b[k].msg_type = type /\ k # x
  BY <1>1 DEF Unpopped
<1>a. \A k \in T : f[k] = IF k < x THEN k ELSE k - 1
  OBVIOUS
<1> HIDE DEF R, T
<1>4. f \in [T -> R]
  <2> SUFFICES ASSUME NEW k \in T PROVE (IF k < x THEN k ELSE k - 1) \in R
    OBVIOUS
  <2>1. k \in 1 .. Len(b) /\ b[k].msg_type = type /\ k # x
    BY <1>3
  <2>2. CASE k < x
    BY <1>1, <1>2, <2>1, <2>2
  <2>3. CASE ~ k < x
    <3>1. k - 1 \in 1 .. Len(b) - 1 /\ ~ k - 1 < x /\ (k - 1) + 1 = k
      BY <1>1, <2>1, <2>3
    <3> QED
      BY <1>2, <2>1, <2>3, <3>1
  <2> QED
    BY <2>2, <2>3
<1>5. \A k, l \in T : f[k] = f[l] => k = l
  <2> SUFFICES ASSUME NEW k \in T, NEW l \in T, f[k] = f[l] PROVE k = l
    OBVIOUS
  <2>1. k \in Int /\ l \in Int /\ k # x /\ l # x /\ x \in Int
    BY <1>1, <1>3
  <2>2. (IF k < x THEN k ELSE k - 1) = (IF l < x THEN l ELSE l - 1)
    BY <1>a
  <2> QED
    BY <2>1, <2>2
<1>6. \A y \in R : \E k \in T : f[k] = y
  <2> SUFFICES ASSUME NEW y \in R PROVE \E k \in T : f[k] = y
    OBVIOUS
  <2>1. y \in 1 .. Len(b) - 1 /\ (IF y < x THEN b[y] ELSE b[y + 1]).msg_type = type
    BY <1>2
  <2>2. CASE y < x
    <3>1. y \in T
      BY <1>1, <1>3, <2>1, <2>2
    <3> QED
      BY <1>a, <2>2, <3>1
  <2>3. CASE ~ y < x
    <3>1. PICK k \in Int : k = y + 1 /\ k \in 1 .. Len(b) /\ k # x /\ ~ k < x /\ k - 1 = y
      BY <1>1, <2>1, <2>3
    <3>2. k \in T
      BY <1>3, <2>1, <2>3, <3>1
    <3> QED
      BY <1>a, <3>1, <3>2
  <2> QED
    BY <2>2, <2>3
<1>7. IsFiniteSet(T)
  BY UnpoppedFinite, FS_Subset DEF T
<1>8. /\ x \notin T /\ (b[x].msg_type = type) \in BOOLEAN
      /\ Unpopped(b, type) = IF b[x].msg_type = type THEN T \cup {x} ELSE T
  BY <1>1 DEF Unpopped, T
<1> HIDE DEF f
<1>9. Cardinality(R) = Cardinality(T)
  BY <1>4, <1>5, <1>6, <1>7, SameSize
<1>10. Cardinality(Unpopped(b, type)) = Cardinality(T) + (IF b[x].msg_type = type THEN 1 ELSE 0)
  BY <1>7, <1>8, GrowsByOne
<1> QED
  BY <1>9, <1>10 DEF One, R

-----------------------------------------------------------------------------
(* The account, when n writes to node 0, node 0 reads, or pops. *)
Views(W) == [Peers(0) -> Seq(W)]

LEMMA AccountWrites ==
    ASSUME NEW W, NEW v \in Views(W), NEW n \in Peers(0), NEW e \in W,
           NEW S, NEW b \in Seq(S), NEW o \in Int, NEW u \in Int, Account(v, b, o, u)
    PROVE  Account([v EXCEPT ![n] = Append(v[n], e)], b, o,
                   u + One(e, "SENT_MESSAGE") - One(e, "GOT_MESSAGE"))
<1> DEFINE r == [v EXCEPT ![n] = Append(v[n], e)]
<1>1. \A type \in Counted :
         /\ IsFiniteSet(Unread(r, type)) /\ Cardinality(Unread(v, type)) \in Nat
         /\ Cardinality(Unread(r, type)) = Cardinality(Unread(v, type)) + One(e, type)
  <2> SUFFICES ASSUME NEW type \in Counted
               PROVE  /\ IsFiniteSet(Unread(r, type)) /\ Cardinality(Unread(v, type)) \in Nat
                      /\ Cardinality(Unread(r, type)) = Cardinality(Unread(v, type)) + One(e, type)
    OBVIOUS
  <2>1. IsFiniteSet(Unread(v, type)) /\ v \in [Peers(0) -> Seq(W)]
    BY DEF Account, Views
  <2>2. Becomes(v, r, n, Append(v[n], e))
    BY DEF Becomes, Views
  <2> HIDE DEF r
  <2>3. \A t : IsFiniteSet(Unread(v, t)) =>
           /\ IsFiniteSet(Unread(r, t)) /\ Cardinality(Unread(v, t)) \in Nat
           /\ Cardinality(Unread(r, t)) = Cardinality(Unread(v, t)) + One(e, t)
    BY <2>1, <2>2, UnreadAppended, SMTT(30)
  <2> QED
    BY <2>1, <2>3
<1>2. \A type : Cardinality(Unpopped(b, type)) \in Nat /\ One(e, type) \in Int
  BY UnpoppedFinite DEF One
<1>3. "SENT_MESSAGE" \in Counted /\ "GOT_MESSAGE" \in Counted
  BY DEF Counted
<1> HIDE DEF r
<1>4. o + Pending(v, b, "SENT_MESSAGE") - Pending(v, b, "GOT_MESSAGE") = u
  BY DEF Account
<1>5. o + Pending(r, b, "SENT_MESSAGE") - Pending(r, b, "GOT_MESSAGE") =
         u + One(e, "SENT_MESSAGE") - One(e, "GOT_MESSAGE")
  <2>1. ASSUME NEW type \in Counted
        PROVE  /\ Pending(v, b, type) \in Int /\ One(e, type) \in Int
               /\ Pending(r, b, type) = Pending(v, b, type) + One(e, type)
    BY <1>1, <1>2 DEF Pending
  <2> QED
    BY <1>3, <1>4, <2>1
<1> QED
  BY <1>1, <1>5 DEF Account, r

LEMMA AccountReads ==
    ASSUME NEW W, NEW v \in Views(W), NEW n \in Peers(0), v[n] # <<>>,
           NEW S, NEW b \in Seq(S), NEW e \in S, NEW o \in Int, NEW u \in Int,
           Account(v, b, o, u),
           \A type \in Counted : One(e, type) = One(Head(v[n]), type)
    PROVE  Account([v EXCEPT ![n] = Tail(v[n])], Append(b, e), o, u)
<1> DEFINE r == [v EXCEPT ![n] = Tail(v[n])]
<1>1. \A type \in Counted :
         /\ IsFiniteSet(Unread(r, type)) /\ Cardinality(Unread(r, type)) \in Nat
         /\ Cardinality(Unread(v, type)) = Cardinality(Unread(r, type)) + One(Head(v[n]), type)
  <2> SUFFICES ASSUME NEW type \in Counted
               PROVE  /\ IsFiniteSet(Unread(r, type)) /\ Cardinality(Unread(r, type)) \in Nat
                      /\ Cardinality(Unread(v, type)) =
                            Cardinality(Unread(r, type)) + One(Head(v[n]), type)
    OBVIOUS
  <2>1. IsFiniteSet(Unread(v, type)) /\ v \in [Peers(0) -> Seq(W)]
    BY DEF Account, Views
  <2>2. Becomes(v, r, n, Tail(v[n]))
    BY DEF Becomes, Views
  <2> HIDE DEF r
  <2> QED
    BY <2>1, <2>2, UnreadBeheaded
<1>2. \A type : /\ Cardinality(Unpopped(b, type)) \in Nat /\ One(e, type) \in Int
                /\ Cardinality(Unpopped(Append(b, e), type)) =
                      Cardinality(Unpopped(b, type)) + One(e, type)
  BY UnpoppedFinite, UnpoppedAppended DEF One
<1>3. "SENT_MESSAGE" \in Counted /\ "GOT_MESSAGE" \in Counted
  BY DEF Counted
<1> HIDE DEF r
<1>4. \A type \in Counted : Pending(r, Append(b, e), type) = Pending(v, b, type)
  BY <1>1, <1>2 DEF Pending
<1> QED
  BY <1>1, <1>3, <1>4 DEF Account, r

LEMMA AccountPops ==
    ASSUME NEW v, NEW S, NEW b \in Seq(S), NEW x \in DOMAIN b,
           NEW o \in Int, NEW u \in Int, Account(v, b, o, u)
    PROVE  Account(v, RemoveAt(b, x),
                   o + One(b[x], "SENT_MESSAGE") - One(b[x], "GOT_MESSAGE"), u)
<1>1. \A type \in Counted : IsFiniteSet(Unread(v, type)) /\ Cardinality(Unread(v, type)) \in Nat
  BY FS_CardinalityType DEF Account
<1>2. \A type : /\ Cardinality(Unpopped(RemoveAt(b, x), type)) \in Nat /\ One(b[x], type) \in Int
                /\ Cardinality(Unpopped(b, type)) =
                      Cardinality(Unpopped(RemoveAt(b, x), type)) + One(b[x], type)
  BY UnpoppedFinite, UnpoppedRemoved, Removed DEF One
<1>3. "SENT_MESSAGE" \in Counted /\ "GOT_MESSAGE" \in Counted
  BY DEF Counted
<1>4. o + Pending(v, b, "SENT_MESSAGE") - Pending(v, b, "GOT_MESSAGE") = u
  BY DEF Account
<1>5. (o + One(b[x], "SENT_MESSAGE") - One(b[x], "GOT_MESSAGE"))
         + Pending(v, RemoveAt(b, x), "SENT_MESSAGE")
         - Pending(v, RemoveAt(b, x), "GOT_MESSAGE") = u
  <2>1. ASSUME NEW type \in Counted
        PROVE  /\ Pending(v, RemoveAt(b, x), type) \in Int /\ One(b[x], type) \in Int
               /\ Pending(v, b, type) = Pending(v, RemoveAt(b, x), type) + One(b[x], type)
    BY <1>1, <1>2 DEF Pending
  <2> QED
    BY <1>3, <1>4, <2>1
<1> QED
  BY <1>1, <1>5 DEF Account

(* A message is counted by node 0 itself at once. *)
LEMMA AccountOwn ==
    ASSUME NEW v, NEW S, NEW b \in Seq(S), NEW o \in Int, NEW u \in Int, NEW d \in Int,
           Account(v, b, o, u)
    PROVE  Account(v, b, o + d, u + d)
<1>1. \A type \in Counted : Cardinality(Unread(v, type)) \in Nat
  BY FS_CardinalityType DEF Account
<1>2. \A type : Cardinality(Unpopped(b, type)) \in Nat
  BY UnpoppedFinite
<1>3. "SENT_MESSAGE" \in Counted /\ "GOT_MESSAGE" \in Counted
  BY DEF Counted
<1>4. ASSUME NEW type \in Counted PROVE Pending(v, b, type) \in Int
  BY <1>1, <1>2 DEF Pending
<1>5. o + Pending(v, b, "SENT_MESSAGE") - Pending(v, b, "GOT_MESSAGE") = u
  BY DEF Account
<1>6. (o + d) + Pending(v, b, "SENT_MESSAGE") - Pending(v, b, "GOT_MESSAGE") = u + d
  BY <1>3, <1>4, <1>5
<1> QED
  BY <1>6 DEF Account

-----------------------------------------------------------------------------
(* The order in which node 0 finds things. *)
LEMMA OrderKept ==
    ASSUME NEW v, NEW b, NEW gone, NEW act, Ordered(v, b, gone, act),
           NEW new, new \subseteq act
    PROVE  Ordered(v, b, gone, new)
BY DEF Ordered, Final

LEMMA OrderWrites ==
    ASSUME NEW W, NEW v \in Views(W), NEW n \in Peers(0), NEW e \in W, NEW b, NEW gone,
           NEW act, Ordered(v, b, gone, act), n \in act,
           NEW new, new \subseteq act, e.msg_type = "NODE_TERMINATE" => n \notin new
    PROVE  Ordered([v EXCEPT ![n] = Append(v[n], e)], b, gone, new)
<1> DEFINE r == [v EXCEPT ![n] = Append(v[n], e)]
<1>1. \A m \in Peers(0) : r[m] = IF m = n THEN Append(v[n], e) ELSE v[m]
  BY DEF Views
<1>2. /\ Len(v[n]) \in Nat /\ DOMAIN v[n] = 1 .. Len(v[n])
      /\ DOMAIN Append(v[n], e) = 1 .. Len(v[n]) + 1
      /\ Len(Append(v[n], e)) = Len(v[n]) + 1
      /\ \A k \in 1 .. Len(v[n]) : Append(v[n], e)[k] = v[n][k]
      /\ Append(v[n], e)[Len(v[n]) + 1] = e
  BY Appended DEF Views
<1> HIDE DEF r
<1> SUFFICES ASSUME NEW m \in Peers(0) PROVE Final(r, b, gone, new, m)
  BY DEF Ordered, r
<1>3. Final(v, b, gone, act, m)
  BY DEF Ordered
<1>4. CASE m # n
  <2>1. r[m] = v[m]
    BY <1>1, <1>4
  <2> QED
    BY <1>3, <2>1 DEF Final
<1>5. CASE m = n
  <2>1. r[n] = Append(v[n], e)
    BY <1>1
  <2>2. /\ \A k \in DOMAIN v[n] : v[n][k].msg_type # "NODE_TERMINATE"
        /\ \A k \in DOMAIN b : ~ (b[k].sender_id = n /\ b[k].msg_type = "NODE_TERMINATE")
        /\ n \notin gone
    BY <1>3, <1>5 DEF Final
  <2>3. \A k \in DOMAIN r[n] : r[n][k].msg_type = "NODE_TERMINATE" =>
           k = Len(r[n]) /\ n \notin new
    <3> SUFFICES ASSUME NEW k \in DOMAIN r[n], r[n][k].msg_type = "NODE_TERMINATE"
                 PROVE  k = Len(r[n]) /\ n \notin new
      OBVIOUS
    <3>1. k \in 1 .. Len(v[n]) + 1
      BY <1>2, <2>1
    <3>2. ~ k \in 1 .. Len(v[n])
      BY <1>2, <2>1, <2>2
    <3>3. k = Len(v[n]) + 1
      BY <1>2, <3>1, <3>2
    <3> QED
      BY <1>2, <2>1, <3>3
  <2> QED
    BY <1>5, <2>2, <2>3 DEF Final
<1> QED
  BY <1>4, <1>5

LEMMA OrderReads ==
    ASSUME NEW W, NEW v \in Views(W), NEW n \in Peers(0), v[n] # <<>>,
           NEW S, NEW b \in Seq(S), NEW e \in S, NEW gone, NEW act,
           Ordered(v, b, gone, act), e.sender_id = n,
           e.msg_type = "NODE_TERMINATE" => Head(v[n]).msg_type = "NODE_TERMINATE"
    PROVE  Ordered([v EXCEPT ![n] = Tail(v[n])], Append(b, e), gone, act)
<1> DEFINE r == [v EXCEPT ![n] = Tail(v[n])]
           a == Append(b, e)
<1>1. \A m \in Peers(0) : r[m] = IF m = n THEN Tail(v[n]) ELSE v[m]
  BY DEF Views
<1>2. /\ Len(v[n]) \in Nat \ {0} /\ DOMAIN v[n] = 1 .. Len(v[n]) /\ Head(v[n]) = v[n][1]
      /\ DOMAIN Tail(v[n]) = 1 .. Len(v[n]) - 1
      /\ Len(Tail(v[n])) = Len(v[n]) - 1
      /\ \A k \in 1 .. Len(v[n]) - 1 : Tail(v[n])[k] = v[n][k + 1]
      /\ Len(v[n]) = 1 => Tail(v[n]) = <<>>
  <2>1. v[n] \in Seq(W)
    BY DEF Views
  <2>2. Tail(v[n]) \in Seq(W) /\ Len(Tail(v[n])) = Len(v[n]) - 1
    BY <2>1, Beheaded
  <2>3. Len(v[n]) = 1 => Tail(v[n]) = <<>>
    <3> SUFFICES ASSUME Len(v[n]) = 1, Tail(v[n]) # <<>> PROVE FALSE
      OBVIOUS
    <3>1. Len(Tail(v[n])) \in Nat \ {0}
      BY <2>2, EmptySeq
    <3> QED
      BY <2>2, <3>1
  <2> QED
    BY <2>1, <2>3, Beheaded
<1>3. /\ Len(b) \in Nat /\ DOMAIN b = 1 .. Len(b) /\ DOMAIN a = 1 .. Len(b) + 1
      /\ (\A k \in 1 .. Len(b) : a[k] = b[k]) /\ a[Len(b) + 1] = e
  BY Appended
<1> HIDE DEF r, a
<1> SUFFICES ASSUME NEW m \in Peers(0) PROVE Final(r, a, gone, act, m)
  BY DEF Ordered, r, a
<1>4. Final(v, b, gone, act, m)
  BY DEF Ordered
<1>5. CASE m # n
  <2>1. r[m] = v[m]
    BY <1>1, <1>5
  <2>2. \A k \in DOMAIN a : a[k].sender_id = m => k \in DOMAIN b /\ a[k] = b[k]
    BY <1>3, <1>5
  <2>3. \A k \in DOMAIN a : a[k].sender_id = m /\ a[k].msg_type = "NODE_TERMINATE" =>
           /\ v[m] = <<>> /\ m \notin act
           /\ \A l \in DOMAIN a : l > k => a[l].sender_id # m
    BY <1>4, <2>2 DEF Final
  <2> QED
    BY <1>4, <2>1, <2>2, <2>3 DEF Final
<1>6. CASE m = n
  <2>1. r[m] = Tail(v[n])
    BY <1>1, <1>6
  <2>2. /\ m \notin gone
        /\ \A k \in DOMAIN b : ~ (b[k].sender_id = n /\ b[k].msg_type = "NODE_TERMINATE")
    BY <1>4, <1>6 DEF Final
  <2>3. \A k \in DOMAIN r[m] : r[m][k].msg_type = "NODE_TERMINATE" =>
           k = Len(r[m]) /\ m \notin act
    <3> SUFFICES ASSUME NEW k \in DOMAIN r[m], r[m][k].msg_type = "NODE_TERMINATE"
                 PROVE  k = Len(r[m]) /\ m \notin act
      OBVIOUS
    <3>1. k \in 1 .. Len(v[n]) - 1 /\ v[n][k + 1].msg_type = "NODE_TERMINATE"
      BY <1>2, <2>1
    <3>2. k + 1 \in DOMAIN v[n]
      BY <1>2, <3>1
    <3>3. k + 1 = Len(v[n]) /\ n \notin act
      BY <1>4, <1>6, <3>1, <3>2 DEF Final
    <3> QED
      BY <1>2, <1>6, <2>1, <3>1, <3>3
  <2>4. ASSUME NEW k \in DOMAIN a, a[k].sender_id = m, a[k].msg_type = "NODE_TERMINATE"
        PROVE  /\ r[m] = <<>> /\ m \notin act
               /\ \A l \in DOMAIN a : l > k => a[l].sender_id # m
    <3>1. k = Len(b) + 1 /\ a[k] = e
      BY <1>3, <1>6, <2>2, <2>4
    <3>2. 1 \in DOMAIN v[n] /\ v[n][1].msg_type = "NODE_TERMINATE"
      BY <1>2, <2>4, <3>1
    <3>3. 1 = Len(v[n]) /\ n \notin act
      BY <1>4, <1>6, <3>2 DEF Final
    <3>4. \A l \in DOMAIN a : ~ l > k
      BY <1>3, <3>1
    <3> QED
      BY <1>2, <1>6, <2>1, <3>3, <3>4
  <2> QED
    BY <2>2, <2>3, <2>4 DEF Final
<1> QED
  BY <1>5, <1>6

(* The place x that pop() takes from the queue b. *)
IsTop(b, x) ==
    /\ x \in DOMAIN b
    /\ \A j \in DOMAIN b :
          b[x].epoch < b[j].epoch \/ (b[x].epoch = b[j].epoch /\ x <= j)

LEMMA LeastNatural ==
    ASSUME NEW S, S \subseteq Nat, S # {}
    PROVE  \E x \in S : \A y \in S : x <= y
<1>1. \E x \in S : \A y \in S : ~ (y < x)
  <2>1. PICK x \in S : \A y \in S : ~ (<<y, x>> \in OpToRel(<, Nat))
    BY NatLessThanWellFounded, WFMin, Zenon
  <2>2. ASSUME NEW y \in S PROVE ~ (y < x)
    <3>1. <<y, x>> \in Nat \X Nat /\ <<y, x>>[1] = y /\ <<y, x>>[2] = x
      BY Zenon
    <3> QED
      BY <2>1, <3>1, Zenon DEF OpToRel
  <2> QED
    BY <2>2, Zenon
<1> QED
  BY <1>1

LEMMA TopIsFirst ==
    ASSUME NEW n \in Node, msg_buffer[n] \in Seq(Queued(n)), msg_buffer[n] # <<>>
    PROVE  IsTop(msg_buffer[n], Top(n))
<1> DEFINE b == msg_buffer[n]
           E == {b[k].epoch : k \in DOMAIN b}
<1>1. DOMAIN b \subseteq Nat /\ \A k \in DOMAIN b : b[k].epoch \in Nat
  BY DEF Queued
<1>2. E \subseteq Nat /\ E # {}
  <2>1. DOMAIN b # {}
    <3>1. Len(b) \in Nat \ {0} /\ DOMAIN b = 1 .. Len(b)
      BY EmptySeq
    <3>2. 1 \in 1 .. Len(b)
      BY <3>1
    <3> HIDE DEF b
    <3> QED
      BY <3>1, <3>2
  <2> QED
    BY <1>1, <2>1
<1>3. PICK y \in E : \A z \in E : y <= z
  BY <1>2, LeastNatural
<1> DEFINE F == {k \in DOMAIN b : b[k].epoch = y}
<1>4. F \subseteq Nat /\ F # {}
  BY <1>1
<1>5. PICK x \in F : \A k \in F : x <= k
  <2> HIDE DEF F
  <2> QED
    BY <1>4, LeastNatural
<1>6. \A j \in DOMAIN b : b[x].epoch < b[j].epoch \/ (b[x].epoch = b[j].epoch /\ x <= j)
  <2> SUFFICES ASSUME NEW j \in DOMAIN b
               PROVE  b[x].epoch < b[j].epoch \/ (b[x].epoch = b[j].epoch /\ x <= j)
    OBVIOUS
  <2>1. b[x].epoch = y /\ y \in Nat /\ b[j].epoch \in Nat /\ y <= b[j].epoch
    BY <1>1, <1>2, <1>3
  <2>2. CASE b[j].epoch = y
    BY <1>5, <2>1, <2>2
  <2>3. CASE b[j].epoch # y
    BY <2>1, <2>3
  <2> QED
    BY <2>2, <2>3
<1>7. x \in DOMAIN b
  OBVIOUS
<1> HIDE DEF b, E, F
<1>8. \E i \in DOMAIN b : \A j \in DOMAIN b :
         b[i].epoch < b[j].epoch \/ (b[i].epoch = b[j].epoch /\ i <= j)
  BY <1>6, <1>7
<1>9. Top(n) = CHOOSE i \in DOMAIN b : \A j \in DOMAIN b :
         b[i].epoch < b[j].epoch \/ (b[i].epoch = b[j].epoch /\ i <= j)
  BY DEF Top, b
<1>10. IsTop(b, Top(n))
  BY <1>8, <1>9, Zenon DEF IsTop
<1> QED
  BY <1>10 DEF b

LEMMA OrderPops ==
    ASSUME NEW v, NEW b \in Seq(Queued(0)), NEW x, IsTop(b, x), NEW gone, NEW act,
           Ordered(v, b, gone, act),
           NEW new, new = IF b[x].msg_type = "NODE_TERMINATE"
                          THEN gone \cup {b[x].sender_id} ELSE gone
    PROVE  Ordered(v, RemoveAt(b, x), new, act)
<1> DEFINE a == RemoveAt(b, x)
           g(k) == IF k < x THEN k ELSE k + 1
<1>1. /\ x \in DOMAIN b /\ DOMAIN b = 1 .. Len(b) /\ Len(b) \in Nat
      /\ \A j \in DOMAIN b :
            b[x].epoch < b[j].epoch \/ (b[x].epoch = b[j].epoch /\ x <= j)
  BY DEF IsTop
<1>2. /\ DOMAIN a = 1 .. Len(b) - 1
      /\ \A k \in 1 .. Len(b) - 1 : a[k] = IF k < x THEN b[k] ELSE b[k + 1]
  BY <1>1, Removed
<1>3. \A k \in DOMAIN a : a[k] = b[g(k)] /\ g(k) \in DOMAIN b /\ g(k) # x
  BY <1>1, <1>2
<1>4. \A k, l \in DOMAIN a : l > k => g(l) > g(k)
  BY <1>1, <1>2
<1>5. \A k \in DOMAIN b : b[k].msg_type # "MESSAGE_HEADER" => b[k].epoch = 0
  BY DEF Queued
<1> HIDE DEF a, g
<1> SUFFICES ASSUME NEW m \in Peers(0) PROVE Final(v, a, new, act, m)
  BY DEF Ordered, a
<1>6. Final(v, b, gone, act, m)
  BY DEF Ordered
<1>7. ASSUME NEW k \in DOMAIN a, a[k].sender_id = m, a[k].msg_type = "NODE_TERMINATE"
      PROVE  /\ v[m] = <<>> /\ m \notin act
             /\ \A l \in DOMAIN a : l > k => a[l].sender_id # m
  BY <1>3, <1>4, <1>6, <1>7 DEF Final
<1>8. ASSUME m \in new
      PROVE  /\ v[m] = <<>> /\ m \notin act
             /\ \A l \in DOMAIN a : a[l].sender_id = m => a[l].msg_type \notin Counted
  <2>1. CASE m \in gone
    BY <1>3, <1>6, <2>1 DEF Final
  <2>2. CASE m \notin gone
    <3>1. b[x].msg_type = "NODE_TERMINATE" /\ b[x].sender_id = m
      BY <1>8, <2>2
    <3>2. /\ v[m] = <<>> /\ m \notin act
          /\ \A l \in DOMAIN b : l > x => b[l].sender_id # m
      BY <1>1, <1>6, <3>1 DEF Final
    <3>3. ASSUME NEW l \in DOMAIN a, a[l].sender_id = m, a[l].msg_type \in Counted PROVE FALSE
      <4>1. PICK k \in DOMAIN b : b[k] = a[l] /\ k # x
        BY <1>3
      <4>2. b[k].sender_id = m /\ b[k].msg_type # "MESSAGE_HEADER"
        BY <3>3, <4>1 DEF Counted
      <4>3. b[k].epoch = 0 /\ b[x].epoch = 0
        BY <1>1, <1>5, <3>1, <4>2
      <4>4. x <= k /\ ~ k > x
        BY <1>1, <3>2, <4>2, <4>3
      <4> QED
        BY <1>1, <4>1, <4>4
    <3> QED
      BY <3>2, <3>3
  <2> QED
    BY <2>1, <2>2
<1> QED
  BY <1>6, <1>7, <1>8 DEF Final

-----------------------------------------------------------------------------
(* What a write does to the streams, and to what node 0 will read. *)
LEMMA NodeFacts == 0 \in Node /\ \A m, n \in Node : m # n => <<m, n>> \in Conn
BY BspAssumption DEF Node, Conn

LEMMA ConnFacts ==
    ASSUME NEW c \in Conn
    PROVE  c[1] \in Node /\ c[2] \in Node /\ c[1] # c[2] /\ c = <<c[1], c[2]>>
BY DEF Conn

LEMMA ViewOK ==
    ASSUME NEW s, StreamsOK(s)
    PROVE  View(s) \in Views(Wire(0)) /\ \A m \in Peers(0) : View(s)[m] = s[<<m, 0>>]
<1>1. ASSUME NEW m \in Peers(0) PROVE s[<<m, 0>>] \in Seq(Wire(0))
  <2>1. <<m, 0>> \in Conn /\ <<m, 0>>[2] = 0
    BY NodeFacts DEF Peers
  <2> QED
    BY <2>1 DEF StreamsOK
<1> QED
  BY <1>1 DEF View, Views

LEMMA WrittenOK ==
    ASSUME NEW s, StreamsOK(s), NEW n \in Node, NEW targets, NEW msg,
           \A t \in targets : msg \in Wire(t)
    PROVE  StreamsOK(Written(s, n, targets, msg))
<1>1. ASSUME NEW c \in Conn PROVE Written(s, n, targets, msg)[c] \in Seq(Wire(c[2]))
  <2>1. s[c] \in Seq(Wire(c[2]))
    BY DEF StreamsOK
  <2>2. CASE c[1] = n /\ c[2] \in targets /\ ~Ended(c[2])
    <3>1. msg \in Wire(c[2])
      BY <2>2
    <3>2. Written(s, n, targets, msg)[c] = Append(s[c], msg)
      BY <2>2 DEF Written
    <3> QED
      BY <2>1, <3>1, <3>2, Appended
  <2>3. CASE ~ (c[1] = n /\ c[2] \in targets /\ ~Ended(c[2]))
    <3>1. Written(s, n, targets, msg)[c] = s[c]
      BY <2>3 DEF Written
    <3> QED
      BY <2>1, <3>1
  <2> QED
    BY <2>2, <2>3
<1> QED
  BY <1>1 DEF StreamsOK, Written

LEMMA ViewWritten ==
    ASSUME NEW s, StreamsOK(s), NEW n \in Node, NEW targets, NEW msg
    PROVE  View(Written(s, n, targets, msg)) =
              IF n # 0 /\ 0 \in targets /\ ~Ended(0)
              THEN [View(s) EXCEPT ![n] = Append(View(s)[n], msg)] ELSE View(s)
<1>1. \A m \in Peers(0) : <<m, 0>> \in Conn /\ <<m, 0>>[1] = m /\ <<m, 0>>[2] = 0 /\ m # 0
  BY NodeFacts DEF Peers
<1>2. \A m \in Peers(0) : Written(s, n, targets, msg)[<<m, 0>>] =
         IF m = n /\ 0 \in targets /\ ~Ended(0) THEN Append(s[<<m, 0>>], msg) ELSE s[<<m, 0>>]
  BY <1>1 DEF Written
<1> DEFINE w == Written(s, n, targets, msg)
<1> HIDE DEF w
<1>3. \A m \in Peers(0) : w[<<m, 0>>] =
         IF m = n /\ 0 \in targets /\ ~Ended(0) THEN Append(s[<<m, 0>>], msg) ELSE s[<<m, 0>>]
  BY <1>2 DEF w
<1>4. n # 0 => n \in Peers(0)
  BY DEF Peers
<1>5. View(w) = IF n # 0 /\ 0 \in targets /\ ~Ended(0)
              THEN [View(s) EXCEPT ![n] = Append(View(s)[n], msg)] ELSE View(s)
  BY <1>1, <1>3, <1>4 DEF View
<1> QED
  BY <1>5 DEF w

(* The destructor of a node other than 0 leaves alone what node 0 will read. *)
Forgotten(s, n) == [c \in Conn |-> IF c[2] = n THEN <<>> ELSE s[c]]

LEMMA ForgottenOK ==
    ASSUME NEW s, StreamsOK(s), NEW n \in Node
    PROVE  StreamsOK(Forgotten(s, n)) /\ (n # 0 => View(Forgotten(s, n)) = View(s))
<1>1. ASSUME NEW c \in Conn PROVE Forgotten(s, n)[c] \in Seq(Wire(c[2]))
  <2>1. s[c] \in Seq(Wire(c[2])) /\ <<>> \in Seq(Wire(c[2]))
    BY DEF StreamsOK
  <2>2. Forgotten(s, n)[c] = <<>> \/ Forgotten(s, n)[c] = s[c]
    BY DEF Forgotten
  <2> QED
    BY <2>1, <2>2
<1>2. \A m \in Peers(0) : <<m, 0>> \in Conn /\ <<m, 0>>[2] = 0
  BY NodeFacts DEF Peers
<1>3. n # 0 => \A m \in Peers(0) : Forgotten(s, n)[<<m, 0>>] = s[<<m, 0>>]
  BY <1>2 DEF Forgotten
<1> QED
  BY <1>1, <1>3 DEF StreamsOK, Forgotten, View

LEMMA ControlOK ==
    /\ \A t \in Types \ {"MESSAGE_HEADER"} : \A n :
          (t \in Counted => n = 0) => Control(t) \in Wire(n)
    /\ \A k \in Nat : \A n : Content(k) \in Wire(n)
    /\ \A t : Control(t).msg_type = t
    /\ \A k : Content(k).msg_type = "MESSAGE_HEADER"
<1>1. "MESSAGE_HEADER" \in Types /\ "MESSAGE_HEADER" \notin Counted
  BY DEF Types, Counted
<1> QED
  BY <1>1 DEF Control, Content, Wire

LEMMA NotifyOK ==
    ASSUME NEW s, StreamsOK(s), NEW n \in Node, NEW type \in Reports
    PROVE  /\ StreamsOK(notify_control_node(s, n, type))
           /\ View(notify_control_node(s, n, type)) =
                 IF n # 0 /\ ~Ended(0)
                 THEN [View(s) EXCEPT ![n] = Append(View(s)[n], Control(type))] ELSE View(s)
<1>1. type \in Types \ {"MESSAGE_HEADER"}
  BY DEF Types, Reports
<1>2. \A t \in {0} : Control(type) \in Wire(t)
  BY <1>1, ControlOK
<1>3. CASE n = 0
  BY <1>3 DEF notify_control_node
<1>4. CASE n # 0
  <2>1. notify_control_node(s, n, type) = Written(s, n, {0}, Control(type))
    BY <1>4 DEF notify_control_node
  <2>2. StreamsOK(Written(s, n, {0}, Control(type)))
    BY <1>2, WrittenOK
  <2>3. View(Written(s, n, {0}, Control(type))) =
          IF n # 0 /\ 0 \in {0} /\ ~Ended(0)
          THEN [View(s) EXCEPT ![n] = Append(View(s)[n], Control(type))] ELSE View(s)
    BY ViewWritten
  <2> QED
    BY <2>1, <2>2, <2>3
<1> QED
  BY <1>3, <1>4

-----------------------------------------------------------------------------
(***************************************************************************)
(* The steps, as node 0 sees them: what they do to the streams that lead   *)
(* to it, its queue, its counts and the nodes that are active.             *)
(***************************************************************************)

(* Nobody becomes active, and a node that has ended does not go on. *)
Onwards ==
    /\ Active' \subseteq Active
    /\ Ended(0) => Ended(0)'
    /\ pc[0] = "returned" <=> pc'[0] = "returned"

LEMMA MovesOn ==
    ASSUME TypeOK, NEW n \in Node, NEW p \in Places, pc' = [pc EXCEPT ![n] = p], ~Ended(n),
           p \in {"running", "receiving"} => n \in Active,
           n = 0 => p # "returned"
    PROVE  Onwards /\ pc' \in [Node -> Places] /\ pc'[n] = p /\ (n # 0 => pc'[0] = pc[0])
<1>1. pc \in [Node -> Places] /\ 0 \in Node
  BY NodeFacts DEF TypeOK
<1>2. \A m \in Node : pc'[m] = IF m = n THEN p ELSE pc[m]
  BY <1>1
<1>3. pc' \in [Node -> Places]
  BY <1>1
<1>4. Active' \subseteq Active
  BY <1>2 DEF Active
<1>5. Ended(0) => Ended(0)'
  BY <1>1, <1>2 DEF Ended
<1>6. pc[0] = "returned" <=> pc'[0] = "returned"
  BY <1>1, <1>2 DEF Ended
<1> QED
  BY <1>1, <1>2, <1>3, <1>4, <1>5, <1>6 DEF Onwards

LEMMA StaysPut == ASSUME UNCHANGED pc PROVE Onwards
BY DEF Onwards, Active, Ended

(* An active node keeps the invariant AllGone of a node 0 that returned. *)
LEMMA GoneStays ==
    ASSUME AllGone, Onwards, Active # {} \/ unreceived' = unreceived
    PROVE  AllGone'
BY DEF AllGone, Onwards

(* n reports to node 0, which counts its own messages at once. *)
After(v, n, type) ==
    IF n # 0 THEN [v EXCEPT ![n] = Append(v[n], Control(type))] ELSE v

Worth(type)  == CASE type = "SENT_MESSAGE" -> 1 [] type = "GOT_MESSAGE" -> -1 [] OTHER -> 0
Own(n, type) == IF n = 0 THEN Worth(type) ELSE 0

LEMMA AccountTold ==
    ASSUME NEW v \in Views(Wire(0)), NEW b \in Seq(Queued(0)), NEW o \in Int, NEW u \in Int,
           Account(v, b, o, u), NEW n \in Node, NEW type \in Reports
    PROVE  Account(After(v, n, type), b, o + Own(n, type), u + Worth(type))
<1>1. Control(type) \in Wire(0) /\ Worth(type) \in Int
  BY ControlOK DEF Types, Reports, Worth
<1>2. CASE n = 0
  BY <1>1, <1>2, AccountOwn DEF After, Own
<1>3. CASE n # 0
  <2>1. n \in Peers(0)
    BY <1>3 DEF Peers
  <2>2. Account([v EXCEPT ![n] = Append(v[n], Control(type))], b, o,
                u + One(Control(type), "SENT_MESSAGE") - One(Control(type), "GOT_MESSAGE"))
    BY <1>1, <2>1, AccountWrites
  <2>3. u + One(Control(type), "SENT_MESSAGE") - One(Control(type), "GOT_MESSAGE") = u + Worth(type)
    BY ControlOK DEF One, Worth
  <2>4. o + Own(n, type) = o
    BY <1>3 DEF Own
  <2> QED
    BY <1>3, <2>2, <2>3, <2>4 DEF After
<1> QED
  BY <1>2, <1>3

(* An active node writes e to node 0, and no report of a message. *)
LEMMA WritesOther ==
    ASSUME NEW v \in Views(Wire(0)), NEW b \in Seq(Queued(0)), NEW o \in Int, NEW u \in Int,
           Account(v, b, o, u), NEW gone, NEW act, Ordered(v, b, gone, act),
           NEW n \in Peers(0), n \in act, NEW e \in Wire(0),
           e.msg_type \notin {"SENT_MESSAGE", "GOT_MESSAGE"},
           NEW new, new \subseteq act, e.msg_type = "NODE_TERMINATE" => n \notin new
    PROVE  /\ Account([v EXCEPT ![n] = Append(v[n], e)], b, o, u)
           /\ Ordered([v EXCEPT ![n] = Append(v[n], e)], b, gone, new)
<1>1. Account([v EXCEPT ![n] = Append(v[n], e)], b, o,
              u + One(e, "SENT_MESSAGE") - One(e, "GOT_MESSAGE"))
  BY AccountWrites
<1>2. u + One(e, "SENT_MESSAGE") - One(e, "GOT_MESSAGE") = u
  BY DEF One
<1>3. Ordered([v EXCEPT ![n] = Append(v[n], e)], b, gone, new)
  BY OrderWrites
<1> QED
  BY <1>1, <1>2, <1>3

-----------------------------------------------------------------------------
(* An exception leaves node n's program. *)
LEMMA ThrowKeeps ==
    ASSUME BspInv, NEW n \in Node, pc[n] \in {"running", "receiving", "closing"}, Throw(n),
           terminated' = terminated, outstanding_messages' = outstanding_messages,
           unreceived' = unreceived, num_waiting_nodes' = num_waiting_nodes,
           current_epoch' = current_epoch
    PROVE  BspInv'
<1> DEFINE w == Written(stream, n, Peers(n), Control("SHUTDOWN"))
           s == IF pc[n] = "closing" /\ n # 0 THEN stream ELSE w
<1>1. /\ pc' = [pc EXCEPT ![n] = "threw"]
      /\ stream' = Forgotten(s, n)
      /\ msg_buffer' = [msg_buffer EXCEPT ![n] = <<>>]
  BY DEF Throw, Destroyed, Forgotten
<1>2. TypeOK /\ Control0 /\ AllGone /\ StreamsOK(stream) /\ ~Ended(n)
  BY DEF BspInv, TypeOK, Ended
<1>3. Control("SHUTDOWN") \in Wire(0) /\ \A t \in Peers(n) : Control("SHUTDOWN") \in Wire(t)
  BY ControlOK DEF Types, Counted
<1>4. /\ StreamsOK(w)
      /\ View(w) = IF n # 0 /\ 0 \in Peers(n) /\ ~Ended(0)
                   THEN [View(stream) EXCEPT ![n] = Append(View(stream)[n], Control("SHUTDOWN"))]
                   ELSE View(stream)
  BY <1>2, <1>3, WrittenOK, ViewWritten
<1>5. Onwards /\ pc' \in [Node -> Places] /\ pc'[n] = "threw" /\ (n # 0 => pc'[0] = pc[0])
  <2>1. "threw" \in Places /\ ~ "threw" \in {"running", "receiving"}
    BY DEF Places
  <2> QED
    BY <1>1, <1>2, <2>1, MovesOn
<1> HIDE DEF w
<1>6. StreamsOK(s)
  BY <1>2, <1>4
<1>s. s = (IF pc[n] = "closing" /\ n # 0 THEN stream ELSE w)
  OBVIOUS
<1> HIDE DEF s
<1>7. StreamsOK(stream') /\ (n # 0 => View(stream') = View(s))
  BY <1>1, <1>6, ForgottenOK
<1>8. \A m \in Node : msg_buffer'[m] = (IF m = n THEN <<>> ELSE msg_buffer[m])
  BY <1>1, <1>2 DEF TypeOK, QueuesOK
<1>9. QueuesOK'
  <2>1. DOMAIN msg_buffer' = Node
    BY <1>1, <1>2 DEF TypeOK, QueuesOK
  <2>2. ASSUME NEW m \in Node PROVE msg_buffer'[m] \in Seq(Queued(m))
    <3>1. msg_buffer[m] \in Seq(Queued(m)) /\ <<>> \in Seq(Queued(m))
      BY <1>2 DEF TypeOK, QueuesOK
    <3> QED
      BY <1>8, <3>1
  <2> QED
    BY <2>1, <2>2 DEF QueuesOK
<1>10. TypeOK'
  BY <1>2, <1>5, <1>7, <1>9 DEF TypeOK, KnownGone, StreamsOK
<1>11. AllGone'
  BY <1>2, <1>5, GoneStays
<1>12. Control0'
  <2> SUFFICES ASSUME ~Ended(0)'
               PROVE  /\ Account(View(stream)', msg_buffer'[0], outstanding_messages', unreceived')
                      /\ Ordered(View(stream)', msg_buffer'[0], terminated'[0], Active')
    BY DEF Control0
  <2>1. n # 0 /\ ~Ended(0) /\ 0 \in Node
    BY <1>5, NodeFacts DEF Ended, Onwards
  <2>2. /\ Account(View(stream), msg_buffer[0], outstanding_messages, unreceived)
        /\ Ordered(View(stream), msg_buffer[0], terminated[0], Active)
    BY <1>2, <2>1 DEF Control0
  <2>3. msg_buffer'[0] = msg_buffer[0] /\ View(stream)' = View(s)
    BY <1>7, <1>8, <2>1 DEF View
  <2>4. View(stream) \in Views(Wire(0)) /\ msg_buffer[0] \in Seq(Queued(0))
        /\ outstanding_messages \in Int /\ unreceived \in Int
    BY <1>2, <2>1, ViewOK DEF TypeOK, QueuesOK
  <2>5. CASE pc[n] = "closing"
    BY <1>5, <1>s, <2>1, <2>2, <2>3, <2>5, OrderKept DEF Onwards
  <2>6. CASE pc[n] # "closing"
    <3>1. n \in Peers(0) /\ 0 \in Peers(n) /\ n \in Active
      BY <2>1, <2>6 DEF Peers, Active
    <3>2. View(s) = [View(stream) EXCEPT ![n] = Append(View(stream)[n], Control("SHUTDOWN"))]
      BY <1>4, <1>s, <2>1, <2>6, <3>1
    <3>3. Control("SHUTDOWN").msg_type = "SHUTDOWN"
      BY ControlOK
    <3>4. Active' \subseteq Active
      BY <1>5 DEF Onwards
    <3> DEFINE e == Control("SHUTDOWN")
               v == View(stream)
               A == Active'
    <3>5. e \in Wire(0) /\ e.msg_type = "SHUTDOWN" /\ A \subseteq Active
      BY <1>3, <3>3, <3>4
    <3>6. v \in Views(Wire(0))
          /\ Account(v, msg_buffer[0], outstanding_messages, unreceived)
          /\ Ordered(v, msg_buffer[0], terminated[0], Active)
      BY <2>2, <2>4
    <3> HIDE DEF e, v, A
    <3>7. e.msg_type \notin {"SENT_MESSAGE", "GOT_MESSAGE"} /\ e.msg_type # "NODE_TERMINATE"
      BY <3>5
    <3>8. /\ Account([v EXCEPT ![n] = Append(v[n], e)], msg_buffer[0], outstanding_messages, unreceived)
          /\ Ordered([v EXCEPT ![n] = Append(v[n], e)], msg_buffer[0], terminated[0], A)
      BY <2>4, <3>1, <3>5, <3>6, <3>7, WritesOther
    <3> QED
      BY <2>3, <3>2, <3>8 DEF e, v, A
  <2> QED
    BY <2>5, <2>6
<1> QED
  BY <1>10, <1>11, <1>12 DEF BspInv

-----------------------------------------------------------------------------
(* What the invariant says of node 0 before a step after which it goes on. *)
LEMMA GoesOn ==
    ASSUME BspInv, Onwards, ~Ended(0)'
    PROVE  /\ ~Ended(0) /\ 0 \in Node /\ Active' \subseteq Active
           /\ View(stream) \in Views(Wire(0)) /\ msg_buffer[0] \in Seq(Queued(0))
           /\ outstanding_messages \in Int /\ unreceived \in Int
           /\ Account(View(stream), msg_buffer[0], outstanding_messages, unreceived)
           /\ Ordered(View(stream), msg_buffer[0], terminated[0], Active)
<1>1. ~Ended(0) /\ 0 \in Node /\ Active' \subseteq Active
  BY NodeFacts DEF Onwards
<1>2. StreamsOK(stream)
  BY DEF BspInv, TypeOK
<1> QED
  BY <1>1, <1>2, ViewOK DEF BspInv, TypeOK, QueuesOK, Control0

(* An active node reports to node 0. *)
LEMMA Told ==
    ASSUME NEW v \in Views(Wire(0)), NEW b \in Seq(Queued(0)), NEW o \in Int, NEW u \in Int,
           Account(v, b, o, u), NEW gone, NEW act, Ordered(v, b, gone, act),
           NEW n \in Node, n \in act, NEW type \in Reports, type # "NODE_TERMINATE",
           NEW new, new \subseteq act
    PROVE  /\ Account(After(v, n, type), b, o + Own(n, type), u + Worth(type))
           /\ Ordered(After(v, n, type), b, gone, new)
<1>1. Account(After(v, n, type), b, o + Own(n, type), u + Worth(type))
  BY AccountTold
<1>2. CASE n = 0
  BY <1>1, <1>2, OrderKept DEF After
<1>3. CASE n # 0
  <2> DEFINE e == Control(type)
  <2>1. n \in Peers(0) /\ e \in Wire(0) /\ e.msg_type = type
    BY <1>3, ControlOK DEF Peers, Types, Reports
  <2> HIDE DEF e
  <2>2. Ordered([v EXCEPT ![n] = Append(v[n], e)], b, gone, new)
    BY <2>1, OrderWrites
  <2>3. After(v, n, type) = [v EXCEPT ![n] = Append(v[n], e)]
    BY <1>3 DEF After, e
  <2> QED
    BY <1>1, <2>2, <2>3
<1> QED
  BY <1>2, <1>3

-----------------------------------------------------------------------------
LEMMA SendKeeps ==
    ASSUME BspInv, NEW n \in Node, NEW to \in Peers(n), send_data(n, to)
    PROVE  BspInv'
<1>1. CASE to \in terminated[n]
  <2>1. /\ Throw(n) /\ pc[n] = "running"
        /\ terminated' = terminated /\ outstanding_messages' = outstanding_messages
        /\ unreceived' = unreceived /\ num_waiting_nodes' = num_waiting_nodes
        /\ current_epoch' = current_epoch
    BY <1>1 DEF send_data
  <2> QED
    BY <2>1, ThrowKeeps
<1>2. CASE to \notin terminated[n]
  <2> DEFINE e == Content(current_epoch[n])
             s == Written(stream, n, {to}, e)
  <2>1. /\ pc[n] = "running" /\ pc' = pc /\ msg_buffer' = msg_buffer
        /\ stream' = notify_control_node(s, n, "SENT_MESSAGE")
        /\ outstanding_messages' = outstanding_messages + (IF n = 0 THEN 1 ELSE 0)
        /\ unreceived' = unreceived + 1
        /\ current_epoch' = current_epoch /\ terminated' = terminated
        /\ num_waiting_nodes' = num_waiting_nodes
    BY <1>2 DEF send_data
  <2>2. TypeOK /\ StreamsOK(stream) /\ AllGone
    BY DEF BspInv, TypeOK
  <2>3. e.msg_type = "MESSAGE_HEADER" /\ \A t : e \in Wire(t)
    <3>1. current_epoch[n] \in Nat
      BY <2>2 DEF TypeOK
    <3> QED
      BY <3>1, ControlOK
  <2> HIDE DEF e
  <2>4. /\ StreamsOK(s)
        /\ View(s) = IF n # 0 /\ 0 \in {to} /\ ~Ended(0)
                     THEN [View(stream) EXCEPT ![n] = Append(View(stream)[n], e)]
                     ELSE View(stream)
    BY <2>2, <2>3, WrittenOK, ViewWritten
  <2> HIDE DEF s
  <2>5. "SENT_MESSAGE" \in Reports
    BY DEF Reports
  <2>6. /\ StreamsOK(stream')
        /\ View(stream') =
              IF n # 0 /\ ~Ended(0)
              THEN [View(s) EXCEPT ![n] = Append(View(s)[n], Control("SENT_MESSAGE"))] ELSE View(s)
    BY <2>1, <2>4, <2>5, NotifyOK
  <2>7. Onwards /\ n \in Active
    BY <2>1, StaysPut DEF Active
  <2>8. TypeOK'
    BY <2>1, <2>2, <2>6 DEF TypeOK, QueuesOK, KnownGone, StreamsOK
  <2>9. AllGone'
    BY <2>2, <2>7, GoneStays
  <2>10. Control0'
    <3> SUFFICES ASSUME ~Ended(0)'
                 PROVE  /\ Account(View(stream'), msg_buffer'[0], outstanding_messages', unreceived')
                        /\ Ordered(View(stream'), msg_buffer'[0], terminated'[0], Active')
      BY DEF Control0, View
    <3> DEFINE v == View(stream)
               r == View(s)
               w == View(stream')
               A == Active'
               b == msg_buffer[0]
               o == outstanding_messages
               g == terminated[0]
               q == outstanding_messages'
    <3>1. /\ ~Ended(0) /\ A \subseteq Active /\ v \in Views(Wire(0)) /\ b \in Seq(Queued(0))
          /\ o \in Int /\ unreceived \in Int
          /\ Account(v, b, o, unreceived) /\ Ordered(v, b, g, Active)
      BY <2>7, GoesOn
    <3>2. r \in Views(Wire(0))
      BY <2>4, ViewOK
    <3>3. Worth("SENT_MESSAGE") = 1 /\ "SENT_MESSAGE" # "NODE_TERMINATE"
      BY DEF Worth
    <3>4. n # 0 => n \in Peers(0)
      BY DEF Peers
    <3>5. w = After(r, n, "SENT_MESSAGE")
      BY <2>6, <3>1 DEF After
    <3>6. q = o + Own(n, "SENT_MESSAGE")
      BY <2>1, <3>1, <3>3 DEF Own
    <3>7. r = v \/ (n # 0 /\ r = [v EXCEPT ![n] = Append(v[n], e)])
      BY <2>4
    <3>8. e \in Wire(0) /\ e.msg_type \notin {"SENT_MESSAGE", "GOT_MESSAGE"}
          /\ e.msg_type # "NODE_TERMINATE"
      BY <2>3
    <3> HIDE DEF v, r, w, A, b, o, g, q
    <3>9. Account(r, b, o, unreceived) /\ Ordered(r, b, g, Active)
      <4>1. CASE r = v
        BY <3>1, <4>1
      <4>2. CASE n # 0 /\ r = [v EXCEPT ![n] = Append(v[n], e)]
        <5>1. n \in Peers(0) /\ Active \subseteq Active
          BY <3>4, <4>2
        <5>2. /\ Account([v EXCEPT ![n] = Append(v[n], e)], b, o, unreceived)
              /\ Ordered([v EXCEPT ![n] = Append(v[n], e)], b, g, Active)
          BY <2>7, <3>1, <3>8, <5>1, WritesOther
        <5> QED
          BY <4>2, <5>2
      <4> QED
        BY <3>7, <4>1, <4>2
    <3>10. /\ Account(After(r, n, "SENT_MESSAGE"), b, o + Own(n, "SENT_MESSAGE"),
                       unreceived + Worth("SENT_MESSAGE"))
           /\ Ordered(After(r, n, "SENT_MESSAGE"), b, g, A)
      BY <2>5, <2>7, <3>1, <3>2, <3>3, <3>9, Told
    <3>11. Account(w, b, q, unreceived + 1) /\ Ordered(w, b, g, A)
      BY <3>3, <3>5, <3>6, <3>10
    <3> QED
      BY <2>1, <3>11 DEF v, r, w, A, b, o, g, q
  <2> QED
    BY <2>8, <2>9, <2>10 DEF BspInv
<1> QED
  BY <1>1, <1>2

-----------------------------------------------------------------------------
LEMMA ReceiveKeeps ==
    ASSUME BspInv, NEW n \in Node, receive_data(n)
    PROVE  BspInv'
<1>1. /\ pc[n] = "running" /\ pc' = [pc EXCEPT ![n] = "receiving"]
      /\ stream' = notify_control_node(stream, n, "IN_WAITING_STATE")
      /\ msg_buffer' = msg_buffer /\ current_epoch' = current_epoch /\ terminated' = terminated
      /\ outstanding_messages' = outstanding_messages /\ num_waiting_nodes' = num_waiting_nodes
      /\ unreceived' = unreceived
  BY DEF receive_data, counts
<1>2. TypeOK /\ StreamsOK(stream) /\ AllGone
  BY DEF BspInv, TypeOK
<1>3. "IN_WAITING_STATE" \in Reports
  BY DEF Reports
<1>4. /\ StreamsOK(stream')
      /\ View(stream') =
            IF n # 0 /\ ~Ended(0)
            THEN [View(stream) EXCEPT ![n] = Append(View(stream)[n], Control("IN_WAITING_STATE"))]
            ELSE View(stream)
  BY <1>1, <1>2, <1>3, NotifyOK
<1>5. n \in Active /\ ~Ended(n)
  BY <1>1 DEF Active, Ended
<1>6. Onwards /\ pc' \in [Node -> Places]
  <2>1. "receiving" \in Places /\ (n = 0 => "receiving" # "returned")
        /\ ("receiving" \in {"running", "receiving"} => n \in Active)
    BY <1>5 DEF Places
  <2> QED
    BY <1>1, <1>2, <1>5, <2>1, MovesOn
<1>7. TypeOK'
  BY <1>1, <1>2, <1>4, <1>6 DEF TypeOK, QueuesOK, KnownGone, StreamsOK
<1>8. AllGone'
  BY <1>2, <1>5, <1>6, GoneStays
<1>9. Control0'
  <2> SUFFICES ASSUME ~Ended(0)'
               PROVE  /\ Account(View(stream'), msg_buffer'[0], outstanding_messages', unreceived')
                      /\ Ordered(View(stream'), msg_buffer'[0], terminated'[0], Active')
    BY DEF Control0, View
  <2> DEFINE v == View(stream)
             w == View(stream')
             A == Active'
             b == msg_buffer[0]
             o == outstanding_messages
             g == terminated[0]
  <2>1. /\ ~Ended(0) /\ A \subseteq Active /\ v \in Views(Wire(0)) /\ b \in Seq(Queued(0))
        /\ o \in Int /\ unreceived \in Int
        /\ Account(v, b, o, unreceived) /\ Ordered(v, b, g, Active)
    BY <1>6, GoesOn
  <2>2. Worth("IN_WAITING_STATE") = 0 /\ "IN_WAITING_STATE" # "NODE_TERMINATE"
    BY DEF Worth
  <2>3. w = After(v, n, "IN_WAITING_STATE")
    BY <1>4, <2>1 DEF After
  <2>4. o + Own(n, "IN_WAITING_STATE") = o /\ unreceived + Worth("IN_WAITING_STATE") = unreceived
    BY <2>1, <2>2 DEF Own
  <2> HIDE DEF v, w, A, b, o, g
  <2>6. /\ Account(After(v, n, "IN_WAITING_STATE"), b, o + Own(n, "IN_WAITING_STATE"),
                   unreceived + Worth("IN_WAITING_STATE"))
        /\ Ordered(After(v, n, "IN_WAITING_STATE"), b, g, A)
    BY <1>3, <1>5, <2>1, <2>2, Told
  <2>7. Account(w, b, o, unreceived) /\ Ordered(w, b, g, A)
    BY <2>3, <2>4, <2>6
  <2> QED
    BY <1>1, <2>7 DEF v, w, A, b, o, g
<1> QED
  BY <1>7, <1>8, <1>9 DEF BspInv

LEMMA ClosesKeeps ==
    ASSUME BspInv, NEW n \in Node, Closes(n)
    PROVE  BspInv'
<1> DEFINE e == Control("NODE_TERMINATE")
           x == Written(stream, n, Peers(n), e)
<1>1. /\ pc[n] = "running" /\ pc' = [pc EXCEPT ![n] = "closing"]
      /\ stream' = (IF n = 0 THEN stream ELSE x)
      /\ msg_buffer' = msg_buffer /\ current_epoch' = current_epoch /\ terminated' = terminated
      /\ outstanding_messages' = outstanding_messages /\ num_waiting_nodes' = num_waiting_nodes
      /\ unreceived' = unreceived
  BY DEF Closes, counts
<1>2. TypeOK /\ StreamsOK(stream) /\ AllGone
  BY DEF BspInv, TypeOK
<1>3. e.msg_type = "NODE_TERMINATE" /\ \A t : e \in Wire(t)
  BY ControlOK DEF Types, Reports, Counted
<1> HIDE DEF e
<1>4. /\ StreamsOK(x)
      /\ View(x) = IF n # 0 /\ 0 \in Peers(n) /\ ~Ended(0)
                   THEN [View(stream) EXCEPT ![n] = Append(View(stream)[n], e)] ELSE View(stream)
  BY <1>2, <1>3, WrittenOK, ViewWritten
<1> HIDE DEF x
<1>5. n \in Active /\ ~Ended(n)
  BY <1>1 DEF Active, Ended
<1>6. Onwards /\ pc' \in [Node -> Places] /\ pc'[n] = "closing"
  <2>1. "closing" \in Places /\ (n = 0 => "closing" # "returned")
        /\ ("closing" \in {"running", "receiving"} => n \in Active)
    BY <1>5 DEF Places
  <2> QED
    BY <1>1, <1>2, <1>5, <2>1, MovesOn
<1>7. TypeOK'
  BY <1>1, <1>2, <1>4, <1>6 DEF TypeOK, QueuesOK, KnownGone, StreamsOK
<1>8. AllGone'
  BY <1>2, <1>5, <1>6, GoneStays
<1>9. Control0'
  <2> SUFFICES ASSUME ~Ended(0)'
               PROVE  /\ Account(View(stream'), msg_buffer'[0], outstanding_messages', unreceived')
                      /\ Ordered(View(stream'), msg_buffer'[0], terminated'[0], Active')
    BY DEF Control0, View
  <2> DEFINE v == View(stream)
             A == Active'
             b == msg_buffer[0]
             o == outstanding_messages
             g == terminated[0]
  <2>1. /\ ~Ended(0) /\ A \subseteq Active /\ v \in Views(Wire(0)) /\ b \in Seq(Queued(0))
        /\ o \in Int /\ unreceived \in Int
        /\ Account(v, b, o, unreceived) /\ Ordered(v, b, g, Active)
    BY <1>6, GoesOn
  <2>2. n \notin A
    BY <1>6 DEF Active
  <2>3. n # 0 => n \in Peers(0) /\ 0 \in Peers(n)
    BY NodeFacts DEF Peers
  <2>4. CASE n = 0
    <3>1. stream' = stream
      BY <1>1, <2>4
    <3>2. Ordered(v, b, g, A)
      <4> HIDE DEF v, b, g, A
      <4> QED
        BY <2>1, OrderKept
    <3> QED
      BY <1>1, <2>1, <3>1, <3>2
  <2>5. CASE n # 0
    <3>1. stream' = x /\ n \in Peers(0)
      BY <1>1, <2>3, <2>5
    <3>2. View(x) = [v EXCEPT ![n] = Append(v[n], e)]
      BY <1>4, <2>1, <2>3, <2>5
    <3> HIDE DEF v, b, o, g, A
    <3>3. e \in Wire(0) /\ e.msg_type \notin {"SENT_MESSAGE", "GOT_MESSAGE"}
      BY <1>3
    <3>4. /\ Account([v EXCEPT ![n] = Append(v[n], e)], b, o, unreceived)
          /\ Ordered([v EXCEPT ![n] = Append(v[n], e)], b, g, A)
      BY <1>5, <2>1, <2>2, <3>1, <3>3, WritesOther
    <3> QED
      BY <1>1, <3>1, <3>2, <3>4 DEF v, b, o, g, A
  <2> QED
    BY <2>4, <2>5
<1> QED
  BY <1>7, <1>8, <1>9 DEF BspInv

-----------------------------------------------------------------------------
(* Reading and popping. *)
LEMMA ReadKeeps ==
    ASSUME BspInv, NEW c \in Conn, read_thread(c[1], c[2])
    PROVE  BspInv'
<1>0. PICK m \in Node, n \in Node : m # n /\ c = <<m, n>> /\ c[1] = m /\ c[2] = n
  BY ConnFacts
<1> DEFINE msg  == Head(stream[<<m, n>>])
           type == IF msg.msg_type = "SHUTDOWN" THEN "READ_ERROR" ELSE msg.msg_type
           e    == [msg_type |-> type, epoch |-> msg.epoch, sender_id |-> m]
<1>1. /\ ~Ended(n) /\ stream[<<m, n>>] # <<>>
      /\ msg_buffer' = [msg_buffer EXCEPT ![n] = Append(msg_buffer[n], e)]
      /\ stream' = [stream EXCEPT ![<<m, n>>] = Tail(stream[<<m, n>>])]
      /\ pc' = pc /\ current_epoch' = current_epoch /\ terminated' = terminated
      /\ outstanding_messages' = outstanding_messages /\ num_waiting_nodes' = num_waiting_nodes
      /\ unreceived' = unreceived
  BY <1>0 DEF read_thread, counts
<1>2. TypeOK /\ StreamsOK(stream) /\ QueuesOK /\ AllGone
  BY DEF BspInv, TypeOK
<1>3. <<m, n>> \in Conn /\ <<m, n>>[2] = n /\ m \in Peers(n) /\ (n = 0 => m \in Peers(0))
  BY <1>0, NodeFacts DEF Peers
<1>4. stream[<<m, n>>] \in Seq(Wire(n))
  BY <1>2, <1>3 DEF StreamsOK
<1>5. /\ Tail(stream[<<m, n>>]) \in Seq(Wire(n)) /\ msg \in Wire(n)
  BY <1>1, <1>4, Beheaded
<1> HIDE DEF msg
<1>6. /\ e \in Queued(n) /\ e.sender_id = m
      /\ e.msg_type = "NODE_TERMINATE" => msg.msg_type = "NODE_TERMINATE"
      /\ \A t \in Counted : One(e, t) = One(msg, t)
  <2>1. /\ msg.msg_type \in Types /\ msg.epoch \in Nat
        /\ (msg.msg_type \in Counted => n = 0)
        /\ (msg.msg_type # "MESSAGE_HEADER" => msg.epoch = 0)
    BY <1>5 DEF Wire
  <2>2. /\ e.msg_type = type /\ e.epoch = msg.epoch /\ e.sender_id = m
        /\ "READ_ERROR" \in Types /\ "READ_ERROR" \notin Counted /\ "SHUTDOWN" \notin Counted
    BY DEF Types, Counted
  <2>3. e \in [msg_type : Types, epoch : Nat, sender_id : Peers(n)]
    BY <1>3, <2>1, <2>2
  <2>4. e \in Queued(n)
    BY <2>1, <2>2, <2>3 DEF Queued
  <2>5. \A t \in Counted : One(e, t) = One(msg, t)
    BY <2>2 DEF One
  <2> HIDE DEF e
  <2> QED
    BY <2>2, <2>4, <2>5
<1> HIDE DEF e
<1>7. StreamsOK(stream')
  <2>1. DOMAIN stream' = Conn
    BY <1>1, <1>2 DEF StreamsOK
  <2>2. ASSUME NEW d \in Conn PROVE stream'[d] \in Seq(Wire(d[2]))
    <3>1. stream[d] \in Seq(Wire(d[2]))
      BY <1>2 DEF StreamsOK
    <3>2. CASE d = <<m, n>>
      <4>1. stream'[d] = Tail(stream[<<m, n>>]) /\ d[2] = n
        BY <1>1, <1>2, <3>2 DEF StreamsOK
      <4> QED
        BY <1>5, <4>1
    <3>3. CASE d # <<m, n>>
      BY <1>1, <1>2, <3>1, <3>3 DEF StreamsOK
    <3> QED
      BY <3>2, <3>3
  <2> QED
    BY <2>1, <2>2 DEF StreamsOK
<1>8. \A k \in Node : msg_buffer'[k] = IF k = n THEN Append(msg_buffer[n], e) ELSE msg_buffer[k]
  BY <1>1, <1>2 DEF QueuesOK
<1>9. QueuesOK'
  <2>1. DOMAIN msg_buffer' = Node
    BY <1>1, <1>2 DEF QueuesOK
  <2>2. ASSUME NEW k \in Node PROVE msg_buffer'[k] \in Seq(Queued(k))
    <3>1. msg_buffer[k] \in Seq(Queued(k))
      BY <1>2 DEF QueuesOK
    <3>2. k = n => Append(msg_buffer[n], e) \in Seq(Queued(k))
      BY <1>6, <3>1, Appended
    <3> QED
      BY <1>8, <3>1, <3>2
  <2> QED
    BY <2>1, <2>2 DEF QueuesOK
<1>10. Onwards
  BY <1>1, StaysPut
<1>11. TypeOK'
  BY <1>1, <1>2, <1>7, <1>9 DEF TypeOK, KnownGone, StreamsOK
<1>12. AllGone'
  BY <1>1, <1>2, <1>10, GoneStays
<1>13. Control0'
  <2> SUFFICES ASSUME ~Ended(0)'
               PROVE  /\ Account(View(stream'), msg_buffer'[0], outstanding_messages', unreceived')
                      /\ Ordered(View(stream'), msg_buffer'[0], terminated'[0], Active')
    BY DEF Control0, View
  <2> DEFINE v == View(stream)
             w == View(stream')
             b == msg_buffer[0]
             o == outstanding_messages
             g == terminated[0]
  <2>1. /\ ~Ended(0) /\ 0 \in Node /\ v \in Views(Wire(0)) /\ b \in Seq(Queued(0))
        /\ o \in Int /\ unreceived \in Int
        /\ Account(v, b, o, unreceived) /\ Ordered(v, b, g, Active)
    BY <1>10, GoesOn
  <2>2. Active' = Active
    BY <1>1 DEF Active
  <2>3. \A k \in Peers(0) : /\ <<k, 0>> \in Conn
                            /\ stream'[<<k, 0>>] = IF k = m /\ n = 0 THEN Tail(stream[<<m, n>>])
                                                  ELSE stream[<<k, 0>>]
    <3> SUFFICES ASSUME NEW k \in Peers(0)
                 PROVE  /\ <<k, 0>> \in Conn
                        /\ stream'[<<k, 0>>] = IF k = m /\ n = 0 THEN Tail(stream[<<m, n>>])
                                               ELSE stream[<<k, 0>>]
      OBVIOUS
    <3>1. <<k, 0>> \in Conn /\ (<<k, 0>> = <<m, n>> <=> k = m /\ n = 0)
      BY NodeFacts DEF Peers
    <3> QED
      BY <1>1, <1>2, <3>1 DEF StreamsOK
  <2>4. CASE n # 0
    <3>1. w = v /\ msg_buffer'[0] = b
      BY <1>8, <2>1, <2>3, <2>4 DEF View
    <3> QED
      BY <1>1, <2>1, <2>2, <3>1
  <2>5. CASE n = 0
    <3>1. m \in Peers(0) /\ v[m] = stream[<<m, n>>] /\ msg_buffer'[0] = Append(b, e)
      BY <1>3, <1>8, <2>1, <2>5 DEF View
    <3>2. v[m] # <<>> /\ Head(v[m]) = msg
      BY <1>1, <3>1 DEF msg
    <3>3. w = [v EXCEPT ![m] = Tail(v[m])]
      BY <2>3, <2>5, <3>1 DEF View
    <3>4. e \in Queued(0) /\ e.sender_id = m
          /\ (e.msg_type = "NODE_TERMINATE" => Head(v[m]).msg_type = "NODE_TERMINATE")
          /\ \A t \in Counted : One(e, t) = One(Head(v[m]), t)
      BY <1>6, <2>5, <3>2
    <3> HIDE DEF v, w, b, o, g
    <3>5. Account([v EXCEPT ![m] = Tail(v[m])], Append(b, e), o, unreceived)
      BY <2>1, <3>1, <3>2, <3>4, AccountReads
    <3>6. Ordered([v EXCEPT ![m] = Tail(v[m])], Append(b, e), g, Active)
      BY <2>1, <3>1, <3>2, <3>4, OrderReads
    <3> QED
      BY <1>1, <2>2, <3>1, <3>3, <3>5, <3>6 DEF v, w, b, o, g
  <2> QED
    BY <2>4, <2>5
<1> QED
  BY <1>11, <1>12, <1>13 DEF BspInv

LEMMA PopsOK ==
    ASSUME TypeOK, NEW n \in Node, NEW max, NEW msg \in Popped(n, max)
    PROVE  /\ IsTop(msg_buffer[n], Top(n)) /\ msg = msg_buffer[n][Top(n)] /\ msg \in Queued(n)
           /\ Pops(n) => /\ QueuesOK'
                         /\ msg_buffer'[0] = IF n = 0 THEN RemoveAt(msg_buffer[0], Top(0))
                                             ELSE msg_buffer[0]
<1>1. QueuesOK /\ msg_buffer[n] \in Seq(Queued(n)) /\ 0 \in Node
  BY NodeFacts DEF TypeOK, QueuesOK
<1>2. msg \in Range(msg_buffer[n]) /\ msg = msg_buffer[n][Top(n)]
  BY DEF Popped
<1>3. \E k \in DOMAIN msg_buffer[n] : msg = msg_buffer[n][k]
  BY <1>2 DEF Range
<1>4. msg_buffer[n] # <<>> /\ msg \in Queued(n)
  BY <1>1, <1>3
<1>5. IsTop(msg_buffer[n], Top(n))
  BY <1>1, <1>4, TopIsFirst
<1>6. Top(n) \in DOMAIN msg_buffer[n]
  BY <1>5 DEF IsTop
<1>7. RemoveAt(msg_buffer[n], Top(n)) \in Seq(Queued(n))
  BY <1>1, <1>6, Removed
<1>8. ASSUME Pops(n)
      PROVE  /\ QueuesOK'
             /\ msg_buffer'[0] = IF n = 0 THEN RemoveAt(msg_buffer[0], Top(0)) ELSE msg_buffer[0]
  <2>1. msg_buffer' = [msg_buffer EXCEPT ![n] = RemoveAt(msg_buffer[n], Top(n))]
    BY <1>8 DEF Pops
  <2> DEFINE r == RemoveAt(msg_buffer[n], Top(n))
  <2>2. r \in Seq(Queued(n)) /\ msg_buffer' = [msg_buffer EXCEPT ![n] = r]
    BY <1>7, <2>1
  <2>r. n = 0 => r = RemoveAt(msg_buffer[0], Top(0))
    OBVIOUS
  <2> HIDE DEF r
  <2>3. DOMAIN msg_buffer' = Node
        /\ \A k \in Node : msg_buffer'[k] = IF k = n THEN r ELSE msg_buffer[k]
    BY <1>1, <2>2 DEF QueuesOK
  <2>4. ASSUME NEW k \in Node PROVE msg_buffer'[k] \in Seq(Queued(k))
    BY <1>1, <2>2, <2>3 DEF QueuesOK
  <2> QED
    BY <1>1, <2>3, <2>4, <2>r DEF QueuesOK
<1> QED
  BY <1>2, <1>4, <1>5, <1>8

(* Node n takes a report, or the news of a barrier, and only that. *)
LEMMA TakesKeeps ==
    ASSUME BspInv, NEW n \in Node, NEW max, NEW msg \in Popped(n, max), Pops(n), Takes(n, msg),
           msg.msg_type # "MESSAGE_HEADER",
           pc' = pc, stream' = stream, current_epoch' = current_epoch, unreceived' = unreceived
    PROVE  BspInv'
<1> DEFINE x == Top(n)
<1>1. TypeOK /\ QueuesOK /\ KnownGone /\ AllGone
  BY DEF BspInv, TypeOK
<1>2. /\ IsTop(msg_buffer[n], x) /\ msg = msg_buffer[n][x] /\ msg \in Queued(n)
      /\ QueuesOK'
      /\ msg_buffer'[0] = IF n = 0 THEN RemoveAt(msg_buffer[0], Top(0)) ELSE msg_buffer[0]
  BY <1>1, PopsOK
<1>3. /\ msg.msg_type \in Types /\ msg.sender_id \in Peers(n)
      /\ (msg.msg_type \in Counted => n = 0)
  BY <1>2 DEF Queued
<1>4. /\ num_waiting_nodes' \in Int
      /\ outstanding_messages' = outstanding_messages + Worth(msg.msg_type)
      /\ outstanding_messages' \in Int
  <2>1. num_waiting_nodes \in Int /\ outstanding_messages \in Int
    BY <1>1 DEF TypeOK
  <2> QED
    BY <2>1 DEF Takes, Counts, Worth
<1>5. /\ KnownGone'
      /\ terminated'[0] = IF n = 0 /\ msg.msg_type = "NODE_TERMINATE"
                          THEN terminated[0] \cup {msg.sender_id} ELSE terminated[0]
  <2>1. CASE msg.msg_type = "NODE_TERMINATE"
    <3>1. terminated' = [terminated EXCEPT ![n] = terminated[n] \cup {msg.sender_id}]
      BY <2>1 DEF Takes
    <3> QED
      BY <1>1, <1>3, <2>1, <3>1, NodeFacts DEF KnownGone
  <2>2. CASE msg.msg_type # "NODE_TERMINATE"
    BY <1>1, <2>2 DEF Takes, KnownGone
  <2> QED
    BY <2>1, <2>2
<1>6. Onwards
  BY StaysPut
<1>7. TypeOK'
  BY <1>1, <1>2, <1>4, <1>5 DEF TypeOK, StreamsOK
<1>8. AllGone'
  BY <1>1, <1>6, GoneStays
<1>9. Control0'
  <2> SUFFICES ASSUME ~Ended(0)'
               PROVE  /\ Account(View(stream'), msg_buffer'[0], outstanding_messages', unreceived')
                      /\ Ordered(View(stream'), msg_buffer'[0], terminated'[0], Active')
    BY DEF Control0, View
  <2> DEFINE v == View(stream)
             b == msg_buffer[0]
             o == outstanding_messages
             g == terminated[0]
             h == terminated'[0]
  <2>1. /\ ~Ended(0) /\ 0 \in Node /\ v \in Views(Wire(0)) /\ b \in Seq(Queued(0))
        /\ o \in Int /\ unreceived \in Int
        /\ Account(v, b, o, unreceived) /\ Ordered(v, b, g, Active)
    BY <1>6, GoesOn
  <2>2. Active' = Active /\ View(stream') = v
    BY DEF Active
  <2>3. CASE n # 0
    <3>1. msg.msg_type \notin Counted
      BY <1>3, <2>3
    <3>2. Worth(msg.msg_type) = 0
      BY <3>1 DEF Worth, Counted
    <3>3. outstanding_messages' = o /\ h = g /\ msg_buffer'[0] = b
      BY <1>2, <1>4, <1>5, <2>1, <2>3, <3>2
    <3> QED
      BY <2>1, <2>2, <3>3
  <2>4. CASE n = 0
    <3>1. IsTop(b, x) /\ msg = b[x] /\ x \in DOMAIN b /\ msg_buffer'[0] = RemoveAt(b, x)
      BY <1>2, <2>4 DEF IsTop
    <3>2. h = IF b[x].msg_type = "NODE_TERMINATE" THEN g \cup {b[x].sender_id} ELSE g
      BY <1>5, <2>4, <3>1
    <3>3. o + One(b[x], "SENT_MESSAGE") - One(b[x], "GOT_MESSAGE") = outstanding_messages'
      BY <1>4, <2>1, <3>1 DEF One, Worth
    <3> HIDE DEF v, b, o, g, h, x
    <3>4. Account(v, RemoveAt(b, x), o + One(b[x], "SENT_MESSAGE") - One(b[x], "GOT_MESSAGE"), unreceived)
      BY <2>1, <3>1, AccountPops
    <3>5. Ordered(v, RemoveAt(b, x), h, Active)
      BY <2>1, <3>1, <3>2, OrderPops
    <3> QED
      BY <2>2, <3>1, <3>3, <3>4, <3>5 DEF v, b, o, g, h
  <2> QED
    BY <2>3, <2>4
<1> QED
  BY <1>7, <1>8, <1>9 DEF BspInv

-----------------------------------------------------------------------------
(* receive_data() returns with a message, or with the news of a barrier. *)
LEMMA GotKeeps ==
    ASSUME BspInv, NEW n \in Node, NEW max, NEW msg \in Popped(n, max), Pops(n),
           pc[n] = "receiving", msg.msg_type = "MESSAGE_HEADER",
           pc' = [pc EXCEPT ![n] = "running"],
           stream' = notify_control_node(stream, n, "GOT_MESSAGE"),
           outstanding_messages' = outstanding_messages - (IF n = 0 THEN 1 ELSE 0),
           unreceived' = unreceived - 1,
           current_epoch' = current_epoch, terminated' = terminated,
           num_waiting_nodes' = num_waiting_nodes
    PROVE  BspInv'
<1> DEFINE x == Top(n)
<1>1. TypeOK /\ StreamsOK(stream) /\ AllGone /\ outstanding_messages \in Int /\ unreceived \in Int
  BY DEF BspInv, TypeOK
<1>2. /\ IsTop(msg_buffer[n], x) /\ msg = msg_buffer[n][x] /\ msg \in Queued(n)
      /\ QueuesOK'
      /\ msg_buffer'[0] = IF n = 0 THEN RemoveAt(msg_buffer[0], Top(0)) ELSE msg_buffer[0]
  BY <1>1, PopsOK
<1>3. "GOT_MESSAGE" \in Reports
  BY DEF Reports
<1>4. /\ StreamsOK(stream')
      /\ View(stream') =
            IF n # 0 /\ ~Ended(0)
            THEN [View(stream) EXCEPT ![n] = Append(View(stream)[n], Control("GOT_MESSAGE"))]
            ELSE View(stream)
  BY <1>1, <1>3, NotifyOK
<1>5. n \in Active /\ ~Ended(n)
  BY DEF Active, Ended
<1>6. Onwards /\ pc' \in [Node -> Places]
  <2>1. "running" \in Places /\ (n = 0 => "running" # "returned")
        /\ ("running" \in {"running", "receiving"} => n \in Active)
    BY <1>5 DEF Places
  <2> QED
    BY <1>1, <1>5, <2>1, MovesOn
<1>7. TypeOK'
  BY <1>1, <1>2, <1>4, <1>6 DEF TypeOK, KnownGone, StreamsOK
<1>8. AllGone'
  BY <1>1, <1>5, <1>6, GoneStays
<1>9. Control0'
  <2> SUFFICES ASSUME ~Ended(0)'
               PROVE  /\ Account(View(stream'), msg_buffer'[0], outstanding_messages', unreceived')
                      /\ Ordered(View(stream'), msg_buffer'[0], terminated'[0], Active')
    BY DEF Control0, View
  <2> DEFINE v == View(stream)
             w == View(stream')
             A == Active'
             b == msg_buffer[0]
             a == msg_buffer'[0]
             o == outstanding_messages
             g == terminated[0]
  <2>1. /\ ~Ended(0) /\ 0 \in Node /\ A \subseteq Active
        /\ v \in Views(Wire(0)) /\ b \in Seq(Queued(0))
        /\ o \in Int /\ unreceived \in Int
        /\ Account(v, b, o, unreceived) /\ Ordered(v, b, g, Active)
    BY <1>6, GoesOn
  <2>2. a \in Seq(Queued(0))
    BY <1>2, <2>1 DEF QueuesOK
  <2>3. w = After(v, n, "GOT_MESSAGE")
    BY <1>4, <2>1 DEF After
  <2>4. Worth("GOT_MESSAGE") = -1 /\ "GOT_MESSAGE" # "NODE_TERMINATE"
    BY DEF Worth
  <2>5. o + Own(n, "GOT_MESSAGE") = outstanding_messages'
        /\ unreceived + Worth("GOT_MESSAGE") = unreceived'
    BY <2>1, <2>4 DEF Own
  <2>6. Account(v, a, o, unreceived) /\ Ordered(v, a, g, Active)
    <3>1. CASE n # 0
      BY <1>2, <2>1, <3>1
    <3>2. CASE n = 0
      <4>1. IsTop(b, x) /\ msg = b[x] /\ x \in DOMAIN b /\ a = RemoveAt(b, x)
        BY <1>2, <3>2 DEF IsTop
      <4>2. g = IF b[x].msg_type = "NODE_TERMINATE" THEN g \cup {b[x].sender_id} ELSE g
        BY <4>1
      <4>3. o + One(b[x], "SENT_MESSAGE") - One(b[x], "GOT_MESSAGE") = o
        BY <2>1, <4>1 DEF One
      <4> HIDE DEF v, b, o, g, x, a
      <4>4. Account(v, RemoveAt(b, x), o + One(b[x], "SENT_MESSAGE") - One(b[x], "GOT_MESSAGE"), unreceived)
        BY <2>1, <4>1, AccountPops
      <4>5. Ordered(v, RemoveAt(b, x), g, Active)
        BY <2>1, <4>1, <4>2, OrderPops
      <4> QED
        BY <4>1, <4>3, <4>4, <4>5
    <3> QED
      BY <3>1, <3>2
  <2> HIDE DEF v, w, A, b, a, o, g
  <2>7. /\ Account(After(v, n, "GOT_MESSAGE"), a, o + Own(n, "GOT_MESSAGE"),
                   unreceived + Worth("GOT_MESSAGE"))
        /\ Ordered(After(v, n, "GOT_MESSAGE"), a, g, A)
    BY <1>3, <1>5, <2>1, <2>2, <2>4, <2>6, Told
  <2>8. Account(w, a, outstanding_messages', unreceived') /\ Ordered(w, a, g, A)
    BY <2>3, <2>5, <2>7
  <2> QED
    BY <2>8 DEF v, w, A, b, a, o, g
<1> QED
  BY <1>7, <1>8, <1>9 DEF BspInv

LEMMA BarrierNewsKeeps ==
    ASSUME BspInv, NEW n \in Node, NEW max, NEW msg \in Popped(n, max), Pops(n),
           pc[n] = "receiving", msg.msg_type = "SEE_ALL_IN_WAITING_STATE",
           pc' = [pc EXCEPT ![n] = "running"],
           current_epoch' = [current_epoch EXCEPT ![n] = @ + 1],
           stream' = stream, terminated' = terminated, unreceived' = unreceived,
           outstanding_messages' = outstanding_messages,
           num_waiting_nodes' = num_waiting_nodes
    PROVE  BspInv'
<1> DEFINE x == Top(n)
<1>1. TypeOK /\ AllGone
  BY DEF BspInv
<1>2. /\ IsTop(msg_buffer[n], x) /\ msg = msg_buffer[n][x] /\ msg \in Queued(n)
      /\ QueuesOK'
      /\ msg_buffer'[0] = IF n = 0 THEN RemoveAt(msg_buffer[0], Top(0)) ELSE msg_buffer[0]
  BY <1>1, PopsOK
<1>5. n \in Active /\ ~Ended(n)
  BY DEF Active, Ended
<1>6. Onwards /\ pc' \in [Node -> Places]
  <2>1. "running" \in Places /\ (n = 0 => "running" # "returned")
        /\ ("running" \in {"running", "receiving"} => n \in Active)
    BY <1>5 DEF Places
  <2> QED
    BY <1>1, <1>5, <2>1, MovesOn
<1>7. TypeOK'
  <2>1. current_epoch' \in [Node -> Nat]
    BY <1>1 DEF TypeOK
  <2> QED
    BY <1>1, <1>2, <1>6, <2>1 DEF TypeOK, KnownGone, StreamsOK
<1>8. AllGone'
  BY <1>1, <1>5, <1>6, GoneStays
<1>9. Control0'
  <2> SUFFICES ASSUME ~Ended(0)'
               PROVE  /\ Account(View(stream'), msg_buffer'[0], outstanding_messages', unreceived')
                      /\ Ordered(View(stream'), msg_buffer'[0], terminated'[0], Active')
    BY DEF Control0, View
  <2> DEFINE v == View(stream)
             A == Active'
             b == msg_buffer[0]
             a == msg_buffer'[0]
             o == outstanding_messages
             g == terminated[0]
  <2>1. /\ ~Ended(0) /\ 0 \in Node /\ A \subseteq Active
        /\ v \in Views(Wire(0)) /\ b \in Seq(Queued(0))
        /\ o \in Int /\ unreceived \in Int
        /\ Account(v, b, o, unreceived) /\ Ordered(v, b, g, Active)
    BY <1>6, GoesOn
  <2>6. Account(v, a, o, unreceived) /\ Ordered(v, a, g, Active)
    <3>1. CASE n # 0
      BY <1>2, <2>1, <3>1
    <3>2. CASE n = 0
      <4>1. IsTop(b, x) /\ msg = b[x] /\ x \in DOMAIN b /\ a = RemoveAt(b, x)
        BY <1>2, <3>2 DEF IsTop
      <4>2. g = IF b[x].msg_type = "NODE_TERMINATE" THEN g \cup {b[x].sender_id} ELSE g
        BY <4>1
      <4>3. o + One(b[x], "SENT_MESSAGE") - One(b[x], "GOT_MESSAGE") = o
        BY <2>1, <4>1 DEF One
      <4> HIDE DEF v, b, o, g, x, a
      <4>4. Account(v, RemoveAt(b, x), o + One(b[x], "SENT_MESSAGE") - One(b[x], "GOT_MESSAGE"), unreceived)
        BY <2>1, <4>1, AccountPops
      <4>5. Ordered(v, RemoveAt(b, x), g, Active)
        BY <2>1, <4>1, <4>2, OrderPops
      <4> QED
        BY <4>1, <4>3, <4>4, <4>5
    <3> QED
      BY <3>1, <3>2
  <2>7. Ordered(v, a, g, A)
    <3> HIDE DEF v, A, b, a, g
    <3> QED
      BY <2>1, <2>6, OrderKept
  <2> QED
    BY <2>6, <2>7
<1> QED
  BY <1>7, <1>8, <1>9 DEF BspInv

LEMMA ReceivePopsKeeps ==
    ASSUME BspInv, NEW n \in Node, ReceivePops(n)
    PROVE  BspInv'
<1>1. PICK msg \in Popped(n, current_epoch[n]) :
       \/ /\ msg.msg_type = "MESSAGE_HEADER"
          /\ Pops(n)
          /\ pc' = [pc EXCEPT ![n] = "running"]
          /\ stream' = notify_control_node(stream, n, "GOT_MESSAGE")
          /\ outstanding_messages' = outstanding_messages - (IF n = 0 THEN 1 ELSE 0)
          /\ unreceived' = unreceived - 1
          /\ UNCHANGED <<current_epoch, terminated, num_waiting_nodes>>
       \/ /\ msg.msg_type = "SEE_ALL_IN_WAITING_STATE"
          /\ Pops(n)
          /\ pc' = [pc EXCEPT ![n] = "running"]
          /\ current_epoch' = [current_epoch EXCEPT ![n] = @ + 1]
          /\ UNCHANGED <<stream, terminated, counts, unreceived>>
       \/ /\ msg.msg_type = "READ_ERROR"
          /\ Throw(n)
          /\ UNCHANGED <<current_epoch, terminated, counts, unreceived>>
       \/ /\ msg.msg_type \in Reports
          /\ Pops(n)
          /\ Takes(n, msg)
          /\ UNCHANGED <<pc, stream, current_epoch, unreceived>>
  BY DEF ReceivePops
<1>2. pc[n] = "receiving"
  BY DEF ReceivePops
<1>3. CASE /\ msg.msg_type = "MESSAGE_HEADER"
           /\ Pops(n)
           /\ pc' = [pc EXCEPT ![n] = "running"]
           /\ stream' = notify_control_node(stream, n, "GOT_MESSAGE")
           /\ outstanding_messages' = outstanding_messages - (IF n = 0 THEN 1 ELSE 0)
           /\ unreceived' = unreceived - 1
           /\ UNCHANGED <<current_epoch, terminated, num_waiting_nodes>>
  <2>1. current_epoch' = current_epoch /\ terminated' = terminated
        /\ num_waiting_nodes' = num_waiting_nodes
    BY <1>3
  <2> QED
    BY <1>2, <1>3, <2>1, GotKeeps
<1>4. CASE /\ msg.msg_type = "SEE_ALL_IN_WAITING_STATE"
           /\ Pops(n)
           /\ pc' = [pc EXCEPT ![n] = "running"]
           /\ current_epoch' = [current_epoch EXCEPT ![n] = @ + 1]
           /\ UNCHANGED <<stream, terminated, counts, unreceived>>
  <2>1. /\ stream' = stream /\ terminated' = terminated /\ unreceived' = unreceived
        /\ outstanding_messages' = outstanding_messages
        /\ num_waiting_nodes' = num_waiting_nodes
    BY <1>4 DEF counts
  <2> QED
    BY <1>2, <1>4, <2>1, BarrierNewsKeeps
<1>5. CASE /\ msg.msg_type = "READ_ERROR"
           /\ Throw(n)
           /\ UNCHANGED <<current_epoch, terminated, counts, unreceived>>
  <2>1. /\ terminated' = terminated /\ unreceived' = unreceived
        /\ outstanding_messages' = outstanding_messages
        /\ num_waiting_nodes' = num_waiting_nodes /\ current_epoch' = current_epoch
    BY <1>5 DEF counts
  <2> QED
    BY <1>2, <1>5, <2>1, ThrowKeeps
<1>6. CASE /\ msg.msg_type \in Reports
           /\ Pops(n)
           /\ Takes(n, msg)
           /\ UNCHANGED <<pc, stream, current_epoch, unreceived>>
  <2>1. msg.msg_type # "MESSAGE_HEADER"
    BY <1>6 DEF Reports
  <2>2. pc' = pc /\ stream' = stream /\ current_epoch' = current_epoch /\ unreceived' = unreceived
    BY <1>6
  <2> QED
    BY <1>6, <2>1, <2>2, TakesKeeps
<1> QED
  BY <1>1, <1>3, <1>4, <1>5, <1>6

-----------------------------------------------------------------------------
(* Node 0 lets everybody's receive return, while it receives or closes. *)
LEMMA SeeAllKeeps ==
    ASSUME BspInv, SeeAll, Onwards, pc' \in [Node -> Places]
    PROVE  BspInv'
<1> DEFINE e == Control("SEE_ALL_IN_WAITING_STATE")
           x == Written(stream, 0, Peers(0) \ terminated[0], e)
<1>1. /\ num_waiting_nodes' = 0 /\ stream' = x
      /\ current_epoch' = [current_epoch EXCEPT ![0] = @ + 1]
      /\ msg_buffer' = msg_buffer /\ terminated' = terminated
      /\ outstanding_messages' = outstanding_messages /\ unreceived' = unreceived
  BY DEF SeeAll
<1>2. TypeOK /\ StreamsOK(stream) /\ AllGone /\ 0 \in Node
  BY NodeFacts DEF BspInv, TypeOK
<1>3. \A t : e \in Wire(t)
  BY ControlOK DEF Types, Counted
<1> HIDE DEF e
<1>4. StreamsOK(x) /\ View(x) = View(stream)
  BY <1>2, <1>3, WrittenOK, ViewWritten
<1> HIDE DEF x
<1>5. TypeOK'
  <2>1. current_epoch' \in [Node -> Nat]
    BY <1>1, <1>2 DEF TypeOK
  <2> QED
    BY <1>1, <1>2, <1>4, <2>1 DEF TypeOK, QueuesOK, KnownGone, StreamsOK
<1>6. AllGone'
  BY <1>1, <1>2, GoneStays
<1>7. Control0'
  <2> SUFFICES ASSUME ~Ended(0)'
               PROVE  /\ Account(View(stream'), msg_buffer'[0], outstanding_messages', unreceived')
                      /\ Ordered(View(stream'), msg_buffer'[0], terminated'[0], Active')
    BY DEF Control0, View
  <2>1. /\ Active' \subseteq Active
        /\ Account(View(stream), msg_buffer[0], outstanding_messages, unreceived)
        /\ Ordered(View(stream), msg_buffer[0], terminated[0], Active)
    BY GoesOn
  <2>2. Ordered(View(stream), msg_buffer[0], terminated[0], Active')
    BY <2>1, OrderKept
  <2> QED
    BY <1>1, <1>4, <2>1, <2>2
<1> QED
  BY <1>5, <1>6, <1>7 DEF BspInv

LEMMA ReturnsFalseKeeps ==
    ASSUME BspInv, NEW n \in Node, ReceiveReturnsFalse(n)
    PROVE  BspInv'
<1>1. pc[n] = "receiving" /\ pc' = [pc EXCEPT ![n] = "running"]
  BY DEF ReceiveReturnsFalse
<1>2. TypeOK /\ AllGone
  BY DEF BspInv
<1>3. n \in Active /\ ~Ended(n)
  BY <1>1 DEF Active, Ended
<1>4. Onwards /\ pc' \in [Node -> Places]
  <2>1. "running" \in Places /\ (n = 0 => "running" # "returned")
        /\ ("running" \in {"running", "receiving"} => n \in Active)
    BY <1>3 DEF Places
  <2> QED
    BY <1>1, <1>2, <1>3, <2>1, MovesOn
<1>5. CASE SeeAll
  BY <1>4, <1>5, SeeAllKeeps
<1>6. CASE ~ SeeAll
  <2>1. /\ current_epoch' = current_epoch /\ msg_buffer' = msg_buffer /\ terminated' = terminated
        /\ outstanding_messages' = outstanding_messages /\ num_waiting_nodes' = num_waiting_nodes
        /\ stream' = stream /\ unreceived' = unreceived
    BY <1>6 DEF ReceiveReturnsFalse, counts
  <2>2. TypeOK'
    BY <1>2, <1>4, <2>1 DEF TypeOK, QueuesOK, KnownGone, StreamsOK
  <2>3. AllGone'
    BY <1>2, <1>4, <2>1, GoneStays
  <2>4. Control0'
    <3> SUFFICES ASSUME ~Ended(0)'
                 PROVE  /\ Account(View(stream'), msg_buffer'[0], outstanding_messages', unreceived')
                        /\ Ordered(View(stream'), msg_buffer'[0], terminated'[0], Active')
      BY DEF Control0, View
    <3>1. /\ Active' \subseteq Active
          /\ Account(View(stream), msg_buffer[0], outstanding_messages, unreceived)
          /\ Ordered(View(stream), msg_buffer[0], terminated[0], Active)
      BY <1>4, GoesOn
    <3>2. Ordered(View(stream), msg_buffer[0], terminated[0], Active')
      BY <3>1, OrderKept
    <3> QED
      BY <2>1, <3>1, <3>2
  <2> QED
    BY <2>2, <2>3, <2>4 DEF BspInv
<1> QED
  BY <1>5, <1>6

LEMMA ClosingPopsKeeps ==
    ASSUME BspInv, NEW n \in Node, ClosingPops(n)
    PROVE  BspInv'
<1>1. PICK msg \in Range(msg_buffer[n]) :
       /\ msg \in Popped(n, msg.epoch)
       /\ \/ /\ msg.msg_type \in {"READ_ERROR", "MESSAGE_HEADER"}
             /\ Throw(n)
             /\ UNCHANGED <<terminated, counts>>
          \/ /\ msg.msg_type \in Reports \cup {"SEE_ALL_IN_WAITING_STATE"}
             /\ Pops(n)
             /\ Takes(n, msg)
             /\ UNCHANGED <<pc, stream>>
  BY DEF ClosingPops
<1>2. pc[n] = "closing" /\ current_epoch' = current_epoch /\ unreceived' = unreceived
  BY DEF ClosingPops
<1>3. CASE /\ msg.msg_type \in {"READ_ERROR", "MESSAGE_HEADER"}
           /\ Throw(n)
           /\ UNCHANGED <<terminated, counts>>
  <2>1. /\ terminated' = terminated /\ outstanding_messages' = outstanding_messages
        /\ num_waiting_nodes' = num_waiting_nodes
    BY <1>3 DEF counts
  <2> QED
    BY <1>2, <1>3, <2>1, ThrowKeeps
<1>4. CASE /\ msg.msg_type \in Reports \cup {"SEE_ALL_IN_WAITING_STATE"}
           /\ Pops(n)
           /\ Takes(n, msg)
           /\ UNCHANGED <<pc, stream>>
  <2>1. msg.msg_type # "MESSAGE_HEADER" /\ pc' = pc /\ stream' = stream
    BY <1>4 DEF Reports
  <2> QED
    BY <1>1, <1>2, <1>4, <2>1, TakesKeeps
<1> QED
  BY <1>1, <1>3, <1>4

-----------------------------------------------------------------------------
(* When node 0 knows that all others have terminated, it has taken all their
   reports, and they have received all that they will.  *)
LEMMA PeersSize ==
    ASSUME TypeOK, NobodyLeft(0)
    PROVE  terminated[0] = Peers(0)
<1>1. N \in Nat \ {0} /\ 0 \in Node /\ terminated[0] \subseteq Peers(0)
  BY BspAssumption, NodeFacts DEF TypeOK, KnownGone
<1>2. Peers(0) = 1 .. N - 1
  BY <1>1 DEF Peers, Node
<1>3. IsFiniteSet(1 .. N - 1) /\ Cardinality(1 .. N - 1) = IF 1 > N - 1 THEN 0 ELSE N - 1 - 1 + 1
  <2>1. 1 \in Int /\ N - 1 \in Int
    BY <1>1
  <2> QED
    BY <2>1, FS_Interval
<1>4. IsFiniteSet(Peers(0)) /\ Cardinality(Peers(0)) = N - 1
  BY <1>1, <1>2, <1>3
<1>5. Cardinality(terminated[0]) = N - 1
  BY DEF NobodyLeft
<1> QED
  BY <1>1, <1>4, <1>5, FS_Subset

LEMMA AllTold ==
    ASSUME NEW v \in Views(Wire(0)), NEW b \in Seq(Queued(0)), NEW o \in Int, NEW u \in Int,
           Account(v, b, o, u), NEW act, Ordered(v, b, Peers(0), act)
    PROVE  o = u /\ \A m \in Peers(0) : m \notin act
<1>1. ASSUME NEW m \in Peers(0)
      PROVE  /\ v[m] = <<>> /\ m \notin act
             /\ \A l \in DOMAIN b : b[l].sender_id = m => b[l].msg_type \notin Counted
  BY DEF Ordered, Final
<1>2. ASSUME NEW type \in Counted
      PROVE  Unread(v, type) = {} /\ Unpopped(b, type) = {}
  <2>1. Unread(v, type) = {}
    <3>1. \A m \in Peers(0) : DOMAIN v[m] = {}
      BY <1>1
    <3> QED
      BY <3>1 DEF Unread
  <2>2. \A l \in DOMAIN b : b[l].sender_id \in Peers(0)
    BY DEF Queued
  <2> QED
    BY <1>1, <2>1, <2>2 DEF Unpopped
<1>3. "SENT_MESSAGE" \in Counted /\ "GOT_MESSAGE" \in Counted
  BY DEF Counted
<1>4. Pending(v, b, "SENT_MESSAGE") = 0 /\ Pending(v, b, "GOT_MESSAGE") = 0
  <2>1. Cardinality({}) = 0
    BY FS_EmptySet
  <2>2. ASSUME NEW type \in Counted PROVE Pending(v, b, type) = 0
    <3>1. Cardinality(Unread(v, type)) = 0 /\ Cardinality(Unpopped(b, type)) = 0
      BY <1>2, <2>1, Zenon
    <3> QED
      BY <3>1 DEF Pending
  <2> QED
    BY <1>3, <2>2
<1> QED
  BY <1>1, <1>4 DEF Account

LEMMA AllClosedKeeps ==
    ASSUME BspInv, NEW n \in Node, AllClosed(n)
    PROVE  BspInv'
<1> DEFINE e == Control("NODE_TERMINATE")
           x == Written(stream, n, Peers(n), e)
           s == IF n # 0 THEN stream ELSE x
           p == IF n = 0 /\ outstanding_messages # 0 THEN "threw" ELSE "returned"
<1>1. /\ pc[n] = "closing" /\ NobodyLeft(n) /\ pc' = [pc EXCEPT ![n] = p]
      /\ stream' = Forgotten(s, n) /\ msg_buffer' = [msg_buffer EXCEPT ![n] = <<>>]
      /\ current_epoch' = current_epoch /\ terminated' = terminated
      /\ outstanding_messages' = outstanding_messages /\ num_waiting_nodes' = num_waiting_nodes
      /\ unreceived' = unreceived
  BY DEF AllClosed, Destroyed, Forgotten, counts
<1>2. TypeOK /\ StreamsOK(stream) /\ QueuesOK /\ AllGone /\ Control0 /\ 0 \in Node
  BY NodeFacts DEF BspInv, TypeOK
<1>3. \A t \in Peers(n) : e \in Wire(t)
  BY ControlOK DEF Types, Reports, Counted
<1> HIDE DEF e
<1>4. StreamsOK(x)
  BY <1>2, <1>3, WrittenOK
<1> HIDE DEF x
<1>5. StreamsOK(s) /\ (n # 0 => s = stream)
  BY <1>2, <1>4
<1> HIDE DEF s
<1>6. StreamsOK(stream') /\ (n # 0 => View(stream') = View(stream))
  BY <1>1, <1>5, ForgottenOK
<1>7. DOMAIN msg_buffer' = Node
      /\ \A m \in Node : msg_buffer'[m] = IF m = n THEN <<>> ELSE msg_buffer[m]
  BY <1>1, <1>2 DEF QueuesOK
<1>8. QueuesOK'
  <2>1. ASSUME NEW m \in Node PROVE msg_buffer'[m] \in Seq(Queued(m))
    <3>1. msg_buffer[m] \in Seq(Queued(m)) /\ <<>> \in Seq(Queued(m))
      BY <1>2 DEF QueuesOK
    <3> QED
      BY <1>7, <3>1
  <2> QED
    BY <1>7, <2>1 DEF QueuesOK
<1>9. p \in {"threw", "returned"} /\ (n = 0 /\ p = "returned" => outstanding_messages = 0)
  OBVIOUS
<1> HIDE DEF p
<1>10. pc \in [Node -> Places] /\ \A m \in Node : pc'[m] = IF m = n THEN p ELSE pc[m]
  BY <1>1, <1>2 DEF TypeOK
<1>11. pc' \in [Node -> Places]
  BY <1>1, <1>9, <1>10 DEF Places
<1>12. TypeOK'
  BY <1>1, <1>2, <1>6, <1>8, <1>11 DEF TypeOK, KnownGone, StreamsOK
<1>13. Active' \subseteq Active /\ (0 \in Active' => n # 0)
  BY <1>9, <1>10 DEF Active
<1>14. CASE n # 0
  <2>1. pc'[0] = pc[0]
    BY <1>2, <1>10, <1>14
  <2>2. AllGone'
    BY <1>1, <1>2, <1>13, <2>1 DEF AllGone
  <2>3. Control0'
    <3> SUFFICES ASSUME ~Ended(0)'
                 PROVE  /\ Account(View(stream'), msg_buffer'[0], outstanding_messages', unreceived')
                        /\ Ordered(View(stream'), msg_buffer'[0], terminated'[0], Active')
      BY DEF Control0, View
    <3>1. /\ Account(View(stream), msg_buffer[0], outstanding_messages, unreceived)
          /\ Ordered(View(stream), msg_buffer[0], terminated[0], Active)
      BY <1>2, <2>1 DEF Control0, Ended
    <3>2. Ordered(View(stream), msg_buffer[0], terminated[0], Active')
      BY <1>13, <3>1, OrderKept
    <3>3. msg_buffer'[0] = msg_buffer[0] /\ View(stream') = View(stream)
      BY <1>2, <1>6, <1>7, <1>14
    <3> QED
      BY <1>1, <3>1, <3>2, <3>3
  <2> QED
    BY <1>12, <2>2, <2>3 DEF BspInv
<1>15. CASE n = 0
  <2>1. Control0'
    BY <1>2, <1>9, <1>10, <1>15 DEF Control0, Ended
  <2>2. ~Ended(0)
    BY <1>1, <1>15 DEF Ended
  <2>3. terminated[0] = Peers(0)
    BY <1>1, <1>2, <1>15, PeersSize
  <2>4. /\ Account(View(stream), msg_buffer[0], outstanding_messages, unreceived)
        /\ Ordered(View(stream), msg_buffer[0], Peers(0), Active)
    BY <1>2, <2>2, <2>3 DEF Control0
  <2>5. View(stream) \in Views(Wire(0)) /\ msg_buffer[0] \in Seq(Queued(0))
        /\ outstanding_messages \in Int /\ unreceived \in Int
    BY <1>2, ViewOK DEF TypeOK, QueuesOK
  <2>6. outstanding_messages = unreceived /\ \A m \in Peers(0) : m \notin Active
    BY <2>4, <2>5, AllTold
  <2>7. Active' = {}
    <3>1. \A m \in Node : m # 0 => m \in Peers(0)
      BY DEF Peers
    <3> QED
      BY <1>13, <1>15, <2>6, <3>1 DEF Active
  <2>8. AllGone'
    BY <1>1, <1>2, <1>9, <1>10, <1>15, <2>6, <2>7 DEF AllGone
  <2> QED
    BY <1>12, <2>1, <2>8 DEF BspInv
<1> QED
  BY <1>14, <1>15

-----------------------------------------------------------------------------
LEMMA BspInit == Init => BspInv
<1> SUFFICES ASSUME Init PROVE BspInv
  OBVIOUS
<1>1. 0 \in Node
  BY NodeFacts
<1>2. StreamsOK(stream)
  <2>1. ASSUME NEW c \in Conn PROVE stream[c] \in Seq(Wire(c[2]))
    BY DEF Init
  <2> QED
    BY <2>1 DEF Init, StreamsOK
<1>3. QueuesOK
  <2>1. ASSUME NEW n \in Node PROVE msg_buffer[n] \in Seq(Queued(n))
    BY DEF Init
  <2> QED
    BY <2>1 DEF Init, QueuesOK
<1>4. TypeOK
  BY <1>2, <1>3 DEF Init, TypeOK, KnownGone, Places
<1>5. AllGone
  BY <1>1 DEF Init, AllGone
<1>6. \A m \in Peers(0) : View(stream)[m] = <<>>
  <2>1. \A m \in Peers(0) : <<m, 0>> \in Conn
    BY NodeFacts DEF Peers
  <2> QED
    BY <2>1 DEF View, Init
<1>7. msg_buffer[0] = <<>> /\ terminated[0] = {} /\ outstanding_messages = 0 /\ unreceived = 0
  BY <1>1 DEF Init
<1> DEFINE v == View(stream)
<1>8. \A m \in Peers(0) : v[m] = <<>> /\ DOMAIN v[m] = {}
  BY <1>6
<1> HIDE DEF v
<1>9. \A type : Unread(v, type) = {} /\ Unpopped(<<>>, type) = {}
  BY <1>8 DEF Unread, Unpopped
<1>10. Account(v, <<>>, 0, 0)
  <2>1. Cardinality({}) = 0 /\ IsFiniteSet({})
    BY FS_EmptySet
  <2>2. \A type : Pending(v, <<>>, type) = 0
    <3>1. \A type : Cardinality(Unread(v, type)) = 0 /\ Cardinality(Unpopped(<<>>, type)) = 0
      BY <1>9, <2>1, Zenon
    <3> QED
      BY <3>1 DEF Pending
  <2>3. \A type \in Counted : IsFiniteSet(Unread(v, type))
    BY <1>9, <2>1
  <2> QED
    BY <2>2, <2>3 DEF Account
<1>11. Ordered(v, <<>>, {}, Active)
  BY <1>8 DEF Ordered, Final
<1>12. Control0
  BY <1>7, <1>10, <1>11 DEF Control0, v
<1> QED
  BY <1>4, <1>5, <1>12 DEF BspInv

LEMMA BspNext == BspInv /\ [Next]_vars => BspInv'
<1> SUFFICES ASSUME BspInv, [Next]_vars PROVE BspInv'
  OBVIOUS
<1>1. ASSUME NEW c \in Link, send_data(c[1], c[2]) PROVE BspInv'
  <2>1. c \in Conn
    BY BspAssumption
  <2>2. c[1] \in Node /\ c[2] \in Peers(c[1])
    BY <2>1, ConnFacts DEF Peers
  <2> QED
    BY <1>1, <2>2, SendKeeps
<1>2. ASSUME NEW n \in Node, receive_data(n) PROVE BspInv'
  BY <1>2, ReceiveKeeps
<1>3. ASSUME NEW n \in Node, Closes(n) PROVE BspInv'
  BY <1>3, ClosesKeeps
<1>4. ASSUME NEW n \in Node, ProgramThrows(n) PROVE BspInv'
  <2>1. /\ Throw(n) /\ pc[n] = "running"
        /\ terminated' = terminated /\ outstanding_messages' = outstanding_messages
        /\ unreceived' = unreceived /\ num_waiting_nodes' = num_waiting_nodes
        /\ current_epoch' = current_epoch
    BY <1>4 DEF ProgramThrows, counts
  <2> QED
    BY <2>1, ThrowKeeps
<1>5. ASSUME NEW n \in Node, ReceiveReturnsFalse(n) PROVE BspInv'
  BY <1>5, ReturnsFalseKeeps
<1>6. ASSUME NEW n \in Node, ReceivePops(n) PROVE BspInv'
  BY <1>6, ReceivePopsKeeps
<1>7. ASSUME NEW n \in Node, ClosingSeesAll(n) PROVE BspInv'
  <2>1. SeeAll /\ pc' = pc /\ pc \in [Node -> Places]
    BY <1>7 DEF ClosingSeesAll, BspInv, TypeOK
  <2>2. Onwards /\ pc' \in [Node -> Places]
    BY <2>1, StaysPut
  <2> QED
    BY <2>1, <2>2, SeeAllKeeps
<1>8. ASSUME NEW n \in Node, ClosingPops(n) PROVE BspInv'
  BY <1>8, ClosingPopsKeeps
<1>9. ASSUME NEW n \in Node, AllClosed(n) PROVE BspInv'
  BY <1>9, AllClosedKeeps
<1>10. ASSUME NEW c \in Conn, read_thread(c[1], c[2]) PROVE BspInv'
  BY <1>10, ReadKeeps
<1>11. CASE UNCHANGED vars
  BY <1>11 DEF vars, counts, BspInv, TypeOK, StreamsOK, QueuesOK, KnownGone, Control0, AllGone,
               Active, Ended, View
<1> QED
  BY <1>1, <1>2, <1>3, <1>4, <1>5, <1>6, <1>7, <1>8, <1>9, <1>10, <1>11 DEF Next, Library

(* bsp_connect() of node 0 returns normally only when every message that any
   node sent was received, for any number of nodes and whatever they do.  *)
THEOREM BspNothingLost == Spec => []NothingLost
<1>1. BspInv => NothingLost
  BY DEF BspInv, AllGone, NothingLost
<1> QED
  BY BspInit, BspNext, <1>1, PTL DEF Spec

(***************************************************************************)
(* The barriers.                                                           *)
(*                                                                         *)
(* Node 0 counts n as waiting only after all that n reported before, which *)
(* came over the same connection.  But n may have got a message since: if  *)
(* it passes one on to another node, the report of that node that it got   *)
(* it may be the first to arrive, and stand for the report of n; then node *)
(* 0 finds nothing in flight and n, which runs, waiting.  Under NoRelay    *)
(* nobody but node 0 passes on what it gets, other than to node 0: a node  *)
(* other than node 0 that somebody sends to sends to node 0 only.          *)
(*                                                                         *)
(* The word of a connection is what was written to it and not yet taken    *)
(* from the reader's queue, in the order in which it was written.  Node 0  *)
(* sees every other node at a stand; the word of that node is a path of    *)
(* stands that leads from there to where the node is.  When node 0 finds   *)
(* that all wait, everybody it sees stands at "W" or "T".  A path leaves   *)
(* "W" by GOT_MESSAGE only, and a SENT_MESSAGE after that is of a message  *)
(* to node 0, before it in the same word: so the pending SENT_MESSAGE are  *)
(* at most as many as the messages in flight, hence as those not received, *)
(* which the account makes the pending SENT_MESSAGE less the pending       *)
(* GOT_MESSAGE.  So no GOT_MESSAGE is pending, no path leaves its stand,   *)
(* and nothing is in flight (BarrierReached).                              *)
(***************************************************************************)

(* No node but node 0 passes on what it gets, other than to node 0. *)
NoRelay == \A a, b \in Link : a[2] = b[1] /\ a[2] # 0 => b[2] = 0

Receiver(n) == \E c \in Link : c[2] = n

(* The word of a connection from m: what lies in the queue q of its reader and
   in the stream s, in the order in which it was written.  The place of
   something else in the queue is blank, and so is the end of a node that
   threw.  *)
Blank   == Control("blank")
Mark    == [msg_type : Types \cup {"blank"}, epoch : Nat]
Kind(e) == IF e.msg_type \in {"SHUTDOWN", "READ_ERROR"} THEN Blank
           ELSE [msg_type |-> e.msg_type, epoch |-> e.epoch]

Word(s, q, m) ==
    [i \in 1 .. Len(q) + Len(s) |->
        IF i <= Len(q)
        THEN IF q[i].sender_id = m THEN Kind(q[i]) ELSE Blank
        ELSE Kind(s[i - Len(q)])]

Words(s, b) == [c \in Conn |-> Word(s[c], b[c[2]], c[1])]

(* How a word changes: w is v with e at the end, or v without its place x. *)
Longer(v, w, e) ==
    /\ Len(w) = Len(v) + 1
    /\ \A i \in 1 .. Len(v) : w[i] = v[i]
    /\ w[Len(v) + 1] = e

Loses(v, w, x) ==
    /\ x \in 1 .. Len(v) /\ Len(w) = Len(v) - 1
    /\ \A i \in 1 .. Len(w) : w[i] = IF i < x THEN v[i] ELSE v[i + 1]

LEMMA KindOK ==
    /\ Blank \in Mark /\ Blank.msg_type = "blank"
    /\ \A n : \A e \in Wire(n) : Kind(e) \in Mark
    /\ \A n : \A e \in Queued(n) : Kind(e) \in Mark
    /\ \A e : e.msg_type \notin {"SHUTDOWN", "READ_ERROR"} =>
          Kind(e).msg_type = e.msg_type /\ Kind(e).epoch = e.epoch
    /\ \A e : e.msg_type \in {"SHUTDOWN", "READ_ERROR"} => Kind(e) = Blank
<1>1. Blank \in Mark /\ Blank.msg_type = "blank"
  BY DEF Blank, Mark, Control
<1>2. ASSUME NEW n, NEW e \in Wire(n) PROVE Kind(e) \in Mark
  BY <1>1 DEF Kind, Wire, Mark
<1>3. ASSUME NEW n, NEW e \in Queued(n) PROVE Kind(e) \in Mark
  BY <1>1 DEF Kind, Queued, Mark
<1> QED
  BY <1>1, <1>2, <1>3 DEF Kind

LEMMA WordOK ==
    ASSUME NEW n, NEW s \in Seq(Wire(n)), NEW q \in Seq(Queued(n)), NEW m
    PROVE  /\ Word(s, q, m) \in Seq(Mark)
           /\ Len(s) \in Nat /\ Len(q) \in Nat
           /\ Len(Word(s, q, m)) = Len(q) + Len(s)
           /\ DOMAIN Word(s, q, m) = 1 .. Len(q) + Len(s)
           /\ \A i \in 1 .. Len(q) :
                 Word(s, q, m)[i] = IF q[i].sender_id = m THEN Kind(q[i]) ELSE Blank
           /\ \A i \in 1 .. Len(s) : Word(s, q, m)[Len(q) + i] = Kind(s[i])
<1>1. Len(s) \in Nat /\ Len(q) \in Nat
  OBVIOUS
<1>2. \A i \in 1 .. Len(q) : q[i] \in Queued(n)
  OBVIOUS
<1>3. \A i \in 1 .. Len(s) : s[i] \in Wire(n)
  OBVIOUS
<1>4. PICK l \in Nat : l = Len(q) + Len(s)
  BY <1>1
<1>5. \A i \in 1 .. l : ~ i <= Len(q) => i - Len(q) \in 1 .. Len(s)
  BY <1>1, <1>4
<1>6. \A i \in 1 .. l : i <= Len(q) => i \in 1 .. Len(q)
  BY <1>1, <1>4
<1>7. ASSUME NEW i \in 1 .. l
      PROVE  (IF i <= Len(q)
              THEN IF q[i].sender_id = m THEN Kind(q[i]) ELSE Blank
              ELSE Kind(s[i - Len(q)])) \in Mark
  <2>1. CASE i <= Len(q)
    BY <1>2, <1>6, <2>1, KindOK
  <2>2. CASE ~ i <= Len(q)
    BY <1>3, <1>5, <2>2, KindOK
  <2> QED
    BY <2>1, <2>2
<1>8. Word(s, q, m) = [i \in 1 .. l |->
        IF i <= Len(q)
        THEN IF q[i].sender_id = m THEN Kind(q[i]) ELSE Blank
        ELSE Kind(s[i - Len(q)])]
  BY <1>4 DEF Word
<1>9. Word(s, q, m) \in [1 .. l -> Mark]
  BY <1>7, <1>8
<1>10. Word(s, q, m) \in Seq(Mark) /\ Len(Word(s, q, m)) = l
  <2>1. \A t : t \in [1 .. l -> Mark] => t \in Seq(Mark) /\ Len(t) = l
    OBVIOUS
  <2> QED
    BY <1>9, <2>1
<1>11. \A i \in 1 .. Len(q) :
          Word(s, q, m)[i] = IF q[i].sender_id = m THEN Kind(q[i]) ELSE Blank
  <2>1. \A i \in 1 .. Len(q) : i \in 1 .. l /\ i <= Len(q)
    BY <1>1, <1>4
  <2> QED
    BY <1>8, <2>1
<1>12. \A i \in 1 .. Len(s) : Word(s, q, m)[Len(q) + i] = Kind(s[i])
  <2> SUFFICES ASSUME NEW i \in 1 .. Len(s) PROVE Word(s, q, m)[Len(q) + i] = Kind(s[i])
    OBVIOUS
  <2>1. PICK j \in 1 .. l : j = Len(q) + i
    BY <1>1, <1>4
  <2>2. ~ j <= Len(q) /\ j - Len(q) = i
    BY <1>1, <2>1
  <2> QED
    BY <1>8, <2>1, <2>2
<1> QED
  BY <1>1, <1>4, <1>9, <1>10, <1>11, <1>12

LEMMA WordEmpty ==
    ASSUME NEW s, NEW q, s = <<>>, q = <<>>, NEW m
    PROVE  Word(s, q, m) = <<>>
BY DEF Word

LEMMA WordWritten ==
    ASSUME NEW n, NEW s \in Seq(Wire(n)), NEW q \in Seq(Queued(n)), NEW m, NEW e \in Wire(n)
    PROVE  Longer(Word(s, q, m), Word(Append(s, e), q, m), Kind(e))
<1>1. /\ Append(s, e) \in Seq(Wire(n)) /\ Len(s) \in Nat
      /\ Len(Append(s, e)) = Len(s) + 1
      /\ \A k \in 1 .. Len(s) : Append(s, e)[k] = s[k]
      /\ Append(s, e)[Len(s) + 1] = e
  BY Appended
<1> DEFINE t == Append(s, e)
           v == Word(s, q, m)
           w == Word(t, q, m)
<1>2. /\ Len(q) \in Nat /\ Len(v) = Len(q) + Len(s)
      /\ \A i \in 1 .. Len(q) : v[i] = IF q[i].sender_id = m THEN Kind(q[i]) ELSE Blank
      /\ \A i \in 1 .. Len(s) : v[Len(q) + i] = Kind(s[i])
  BY WordOK
<1>3. t \in Seq(Wire(n)) /\ Len(t) = Len(s) + 1 /\ (\A k \in 1 .. Len(s) : t[k] = s[k])
      /\ t[Len(s) + 1] = e
  BY <1>1
<1> HIDE DEF t
<1>4. /\ Len(w) = Len(q) + Len(t)
      /\ \A i \in 1 .. Len(q) : w[i] = IF q[i].sender_id = m THEN Kind(q[i]) ELSE Blank
      /\ \A i \in 1 .. Len(t) : w[Len(q) + i] = Kind(t[i])
  <2>1. t \in Seq(Wire(n)) /\ q \in Seq(Queued(n))
    BY <1>3
  <2> QED
    BY ONLY <2>1, WordOK
<1> HIDE DEF v, w
<1>5. Len(w) = Len(v) + 1
  BY <1>1, <1>2, <1>3, <1>4
<1>6. ASSUME NEW i \in 1 .. Len(v) PROVE w[i] = v[i]
  <2>1. CASE i <= Len(q)
    <3>1. i \in 1 .. Len(q)
      BY <1>1, <1>2, <2>1
    <3> QED
      BY <1>2, <1>4, <3>1
  <2>2. CASE ~ i <= Len(q)
    <3>1. PICK j \in 1 .. Len(s) : i = Len(q) + j
      <4>1. i - Len(q) \in 1 .. Len(s) /\ i = Len(q) + (i - Len(q))
        BY <1>1, <1>2, <2>2
      <4> QED
        BY <4>1
    <3>2. j \in 1 .. Len(t)
      BY <1>1, <1>3
    <3> QED
      BY <1>2, <1>3, <1>4, <3>1, <3>2
  <2> QED
    BY <2>1, <2>2
<1>7. w[Len(v) + 1] = Kind(e)
  <2>1. PICK j \in 1 .. Len(t) : j = Len(s) + 1
    BY <1>1, <1>3
  <2>2. Len(v) + 1 = Len(q) + j
    BY <1>1, <1>2, <2>1
  <2> QED
    BY <1>3, <1>4, <2>1, <2>2
<1> QED
  BY <1>5, <1>6, <1>7 DEF Longer, t, v, w

(* Reading from m leaves the word as it is ... *)
LEMMA WordRead ==
    ASSUME NEW n, NEW s \in Seq(Wire(n)), NEW q \in Seq(Queued(n)), NEW m,
           s # <<>>, NEW e \in Queued(n), e.sender_id = m, Kind(e) = Kind(Head(s))
    PROVE  Word(Tail(s), Append(q, e), m) = Word(s, q, m)
<1>1. /\ Tail(s) \in Seq(Wire(n)) /\ Head(s) = s[1] /\ Len(s) \in Nat \ {0}
      /\ Len(Tail(s)) = Len(s) - 1 /\ \A k \in 1 .. Len(s) - 1 : Tail(s)[k] = s[k + 1]
  BY Beheaded
<1>2. /\ Append(q, e) \in Seq(Queued(n)) /\ Len(q) \in Nat
      /\ Len(Append(q, e)) = Len(q) + 1
      /\ \A k \in 1 .. Len(q) : Append(q, e)[k] = q[k]
      /\ Append(q, e)[Len(q) + 1] = e
  BY Appended
<1> DEFINE t == Tail(s)
           r == Append(q, e)
           v == Word(s, q, m)
           w == Word(t, r, m)
<1>3. /\ t \in Seq(Wire(n)) /\ Len(t) = Len(s) - 1 /\ (\A k \in 1 .. Len(s) - 1 : t[k] = s[k + 1])
      /\ r \in Seq(Queued(n)) /\ Len(r) = Len(q) + 1 /\ (\A k \in 1 .. Len(q) : r[k] = q[k])
      /\ r[Len(q) + 1] = e
  BY <1>1, <1>2
<1>4. /\ DOMAIN v = 1 .. Len(q) + Len(s) /\ v \in Seq(Mark)
      /\ \A i \in 1 .. Len(q) : v[i] = IF q[i].sender_id = m THEN Kind(q[i]) ELSE Blank
      /\ \A i \in 1 .. Len(s) : v[Len(q) + i] = Kind(s[i])
  BY WordOK
<1> HIDE DEF t, r
<1>5. /\ DOMAIN w = 1 .. Len(r) + Len(t) /\ w \in Seq(Mark)
      /\ \A i \in 1 .. Len(r) : w[i] = IF r[i].sender_id = m THEN Kind(r[i]) ELSE Blank
      /\ \A i \in 1 .. Len(t) : w[Len(r) + i] = Kind(t[i])
  <2>1. t \in Seq(Wire(n)) /\ r \in Seq(Queued(n))
    BY <1>3
  <2> QED
    BY ONLY <2>1, WordOK
<1> HIDE DEF v, w
<1>6. PICK l \in Nat : l = Len(q) + Len(s)
  BY <1>1, <1>2
<1>7. DOMAIN v = 1 .. l /\ DOMAIN w = 1 .. l
  <2>1. Len(r) + Len(t) = l
    BY <1>1, <1>2, <1>3, <1>6
  <2> QED
    BY <1>4, <1>5, <1>6, <2>1
<1>8. ASSUME NEW i \in 1 .. l PROVE w[i] = v[i]
  <2>1. CASE i <= Len(q)
    <3>1. i \in 1 .. Len(q) /\ i \in 1 .. Len(r)
      BY <1>2, <1>3, <2>1
    <3>2. r[i] = q[i]
      BY <1>3, <3>1
    <3> QED
      BY <1>4, <1>5, <3>1, <3>2
  <2>2. CASE i = Len(q) + 1
    <3>1. i \in 1 .. Len(r) /\ 1 \in 1 .. Len(s) /\ r[i] = e
      BY <1>1, <1>2, <1>3, <2>2
    <3>2. w[i] = Kind(e)
      BY <1>5, <3>1
    <3>3. v[Len(q) + 1] = Kind(s[1])
      BY <1>4, <3>1
    <3> QED
      BY <1>1, <2>2, <3>2, <3>3
  <2>3. CASE ~ i <= Len(q) /\ i # Len(q) + 1
    <3>1. PICK j \in 1 .. Len(s) - 1 : i = Len(q) + 1 + j
      <4>1. i - Len(q) - 1 \in 1 .. Len(s) - 1 /\ i = Len(q) + 1 + (i - Len(q) - 1)
        BY <1>1, <1>2, <1>6, <2>3
      <4> QED
        BY <4>1
    <3>2. PICK k \in 1 .. Len(s) : k = j + 1 /\ i = Len(q) + k
      BY <1>1, <1>2, <3>1
    <3>3. j \in 1 .. Len(t) /\ i = Len(r) + j
      BY <1>1, <1>2, <1>3, <3>1
    <3>4. w[i] = Kind(t[j]) /\ v[i] = Kind(s[k])
      BY <1>4, <1>5, <3>2, <3>3
    <3>5. t[j] = s[k]
      BY <1>3, <3>1, <3>2
    <3> QED
      BY <3>4, <3>5
  <2> QED
    BY <1>2, <2>1, <2>2, <2>3
<1>9. v = [i \in 1 .. l |-> v[i]] /\ w = [i \in 1 .. l |-> w[i]]
  BY <1>4, <1>5, <1>7
<1>10. v = w
  BY <1>8, <1>9
<1> QED
  BY <1>10 DEF v, w, t, r

(* ... and puts a blank into the others. *)
LEMMA WordPadded ==
    ASSUME NEW n, NEW s \in Seq(Wire(n)), NEW q \in Seq(Queued(n)), NEW m,
           NEW e \in Queued(n), e.sender_id # m
    PROVE  /\ Loses(Word(s, Append(q, e), m), Word(s, q, m), Len(q) + 1)
           /\ Word(s, Append(q, e), m)[Len(q) + 1] = Blank
<1>2. /\ Append(q, e) \in Seq(Queued(n)) /\ Len(q) \in Nat /\ Len(s) \in Nat
      /\ Len(Append(q, e)) = Len(q) + 1
      /\ \A k \in 1 .. Len(q) : Append(q, e)[k] = q[k]
      /\ Append(q, e)[Len(q) + 1] = e
  BY Appended
<1> DEFINE r == Append(q, e)
           v == Word(s, q, m)
           w == Word(s, r, m)
<1>3. /\ r \in Seq(Queued(n)) /\ Len(r) = Len(q) + 1 /\ (\A k \in 1 .. Len(q) : r[k] = q[k])
      /\ r[Len(q) + 1] = e
  BY <1>2
<1>4. /\ Len(v) = Len(q) + Len(s)
      /\ \A i \in 1 .. Len(q) : v[i] = IF q[i].sender_id = m THEN Kind(q[i]) ELSE Blank
      /\ \A i \in 1 .. Len(s) : v[Len(q) + i] = Kind(s[i])
  BY WordOK
<1> HIDE DEF r
<1>5. /\ Len(w) = Len(r) + Len(s)
      /\ \A i \in 1 .. Len(r) : w[i] = IF r[i].sender_id = m THEN Kind(r[i]) ELSE Blank
      /\ \A i \in 1 .. Len(s) : w[Len(r) + i] = Kind(s[i])
  <2>1. r \in Seq(Queued(n))
    BY <1>3
  <2> QED
    BY ONLY <2>1, s \in Seq(Wire(n)), WordOK
<1> HIDE DEF v, w
<1>6. w[Len(q) + 1] = Blank
  <2>1. PICK j \in 1 .. Len(r) : j = Len(q) + 1
    BY <1>2, <1>3
  <2> QED
    BY <1>3, <1>5, <2>1
<1>7. Len(q) + 1 \in 1 .. Len(w) /\ Len(v) = Len(w) - 1
  BY <1>2, <1>3, <1>4, <1>5
<1>8. ASSUME NEW i \in 1 .. Len(v) PROVE v[i] = IF i < Len(q) + 1 THEN w[i] ELSE w[i + 1]
  <2>1. CASE i < Len(q) + 1
    <3>1. i \in 1 .. Len(q) /\ i \in 1 .. Len(r)
      BY <1>2, <1>3, <2>1
    <3>2. r[i] = q[i]
      BY <1>3, <3>1
    <3> QED
      BY <1>4, <1>5, <2>1, <3>1, <3>2
  <2>2. CASE ~ i < Len(q) + 1
    <3>1. PICK j \in 1 .. Len(s) : i = Len(q) + j
      <4>1. i - Len(q) \in 1 .. Len(s) /\ i = Len(q) + (i - Len(q))
        BY <1>2, <1>4, <2>2
      <4> QED
        BY <4>1
    <3>2. i + 1 = Len(r) + j
      BY <1>2, <1>3, <3>1
    <3> QED
      BY <1>4, <1>5, <2>2, <3>1, <3>2
  <2> QED
    BY <2>1, <2>2
<1> QED
  BY <1>6, <1>7, <1>8 DEF Loses, r, v, w

LEMMA WordPopped ==
    ASSUME NEW n, NEW s \in Seq(Wire(n)), NEW q \in Seq(Queued(n)), NEW m, NEW x \in DOMAIN q
    PROVE  /\ Loses(Word(s, q, m), Word(s, RemoveAt(q, x), m), x)
           /\ Word(s, q, m)[x] = IF q[x].sender_id = m THEN Kind(q[x]) ELSE Blank
<1>1. /\ RemoveAt(q, x) \in Seq(Queued(n))
      /\ DOMAIN RemoveAt(q, x) = 1 .. Len(q) - 1
      /\ \A k \in 1 .. Len(q) - 1 : RemoveAt(q, x)[k] = IF k < x THEN q[k] ELSE q[k + 1]
  BY Removed
<1>2. Len(q) \in Nat /\ Len(s) \in Nat /\ x \in 1 .. Len(q)
  OBVIOUS
<1> DEFINE r == RemoveAt(q, x)
           v == Word(s, q, m)
           w == Word(s, r, m)
<1>3. /\ r \in Seq(Queued(n)) /\ DOMAIN r = 1 .. Len(q) - 1
      /\ \A k \in 1 .. Len(q) - 1 : r[k] = IF k < x THEN q[k] ELSE q[k + 1]
  BY <1>1
<1>4. /\ Len(v) = Len(q) + Len(s)
      /\ \A i \in 1 .. Len(q) : v[i] = IF q[i].sender_id = m THEN Kind(q[i]) ELSE Blank
      /\ \A i \in 1 .. Len(s) : v[Len(q) + i] = Kind(s[i])
  BY WordOK
<1> HIDE DEF r
<1>5. Len(r) = Len(q) - 1
  <2>1. Len(r) \in Nat /\ DOMAIN r = 1 .. Len(r)
    BY <1>3
  <2> QED
    BY <1>2, <1>3, <2>1
<1>6. /\ Len(w) = Len(r) + Len(s)
      /\ \A i \in 1 .. Len(r) : w[i] = IF r[i].sender_id = m THEN Kind(r[i]) ELSE Blank
      /\ \A i \in 1 .. Len(s) : w[Len(r) + i] = Kind(s[i])
  BY <1>3, WordOK
<1> HIDE DEF v, w
<1>7. x \in 1 .. Len(v) /\ Len(w) = Len(v) - 1
  BY <1>2, <1>4, <1>5, <1>6
<1>8. ASSUME NEW i \in 1 .. Len(w) PROVE w[i] = IF i < x THEN v[i] ELSE v[i + 1]
  <2>1. CASE i < x
    <3>1. i \in 1 .. Len(q) /\ i \in 1 .. Len(r) /\ i \in 1 .. Len(q) - 1
      BY <1>2, <1>5, <2>1
    <3>2. r[i] = q[i]
      BY <1>3, <2>1, <3>1
    <3> QED
      BY <1>4, <1>6, <2>1, <3>1, <3>2
  <2>2. CASE ~ i < x /\ i <= Len(r)
    <3>1. PICK j \in 1 .. Len(q) : j = i + 1
      BY <1>2, <1>5, <2>2
    <3>2. i \in 1 .. Len(r) /\ i \in 1 .. Len(q) - 1
      BY <1>2, <1>5, <2>2
    <3>3. r[i] = q[j]
      BY <1>3, <2>2, <3>1, <3>2
    <3> QED
      BY <1>4, <1>6, <2>2, <3>1, <3>2, <3>3
  <2>3. CASE ~ i <= Len(r)
    <3>1. PICK j \in 1 .. Len(s) : i = Len(r) + j
      <4>1. i - Len(r) \in 1 .. Len(s) /\ i = Len(r) + (i - Len(r))
        BY <1>2, <1>5, <1>6, <2>3
      <4> QED
        BY <4>1
    <3>2. i + 1 = Len(q) + j /\ ~ i < x
      BY <1>2, <1>5, <3>1
    <3> QED
      BY <1>4, <1>6, <3>1, <3>2
  <2> QED
    BY <2>1, <2>2, <2>3
<1> QED
  BY <1>2, <1>4, <1>7, <1>8 DEF Loses, r, v, w

(* How a node stands after something that it wrote to node 0: "R" it runs, "M" it
   has written a message and not yet reported it, "W" it waits, "T" it has
   terminated.  A message may be taken from the queue after its report, and
   does not count then.  *)
Stands == {"R", "M", "W", "T"}

Follows(old, kind, new, receiver) ==
    /\ kind = "SENT_MESSAGE"     => new = "R" /\ (old = "M" \/ (old = "R" /\ ~receiver))
    /\ kind = "IN_WAITING_STATE" => old = "R" /\ new = "W"
    /\ kind = "GOT_MESSAGE"      => old = "W" /\ new = "R" /\ receiver
    /\ kind = "NODE_TERMINATE"   => old = "R" /\ new = "T"
    /\ kind = "MESSAGE_HEADER"   => new = old \/ (old = "R" /\ new = "M")
    /\ kind \notin Reports \cup {"MESSAGE_HEADER"} => new = old

IsPath(w, at, receiver) ==
    \A i \in 1 .. Len(w) : Follows(at[i - 1], w[i].msg_type, at[i], receiver)

(* What a node wrote leads from how node 0 sees it to how it stands. *)
Path(w, first, last, receiver) ==
    \E at \in [0 .. Len(w) -> Stands] :
        at[0] = first /\ at[Len(w)] = last /\ IsPath(w, at, receiver)

LEMMA PathType ==
    ASSUME NEW w \in Seq(Mark), NEW first, NEW last, NEW receiver, Path(w, first, last, receiver)
    PROVE  first \in Stands /\ last \in Stands
<1>1. Len(w) \in Nat /\ 0 \in 0 .. Len(w) /\ Len(w) \in 0 .. Len(w)
  OBVIOUS
<1> QED
  BY <1>1 DEF Path

LEMMA PathLonger ==
    ASSUME NEW v \in Seq(Mark), NEW w \in Seq(Mark), NEW e, Longer(v, w, e),
           NEW first, NEW last, NEW receiver, Path(v, first, last, receiver),
           NEW next \in Stands, Follows(last, e.msg_type, next, receiver)
    PROVE  Path(w, first, next, receiver)
<1>1. PICK at \in [0 .. Len(v) -> Stands] :
         at[0] = first /\ at[Len(v)] = last /\ IsPath(v, at, receiver)
  BY DEF Path
<1>2. /\ Len(v) \in Nat /\ Len(w) = Len(v) + 1
      /\ \A i \in 1 .. Len(v) : w[i] = v[i]
      /\ w[Len(v) + 1] = e
  BY DEF Longer
<1> DEFINE to == [i \in 0 .. Len(w) |-> IF i <= Len(v) THEN at[i] ELSE next]
<1>3. to \in [0 .. Len(w) -> Stands]
  <2>1. \A i \in 0 .. Len(w) : i <= Len(v) => i \in 0 .. Len(v)
    BY <1>2
  <2> QED
    BY <2>1
<1>4. /\ \A i \in 0 .. Len(v) : to[i] = at[i]
      /\ to[Len(v) + 1] = next
  BY <1>2
<1> HIDE DEF to
<1>5. to[0] = first /\ to[Len(w)] = next
  BY <1>1, <1>2, <1>4
<1>6. IsPath(w, to, receiver)
  <2> SUFFICES ASSUME NEW i \in 1 .. Len(w)
               PROVE  Follows(to[i - 1], w[i].msg_type, to[i], receiver)
    BY DEF IsPath
  <2>1. CASE i <= Len(v)
    <3>1. i \in 1 .. Len(v) /\ i \in 0 .. Len(v) /\ i - 1 \in 0 .. Len(v)
      BY <1>2, <2>1
    <3>2. to[i - 1] = at[i - 1] /\ to[i] = at[i] /\ w[i] = v[i]
      BY <1>2, <1>4, <3>1
    <3> QED
      BY <1>1, <3>1, <3>2 DEF IsPath
  <2>2. CASE ~ i <= Len(v)
    <3>1. i = Len(v) + 1 /\ i - 1 = Len(v) /\ Len(v) \in 0 .. Len(v)
      BY <1>2, <2>2
    <3>2. to[i - 1] = last /\ to[i] = next /\ w[i] = e
      BY <1>1, <1>2, <1>4, <3>1
    <3> QED
      BY <3>2
  <2> QED
    BY <2>1, <2>2
<1> QED
  BY <1>3, <1>5, <1>6 DEF Path

(* Blanks come and go. *)
LEMMA PathKept ==
    ASSUME NEW v \in Seq(Mark), NEW w \in Seq(Mark), NEW x, Loses(v, w, x), v[x] = Blank,
           NEW first, NEW last, NEW receiver, Path(v, first, last, receiver)
    PROVE  Path(w, first, last, receiver)
<1>1. PICK at \in [0 .. Len(v) -> Stands] :
         at[0] = first /\ at[Len(v)] = last /\ IsPath(v, at, receiver)
  BY DEF Path
<1>2. /\ Len(v) \in Nat /\ Len(w) \in Nat /\ x \in 1 .. Len(v) /\ Len(w) = Len(v) - 1
      /\ \A i \in 1 .. Len(w) : w[i] = IF i < x THEN v[i] ELSE v[i + 1]
  BY DEF Loses
<1>3. at[x] = at[x - 1]
  <2>1. Follows(at[x - 1], v[x].msg_type, at[x], receiver)
    BY <1>1, <1>2 DEF IsPath
  <2> QED
    BY <2>1, KindOK DEF Follows, Reports
<1> DEFINE to == [i \in 0 .. Len(w) |-> IF i < x THEN at[i] ELSE at[i + 1]]
<1>4. to \in [0 .. Len(w) -> Stands]
  <2>1. \A i \in 0 .. Len(w) : i \in 0 .. Len(v) /\ i + 1 \in 0 .. Len(v)
    BY <1>2
  <2> QED
    BY <2>1
<1>5. \A i \in 0 .. Len(w) : to[i] = IF i < x THEN at[i] ELSE at[i + 1]
  OBVIOUS
<1> HIDE DEF to
<1>6. to[0] = first /\ to[Len(w)] = last
  <2>1. 0 \in 0 .. Len(w) /\ 0 < x /\ Len(w) \in 0 .. Len(w) /\ Len(w) + 1 = Len(v)
    BY <1>2
  <2>2. CASE Len(w) < x
    <3>1. x = Len(v) /\ Len(w) = x - 1
      BY <1>2, <2>2
    <3> QED
      BY <1>1, <1>3, <1>5, <2>1, <2>2, <3>1
  <2>3. CASE ~ Len(w) < x
    BY <1>1, <1>5, <2>1, <2>3
  <2> QED
    BY <2>2, <2>3
<1>7. IsPath(w, to, receiver)
  <2> SUFFICES ASSUME NEW i \in 1 .. Len(w)
               PROVE  Follows(to[i - 1], w[i].msg_type, to[i], receiver)
    BY DEF IsPath
  <2>1. i \in 0 .. Len(w) /\ i - 1 \in 0 .. Len(w) /\ i \in 1 .. Len(v) /\ i + 1 \in 1 .. Len(v)
        /\ (i - 1) + 1 = i /\ (i + 1) - 1 = i
    BY <1>2
  <2>2. CASE i < x
    <3>1. i - 1 < x
      BY <1>2, <2>2
    <3>2. to[i - 1] = at[i - 1] /\ to[i] = at[i] /\ w[i] = v[i]
      BY <1>2, <1>5, <2>1, <2>2, <3>1
    <3> QED
      BY <1>1, <2>1, <3>2 DEF IsPath
  <2>3. CASE ~ i < x
    <3>1. to[i] = at[i + 1] /\ w[i] = v[i + 1]
      BY <1>2, <1>5, <2>1, <2>3
    <3>2. to[i - 1] = at[i]
      <4>1. CASE i - 1 < x
        <5>1. i = x
          BY <1>2, <2>3, <4>1
        <5> QED
          BY <1>3, <1>5, <2>1, <4>1, <5>1
      <4>2. CASE ~ i - 1 < x
        BY <1>5, <2>1, <4>2
      <4> QED
        BY <4>1, <4>2
    <3>3. Follows(at[(i + 1) - 1], v[i + 1].msg_type, at[i + 1], receiver)
      BY <1>1, <2>1 DEF IsPath
    <3> QED
      BY <2>1, <3>1, <3>2, <3>3
  <2> QED
    BY <2>2, <2>3
<1> QED
  BY <1>4, <1>6, <1>7 DEF Path

LEMMA PathPadded ==
    ASSUME NEW v \in Seq(Mark), NEW w \in Seq(Mark), NEW x, Loses(w, v, x), w[x] = Blank,
           NEW first, NEW last, NEW receiver, Path(v, first, last, receiver)
    PROVE  Path(w, first, last, receiver)
<1>1. PICK at \in [0 .. Len(v) -> Stands] :
         at[0] = first /\ at[Len(v)] = last /\ IsPath(v, at, receiver)
  BY DEF Path
<1>2. /\ Len(v) \in Nat /\ Len(w) \in Nat /\ x \in 1 .. Len(w) /\ Len(w) = Len(v) + 1
      /\ \A i \in 1 .. Len(v) : v[i] = IF i < x THEN w[i] ELSE w[i + 1]
  BY DEF Loses
<1> DEFINE to == [i \in 0 .. Len(w) |-> IF i < x THEN at[i] ELSE at[i - 1]]
<1>4. to \in [0 .. Len(w) -> Stands]
  <2>1. \A i \in 0 .. Len(w) : (i < x => i \in 0 .. Len(v)) /\ (~ i < x => i - 1 \in 0 .. Len(v))
    BY <1>2
  <2> QED
    BY <2>1
<1>5. \A i \in 0 .. Len(w) : to[i] = IF i < x THEN at[i] ELSE at[i - 1]
  OBVIOUS
<1> HIDE DEF to
<1>6. to[0] = first /\ to[Len(w)] = last
  <2>1. 0 \in 0 .. Len(w) /\ 0 < x /\ Len(w) \in 0 .. Len(w) /\ Len(w) - 1 = Len(v) /\ ~ Len(w) < x
    BY <1>2
  <2> QED
    BY <1>1, <1>5, <2>1
<1>7. IsPath(w, to, receiver)
  <2> SUFFICES ASSUME NEW i \in 1 .. Len(w)
               PROVE  Follows(to[i - 1], w[i].msg_type, to[i], receiver)
    BY DEF IsPath
  <2>1. i \in 0 .. Len(w) /\ i - 1 \in 0 .. Len(w)
    BY <1>2
  <2>2. CASE i < x
    <3>1. i - 1 < x /\ i \in 1 .. Len(v)
      BY <1>2, <2>2
    <3>2. to[i - 1] = at[i - 1] /\ to[i] = at[i] /\ w[i] = v[i]
      BY <1>2, <1>5, <2>1, <2>2, <3>1
    <3> QED
      BY <1>1, <3>1, <3>2 DEF IsPath
  <2>3. CASE i = x
    <3>1. to[i - 1] = at[i - 1] /\ to[i] = at[i - 1] /\ w[i] = Blank
      BY <1>2, <1>5, <2>1, <2>3
    <3> QED
      BY <3>1, KindOK DEF Follows, Reports
  <2>4. CASE i > x
    <3>1. PICK j \in 1 .. Len(v) : i = j + 1 /\ i - 1 = j /\ ~ j < x /\ ~ i < x
      <4>1. i - 1 \in 1 .. Len(v) /\ i = (i - 1) + 1 /\ ~ i - 1 < x /\ ~ i < x
        BY <1>2, <2>4
      <4> QED
        BY <4>1
    <3>2. to[i - 1] = at[j - 1] /\ to[i] = at[j] /\ w[i] = v[j]
      BY <1>2, <1>5, <2>1, <3>1
    <3> QED
      BY <1>1, <3>1, <3>2 DEF IsPath
  <2> QED
    BY <1>2, <2>2, <2>3, <2>4
<1> QED
  BY <1>4, <1>6, <1>7 DEF Path

(* Without a report before place x, the path gets there unchanged, but for a
   message that is not yet reported.  *)
LEMMA PathQuiet ==
    ASSUME NEW v \in Seq(Mark), NEW at \in [0 .. Len(v) -> Stands], NEW receiver,
           IsPath(v, at, receiver), NEW x \in 1 .. Len(v),
           \A i \in 1 .. x - 1 : v[i].msg_type \notin Reports
    PROVE  at[x - 1] = at[0] \/ (at[0] = "R" /\ at[x - 1] = "M")
<1> DEFINE Good(i) == at[i] = at[0] \/ (at[0] = "R" /\ at[i] = "M")
           Bad     == {i \in 0 .. x - 1 : ~ Good(i)}
<1>0. Len(v) \in Nat /\ x \in Nat
  OBVIOUS
<1>1. CASE Bad = {}
  <2>1. x - 1 \in 0 .. x - 1
    BY <1>0
  <2> QED
    BY <1>1, <2>1
<1>2. CASE Bad # {}
  <2>1. Bad \subseteq Nat
    OBVIOUS
  <2> HIDE DEF Bad
  <2>2. PICK i \in Bad : \A j \in Bad : i <= j
    BY <1>2, <2>1, LeastNatural
  <2> USE DEF Bad
  <2>3. i \in 0 .. x - 1 /\ ~ Good(i) /\ i # 0
    BY <2>2
  <2>4. i \in 1 .. Len(v) /\ i - 1 \in 0 .. x - 1 /\ i \in 1 .. x - 1 /\ ~ i <= i - 1
    BY <1>0, <2>3
  <2>5. Good(i - 1)
    BY <2>2, <2>4
  <2>6. Follows(at[i - 1], v[i].msg_type, at[i], receiver) /\ v[i].msg_type \notin Reports
    BY <2>4 DEF IsPath
  <2> QED
    BY <2>3, <2>5, <2>6 DEF Follows
<1> QED
  BY <1>1, <1>2

(* What is taken is the first report, or a message before it. *)
LEMMA PathDrops ==
    ASSUME NEW v \in Seq(Mark), NEW w \in Seq(Mark), NEW x, Loses(v, w, x),
           \A i \in 1 .. x - 1 : v[i].msg_type \notin Reports,
           NEW first, NEW last, NEW receiver, Path(v, first, last, receiver)
    PROVE  \E next \in Stands, here \in Stands :
              /\ Path(w, next, last, receiver)
              /\ here = first \/ (first = "R" /\ here = "M")
              /\ Follows(here, v[x].msg_type, next, receiver)
<1>1. PICK at \in [0 .. Len(v) -> Stands] :
         at[0] = first /\ at[Len(v)] = last /\ IsPath(v, at, receiver)
  BY DEF Path
<1>2. /\ Len(v) \in Nat /\ Len(w) \in Nat /\ x \in 1 .. Len(v) /\ Len(w) = Len(v) - 1
      /\ \A i \in 1 .. Len(w) : w[i] = IF i < x THEN v[i] ELSE v[i + 1]
  BY DEF Loses
<1>3. x - 1 \in 0 .. Len(v) /\ x \in 0 .. Len(v)
  BY <1>2
<1>4. at[x - 1] = first \/ (first = "R" /\ at[x - 1] = "M")
  BY <1>1, <1>2, PathQuiet
<1>5. Follows(at[x - 1], v[x].msg_type, at[x], receiver)
  BY <1>1, <1>2 DEF IsPath
<1> DEFINE to == [i \in 0 .. Len(w) |-> IF i < x THEN at[x] ELSE at[i + 1]]
<1>6. to \in [0 .. Len(w) -> Stands]
  <2>1. \A i \in 0 .. Len(w) : i + 1 \in 0 .. Len(v)
    BY <1>2
  <2> QED
    BY <1>3, <2>1
<1>7. \A i \in 0 .. Len(w) : to[i] = IF i < x THEN at[x] ELSE at[i + 1]
  OBVIOUS
<1> HIDE DEF to
<1>8. to[0] = at[x] /\ to[Len(w)] = last
  <2>1. 0 \in 0 .. Len(w) /\ 0 < x /\ Len(w) \in 0 .. Len(w) /\ Len(w) + 1 = Len(v)
    BY <1>2
  <2>2. CASE Len(w) < x
    <3>1. x = Len(v)
      BY <1>2, <2>2
    <3> QED
      BY <1>1, <1>7, <2>1, <2>2, <3>1
  <2>3. CASE ~ Len(w) < x
    BY <1>1, <1>7, <2>1, <2>3
  <2> QED
    BY <2>2, <2>3
<1>9. IsPath(w, to, receiver)
  <2> SUFFICES ASSUME NEW i \in 1 .. Len(w)
               PROVE  Follows(to[i - 1], w[i].msg_type, to[i], receiver)
    BY DEF IsPath
  <2>1. i \in 0 .. Len(w) /\ i - 1 \in 0 .. Len(w) /\ i \in 1 .. Len(v) /\ i + 1 \in 1 .. Len(v)
        /\ (i - 1) + 1 = i /\ (i + 1) - 1 = i
    BY <1>2
  <2>2. CASE i < x
    <3>1. i - 1 < x /\ i \in 1 .. x - 1
      BY <1>2, <2>2
    <3>2. to[i - 1] = at[x] /\ to[i] = at[x] /\ w[i] = v[i]
      BY <1>2, <1>7, <2>1, <2>2, <3>1
    <3>3. v[i].msg_type \notin Reports
      BY <3>1
    <3> QED
      BY <3>2, <3>3 DEF Follows, Reports
  <2>3. CASE ~ i < x
    <3>1. to[i] = at[i + 1] /\ w[i] = v[i + 1]
      BY <1>2, <1>7, <2>1, <2>3
    <3>2. to[i - 1] = at[i]
      <4>1. CASE i - 1 < x
        <5>1. i = x
          BY <1>2, <2>3, <4>1
        <5> QED
          BY <1>7, <2>1, <4>1, <5>1
      <4>2. CASE ~ i - 1 < x
        BY <1>7, <2>1, <4>2
      <4> QED
        BY <4>1, <4>2
    <3>3. Follows(at[(i + 1) - 1], v[i + 1].msg_type, at[i + 1], receiver)
      BY <1>1, <2>1 DEF IsPath
    <3> QED
      BY <2>1, <3>1, <3>2, <3>3
  <2> QED
    BY <2>2, <2>3
<1>10. Path(w, at[x], last, receiver)
  BY <1>6, <1>8, <1>9 DEF Path
<1>11. at[x] \in Stands /\ at[x - 1] \in Stands
  BY <1>3
<1> QED
  BY <1>4, <1>5, <1>10, <1>11

(* A word without reports and messages leads nowhere. *)
LEMMA PathStays ==
    ASSUME NEW w \in Seq(Mark), NEW first \in Stands, NEW receiver,
           \A i \in 1 .. Len(w) : w[i].msg_type \notin Reports
    PROVE  Path(w, first, first, receiver)
<1> DEFINE to == [i \in 0 .. Len(w) |-> first]
<1>1. to \in [0 .. Len(w) -> Stands] /\ \A i \in 0 .. Len(w) : to[i] = first
  OBVIOUS
<1>2. Len(w) \in Nat
  OBVIOUS
<1> HIDE DEF to
<1>3. to[0] = first /\ to[Len(w)] = first
  BY <1>1, <1>2
<1>4. ASSUME NEW i \in 1 .. Len(w) PROVE Follows(to[i - 1], w[i].msg_type, to[i], receiver)
  <2>1. i \in 0 .. Len(w) /\ i - 1 \in 0 .. Len(w)
    BY <1>2
  <2>2. to[i] = first /\ to[i - 1] = first
    BY <1>1, <2>1
  <2> QED
    BY <2>2 DEF Follows, Reports
<1> QED
  BY <1>1, <1>3, <1>4 DEF Path, IsPath

(* A node that node 0 sees waiting or terminated reports nothing unless it
   got a message.  *)
LEMMA PathStuck ==
    ASSUME NEW w \in Seq(Mark), NEW first, NEW last, NEW receiver,
           Path(w, first, last, receiver), first \in {"W", "T"},
           \A i \in 1 .. Len(w) : w[i].msg_type # "GOT_MESSAGE"
    PROVE  last = first /\ \A i \in 1 .. Len(w) : w[i].msg_type \notin Reports
<1>1. PICK at \in [0 .. Len(w) -> Stands] :
         at[0] = first /\ at[Len(w)] = last /\ IsPath(w, at, receiver)
  BY DEF Path
<1>2. Len(w) \in Nat
  OBVIOUS
<1> DEFINE Bad == {i \in 0 .. Len(w) : at[i] # first}
<1>3. ASSUME Bad # {} PROVE FALSE
  <2>1. Bad \subseteq Nat
    OBVIOUS
  <2> HIDE DEF Bad
  <2>2. PICK i \in Bad : \A j \in Bad : i <= j
    BY <1>3, <2>1, LeastNatural
  <2> USE DEF Bad
  <2>3. i \in 0 .. Len(w) /\ at[i] # first /\ i # 0
    BY <1>1, <2>2
  <2>4. i \in 1 .. Len(w) /\ i - 1 \in 0 .. Len(w) /\ ~ i <= i - 1
    BY <1>2, <2>3
  <2>5. at[i - 1] = first
    BY <2>2, <2>4
  <2>6. Follows(at[i - 1], w[i].msg_type, at[i], receiver) /\ w[i].msg_type # "GOT_MESSAGE"
    BY <1>1, <2>4 DEF IsPath
  <2> QED
    BY <2>3, <2>5, <2>6 DEF Follows, Reports
<1>4. \A i \in 0 .. Len(w) : at[i] = first
  BY <1>3
<1>5. last = first
  BY <1>1, <1>2, <1>4
<1>6. ASSUME NEW i \in 1 .. Len(w) PROVE w[i].msg_type \notin Reports
  <2>1. i \in 0 .. Len(w) /\ i - 1 \in 0 .. Len(w)
    BY <1>2
  <2>2. at[i - 1] = first /\ at[i] = first
    BY <1>4, <2>1
  <2>3. Follows(at[i - 1], w[i].msg_type, at[i], receiver) /\ w[i].msg_type # "GOT_MESSAGE"
    BY <1>1 DEF IsPath
  <2> QED
    BY <2>2, <2>3 DEF Follows, Reports
<1> QED
  BY <1>5, <1>6

(* If node 0 sees a node waiting or terminated, then each SENT_MESSAGE of the
   node is behind a message that no earlier SENT_MESSAGE is about.  *)
Reported(w, z, p) ==
    /\ p \in 1 .. z - 1 /\ w[p].msg_type = "MESSAGE_HEADER"
    /\ \A j \in p .. z - 1 : w[j].msg_type # "SENT_MESSAGE"

LEMMA PathReports ==
    ASSUME NEW w \in Seq(Mark), NEW first, NEW last, NEW receiver,
           Path(w, first, last, receiver), first \in {"W", "T"},
           NEW z \in 1 .. Len(w), w[z].msg_type = "SENT_MESSAGE"
    PROVE  \E p \in 1 .. Len(w) : Reported(w, z, p)
<1>1. PICK at \in [0 .. Len(w) -> Stands] :
         at[0] = first /\ at[Len(w)] = last /\ IsPath(w, at, receiver)
  BY DEF Path
<1>2. Len(w) \in Nat /\ z \in Nat
  OBVIOUS
<1>3. receiver
  <2>1. CASE \A i \in 1 .. Len(w) : w[i].msg_type # "GOT_MESSAGE"
    <3>1. w[z].msg_type \notin Reports
      BY <2>1, PathStuck
    <3> QED
      BY <3>1 DEF Reports
  <2>2. CASE ~ \A i \in 1 .. Len(w) : w[i].msg_type # "GOT_MESSAGE"
    <3>1. PICK i \in 1 .. Len(w) : w[i].msg_type = "GOT_MESSAGE"
      BY <2>2
    <3>2. Follows(at[i - 1], w[i].msg_type, at[i], receiver)
      BY <1>1 DEF IsPath
    <3> QED
      BY <3>1, <3>2 DEF Follows
  <2> QED
    BY <2>1, <2>2
<1>4. at[z - 1] = "M"
  <2>1. Follows(at[z - 1], w[z].msg_type, at[z], receiver)
    BY <1>1 DEF IsPath
  <2> QED
    BY <1>3, <2>1 DEF Follows
(* The least d such that the state d + 1 before z is not "M". *)
<1> DEFINE Bad == {d \in 0 .. z - 1 : at[z - 1 - d] # "M"}
<1>5. Bad # {}
  <2>1. z - 1 \in 0 .. z - 1 /\ z - 1 - (z - 1) = 0
    BY <1>2
  <2>2. at[0] # "M"
    BY <1>1
  <2> QED
    BY <2>1, <2>2
<1>6. Bad \subseteq Nat
  OBVIOUS
<1> HIDE DEF Bad
<1>7. PICK d \in Bad : \A k \in Bad : d <= k
  BY <1>5, <1>6, LeastNatural
<1> USE DEF Bad
<1>8. d \in 0 .. z - 1 /\ at[z - 1 - d] # "M" /\ d # 0
  <2>1. z - 1 - 0 = z - 1
    BY <1>2
  <2> QED
    BY <1>4, <1>7, <2>1
<1>9. PICK p \in Nat : p = z - d
  BY <1>2, <1>8
<1>10. p \in 1 .. z - 1 /\ p \in 1 .. Len(w) /\ p - 1 = z - 1 - d
  BY <1>2, <1>8, <1>9
<1>11. \A j \in p .. z - 1 : at[j] = "M"
  <2> SUFFICES ASSUME NEW j \in p .. z - 1, at[j] # "M" PROVE FALSE
    OBVIOUS
  <2>1. PICK k \in Nat : k = z - 1 - j
    BY <1>2
  <2>2. z - 1 - k = j /\ k \in 0 .. z - 1 /\ k < d /\ ~ d <= k
    BY <1>2, <1>8, <1>9, <2>1
  <2>3. k \in Bad
    BY <2>2
  <2> QED
    BY <1>7, <2>2, <2>3
<1>12. w[p].msg_type = "MESSAGE_HEADER"
  <2>1. Follows(at[p - 1], w[p].msg_type, at[p], receiver)
    BY <1>1, <1>10 DEF IsPath
  <2>2. at[p] = "M" /\ at[p - 1] # "M"
    BY <1>2, <1>8, <1>10, <1>11
  <2> QED
    BY <2>1, <2>2 DEF Follows, Reports
<1>13. ASSUME NEW j \in p .. z - 1 PROVE w[j].msg_type # "SENT_MESSAGE"
  <2>1. at[j] = "M" /\ j \in 1 .. Len(w)
    BY <1>2, <1>10, <1>11
  <2>2. Follows(at[j - 1], w[j].msg_type, at[j], receiver)
    BY <1>1, <2>1 DEF IsPath
  <2> QED
    BY <2>1, <2>2 DEF Follows
<1> QED
  BY <1>10, <1>12, <1>13 DEF Reported

(* The messages on their way, by connection and place in its word; the marks of
   a kind on their way to node 0.  *)
Fly(w) ==
    {p \in Conn \X Nat : /\ p[2] \in 1 .. Len(w[p[1]])
                         /\ w[p[1]][p[2]].msg_type = "MESSAGE_HEADER"}

Marked(w, type) ==
    {p \in Peers(0) \X Nat : p[2] \in 1 .. Len(w[p[1]]) /\ w[p[1]][p[2]].msg_type = type}

LEMMA Fewer ==
    ASSUME NEW S, NEW T, IsFiniteSet(T), NEW f \in [S -> T],
           \A a, b \in S : f[a] = f[b] => a = b
    PROVE  /\ IsFiniteSet(S) /\ Cardinality(S) \in Nat /\ Cardinality(T) \in Nat
           /\ Cardinality(S) <= Cardinality(T)
<1>1. f \in Injection(S, T)
  BY DEF Injection, IsInjective
<1>2. IsFiniteSet(S) /\ Cardinality(S) <= Cardinality(T)
  BY <1>1, FS_Injection
<1> QED
  BY <1>2, FS_CardinalityType

(* Every pending report is at a place of a word. *)
LEMMA UnreadIsMarked ==
    ASSUME NEW v \in Views(Wire(0)), NEW q \in Seq(Queued(0)), NEW type,
           type \notin {"SHUTDOWN", "READ_ERROR", "blank"},
           NEW w, \A m \in Peers(0) : w[m] = Word(v[m], q, m)
    PROVE  /\ \A m \in Peers(0), k \in Nat : <<m, k>> \in Unread(v, type) =>
                 Len(q) + k \in Nat /\ <<m, Len(q) + k>> \in Marked(w, type)
           /\ \A k \in Unpopped(q, type) :
                 /\ k \in 1 .. Len(q) /\ q[k].sender_id \in Peers(0)
                 /\ <<q[k].sender_id, k>> \in Marked(w, type)
<1>0. \A m \in Peers(0) : v[m] \in Seq(Wire(0))
  BY DEF Views
<1>1. \A m \in Peers(0) :
         /\ Len(v[m]) \in Nat /\ Len(q) \in Nat /\ DOMAIN v[m] = 1 .. Len(v[m])
         /\ Len(w[m]) = Len(q) + Len(v[m])
         /\ \A i \in 1 .. Len(q) :
                 w[m][i] = IF q[i].sender_id = m THEN Kind(q[i]) ELSE Blank
         /\ \A i \in 1 .. Len(v[m]) : w[m][Len(q) + i] = Kind(v[m][i])
  <2> SUFFICES ASSUME NEW m \in Peers(0)
               PROVE  /\ Len(v[m]) \in Nat /\ Len(q) \in Nat /\ DOMAIN v[m] = 1 .. Len(v[m])
                      /\ Len(w[m]) = Len(q) + Len(v[m])
                      /\ \A i \in 1 .. Len(q) :
                              w[m][i] = IF q[i].sender_id = m THEN Kind(q[i]) ELSE Blank
                      /\ \A i \in 1 .. Len(v[m]) : w[m][Len(q) + i] = Kind(v[m][i])
    OBVIOUS
  <2>1. v[m] \in Seq(Wire(0)) /\ w[m] = Word(v[m], q, m)
    BY <1>0
  <2>2. DOMAIN v[m] = 1 .. Len(v[m])
    BY <2>1
  <2> QED
    BY <2>1, <2>2, WordOK
<1>2. ASSUME NEW m \in Peers(0), NEW k \in Nat, <<m, k>> \in Unread(v, type)
      PROVE  Len(q) + k \in Nat /\ <<m, Len(q) + k>> \in Marked(w, type)
  <2>1. k \in 1 .. Len(v[m]) /\ v[m][k].msg_type = type
    BY <1>1, <1>2 DEF Unread
  <2>2. PICK j \in Nat : j = Len(q) + k
    BY <1>1
  <2>3. j \in 1 .. Len(w[m])
    BY <1>1, <2>1, <2>2
  <2>4. w[m][j] = Kind(v[m][k])
    BY <1>1, <2>1, <2>2
  <2>5. w[m][j].msg_type = type
    BY <2>1, <2>4, KindOK
  <2>6. <<m, j>> \in Marked(w, type)
    BY <2>3, <2>5 DEF Marked
  <2> QED
    BY <2>2, <2>6
<1>3. ASSUME NEW k \in Unpopped(q, type)
      PROVE  /\ k \in 1 .. Len(q) /\ q[k].sender_id \in Peers(0)
             /\ <<q[k].sender_id, k>> \in Marked(w, type)
  <2>1. k \in 1 .. Len(q) /\ q[k] \in Queued(0) /\ q[k].msg_type = type
    BY DEF Unpopped
  <2>2. PICK m \in Peers(0) : m = q[k].sender_id
    BY <2>1 DEF Queued
  <2>3. w[m][k] = Kind(q[k]) /\ k \in 1 .. Len(w[m]) /\ k \in Nat
    BY <1>1, <2>1, <2>2
  <2>4. w[m][k].msg_type = type
    BY <2>1, <2>3, KindOK
  <2>5. <<m, k>> \in Marked(w, type)
    BY <2>3, <2>4 DEF Marked
  <2> QED
    BY <2>1, <2>2, <2>5
<1> QED
  BY <1>2, <1>3

LEMMA PendingIsMarked ==
    ASSUME NEW v \in Views(Wire(0)), NEW q \in Seq(Queued(0)), NEW type,
           type \notin {"SHUTDOWN", "READ_ERROR", "blank"},
           NEW w, \A m \in Peers(0) : w[m] = Word(v[m], q, m),
           IsFiniteSet(Marked(w, type))
    PROVE  /\ Pending(v, q, type) \in Nat /\ Cardinality(Marked(w, type)) \in Nat
           /\ Pending(v, q, type) <= Cardinality(Marked(w, type))
<1> DEFINE A     == Unread(v, type)
           B     == Unpopped(q, type)
           Late  == {p \in Marked(w, type) : p[2] > Len(q)}
           Early == {p \in Marked(w, type) : p[2] <= Len(q)}
           f     == [p \in A |-> <<p[1], Len(q) + p[2]>>]
           g     == [k \in B |-> <<q[k].sender_id, k>>]
<1>0. Len(q) \in Nat
  OBVIOUS
<1>1. /\ \A m \in Peers(0), k \in Nat : <<m, k>> \in A =>
            Len(q) + k \in Nat /\ <<m, Len(q) + k>> \in Marked(w, type)
      /\ \A k \in B :
            /\ k \in 1 .. Len(q) /\ q[k].sender_id \in Peers(0)
            /\ <<q[k].sender_id, k>> \in Marked(w, type)
  BY UnreadIsMarked
<1>2. \A p \in A : \E m \in Peers(0), k \in Nat : p = <<m, k>> /\ k > 0
  BY DEF Unread, Views
<1>3. f \in [A -> Late]
  <2> SUFFICES ASSUME NEW p \in A PROVE <<p[1], Len(q) + p[2]>> \in Late
    OBVIOUS
  <2>1. PICK m \in Peers(0), k \in Nat : p = <<m, k>> /\ k > 0
    BY <1>2
  <2>2. PICK j \in Nat : j = Len(q) + k /\ <<m, j>> \in Marked(w, type) /\ j > Len(q)
    BY <1>0, <1>1, <2>1
  <2> QED
    BY <2>1, <2>2
<1>4. \A a, b \in A : f[a] = f[b] => a = b
  <2> SUFFICES ASSUME NEW a \in A, NEW b \in A, f[a] = f[b] PROVE a = b
    OBVIOUS
  <2>1. PICK m \in Peers(0), k \in Nat : a = <<m, k>> /\ k > 0
    BY <1>2
  <2>2. PICK l \in Peers(0), j \in Nat : b = <<l, j>> /\ j > 0
    BY <1>2
  <2>3. f[a] = <<m, Len(q) + k>> /\ f[b] = <<l, Len(q) + j>>
    BY <2>1, <2>2
  <2>4. m = l /\ Len(q) + k = Len(q) + j
    BY <2>3
  <2> QED
    BY <1>0, <2>1, <2>2, <2>4
<1>5. g \in [B -> Early]
  <2> SUFFICES ASSUME NEW k \in B PROVE <<q[k].sender_id, k>> \in Early
    OBVIOUS
  <2>1. <<q[k].sender_id, k>> \in Marked(w, type) /\ k <= Len(q)
    BY <1>0, <1>1
  <2> QED
    BY <2>1
<1>6. \A a, b \in B : g[a] = g[b] => a = b
  OBVIOUS
<1>7. /\ Late \cup Early = Marked(w, type) /\ Late \cap Early = {}
      /\ Late \in SUBSET Marked(w, type) /\ Early \in SUBSET Marked(w, type)
  <2>1. \A p \in Marked(w, type) : p[2] \in Nat
    BY DEF Marked
  <2> QED
    BY <1>0, <2>1
<1> HIDE DEF A, B, Late, Early, f, g
<1>8. IsFiniteSet(Late) /\ IsFiniteSet(Early)
  BY <1>7, FS_Subset
<1>9. /\ Cardinality(A) \in Nat /\ Cardinality(Late) \in Nat
      /\ Cardinality(A) <= Cardinality(Late)
  BY <1>3, <1>4, <1>8, Fewer
<1>10. /\ Cardinality(B) \in Nat /\ Cardinality(Early) \in Nat
       /\ Cardinality(B) <= Cardinality(Early)
  BY <1>5, <1>6, <1>8, Fewer
<1>11. Cardinality(Marked(w, type)) = Cardinality(Late) + Cardinality(Early)
  <2>1. Cardinality(Late \cup Early) =
           Cardinality(Late) + Cardinality(Early) - Cardinality(Late \cap Early)
    BY <1>8, FS_Union
  <2>2. Cardinality(Late \cap Early) = 0
    BY <1>7, FS_EmptySet, Zenon
  <2>3. Cardinality(Late \cup Early) = Cardinality(Marked(w, type))
    BY <1>7
  <2> QED
    BY <1>9, <1>10, <2>1, <2>2, <2>3
<1>12. Pending(v, q, type) = Cardinality(A) + Cardinality(B)
  BY DEF Pending, A, B
<1> QED
  BY <1>9, <1>10, <1>11, <1>12

(* Nothing is pending if nothing is marked, and the other way round. *)
LEMMA NothingMarked ==
    ASSUME NEW v \in Views(Wire(0)), NEW q \in Seq(Queued(0)), NEW type,
           type \notin {"SHUTDOWN", "READ_ERROR", "blank"},
           IsFiniteSet(Unread(v, type)), Pending(v, q, type) = 0,
           NEW m \in Peers(0), NEW i \in 1 .. Len(Word(v[m], q, m))
    PROVE  Word(v[m], q, m)[i].msg_type # type
<1>1. Cardinality(Unread(v, type)) \in Nat
  BY FS_CardinalityType
<1>2. Cardinality(Unpopped(q, type)) \in Nat /\ IsFiniteSet(Unpopped(q, type))
  BY UnpoppedFinite
<1>3. Cardinality(Unread(v, type)) = 0 /\ Cardinality(Unpopped(q, type)) = 0
  BY <1>1, <1>2 DEF Pending
<1>4. Unread(v, type) = {} /\ Unpopped(q, type) = {}
  BY <1>2, <1>3, FS_EmptySet
<1>5. v[m] \in Seq(Wire(0))
  BY DEF Views
<1>6. /\ Len(v[m]) \in Nat /\ Len(q) \in Nat /\ DOMAIN v[m] = 1 .. Len(v[m])
      /\ Len(Word(v[m], q, m)) = Len(q) + Len(v[m])
      /\ \A k \in 1 .. Len(q) :
            Word(v[m], q, m)[k] = IF q[k].sender_id = m THEN Kind(q[k]) ELSE Blank
      /\ \A k \in 1 .. Len(v[m]) : Word(v[m], q, m)[Len(q) + k] = Kind(v[m][k])
  <2>1. DOMAIN v[m] = 1 .. Len(v[m])
    BY <1>5
  <2> QED
    BY <1>5, <2>1, WordOK
<1>7. CASE i <= Len(q)
  <2>1. i \in 1 .. Len(q) /\ i \in DOMAIN q
    BY <1>6, <1>7
  <2>2. q[i].msg_type # type
    BY <1>4, <2>1 DEF Unpopped
  <2>3. Word(v[m], q, m)[i] = Kind(q[i]) \/ Word(v[m], q, m)[i] = Blank
    BY <1>6, <2>1
  <2> QED
    BY <2>2, <2>3, KindOK
<1>8. CASE ~ i <= Len(q)
  <2>1. PICK k \in 1 .. Len(v[m]) : i = Len(q) + k
    <3>1. i - Len(q) \in 1 .. Len(v[m]) /\ i = Len(q) + (i - Len(q))
      BY <1>6, <1>8
    <3> QED
      BY <3>1
  <2>2. Word(v[m], q, m)[i] = Kind(v[m][k])
    BY <1>6, <2>1
  <2>3. v[m][k].msg_type # type
    <3>1. k \in Nat /\ k \in DOMAIN v[m] /\ <<m, k>> \notin Unread(v, type)
      BY <1>4, <1>6
    <3> QED
      BY <3>1 DEF Unread
  <2> QED
    BY <2>2, <2>3, KindOK
<1> QED
  BY <1>7, <1>8

(* Each SENT_MESSAGE is about a message of its own. *)
LEMMA SentIsFlying ==
    ASSUME NEW w, \A b \in Peers(0) : Len(w[b]) \in Nat,
           \A b \in Peers(0) : \A z \in 1 .. Len(w[b]) : w[b][z].msg_type = "SENT_MESSAGE" =>
              \E p \in 1 .. Len(w[b]) : Reported(w[b], z, p),
           NEW F, IsFiniteSet(F),
           \A b \in Peers(0) : \A p \in 1 .. Len(w[b]) : w[b][p].msg_type = "MESSAGE_HEADER" =>
              <<<<b, 0>>, p>> \in F
    PROVE  /\ IsFiniteSet(Marked(w, "SENT_MESSAGE"))
           /\ Cardinality(Marked(w, "SENT_MESSAGE")) <= Cardinality(F)
<1> DEFINE S    == Marked(w, "SENT_MESSAGE")
           P(b, z) == CHOOSE p \in 1 .. Len(w[b]) : Reported(w[b], z, p)
           f    == [x \in S |-> <<<<x[1], 0>>, P(x[1], x[2])>>]
<1>1. \A x \in S : \E b \in Peers(0), z \in Nat :
         x = <<b, z>> /\ z \in 1 .. Len(w[b]) /\ w[b][z].msg_type = "SENT_MESSAGE"
  BY DEF Marked
<1>2. \A b \in Peers(0), z \in Nat : z \in 1 .. Len(w[b]) /\ w[b][z].msg_type = "SENT_MESSAGE" =>
         P(b, z) \in 1 .. Len(w[b]) /\ Reported(w[b], z, P(b, z))
  <2> SUFFICES ASSUME NEW b \in Peers(0), NEW z \in 1 .. Len(w[b]),
                      w[b][z].msg_type = "SENT_MESSAGE"
               PROVE  P(b, z) \in 1 .. Len(w[b]) /\ Reported(w[b], z, P(b, z))
    OBVIOUS
  <2>1. \E p \in 1 .. Len(w[b]) : Reported(w[b], z, p)
    OBVIOUS
  <2> QED
    BY <2>1
<1> HIDE DEF P
<1>3. f \in [S -> F]
  <2> SUFFICES ASSUME NEW x \in S PROVE <<<<x[1], 0>>, P(x[1], x[2])>> \in F
    OBVIOUS
  <2>1. PICK b \in Peers(0), z \in Nat :
           x = <<b, z>> /\ z \in 1 .. Len(w[b]) /\ w[b][z].msg_type = "SENT_MESSAGE"
    BY <1>1
  <2>2. P(b, z) \in 1 .. Len(w[b]) /\ Reported(w[b], z, P(b, z))
    BY <1>2, <2>1
  <2>3. w[b][P(b, z)].msg_type = "MESSAGE_HEADER"
    BY <2>2 DEF Reported
  <2>4. <<<<b, 0>>, P(b, z)>> \in F
    BY <2>2, <2>3
  <2> QED
    BY <2>1, <2>4
<1>4. ASSUME NEW x \in S, NEW y \in S, f[x] = f[y] PROVE x = y
  <2>1. PICK b \in Peers(0), z \in Nat :
           x = <<b, z>> /\ z \in 1 .. Len(w[b]) /\ w[b][z].msg_type = "SENT_MESSAGE"
    BY <1>1
  <2>2. PICK c \in Peers(0), u \in Nat :
           y = <<c, u>> /\ u \in 1 .. Len(w[c]) /\ w[c][u].msg_type = "SENT_MESSAGE"
    BY <1>1
  <2>3. f[x] = <<<<b, 0>>, P(b, z)>> /\ f[y] = <<<<c, 0>>, P(c, u)>>
    BY <2>1, <2>2
  <2> HIDE DEF f
  <2>4. <<b, 0>> = <<c, 0>> /\ P(b, z) = P(c, u)
    <3>1. <<<<b, 0>>, P(b, z)>> = <<<<c, 0>>, P(c, u)>>
      BY <1>4, <2>3, Zenon
    <3>2. \A i, j, k, l : <<i, j>> = <<k, l>> => i = k /\ j = l
      OBVIOUS
    <3> QED
      BY <3>1, <3>2, Zenon
  <2>5. b = c
    BY <2>4
  <2>6. PICK p \in 1 .. Len(w[b]) : p = P(b, z) /\ Reported(w[b], z, p) /\ Reported(w[b], u, p)
    <3>1. P(b, z) \in 1 .. Len(w[b]) /\ Reported(w[b], z, P(b, z))
      BY <1>2, <2>1
    <3>2. Reported(w[c], u, P(c, u))
      BY <1>2, <2>2
    <3> QED
      BY <2>4, <2>5, <3>1, <3>2
  <2>7. /\ p \in 1 .. z - 1 /\ \A j \in p .. z - 1 : w[b][j].msg_type # "SENT_MESSAGE"
        /\ p \in 1 .. u - 1 /\ \A j \in p .. u - 1 : w[b][j].msg_type # "SENT_MESSAGE"
    BY <2>6 DEF Reported
  <2>8. ~ z < u
    <3> SUFFICES ASSUME z < u PROVE FALSE
      OBVIOUS
    <3>1. z \in p .. u - 1
      BY <2>1, <2>2, <2>7
    <3> QED
      BY <2>1, <2>7, <3>1
  <2>9. ~ u < z
    <3> SUFFICES ASSUME u < z PROVE FALSE
      OBVIOUS
    <3>1. u \in p .. z - 1
      BY <2>1, <2>2, <2>7
    <3> QED
      BY <2>2, <2>5, <2>7, <3>1
  <2> QED
    BY <2>1, <2>2, <2>5, <2>8, <2>9
<1> HIDE DEF S, f
<1>5. IsFiniteSet(S) /\ Cardinality(S) <= Cardinality(F)
  BY <1>3, <1>4, Fewer
<1> QED
  BY <1>5 DEF S

words == Words(stream, msg_buffer)

(* What is on its way: messages over Link, of the superstep of node 0; news of
   a barrier from node 0; NODE_TERMINATE of node 0 only when nobody is active.  *)
Fresh(e, c, epoch, quiet) ==
    /\ e.msg_type = "MESSAGE_HEADER" => c \in Link /\ e.epoch = epoch
    /\ e.msg_type = "SEE_ALL_IN_WAITING_STATE" => c[1] = 0
    /\ e.msg_type = "NODE_TERMINATE" /\ c[1] = 0 => quiet

FreshWord(w, c, epoch, quiet) == \A i \in 1 .. Len(w) : Fresh(w[i], c, epoch, quiet)

Current ==
    /\ \A c \in Conn : FreshWord(words[c], c, current_epoch[0], Active = {})
    /\ \A n \in Peers(0) : 0 \in terminated[n] => Active = {}

(* Messages on their way are not received yet. *)
InFlight(w, open) == IsFiniteSet(Fly(w)) /\ Cardinality(Fly(w)) <= open

(* The news of a barrier in the word of a connection from node 0: a node is in
   the superstep of node 0 and no news are on their way, or one behind, waiting,
   and they are.  *)
News(w) == {i \in 1 .. Len(w) : w[i].msg_type = "SEE_ALL_IN_WAITING_STATE"}

InStep(epoch, epoch0, place, news) ==
    \/ epoch = epoch0 /\ news = {}
    \/ epoch + 1 = epoch0 /\ place = "receiving" /\ \E i : news = {i}

UpToDate ==
    \A n \in Peers(0) : n \in Active =>
        InStep(current_epoch[n], current_epoch[0], pc[n], News(words[<<0, n>>]))

(* Node 0 sees each node at a stand, from which what the node wrote leads to
   where it is: a node with news on their way has reported nothing since they
   were written, and counts as running.  *)
Standing(place, news, last) ==
    /\ place = "running" => last = "R"
    /\ place = "receiving" => last = IF news = {} THEN "W" ELSE "R"

Leads(b, first) ==
    \E last \in Stands :
        /\ Path(words[<<b, 0>>], first, last, Receiver(b))
        /\ Standing(pc[b], News(words[<<0, b>>]), last)

Seen(at) ==
    /\ at \in [Peers(0) -> Stands]
    /\ num_waiting_nodes = Cardinality({b \in Peers(0) : at[b] = "W"})
    /\ \A b \in Peers(0) : (b \in terminated[0] => at[b] = "T") /\ Leads(b, at[b])

Reporting == ~Ended(0) => \E at : Seen(at)

BarrierInv == Current /\ InFlight(words, unreceived) /\ UpToDate /\ Reporting

-----------------------------------------------------------------------------
BuffersOK(b) == DOMAIN b = Node /\ \A n \in Node : b[n] \in Seq(Queued(n))

LEMMA WordsOK ==
    ASSUME NEW s, StreamsOK(s), NEW b, BuffersOK(b)
    PROVE  /\ Words(s, b) \in [Conn -> Seq(Mark)]
           /\ \A m, n \in Node : m # n => Words(s, b)[<<m, n>>] = Word(s[<<m, n>>], b[n], m)
<1>1. ASSUME NEW c \in Conn PROVE Word(s[c], b[c[2]], c[1]) \in Seq(Mark)
  <2>1. c[2] \in Node
    BY ConnFacts
  <2>2. s[c] \in Seq(Wire(c[2])) /\ b[c[2]] \in Seq(Queued(c[2]))
    BY <2>1 DEF StreamsOK, BuffersOK
  <2> QED
    BY <2>2, WordOK
<1>2. Words(s, b) \in [Conn -> Seq(Mark)]
  BY <1>1 DEF Words
<1>3. ASSUME NEW m \in Node, NEW n \in Node, m # n
      PROVE  Words(s, b)[<<m, n>>] = Word(s[<<m, n>>], b[n], m)
  <2>1. <<m, n>> \in Conn
    BY <1>3, NodeFacts
  <2> QED
    BY <2>1 DEF Words
<1> QED
  BY <1>2, <1>3

LEMMA StateWords ==
    ASSUME TypeOK
    PROVE  /\ StreamsOK(stream) /\ BuffersOK(msg_buffer)
           /\ words \in [Conn -> Seq(Mark)]
           /\ \A m, n \in Node : m # n => words[<<m, n>>] = Word(stream[<<m, n>>], msg_buffer[n], m)
<1>1. StreamsOK(stream) /\ BuffersOK(msg_buffer)
  BY DEF TypeOK, QueuesOK, BuffersOK
<1> QED
  BY <1>1, WordsOK DEF words

LEMMA AllOthers ==
    ASSUME NEW n \in Node, NEW S \in SUBSET Peers(n), Cardinality(S) = N - 1
    PROVE  S = Peers(n)
<1>1. N \in Nat \ {0}
  BY BspAssumption
<1>2. Node = 0 .. N - 1 /\ 0 \in Int /\ N - 1 \in Int
  BY <1>1 DEF Node
<1>3. IsFiniteSet(Node) /\ Cardinality(Node) = IF 0 > N - 1 THEN 0 ELSE N - 1 - 0 + 1
  BY <1>2, FS_Interval
<1>4. Cardinality(Node) = N
  BY <1>1, <1>3
<1>5. IsFiniteSet(Peers(n)) /\ Cardinality(Peers(n)) = N - 1
  BY <1>3, <1>4, FS_RemoveElement DEF Peers
<1> QED
  BY <1>5, FS_Subset

LEMMA PeersFinite == IsFiniteSet(Peers(0))
<1>1. N \in Nat \ {0}
  BY BspAssumption
<1>2. Peers(0) = 1 .. N - 1 /\ 1 \in Int /\ N - 1 \in Int
  BY <1>1 DEF Peers, Node
<1>3. IsFiniteSet(1 .. N - 1)
  BY <1>2, FS_Interval
<1> QED
  BY <1>2, <1>3, Zenon

(* When the counters of node 0 say so, it has seen everybody wait or terminate. *)
LEMMA AllSeen ==
    ASSUME TypeOK, NEW at, Seen(at), AllWait(0)
    PROVE  \A b \in Peers(0) : at[b] \in {"W", "T"}
<1> DEFINE S == {b \in Peers(0) : at[b] = "W"}
           T == terminated[0]
<1>1. T \in SUBSET Peers(0) /\ S \in SUBSET Peers(0)
  BY NodeFacts DEF TypeOK, KnownGone
<1>2. S \cap T = {} /\ \A b \in T : at[b] = "T"
  BY <1>1 DEF Seen
<1>3. Cardinality(T) + Cardinality(S) = N - 1
  BY DEF Seen, AllWait
<1>4. S \cup T \in SUBSET Peers(0)
  BY <1>1
<1>5. \A b \in S : at[b] = "W"
  OBVIOUS
<1> HIDE DEF S, T
<1>6. IsFiniteSet(S) /\ IsFiniteSet(T) /\ Cardinality(S) \in Nat /\ Cardinality(T) \in Nat
  BY <1>1, PeersFinite, FS_Subset, FS_CardinalityType
<1>7. Cardinality(S \cup T) = Cardinality(S) + Cardinality(T) - Cardinality(S \cap T)
  BY <1>6, FS_Union
<1>8. Cardinality(S \cap T) = 0
  BY <1>2, FS_EmptySet, Zenon
<1>9. Cardinality(S \cup T) = N - 1
  BY <1>3, <1>6, <1>7, <1>8
<1>10. S \cup T = Peers(0)
  BY <1>4, <1>9, NodeFacts, AllOthers
<1> QED
  BY <1>2, <1>5, <1>10

(* Then no report is pending and no message in flight, and no node runs or has
   news on their way.  *)
LEMMA BarrierReached ==
    ASSUME BspInv, BarrierInv, ~Ended(0), AllWait(0)
    PROVE  /\ Fly(words) = {}
           /\ \A b \in Peers(0) :
                 /\ \A i \in 1 .. Len(words[<<b, 0>>]) :
                       words[<<b, 0>>][i].msg_type \notin Reports
                 /\ pc[b] # "running"
                 /\ pc[b] = "receiving" => News(words[<<0, b>>]) = {}
<1> DEFINE v == View(stream)
           q == msg_buffer[0]
           w == [b \in Peers(0) |-> words[<<b, 0>>]]
<1>1. /\ TypeOK /\ StreamsOK(stream) /\ words \in [Conn -> Seq(Mark)]
      /\ v \in Views(Wire(0)) /\ q \in Seq(Queued(0)) /\ 0 \in Node
      /\ \A m \in Peers(0) : v[m] = stream[<<m, 0>>]
  BY StateWords, ViewOK, NodeFacts DEF BspInv, TypeOK, QueuesOK
<1>2. \A m \in Peers(0) : w[m] = Word(v[m], q, m) /\ <<m, 0>> \in Conn /\ w[m] = words[<<m, 0>>]
  BY <1>1, StateWords, NodeFacts DEF Peers
<1>3. \A m \in Peers(0) : w[m] \in Seq(Mark) /\ Len(w[m]) \in Nat
  <2> SUFFICES ASSUME NEW m \in Peers(0) PROVE w[m] \in Seq(Mark) /\ Len(w[m]) \in Nat
    OBVIOUS
  <2> HIDE DEF w
  <2>1. <<m, 0>> \in Conn /\ w[m] = words[<<m, 0>>]
    BY <1>2
  <2>2. w[m] \in Seq(Mark)
    BY <1>1, <2>1
  <2> QED
    BY <2>2
<1>4. /\ \A type \in Counted : IsFiniteSet(Unread(v, type))
      /\ outstanding_messages + Pending(v, q, "SENT_MESSAGE") - Pending(v, q, "GOT_MESSAGE")
            = unreceived
      /\ outstanding_messages = 0 /\ unreceived \in Int
  BY <1>1 DEF BspInv, Control0, Account, AllWait, TypeOK
<1>5. IsFiniteSet(Fly(words)) /\ Cardinality(Fly(words)) \in Nat
      /\ Cardinality(Fly(words)) <= unreceived
  BY FS_CardinalityType DEF BarrierInv, InFlight
<1>6. PICK at : Seen(at)
  BY DEF BarrierInv, Reporting
<1>7. \A b \in Peers(0) : at[b] \in {"W", "T"}
  BY <1>1, <1>6, AllSeen
<1>8. \A b \in Peers(0) : \E last \in Stands :
         /\ Path(w[b], at[b], last, Receiver(b))
         /\ Standing(pc[b], News(words[<<0, b>>]), last)
  BY <1>2, <1>6 DEF Seen, Leads
<1>9. \A b \in Peers(0) : \A p \in 1 .. Len(w[b]) : w[b][p].msg_type = "MESSAGE_HEADER" =>
         <<<<b, 0>>, p>> \in Fly(words)
  <2> SUFFICES ASSUME NEW b \in Peers(0), NEW p \in 1 .. Len(w[b]),
                      w[b][p].msg_type = "MESSAGE_HEADER"
               PROVE  <<<<b, 0>>, p>> \in Fly(words)
    OBVIOUS
  <2>1. PICK c \in Conn : c = <<b, 0>> /\ w[b] = words[c]
    BY <1>2
  <2>2. p \in Nat /\ p \in 1 .. Len(words[c]) /\ words[c][p].msg_type = "MESSAGE_HEADER"
    BY <2>1
  <2>3. <<c, p>> \in Fly(words)
    BY <2>2 DEF Fly
  <2> QED
    BY <2>1, <2>3
<1> HIDE DEF v, q, w
<1>10. \A b \in Peers(0) : \A z \in 1 .. Len(w[b]) : w[b][z].msg_type = "SENT_MESSAGE" =>
          \E p \in 1 .. Len(w[b]) : Reported(w[b], z, p)
  <2> SUFFICES ASSUME NEW b \in Peers(0), NEW z \in 1 .. Len(w[b]),
                      w[b][z].msg_type = "SENT_MESSAGE"
               PROVE  \E p \in 1 .. Len(w[b]) : Reported(w[b], z, p)
    OBVIOUS
  <2>1. PICK last \in Stands : Path(w[b], at[b], last, Receiver(b))
    BY <1>8
  <2> QED
    BY <1>3, <1>7, <2>1, PathReports
<1>11. /\ IsFiniteSet(Marked(w, "SENT_MESSAGE"))
       /\ Cardinality(Marked(w, "SENT_MESSAGE")) <= Cardinality(Fly(words))
  <2>1. \A b \in Peers(0) : Len(w[b]) \in Nat
    BY <1>3
  <2> QED
    BY <1>5, <1>9, <1>10, <2>1, SentIsFlying
<1>12. /\ Pending(v, q, "SENT_MESSAGE") \in Nat
       /\ Cardinality(Marked(w, "SENT_MESSAGE")) \in Nat
       /\ Pending(v, q, "SENT_MESSAGE") <= Cardinality(Marked(w, "SENT_MESSAGE"))
  <2>1. \A m \in Peers(0) : w[m] = Word(v[m], q, m)
    BY <1>2
  <2> QED
    BY <1>1, <1>11, <2>1, PendingIsMarked
<1>13. Pending(v, q, "GOT_MESSAGE") \in Nat
  <2>1. IsFiniteSet(Unread(v, "GOT_MESSAGE"))
    BY <1>4 DEF Counted
  <2>2. Cardinality(Unread(v, "GOT_MESSAGE")) \in Nat
    BY <2>1, FS_CardinalityType
  <2>3. Cardinality(Unpopped(q, "GOT_MESSAGE")) \in Nat
    BY <1>1, UnpoppedFinite
  <2> QED
    BY <2>2, <2>3 DEF Pending
<1>14. Pending(v, q, "GOT_MESSAGE") = 0
  BY <1>4, <1>5, <1>11, <1>12, <1>13
<1>15. \A b \in Peers(0) : \A i \in 1 .. Len(w[b]) : w[b][i].msg_type # "GOT_MESSAGE"
  <2>1. IsFiniteSet(Unread(v, "GOT_MESSAGE"))
    BY <1>4 DEF Counted
  <2> SUFFICES ASSUME NEW b \in Peers(0), NEW i \in 1 .. Len(w[b])
               PROVE  w[b][i].msg_type # "GOT_MESSAGE"
    OBVIOUS
  <2>2. w[b] = Word(v[b], q, b)
    BY <1>2
  <2>3. i \in 1 .. Len(Word(v[b], q, b))
    BY <2>2
  <2>4. Word(v[b], q, b)[i].msg_type # "GOT_MESSAGE"
    BY <1>1, <1>14, <2>1, <2>3, NothingMarked
  <2> QED
    BY <2>2, <2>4
<1>16. \A b \in Peers(0) :
          /\ \A i \in 1 .. Len(w[b]) : w[b][i].msg_type \notin Reports
          /\ Standing(pc[b], News(words[<<0, b>>]), at[b])
  <2> SUFFICES ASSUME NEW b \in Peers(0)
               PROVE  /\ \A i \in 1 .. Len(w[b]) : w[b][i].msg_type \notin Reports
                      /\ Standing(pc[b], News(words[<<0, b>>]), at[b])
    OBVIOUS
  <2>1. PICK last \in Stands : /\ Path(w[b], at[b], last, Receiver(b))
                               /\ Standing(pc[b], News(words[<<0, b>>]), last)
    BY <1>8
  <2>2. \A i \in 1 .. Len(w[b]) : w[b][i].msg_type # "GOT_MESSAGE"
    BY <1>15
  <2>3. at[b] \in {"W", "T"} /\ w[b] \in Seq(Mark)
    BY <1>3, <1>7
  <2>4. last = at[b] /\ \A i \in 1 .. Len(w[b]) : w[b][i].msg_type \notin Reports
    BY <2>1, <2>2, <2>3, PathStuck
  <2> QED
    BY <2>1, <2>4
<1>17. Marked(w, "SENT_MESSAGE") = {}
  BY <1>16 DEF Marked, Reports
<1>18. Cardinality(Marked(w, "SENT_MESSAGE")) = 0
  BY <1>17, FS_EmptySet, Zenon
<1>19. Cardinality(Fly(words)) = 0
  BY <1>4, <1>5, <1>12, <1>14, <1>18
<1>20. Fly(words) = {}
  BY <1>5, <1>19, FS_EmptySet
<1>21. \A b \in Peers(0) : /\ pc[b] # "running"
                           /\ pc[b] = "receiving" => News(words[<<0, b>>]) = {}
  BY <1>7, <1>16 DEF Standing
<1> QED
  BY <1>2, <1>16, <1>20, <1>21

(* The places of the messages in a word.  Those of w are among those of v that
   are not in A.  *)
Msgs(w) == {i \in 1 .. Len(w) : w[i].msg_type = "MESSAGE_HEADER"}

Carries(v, w, A) ==
    \E g \in [Msgs(w) -> Msgs(v) \ A] : \A i, j \in Msgs(w) : g[i] = g[j] => i = j

LEMMA CarriesSame ==
    ASSUME NEW v, NEW w, NEW A, Msgs(w) \subseteq Msgs(v) \ A
    PROVE  Carries(v, w, A)
<1> DEFINE g == [i \in Msgs(w) |-> i]
<1>1. g \in [Msgs(w) -> Msgs(v) \ A] /\ \A i, j \in Msgs(w) : g[i] = g[j] => i = j
  OBVIOUS
<1> QED
  BY <1>1 DEF Carries

LEMMA CarriesLonger ==
    ASSUME NEW v \in Seq(Mark), NEW w \in Seq(Mark), NEW e, Longer(v, w, e),
           e.msg_type # "MESSAGE_HEADER"
    PROVE  Carries(v, w, {})
<1>1. Msgs(w) \subseteq Msgs(v)
  <2> SUFFICES ASSUME NEW i \in 1 .. Len(w), w[i].msg_type = "MESSAGE_HEADER"
               PROVE  i \in 1 .. Len(v) /\ v[i].msg_type = "MESSAGE_HEADER"
    BY DEF Msgs
  <2>1. Len(v) \in Nat /\ Len(w) = Len(v) + 1
    BY DEF Longer
  <2>2. i # Len(v) + 1
    BY DEF Longer
  <2>3. i \in 1 .. Len(v)
    BY <2>1, <2>2
  <2> QED
    BY <2>3 DEF Longer
<1>2. Msgs(w) \subseteq Msgs(v) \ {}
  BY <1>1
<1> QED
  BY <1>2, CarriesSame

LEMMA CarriesLoses ==
    ASSUME NEW v \in Seq(Mark), NEW w \in Seq(Mark), NEW x, Loses(v, w, x)
    PROVE  Carries(v, w, {x}) /\ Carries(v, w, {})
<1>1. /\ Len(v) \in Nat /\ Len(w) \in Nat /\ x \in 1 .. Len(v) /\ Len(w) = Len(v) - 1
      /\ \A i \in 1 .. Len(w) : w[i] = IF i < x THEN v[i] ELSE v[i + 1]
  BY DEF Loses
<1> DEFINE g == [i \in Msgs(w) |-> IF i < x THEN i ELSE i + 1]
<1>2. ASSUME NEW i \in Msgs(w)
      PROVE  (IF i < x THEN i ELSE i + 1) \in Msgs(v) \ {x}
  <2>1. i \in 1 .. Len(w) /\ w[i].msg_type = "MESSAGE_HEADER"
    BY DEF Msgs
  <2>2. CASE i < x
    <3>1. i \in 1 .. Len(v) /\ i # x
      BY <1>1, <2>1, <2>2
    <3> QED
      BY <1>1, <2>1, <2>2, <3>1 DEF Msgs
  <2>3. CASE ~ i < x
    <3>1. PICK j \in 1 .. Len(v) : j = i + 1 /\ j # x
      BY <1>1, <2>1, <2>3
    <3>2. v[j].msg_type = "MESSAGE_HEADER"
      BY <1>1, <2>1, <2>3, <3>1
    <3> QED
      BY <2>3, <3>1, <3>2 DEF Msgs
  <2> QED
    BY <2>2, <2>3
<1>3. g \in [Msgs(w) -> Msgs(v) \ {x}] /\ g \in [Msgs(w) -> Msgs(v) \ {}]
  BY <1>2
<1>4. \A i, j \in Msgs(w) : g[i] = g[j] => i = j
  <2>1. \A i \in Msgs(w) : i \in Nat
    BY DEF Msgs
  <2> QED
    BY <1>1, <2>1
<1> QED
  BY <1>3, <1>4 DEF Carries

LEMMA CarriesPadded ==
    ASSUME NEW v \in Seq(Mark), NEW w \in Seq(Mark), NEW x, Loses(w, v, x), w[x] = Blank
    PROVE  Carries(v, w, {})
<1>1. /\ Len(v) \in Nat /\ Len(w) \in Nat /\ x \in 1 .. Len(w) /\ Len(v) = Len(w) - 1
      /\ \A i \in 1 .. Len(v) : v[i] = IF i < x THEN w[i] ELSE w[i + 1]
  BY DEF Loses
<1> DEFINE g == [i \in Msgs(w) |-> IF i < x THEN i ELSE i - 1]
<1>2. ASSUME NEW i \in Msgs(w)
      PROVE  i # x /\ (IF i < x THEN i ELSE i - 1) \in Msgs(v)
  <2>1. i \in 1 .. Len(w) /\ w[i].msg_type = "MESSAGE_HEADER"
    BY DEF Msgs
  <2>2. i # x
    BY <2>1, KindOK
  <2>3. CASE i < x
    <3>1. i \in 1 .. Len(v)
      BY <1>1, <2>1, <2>3
    <3> QED
      BY <1>1, <2>1, <2>2, <2>3, <3>1 DEF Msgs
  <2>4. CASE ~ i < x
    <3>1. PICK j \in 1 .. Len(v) : i = j + 1 /\ j = i - 1 /\ ~ j < x
      <4>1. i - 1 \in 1 .. Len(v) /\ i = (i - 1) + 1 /\ ~ i - 1 < x
        BY <1>1, <2>1, <2>2, <2>4
      <4> QED
        BY <4>1
    <3>2. v[j].msg_type = "MESSAGE_HEADER"
      BY <1>1, <2>1, <3>1
    <3> QED
      BY <2>2, <2>4, <3>1, <3>2 DEF Msgs
  <2> QED
    BY <2>3, <2>4
<1>3. g \in [Msgs(w) -> Msgs(v) \ {}]
  BY <1>2
<1>4. \A i, j \in Msgs(w) : g[i] = g[j] => i = j
  <2>1. \A i \in Msgs(w) : i \in Nat /\ i # x
    BY <1>2 DEF Msgs
  <2> QED
    BY <1>1, <2>1
<1> QED
  BY <1>3, <1>4 DEF Carries

(* The messages in flight, without those in A. *)
LEMMA FlyFewer ==
    ASSUME NEW v \in [Conn -> Seq(Mark)], NEW w \in [Conn -> Seq(Mark)], NEW A,
           \A c \in Conn : Carries(v[c], w[c], {k \in Nat : <<c, k>> \in A}),
           IsFiniteSet(Fly(v) \ A)
    PROVE  IsFiniteSet(Fly(w)) /\ Cardinality(Fly(w)) <= Cardinality(Fly(v) \ A)
<1> DEFINE G(c) == CHOOSE g \in [Msgs(w[c]) -> Msgs(v[c]) \ {k \in Nat : <<c, k>> \in A}] :
                      \A i, j \in Msgs(w[c]) : g[i] = g[j] => i = j
           f    == [p \in Fly(w) |-> <<p[1], G(p[1])[p[2]]>>]
<1>1. \A c \in Conn : /\ G(c) \in [Msgs(w[c]) -> Msgs(v[c]) \ {k \in Nat : <<c, k>> \in A}]
                      /\ \A i, j \in Msgs(w[c]) : G(c)[i] = G(c)[j] => i = j
  BY DEF Carries
<1> HIDE DEF G
<1>2. \A p \in Fly(w) : \E c \in Conn, k \in Nat : p = <<c, k>> /\ k \in Msgs(w[c])
  BY DEF Fly, Msgs
<1>3. \A c \in Conn : \A k \in Msgs(v[c]) : k \in Nat /\ <<c, k>> \in Fly(v)
  BY DEF Fly, Msgs
<1>4. f \in [Fly(w) -> Fly(v) \ A]
  <2> SUFFICES ASSUME NEW p \in Fly(w) PROVE <<p[1], G(p[1])[p[2]]>> \in Fly(v) \ A
    OBVIOUS
  <2>1. PICK c \in Conn, k \in Nat : p = <<c, k>> /\ k \in Msgs(w[c])
    BY <1>2
  <2>2. PICK l \in Msgs(v[c]) : l = G(c)[k] /\ l \notin {j \in Nat : <<c, j>> \in A}
    BY <1>1, <2>1
  <2>3. <<c, l>> \in Fly(v) /\ <<c, l>> \notin A
    BY <1>3, <2>2
  <2> QED
    BY <2>1, <2>2, <2>3
<1>5. ASSUME NEW x \in Fly(w), NEW y \in Fly(w), f[x] = f[y] PROVE x = y
  <2>1. PICK c \in Conn, k \in Nat : x = <<c, k>> /\ k \in Msgs(w[c])
    BY <1>2
  <2>2. PICK d \in Conn, l \in Nat : y = <<d, l>> /\ l \in Msgs(w[d])
    BY <1>2
  <2>3. f[x] = <<c, G(c)[k]>> /\ f[y] = <<d, G(d)[l]>>
    BY <2>1, <2>2
  <2> HIDE DEF f
  <2>4. c = d /\ G(c)[k] = G(d)[l]
    <3>1. <<c, G(c)[k]>> = <<d, G(d)[l]>>
      BY <1>5, <2>3, Zenon
    <3>2. \A i, j, m, n : <<i, j>> = <<m, n>> => i = m /\ j = n
      OBVIOUS
    <3> QED
      BY <3>1, <3>2, Zenon
  <2>5. k = l
    BY <1>1, <2>1, <2>2, <2>4
  <2> QED
    BY <2>1, <2>2, <2>4, <2>5
<1> HIDE DEF f
<1> QED
  BY <1>4, <1>5, Fewer

LEMMA FlyNoMore ==
    ASSUME NEW v \in [Conn -> Seq(Mark)], NEW w \in [Conn -> Seq(Mark)], NEW u \in Int,
           \A c \in Conn : Carries(v[c], w[c], {}), InFlight(v, u)
    PROVE  InFlight(w, u)
<1>1. IsFiniteSet(Fly(v)) /\ Cardinality(Fly(v)) <= u /\ Cardinality(Fly(v)) \in Nat
  BY FS_CardinalityType DEF InFlight
<1>2. Fly(v) \ {} = Fly(v) /\ \A c \in Conn : {k \in Nat : <<c, k>> \in {}} = {}
  OBVIOUS
<1>3. \A c \in Conn : Carries(v[c], w[c], {k \in Nat : <<c, k>> \in {}})
  BY <1>2
<1>4. IsFiniteSet(Fly(w)) /\ Cardinality(Fly(w)) <= Cardinality(Fly(v) \ {})
  BY <1>1, <1>2, <1>3, FlyFewer
<1>5. Cardinality(Fly(w)) \in Nat /\ Cardinality(Fly(w)) <= Cardinality(Fly(v))
  BY <1>2, <1>4, FS_CardinalityType
<1> QED
  BY <1>1, <1>4, <1>5 DEF InFlight

LEMMA FlyOneLess ==
    ASSUME NEW v \in [Conn -> Seq(Mark)], NEW w \in [Conn -> Seq(Mark)], NEW u \in Int,
           NEW d \in Conn, NEW x \in Msgs(v[d]),
           \A c \in Conn : Carries(v[c], w[c], {}), Carries(v[d], w[d], {x}), InFlight(v, u)
    PROVE  InFlight(w, u - 1)
<1> DEFINE A == {<<d, x>>}
<1>1. IsFiniteSet(Fly(v)) /\ Cardinality(Fly(v)) <= u /\ Cardinality(Fly(v)) \in Nat
  BY FS_CardinalityType DEF InFlight
<1>2. x \in Nat /\ <<d, x>> \in Fly(v)
  BY DEF Fly, Msgs
<1>3. IsFiniteSet(Fly(v) \ A) /\ Cardinality(Fly(v) \ A) = Cardinality(Fly(v)) - 1
  BY <1>1, <1>2, FS_RemoveElement
<1>4. \A c \in Conn : Carries(v[c], w[c], {k \in Nat : <<c, k>> \in A})
  <2> SUFFICES ASSUME NEW c \in Conn PROVE Carries(v[c], w[c], {k \in Nat : <<c, k>> \in A})
    OBVIOUS
  <2>1. CASE c = d
    <3>1. {k \in Nat : <<c, k>> \in A} = {x}
      BY <1>2, <2>1
    <3> QED
      BY <2>1, <3>1
  <2>2. CASE c # d
    <3>1. {k \in Nat : <<c, k>> \in A} = {}
      BY <2>2
    <3> QED
      BY <3>1
  <2> QED
    BY <2>1, <2>2
<1> HIDE DEF A
<1>5. IsFiniteSet(Fly(w)) /\ Cardinality(Fly(w)) <= Cardinality(Fly(v) \ A)
  BY <1>3, <1>4, FlyFewer
<1>6. Cardinality(Fly(w)) \in Nat
  BY <1>5, FS_CardinalityType
<1> QED
  BY <1>1, <1>3, <1>5, <1>6 DEF InFlight

LEMMA FlyOneMore ==
    ASSUME NEW v \in [Conn -> Seq(Mark)], NEW w \in [Conn -> Seq(Mark)], NEW u \in Int,
           NEW d \in Conn, NEW e,
           \A c \in Conn : c # d => w[c] = v[c],
           w[d] = v[d] \/ Longer(v[d], w[d], e), InFlight(v, u)
    PROVE  InFlight(w, u + 1)
<1>0. Len(v[d]) \in Nat
  OBVIOUS
<1> DEFINE x == <<d, Len(v[d]) + 1>>
           T == Fly(v) \cup {x}
<1>1. IsFiniteSet(Fly(v)) /\ Cardinality(Fly(v)) <= u /\ Cardinality(Fly(v)) \in Nat
  BY FS_CardinalityType DEF InFlight
<1>2. /\ IsFiniteSet(T)
      /\ Cardinality(T) = IF x \in Fly(v) THEN Cardinality(Fly(v)) ELSE Cardinality(Fly(v)) + 1
  BY <1>1, FS_AddElement
<1>3. Fly(w) \in SUBSET T
  <2> SUFFICES ASSUME NEW p \in Fly(w) PROVE p \in T
    OBVIOUS
  <2>1. PICK c \in Conn, k \in Nat : p = <<c, k>> /\ k \in 1 .. Len(w[c])
                                      /\ w[c][k].msg_type = "MESSAGE_HEADER"
    BY DEF Fly
  <2>2. CASE w[c] = v[c]
    <3>1. <<c, k>> \in Fly(v)
      BY <2>1, <2>2 DEF Fly
    <3> QED
      BY <2>1, <3>1
  <2>3. CASE w[c] # v[c]
    <3>1. c = d /\ Longer(v[d], w[d], e)
      BY <2>3
    <3>2. Len(w[d]) = Len(v[d]) + 1 /\ \A i \in 1 .. Len(v[d]) : w[d][i] = v[d][i]
      BY <3>1 DEF Longer
    <3>3. CASE k = Len(v[d]) + 1
      BY <2>1, <3>1, <3>3
    <3>4. CASE k # Len(v[d]) + 1
      <4>1. k \in 1 .. Len(v[d])
        BY <1>0, <2>1, <3>1, <3>2, <3>4
      <4>2. <<c, k>> \in Fly(v)
        BY <2>1, <3>1, <3>2, <4>1 DEF Fly
      <4> QED
        BY <2>1, <4>2
    <3> QED
      BY <3>3, <3>4
  <2> QED
    BY <2>2, <2>3
<1> HIDE DEF T, x
<1>4. IsFiniteSet(Fly(w)) /\ Cardinality(Fly(w)) <= Cardinality(T)
  BY <1>2, <1>3, FS_Subset
<1>5. Cardinality(Fly(w)) \in Nat /\ Cardinality(T) \in Nat
  BY <1>2, <1>4, FS_CardinalityType
<1> QED
  BY <1>1, <1>2, <1>4, <1>5 DEF InFlight

Single(S) == \E i : S = {i}

LEMMA NewsLonger ==
    ASSUME NEW v \in Seq(Mark), NEW w \in Seq(Mark), NEW e, Longer(v, w, e)
    PROVE  News(w) = IF e.msg_type = "SEE_ALL_IN_WAITING_STATE"
                     THEN News(v) \cup {Len(v) + 1} ELSE News(v)
<1>1. /\ Len(v) \in Nat /\ Len(w) = Len(v) + 1
      /\ \A i \in 1 .. Len(v) : w[i] = v[i]
      /\ w[Len(v) + 1] = e
  BY DEF Longer
<1>2. \A i : i \in 1 .. Len(w) <=> i \in 1 .. Len(v) \/ i = Len(v) + 1
  BY <1>1
<1>3. \A i : i \in News(w) <=>
         i \in News(v) \/ (i = Len(v) + 1 /\ e.msg_type = "SEE_ALL_IN_WAITING_STATE")
  <2> SUFFICES ASSUME NEW i
               PROVE  i \in News(w) <=>
                        i \in News(v) \/ (i = Len(v) + 1 /\ e.msg_type = "SEE_ALL_IN_WAITING_STATE")
    OBVIOUS
  <2>1. CASE i \in 1 .. Len(v)
    <3>1. i # Len(v) + 1 /\ i \in 1 .. Len(w) /\ w[i] = v[i]
      BY <1>1, <2>1
    <3> QED
      BY <2>1, <3>1 DEF News
  <2>2. CASE i = Len(v) + 1
    <3>1. i \notin 1 .. Len(v) /\ i \in 1 .. Len(w) /\ w[i] = e
      BY <1>1, <2>2
    <3> QED
      BY <2>2, <3>1 DEF News
  <2>3. CASE i \notin 1 .. Len(v) /\ i # Len(v) + 1
    BY <1>2, <2>3 DEF News
  <2> QED
    BY <2>1, <2>2, <2>3
<1> QED
  BY <1>3

LEMMA NewsMove ==
    ASSUME NEW v \in Seq(Mark), NEW w \in Seq(Mark), NEW x, Loses(v, w, x)
    PROVE  /\ \A i \in News(w) : i \in Nat /\ (IF i < x THEN i ELSE i + 1) \in News(v) \ {x}
           /\ \A j \in News(v) \ {x} : j \in Nat /\ (IF j < x THEN j ELSE j - 1) \in News(w)
           /\ x \in Nat
<1>1. /\ Len(v) \in Nat /\ Len(w) \in Nat /\ x \in 1 .. Len(v) /\ Len(w) = Len(v) - 1
      /\ \A i \in 1 .. Len(w) : w[i] = IF i < x THEN v[i] ELSE v[i + 1]
  BY DEF Loses
<1>2. ASSUME NEW i \in News(w)
      PROVE  i \in Nat /\ (IF i < x THEN i ELSE i + 1) \in News(v) \ {x}
  <2>1. i \in 1 .. Len(w) /\ w[i].msg_type = "SEE_ALL_IN_WAITING_STATE"
    BY DEF News
  <2>2. CASE i < x
    <3>1. i \in 1 .. Len(v) /\ i # x
      BY <1>1, <2>1, <2>2
    <3> QED
      BY <1>1, <2>1, <2>2, <3>1 DEF News
  <2>3. CASE ~ i < x
    <3>1. PICK j \in 1 .. Len(v) : j = i + 1 /\ j # x
      BY <1>1, <2>1, <2>3
    <3>2. v[j].msg_type = "SEE_ALL_IN_WAITING_STATE"
      BY <1>1, <2>1, <2>3, <3>1
    <3> QED
      BY <2>1, <2>3, <3>1, <3>2 DEF News
  <2> QED
    BY <2>2, <2>3
<1>3. ASSUME NEW j \in News(v) \ {x}
      PROVE  j \in Nat /\ (IF j < x THEN j ELSE j - 1) \in News(w)
  <2>1. j \in 1 .. Len(v) /\ v[j].msg_type = "SEE_ALL_IN_WAITING_STATE" /\ j # x
    BY DEF News
  <2>2. CASE j < x
    <3>1. j \in 1 .. Len(w)
      BY <1>1, <2>1, <2>2
    <3> QED
      BY <1>1, <2>1, <2>2, <3>1 DEF News
  <2>3. CASE ~ j < x
    <3>1. PICK i \in 1 .. Len(w) : j = i + 1 /\ i = j - 1 /\ ~ i < x
      <4>1. j - 1 \in 1 .. Len(w) /\ j = (j - 1) + 1 /\ ~ j - 1 < x
        BY <1>1, <2>1, <2>3
      <4> QED
        BY <4>1
    <3>2. w[i].msg_type = "SEE_ALL_IN_WAITING_STATE"
      BY <1>1, <2>1, <3>1
    <3> QED
      BY <2>1, <2>3, <3>1, <3>2 DEF News
  <2> QED
    BY <2>2, <2>3
<1> QED
  BY <1>1, <1>2, <1>3

LEMMA NewsLoses ==
    ASSUME NEW v \in Seq(Mark), NEW w \in Seq(Mark), NEW x, Loses(v, w, x)
    PROVE  /\ x \notin News(v) => /\ News(v) = {} <=> News(w) = {}
                                  /\ Single(News(v)) <=> Single(News(w))
           /\ x \in News(v) /\ Single(News(v)) => News(w) = {}
<1>1. /\ \A i \in News(w) : i \in Nat /\ (IF i < x THEN i ELSE i + 1) \in News(v) \ {x}
      /\ \A j \in News(v) \ {x} : j \in Nat /\ (IF j < x THEN j ELSE j - 1) \in News(w)
      /\ x \in Nat
  BY NewsMove
<1>2. ASSUME x \notin News(v) PROVE News(v) = {} <=> News(w) = {}
  BY <1>1, <1>2
<1>3. ASSUME x \in News(v), NEW k, News(v) = {k} PROVE News(w) = {}
  <2>1. News(v) \ {x} = {}
    BY <1>3
  <2> QED
    BY <1>1, <2>1
<1>4. ASSUME x \notin News(v), NEW k, News(v) = {k} PROVE \E l : News(w) = {l}
  <2>1. k \in News(v) \ {x}
    BY <1>4
  <2>2. PICK l : l = (IF k < x THEN k ELSE k - 1) /\ l \in News(w) /\ k \in Nat
    BY <1>1, <2>1
  <2>3. ASSUME NEW i \in News(w) PROVE i = l
    <3>1. i \in Nat /\ (IF i < x THEN i ELSE i + 1) \in News(v) \ {x}
      BY <1>1
    <3>2. (IF i < x THEN i ELSE i + 1) = k
      BY <1>4, <3>1
    <3> QED
      BY <1>1, <2>2, <3>1, <3>2
  <2>4. News(w) = {l}
    BY <2>2, <2>3
  <2> QED
    BY <2>4
<1>5. ASSUME x \notin News(v), NEW k, News(w) = {k} PROVE \E l : News(v) = {l}
  <2>1. k \in News(w)
    BY <1>5
  <2>2. PICK l : l = (IF k < x THEN k ELSE k + 1) /\ l \in News(v) /\ k \in Nat
    BY <1>1, <2>1
  <2>3. ASSUME NEW j \in News(v) PROVE j = l
    <3>0. j \in News(v) \ {x}
      BY <1>5
    <3>1. j \in Nat /\ j # x /\ (IF j < x THEN j ELSE j - 1) \in News(w)
      BY <1>1, <3>0
    <3>2. (IF j < x THEN j ELSE j - 1) = k
      BY <1>5, <3>1
    <3> QED
      BY <1>1, <2>2, <3>1, <3>2
  <2>4. News(v) = {l}
    BY <2>2, <2>3
  <2> QED
    BY <2>4
<1> QED
  BY <1>2, <1>3, <1>4, <1>5 DEF Single

-----------------------------------------------------------------------------
LEMMA FreshLonger ==
    ASSUME NEW v \in Seq(Mark), NEW w \in Seq(Mark), NEW e, Longer(v, w, e), NEW c, NEW k, NEW q,
           FreshWord(v, c, k, q), Fresh(e, c, k, q)
    PROVE  FreshWord(w, c, k, q)
<1>1. /\ Len(v) \in Nat /\ Len(w) = Len(v) + 1
      /\ \A i \in 1 .. Len(v) : w[i] = v[i]
      /\ w[Len(v) + 1] = e
  BY DEF Longer
<1> SUFFICES ASSUME NEW i \in 1 .. Len(w) PROVE Fresh(w[i], c, k, q)
  BY DEF FreshWord
<1>2. CASE i = Len(v) + 1
  BY <1>1, <1>2
<1>3. CASE i # Len(v) + 1
  <2>1. i \in 1 .. Len(v)
    BY <1>1, <1>3
  <2> QED
    BY <1>1, <2>1 DEF FreshWord
<1> QED
  BY <1>2, <1>3

LEMMA FreshLoses ==
    ASSUME NEW v \in Seq(Mark), NEW w \in Seq(Mark), NEW x, Loses(v, w, x), NEW c, NEW k, NEW q,
           FreshWord(v, c, k, q)
    PROVE  FreshWord(w, c, k, q)
<1>1. /\ Len(v) \in Nat /\ Len(w) \in Nat /\ x \in 1 .. Len(v) /\ Len(w) = Len(v) - 1
      /\ \A i \in 1 .. Len(w) : w[i] = IF i < x THEN v[i] ELSE v[i + 1]
  BY DEF Loses
<1> SUFFICES ASSUME NEW i \in 1 .. Len(w) PROVE Fresh(w[i], c, k, q)
  BY DEF FreshWord
<1>2. i \in 1 .. Len(v) /\ i + 1 \in 1 .. Len(v)
  BY <1>1
<1>3. Fresh(v[i], c, k, q) /\ Fresh(v[i + 1], c, k, q)
  BY <1>2 DEF FreshWord
<1> QED
  BY <1>1, <1>3

LEMMA BlankFresh == \A c, k, q : Fresh(Blank, c, k, q)
BY KindOK DEF Fresh

LEMMA FreshPadded ==
    ASSUME NEW v \in Seq(Mark), NEW w \in Seq(Mark), NEW x, Loses(w, v, x), w[x] = Blank,
           NEW c, NEW k, NEW q, FreshWord(v, c, k, q)
    PROVE  FreshWord(w, c, k, q)
<1>1. /\ Len(v) \in Nat /\ Len(w) \in Nat /\ x \in 1 .. Len(w) /\ Len(v) = Len(w) - 1
      /\ \A i \in 1 .. Len(v) : v[i] = IF i < x THEN w[i] ELSE w[i + 1]
  BY DEF Loses
<1> SUFFICES ASSUME NEW i \in 1 .. Len(w) PROVE Fresh(w[i], c, k, q)
  BY DEF FreshWord
<1>2. CASE i < x
  <2>1. i \in 1 .. Len(v)
    BY <1>1, <1>2
  <2> QED
    BY <1>1, <1>2, <2>1 DEF FreshWord
<1>3. CASE i = x
  BY <1>3, BlankFresh
<1>4. CASE i > x
  <2>1. PICK j \in 1 .. Len(v) : i = j + 1 /\ ~ j < x
    <3>1. i - 1 \in 1 .. Len(v) /\ i = (i - 1) + 1 /\ ~ i - 1 < x
      BY <1>1, <1>4
    <3> QED
      BY <3>1
  <2> QED
    BY <1>1, <2>1 DEF FreshWord
<1> QED
  BY <1>1, <1>2, <1>3, <1>4

-----------------------------------------------------------------------------
(* A word only gets or loses a blank. *)
Harmless(v, w) ==
    \/ w = v
    \/ Longer(v, w, Blank)
    \/ \E x : Loses(v, w, x) /\ v[x] = Blank
    \/ \E x : Loses(w, v, x) /\ w[x] = Blank

LEMMA HarmlessOK ==
    ASSUME NEW v \in Seq(Mark), NEW w \in Seq(Mark), Harmless(v, w)
    PROVE  /\ Carries(v, w, {})
           /\ News(v) = {} <=> News(w) = {}
           /\ Single(News(v)) => Single(News(w))
           /\ \A c, k, q : FreshWord(v, c, k, q) => FreshWord(w, c, k, q)
           /\ \A first, last, r : Path(v, first, last, r) => Path(w, first, last, r)
<1>0. Blank.msg_type = "blank"
  BY KindOK
<1>1. CASE w = v
  <2>1. Msgs(w) \subseteq Msgs(v) \ {}
    BY <1>1
  <2>2. Carries(v, w, {})
    BY <2>1, CarriesSame
  <2> QED
    BY <1>1, <2>2
<1>2. CASE Longer(v, w, Blank)
  <2>1. Carries(v, w, {})
    BY <1>0, <1>2, CarriesLonger
  <2>2. News(w) = News(v)
    BY <1>0, <1>2, NewsLonger
  <2>3. \A c, k, q : FreshWord(v, c, k, q) => FreshWord(w, c, k, q)
    BY <1>2, BlankFresh, FreshLonger
  <2>4. ASSUME NEW first, NEW last, NEW r, Path(v, first, last, r) PROVE Path(w, first, last, r)
    <3>1. last \in Stands
      BY <2>4, PathType
    <3>2. Follows(last, Blank.msg_type, last, r)
      BY <1>0 DEF Follows, Reports
    <3> QED
      BY <1>2, <2>4, <3>1, <3>2, PathLonger
  <2> QED
    BY <2>1, <2>2, <2>3, <2>4
<1>3. ASSUME NEW x, Loses(v, w, x), v[x] = Blank
      PROVE  /\ Carries(v, w, {})
             /\ News(v) = {} <=> News(w) = {}
             /\ Single(News(v)) => Single(News(w))
             /\ \A c, k, q : FreshWord(v, c, k, q) => FreshWord(w, c, k, q)
             /\ \A first, last, r : Path(v, first, last, r) => Path(w, first, last, r)
  <2>1. Carries(v, w, {})
    BY <1>3, CarriesLoses
  <2>2. x \notin News(v)
    BY <1>0, <1>3 DEF News
  <2>3. (News(v) = {} <=> News(w) = {}) /\ (Single(News(v)) <=> Single(News(w)))
    BY <1>3, <2>2, NewsLoses
  <2>4. \A c, k, q : FreshWord(v, c, k, q) => FreshWord(w, c, k, q)
    BY <1>3, FreshLoses
  <2>5. \A first, last, r : Path(v, first, last, r) => Path(w, first, last, r)
    BY <1>3, PathKept
  <2> QED
    BY <2>1, <2>3, <2>4, <2>5
<1>4. ASSUME NEW x, Loses(w, v, x), w[x] = Blank
      PROVE  /\ Carries(v, w, {})
             /\ News(v) = {} <=> News(w) = {}
             /\ Single(News(v)) => Single(News(w))
             /\ \A c, k, q : FreshWord(v, c, k, q) => FreshWord(w, c, k, q)
             /\ \A first, last, r : Path(v, first, last, r) => Path(w, first, last, r)
  <2>1. Carries(v, w, {})
    BY <1>4, CarriesPadded
  <2>2. x \notin News(w)
    BY <1>0, <1>4 DEF News
  <2>3. (News(v) = {} <=> News(w) = {}) /\ (Single(News(v)) <=> Single(News(w)))
    BY <1>4, <2>2, NewsLoses
  <2>4. \A c, k, q : FreshWord(v, c, k, q) => FreshWord(w, c, k, q)
    BY <1>4, FreshPadded
  <2>5. \A first, last, r : Path(v, first, last, r) => Path(w, first, last, r)
    BY <1>4, PathPadded
  <2> QED
    BY <2>1, <2>3, <2>4, <2>5
<1> QED
  BY <1>1, <1>2, <1>3, <1>4 DEF Harmless

LEMMA FreshWeaker ==
    ASSUME NEW w, NEW c, NEW k, NEW q, NEW r, FreshWord(w, c, k, q), q => r
    PROVE  FreshWord(w, c, k, r)
BY DEF FreshWord, Fresh

LEMMA EmptyWord ==
    /\ <<>> \in Seq(Mark) /\ News(<<>>) = {} /\ Msgs(<<>>) = {}
    /\ \A c, k, q : FreshWord(<<>>, c, k, q)
    /\ \A v : Carries(v, <<>>, {})
<1>1. <<>> \in Seq(Mark) /\ Len(<<>>) = 0 /\ 1 .. 0 = {}
  OBVIOUS
<1>2. News(<<>>) = {} /\ Msgs(<<>>) = {}
  BY <1>1 DEF News, Msgs
<1>3. \A c, k, q : FreshWord(<<>>, c, k, q)
  BY <1>1 DEF FreshWord
<1>4. \A v : Msgs(<<>>) \subseteq Msgs(v) \ {}
  BY <1>2
<1>5. \A v : Carries(v, <<>>, {})
  BY <1>4, CarriesSame
<1> QED
  BY <1>1, <1>2, <1>3, <1>5

(* What was written is at the end of the words. *)
Wrote(v, w, n, targets, e) ==
    \A c \in Conn : IF c[1] = n /\ c[2] \in targets /\ ~Ended(c[2])
                    THEN Longer(v[c], w[c], e) ELSE w[c] = v[c]

LEMMA WordsWritten ==
    ASSUME NEW s, StreamsOK(s), NEW b, BuffersOK(b), NEW n \in Node, NEW targets, NEW msg,
           \A t \in targets : msg \in Wire(t)
    PROVE  Wrote(Words(s, b), Words(Written(s, n, targets, msg), b), n, targets, Kind(msg))
<1> SUFFICES ASSUME NEW c \in Conn
             PROVE  IF c[1] = n /\ c[2] \in targets /\ ~Ended(c[2])
                    THEN Longer(Words(s, b)[c], Words(Written(s, n, targets, msg), b)[c], Kind(msg))
                    ELSE Words(Written(s, n, targets, msg), b)[c] = Words(s, b)[c]
  BY DEF Wrote
<1>1. c[2] \in Node
  BY ConnFacts
<1>2. s[c] \in Seq(Wire(c[2])) /\ b[c[2]] \in Seq(Queued(c[2]))
  BY <1>1 DEF StreamsOK, BuffersOK
<1>3. /\ Words(s, b)[c] = Word(s[c], b[c[2]], c[1])
      /\ Words(Written(s, n, targets, msg), b)[c] =
            Word(Written(s, n, targets, msg)[c], b[c[2]], c[1])
  BY DEF Words
<1>4. CASE c[1] = n /\ c[2] \in targets /\ ~Ended(c[2])
  <2>1. Written(s, n, targets, msg)[c] = Append(s[c], msg) /\ msg \in Wire(c[2])
    BY <1>4 DEF Written
  <2>2. Longer(Word(s[c], b[c[2]], c[1]), Word(Append(s[c], msg), b[c[2]], c[1]), Kind(msg))
    BY <1>2, <2>1, WordWritten
  <2> QED
    BY <1>3, <1>4, <2>1, <2>2
<1>5. CASE ~ (c[1] = n /\ c[2] \in targets /\ ~Ended(c[2]))
  <2>1. Written(s, n, targets, msg)[c] = s[c]
    BY <1>5 DEF Written
  <2> QED
    BY <1>3, <1>5, <2>1
<1> QED
  BY <1>4, <1>5

LEMMA WordsForgotten ==
    ASSUME NEW s, StreamsOK(s), NEW b, BuffersOK(b), NEW n \in Node, NEW c \in Conn
    PROVE  Words(Forgotten(s, n), [b EXCEPT ![n] = <<>>])[c] =
              IF c[2] = n THEN <<>> ELSE Words(s, b)[c]
<1>1. c[2] \in Node /\ n \in DOMAIN b /\ c[2] \in DOMAIN b
  BY ConnFacts DEF BuffersOK
<1>2. Words(Forgotten(s, n), [b EXCEPT ![n] = <<>>])[c] =
         Word(Forgotten(s, n)[c], [b EXCEPT ![n] = <<>>][c[2]], c[1])
  BY DEF Words
<1>3. CASE c[2] = n
  <2>1. Forgotten(s, n)[c] = <<>> /\ [b EXCEPT ![n] = <<>>][c[2]] = <<>>
    BY <1>1, <1>3 DEF Forgotten
  <2> QED
    BY <1>2, <1>3, <2>1, WordEmpty
<1>4. CASE c[2] # n
  <2>1. Forgotten(s, n)[c] = s[c] /\ [b EXCEPT ![n] = <<>>][c[2]] = b[c[2]]
    BY <1>1, <1>4 DEF Forgotten
  <2> QED
    BY <1>2, <1>4, <2>1 DEF Words
<1> QED
  BY <1>3, <1>4

LEMMA NextWords ==
    ASSUME TypeOK'
    PROVE  StreamsOK(stream') /\ BuffersOK(msg_buffer') /\ words' \in [Conn -> Seq(Mark)]
<1>1. StreamsOK(stream') /\ BuffersOK(msg_buffer')
  BY DEF TypeOK, QueuesOK, BuffersOK, StreamsOK
<1>2. Words(stream', msg_buffer') \in [Conn -> Seq(Mark)]
  BY <1>1, WordsOK
<1> QED
  BY <1>1, <1>2 DEF words

-----------------------------------------------------------------------------
(* A change of a connection's word that the barrier does not notice. *)
Mild(v, w, c) ==
    /\ Carries(v, w, {})
    /\ News(v) = {} <=> News(w) = {}
    /\ Single(News(v)) => Single(News(w))
    /\ \A k, q : FreshWord(v, c, k, q) => FreshWord(w, c, k, q)

SamePaths(v, w) == \A first, last, r : Path(v, first, last, r) => Path(w, first, last, r)

LEMMA HarmlessMild ==
    ASSUME NEW v \in Seq(Mark), NEW w \in Seq(Mark), Harmless(v, w), NEW c
    PROVE  Mild(v, w, c) /\ SamePaths(v, w)
BY HarmlessOK DEF Mild, SamePaths

LEMMA LongerMild ==
    ASSUME NEW v \in Seq(Mark), NEW w \in Seq(Mark), NEW e, Longer(v, w, e), NEW c,
           e.msg_type \notin {"MESSAGE_HEADER", "SEE_ALL_IN_WAITING_STATE"},
           \A k, q : Fresh(e, c, k, q)
    PROVE  Mild(v, w, c)
<1>1. Carries(v, w, {})
  BY CarriesLonger
<1>2. News(w) = News(v)
  BY NewsLonger
<1>3. \A k, q : FreshWord(v, c, k, q) => FreshWord(w, c, k, q)
  BY FreshLonger
<1> QED
  BY <1>1, <1>2, <1>3 DEF Mild

LEMMA LosesMild ==
    ASSUME NEW v \in Seq(Mark), NEW w \in Seq(Mark), NEW x, Loses(v, w, x), NEW c,
           v[x].msg_type # "SEE_ALL_IN_WAITING_STATE"
    PROVE  Mild(v, w, c)
<1>1. Carries(v, w, {})
  BY CarriesLoses
<1>2. x \notin News(v)
  BY DEF News
<1>3. (News(v) = {} <=> News(w) = {}) /\ (Single(News(v)) <=> Single(News(w)))
  BY <1>2, NewsLoses
<1>4. \A k, q : FreshWord(v, c, k, q) => FreshWord(w, c, k, q)
  BY FreshLoses
<1> QED
  BY <1>1, <1>3, <1>4 DEF Mild

LEMMA CurrentKept ==
    ASSUME current_epoch'[0] = current_epoch[0], Active' \subseteq Active,
           \A c \in Conn : FreshWord(words'[c], c, current_epoch[0], Active = {}),
           \A n \in Peers(0) : 0 \in terminated'[n] => Active = {}
    PROVE  Current'
<1>1. Active = {} => Active' = {}
  OBVIOUS
<1>2. \A c \in Conn : FreshWord(words'[c], c, current_epoch'[0], Active' = {})
  <2> SUFFICES ASSUME NEW c \in Conn
               PROVE  FreshWord(words'[c], c, current_epoch'[0], Active' = {})
    OBVIOUS
  <2>1. FreshWord(words'[c], c, current_epoch[0], Active' = {})
    BY <1>1, FreshWeaker
  <2> QED
    BY <2>1
<1>3. \A n \in Peers(0) : 0 \in terminated'[n] => Active' = {}
  BY <1>1
<1> QED
  BY <1>2, <1>3 DEF Current

LEMMA InStepKept ==
    ASSUME NEW k, NEW e, NEW p, NEW S, NEW T, InStep(k, e, p, S), S = {} <=> T = {},
           Single(S) => Single(T)
    PROVE  InStep(k, e, p, T)
BY DEF InStep, Single

LEMMA LeadsKept ==
    ASSUME NEW b \in Peers(0), NEW first, Leads(b, first),
           SamePaths(words[<<b, 0>>], words'[<<b, 0>>]),
           b \in Active' => /\ pc'[b] = pc[b]
                            /\ News(words[<<0, b>>]) = {} <=> News(words'[<<0, b>>]) = {}
    PROVE  Leads(b, first)'
<1>1. PICK last \in Stands : /\ Path(words[<<b, 0>>], first, last, Receiver(b))
                             /\ Standing(pc[b], News(words[<<0, b>>]), last)
  BY DEF Leads
<1>2. Path(words'[<<b, 0>>], first, last, Receiver(b))
  BY <1>1 DEF SamePaths
<1>3. Standing(pc'[b], News(words'[<<0, b>>]), last)
  <2>1. CASE b \in Active'
    BY <1>1, <2>1 DEF Standing
  <2>2. CASE b \notin Active'
    <3>1. pc'[b] # "running" /\ pc'[b] # "receiving"
      BY <2>2 DEF Active, Peers
    <3> QED
      BY <3>1 DEF Standing
  <2> QED
    BY <2>1, <2>2
<1> QED
  BY <1>2, <1>3 DEF Leads

(* A step that the barrier does not notice: nodes may have ended, and what was
   on its way to them is lost.  *)
LEMMA QuietStep ==
    ASSUME TypeOK, TypeOK', BarrierInv, NEW gone,
           \A c \in Conn : \/ c[2] \in gone /\ words'[c] = <<>>
                           \/ /\ Mild(words[c], words'[c], c)
                              /\ c[2] = 0 => SamePaths(words[c], words'[c]),
           \A n \in gone : n \in Node /\ Ended(n)',
           \A n \in Peers(0) : n \in Active' => pc'[n] = pc[n],
           Active' \subseteq Active, Ended(0) => Ended(0)',
           current_epoch' = current_epoch, unreceived' = unreceived,
           num_waiting_nodes' = num_waiting_nodes, terminated'[0] = terminated[0],
           \A n \in Peers(0) : 0 \in terminated'[n] => Active = {}
    PROVE  BarrierInv'
<1>1. words \in [Conn -> Seq(Mark)] /\ words' \in [Conn -> Seq(Mark)] /\ unreceived \in Int
  BY StateWords, NextWords DEF TypeOK
<1>2. 0 \in Node /\ \A n \in Peers(0) : n \in Node /\ n # 0 /\ <<0, n>> \in Conn /\ <<n, 0>> \in Conn
  BY NodeFacts DEF Peers
<1>3. \A c \in Conn : Carries(words[c], words'[c], {})
  <2> SUFFICES ASSUME NEW c \in Conn PROVE Carries(words[c], words'[c], {})
    OBVIOUS
  <2>1. CASE words'[c] = <<>>
    BY <2>1, EmptyWord
  <2>2. CASE Mild(words[c], words'[c], c)
    BY <2>2 DEF Mild
  <2> QED
    BY <2>1, <2>2
<1>4. InFlight(words', unreceived')
  <2>1. InFlight(words, unreceived)
    BY DEF BarrierInv
  <2>2. InFlight(words', unreceived)
    BY <1>1, <1>3, <2>1, FlyNoMore
  <2> QED
    BY <2>2
<1>5. Current'
  <2>1. ASSUME NEW c \in Conn PROVE FreshWord(words'[c], c, current_epoch[0], Active = {})
    <3>1. FreshWord(words[c], c, current_epoch[0], Active = {})
      BY DEF BarrierInv, Current
    <3>2. CASE words'[c] = <<>>
      BY <3>2, EmptyWord
    <3>3. CASE Mild(words[c], words'[c], c)
      BY <3>1, <3>3 DEF Mild
    <3> QED
      BY <3>2, <3>3
  <2> QED
    BY <2>1, CurrentKept
<1>6. ASSUME NEW n \in Peers(0), n \in Active'
      PROVE  Mild(words[<<0, n>>], words'[<<0, n>>], <<0, n>>)
  <2>1. PICK c \in Conn : c = <<0, n>>
    BY <1>2
  <2>2. c[2] = n /\ n \notin gone
    BY <1>6, <2>1 DEF Active, Ended
  <2>3. Mild(words[c], words'[c], c)
    BY <2>2
  <2> QED
    BY <2>1, <2>3
<1>7. UpToDate'
  <2> SUFFICES ASSUME NEW n \in Peers(0), n \in Active'
               PROVE  InStep(current_epoch'[n], current_epoch'[0], pc'[n], News(words'[<<0, n>>]))
    BY DEF UpToDate
  <2>1. InStep(current_epoch[n], current_epoch[0], pc[n], News(words[<<0, n>>]))
    BY DEF BarrierInv, UpToDate
  <2>2. /\ News(words[<<0, n>>]) = {} <=> News(words'[<<0, n>>]) = {}
        /\ Single(News(words[<<0, n>>])) => Single(News(words'[<<0, n>>]))
    BY <1>6 DEF Mild
  <2>3. InStep(current_epoch[n], current_epoch[0], pc[n], News(words'[<<0, n>>]))
    BY <2>1, <2>2, InStepKept
  <2>4. pc'[n] = pc[n]
    OBVIOUS
  <2> QED
    BY <2>3, <2>4
<1>8. Reporting'
  <2> SUFFICES ASSUME ~Ended(0)' PROVE \E at : Seen(at)'
    BY DEF Reporting
  <2>1. PICK at : Seen(at)
    BY DEF BarrierInv, Reporting
  <2>2. ASSUME NEW b \in Peers(0) PROVE Leads(b, at[b])'
    <3>1. Leads(b, at[b])
      BY <2>1 DEF Seen
    <3>2. PICK c \in Conn : c = <<b, 0>>
      BY <1>2
    <3>3. c[2] = 0 /\ 0 \notin gone
      BY <3>2
    <3>4. SamePaths(words[c], words'[c])
      BY <3>3
    <3>5. SamePaths(words[<<b, 0>>], words'[<<b, 0>>])
      BY <3>2, <3>4
    <3>6. b \in Active' => /\ pc'[b] = pc[b]
                           /\ News(words[<<0, b>>]) = {} <=> News(words'[<<0, b>>]) = {}
      BY <1>6 DEF Mild
    <3>7. PICK first : first = at[b]
      OBVIOUS
    <3>8. Leads(b, first)'
      BY <3>1, <3>5, <3>6, <3>7, LeadsKept
    <3> QED
      BY <3>7, <3>8
  <2>3. /\ at \in [Peers(0) -> Stands]
        /\ num_waiting_nodes' = Cardinality({b \in Peers(0) : at[b] = "W"})
        /\ \A b \in Peers(0) : b \in terminated'[0] => at[b] = "T"
    BY <2>1 DEF Seen
  <2>4. Seen(at)'
    BY <2>2, <2>3 DEF Seen
  <2> QED
    BY <2>4
<1> QED
  BY <1>4, <1>5, <1>7, <1>8 DEF BarrierInv

LEMMA WordsPopped ==
    ASSUME NEW s, StreamsOK(s), NEW b, BuffersOK(b), NEW n \in Node, NEW x \in DOMAIN b[n],
           NEW c \in Conn, c[2] = n, NEW d, d[n] = RemoveAt(b[n], x)
    PROVE  /\ Loses(Words(s, b)[c], Words(s, d)[c], x)
           /\ Words(s, b)[c][x] = IF b[n][x].sender_id = c[1] THEN Kind(b[n][x]) ELSE Blank
<1>1. /\ Words(s, b)[c] = Word(s[c], b[n], c[1])
      /\ Words(s, d)[c] = Word(s[c], RemoveAt(b[n], x), c[1])
  BY DEF Words
<1>2. s[c] \in Seq(Wire(n)) /\ b[n] \in Seq(Queued(n))
  BY DEF StreamsOK, BuffersOK
<1>3. /\ Loses(Word(s[c], b[n], c[1]), Word(s[c], RemoveAt(b[n], x), c[1]), x)
      /\ Word(s[c], b[n], c[1])[x] = IF b[n][x].sender_id = c[1] THEN Kind(b[n][x]) ELSE Blank
  BY <1>2, WordPopped
<1> QED
  BY <1>1, <1>3

LEMMA WordsRead ==
    ASSUME NEW s, StreamsOK(s), NEW b, BuffersOK(b), NEW m \in Node, NEW n \in Node, m # n,
           s[<<m, n>>] # <<>>, NEW e \in Queued(n), e.sender_id = m,
           Kind(e) = Kind(Head(s[<<m, n>>])),
           NEW t, t = [s EXCEPT ![<<m, n>>] = Tail(s[<<m, n>>])],
           NEW d, d = [b EXCEPT ![n] = Append(b[n], e)],
           NEW c \in Conn
    PROVE  Harmless(Words(s, b)[c], Words(t, d)[c])
<1>0. <<m, n>> \in Conn /\ <<m, n>> \in DOMAIN s /\ <<m, n>>[2] = n
  BY NodeFacts DEF StreamsOK
<1>1. c[2] \in Node /\ n \in DOMAIN b /\ c[2] \in DOMAIN b /\ c \in DOMAIN s
  BY ConnFacts DEF BuffersOK, StreamsOK
<1>2. /\ Words(s, b)[c] = Word(s[c], b[c[2]], c[1])
      /\ Words(t, d)[c] = Word(t[c], d[c[2]], c[1])
  BY DEF Words
<1>3. s[c] \in Seq(Wire(c[2])) /\ b[c[2]] \in Seq(Queued(c[2]))
  BY <1>1 DEF StreamsOK, BuffersOK
<1>4. CASE c = <<m, n>>
  <2>1. t[c] = Tail(s[c]) /\ c[2] = n /\ c[1] = m
    BY <1>0, <1>4
  <2>2. d[c[2]] = Append(b[n], e)
    BY <1>1, <2>1
  <2>3. s[c] \in Seq(Wire(n)) /\ b[n] \in Seq(Queued(n)) /\ s[c] # <<>> /\ Kind(e) = Kind(Head(s[c]))
    BY <1>3, <1>4, <2>1
  <2>4. Word(Tail(s[c]), Append(b[n], e), m) = Word(s[c], b[n], m)
    BY <2>3, WordRead
  <2> QED
    BY <1>2, <2>1, <2>2, <2>4 DEF Harmless
<1>5. CASE c # <<m, n>> /\ c[2] = n
  <2>1. t[c] = s[c] /\ d[c[2]] = Append(b[n], e) /\ c[1] # m
    BY <1>0, <1>1, <1>5, ConnFacts
  <2>2. s[c] \in Seq(Wire(n)) /\ b[n] \in Seq(Queued(n)) /\ e.sender_id # c[1]
    BY <1>3, <1>5, <2>1
  <2>3. /\ Loses(Word(s[c], Append(b[n], e), c[1]), Word(s[c], b[n], c[1]), Len(b[n]) + 1)
        /\ Word(s[c], Append(b[n], e), c[1])[Len(b[n]) + 1] = Blank
    BY <2>2, WordPadded
  <2>4. /\ Loses(Words(t, d)[c], Words(s, b)[c], Len(b[n]) + 1)
        /\ Words(t, d)[c][Len(b[n]) + 1] = Blank
    BY <1>2, <1>5, <2>1, <2>3
  <2> QED
    BY <2>4 DEF Harmless
<1>6. CASE c[2] # n
  <2>1. c # <<m, n>>
    BY <1>6
  <2>2. t[c] = s[c] /\ d[c[2]] = b[c[2]]
    BY <1>0, <1>1, <1>6, <2>1
  <2> QED
    BY <1>2, <2>2 DEF Harmless
<1> QED
  BY <1>4, <1>5, <1>6

-----------------------------------------------------------------------------
(* One node is somewhere else. *)
LEMMA NodeMoves ==
    ASSUME TypeOK, NEW n \in Node, NEW p \in Places, pc' = [pc EXCEPT ![n] = p], ~Ended(n),
           p \in {"running", "receiving"} => n \in Active
    PROVE  /\ Active' \subseteq Active /\ (Ended(0) => Ended(0)')
           /\ pc'[n] = p /\ \A m \in Node : m # n => pc'[m] = pc[m]
<1>1. pc \in [Node -> Places] /\ 0 \in Node
  BY NodeFacts DEF TypeOK
<1>2. \A m \in Node : pc'[m] = IF m = n THEN p ELSE pc[m]
  BY <1>1
<1>3. Active' \subseteq Active
  BY <1>2 DEF Active
<1>4. Ended(0) => Ended(0)'
  BY <1>1, <1>2 DEF Ended
<1> QED
  BY <1>2, <1>3, <1>4

LEMMA BarrierThrow ==
    ASSUME TypeOK, TypeOK', BarrierInv, NEW n \in Node,
           pc[n] \in {"running", "receiving", "closing"}, Throw(n),
           terminated' = terminated, unreceived' = unreceived,
           num_waiting_nodes' = num_waiting_nodes, current_epoch' = current_epoch
    PROVE  BarrierInv'
<1> DEFINE w == Written(stream, n, Peers(n), Control("SHUTDOWN"))
           s == IF pc[n] = "closing" /\ n # 0 THEN stream ELSE w
<1>1. /\ pc' = [pc EXCEPT ![n] = "threw"]
      /\ stream' = Forgotten(s, n)
      /\ msg_buffer' = [msg_buffer EXCEPT ![n] = <<>>]
  BY DEF Throw, Destroyed, Forgotten
<1>2. StreamsOK(stream) /\ BuffersOK(msg_buffer) /\ words \in [Conn -> Seq(Mark)]
      /\ words' \in [Conn -> Seq(Mark)]
  BY StateWords, NextWords
<1>3. \A t \in Peers(n) : Control("SHUTDOWN") \in Wire(t)
  BY ControlOK DEF Types, Counted
<1>4. StreamsOK(w)
  BY <1>2, <1>3, WrittenOK
<1>5. Kind(Control("SHUTDOWN")) = Blank
  BY KindOK, ControlOK
<1>6. Wrote(words, Words(w, msg_buffer), n, Peers(n), Blank)
  <2>1. Wrote(Words(stream, msg_buffer), Words(w, msg_buffer), n, Peers(n),
              Kind(Control("SHUTDOWN")))
    BY <1>2, <1>3, WordsWritten
  <2> QED
    BY <1>5, <2>1 DEF words
<1>7. StreamsOK(s) /\ (s = stream \/ s = w)
  BY <1>2, <1>4
<1> HIDE DEF w, s
<1>8. \A c \in Conn : Harmless(words[c], Words(s, msg_buffer)[c])
  <2>1. CASE s = stream
    BY <2>1 DEF words, Harmless
  <2>2. CASE s = w
    BY <1>6, <2>2 DEF Wrote, Harmless
  <2> QED
    BY <1>7, <2>1, <2>2
<1>9. \A c \in Conn : words'[c] = IF c[2] = n THEN <<>> ELSE Words(s, msg_buffer)[c]
  <2>1. \A c \in Conn : Words(Forgotten(s, n), [msg_buffer EXCEPT ![n] = <<>>])[c] =
              IF c[2] = n THEN <<>> ELSE Words(s, msg_buffer)[c]
    BY <1>2, <1>7, WordsForgotten
  <2> QED
    BY <1>1, <2>1 DEF words
<1>10. \A c \in Conn : \/ c[2] \in {n} /\ words'[c] = <<>>
                       \/ /\ Mild(words[c], words'[c], c)
                          /\ c[2] = 0 => SamePaths(words[c], words'[c])
  <2> SUFFICES ASSUME NEW c \in Conn, c[2] # n
               PROVE  Mild(words[c], words'[c], c) /\ SamePaths(words[c], words'[c])
    BY <1>9
  <2>1. Harmless(words[c], words'[c]) /\ words[c] \in Seq(Mark) /\ words'[c] \in Seq(Mark)
    BY <1>2, <1>8, <1>9
  <2> QED
    BY <2>1, HarmlessMild
<1>11. ~Ended(n) /\ "threw" \in Places /\ "threw" \notin {"running", "receiving"}
  BY DEF Ended, Places
<1>12. /\ Active' \subseteq Active /\ (Ended(0) => Ended(0)')
       /\ pc'[n] = "threw" /\ \A m \in Node : m # n => pc'[m] = pc[m]
  BY <1>1, <1>11, NodeMoves
<1>13. \A m \in {n} : m \in Node /\ Ended(m)'
  BY <1>12 DEF Ended
<1>14. \A m \in Peers(0) : m \in Active' => pc'[m] = pc[m]
  BY <1>12 DEF Active, Peers
<1>15. \A m \in Peers(0) : 0 \in terminated'[m] => Active = {}
  BY DEF BarrierInv, Current
<1>16. terminated'[0] = terminated[0]
  OBVIOUS
<1> QED
  BY <1>10, <1>12, <1>13, <1>14, <1>15, <1>16, QuietStep

LEMMA BarrierRead ==
    ASSUME TypeOK, TypeOK', BarrierInv, NEW c \in Conn, read_thread(c[1], c[2])
    PROVE  BarrierInv'
<1>0. PICK m \in Node, n \in Node : m # n /\ c = <<m, n>> /\ c[1] = m /\ c[2] = n
  BY ConnFacts
<1> DEFINE msg  == Head(stream[<<m, n>>])
           type == IF msg.msg_type = "SHUTDOWN" THEN "READ_ERROR" ELSE msg.msg_type
           e    == [msg_type |-> type, epoch |-> msg.epoch, sender_id |-> m]
<1>1. /\ ~Ended(n) /\ stream[<<m, n>>] # <<>>
      /\ msg_buffer' = [msg_buffer EXCEPT ![n] = Append(msg_buffer[n], e)]
      /\ stream' = [stream EXCEPT ![<<m, n>>] = Tail(stream[<<m, n>>])]
      /\ pc' = pc /\ current_epoch' = current_epoch /\ terminated' = terminated
      /\ num_waiting_nodes' = num_waiting_nodes /\ unreceived' = unreceived
  BY <1>0 DEF read_thread, counts
<1>2. StreamsOK(stream) /\ BuffersOK(msg_buffer) /\ words \in [Conn -> Seq(Mark)]
      /\ words' \in [Conn -> Seq(Mark)]
  BY StateWords, NextWords
<1>3. <<m, n>> \in Conn /\ <<m, n>>[2] = n /\ m \in Peers(n)
  BY <1>0, NodeFacts DEF Peers
<1>4. stream[<<m, n>>] \in Seq(Wire(n))
  BY <1>2, <1>3 DEF StreamsOK
<1>5. msg \in Wire(n)
  BY <1>1, <1>4, Beheaded
<1> HIDE DEF msg
<1>6. e \in Queued(n) /\ e.sender_id = m /\ Kind(e) = Kind(msg)
  <2>1. e \in Queued(n)
    BY <1>3, <1>5 DEF Wire, Queued, Types, Counted, Reports
  <2>2. Kind(e) = Kind(msg)
    BY DEF Kind
  <2> QED
    BY <2>1, <2>2
<1> HIDE DEF e
<1>7. Kind(e) = Kind(Head(stream[<<m, n>>]))
  BY <1>6 DEF msg
<1>8. \A d \in Conn : Harmless(words[d], words'[d])
  <2> SUFFICES ASSUME NEW d \in Conn PROVE Harmless(words[d], words'[d])
    OBVIOUS
  <2>1. PICK t : t = [stream EXCEPT ![<<m, n>>] = Tail(stream[<<m, n>>])]
    OBVIOUS
  <2>2. PICK b : b = [msg_buffer EXCEPT ![n] = Append(msg_buffer[n], e)]
    OBVIOUS
  <2>3. Harmless(Words(stream, msg_buffer)[d], Words(t, b)[d])
    BY <1>0, <1>1, <1>2, <1>6, <1>7, <2>1, <2>2, WordsRead
  <2>4. stream' = t /\ msg_buffer' = b
    BY <1>1, <2>1, <2>2
  <2> QED
    BY <2>3, <2>4 DEF words
<1>9. \A d \in Conn : Mild(words[d], words'[d], d) /\ SamePaths(words[d], words'[d])
  BY <1>2, <1>8, HarmlessMild
<1>10. Active' = Active /\ (Ended(0) => Ended(0)')
  BY <1>1 DEF Active, Ended
<1>11. \A k \in Peers(0) : 0 \in terminated'[k] => Active = {}
  BY <1>1 DEF BarrierInv, Current
<1>12. /\ \A k \in {} : k \in Node /\ Ended(k)'
       /\ \A k \in Peers(0) : k \in Active' => pc'[k] = pc[k]
       /\ Active' \subseteq Active /\ terminated'[0] = terminated[0]
  BY <1>1, <1>10
<1>13. \A d \in Conn : \/ d[2] \in {} /\ words'[d] = <<>>
                       \/ /\ Mild(words[d], words'[d], d)
                          /\ d[2] = 0 => SamePaths(words[d], words'[d])
  BY <1>9
<1> QED
  BY <1>1, <1>10, <1>11, <1>12, <1>13, QuietStep

LEMMA ReportingKept ==
    ASSUME Reporting, Ended(0) => Ended(0)', num_waiting_nodes' = num_waiting_nodes,
           terminated'[0] = terminated[0],
           ~Ended(0)' => \A b \in Peers(0) : \A first : Leads(b, first) => Leads(b, first)'
    PROVE  Reporting'
<1> SUFFICES ASSUME ~Ended(0)' PROVE \E at : Seen(at)'
  BY DEF Reporting
<1>1. PICK at : Seen(at)
  BY DEF Reporting
<1>2. ASSUME NEW b \in Peers(0) PROVE Leads(b, at[b])'
  <2>1. PICK first : first = at[b]
    OBVIOUS
  <2>2. Leads(b, first)
    BY <1>1, <2>1 DEF Seen
  <2>3. Leads(b, first)'
    BY <2>2
  <2> QED
    BY <2>1, <2>3
<1>3. /\ at \in [Peers(0) -> Stands]
      /\ num_waiting_nodes' = Cardinality({b \in Peers(0) : at[b] = "W"})
      /\ \A b \in Peers(0) : b \in terminated'[0] => at[b] = "T"
  BY <1>1 DEF Seen
<1>4. Seen(at)'
  BY <1>2, <1>3 DEF Seen
<1> QED
  BY <1>4

LEMMA UpToDateKept ==
    ASSUME UpToDate, current_epoch' = current_epoch, Active' \subseteq Active,
           \A n \in Peers(0) : n \in Active' =>
              /\ pc'[n] = pc[n] \/ News(words[<<0, n>>]) = {}
              /\ News(words[<<0, n>>]) = {} <=> News(words'[<<0, n>>]) = {}
              /\ Single(News(words[<<0, n>>])) => Single(News(words'[<<0, n>>]))
    PROVE  UpToDate'
<1> SUFFICES ASSUME NEW n \in Peers(0), n \in Active'
             PROVE  InStep(current_epoch'[n], current_epoch'[0], pc'[n], News(words'[<<0, n>>]))
  BY DEF UpToDate
<1>1. InStep(current_epoch[n], current_epoch[0], pc[n], News(words[<<0, n>>]))
  BY DEF UpToDate
<1>2. InStep(current_epoch[n], current_epoch[0], pc[n], News(words'[<<0, n>>]))
  BY <1>1, InStepKept
<1>3. CASE pc'[n] = pc[n]
  BY <1>2, <1>3
<1>4. CASE News(words[<<0, n>>]) = {}
  <2>1. News(words'[<<0, n>>]) = {}
    BY <1>4
  <2>2. ~ \E i : {} = {i}
    OBVIOUS
  <2>3. current_epoch[n] = current_epoch[0]
    BY <1>1, <1>4, <2>2 DEF InStep
  <2> QED
    BY <2>1, <2>3 DEF InStep
<1> QED
  BY <1>3, <1>4

(* A node that runs is in the superstep of node 0, with no news on their way. *)
LEMMA RunsInStep ==
    ASSUME TypeOK, UpToDate, NEW n \in Peers(0), pc[n] = "running"
    PROVE  current_epoch[n] = current_epoch[0] /\ News(words[<<0, n>>]) = {} /\ n \in Active
<1>1. n \in Active
  BY DEF Active, Peers
<1>2. InStep(current_epoch[n], current_epoch[0], pc[n], News(words[<<0, n>>]))
  BY <1>1 DEF UpToDate
<1> QED
  BY <1>1, <1>2 DEF InStep

(* Only node 0 is somewhere else. *)
LEMMA BarrierZero ==
    ASSUME TypeOK, TypeOK', BarrierInv, NEW p \in Places, pc' = [pc EXCEPT ![0] = p], ~Ended(0),
           p \in {"running", "receiving"} => 0 \in Active,
           stream' = stream, msg_buffer' = msg_buffer, terminated' = terminated,
           unreceived' = unreceived, num_waiting_nodes' = num_waiting_nodes,
           current_epoch' = current_epoch
    PROVE  BarrierInv'
<1>1. words' = words
  BY DEF words
<1>2. words \in [Conn -> Seq(Mark)] /\ 0 \in Node
  BY StateWords, NodeFacts
<1>3. /\ Active' \subseteq Active /\ (Ended(0) => Ended(0)')
      /\ \A m \in Node : m # 0 => pc'[m] = pc[m]
  BY <1>2, NodeMoves
<1>4. \A d \in Conn : Mild(words[d], words'[d], d) /\ SamePaths(words[d], words'[d])
  <2> SUFFICES ASSUME NEW d \in Conn
               PROVE  Mild(words[d], words'[d], d) /\ SamePaths(words[d], words'[d])
    OBVIOUS
  <2>1. words'[d] = words[d] /\ words[d] \in Seq(Mark) /\ Harmless(words[d], words'[d])
    BY <1>1, <1>2 DEF Harmless
  <2> QED
    BY <2>1, HarmlessMild
<1>5. \A d \in Conn : \/ d[2] \in {} /\ words'[d] = <<>>
                      \/ /\ Mild(words[d], words'[d], d)
                         /\ d[2] = 0 => SamePaths(words[d], words'[d])
  BY <1>4
<1>6. \A k \in Peers(0) : 0 \in terminated'[k] => Active = {}
  BY DEF BarrierInv, Current
<1>7. /\ \A k \in {} : k \in Node /\ Ended(k)'
      /\ \A k \in Peers(0) : k \in Active' => pc'[k] = pc[k]
      /\ terminated'[0] = terminated[0]
  BY <1>3 DEF Peers
<1> QED
  BY <1>3, <1>5, <1>6, <1>7, QuietStep

(* A node that runs reports that it waits, or tells everybody that it ends. *)
LEMMA PeerWrites ==
    ASSUME TypeOK, TypeOK', BarrierInv, NEW n \in Peers(0), pc[n] = "running",
           NEW p \in {"receiving", "closing"}, pc' = [pc EXCEPT ![n] = p],
           NEW targets, NEW e \in Mark, Wrote(words, words', n, targets, e), 0 \in targets,
           e.msg_type \in {"IN_WAITING_STATE", "NODE_TERMINATE"},
           NEW next \in Stands, Follows("R", e.msg_type, next, Receiver(n)),
           p = "receiving" => next = "W",
           terminated' = terminated, unreceived' = unreceived,
           num_waiting_nodes' = num_waiting_nodes, current_epoch' = current_epoch
    PROVE  BarrierInv'
<1>1. words \in [Conn -> Seq(Mark)] /\ words' \in [Conn -> Seq(Mark)] /\ unreceived \in Int
      /\ 0 \in Node /\ n \in Node /\ n # 0 /\ Current /\ UpToDate /\ Reporting
      /\ InFlight(words, unreceived)
  BY StateWords, NextWords, NodeFacts DEF TypeOK, Peers, BarrierInv
<1>2. \A b \in Peers(0) : b \in Node /\ b # 0 /\ <<0, b>> \in Conn /\ <<b, 0>> \in Conn
  BY NodeFacts DEF Peers
<1>3. /\ Active' \subseteq Active /\ (Ended(0) => Ended(0)')
      /\ pc'[n] = p /\ \A m \in Node : m # n => pc'[m] = pc[m]
  <2>1. ~Ended(n) /\ p \in Places /\ n \in Active
    BY <1>1 DEF Ended, Places, Active
  <2> QED
    BY <1>1, <2>1, NodeMoves
<1>4. \A c \in Conn : Mild(words[c], words'[c], c)
  <2> SUFFICES ASSUME NEW c \in Conn PROVE Mild(words[c], words'[c], c)
    OBVIOUS
  <2>0. words[c] \in Seq(Mark) /\ words'[c] \in Seq(Mark)
    BY <1>1
  <2>1. CASE c[1] = n /\ Longer(words[c], words'[c], e)
    <3>1. \A k, q : Fresh(e, c, k, q)
      BY <1>1, <2>1 DEF Fresh
    <3> QED
      BY <2>0, <2>1, <3>1, LongerMild
  <2>2. CASE words'[c] = words[c]
    <3>1. Harmless(words[c], words'[c])
      BY <2>2 DEF Harmless
    <3> QED
      BY <2>0, <3>1, HarmlessMild
  <2> QED
    BY <2>1, <2>2 DEF Wrote
<1>5. \A b \in Peers(0) : words'[<<0, b>>] = words[<<0, b>>]
  <2> SUFFICES ASSUME NEW b \in Peers(0) PROVE words'[<<0, b>>] = words[<<0, b>>]
    OBVIOUS
  <2>1. PICK c \in Conn : c = <<0, b>> /\ c[1] # n
    BY <1>1, <1>2
  <2>2. words'[c] = words[c]
    BY <2>1 DEF Wrote
  <2> QED
    BY <2>1, <2>2
<1>6. Current'
  <2>1. ASSUME NEW c \in Conn PROVE FreshWord(words'[c], c, current_epoch[0], Active = {})
    BY <1>1, <1>4 DEF Current, Mild
  <2> QED
    BY <1>1, <1>3, <2>1, CurrentKept DEF Current
<1>7. InFlight(words', unreceived')
  <2>1. \A c \in Conn : Carries(words[c], words'[c], {})
    BY <1>4 DEF Mild
  <2>2. InFlight(words', unreceived)
    BY <1>1, <2>1, FlyNoMore
  <2> QED
    BY <2>2
<1>8. current_epoch[n] = current_epoch[0] /\ News(words[<<0, n>>]) = {} /\ n \in Active
  BY <1>1, RunsInStep
<1>9. UpToDate'
  <2>1. \A m \in Peers(0) : m \in Active' => pc'[m] = pc[m] \/ News(words[<<0, m>>]) = {}
    BY <1>2, <1>3, <1>8
  <2> QED
    BY <1>1, <1>3, <1>5, <2>1, UpToDateKept
<1>10. Reporting'
  <2>1. ASSUME ~Ended(0)', NEW b \in Peers(0), NEW first, Leads(b, first)
        PROVE  Leads(b, first)'
    <3>0. PICK c \in Conn : c = <<b, 0>> /\ c[1] = b /\ c[2] = 0
      BY <1>2
    <3>1. words[c] \in Seq(Mark) /\ words'[c] \in Seq(Mark) /\ ~Ended(0)
      BY <1>1, <1>3, <2>1
    <3>2. CASE b # n
      <4>1. words'[c] = words[c]
        BY <3>0, <3>2 DEF Wrote
      <4>2. SamePaths(words[<<b, 0>>], words'[<<b, 0>>])
        BY <3>0, <4>1 DEF SamePaths
      <4>3. pc'[b] = pc[b] /\ (News(words[<<0, b>>]) = {} <=> News(words'[<<0, b>>]) = {})
        BY <1>2, <1>3, <1>5, <3>2
      <4> QED
        BY <2>1, <4>2, <4>3, LeadsKept
    <3>3. CASE b = n
      <4>1. PICK last \in Stands : /\ Path(words[<<b, 0>>], first, last, Receiver(b))
                                   /\ Standing(pc[b], News(words[<<0, b>>]), last)
        BY <2>1 DEF Leads
      <4>2. last = "R"
        BY <3>3, <4>1 DEF Standing
      <4>3. Longer(words[c], words'[c], e)
        BY <3>0, <3>1, <3>3 DEF Wrote
      <4>4. Path(words[c], first, "R", Receiver(n))
        BY <3>0, <3>3, <4>1, <4>2
      <4>5. Path(words'[c], first, next, Receiver(n))
        BY <3>1, <4>3, <4>4, PathLonger
      <4>6. Standing(pc'[b], News(words'[<<0, b>>]), next)
        BY <1>3, <1>5, <1>8, <3>3 DEF Standing
      <4> QED
        BY <3>0, <3>3, <4>5, <4>6 DEF Leads
    <3> QED
      BY <3>2, <3>3
  <2>2. terminated'[0] = terminated[0]
    OBVIOUS
  <2> QED
    BY <1>1, <1>3, <2>1, <2>2, ReportingKept
<1> QED
  BY <1>6, <1>7, <1>9, <1>10 DEF BarrierInv

LEMMA BarrierReceive ==
    ASSUME TypeOK, TypeOK', BarrierInv, NEW n \in Node, receive_data(n)
    PROVE  BarrierInv'
<1>1. /\ pc[n] = "running" /\ pc' = [pc EXCEPT ![n] = "receiving"]
      /\ stream' = notify_control_node(stream, n, "IN_WAITING_STATE")
      /\ msg_buffer' = msg_buffer /\ terminated' = terminated /\ unreceived' = unreceived
      /\ num_waiting_nodes' = num_waiting_nodes /\ current_epoch' = current_epoch
  BY DEF receive_data, counts
<1>2. CASE n = 0
  <2>1. "receiving" \in Places /\ ~Ended(0) /\ 0 \in Active /\ stream' = stream
    BY <1>1, <1>2 DEF Places, Ended, Active, notify_control_node
  <2> QED
    BY <1>1, <1>2, <2>1, BarrierZero
<1>3. CASE n # 0
  <2> DEFINE msg == Control("IN_WAITING_STATE")
  <2>1. n \in Peers(0) /\ stream' = Written(stream, n, {0}, msg)
    BY <1>1, <1>3 DEF Peers, notify_control_node
  <2>2. msg \in Wire(0) /\ msg.msg_type = "IN_WAITING_STATE"
    BY ControlOK DEF Types, Counted, Reports
  <2> HIDE DEF msg
  <2>3. StreamsOK(stream) /\ BuffersOK(msg_buffer)
    BY StateWords
  <2>4. Wrote(Words(stream, msg_buffer), Words(Written(stream, n, {0}, msg), msg_buffer), n, {0},
              Kind(msg))
    BY <2>2, <2>3, WordsWritten
  <2>5. Wrote(words, words', n, {0}, Kind(msg))
    BY <1>1, <2>1, <2>4 DEF words
  <2>6. Kind(msg) \in Mark /\ Kind(msg).msg_type = "IN_WAITING_STATE"
    BY <2>2, KindOK
  <2>7. Follows("R", Kind(msg).msg_type, "W", Receiver(n)) /\ "W" \in Stands
    BY <2>6 DEF Follows, Stands, Reports
  <2> QED
    BY <1>1, <2>1, <2>5, <2>6, <2>7, PeerWrites
<1> QED
  BY <1>2, <1>3

LEMMA BarrierCloses ==
    ASSUME TypeOK, TypeOK', BarrierInv, NEW n \in Node, Closes(n)
    PROVE  BarrierInv'
<1>1. /\ pc[n] = "running" /\ pc' = [pc EXCEPT ![n] = "closing"]
      /\ stream' = IF n = 0 THEN stream
                   ELSE Written(stream, n, Peers(n), Control("NODE_TERMINATE"))
      /\ msg_buffer' = msg_buffer /\ terminated' = terminated /\ unreceived' = unreceived
      /\ num_waiting_nodes' = num_waiting_nodes /\ current_epoch' = current_epoch
  BY DEF Closes, counts
<1>2. CASE n = 0
  <2>1. "closing" \in Places /\ ~Ended(0) /\ stream' = stream
        /\ "closing" \notin {"running", "receiving"}
    BY <1>1, <1>2 DEF Places, Ended
  <2> QED
    BY <1>1, <1>2, <2>1, BarrierZero
<1>3. CASE n # 0
  <2> DEFINE msg == Control("NODE_TERMINATE")
  <2>1. n \in Peers(0) /\ stream' = Written(stream, n, Peers(n), msg) /\ 0 \in Peers(n)
    BY <1>1, <1>3, NodeFacts DEF Peers
  <2>2. msg.msg_type = "NODE_TERMINATE" /\ \A t \in Peers(n) : msg \in Wire(t)
    BY ControlOK DEF Types, Counted, Reports
  <2>0. msg \in Wire(0)
    BY <2>1, <2>2
  <2> HIDE DEF msg
  <2>3. StreamsOK(stream) /\ BuffersOK(msg_buffer)
    BY StateWords
  <2>4. Wrote(Words(stream, msg_buffer), Words(Written(stream, n, Peers(n), msg), msg_buffer), n,
              Peers(n), Kind(msg))
    BY <2>2, <2>3, WordsWritten
  <2>5. Wrote(words, words', n, Peers(n), Kind(msg))
    BY <1>1, <2>1, <2>4 DEF words
  <2>6. Kind(msg) \in Mark /\ Kind(msg).msg_type = "NODE_TERMINATE"
    BY <2>0, <2>2, KindOK
  <2>7. Follows("R", Kind(msg).msg_type, "T", Receiver(n)) /\ "T" \in Stands
    BY <2>6 DEF Follows, Stands, Reports
  <2> QED
    BY <1>1, <2>1, <2>5, <2>6, <2>7, PeerWrites
<1> QED
  BY <1>2, <1>3

(* What a write of e by n leaves as it is. *)
LEMMA WroteKeeps ==
    ASSUME NEW v \in [Conn -> Seq(Mark)], NEW w \in [Conn -> Seq(Mark)], NEW n, NEW targets,
           NEW e, Wrote(v, w, n, targets, e), e.msg_type # "SEE_ALL_IN_WAITING_STATE",
           NEW c \in Conn, NEW k, NEW q, FreshWord(v[c], c, k, q),
           c[1] = n /\ c[2] \in targets => Fresh(e, c, k, q)
    PROVE  FreshWord(w[c], c, k, q) /\ News(w[c]) = News(v[c])
<1>1. v[c] \in Seq(Mark) /\ w[c] \in Seq(Mark)
  OBVIOUS
<1>2. CASE c[1] = n /\ c[2] \in targets /\ ~Ended(c[2])
  <2>1. Longer(v[c], w[c], e) /\ Fresh(e, c, k, q)
    BY <1>2 DEF Wrote
  <2>2. FreshWord(w[c], c, k, q)
    BY <1>1, <2>1, FreshLonger
  <2>3. News(w[c]) = News(v[c])
    BY <1>1, <2>1, NewsLonger
  <2> QED
    BY <1>2, <2>2, <2>3
<1>3. CASE ~ (c[1] = n /\ c[2] \in targets /\ ~Ended(c[2]))
  <2>1. w[c] = v[c]
    BY <1>3 DEF Wrote
  <2> QED
    BY <2>1
<1> QED
  BY <1>2, <1>3

(* A node that passes nothing on, or that only sends to node 0. *)
LEMMA SendersDoNotGet ==
    ASSUME NoRelay, NEW n, NEW to, <<n, to>> \in Link, n # 0, to # 0
    PROVE  ~Receiver(n)
<1> SUFFICES ASSUME Receiver(n) PROVE FALSE
  OBVIOUS
<1>1. PICK a \in Link : a[2] = n
  BY DEF Receiver
<1>2. PICK b \in Link : b = <<n, to>>
  OBVIOUS
<1>3. b[1] = n /\ b[2] = to
  BY <1>2
<1> QED
  BY <1>1, <1>3 DEF NoRelay

(* n sends a message, and reports it: v is what is written first. *)
LEMMA PeerSends ==
    ASSUME TypeOK, TypeOK', BarrierInv, NoRelay,
           NEW n \in Node, NEW to \in Node, <<n, to>> \in Link, pc[n] = "running",
           NEW v \in [Conn -> Seq(Mark)], NEW e, NEW f,
           Wrote(words, v, n, {to}, e), e.msg_type = "MESSAGE_HEADER",
           e.epoch = current_epoch[n],
           n = 0 => words' = v, n # 0 => Wrote(v, words', n, {0}, f), f.msg_type = "SENT_MESSAGE",
           pc' = pc, terminated' = terminated, unreceived' = unreceived + 1,
           num_waiting_nodes' = num_waiting_nodes, current_epoch' = current_epoch
    PROVE  BarrierInv'
<1>1. words \in [Conn -> Seq(Mark)] /\ words' \in [Conn -> Seq(Mark)] /\ unreceived \in Int
      /\ 0 \in Node /\ Current /\ UpToDate /\ Reporting /\ InFlight(words, unreceived)
  BY StateWords, NextWords, NodeFacts DEF TypeOK, BarrierInv
<1>2. \A b \in Peers(0) : b \in Node /\ b # 0 /\ <<0, b>> \in Conn /\ <<b, 0>> \in Conn
  BY NodeFacts DEF Peers
<1>3. Active' = Active /\ (Ended(0) => Ended(0)')
  BY DEF Active, Ended
<1>4. current_epoch[n] = current_epoch[0]
  <2>1. CASE n = 0
    BY <2>1
  <2>2. CASE n # 0
    BY <1>1, <2>2, RunsInStep DEF Peers
  <2> QED
    BY <2>1, <2>2
<1>5. PICK d \in Conn : d = <<n, to>> /\ d \in Link /\ d[1] = n /\ d[2] = to
  BY BspAssumption
<1>6. \A c \in Conn : FreshWord(words[c], c, current_epoch[0], Active = {})
  BY <1>1 DEF Current
<1>7. /\ \A c \in Conn : FreshWord(v[c], c, current_epoch[0], Active = {})
                         /\ News(v[c]) = News(words[c])
      /\ \A c \in Conn : c[1] # n => v[c] = words[c]
  <2>1. \A c \in Conn : c[1] = n /\ c[2] \in {to} => Fresh(e, c, current_epoch[0], Active = {})
    <3> SUFFICES ASSUME NEW c \in Conn, c[1] = n, c[2] = to
                 PROVE  Fresh(e, c, current_epoch[0], Active = {})
      OBVIOUS
    <3>1. c \in Link
      BY <1>5, ConnFacts
    <3> QED
      BY <1>4, <3>1 DEF Fresh
  <2> SUFFICES ASSUME NEW c \in Conn
               PROVE  /\ FreshWord(v[c], c, current_epoch[0], Active = {})
                      /\ News(v[c]) = News(words[c]) /\ (c[1] # n => v[c] = words[c])
    OBVIOUS
  <2>2. PICK k, q : k = current_epoch[0] /\ q = (Active = {})
    OBVIOUS
  <2>3. /\ FreshWord(words[c], c, k, q) /\ (c[1] = n /\ c[2] \in {to} => Fresh(e, c, k, q))
        /\ e.msg_type # "SEE_ALL_IN_WAITING_STATE"
    BY <1>6, <2>1, <2>2
  <2>4. FreshWord(v[c], c, k, q) /\ News(v[c]) = News(words[c])
    BY <1>1, <2>3, WroteKeeps
  <2>5. c[1] # n => v[c] = words[c]
    BY DEF Wrote
  <2> QED
    BY <2>2, <2>4, <2>5
<1>8. InFlight(v, unreceived + 1)
  <2>1. \A c \in Conn : c # d => v[c] = words[c]
    <3> SUFFICES ASSUME NEW c \in Conn, c # d PROVE v[c] = words[c]
      OBVIOUS
    <3>1. ~ (c[1] = n /\ c[2] \in {to} /\ ~Ended(c[2]))
      BY <1>5, ConnFacts
    <3> QED
      BY <3>1 DEF Wrote
  <2>2. v[d] = words[d] \/ Longer(words[d], v[d], e)
    BY DEF Wrote
  <2> QED
    BY <1>1, <2>1, <2>2, FlyOneMore
<1>9. /\ \A c \in Conn : FreshWord(words'[c], c, current_epoch[0], Active = {})
                         /\ News(words'[c]) = News(v[c])
      /\ \A c \in Conn : c[1] # n => words'[c] = v[c]
      /\ \A c \in Conn : Carries(v[c], words'[c], {})
  <2>1. CASE n = 0
    <3>1. \A c \in Conn : words'[c] = v[c]
      BY <2>1
    <3>2. \A c \in Conn : Carries(v[c], v[c], {})
      BY CarriesSame
    <3> QED
      BY <1>7, <3>1, <3>2
  <2>2. CASE n # 0
    <3>1. \A c \in Conn : c[1] = n /\ c[2] \in {0} => Fresh(f, c, current_epoch[0], Active = {})
      BY DEF Fresh
    <3>2. \A c \in Conn : FreshWord(v[c], c, current_epoch[0], Active = {})
      BY <1>7
    <3>3. Wrote(v, words', n, {0}, f) /\ f.msg_type # "SEE_ALL_IN_WAITING_STATE"
      BY <2>2
    <3>4. /\ \A c \in Conn : FreshWord(words'[c], c, current_epoch[0], Active = {})
                         /\ News(words'[c]) = News(v[c])
          /\ \A c \in Conn : c[1] # n => words'[c] = v[c]
      <4> SUFFICES ASSUME NEW c \in Conn
                   PROVE  /\ FreshWord(words'[c], c, current_epoch[0], Active = {})
                          /\ News(words'[c]) = News(v[c]) /\ (c[1] # n => words'[c] = v[c])
        OBVIOUS
      <4>1. PICK k, q : k = current_epoch[0] /\ q = (Active = {})
        OBVIOUS
      <4>2. FreshWord(v[c], c, k, q) /\ (c[1] = n /\ c[2] \in {0} => Fresh(f, c, k, q))
        BY <3>1, <3>2, <4>1
      <4>3. FreshWord(words'[c], c, k, q) /\ News(words'[c]) = News(v[c])
        BY <1>1, <3>3, <4>2, WroteKeeps
      <4>4. c[1] # n => words'[c] = v[c]
        BY <3>3 DEF Wrote
      <4> QED
        BY <4>1, <4>3, <4>4
    <3>5. ASSUME NEW c \in Conn PROVE Carries(v[c], words'[c], {})
      <4>1. v[c] \in Seq(Mark) /\ words'[c] \in Seq(Mark)
        BY <1>1
      <4>2. CASE Longer(v[c], words'[c], f)
        BY <4>1, <4>2, CarriesLonger
      <4>3. CASE words'[c] = v[c]
        BY <4>3, CarriesSame
      <4> QED
        BY <3>3, <4>2, <4>3 DEF Wrote
    <3> QED
      BY <3>4, <3>5
  <2> QED
    BY <2>1, <2>2
<1>10. InFlight(words', unreceived')
  <2>1. unreceived + 1 \in Int
    BY <1>1
  <2>2. InFlight(words', unreceived + 1)
    BY <1>1, <1>8, <1>9, <2>1, FlyNoMore
  <2> QED
    BY <2>2
<1>11. Current'
  BY <1>1, <1>3, <1>9, CurrentKept DEF Current
<1>12. \A b \in Peers(0) : News(words'[<<0, b>>]) = News(words[<<0, b>>])
  BY <1>2, <1>7, <1>9
<1>13. UpToDate'
  BY <1>1, <1>3, <1>12, UpToDateKept
<1>14. Reporting'
  <2>1. ASSUME ~Ended(0)', NEW b \in Peers(0), NEW first, Leads(b, first)
        PROVE  Leads(b, first)'
    <3>0. PICK c \in Conn : c = <<b, 0>> /\ c[1] = b /\ c[2] = 0
      BY <1>2
    <3>1. words[c] \in Seq(Mark) /\ words'[c] \in Seq(Mark) /\ v[c] \in Seq(Mark) /\ ~Ended(0)
      BY <1>1, <1>3, <2>1
    <3>2. CASE b # n
      <4>1. words'[c] = words[c]
        BY <1>7, <1>9, <3>0, <3>2
      <4>2. SamePaths(words[<<b, 0>>], words'[<<b, 0>>])
        BY <3>0, <4>1 DEF SamePaths
      <4>3. pc'[b] = pc[b] /\ (News(words[<<0, b>>]) = {} <=> News(words'[<<0, b>>]) = {})
        BY <1>12
      <4> QED
        BY <2>1, <4>2, <4>3, LeadsKept
    <3>3. CASE b = n
      <4>0. n # 0 /\ "R" \in Stands /\ "M" \in Stands
        BY <1>2, <3>3 DEF Stands
      <4>1. PICK last \in Stands : /\ Path(words[<<b, 0>>], first, last, Receiver(b))
                                   /\ Standing(pc[b], News(words[<<0, b>>]), last)
        BY <2>1 DEF Leads
      <4>2. last = "R"
        BY <3>3, <4>1 DEF Standing
      <4>3. Longer(v[c], words'[c], f)
        BY <3>0, <3>1, <3>3, <4>0 DEF Wrote
      <4>4. Path(words[c], first, "R", Receiver(n))
        BY <3>0, <3>3, <4>1, <4>2
      <4>5. Path(words'[c], first, "R", Receiver(n))
        <5>1. CASE to = 0
          <6>1. Longer(words[c], v[c], e)
            BY <3>0, <3>1, <3>3, <5>1 DEF Wrote
          <6>2. Follows("R", e.msg_type, "M", Receiver(n))
            BY DEF Follows, Reports
          <6>3. Path(v[c], first, "M", Receiver(n))
            BY <3>1, <4>0, <4>4, <6>1, <6>2, PathLonger
          <6>4. Follows("M", f.msg_type, "R", Receiver(n))
            BY DEF Follows, Reports
          <6> QED
            BY <3>1, <4>0, <4>3, <6>3, <6>4, PathLonger
        <5>2. CASE to # 0
          <6>1. v[c] = words[c]
            BY <3>0, <5>2 DEF Wrote
          <6>2. ~Receiver(n)
            BY <4>0, <5>2, SendersDoNotGet
          <6>3. Follows("R", f.msg_type, "R", Receiver(n))
            BY <6>2 DEF Follows, Reports
          <6>4. Path(v[c], first, "R", Receiver(n))
            BY <4>4, <6>1
          <6> QED
            BY <3>1, <4>0, <4>3, <6>3, <6>4, PathLonger
        <5> QED
          BY <5>1, <5>2
      <4>6. Standing(pc'[b], News(words'[<<0, b>>]), "R")
        BY <3>3 DEF Standing
      <4> QED
        BY <3>0, <3>3, <4>0, <4>5, <4>6 DEF Leads
    <3> QED
      BY <3>2, <3>3
  <2>2. terminated'[0] = terminated[0]
    OBVIOUS
  <2> QED
    BY <1>1, <1>3, <2>1, <2>2, ReportingKept
<1> QED
  BY <1>10, <1>11, <1>13, <1>14 DEF BarrierInv

LEMMA BarrierSend ==
    ASSUME TypeOK, TypeOK', BarrierInv, NoRelay, NEW n \in Node, NEW to \in Node,
           <<n, to>> \in Link, send_data(n, to)
    PROVE  BarrierInv'
<1>1. /\ pc[n] = "running" /\ terminated' = terminated
      /\ num_waiting_nodes' = num_waiting_nodes /\ current_epoch' = current_epoch
  BY DEF send_data
<1>2. CASE to \in terminated[n]
  <2>1. Throw(n) /\ unreceived' = unreceived
    BY <1>2 DEF send_data
  <2> QED
    BY <1>1, <2>1, BarrierThrow
<1>3. CASE to \notin terminated[n]
  <2> DEFINE e == Content(current_epoch[n])
             f == Control("SENT_MESSAGE")
             s == Written(stream, n, {to}, e)
             v == Words(s, msg_buffer)
  <2>1. /\ stream' = notify_control_node(s, n, "SENT_MESSAGE")
        /\ unreceived' = unreceived + 1 /\ pc' = pc /\ msg_buffer' = msg_buffer
    BY <1>3 DEF send_data
  <2>2. StreamsOK(stream) /\ BuffersOK(msg_buffer) /\ current_epoch[n] \in Nat
    BY StateWords DEF TypeOK
  <2>3. /\ \A t : e \in Wire(t) /\ f \in Wire(0)
        /\ e.msg_type = "MESSAGE_HEADER" /\ f.msg_type = "SENT_MESSAGE"
        /\ e.epoch = current_epoch[n]
    BY <2>2, ControlOK DEF Types, Counted, Reports, Content
  <2>4. /\ Kind(e).msg_type = "MESSAGE_HEADER" /\ Kind(e).epoch = current_epoch[n]
        /\ Kind(f).msg_type = "SENT_MESSAGE"
    BY <2>3, KindOK
  <2>5. n = 0 => stream' = s
    BY <2>1 DEF notify_control_node
  <2>6. n # 0 => stream' = Written(s, n, {0}, f)
    BY <2>1 DEF notify_control_node
  <2> HIDE DEF e, f
  <2>7. StreamsOK(s)
    <3>1. \A t \in {to} : e \in Wire(t)
      BY <2>3
    <3> QED
      BY <2>2, <3>1, WrittenOK
  <2>8. Wrote(words, v, n, {to}, Kind(e))
    <3>1. \A t \in {to} : e \in Wire(t)
      BY <2>3
    <3> QED
      BY <2>2, <3>1, WordsWritten DEF words
  <2> HIDE DEF s
  <2>9. v \in [Conn -> Seq(Mark)]
    BY <2>2, <2>7, WordsOK
  <2>10. n = 0 => words' = v
    BY <2>1, <2>5 DEF words
  <2>11. ASSUME n # 0 PROVE Wrote(v, words', n, {0}, Kind(f))
    <3>1. \A t \in {0} : f \in Wire(t)
      BY <2>3
    <3>2. Wrote(Words(s, msg_buffer), Words(Written(s, n, {0}, f), msg_buffer), n, {0}, Kind(f))
      BY <2>2, <2>7, <3>1, WordsWritten
    <3>3. words' = Words(Written(s, n, {0}, f), msg_buffer)
      BY <2>1, <2>6, <2>11 DEF words
    <3> QED
      BY <3>2, <3>3
  <2> HIDE DEF v
  <2> QED
    BY <1>1, <2>1, <2>4, <2>8, <2>9, <2>10, <2>11, PeerSends
<1> QED
  BY <1>2, <1>3

(* What the words lose when n pops msg from place x of its queue. *)
Took(v, w, n, x, msg) ==
    \A c \in Conn :
        IF c[2] = n
        THEN /\ Loses(v[c], w[c], x)
             /\ v[c][x] = IF msg.sender_id = c[1] THEN Kind(msg) ELSE Blank
             /\ \A i \in 1 .. x - 1 : v[c][i].msg_type \notin Reports
        ELSE w[c] = v[c]

LEMMA Popping ==
    ASSUME TypeOK, TypeOK', NEW n \in Node, NEW max, NEW msg \in Popped(n, max), Pops(n)
    PROVE  \E x \in Nat : Took(words, Words(stream, msg_buffer'), n, x, msg)
<1>1. /\ IsTop(msg_buffer[n], Top(n)) /\ msg = msg_buffer[n][Top(n)] /\ msg \in Queued(n)
  BY PopsOK
<1>2. PICK x : x = Top(n)
  OBVIOUS
<1>3. StreamsOK(stream) /\ BuffersOK(msg_buffer) /\ BuffersOK(msg_buffer')
  BY StateWords, NextWords
<1>4. PICK q : q = msg_buffer[n]
  OBVIOUS
<1>5. q \in Seq(Queued(n)) /\ IsTop(q, x) /\ x \in DOMAIN q /\ msg = q[x]
  BY <1>1, <1>2, <1>3, <1>4 DEF BuffersOK, IsTop
<1>6. x \in 1 .. Len(q) /\ Len(q) \in Nat /\ x \in Nat
  BY <1>5
<1>7. \A i \in 1 .. x - 1 : q[i].msg_type = "MESSAGE_HEADER"
  <2> SUFFICES ASSUME NEW i \in 1 .. x - 1 PROVE q[i].msg_type = "MESSAGE_HEADER"
    OBVIOUS
  <2>1. i \in 1 .. Len(q) /\ i < x /\ i \in DOMAIN q
    BY <1>5, <1>6
  <2>2. q[x].epoch < q[i].epoch
    BY <1>5, <1>6, <2>1 DEF IsTop
  <2>3. q[i] \in Queued(n) /\ q[x].epoch \in Nat
    BY <1>5, <1>6, <2>1 DEF Queued
  <2>4. q[i].epoch # 0
    BY <2>2, <2>3
  <2> QED
    BY <2>3, <2>4 DEF Queued
<1>8. PICK b : b = [msg_buffer EXCEPT ![n] = RemoveAt(msg_buffer[n], x)]
  OBVIOUS
<1>9. msg_buffer' = b
  BY <1>2, <1>8 DEF Pops
<1>10. ASSUME NEW c \in Conn
       PROVE  IF c[2] = n
              THEN /\ Loses(words[c], Words(stream, b)[c], x)
                   /\ words[c][x] = IF msg.sender_id = c[1] THEN Kind(msg) ELSE Blank
                   /\ \A i \in 1 .. x - 1 : words[c][i].msg_type \notin Reports
              ELSE Words(stream, b)[c] = words[c]
  <2>0. x \in DOMAIN msg_buffer[n]
    BY <1>4, <1>5
  <2>1. ASSUME c[2] = n
        PROVE  /\ Loses(words[c], Words(stream, b)[c], x)
               /\ words[c][x] = IF msg.sender_id = c[1] THEN Kind(msg) ELSE Blank
    <3>1. b[n] = RemoveAt(msg_buffer[n], x)
      BY <1>3, <1>8 DEF BuffersOK
    <3>2. /\ Loses(Words(stream, msg_buffer)[c], Words(stream, b)[c], x)
          /\ Words(stream, msg_buffer)[c][x] =
                IF msg_buffer[n][x].sender_id = c[1] THEN Kind(msg_buffer[n][x]) ELSE Blank
      BY <1>3, <2>0, <2>1, <3>1, WordsPopped
    <3> QED
      BY <1>4, <1>5, <3>2 DEF words
  <2>4. ASSUME c[2] # n PROVE Words(stream, b)[c] = words[c]
    <3>1. b[c[2]] = msg_buffer[c[2]]
      BY <1>3, <1>8, <2>4, ConnFacts DEF BuffersOK
    <3> QED
      BY <3>1 DEF words, Words
  <2>2. CASE c[2] # n
    BY <2>2, <2>4
  <2>3. CASE c[2] = n
    <3>1. ASSUME NEW i \in 1 .. x - 1 PROVE words[c][i].msg_type \notin Reports
      <4>1. i \in 1 .. Len(q)
        BY <1>6
      <4>2. c[1] \in Node /\ c[1] # n /\ c = <<c[1], n>>
        BY <2>3, ConnFacts
      <4>3. PICK m \in Node : m = c[1] /\ m # n
        BY <4>2
      <4>4. words[<<m, n>>] = Word(stream[<<m, n>>], q, m)
        BY <1>4, <4>3, StateWords
      <4>5. words[c] = Word(stream[c], q, m)
        BY <4>2, <4>3, <4>4
      <4>6. stream[c] \in Seq(Wire(n))
        BY <1>3, <2>3 DEF StreamsOK
      <4>7. words[c][i] = IF q[i].sender_id = m THEN Kind(q[i]) ELSE Blank
        BY <1>5, <4>1, <4>5, <4>6, WordOK
      <4>8. q[i].msg_type = "MESSAGE_HEADER"
        BY <1>7
      <4>9. Kind(q[i]).msg_type = "MESSAGE_HEADER"
        BY <4>8, KindOK
      <4> QED
        BY <4>7, <4>9, KindOK DEF Reports
    <3> QED
      BY <2>1, <2>3, <3>1
  <2> QED
    BY <2>2, <2>3
<1>11. Took(words, Words(stream, b), n, x, msg)
  BY <1>10 DEF Took
<1> QED
  BY <1>6, <1>9, <1>11

LEMMA TookKeeps ==
    ASSUME NEW v \in [Conn -> Seq(Mark)], NEW w \in [Conn -> Seq(Mark)], NEW n, NEW x, NEW msg,
           Took(v, w, n, x, msg), NEW c \in Conn
    PROVE  /\ Carries(v[c], w[c], {})
           /\ \A k, q : FreshWord(v[c], c, k, q) => FreshWord(w[c], c, k, q)
           /\ c[2] # n \/ msg.sender_id # c[1] => Harmless(v[c], w[c])
           /\ v[c][x].msg_type # "SEE_ALL_IN_WAITING_STATE" \/ c[2] # n =>
                 /\ News(v[c]) = {} <=> News(w[c]) = {}
                 /\ Single(News(v[c])) => Single(News(w[c]))
<1>1. v[c] \in Seq(Mark) /\ w[c] \in Seq(Mark)
  OBVIOUS
<1>2. CASE c[2] = n
  <2>1. /\ Loses(v[c], w[c], x)
        /\ v[c][x] = IF msg.sender_id = c[1] THEN Kind(msg) ELSE Blank
    BY <1>2 DEF Took
  <2>2. Carries(v[c], w[c], {})
    BY <1>1, <2>1, CarriesLoses
  <2>3. \A k, q : FreshWord(v[c], c, k, q) => FreshWord(w[c], c, k, q)
    BY <1>1, <2>1, FreshLoses
  <2>4. msg.sender_id # c[1] => Harmless(v[c], w[c])
    BY <2>1 DEF Harmless
  <2>5. ASSUME v[c][x].msg_type # "SEE_ALL_IN_WAITING_STATE"
        PROVE  /\ News(v[c]) = {} <=> News(w[c]) = {}
               /\ Single(News(v[c])) => Single(News(w[c]))
    <3>1. Mild(v[c], w[c], c)
      BY <1>1, <2>1, <2>5, LosesMild
    <3> QED
      BY <3>1 DEF Mild
  <2> QED
    BY <1>2, <2>2, <2>3, <2>4, <2>5
<1>3. CASE c[2] # n
  <2>1. w[c] = v[c]
    BY <1>3 DEF Took
  <2>2. Harmless(v[c], w[c])
    BY <2>1 DEF Harmless
  <2> QED
    BY <1>1, <2>2, HarmlessOK
<1> QED
  BY <1>2, <1>3

(* The mark that is taken. *)
LEMMA TookWhat ==
    ASSUME NEW v \in [Conn -> Seq(Mark)], NEW w, NEW n \in Node, NEW x, NEW msg \in Queued(n),
           msg.msg_type # "READ_ERROR", msg.msg_type # "SHUTDOWN", Took(v, w, n, x, msg)
    PROVE  \E d \in Conn :
              /\ d = <<msg.sender_id, n>> /\ d[1] = msg.sender_id /\ d[2] = n
              /\ x \in 1 .. Len(v[d]) /\ Loses(v[d], w[d], x)
              /\ v[d][x].msg_type = msg.msg_type /\ v[d][x].epoch = msg.epoch
<1>1. msg.sender_id \in Node /\ msg.sender_id # n
  BY DEF Queued, Peers
<1>2. PICK d \in Conn : d = <<msg.sender_id, n>>
  BY <1>1, NodeFacts
<1>3. d[1] = msg.sender_id /\ d[2] = n
  BY <1>2
<1>4. Loses(v[d], w[d], x) /\ v[d][x] = Kind(msg)
  BY <1>3 DEF Took
<1>5. Kind(msg).msg_type = msg.msg_type /\ Kind(msg).epoch = msg.epoch
  BY KindOK
<1>6. x \in 1 .. Len(v[d])
  BY <1>4 DEF Loses
<1> QED
  BY <1>2, <1>3, <1>4, <1>5, <1>6

(* A node other than 0 takes what it need not act on. *)
LEMMA PeerTakes ==
    ASSUME TypeOK, TypeOK', BarrierInv, NEW n \in Peers(0), NEW x, NEW msg \in Queued(n),
           Took(words, words', n, x, msg), msg.msg_type # "READ_ERROR", msg.msg_type # "SHUTDOWN",
           msg.msg_type # "SEE_ALL_IN_WAITING_STATE" \/ n \notin Active,
           terminated' = IF msg.msg_type = "NODE_TERMINATE"
                         THEN [terminated EXCEPT ![n] = @ \cup {msg.sender_id}] ELSE terminated,
           pc' = pc, unreceived' = unreceived,
           num_waiting_nodes' = num_waiting_nodes, current_epoch' = current_epoch
    PROVE  BarrierInv'
<1>1. words \in [Conn -> Seq(Mark)] /\ words' \in [Conn -> Seq(Mark)] /\ unreceived \in Int
      /\ 0 \in Node /\ n \in Node /\ n # 0 /\ Current /\ UpToDate /\ Reporting
      /\ InFlight(words, unreceived)
  BY StateWords, NextWords, NodeFacts DEF TypeOK, Peers, BarrierInv
<1>2. \A b \in Peers(0) : b \in Node /\ b # 0 /\ <<0, b>> \in Conn /\ <<b, 0>> \in Conn
  BY NodeFacts DEF Peers
<1>3. Active' = Active /\ (Ended(0) => Ended(0)')
  BY DEF Active, Ended
<1>4. PICK d \in Conn :
         /\ d = <<msg.sender_id, n>> /\ d[1] = msg.sender_id /\ d[2] = n
         /\ x \in 1 .. Len(words[d]) /\ Loses(words[d], words'[d], x)
         /\ words[d][x].msg_type = msg.msg_type
  BY <1>1, TookWhat
<1>5. \A m \in Peers(0) : 0 \in terminated'[m] => Active = {}
  <2> SUFFICES ASSUME NEW m \in Peers(0), 0 \in terminated'[m] PROVE Active = {}
    OBVIOUS
  <2>1. CASE 0 \in terminated[m]
    BY <1>1, <2>1 DEF Current
  <2>2. CASE 0 \notin terminated[m]
    <3>1. DOMAIN terminated = Node /\ m \in Node
      BY <1>2 DEF TypeOK, KnownGone
    <3>2. msg.msg_type = "NODE_TERMINATE" /\ msg.sender_id = 0
      BY <2>2, <3>1
    <3>3. Fresh(words[d][x], d, current_epoch[0], Active = {})
      BY <1>1, <1>4 DEF Current, FreshWord
    <3> QED
      BY <1>4, <3>2, <3>3 DEF Fresh
  <2> QED
    BY <2>1, <2>2
<1>6. ASSUME NEW c \in Conn PROVE FreshWord(words'[c], c, current_epoch[0], Active = {})
  <2>1. FreshWord(words[c], c, current_epoch[0], Active = {})
    BY <1>1 DEF Current
  <2>2. \A k, q : FreshWord(words[c], c, k, q) => FreshWord(words'[c], c, k, q)
    BY <1>1, TookKeeps
  <2> QED
    BY <2>1, <2>2
<1>7. Current'
  BY <1>3, <1>5, <1>6, CurrentKept
<1>8. InFlight(words', unreceived')
  <2>1. \A c \in Conn : Carries(words[c], words'[c], {})
    BY <1>1, TookKeeps
  <2>2. InFlight(words', unreceived)
    BY <1>1, <2>1, FlyNoMore
  <2> QED
    BY <2>2
<1>9. ASSUME NEW b \in Peers(0), b \in Active
      PROVE  /\ News(words[<<0, b>>]) = {} <=> News(words'[<<0, b>>]) = {}
             /\ Single(News(words[<<0, b>>])) => Single(News(words'[<<0, b>>]))
  <2>1. PICK c \in Conn : c = <<0, b>> /\ c[2] = b /\ c[1] = 0
    BY <1>2
  <2>2. words[c][x].msg_type # "SEE_ALL_IN_WAITING_STATE" \/ c[2] # n
    <3>1. CASE b = n
      <4>1. words[c][x] = IF msg.sender_id = c[1] THEN Kind(msg) ELSE Blank
        BY <2>1, <3>1 DEF Took
      <4>2. Kind(msg).msg_type # "SEE_ALL_IN_WAITING_STATE"
        BY <1>9, <3>1, KindOK
      <4> QED
        BY <4>1, <4>2, KindOK
    <3> QED
      BY <2>1, <3>1
  <2>3. /\ News(words[c]) = {} <=> News(words'[c]) = {}
        /\ Single(News(words[c])) => Single(News(words'[c]))
    BY <1>1, <2>2, TookKeeps
  <2> QED
    BY <2>1, <2>3
<1>10. UpToDate'
  BY <1>1, <1>3, <1>9, UpToDateKept
<1>11. Reporting'
  <2>1. ASSUME NEW b \in Peers(0), NEW first, Leads(b, first) PROVE Leads(b, first)'
    <3>1. PICK c \in Conn : c = <<b, 0>> /\ c[2] = 0
      BY <1>2
    <3>2. words'[c] = words[c]
      BY <1>1, <3>1 DEF Took
    <3>3. SamePaths(words[<<b, 0>>], words'[<<b, 0>>])
      BY <3>1, <3>2 DEF SamePaths
    <3> QED
      BY <1>3, <1>9, <2>1, <3>3, LeadsKept
  <2>2. terminated'[0] = terminated[0]
    BY <1>1 DEF TypeOK, KnownGone
  <2> QED
    BY <1>1, <1>3, <2>1, <2>2, ReportingKept
<1> QED
  BY <1>7, <1>8, <1>10, <1>11 DEF BarrierInv

(* It receives a message, and reports it: v is what is left without the report. *)
LEMMA PeerGets ==
    ASSUME TypeOK, TypeOK', BarrierInv, NEW n \in Peers(0), NEW x, NEW msg \in Queued(n),
           NEW v \in [Conn -> Seq(Mark)], Took(words, v, n, x, msg),
           msg.msg_type = "MESSAGE_HEADER", msg.epoch <= current_epoch[n],
           NEW f, Wrote(v, words', n, {0}, f), f.msg_type = "GOT_MESSAGE",
           pc[n] = "receiving", pc' = [pc EXCEPT ![n] = "running"], unreceived' = unreceived - 1,
           terminated' = terminated, num_waiting_nodes' = num_waiting_nodes,
           current_epoch' = current_epoch
    PROVE  BarrierInv' /\ msg.epoch = current_epoch[n]
<1>1. words \in [Conn -> Seq(Mark)] /\ words' \in [Conn -> Seq(Mark)] /\ unreceived \in Int
      /\ 0 \in Node /\ n \in Node /\ n # 0 /\ Current /\ UpToDate /\ Reporting
      /\ InFlight(words, unreceived)
  BY StateWords, NextWords, NodeFacts DEF TypeOK, Peers, BarrierInv
<1>2. \A b \in Peers(0) : b \in Node /\ b # 0 /\ <<0, b>> \in Conn /\ <<b, 0>> \in Conn
  BY NodeFacts DEF Peers
<1>3. /\ Active' \subseteq Active /\ (Ended(0) => Ended(0)') /\ n \in Active
      /\ pc'[n] = "running" /\ \A m \in Node : m # n => pc'[m] = pc[m]
  <2>1. ~Ended(n) /\ "running" \in Places /\ n \in Active
    BY <1>1 DEF Ended, Places, Active
  <2> QED
    BY <1>1, <2>1, NodeMoves
<1>4. PICK d \in Conn :
         /\ d = <<msg.sender_id, n>> /\ d[1] = msg.sender_id /\ d[2] = n
         /\ x \in 1 .. Len(words[d]) /\ Loses(words[d], v[d], x)
         /\ words[d][x].msg_type = msg.msg_type /\ words[d][x].epoch = msg.epoch
  <2>1. msg.msg_type # "READ_ERROR" /\ msg.msg_type # "SHUTDOWN"
    OBVIOUS
  <2>2. Took(words, v, n, x, msg) /\ msg \in Queued(n)
    OBVIOUS
  <2> QED
    BY ONLY <1>1, <2>1, <2>2, TookWhat
<1>5. msg.epoch = current_epoch[0] /\ d \in Link
  <2>1. Fresh(words[d][x], d, current_epoch[0], Active = {})
    BY <1>1, <1>4 DEF Current, FreshWord
  <2> QED
    BY <1>4, <2>1 DEF Fresh
<1>6. current_epoch[n] = current_epoch[0] /\ News(words[<<0, n>>]) = {} /\ Receiver(n)
  <2>1. InStep(current_epoch[n], current_epoch[0], pc[n], News(words[<<0, n>>]))
    BY <1>1, <1>3 DEF UpToDate
  <2>2. current_epoch[n] \in Nat /\ current_epoch[0] \in Nat
    BY <1>1 DEF TypeOK
  <2>3. Receiver(n)
    BY <1>4, <1>5 DEF Receiver
  <2>4. ~ (current_epoch[n] + 1 = current_epoch[0])
    BY <1>5, <2>2
  <2> QED
    BY <2>1, <2>3, <2>4 DEF InStep
<1>7. ASSUME NEW c \in Conn
      PROVE  /\ FreshWord(words'[c], c, current_epoch[0], Active = {})
             /\ Carries(words[c], v[c], {}) /\ Carries(v[c], words'[c], {})
             /\ News(words[c]) = {} <=> News(words'[c]) = {}
             /\ Single(News(words[c])) => Single(News(words'[c]))
  <2>1. FreshWord(words[c], c, current_epoch[0], Active = {})
    BY <1>1 DEF Current
  <2>2. words[c][x].msg_type # "SEE_ALL_IN_WAITING_STATE" \/ c[2] # n
    <3>1. CASE c[2] = n
      <4>1. words[c][x] = IF msg.sender_id = c[1] THEN Kind(msg) ELSE Blank
        BY <3>1 DEF Took
      <4>2. Kind(msg).msg_type # "SEE_ALL_IN_WAITING_STATE"
        BY KindOK
      <4> QED
        BY <4>1, <4>2, KindOK
    <3> QED
      BY <3>1
  <2>3. /\ \A k, q : FreshWord(words[c], c, k, q) => FreshWord(v[c], c, k, q)
        /\ Carries(words[c], v[c], {})
        /\ News(words[c]) = {} <=> News(v[c]) = {}
        /\ Single(News(words[c])) => Single(News(v[c]))
    BY <1>1, <2>2, TookKeeps
  <2>4. FreshWord(v[c], c, current_epoch[0], Active = {})
    BY <2>1, <2>3
  <2>5. v[c] \in Seq(Mark) /\ words'[c] \in Seq(Mark)
    BY <1>1
  <2>6. CASE Longer(v[c], words'[c], f)
    <3>1. Mild(v[c], words'[c], c)
      <4>1. \A k, q : Fresh(f, c, k, q)
        BY DEF Fresh
      <4> QED
        BY <2>5, <2>6, <4>1, LongerMild
    <3> QED
      BY <2>3, <2>4, <3>1 DEF Mild
  <2>7. CASE words'[c] = v[c]
    <3>1. Carries(v[c], words'[c], {})
      BY <2>7, CarriesSame
    <3> QED
      BY <2>3, <2>4, <2>7, <3>1
  <2> QED
    BY <2>6, <2>7 DEF Wrote
<1>8. Current'
  <2>1. \A c \in Conn : FreshWord(words'[c], c, current_epoch[0], Active = {})
    BY <1>7
  <2> QED
    BY <1>1, <1>3, <2>1, CurrentKept DEF Current
<1>9. InFlight(words', unreceived')
  <2>1. x \in Msgs(words[d])
    BY <1>4 DEF Msgs
  <2>2. words[d] \in Seq(Mark) /\ v[d] \in Seq(Mark)
    BY <1>1
  <2>3. Carries(words[d], v[d], {x})
    BY <1>4, <2>2, CarriesLoses
  <2>4. \A c \in Conn : Carries(words[c], v[c], {})
    BY <1>7
  <2>5. InFlight(v, unreceived - 1)
    BY <1>1, <2>1, <2>3, <2>4, FlyOneLess
  <2>6. unreceived - 1 \in Int
    BY <1>1
  <2>7. \A c \in Conn : Carries(v[c], words'[c], {})
    BY <1>7
  <2>8. InFlight(words', unreceived - 1)
    BY <1>1, <2>5, <2>6, <2>7, FlyNoMore
  <2> QED
    BY <2>8
<1>10. UpToDate'
  <2>1. \A b \in Peers(0) : b \in Active' =>
          /\ pc'[b] = pc[b] \/ News(words[<<0, b>>]) = {}
          /\ News(words[<<0, b>>]) = {} <=> News(words'[<<0, b>>]) = {}
          /\ Single(News(words[<<0, b>>])) => Single(News(words'[<<0, b>>]))
    BY <1>2, <1>3, <1>6, <1>7
  <2> QED
    BY <1>1, <1>3, <2>1, UpToDateKept
<1>11. Reporting'
  <2>1. ASSUME ~Ended(0)', NEW b \in Peers(0), NEW first, Leads(b, first)
        PROVE  Leads(b, first)'
    <3>0. PICK c \in Conn : c = <<b, 0>> /\ c[1] = b /\ c[2] = 0
      BY <1>2
    <3>1. words[c] \in Seq(Mark) /\ words'[c] \in Seq(Mark) /\ ~Ended(0) /\ v[c] = words[c]
      BY <1>1, <1>3, <2>1, <3>0 DEF Took
    <3>2. CASE b # n
      <4>1. words'[c] = words[c]
        BY <3>0, <3>1, <3>2 DEF Wrote
      <4>2. SamePaths(words[<<b, 0>>], words'[<<b, 0>>])
        BY <3>0, <4>1 DEF SamePaths
      <4>3. pc'[b] = pc[b] /\ (News(words[<<0, b>>]) = {} <=> News(words'[<<0, b>>]) = {})
        BY <1>2, <1>3, <1>7, <3>2
      <4> QED
        BY <2>1, <4>2, <4>3, LeadsKept
    <3>3. CASE b = n
      <4>1. PICK last \in Stands : /\ Path(words[<<b, 0>>], first, last, Receiver(b))
                                   /\ Standing(pc[b], News(words[<<0, b>>]), last)
        BY <2>1 DEF Leads
      <4>2. last = "W"
        BY <1>6, <3>3, <4>1 DEF Standing
      <4>3. Longer(words[c], words'[c], f)
        BY <3>0, <3>1, <3>3 DEF Wrote
      <4>4. Path(words[c], first, "W", Receiver(n))
        BY <3>0, <3>3, <4>1, <4>2
      <4>5. Follows("W", f.msg_type, "R", Receiver(n)) /\ "R" \in Stands
        BY <1>6 DEF Follows, Reports, Stands
      <4>6. Path(words'[c], first, "R", Receiver(n))
        BY <3>1, <4>3, <4>4, <4>5, PathLonger
      <4>7. Standing(pc'[b], News(words'[<<0, b>>]), "R")
        BY <1>3, <3>3 DEF Standing
      <4> QED
        BY <3>0, <3>3, <4>5, <4>6, <4>7 DEF Leads
    <3> QED
      BY <3>2, <3>3
  <2>2. terminated'[0] = terminated[0]
    OBVIOUS
  <2> QED
    BY <1>1, <1>3, <2>1, <2>2, ReportingKept
<1> QED
  BY <1>5, <1>6, <1>8, <1>9, <1>10, <1>11 DEF BarrierInv

(* It is told of a barrier. *)
LEMMA PeerPasses ==
    ASSUME TypeOK, TypeOK', BarrierInv, NEW n \in Peers(0), NEW x, NEW msg \in Queued(n),
           Took(words, words', n, x, msg), msg.msg_type = "SEE_ALL_IN_WAITING_STATE",
           pc[n] = "receiving", pc' = [pc EXCEPT ![n] = "running"], unreceived' = unreceived,
           terminated' = terminated, num_waiting_nodes' = num_waiting_nodes,
           current_epoch' = [current_epoch EXCEPT ![n] = @ + 1]
    PROVE  BarrierInv'
<1>1. words \in [Conn -> Seq(Mark)] /\ words' \in [Conn -> Seq(Mark)] /\ unreceived \in Int
      /\ 0 \in Node /\ n \in Node /\ n # 0 /\ Current /\ UpToDate /\ Reporting
      /\ InFlight(words, unreceived)
  BY StateWords, NextWords, NodeFacts DEF TypeOK, Peers, BarrierInv
<1>2. \A b \in Peers(0) : b \in Node /\ b # 0 /\ <<0, b>> \in Conn /\ <<b, 0>> \in Conn
  BY NodeFacts DEF Peers
<1>3. /\ Active' \subseteq Active /\ (Ended(0) => Ended(0)') /\ n \in Active
      /\ pc'[n] = "running" /\ \A m \in Node : m # n => pc'[m] = pc[m]
  <2>1. ~Ended(n) /\ "running" \in Places /\ n \in Active
    BY <1>1 DEF Ended, Places, Active
  <2> QED
    BY <1>1, <2>1, NodeMoves
<1>4. PICK d \in Conn :
         /\ d = <<msg.sender_id, n>> /\ d[1] = msg.sender_id /\ d[2] = n
         /\ x \in 1 .. Len(words[d]) /\ Loses(words[d], words'[d], x)
         /\ words[d][x].msg_type = msg.msg_type
  <2>1. msg.msg_type # "READ_ERROR" /\ msg.msg_type # "SHUTDOWN"
    OBVIOUS
  <2>2. Took(words, words', n, x, msg) /\ msg \in Queued(n)
    OBVIOUS
  <2> QED
    BY ONLY <1>1, <2>1, <2>2, TookWhat
<1>5. d = <<0, n>>
  <2>1. Fresh(words[d][x], d, current_epoch[0], Active = {})
    BY <1>1, <1>4 DEF Current, FreshWord
  <2> QED
    BY <1>4, <2>1 DEF Fresh
<1>6. /\ current_epoch[n] + 1 = current_epoch[0] /\ News(words[<<0, n>>]) # {}
      /\ News(words'[<<0, n>>]) = {}
  <2>1. InStep(current_epoch[n], current_epoch[0], pc[n], News(words[d]))
    BY <1>1, <1>3, <1>5 DEF UpToDate
  <2>2. x \in News(words[d])
    BY <1>4 DEF News
  <2>3. current_epoch[n] + 1 = current_epoch[0] /\ Single(News(words[d]))
    BY <2>1, <2>2 DEF InStep, Single
  <2>4. words[d] \in Seq(Mark) /\ words'[d] \in Seq(Mark)
    BY <1>1
  <2>5. News(words'[d]) = {}
    BY <1>4, <2>2, <2>3, <2>4, NewsLoses
  <2> QED
    BY <1>5, <2>2, <2>3, <2>5
<1>7. current_epoch'[n] = current_epoch[n] + 1 /\ \A m \in Node : m # n =>
         current_epoch'[m] = current_epoch[m]
  BY <1>1 DEF TypeOK
<1>8. Current'
  <2>1. ASSUME NEW c \in Conn PROVE FreshWord(words'[c], c, current_epoch[0], Active = {})
    <3>1. FreshWord(words[c], c, current_epoch[0], Active = {})
      BY <1>1 DEF Current
    <3>2. \A k, q : FreshWord(words[c], c, k, q) => FreshWord(words'[c], c, k, q)
      BY <1>1, TookKeeps
    <3> QED
      BY <3>1, <3>2
  <2>2. current_epoch'[0] = current_epoch[0]
    BY <1>1, <1>7
  <2> QED
    BY <1>1, <1>3, <2>1, <2>2, CurrentKept DEF Current
<1>9. InFlight(words', unreceived')
  <2>1. \A c \in Conn : Carries(words[c], words'[c], {})
    BY <1>1, TookKeeps
  <2>2. InFlight(words', unreceived)
    BY <1>1, <2>1, FlyNoMore
  <2> QED
    BY <2>2
<1>10. \A b \in Peers(0) : b # n => words'[<<0, b>>] = words[<<0, b>>]
  <2> SUFFICES ASSUME NEW b \in Peers(0), b # n PROVE words'[<<0, b>>] = words[<<0, b>>]
    OBVIOUS
  <2>1. PICK c \in Conn : c = <<0, b>> /\ c[2] = b
    BY <1>2
  <2> QED
    BY <2>1 DEF Took
<1>11. UpToDate'
  <2> SUFFICES ASSUME NEW b \in Peers(0), b \in Active'
               PROVE  InStep(current_epoch'[b], current_epoch'[0], pc'[b], News(words'[<<0, b>>]))
    BY DEF UpToDate
  <2>1. CASE b = n
    BY <1>1, <1>6, <1>7, <2>1 DEF InStep
  <2>2. CASE b # n
    <3>1. InStep(current_epoch[b], current_epoch[0], pc[b], News(words[<<0, b>>]))
      BY <1>1, <1>3 DEF UpToDate
    <3>2. /\ current_epoch'[b] = current_epoch[b] /\ current_epoch'[0] = current_epoch[0]
          /\ pc'[b] = pc[b] /\ words'[<<0, b>>] = words[<<0, b>>]
      BY <1>1, <1>2, <1>3, <1>7, <1>10, <2>2
    <3> QED
      BY <3>1, <3>2
  <2> QED
    BY <2>1, <2>2
<1>12. Reporting'
  <2>1. ASSUME NEW b \in Peers(0), NEW first, Leads(b, first) PROVE Leads(b, first)'
    <3>1. PICK c \in Conn : c = <<b, 0>> /\ c[2] = 0
      BY <1>2
    <3>2. words'[<<b, 0>>] = words[<<b, 0>>]
      BY <1>1, <3>1 DEF Took
    <3>3. CASE b # n
      <4>1. SamePaths(words[<<b, 0>>], words'[<<b, 0>>])
        BY <3>2 DEF SamePaths
      <4>2. pc'[b] = pc[b] /\ (News(words[<<0, b>>]) = {} <=> News(words'[<<0, b>>]) = {})
        BY <1>2, <1>3, <1>10, <3>3
      <4> QED
        BY <2>1, <4>1, <4>2, LeadsKept
    <3>4. CASE b = n
      <4>1. PICK last \in Stands : /\ Path(words[<<b, 0>>], first, last, Receiver(b))
                                   /\ Standing(pc[b], News(words[<<0, b>>]), last)
        BY <2>1 DEF Leads
      <4>2. last = "R"
        BY <1>6, <3>4, <4>1 DEF Standing
      <4>3. Standing(pc'[b], News(words'[<<0, b>>]), last)
        BY <1>3, <3>4, <4>2 DEF Standing
      <4>4. Path(words'[<<b, 0>>], first, last, Receiver(b))
        BY <3>2, <4>1
      <4> QED
        BY <4>3, <4>4 DEF Leads
    <3> QED
      BY <3>3, <3>4
  <2>2. terminated'[0] = terminated[0]
    OBVIOUS
  <2> QED
    BY <1>1, <1>3, <2>1, <2>2, ReportingKept
<1> QED
  BY <1>8, <1>9, <1>11, <1>12 DEF BarrierInv

LEMMA WaitingChanges ==
    ASSUME NEW at \in [Peers(0) -> Stands], NEW b \in Peers(0), NEW next \in Stands,
           NEW to, to = [at EXCEPT ![b] = next]
    PROVE  /\ Cardinality({m \in Peers(0) : at[m] = "W"}) \in Nat
           /\ Cardinality({m \in Peers(0) : to[m] = "W"}) =
                 Cardinality({m \in Peers(0) : at[m] = "W"})
                 + (IF next = "W" THEN 1 ELSE 0) - (IF at[b] = "W" THEN 1 ELSE 0)
<1> DEFINE S == {m \in Peers(0) : at[m] = "W"}
           T == {m \in Peers(0) : to[m] = "W"}
           R == {m \in Peers(0) \ {b} : at[m] = "W"}
<1>1. /\ S = IF at[b] = "W" THEN R \cup {b} ELSE R
      /\ T = IF next = "W" THEN R \cup {b} ELSE R
  OBVIOUS
<1>2. b \notin R /\ R \in SUBSET Peers(0)
  OBVIOUS
<1> HIDE DEF S, T, R
<1>3. IsFiniteSet(R) /\ Cardinality(R) \in Nat
  BY <1>2, PeersFinite, FS_Subset, FS_CardinalityType
<1>4. Cardinality(R \cup {b}) = Cardinality(R) + 1
  BY <1>2, <1>3, FS_AddElement
<1>5. Cardinality(S) = Cardinality(R) + (IF at[b] = "W" THEN 1 ELSE 0)
  <2>1. CASE at[b] = "W"
    <3>1. Cardinality(S) = Cardinality(R \cup {b})
      BY <1>1, <2>1
    <3> QED
      BY <1>4, <2>1, <3>1
  <2>2. CASE at[b] # "W"
    <3>1. Cardinality(S) = Cardinality(R)
      BY <1>1, <2>2
    <3> QED
      BY <1>3, <2>2, <3>1
  <2> QED
    BY <2>1, <2>2
<1>6. Cardinality(T) = Cardinality(R) + (IF next = "W" THEN 1 ELSE 0)
  <2>1. CASE next = "W"
    <3>1. Cardinality(T) = Cardinality(R \cup {b})
      BY <1>1, <2>1
    <3> QED
      BY <1>4, <2>1, <3>1
  <2>2. CASE next # "W"
    <3>1. Cardinality(T) = Cardinality(R)
      BY <1>1, <2>2
    <3> QED
      BY <1>3, <2>2, <3>1
  <2> QED
    BY <2>1, <2>2
<1>7. Cardinality(S) \in Nat
  BY <1>3, <1>5
<1>8. Cardinality(T) = Cardinality(S) + (IF next = "W" THEN 1 ELSE 0)
                       - (IF at[b] = "W" THEN 1 ELSE 0)
  BY <1>3, <1>5, <1>6
<1> QED
  BY <1>7, <1>8 DEF S, T

(* How much an element adds to the number of waiting nodes. *)
Waits(type) == CASE type = "IN_WAITING_STATE" -> 1 [] type = "GOT_MESSAGE" -> -1 [] OTHER -> 0

(* What node 0 takes says how the sender stands after it. *)
LEMMA StandChanges ==
    ASSUME NEW first \in Stands, NEW here, here = first \/ (first = "R" /\ here = "M"),
           NEW next \in Stands, NEW type, type \in Reports \cup {"MESSAGE_HEADER"}, NEW receiver,
           Follows(here, type, next, receiver)
    PROVE  /\ (IF next = "W" THEN 1 ELSE 0) - (IF first = "W" THEN 1 ELSE 0) = Waits(type)
           /\ first = "T" => next = "T" /\ type = "MESSAGE_HEADER"
           /\ type = "NODE_TERMINATE" => next = "T"
<1>1. CASE type = "SENT_MESSAGE"
  <2>1. next = "R" /\ first # "W" /\ first # "T"
    BY <1>1 DEF Follows
  <2>2. Waits(type) = 0
    BY <1>1 DEF Waits
  <2>3. (IF next = "W" THEN 1 ELSE 0) = 0 /\ (IF first = "W" THEN 1 ELSE 0) = 0
    BY <2>1
  <2> QED
    BY <1>1, <2>1, <2>2, <2>3
<1>2. CASE type = "IN_WAITING_STATE"
  <2>1. next = "W" /\ first = "R"
    BY <1>2 DEF Follows
  <2>2. Waits(type) = 1
    BY <1>2 DEF Waits
  <2>3. (IF next = "W" THEN 1 ELSE 0) = 1 /\ (IF first = "W" THEN 1 ELSE 0) = 0
    BY <2>1
  <2> QED
    BY <1>2, <2>1, <2>2, <2>3
<1>3. CASE type = "GOT_MESSAGE"
  <2>1. next = "R" /\ first = "W"
    BY <1>3 DEF Follows
  <2> QED
    BY <1>3, <2>1 DEF Waits
<1>4. CASE type = "NODE_TERMINATE"
  <2>1. next = "T" /\ first = "R"
    BY <1>4 DEF Follows
  <2> QED
    BY <1>4, <2>1 DEF Waits
<1>5. CASE type = "MESSAGE_HEADER"
  <2>1. next = "W" <=> first = "W"
    BY <1>5 DEF Follows
  <2>2. first = "T" => next = "T"
    BY <1>5 DEF Follows
  <2>3. Waits(type) = 0
    BY <1>5 DEF Waits
  <2> QED
    BY <1>5, <2>1, <2>2, <2>3
<1> QED
  BY <1>1, <1>2, <1>3, <1>4, <1>5 DEF Reports

LEMMA ZeroReports ==
    ASSUME TypeOK, TypeOK', BarrierInv, NEW x, NEW msg \in Queued(0),
           Took(words, words', 0, x, msg), msg.msg_type \in Reports \cup {"MESSAGE_HEADER"},
           ~Ended(0), num_waiting_nodes' = num_waiting_nodes + Waits(msg.msg_type),
           terminated' = IF msg.msg_type = "NODE_TERMINATE"
                         THEN [terminated EXCEPT ![0] = @ \cup {msg.sender_id}] ELSE terminated,
           \A m \in Peers(0) : pc'[m] = pc[m]
    PROVE  Reporting'
<1>1. words \in [Conn -> Seq(Mark)] /\ words' \in [Conn -> Seq(Mark)] /\ 0 \in Node
  BY StateWords, NextWords, NodeFacts
<1>2. \A m \in Peers(0) : m \in Node /\ m # 0 /\ <<0, m>> \in Conn /\ <<m, 0>> \in Conn
  BY NodeFacts DEF Peers
<1>3. PICK b : b = msg.sender_id
  OBVIOUS
<1>4. b \in Peers(0)
  BY <1>3 DEF Queued
<1>5. PICK d \in Conn :
         /\ d = <<b, 0>> /\ x \in 1 .. Len(words[d]) /\ Loses(words[d], words'[d], x)
         /\ words[d][x].msg_type = msg.msg_type /\ d[2] = 0
  <2>1. msg.msg_type # "READ_ERROR" /\ msg.msg_type # "SHUTDOWN"
    BY DEF Reports
  <2>2. Took(words, words', 0, x, msg) /\ msg \in Queued(0)
    OBVIOUS
  <2>3. PICK d \in Conn :
              /\ d = <<msg.sender_id, 0>> /\ d[1] = msg.sender_id /\ d[2] = 0
              /\ x \in 1 .. Len(words[d]) /\ Loses(words[d], words'[d], x)
              /\ words[d][x].msg_type = msg.msg_type /\ words[d][x].epoch = msg.epoch
    BY ONLY <1>1, <2>1, <2>2, TookWhat
  <2> QED
    BY <1>3, <2>3
<1>6. PICK at : Seen(at)
  BY DEF BarrierInv, Reporting
<1>7. at \in [Peers(0) -> Stands]
  BY <1>6 DEF Seen
<1>8. PICK first \in Stands : first = at[b] /\ Leads(b, first)
  BY <1>4, <1>6, <1>7 DEF Seen
<1>9. PICK last \in Stands : /\ Path(words[d], first, last, Receiver(b))
                             /\ Standing(pc[b], News(words[<<0, b>>]), last)
  BY <1>5, <1>8 DEF Leads
<1>10. PICK next \in Stands, here \in Stands :
              /\ Path(words'[d], next, last, Receiver(b))
              /\ here = first \/ (first = "R" /\ here = "M")
              /\ Follows(here, msg.msg_type, next, Receiver(b))
  <2>1. \A i \in 1 .. x - 1 : words[d][i].msg_type \notin Reports
    BY <1>5 DEF Took
  <2>2. words[d] \in Seq(Mark) /\ words'[d] \in Seq(Mark)
    BY <1>1
  <2>3. \E next \in Stands, here \in Stands :
              /\ Path(words'[d], next, last, Receiver(b))
              /\ here = first \/ (first = "R" /\ here = "M")
              /\ Follows(here, words[d][x].msg_type, next, Receiver(b))
    <3>1. Loses(words[d], words'[d], x) /\ Path(words[d], first, last, Receiver(b))
      BY <1>5, <1>9
    <3> QED
      BY ONLY <2>1, <2>2, <3>1, PathDrops
  <2> QED
    BY <1>5, <2>3
<1>11. /\ (IF next = "W" THEN 1 ELSE 0) - (IF first = "W" THEN 1 ELSE 0) = Waits(msg.msg_type)
       /\ first = "T" => next = "T"
       /\ msg.msg_type = "NODE_TERMINATE" => next = "T"
  BY <1>10, StandChanges
<1>12. PICK to : to = [at EXCEPT ![b] = next]
  OBVIOUS
<1>13. to \in [Peers(0) -> Stands] /\ \A m \in Peers(0) : to[m] = IF m = b THEN next ELSE at[m]
  BY <1>7, <1>12
<1>14. num_waiting_nodes' = Cardinality({m \in Peers(0) : to[m] = "W"})
  <2>1. /\ Cardinality({m \in Peers(0) : at[m] = "W"}) \in Nat
        /\ Cardinality({m \in Peers(0) : to[m] = "W"}) =
                 Cardinality({m \in Peers(0) : at[m] = "W"})
                 + (IF next = "W" THEN 1 ELSE 0) - (IF at[b] = "W" THEN 1 ELSE 0)
    BY <1>4, <1>7, <1>12, WaitingChanges
  <2>2. num_waiting_nodes = Cardinality({m \in Peers(0) : at[m] = "W"})
    BY <1>6 DEF Seen
  <2>3. PICK k \in Nat : k = Cardinality({m \in Peers(0) : at[m] = "W"})
    BY <2>1
  <2>6. PICK l : l = Cardinality({m \in Peers(0) : to[m] = "W"})
    OBVIOUS
  <2>4. l = k + (IF next = "W" THEN 1 ELSE 0) - (IF first = "W" THEN 1 ELSE 0)
    BY <1>8, <2>1, <2>3, <2>6
  <2>5. l = k + Waits(msg.msg_type)
    BY <1>11, <2>4
  <2> QED
    BY <2>2, <2>3, <2>5, <2>6
<1>15. ASSUME NEW m \in Peers(0) PROVE News(words'[<<0, m>>]) = News(words[<<0, m>>])
  <2>1. PICK c \in Conn : c = <<0, m>> /\ c[2] # 0
    BY <1>2
  <2>2. words'[c] = words[c]
    BY <2>1 DEF Took
  <2> QED
    BY <2>1, <2>2
<1>16. ASSUME NEW m \in Peers(0) PROVE Leads(m, to[m])'
  <2>1. CASE m = b
    <3>1. Standing(pc'[b], News(words'[<<0, b>>]), last)
      BY <1>4, <1>9, <1>15
    <3>2. Leads(b, next)'
      BY <1>5, <1>10, <3>1 DEF Leads
    <3> QED
      BY <1>13, <2>1, <3>2
  <2>2. CASE m # b
    <3>1. PICK c \in Conn : c = <<m, 0>> /\ c[1] = m /\ c[2] = 0
      BY <1>2
    <3>2. Harmless(words[c], words'[c])
      BY <1>1, <1>3, <2>2, <3>1, TookKeeps
    <3>3. words[c] \in Seq(Mark) /\ words'[c] \in Seq(Mark)
      BY <1>1
    <3>4. SamePaths(words[<<m, 0>>], words'[<<m, 0>>])
      BY <3>1, <3>2, <3>3, HarmlessMild
    <3>5. PICK f : f = at[m]
      OBVIOUS
    <3>6. Leads(m, f)
      BY <1>6, <3>5 DEF Seen
    <3>7. pc'[m] = pc[m] /\ (News(words[<<0, m>>]) = {} <=> News(words'[<<0, m>>]) = {})
      BY <1>15
    <3>8. Leads(m, f)'
      BY <3>4, <3>6, <3>7, LeadsKept
    <3> QED
      BY <1>13, <2>2, <3>5, <3>8
  <2> QED
    BY <2>1, <2>2
<1>17. ASSUME NEW m \in Peers(0), m \in terminated'[0] PROVE to[m] = "T"
  <2>1. CASE m \in terminated[0]
    <3>1. at[m] = "T"
      BY <1>6, <2>1 DEF Seen
    <3> QED
      BY <1>8, <1>11, <1>13, <3>1
  <2>2. CASE m \notin terminated[0]
    <3>1. DOMAIN terminated = Node
      BY DEF TypeOK, KnownGone
    <3>2. msg.msg_type = "NODE_TERMINATE" /\ m = b
      BY <1>1, <1>3, <1>17, <2>2, <3>1
    <3> QED
      BY <1>11, <1>13, <3>2
  <2> QED
    BY <2>1, <2>2
<1>18. Seen(to)'
  BY <1>13, <1>14, <1>16, <1>17 DEF Seen
<1> QED
  BY <1>18 DEF Reporting

(* Node 0 takes a report or a message. *)
LEMMA ZeroTakes ==
    ASSUME TypeOK, TypeOK', BarrierInv, NEW x, NEW msg \in Queued(0),
           Took(words, words', 0, x, msg), msg.msg_type \in Reports \cup {"MESSAGE_HEADER"},
           ~Ended(0), num_waiting_nodes' = num_waiting_nodes + Waits(msg.msg_type),
           terminated' = IF msg.msg_type = "NODE_TERMINATE"
                         THEN [terminated EXCEPT ![0] = @ \cup {msg.sender_id}] ELSE terminated,
           \A m \in Peers(0) : pc'[m] = pc[m], Active' \subseteq Active,
           \/ unreceived' = unreceived
           \/ msg.msg_type = "MESSAGE_HEADER" /\ unreceived' = unreceived - 1,
           current_epoch' = current_epoch
    PROVE  BarrierInv' /\ (msg.msg_type = "MESSAGE_HEADER" => msg.epoch = current_epoch[0])
<1>1. words \in [Conn -> Seq(Mark)] /\ words' \in [Conn -> Seq(Mark)] /\ unreceived \in Int
      /\ 0 \in Node /\ Current /\ UpToDate /\ InFlight(words, unreceived)
  BY StateWords, NextWords, NodeFacts DEF TypeOK, BarrierInv
<1>2. \A m \in Peers(0) : m \in Node /\ m # 0 /\ <<0, m>> \in Conn /\ <<m, 0>> \in Conn
  BY NodeFacts DEF Peers
<1>3. PICK d \in Conn :
         /\ x \in 1 .. Len(words[d]) /\ Loses(words[d], words'[d], x)
         /\ words[d][x].msg_type = msg.msg_type /\ words[d][x].epoch = msg.epoch
  <2>1. msg.msg_type # "READ_ERROR" /\ msg.msg_type # "SHUTDOWN"
    BY DEF Reports
  <2>2. Took(words, words', 0, x, msg) /\ msg \in Queued(0)
    OBVIOUS
  <2>3. PICK d \in Conn :
              /\ d = <<msg.sender_id, 0>> /\ d[1] = msg.sender_id /\ d[2] = 0
              /\ x \in 1 .. Len(words[d]) /\ Loses(words[d], words'[d], x)
              /\ words[d][x].msg_type = msg.msg_type /\ words[d][x].epoch = msg.epoch
    BY ONLY <1>1, <2>1, <2>2, TookWhat
  <2> QED
    BY <2>3
<1>4. ASSUME NEW c \in Conn
      PROVE  /\ FreshWord(words'[c], c, current_epoch[0], Active = {})
             /\ Carries(words[c], words'[c], {})
  <2>1. FreshWord(words[c], c, current_epoch[0], Active = {})
    BY <1>1 DEF Current
  <2>2. /\ Carries(words[c], words'[c], {})
        /\ \A k, q : FreshWord(words[c], c, k, q) => FreshWord(words'[c], c, k, q)
    BY <1>1, TookKeeps
  <2> QED
    BY <2>1, <2>2
<1>5. \A m \in Peers(0) : terminated'[m] = terminated[m]
  <2>1. DOMAIN terminated = Node
    BY DEF TypeOK, KnownGone
  <2> QED
    BY <1>2, <2>1
<1>6. Current'
  <2>1. \A c \in Conn : FreshWord(words'[c], c, current_epoch[0], Active = {})
    BY <1>4
  <2>2. \A m \in Peers(0) : 0 \in terminated'[m] => Active = {}
    BY <1>1, <1>5 DEF Current
  <2> QED
    BY <2>1, <2>2, CurrentKept
<1>7. InFlight(words', unreceived')
  <2>0. \A c \in Conn : Carries(words[c], words'[c], {})
    BY <1>4
  <2>1. InFlight(words', unreceived)
    BY <1>1, <2>0, FlyNoMore
  <2>2. ASSUME msg.msg_type = "MESSAGE_HEADER" PROVE InFlight(words', unreceived - 1)
    <3>1. x \in Msgs(words[d])
      BY <1>3, <2>2 DEF Msgs
    <3>2. words[d] \in Seq(Mark) /\ words'[d] \in Seq(Mark)
      BY <1>1
    <3>3. Carries(words[d], words'[d], {x})
      BY <1>3, <3>2, CarriesLoses
    <3> QED
      BY <1>1, <2>0, <3>1, <3>3, FlyOneLess
  <2> QED
    BY <2>1, <2>2
<1>8. ASSUME NEW m \in Peers(0) PROVE words'[<<0, m>>] = words[<<0, m>>]
  <2>1. PICK c \in Conn : c = <<0, m>> /\ c[2] # 0
    BY <1>2
  <2>2. words'[c] = words[c]
    BY <2>1 DEF Took
  <2> QED
    BY <2>1, <2>2
<1>9. UpToDate'
  BY <1>1, <1>8, UpToDateKept
<1>10. Reporting'
  BY ZeroReports
<1>11. msg.msg_type = "MESSAGE_HEADER" => msg.epoch = current_epoch[0]
  <2>1. Fresh(words[d][x], d, current_epoch[0], Active = {})
    BY <1>1, <1>3 DEF Current, FreshWord
  <2> QED
    BY <1>3, <2>1 DEF Fresh
<1> QED
  BY <1>6, <1>7, <1>9, <1>10, <1>11 DEF BarrierInv

-----------------------------------------------------------------------------
(* What is taken without effect on the program. *)
LEMMA BarrierTakes ==
    ASSUME TypeOK, TypeOK', BarrierInv, NEW n \in Node, ~Ended(n), NEW max,
           NEW msg \in Popped(n, max), Pops(n), Takes(n, msg),
           \/ msg.msg_type \in Reports
           \/ msg.msg_type = "SEE_ALL_IN_WAITING_STATE" /\ n \notin Active,
           pc' = pc, stream' = stream, unreceived' = unreceived, current_epoch' = current_epoch
    PROVE  BarrierInv'
<1>1. msg \in Queued(n) /\ msg.msg_type \notin {"READ_ERROR", "SHUTDOWN"}
  BY PopsOK DEF Reports
<1>2. PICK x \in Nat : Took(words, words', n, x, msg)
  <2>1. \E x \in Nat : Took(words, Words(stream, msg_buffer'), n, x, msg)
    BY Popping
  <2> QED
    BY <2>1 DEF words
<1>3. /\ num_waiting_nodes' = num_waiting_nodes + Waits(msg.msg_type)
      /\ terminated' = IF msg.msg_type = "NODE_TERMINATE"
                       THEN [terminated EXCEPT ![n] = @ \cup {msg.sender_id}] ELSE terminated
  BY DEF Takes, Counts, Waits
<1>4. Active' = Active /\ words \in [Conn -> Seq(Mark)] /\ num_waiting_nodes \in Int
  BY StateWords DEF Active, TypeOK
<1>5. CASE n = 0
  <2>1. msg.msg_type \in Reports
    <3>1. ASSUME msg.msg_type = "SEE_ALL_IN_WAITING_STATE" PROVE FALSE
      <4>1. msg.msg_type # "READ_ERROR" /\ msg.msg_type # "SHUTDOWN"
        BY <1>1
      <4>2. PICK d \in Conn :
              /\ d = <<msg.sender_id, n>> /\ d[1] = msg.sender_id /\ d[2] = n
              /\ x \in 1 .. Len(words[d]) /\ Loses(words[d], words'[d], x)
              /\ words[d][x].msg_type = msg.msg_type /\ words[d][x].epoch = msg.epoch
        <5>1. words \in [Conn -> Seq(Mark)] /\ words' \in [Conn -> Seq(Mark)]
          BY <1>4, NextWords
        <5>2. PICK v \in [Conn -> Seq(Mark)], w \in [Conn -> Seq(Mark)] : v = words /\ w = words'
          BY <5>1
        <5>3. PICK g \in Queued(n) : g = msg
          BY <1>1
        <5>4. g.msg_type # "READ_ERROR" /\ g.msg_type # "SHUTDOWN"
          BY <4>1, <5>3
        <5>5. Took(v, w, n, x, g)
          BY <1>2, <5>2, <5>3
        <5>6. \E d \in Conn :
              /\ d = <<g.sender_id, n>> /\ d[1] = g.sender_id /\ d[2] = n
              /\ x \in 1 .. Len(v[d]) /\ Loses(v[d], w[d], x)
              /\ v[d][x].msg_type = g.msg_type /\ v[d][x].epoch = g.epoch
          BY ONLY <5>4, <5>5, TookWhat
        <5> QED
          BY <5>2, <5>3, <5>6
      <4>3. Fresh(words[d][x], d, current_epoch[0], Active = {})
        BY <4>2 DEF BarrierInv, Current, FreshWord
      <4>4. msg.sender_id = 0
        BY <3>1, <4>2, <4>3 DEF Fresh
      <4> QED
        BY <1>1, <1>5, <4>4 DEF Queued, Peers
    <3> QED
      BY <3>1
  <2>2. /\ msg \in Queued(0) /\ Took(words, words', 0, x, msg) /\ ~Ended(0)
        /\ msg.msg_type \in Reports \cup {"MESSAGE_HEADER"}
        /\ terminated' = IF msg.msg_type = "NODE_TERMINATE"
                         THEN [terminated EXCEPT ![0] = @ \cup {msg.sender_id}] ELSE terminated
    BY <1>1, <1>2, <1>3, <1>5, <2>1
  <2>3. Active' \subseteq Active /\ \A m \in Peers(0) : pc'[m] = pc[m]
    BY <1>4
  <2> QED
    BY <1>3, <2>2, <2>3, ZeroTakes
<1>6. CASE n # 0
  <2>1. n \in Peers(0)
    BY <1>6 DEF Peers
  <2>2. Waits(msg.msg_type) = 0
    <3>1. msg.msg_type \notin Counted
      BY <1>1, <1>6 DEF Queued
    <3> QED
      BY <3>1 DEF Waits, Counted
  <2>3. num_waiting_nodes' = num_waiting_nodes
    BY <1>3, <1>4, <2>2
  <2>4. msg.msg_type # "SEE_ALL_IN_WAITING_STATE" \/ n \notin Active
    BY DEF Reports
  <2>5. msg.msg_type # "READ_ERROR" /\ msg.msg_type # "SHUTDOWN"
    BY <1>1
  <2> QED
    BY <1>1, <1>2, <1>3, <2>1, <2>3, <2>4, <2>5, PeerTakes
<1> QED
  BY <1>5, <1>6

LEMMA BarrierClosingPops ==
    ASSUME TypeOK, TypeOK', BarrierInv, NEW n \in Node, ClosingPops(n)
    PROVE  BarrierInv'
<1>1. pc[n] = "closing" /\ current_epoch' = current_epoch /\ unreceived' = unreceived
  BY DEF ClosingPops
<1>2. PICK msg :
         /\ msg \in Popped(n, msg.epoch)
         /\ \/ Throw(n) /\ UNCHANGED <<terminated, counts>>
            \/ /\ msg.msg_type \in Reports \cup {"SEE_ALL_IN_WAITING_STATE"}
               /\ Pops(n) /\ Takes(n, msg) /\ UNCHANGED <<pc, stream>>
  BY DEF ClosingPops
<1>3. CASE Throw(n) /\ UNCHANGED <<terminated, counts>>
  <2>1. terminated' = terminated /\ num_waiting_nodes' = num_waiting_nodes
    BY <1>3 DEF counts
  <2> QED
    BY <1>1, <1>3, <2>1, BarrierThrow
<1>4. CASE /\ msg.msg_type \in Reports \cup {"SEE_ALL_IN_WAITING_STATE"}
           /\ Pops(n) /\ Takes(n, msg) /\ UNCHANGED <<pc, stream>>
  <2>1. ~Ended(n) /\ n \notin Active /\ pc' = pc /\ stream' = stream
    BY <1>1, <1>4 DEF Ended, Active
  <2>2. PICK max : max = msg.epoch
    OBVIOUS
  <2>3. msg \in Popped(n, max)
    BY <1>2, <2>2
  <2> QED
    BY <1>1, <1>4, <2>1, <2>3, BarrierTakes
<1> QED
  BY <1>2, <1>3, <1>4

(* A message is received. *)
LEMMA BarrierGets ==
    ASSUME TypeOK, TypeOK', BarrierInv, NEW n \in Node, pc[n] = "receiving",
           NEW msg \in Popped(n, current_epoch[n]), Pops(n), msg.msg_type = "MESSAGE_HEADER",
           pc' = [pc EXCEPT ![n] = "running"],
           stream' = notify_control_node(stream, n, "GOT_MESSAGE"),
           unreceived' = unreceived - 1, current_epoch' = current_epoch,
           terminated' = terminated, num_waiting_nodes' = num_waiting_nodes
    PROVE  BarrierInv' /\ msg.epoch = current_epoch[n]
<1>1. msg \in Queued(n) /\ msg.epoch <= current_epoch[n]
  BY PopsOK DEF Popped
<1> DEFINE v == Words(stream, msg_buffer')
<1>2. PICK x \in Nat : Took(words, v, n, x, msg)
  BY Popping
<1>3. StreamsOK(stream) /\ BuffersOK(msg_buffer') /\ words \in [Conn -> Seq(Mark)]
  BY StateWords, NextWords
<1>4. v \in [Conn -> Seq(Mark)] /\ num_waiting_nodes \in Int
  BY <1>3, WordsOK DEF TypeOK
<1>5. CASE n = 0
  <2>1. stream' = stream
    BY <1>5 DEF notify_control_node
  <2>2. words' = v
    BY <2>1 DEF words
  <2> HIDE DEF v
  <2>3. /\ ~Ended(0) /\ Active' \subseteq Active /\ \A m \in Node : m # n => pc'[m] = pc[m]
    <3>1. ~Ended(n) /\ "running" \in Places /\ n \in Active
      BY DEF Ended, Places, Active
    <3>2. Active' \subseteq Active /\ \A m \in Node : m # n => pc'[m] = pc[m]
      BY <3>1, NodeMoves
    <3> QED
      BY <1>5, <3>1, <3>2
  <2>4. Took(words, words', 0, x, msg) /\ msg \in Queued(0)
    BY <1>1, <1>2, <1>5, <2>2
  <2>5. num_waiting_nodes' = num_waiting_nodes + Waits(msg.msg_type)
    <3>1. Waits(msg.msg_type) = 0
      BY DEF Waits
    <3> QED
      BY <1>4, <3>1
  <2>6. /\ msg.msg_type \in Reports \cup {"MESSAGE_HEADER"}
        /\ msg.msg_type = "MESSAGE_HEADER" /\ unreceived' = unreceived - 1
        /\ terminated' = IF msg.msg_type = "NODE_TERMINATE"
                         THEN [terminated EXCEPT ![0] = @ \cup {msg.sender_id}] ELSE terminated
    OBVIOUS
  <2>7. \A m \in Peers(0) : pc'[m] = pc[m]
    BY <1>5, <2>3 DEF Peers
  <2> QED
    BY <1>5, <2>3, <2>4, <2>5, <2>6, <2>7, ZeroTakes
<1>6. CASE n # 0
  <2> DEFINE f == Control("GOT_MESSAGE")
  <2>1. n \in Peers(0) /\ stream' = Written(stream, n, {0}, f)
    BY <1>6 DEF Peers, notify_control_node
  <2>2. f \in Wire(0) /\ f.msg_type = "GOT_MESSAGE" /\ \A t \in {0} : f \in Wire(t)
    BY ControlOK DEF Types, Counted, Reports
  <2> HIDE DEF f
  <2>3. Kind(f).msg_type = "GOT_MESSAGE"
    BY <2>2, KindOK
  <2>4. PICK b : b = msg_buffer'
    OBVIOUS
  <2>5. Wrote(Words(stream, b), Words(Written(stream, n, {0}, f), b), n, {0}, Kind(f))
    BY <1>3, <2>2, <2>4, WordsWritten
  <2>6. Wrote(v, words', n, {0}, Kind(f))
    BY <2>1, <2>4, <2>5 DEF words
  <2> HIDE DEF v
  <2> QED
    BY <1>1, <1>2, <1>4, <2>1, <2>3, <2>6, PeerGets
<1> QED
  BY <1>5, <1>6

(* The news of a barrier are only for the others. *)
LEMMA BarrierPasses ==
    ASSUME TypeOK, TypeOK', BarrierInv, NEW n \in Node, pc[n] = "receiving",
           NEW max, NEW msg \in Popped(n, max), Pops(n),
           msg.msg_type = "SEE_ALL_IN_WAITING_STATE",
           pc' = [pc EXCEPT ![n] = "running"], stream' = stream,
           current_epoch' = [current_epoch EXCEPT ![n] = @ + 1], unreceived' = unreceived,
           terminated' = terminated, num_waiting_nodes' = num_waiting_nodes
    PROVE  BarrierInv' /\ n # 0
<1>1. msg \in Queued(n)
  BY PopsOK
<1>2. PICK x \in Nat : Took(words, words', n, x, msg)
  <2>1. \E x \in Nat : Took(words, Words(stream, msg_buffer'), n, x, msg)
    BY Popping
  <2> QED
    BY <2>1 DEF words
<1>3. words \in [Conn -> Seq(Mark)] /\ words' \in [Conn -> Seq(Mark)]
  BY StateWords, NextWords
<1>4. n # 0
  <2> SUFFICES ASSUME n = 0 PROVE FALSE
    OBVIOUS
  <2>1. msg.msg_type # "READ_ERROR" /\ msg.msg_type # "SHUTDOWN" /\ 0 \in Node
    OBVIOUS
  <2>2. Took(words, words', n, x, msg) /\ msg \in Queued(n) /\ n \in Node
    BY <1>1, <1>2
  <2>3. PICK d \in Conn :
          /\ d = <<msg.sender_id, n>> /\ d[1] = msg.sender_id /\ d[2] = n
          /\ x \in 1 .. Len(words[d]) /\ Loses(words[d], words'[d], x)
          /\ words[d][x].msg_type = msg.msg_type /\ words[d][x].epoch = msg.epoch
    BY ONLY <1>3, <2>1, <2>2, TookWhat
  <2>4. Fresh(words[d][x], d, current_epoch[0], Active = {})
    BY <2>3 DEF BarrierInv, Current, FreshWord
  <2>5. msg.sender_id = 0
    BY <2>3, <2>4 DEF Fresh
  <2> QED
    BY <1>1, <2>5 DEF Queued, Peers
<1>5. n \in Peers(0)
  BY <1>4 DEF Peers
<1> QED
  BY <1>1, <1>2, <1>4, <1>5, PeerPasses

LEMMA BarrierReceivePops ==
    ASSUME TypeOK, TypeOK', BarrierInv, NEW n \in Node, ReceivePops(n)
    PROVE  /\ BarrierInv' /\ current_epoch'[0] = current_epoch[0]
           /\ unreceived' = unreceived \/ msg_buffer[n][Top(n)].epoch = current_epoch[n]
<1>1. pc[n] = "receiving" /\ ~Ended(n) /\ 0 \in Node
  BY NodeFacts DEF ReceivePops, Ended
<1>2. PICK msg \in Popped(n, current_epoch[n]) :
       \/ /\ msg.msg_type = "MESSAGE_HEADER"
          /\ Pops(n)
          /\ pc' = [pc EXCEPT ![n] = "running"]
          /\ stream' = notify_control_node(stream, n, "GOT_MESSAGE")
          /\ outstanding_messages' = outstanding_messages - (IF n = 0 THEN 1 ELSE 0)
          /\ unreceived' = unreceived - 1
          /\ UNCHANGED <<current_epoch, terminated, num_waiting_nodes>>
       \/ /\ msg.msg_type = "SEE_ALL_IN_WAITING_STATE"
          /\ Pops(n)
          /\ pc' = [pc EXCEPT ![n] = "running"]
          /\ current_epoch' = [current_epoch EXCEPT ![n] = @ + 1]
          /\ UNCHANGED <<stream, terminated, counts, unreceived>>
       \/ /\ msg.msg_type = "READ_ERROR"
          /\ Throw(n)
          /\ UNCHANGED <<current_epoch, terminated, counts, unreceived>>
       \/ /\ msg.msg_type \in Reports
          /\ Pops(n)
          /\ Takes(n, msg)
          /\ UNCHANGED <<pc, stream, current_epoch, unreceived>>
  BY DEF ReceivePops
<1>3. CASE /\ msg.msg_type = "MESSAGE_HEADER"
           /\ Pops(n)
           /\ pc' = [pc EXCEPT ![n] = "running"]
           /\ stream' = notify_control_node(stream, n, "GOT_MESSAGE")
           /\ outstanding_messages' = outstanding_messages - (IF n = 0 THEN 1 ELSE 0)
           /\ unreceived' = unreceived - 1
           /\ UNCHANGED <<current_epoch, terminated, num_waiting_nodes>>
  <2>1. BarrierInv' /\ msg.epoch = current_epoch[n]
    BY <1>1, <1>3, BarrierGets
  <2>2. msg = msg_buffer[n][Top(n)]
    BY DEF Popped
  <2> QED
    BY <1>3, <2>1, <2>2
<1>4. CASE /\ msg.msg_type = "SEE_ALL_IN_WAITING_STATE"
           /\ Pops(n)
           /\ pc' = [pc EXCEPT ![n] = "running"]
           /\ current_epoch' = [current_epoch EXCEPT ![n] = @ + 1]
           /\ UNCHANGED <<stream, terminated, counts, unreceived>>
  <2>0. stream' = stream /\ terminated' = terminated /\ num_waiting_nodes' = num_waiting_nodes
        /\ unreceived' = unreceived
    BY <1>4 DEF counts
  <2>1. BarrierInv' /\ n # 0
    BY <1>1, <1>4, <2>0, BarrierPasses
  <2>2. current_epoch'[0] = current_epoch[0]
    BY <1>1, <1>4, <2>1 DEF TypeOK
  <2> QED
    BY <2>0, <2>1, <2>2
<1>5. CASE /\ msg.msg_type = "READ_ERROR"
           /\ Throw(n)
           /\ UNCHANGED <<current_epoch, terminated, counts, unreceived>>
  <2>1. current_epoch' = current_epoch /\ terminated' = terminated
        /\ num_waiting_nodes' = num_waiting_nodes /\ unreceived' = unreceived
    BY <1>5 DEF counts
  <2>2. BarrierInv'
    BY <1>1, <1>5, <2>1, BarrierThrow
  <2> QED
    BY <2>1, <2>2
<1>6. CASE /\ msg.msg_type \in Reports
           /\ Pops(n)
           /\ Takes(n, msg)
           /\ UNCHANGED <<pc, stream, current_epoch, unreceived>>
  <2>0. /\ pc' = pc /\ stream' = stream /\ unreceived' = unreceived
        /\ current_epoch' = current_epoch
    BY <1>6
  <2>2. PICK max : max = current_epoch[n]
    OBVIOUS
  <2>3. msg \in Popped(n, max)
    BY <2>2
  <2>1. BarrierInv'
    <3>1. ~Ended(n) /\ Pops(n) /\ Takes(n, msg)
      BY <1>1, <1>6
    <3>2. \/ msg.msg_type \in Reports
          \/ msg.msg_type = "SEE_ALL_IN_WAITING_STATE" /\ n \notin Active
      <4>1. msg.msg_type \in Reports
        BY <1>6
      <4> QED
        BY ONLY <4>1, Zenon
    <3> QED
      BY ONLY TypeOK, TypeOK', BarrierInv, n \in Node, <2>0, <2>3, <3>1, <3>2, BarrierTakes
  <2> QED
    BY <1>6, <2>1
<1> QED
  BY <1>2, <1>3, <1>4, <1>5, <1>6

(* Node 0 lets everybody's receive return. *)
LEMMA BarrierSees ==
    ASSUME BspInv, TypeOK', BarrierInv, ~Ended(0), AllWait(0), SeeAll,
           \A m \in Peers(0) : pc'[m] = pc[m], Active' \subseteq Active
    PROVE  BarrierInv'
<1>1. words \in [Conn -> Seq(Mark)] /\ words' \in [Conn -> Seq(Mark)] /\ unreceived \in Int
      /\ 0 \in Node /\ Current /\ UpToDate /\ InFlight(words, unreceived) /\ TypeOK
  BY StateWords, NextWords, NodeFacts DEF TypeOK, BarrierInv, BspInv
<1>2. \A b \in Peers(0) : b \in Node /\ b # 0 /\ <<0, b>> \in Conn /\ <<b, 0>> \in Conn
  BY NodeFacts DEF Peers
<1>3. /\ Fly(words) = {}
      /\ \A b \in Peers(0) :
            /\ \A i \in 1 .. Len(words[<<b, 0>>]) : words[<<b, 0>>][i].msg_type \notin Reports
            /\ pc[b] # "running"
            /\ pc[b] = "receiving" => News(words[<<0, b>>]) = {}
  BY BarrierReached
<1> DEFINE msg == Control("SEE_ALL_IN_WAITING_STATE")
           T   == Peers(0) \ terminated[0]
<1>4. /\ num_waiting_nodes' = 0 /\ stream' = Written(stream, 0, T, msg)
      /\ current_epoch' = [current_epoch EXCEPT ![0] = @ + 1]
      /\ msg_buffer' = msg_buffer /\ terminated' = terminated /\ unreceived' = unreceived
  BY DEF SeeAll
<1>5. PICK f : f = Kind(msg)
  OBVIOUS
<1>6. f.msg_type = "SEE_ALL_IN_WAITING_STATE" /\ Wrote(words, words', 0, T, f)
  <2>1. msg.msg_type = "SEE_ALL_IN_WAITING_STATE" /\ \A t \in T : msg \in Wire(t)
    BY ControlOK DEF Types, Counted, Reports
  <2> HIDE DEF msg
  <2>2. f.msg_type = "SEE_ALL_IN_WAITING_STATE"
    BY <1>5, <2>1, KindOK
  <2>3. StreamsOK(stream) /\ BuffersOK(msg_buffer)
    BY <1>1, StateWords
  <2> HIDE DEF T
  <2>4. Wrote(Words(stream, msg_buffer), Words(Written(stream, 0, T, msg), msg_buffer), 0, T, f)
    BY <1>1, <1>5, <2>1, <2>3, WordsWritten
  <2>5. words' = Words(Written(stream, 0, T, msg), msg_buffer)
    BY <1>4 DEF words
  <2> QED
    BY <2>2, <2>4, <2>5 DEF words
<1> HIDE DEF msg
<1>7. current_epoch'[0] = current_epoch[0] + 1
      /\ \A b \in Peers(0) : current_epoch'[b] = current_epoch[b]
  <2>1. DOMAIN current_epoch = Node
    BY <1>1 DEF TypeOK
  <2> QED
    BY <1>1, <1>2, <1>4, <2>1
<1>8. ASSUME NEW c \in Conn, NEW i \in 1 .. Len(words[c])
      PROVE  words[c][i].msg_type # "MESSAGE_HEADER"
  <2> SUFFICES ASSUME words[c][i].msg_type = "MESSAGE_HEADER" PROVE FALSE
    OBVIOUS
  <2>1. i \in Nat
    OBVIOUS
  <2>2. <<c, i>> \in Fly(words)
    BY <2>1 DEF Fly
  <2> QED
    BY <1>3, <2>2
<1>9. PICK k : k = current_epoch[0] + 1
  OBVIOUS
<1>10. ASSUME NEW c \in Conn
       PROVE  /\ FreshWord(words'[c], c, k, Active' = {})
              /\ Carries(words[c], words'[c], {})
  <2>1. words[c] \in Seq(Mark) /\ words'[c] \in Seq(Mark)
    BY <1>1
  <2>2. PICK q : q = (Active' = {})
    OBVIOUS
  <2>3. FreshWord(words[c], c, k, q)
    <3>1. FreshWord(words[c], c, current_epoch[0], Active = {})
      BY <1>1 DEF Current
    <3>2. Active = {} => q
      BY <2>2
    <3>3. FreshWord(words[c], c, current_epoch[0], q)
      BY <3>1, <3>2 DEF FreshWord, Fresh
    <3> QED
      BY <1>8, <3>3 DEF FreshWord, Fresh
  <2>4. CASE c[1] = 0 /\ Longer(words[c], words'[c], f)
    <3>1. Fresh(f, c, k, q)
      BY <1>6, <2>4 DEF Fresh
    <3>2. FreshWord(words'[c], c, k, q)
      BY <2>1, <2>3, <2>4, <3>1, FreshLonger
    <3>3. Carries(words[c], words'[c], {})
      BY <1>6, <2>1, <2>4, CarriesLonger
    <3> QED
      BY <2>2, <3>2, <3>3
  <2>5. CASE words'[c] = words[c]
    <3>1. Carries(words[c], words'[c], {})
      BY <2>5, CarriesSame
    <3> QED
      BY <2>2, <2>3, <2>5, <3>1
  <2> QED
    BY <1>6, <2>4, <2>5 DEF Wrote
<1>11. Current'
  <2>1. \A c \in Conn : FreshWord(words'[c], c, current_epoch'[0], Active' = {})
    BY <1>7, <1>9, <1>10
  <2>2. \A n \in Peers(0) : 0 \in terminated'[n] => Active' = {}
    BY <1>1, <1>4 DEF Current
  <2> QED
    BY <2>1, <2>2 DEF Current
<1>12. InFlight(words', unreceived')
  <2>1. \A c \in Conn : Carries(words[c], words'[c], {})
    BY <1>10
  <2>2. InFlight(words', unreceived)
    BY <1>1, <2>1, FlyNoMore
  <2> QED
    BY <1>4, <2>2
(* An active node waits, is in this superstep, and is told. *)
<1>13. ASSUME NEW b \in Peers(0), b \in Active'
       PROVE  /\ b \notin terminated[0] /\ pc'[b] = "receiving"
              /\ current_epoch[b] = current_epoch[0]
              /\ \E i : News(words'[<<0, b>>]) = {i}
  <2>1. b \in Active /\ pc[b] = "receiving" /\ News(words[<<0, b>>]) = {}
    BY <1>3, <1>13 DEF Active
  <2>2. InStep(current_epoch[b], current_epoch[0], pc[b], News(words[<<0, b>>]))
    BY <1>1, <2>1 DEF UpToDate
  <2>3. current_epoch[b] = current_epoch[0]
    BY <2>1, <2>2 DEF InStep
  <2>4. b \notin terminated[0]
    BY <2>1 DEF BspInv, Control0, Ordered, Final
  <2>5. PICK c \in Conn : c = <<0, b>> /\ c[1] = 0 /\ c[2] = b
    BY <1>2
  <2>6. ~Ended(c[2]) /\ c[2] \in T
    BY <2>1, <2>4, <2>5 DEF Ended
  <2>7. Longer(words[c], words'[c], f)
    BY <1>6, <2>5, <2>6 DEF Wrote
  <2>8. words[c] \in Seq(Mark) /\ words'[c] \in Seq(Mark)
    BY <1>1
  <2>9. News(words'[c]) = News(words[c]) \cup {Len(words[c]) + 1}
    BY <1>6, <2>7, <2>8, NewsLonger
  <2>10. News(words'[c]) = {Len(words[c]) + 1}
    BY <2>1, <2>5, <2>9
  <2> QED
    BY <2>1, <2>3, <2>4, <2>5, <2>10
<1>14. UpToDate'
  <2> SUFFICES ASSUME NEW b \in Peers(0), b \in Active'
               PROVE  InStep(current_epoch'[b], current_epoch'[0], pc'[b], News(words'[<<0, b>>]))
    BY DEF UpToDate
  <2> QED
    BY <1>7, <1>13 DEF InStep
<1>15. Reporting'
  <2>1. PICK to : to = [b \in Peers(0) |-> IF b \in terminated[0] THEN "T" ELSE "R"]
    OBVIOUS
  <2>2. /\ to \in [Peers(0) -> Stands]
        /\ \A b \in Peers(0) : to[b] = IF b \in terminated[0] THEN "T" ELSE "R"
    BY <2>1 DEF Stands
  <2>3. num_waiting_nodes' = Cardinality({b \in Peers(0) : to[b] = "W"})
    <3>1. {b \in Peers(0) : to[b] = "W"} = {}
      BY <2>2
    <3>2. Cardinality({b \in Peers(0) : to[b] = "W"}) = 0
      BY <3>1, FS_EmptySet, Zenon
    <3> QED
      BY <1>4, <3>2
  <2>4. ASSUME NEW b \in Peers(0) PROVE Leads(b, to[b])'
    <3>1. PICK c \in Conn : c = <<b, 0>> /\ c[1] = b
      BY <1>2
    <3>2. words'[c] = words[c]
      BY <1>2, <1>6, <3>1 DEF Wrote
    <3>3. words[c] \in Seq(Mark) /\ \A i \in 1 .. Len(words[c]) : words[c][i].msg_type \notin Reports
      BY <1>1, <1>3, <3>1
    <3>4. PICK first \in Stands : first = to[b]
      BY <2>2
    <3>5. Path(words[c], first, first, Receiver(b))
      BY <3>3, PathStays
    <3>6. Standing(pc'[b], News(words'[<<0, b>>]), first)
      <4>1. CASE b \in Active'
        <5>1. first = "R" /\ pc'[b] = "receiving" /\ News(words'[<<0, b>>]) # {}
          BY <1>13, <2>2, <3>4, <4>1
        <5> QED
          BY <5>1 DEF Standing
      <4>2. CASE b \notin Active'
        <5>1. pc'[b] # "running" /\ pc'[b] # "receiving"
          BY <1>2, <4>2 DEF Active
        <5> QED
          BY <5>1 DEF Standing
      <4> QED
        BY <4>1, <4>2
    <3>7. Leads(b, first)'
      BY <3>1, <3>2, <3>5, <3>6 DEF Leads
    <3> QED
      BY <3>4, <3>7
  <2>5. \A b \in Peers(0) : b \in terminated'[0] => to[b] = "T"
    BY <1>4, <2>2
  <2>6. Seen(to)'
    BY <2>2, <2>3, <2>4, <2>5 DEF Seen
  <2> QED
    BY <2>6 DEF Reporting
<1> QED
  BY <1>11, <1>12, <1>14, <1>15 DEF BarrierInv

LEMMA BarrierReturnsFalse ==
    ASSUME BspInv, TypeOK', BarrierInv, NEW n \in Node, ReceiveReturnsFalse(n)
    PROVE  BarrierInv'
<1>1. pc[n] = "receiving" /\ pc' = [pc EXCEPT ![n] = "running"] /\ TypeOK /\ 0 \in Node
  BY NodeFacts DEF ReceiveReturnsFalse, BspInv
<1>2. ~Ended(n) /\ "running" \in Places /\ n \in Active
  BY <1>1 DEF Ended, Places, Active
<1>3. CASE NobodyLeft(n) /\ msg_buffer[n] = <<>>
  <2>1. UNCHANGED <<current_epoch, msg_buffer, terminated, counts, stream, sent, unreceived>>
    BY <1>3 DEF ReceiveReturnsFalse
  <2>2. CASE n = 0
    <3>1. /\ stream' = stream /\ msg_buffer' = msg_buffer /\ terminated' = terminated
          /\ unreceived' = unreceived /\ num_waiting_nodes' = num_waiting_nodes
          /\ current_epoch' = current_epoch
      BY <2>1 DEF counts
    <3>2. pc' = [pc EXCEPT ![0] = "running"] /\ ~Ended(0) /\ 0 \in Active
      BY <1>1, <1>2, <2>2
    <3>3. PICK p \in Places : p = "running"
      BY <1>2
    <3> QED
      BY <1>1, <3>1, <3>2, <3>3, BarrierZero
  (* Node 0 is the last to terminate, when nobody is active. *)
  <2>3. CASE n # 0
    <3>1. terminated[n] \in SUBSET Peers(n) /\ n \in Peers(0) /\ 0 \in Peers(n)
      BY <1>1, <2>3 DEF TypeOK, KnownGone, Peers
    <3>2. terminated[n] = Peers(n)
      BY <1>3, <3>1, AllOthers DEF NobodyLeft
    <3>3. Active = {}
      BY <3>1, <3>2 DEF BarrierInv, Current
    <3> QED
      BY <1>2, <3>3
  <2> QED
    BY <2>2, <2>3
<1>4. CASE AllWait(n) /\ SeeAll
  <2>1. n = 0
    BY <1>4 DEF AllWait
  <2>2. Active' \subseteq Active /\ \A m \in Node : m # n => pc'[m] = pc[m]
    BY <1>1, <1>2, NodeMoves
  <2>3. \A m \in Peers(0) : pc'[m] = pc[m]
    BY <2>1, <2>2 DEF Peers
  <2> QED
    BY <1>2, <1>4, <2>1, <2>2, <2>3, BarrierSees
<1> QED
  BY <1>3, <1>4 DEF ReceiveReturnsFalse

LEMMA BarrierClosingSees ==
    ASSUME BspInv, TypeOK', BarrierInv, NEW n \in Node, ClosingSeesAll(n)
    PROVE  BarrierInv'
<1>1. pc[n] = "closing" /\ AllWait(n) /\ SeeAll /\ pc' = pc
  BY DEF ClosingSeesAll
<1>2. n = 0 /\ ~Ended(0)
  BY <1>1 DEF AllWait, Ended
<1>3. Active' \subseteq Active /\ \A m \in Peers(0) : pc'[m] = pc[m]
  BY <1>1 DEF Active
<1> QED
  BY <1>1, <1>2, <1>3, BarrierSees

(* A node closes its connections, node 0 as the last one. *)
LEMMA BarrierClosed ==
    ASSUME BspInv, TypeOK', BarrierInv, NEW n \in Node, AllClosed(n)
    PROVE  BarrierInv'
<1> DEFINE how == IF n = 0 /\ outstanding_messages # 0 THEN "threw" ELSE "returned"
           msg == Control("NODE_TERMINATE")
           s   == IF n # 0 THEN stream ELSE Written(stream, n, Peers(n), msg)
<1>1. /\ pc[n] = "closing" /\ NobodyLeft(n) /\ TypeOK /\ 0 \in Node
      /\ pc' = [pc EXCEPT ![n] = how] /\ stream' = Forgotten(s, n)
      /\ msg_buffer' = [msg_buffer EXCEPT ![n] = <<>>]
      /\ current_epoch' = current_epoch /\ terminated' = terminated
      /\ num_waiting_nodes' = num_waiting_nodes /\ unreceived' = unreceived
  BY NodeFacts DEF AllClosed, Destroyed, Forgotten, counts, BspInv
<1>2. how \in Places /\ how \notin {"running", "receiving"} /\ how \in {"returned", "threw"}
  BY DEF Places
<1> HIDE DEF how
<1>3. /\ Active' \subseteq Active /\ (Ended(0) => Ended(0)')
      /\ pc'[n] = how /\ \A m \in Node : m # n => pc'[m] = pc[m]
  <2>1. ~Ended(n)
    BY <1>1 DEF Ended
  <2> QED
    BY <1>1, <1>2, <2>1, NodeMoves
<1>4. StreamsOK(stream) /\ BuffersOK(msg_buffer) /\ words \in [Conn -> Seq(Mark)]
      /\ words' \in [Conn -> Seq(Mark)] /\ unreceived \in Int
  BY <1>1, StateWords, NextWords DEF TypeOK
<1>5. \A t \in Peers(n) : msg \in Wire(t)
  BY ControlOK DEF Types, Counted, Reports
<1>6. Kind(msg).msg_type = "NODE_TERMINATE"
  BY ControlOK, KindOK
<1> HIDE DEF msg
<1>7. StreamsOK(s)
  <2>1. StreamsOK(Written(stream, n, Peers(n), msg))
    BY <1>4, <1>5, WrittenOK
  <2> QED
    BY <1>4, <2>1
<1>8. n # 0 => s = stream
  OBVIOUS
<1>9. n = 0 => Wrote(words, Words(s, msg_buffer), n, Peers(n), Kind(msg))
  <2>1. Wrote(Words(stream, msg_buffer), Words(Written(stream, n, Peers(n), msg), msg_buffer), n,
              Peers(n), Kind(msg))
    BY <1>4, <1>5, WordsWritten
  <2> QED
    BY <2>1 DEF words
<1> HIDE DEF s
<1>10. \A c \in Conn : words'[c] = IF c[2] = n THEN <<>> ELSE Words(s, msg_buffer)[c]
  <2>1. \A c \in Conn : Words(Forgotten(s, n), [msg_buffer EXCEPT ![n] = <<>>])[c] =
              IF c[2] = n THEN <<>> ELSE Words(s, msg_buffer)[c]
    BY <1>4, <1>7, WordsForgotten
  <2> QED
    BY <1>1, <2>1 DEF words
<1>11. \A m \in Peers(0) : 0 \in terminated'[m] => Active = {}
  BY <1>1 DEF BarrierInv, Current
<1>12. CASE n # 0
  <2>1. \A c \in Conn : c[2] # n => words'[c] = words[c]
    BY <1>8, <1>10, <1>12 DEF words
  <2>2. \A c \in Conn : \/ c[2] \in {n} /\ words'[c] = <<>>
                        \/ /\ Mild(words[c], words'[c], c)
                           /\ c[2] = 0 => SamePaths(words[c], words'[c])
    <3> SUFFICES ASSUME NEW c \in Conn, c[2] # n
                 PROVE  Mild(words[c], words'[c], c) /\ SamePaths(words[c], words'[c])
      BY <1>10
    <3>1. Harmless(words[c], words'[c]) /\ words[c] \in Seq(Mark) /\ words'[c] \in Seq(Mark)
      BY <1>4, <2>1 DEF Harmless
    <3> QED
      BY <3>1, HarmlessMild
  <2>3. \A m \in {n} : m \in Node /\ Ended(m)'
    BY <1>2, <1>3 DEF Ended
  <2>4. \A m \in Peers(0) : m \in Active' => pc'[m] = pc[m]
    BY <1>2, <1>3 DEF Active, Peers
  <2>5. terminated'[0] = terminated[0]
    BY <1>1
  <2> QED
    <3>1. PICK gone : gone = {n}
      OBVIOUS
    <3>2. /\ \A c \in Conn : \/ c[2] \in gone /\ words'[c] = <<>>
                            \/ /\ Mild(words[c], words'[c], c)
                               /\ c[2] = 0 => SamePaths(words[c], words'[c])
          /\ \A m \in gone : m \in Node /\ Ended(m)'
      BY <2>2, <2>3, <3>1
    <3>3. /\ TypeOK /\ Active' \subseteq Active /\ (Ended(0) => Ended(0)')
          /\ current_epoch' = current_epoch /\ unreceived' = unreceived
          /\ num_waiting_nodes' = num_waiting_nodes
      BY <1>1, <1>3
    <3> QED
      BY ONLY TypeOK', BarrierInv, <1>11, <2>4, <2>5, <3>2, <3>3, QuietStep
<1>13. CASE n = 0
  <2>1. terminated[0] = Peers(0) /\ ~Ended(0)
    BY <1>1, <1>13, PeersSize DEF Ended
  <2>2. \A m \in Peers(0) : m \notin Active
    BY <2>1 DEF BspInv, Control0, Ordered, Final
  <2>3. Active' = {} /\ Ended(0)'
    <3>1. 0 \notin Active' /\ Ended(0)'
      BY <1>2, <1>3, <1>13 DEF Active, Ended
    <3>2. \A m \in Node : m # 0 => m \in Peers(0)
      BY DEF Peers
    <3> QED
      BY <1>3, <2>2, <3>1, <3>2 DEF Active
  <2>4. ASSUME NEW c \in Conn
        PROVE  /\ FreshWord(words'[c], c, current_epoch[0], Active' = {})
               /\ Carries(words[c], words'[c], {})
    <3>1. FreshWord(words[c], c, current_epoch[0], Active = {})
      BY DEF BarrierInv, Current
    <3>2. PICK q : q = (Active' = {})
      OBVIOUS
    <3>3. FreshWord(words[c], c, current_epoch[0], q)
      BY <2>3, <3>1, <3>2 DEF FreshWord, Fresh
    <3>4. words[c] \in Seq(Mark) /\ words'[c] \in Seq(Mark)
      BY <1>4
    <3>5. CASE words'[c] = <<>>
      BY <3>5, EmptyWord
    <3>6. CASE words'[c] = words[c]
      <4>1. Carries(words[c], words'[c], {})
        BY <3>6, CarriesSame
      <4> QED
        BY <3>2, <3>3, <3>6, <4>1
    <3>7. CASE Longer(words[c], words'[c], Kind(msg))
      <4>1. Fresh(Kind(msg), c, current_epoch[0], q)
        BY <1>6, <2>3, <3>2 DEF Fresh
      <4>2. PICK k, e : k = current_epoch[0] /\ e = Kind(msg)
        OBVIOUS
      <4>3. Longer(words[c], words'[c], e) /\ FreshWord(words[c], c, k, q) /\ Fresh(e, c, k, q)
            /\ e.msg_type = "NODE_TERMINATE"
        BY <1>6, <3>3, <3>7, <4>1, <4>2
      <4>4. FreshWord(words'[c], c, k, q)
        BY <3>4, <4>3, FreshLonger
      <4>5. Carries(words[c], words'[c], {})
        BY <3>4, <4>3, CarriesLonger
      <4> QED
        BY <3>2, <4>2, <4>4, <4>5
    <3>8. words'[c] = <<>> \/ words'[c] = words[c] \/ Longer(words[c], words'[c], Kind(msg))
      BY <1>9, <1>10, <1>13 DEF Wrote
    <3> QED
      BY <3>5, <3>6, <3>7, <3>8
  <2>5. Current'
    <3>1. \A c \in Conn : FreshWord(words'[c], c, current_epoch'[0], Active' = {})
      BY <1>1, <2>4
    <3>2. \A m \in Peers(0) : 0 \in terminated'[m] => Active' = {}
      BY <2>3
    <3> QED
      BY <3>1, <3>2 DEF Current
  <2>6. InFlight(words', unreceived')
    <3>1. \A c \in Conn : Carries(words[c], words'[c], {})
      BY <2>4
    <3>2. InFlight(words, unreceived)
      BY DEF BarrierInv
    <3>3. InFlight(words', unreceived)
      BY <1>4, <3>1, <3>2, FlyNoMore
    <3> QED
      BY <1>1, <3>3
  <2>7. UpToDate' /\ Reporting'
    BY <2>3 DEF UpToDate, Reporting
  <2> QED
    BY <2>5, <2>6, <2>7 DEF BarrierInv
<1> QED
  BY <1>12, <1>13

LEMMA BarrierInit == Init => BarrierInv
<1> SUFFICES ASSUME Init PROVE BarrierInv
  OBVIOUS
<1>1. 0 \in Node
  BY NodeFacts
<1>2. ASSUME NEW c \in Conn PROVE words[c] = <<>>
  <2>1. stream[c] = <<>> /\ msg_buffer[c[2]] = <<>>
    BY ConnFacts DEF Init
  <2>2. Word(stream[c], msg_buffer[c[2]], c[1]) = <<>>
    BY <2>1, WordEmpty
  <2> QED
    BY <2>2 DEF words, Words
<1>3. \A b \in Peers(0) : words[<<b, 0>>] = <<>> /\ words[<<0, b>>] = <<>>
  BY <1>2, NodeFacts DEF Peers
<1>4. \A c \in Conn : Len(words[c]) = 0 /\ 1 .. Len(words[c]) = {}
  BY <1>2, EmptyWord
<1>5. Current
  <2>1. \A c \in Conn : FreshWord(words[c], c, current_epoch[0], Active = {})
    BY <1>4 DEF FreshWord
  <2>2. \A n \in Peers(0) : terminated[n] = {}
    BY DEF Init, Peers
  <2> QED
    BY <2>1, <2>2 DEF Current
<1>6. InFlight(words, unreceived)
  <2>1. Fly(words) = {}
    BY <1>4 DEF Fly
  <2>2. IsFiniteSet(Fly(words)) /\ Cardinality(Fly(words)) = 0
    BY <2>1, FS_EmptySet, Zenon
  <2>3. unreceived = 0
    BY DEF Init
  <2> QED
    BY <2>2, <2>3 DEF InFlight
<1>7. UpToDate
  <2> SUFFICES ASSUME NEW n \in Peers(0)
               PROVE  InStep(current_epoch[n], current_epoch[0], pc[n], News(words[<<0, n>>]))
    BY DEF UpToDate
  <2>1. News(words[<<0, n>>]) = {}
    BY <1>3, EmptyWord
  <2>2. current_epoch[n] = 1 /\ current_epoch[0] = 1
    BY <1>1 DEF Init, Peers
  <2> QED
    BY <2>1, <2>2 DEF InStep
<1>8. Reporting
  <2>1. PICK at : at = [b \in Peers(0) |-> "R"]
    OBVIOUS
  <2>2. at \in [Peers(0) -> Stands] /\ \A b \in Peers(0) : at[b] = "R"
    BY <2>1 DEF Stands
  <2>3. num_waiting_nodes = Cardinality({b \in Peers(0) : at[b] = "W"})
    <3>1. {b \in Peers(0) : at[b] = "W"} = {}
      BY <2>2
    <3>2. Cardinality({b \in Peers(0) : at[b] = "W"}) = 0
      BY <3>1, FS_EmptySet, Zenon
    <3> QED
      BY <3>2 DEF Init
  <2>4. ASSUME NEW b \in Peers(0) PROVE Leads(b, at[b]) /\ b \notin terminated[0]
    <3>0. PICK w : w = words[<<b, 0>>]
      OBVIOUS
    <3>00. <<>> \in Seq(Mark) /\ 1 .. Len(<<>>) = {}
      OBVIOUS
    <3>01. w = <<>>
      BY <1>3, <3>0
    <3>1. w = words[<<b, 0>>] /\ w \in Seq(Mark) /\ 1 .. Len(w) = {}
      BY <3>0, <3>00, <3>01
    <3>2. Path(w, "R", "R", Receiver(b))
      BY <3>1, PathStays DEF Stands
    <3>3. Standing(pc[b], News(words[<<0, b>>]), "R") /\ "R" \in Stands
      BY DEF Standing, Init, Peers, Stands
    <3> QED
      BY <1>1, <2>2, <3>1, <3>2, <3>3 DEF Leads, Init
  <2>5. Seen(at)
    BY <2>2, <2>3, <2>4 DEF Seen
  <2> QED
    BY <2>5 DEF Reporting
<1> QED
  BY <1>5, <1>6, <1>7, <1>8 DEF BarrierInv

LEMMA BarrierNext ==
    ASSUME NoRelay, BspInv, BspInv', BarrierInv, [Next]_vars
    PROVE  BarrierInv'
<1>0. TypeOK /\ TypeOK'
  BY DEF BspInv
<1>1. ASSUME NEW c \in Link, send_data(c[1], c[2]) PROVE BarrierInv'
  <2>1. c \in Conn
    BY BspAssumption
  <2>2. PICK n \in Node, to \in Node : c = <<n, to>>
    BY <2>1, ConnFacts
  <2>3. <<n, to>> \in Link /\ send_data(n, to)
    BY <1>1, <2>2
  <2> QED
    BY <1>0, <2>3, BarrierSend
<1>2. ASSUME NEW n \in Node, receive_data(n) PROVE BarrierInv'
  BY <1>0, <1>2, BarrierReceive
<1>3. ASSUME NEW n \in Node, Closes(n) PROVE BarrierInv'
  BY <1>0, <1>3, BarrierCloses
<1>4. ASSUME NEW n \in Node, ProgramThrows(n) PROVE BarrierInv'
  <2>1. /\ Throw(n) /\ pc[n] = "running" /\ terminated' = terminated
        /\ unreceived' = unreceived /\ num_waiting_nodes' = num_waiting_nodes
        /\ current_epoch' = current_epoch
    BY <1>4 DEF ProgramThrows, counts
  <2> QED
    BY <1>0, <2>1, BarrierThrow
<1>5. ASSUME NEW n \in Node, ReceiveReturnsFalse(n) PROVE BarrierInv'
  BY <1>0, <1>5, BarrierReturnsFalse
<1>6. ASSUME NEW n \in Node, ReceivePops(n) PROVE BarrierInv'
  BY <1>0, <1>6, BarrierReceivePops
<1>7. ASSUME NEW n \in Node, ClosingSeesAll(n) PROVE BarrierInv'
  BY <1>0, <1>7, BarrierClosingSees
<1>8. ASSUME NEW n \in Node, ClosingPops(n) PROVE BarrierInv'
  BY <1>0, <1>8, BarrierClosingPops
<1>9. ASSUME NEW n \in Node, AllClosed(n) PROVE BarrierInv'
  BY <1>0, <1>9, BarrierClosed
<1>10. ASSUME NEW c \in Conn, read_thread(c[1], c[2]) PROVE BarrierInv'
  BY <1>0, <1>10, BarrierRead
<1>11. CASE UNCHANGED vars
  <2>1. /\ pc' = pc /\ stream' = stream /\ msg_buffer' = msg_buffer /\ terminated' = terminated
        /\ current_epoch' = current_epoch /\ unreceived' = unreceived
        /\ num_waiting_nodes' = num_waiting_nodes
    BY <1>11 DEF vars, counts
  <2>2. words' = words /\ Active' = Active /\ (Ended(0)' <=> Ended(0))
    BY <2>1 DEF words, Active, Ended
  <2>3. Current' /\ InFlight(words', unreceived') /\ UpToDate'
    BY <2>1, <2>2 DEF BarrierInv, Current, UpToDate
  <2>4. Reporting'
    <3>1. ASSUME NEW b \in Peers(0), NEW first, Leads(b, first) PROVE Leads(b, first)'
      BY <2>1, <2>2, <3>1 DEF Leads
    <3> QED
      BY <2>1, <2>2, <3>1, ReportingKept DEF BarrierInv
  <2> QED
    BY <2>3, <2>4 DEF BarrierInv
<1> QED
  BY <1>1, <1>2, <1>3, <1>4, <1>5, <1>6, <1>7, <1>8, <1>9, <1>10, <1>11 DEF Next, Library

-----------------------------------------------------------------------------
(* What is in a word is on its way, and a message on its way is in a word. *)
LEMMA WordOnTheWay ==
    ASSUME TypeOK, NEW c \in Conn, NEW i \in 1 .. Len(words[c]), words[c][i].msg_type # "blank"
    PROVE  \E msg \in OnTheWay(c[2]) : msg.msg_type = words[c][i].msg_type
<1>1. PICK m \in Node, n \in Node : m # n /\ c = <<m, n>> /\ c[1] = m /\ c[2] = n
  BY ConnFacts
<1>2. PICK s : s = stream[c]
  OBVIOUS
<1>3. PICK q : q = msg_buffer[n]
  OBVIOUS
<1>4. words[c] = Word(s, q, m) /\ s \in Seq(Wire(n)) /\ q \in Seq(Queued(n))
  BY <1>1, <1>2, <1>3, StateWords DEF StreamsOK, BuffersOK
<1>5. PICK w : w = words[c]
  OBVIOUS
<1>6. /\ Len(s) \in Nat /\ Len(q) \in Nat /\ Len(w) = Len(q) + Len(s)
      /\ \A j \in 1 .. Len(q) : w[j] = IF q[j].sender_id = m THEN Kind(q[j]) ELSE Blank
      /\ \A j \in 1 .. Len(s) : w[Len(q) + j] = Kind(s[j])
  BY <1>4, <1>5, WordOK
<1>7. i \in 1 .. Len(w) /\ w[i].msg_type # "blank"
  BY <1>5
<1>8. \A e : Kind(e).msg_type # "blank" => Kind(e).msg_type = e.msg_type
  BY KindOK
<1>9. CASE i <= Len(q)
  <2>1. i \in 1 .. Len(q) /\ i \in DOMAIN q
    BY <1>4, <1>6, <1>7, <1>9
  <2>2. w[i] = Kind(q[i])
    BY <1>6, <1>7, <2>1, KindOK
  <2>3. w[i].msg_type = q[i].msg_type
    BY <1>7, <1>8, <2>2
  <2>4. q[i] \in Range(msg_buffer[n])
    BY <1>3, <2>1 DEF Range
  <2>5. q[i] \in OnTheWay(n)
    BY <2>4 DEF OnTheWay
  <2> QED
    BY <1>1, <1>5, <2>3, <2>5
<1>10. CASE ~ i <= Len(q)
  <2>0. i \in Int /\ Len(q) \in Int /\ i - Len(q) \in Int
    BY <1>6, <1>7
  <2>1. PICK j \in Int : j = i - Len(q)
    BY <2>0
  <2>2. j \in 1 .. Len(s) /\ j \in DOMAIN s /\ i = Len(q) + j
    BY <1>4, <1>6, <1>7, <1>10, <2>1
  <2>3. w[i] = Kind(s[j])
    BY <1>6, <2>2
  <2>4. w[i].msg_type = s[j].msg_type
    BY <1>7, <1>8, <2>3
  <2>5. s[j] \in Range(stream[<<m, n>>]) /\ m \in Peers(n)
    BY <1>1, <1>2, <2>2 DEF Range, Peers
  <2>6. s[j] \in OnTheWay(n)
    BY <2>5 DEF OnTheWay
  <2> QED
    BY <1>1, <1>5, <2>4, <2>6
<1> QED
  BY <1>9, <1>10

LEMMA MessageFlies ==
    ASSUME TypeOK, NEW n \in Node, NEW msg \in MessagesFor(n)
    PROVE  Fly(words) # {}
<1>1. msg \in OnTheWay(n) /\ msg.msg_type = "MESSAGE_HEADER"
  BY DEF MessagesFor
<1>2. Kind(msg).msg_type = "MESSAGE_HEADER"
  BY <1>1, KindOK
<1>3. StreamsOK(stream) /\ BuffersOK(msg_buffer)
  BY StateWords
<1>4. ASSUME NEW m \in Peers(n), msg \in Range(stream[<<m, n>>]) PROVE Fly(words) # {}
  <2>1. PICK c \in Conn : c = <<m, n>> /\ m \in Node /\ m # n /\ c[2] = n
    BY NodeFacts DEF Peers
  <2>2. PICK s : s = stream[c]
    OBVIOUS
  <2>3. PICK q : q = msg_buffer[n]
    OBVIOUS
  <2>4. s \in Seq(Wire(n)) /\ q \in Seq(Queued(n)) /\ words[c] = Word(s, q, m)
    BY <1>3, <2>1, <2>2, <2>3, StateWords DEF StreamsOK, BuffersOK
  <2>5. PICK j \in DOMAIN s : s[j] = msg
    BY <1>4, <2>1, <2>2 DEF Range
  <2>6. j \in 1 .. Len(s) /\ Len(s) \in Nat
    BY <2>4
  <2>7. /\ Len(q) \in Nat /\ Len(words[c]) = Len(q) + Len(s)
        /\ words[c][Len(q) + j] = Kind(s[j])
    BY <2>4, <2>6, WordOK
  <2>8. PICK k \in Nat : k = Len(q) + j
    BY <2>6, <2>7
  <2>9. k \in 1 .. Len(words[c])
    BY <2>6, <2>7, <2>8
  <2>10. words[c][k].msg_type = "MESSAGE_HEADER"
    BY <1>2, <2>5, <2>7, <2>8
  <2>11. <<c, k>> \in Fly(words)
    BY <2>9, <2>10 DEF Fly
  <2> QED
    BY <2>11
<1>5. ASSUME msg \in Range(msg_buffer[n]) PROVE Fly(words) # {}
  <2>1. PICK q : q = msg_buffer[n]
    OBVIOUS
  <2>2. PICK k \in DOMAIN q : q[k] = msg
    BY <1>5, <2>1 DEF Range
  <2>3. q \in Seq(Queued(n))
    BY <1>3, <2>1 DEF BuffersOK
  <2>4. k \in 1 .. Len(q) /\ k \in Nat /\ msg \in Queued(n)
    BY <2>2, <2>3
  <2>5. PICK m \in Node : m = msg.sender_id /\ m # n
    BY <2>4 DEF Queued, Peers
  <2>6. PICK c \in Conn : c = <<m, n>> /\ c[2] = n
    BY <2>5, NodeFacts
  <2>7. PICK s : s = stream[c]
    OBVIOUS
  <2>8. s \in Seq(Wire(n)) /\ words[c] = Word(s, q, m)
    BY <1>3, <2>1, <2>5, <2>6, <2>7, StateWords DEF StreamsOK
  <2>9. /\ Len(q) \in Nat /\ Len(s) \in Nat /\ Len(words[c]) = Len(q) + Len(s)
        /\ words[c][k] = IF q[k].sender_id = m THEN Kind(q[k]) ELSE Blank
    BY <2>3, <2>4, <2>8, WordOK
  <2>10. k \in 1 .. Len(words[c])
    BY <2>4, <2>9
  <2>11. words[c][k].msg_type = "MESSAGE_HEADER"
    BY <1>2, <2>2, <2>5, <2>9
  <2>12. <<c, k>> \in Fly(words)
    BY <2>4, <2>10, <2>11 DEF Fly
  <2> QED
    BY <2>12
<1>6. msg \in Range(msg_buffer[n]) \/ \E m \in Peers(n) : msg \in Range(stream[<<m, n>>])
  BY <1>1, Zenon DEF OnTheWay
<1> QED
  BY <1>4, <1>5, <1>6

LEMMA BspAndBarrierNext ==
    ASSUME NoRelay
    PROVE  BspInv /\ BarrierInv /\ [Next]_vars => BspInv' /\ BarrierInv'
<1> SUFFICES ASSUME BspInv, BarrierInv, [Next]_vars PROVE BspInv' /\ BarrierInv'
  OBVIOUS
<1>1. BspInv'
  BY BspNext
<1> QED
  BY <1>1, BarrierNext

(* A node that is behind has the news of the barrier in the word from node 0. *)
LEMMA InvAllUnblock ==
    ASSUME BspInv, BarrierInv
    PROVE  AllUnblock
<1> SUFFICES ASSUME NEW n \in Peers(0), pc[n] \in {"running", "receiving"}
             PROVE  \/ current_epoch[n] = current_epoch[0]
                    \/ /\ current_epoch[n] = current_epoch[0] - 1
                       /\ pc[n] = "receiving"
                       /\ \E msg \in OnTheWay(n) : msg.msg_type = "SEE_ALL_IN_WAITING_STATE"
  BY DEF AllUnblock
<1>1. n \in Node /\ n # 0 /\ 0 \in Node /\ n \in Active /\ TypeOK
  BY NodeFacts DEF Peers, Active, BspInv
<1>2. InStep(current_epoch[n], current_epoch[0], pc[n], News(words[<<0, n>>]))
  BY <1>1 DEF BarrierInv, UpToDate
<1>3. current_epoch[n] \in Int /\ current_epoch[0] \in Int
  BY <1>1 DEF TypeOK
<1>4. CASE current_epoch[n] + 1 = current_epoch[0] /\ pc[n] = "receiving"
           /\ \E i : News(words[<<0, n>>]) = {i}
  <2>1. PICK c \in Conn : c = <<0, n>> /\ c[2] = n
    BY <1>1, NodeFacts
  <2>2. PICK i : News(words[c]) = {i}
    BY <1>4, <2>1
  <2>3. i \in 1 .. Len(words[c]) /\ words[c][i].msg_type = "SEE_ALL_IN_WAITING_STATE"
    BY <2>2 DEF News
  <2>4. \E msg \in OnTheWay(c[2]) : msg.msg_type = words[c][i].msg_type
    BY <1>1, <2>3, WordOnTheWay
  <2>5. \E msg \in OnTheWay(n) : msg.msg_type = "SEE_ALL_IN_WAITING_STATE"
    BY <2>1, <2>3, <2>4
  <2>6. current_epoch[n] = current_epoch[0] - 1
    BY <1>3, <1>4
  <2> QED
    BY <1>4, <2>5, <2>6
<1> QED
  BY <1>2, <1>4 DEF InStep

(* receive() unblocks all nodes or none: one that is behind node 0 waits, is
   behind by one barrier, and the news of it are on their way, for any number of
   nodes and any programs without relays.  *)
THEOREM BspAllUnblock ==
    ASSUME NoRelay
    PROVE  Spec => []AllUnblock
<1>1. Init => BspInv /\ BarrierInv
  BY BspInit, BarrierInit
<1>2. BspInv /\ BarrierInv /\ [Next]_vars => BspInv' /\ BarrierInv'
  BY BspAndBarrierNext
<1>3. BspInv /\ BarrierInv => AllUnblock
  BY InvAllUnblock
<1> QED
  BY <1>1, <1>2, <1>3, PTL DEF Spec

-----------------------------------------------------------------------------
(* Only the news of a barrier, written by node 0, begin its next superstep. *)
LEMMA BarrierBegins ==
    ASSUME BspInv, BarrierInv, [Next]_vars, current_epoch'[0] # current_epoch[0],
           NoRelay, BspInv'
    PROVE  ~Ended(0) /\ AllWait(0)
<1>0. TypeOK /\ TypeOK' /\ 0 \in Node
  BY NodeFacts DEF BspInv
<1>1. ASSUME NEW n \in Node, ReceiveReturnsFalse(n) PROVE ~Ended(0) /\ AllWait(0)
  <2>1. AllWait(n) /\ pc[n] = "receiving"
    BY <1>1 DEF ReceiveReturnsFalse
  <2> QED
    BY <2>1 DEF AllWait, Ended
<1>2. ASSUME NEW n \in Node, ClosingSeesAll(n) PROVE ~Ended(0) /\ AllWait(0)
  BY <1>2 DEF ClosingSeesAll, AllWait, Ended
<1>3. ASSUME NEW n \in Node PROVE ~ReceivePops(n)
  BY <1>0, BarrierReceivePops
<1>4. ASSUME NEW n \in Node
      PROVE  /\ ~ receive_data(n) /\ ~ Closes(n) /\ ~ ProgramThrows(n)
             /\ ~ ClosingPops(n) /\ ~ AllClosed(n)
  BY DEF receive_data, Closes, ProgramThrows, ClosingPops, AllClosed
<1>5. ASSUME NEW c \in Conn
      PROVE  ~ send_data(c[1], c[2]) /\ ~ read_thread(c[1], c[2])
  BY DEF send_data, read_thread
<1>6. Next
  BY DEF vars
<1> QED
  BY <1>1, <1>2, <1>3, <1>4, <1>5, <1>6, BspAssumption DEF Next, Library

LEMMA StepBarrierIsSound ==
    ASSUME NoRelay, BspInv, BspInv', BarrierInv, [Next]_vars
    PROVE  [current_epoch'[0] # current_epoch[0] =>
              /\ \A n \in Peers(0) :
                    /\ pc[n] # "running"
                    /\ pc[n] = "receiving" => current_epoch[n] = current_epoch[0]
              /\ \A n \in Node : MessagesFor(n) = {}]_vars
<1> SUFFICES ASSUME current_epoch'[0] # current_epoch[0]
             PROVE  /\ \A n \in Peers(0) :
                          /\ pc[n] # "running"
                          /\ pc[n] = "receiving" => current_epoch[n] = current_epoch[0]
                    /\ \A n \in Node : MessagesFor(n) = {}
  OBVIOUS
<1>1. ~Ended(0) /\ AllWait(0)
  BY BarrierBegins
<1>2. /\ Fly(words) = {}
      /\ \A n \in Peers(0) :
            /\ pc[n] # "running"
            /\ pc[n] = "receiving" => News(words[<<0, n>>]) = {}
  BY <1>1, BarrierReached
<1>3. ASSUME NEW n \in Node PROVE MessagesFor(n) = {}
  BY <1>2, MessageFlies DEF BspInv
<1>4. ASSUME NEW n \in Peers(0), pc[n] = "receiving" PROVE current_epoch[n] = current_epoch[0]
  <2>1. News(words[<<0, n>>]) = {} /\ n \in Active
    BY <1>2, <1>4 DEF Active, Peers
  <2> QED
    BY <2>1 DEF BarrierInv, UpToDate, InStep
<1> QED
  BY <1>2, <1>3, <1>4

(* When node 0 lets the receive calls return (the SEE_ALL_IN_WAITING_STATE of
   receive_data() and of close_all_connections_gracefully()), every other node
   waits in its superstep or has terminated, and no message is in flight.  *)
THEOREM BspBarrierIsSound ==
    ASSUME NoRelay
    PROVE  Spec => BarrierIsSound
<1>1. Init => BspInv /\ BarrierInv
  BY BspInit, BarrierInit
<1>2. BspInv /\ BarrierInv /\ [Next]_vars => BspInv' /\ BarrierInv'
  BY BspAndBarrierNext
<1>3. BspInv /\ BspInv' /\ BarrierInv /\ [Next]_vars =>
        [current_epoch'[0] # current_epoch[0] =>
              /\ \A n \in Peers(0) :
                    /\ pc[n] # "running"
                    /\ pc[n] = "receiving" => current_epoch[n] = current_epoch[0]
              /\ \A n \in Node : MessagesFor(n) = {}]_vars
  BY StepBarrierIsSound
<1> QED
  BY <1>1, <1>2, <1>3, PTL DEF Spec, BarrierIsSound

-----------------------------------------------------------------------------
(* Only a receive call takes a message, and only from the queue of its node. *)
LEMMA Receives ==
    ASSUME BspInv, [Next]_vars, unreceived' < unreceived
    PROVE  \E m \in Node : ReceivePops(m)
<1>0. unreceived \in Int /\ ~(unreceived < unreceived) /\ ~(unreceived + 1 < unreceived)
  BY DEF BspInv, TypeOK
<1>1. ASSUME NEW n \in Node
      PROVE  /\ ~ receive_data(n) /\ ~ Closes(n) /\ ~ ProgramThrows(n)
             /\ ~ ClosingPops(n) /\ ~ AllClosed(n)
  BY <1>0 DEF receive_data, Closes, ProgramThrows, ClosingPops, AllClosed
<1>2. ASSUME NEW n \in Node
      PROVE  ~ ReceiveReturnsFalse(n) /\ ~ ClosingSeesAll(n)
  BY <1>0 DEF ReceiveReturnsFalse, ClosingSeesAll, SeeAll
<1>3. ASSUME NEW c \in Conn
      PROVE  ~ send_data(c[1], c[2]) /\ ~ read_thread(c[1], c[2])
  BY <1>0 DEF send_data, read_thread
<1>4. Next
  BY <1>0 DEF vars
<1> QED
  BY <1>1, <1>2, <1>3, <1>4, BspAssumption DEF Next, Library

LEMMA TakesFromItsQueue ==
    ASSUME TypeOK, NEW m \in Node, ReceivePops(m), NEW n \in Node, msg_buffer'[n] # msg_buffer[n]
    PROVE  m = n
<1>1. DOMAIN msg_buffer = Node
  BY DEF TypeOK, QueuesOK
<1>2. Pops(m) \/ msg_buffer' = [msg_buffer EXCEPT ![m] = <<>>]
  BY DEF ReceivePops, Throw, Destroyed
<1> QED
  BY <1>1, <1>2 DEF Pops

LEMMA StepReceivedInItsSuperstep ==
    ASSUME NoRelay, BspInv, BspInv', BarrierInv, [Next]_vars
    PROVE  [\A n \in Node :
              pc[n] = "receiving" /\ unreceived' < unreceived /\ msg_buffer'[n] # msg_buffer[n] =>
                  msg_buffer[n][Top(n)].epoch = current_epoch[n]]_vars
<1> SUFFICES ASSUME NEW n \in Node, unreceived' < unreceived, msg_buffer'[n] # msg_buffer[n]
             PROVE  msg_buffer[n][Top(n)].epoch = current_epoch[n]
  OBVIOUS
<1>1. TypeOK /\ TypeOK' /\ unreceived \in Int
  BY DEF BspInv, TypeOK
<1>2. PICK m \in Node : ReceivePops(m)
  BY Receives
<1>3. m = n
  BY <1>1, <1>2, TakesFromItsQueue
<1>4. unreceived' = unreceived \/ msg_buffer[m][Top(m)].epoch = current_epoch[m]
  BY <1>1, <1>2, BarrierReceivePops
<1>5. unreceived' # unreceived
  BY <1>1
<1> QED
  BY <1>3, <1>4, <1>5

(* A message that a receive call takes is of the superstep of the node, although
   it may overtake the news of a barrier on its way: the epoch that
   msg_buffer.pop() compares makes it wait.  *)
THEOREM BspReceivedInItsSuperstep ==
    ASSUME NoRelay
    PROVE  Spec => ReceivedInItsSuperstep
<1>1. Init => BspInv /\ BarrierInv
  BY BspInit, BarrierInit
<1>2. BspInv /\ BarrierInv /\ [Next]_vars => BspInv' /\ BarrierInv'
  BY BspAndBarrierNext
<1>3. BspInv /\ BspInv' /\ BarrierInv /\ [Next]_vars =>
        [\A n \in Node :
              pc[n] = "receiving" /\ unreceived' < unreceived /\ msg_buffer'[n] # msg_buffer[n] =>
                  msg_buffer[n][Top(n)].epoch = current_epoch[n]]_vars
  BY StepReceivedInItsSuperstep
<1> QED
  BY <1>1, <1>2, <1>3, PTL DEF Spec, ReceivedInItsSuperstep
=============================================================================
