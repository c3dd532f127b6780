--------------------------- MODULE FairLockProofs ---------------------------
(***************************************************************************)
(* What joining and leaving a FairLock do to its members, its holder and   *)
(* its order: the facts every step of StreamClient that touches a lock     *)
(* needs.  Each is about asyncio.Lock as FairLock describes it.            *)
(***************************************************************************)
EXTENDS FairLock, TLAPS

\* A task that joins is added, and nobody else.
LEMMA JoinQueued ==
    ASSUME NEW S, NEW q \in Seq(S), NEW t \in S
    PROVE  /\ Join(q, t) \in Seq(S)
           /\ Queued(Join(q, t)) = Queued(q) \cup {t}
<1> DEFINE r == Append(q, t)
<1>1. r \in Seq(S) /\ Len(r) = Len(q) + 1
  OBVIOUS
<1>2. \A i \in 1 .. Len(q) : r[i] = q[i]
  OBVIOUS
<1>3. r[Len(q) + 1] = t
  OBVIOUS
<1>4. Len(q) \in Nat
  OBVIOUS
<1>5. ASSUME NEW u PROVE u \in Queued(r) <=> u \in Queued(q) \cup {t}
  <2>1. ASSUME u \in Queued(r) PROVE u \in Queued(q) \cup {t}
    <3>1. PICK i \in 1 .. Len(r) : u = r[i]
      BY <2>1 DEF Queued
    <3>2. i \in 1 .. Len(q) \/ i = Len(q) + 1
      BY <1>1, <1>4
    <3> QED
      BY <3>1, <3>2, <1>2, <1>3 DEF Queued
  <2>2. ASSUME u \in Queued(q) \cup {t} PROVE u \in Queued(r)
    <3>1. CASE u = t
      BY <3>1, <1>1, <1>3, <1>4 DEF Queued
    <3>2. CASE u \in Queued(q)
      BY <3>2, <1>1, <1>2, <1>4 DEF Queued
    <3> QED
      BY <2>2, <3>1, <3>2
  <2> QED
    BY <2>1, <2>2
<1> QED
  BY <1>1, <1>5 DEF Join

\* One that was not there stands once, and the holder stays the holder.
LEMMA JoinOrder ==
    ASSUME NEW S, NEW q \in Seq(S), NEW t \in S, t \notin Queued(q), NoneTwice(q)
    PROVE  /\ NoneTwice(Join(q, t))
           /\ \A u : Holds(q, u) => Holds(Join(q, t), u)
<1> DEFINE r == Append(q, t)
<1>1. Len(q) \in Nat /\ Len(r) = Len(q) + 1 /\ r[Len(q) + 1] = t
  OBVIOUS
<1>2. \A i \in 1 .. Len(q) : r[i] = q[i] /\ q[i] # t
  BY DEF Queued
<1>3. ASSUME NEW i \in 1 .. Len(r), NEW j \in 1 .. Len(r), r[i] = r[j]
      PROVE  i = j
  BY <1>1, <1>2, <1>3 DEF NoneTwice
<1>4. ASSUME NEW u, Holds(q, u) PROVE Holds(r, u)
  <2>1. q # <<>> /\ q[1] = u
    BY <1>4 DEF Holds
  <2>2. Len(q) # 0
    BY <2>1
  <2> QED
    BY <2>1, <2>2, <1>1, <1>2 DEF Holds
<1> QED
  BY <1>3, <1>4 DEF Join, NoneTwice

\* A task that leaves is removed, and nobody else.
LEMMA LeaveShape ==
    ASSUME NEW S, NEW q \in Seq(S), NEW t, t \in Queued(q)
    PROVE  \E at \in 1 .. Len(q) :
              /\ q[at] = t
              /\ Leave(q, t) = [i \in 1 .. Len(q) - 1 |->
                                   IF i < at THEN q[i] ELSE q[i + 1]]
<1> DEFINE at == CHOOSE i \in 1 .. Len(q) : q[i] = t
<1>1. \E i \in 1 .. Len(q) : q[i] = t
  BY DEF Queued
<1>2. at \in 1 .. Len(q) /\ q[at] = t
  BY <1>1
<1> QED
  BY <1>2 DEF Leave

\* What leaves a queue leaves a queue.
LEMMA LeaveType ==
    ASSUME NEW S, NEW q \in Seq(S), NEW t, t \in Queued(q)
    PROVE  /\ Leave(q, t) \in Seq(S)
           /\ Len(Leave(q, t)) = Len(q) - 1
<1>1. PICK at \in 1 .. Len(q) :
         /\ q[at] = t
         /\ Leave(q, t) = [i \in 1 .. Len(q) - 1 |->
                              IF i < at THEN q[i] ELSE q[i + 1]]
  BY LeaveShape
<1> DEFINE n == Len(q) - 1
<1>2. n \in Nat
  OBVIOUS
<1>3. \A i \in 1 .. n : (IF i < at THEN q[i] ELSE q[i + 1]) \in S
  OBVIOUS
<1>4. Leave(q, t) \in [1 .. n -> S]
  BY <1>1, <1>3
<1> QED
  BY <1>2, <1>4

\* After a leave the task is nowhere in the queue, and the others are where they were.
LEMMA LeaveQueued ==
    ASSUME NEW S, NEW q \in Seq(S), NEW t, t \in Queued(q), NoneTwice(q)
    PROVE  /\ Queued(Leave(q, t)) = Queued(q) \ {t}
           /\ NoneTwice(Leave(q, t))
           /\ \A u : u # t /\ Holds(q, u) => Holds(Leave(q, t), u)
<1> DEFINE r == Leave(q, t)
<1>1. PICK at \in 1 .. Len(q) :
         /\ q[at] = t
         /\ r = [i \in 1 .. Len(q) - 1 |-> IF i < at THEN q[i] ELSE q[i + 1]]
  BY LeaveShape
<1>2. r \in Seq(S) /\ Len(r) = Len(q) - 1 /\ Len(q) \in Nat \ {0}
  BY LeaveType
<1>3. \A i \in 1 .. Len(r) : r[i] = IF i < at THEN q[i] ELSE q[i + 1]
  BY <1>1, <1>2
<1> HIDE DEF r
<1>4. \A i \in 1 .. Len(q) : i # at => q[i] # t
  BY <1>1 DEF NoneTwice
<1>5. ASSUME NEW u \in Queued(r) PROVE u \in Queued(q) \ {t}
  <2>1. PICK i \in 1 .. Len(r) : u = r[i]
    BY DEF Queued
  <2>2. CASE i < at
    BY <2>1, <2>2, <1>2, <1>3, <1>4 DEF Queued
  <2>3. CASE ~(i < at)
    <3>1. u = q[i + 1] /\ i + 1 \in 1 .. Len(q) /\ i + 1 # at
      BY <2>1, <2>3, <1>2, <1>3
    <3> QED
      BY <3>1, <1>4 DEF Queued
  <2> QED
    BY <2>2, <2>3
<1>6. ASSUME NEW u \in Queued(q), u # t PROVE u \in Queued(r)
  <2>1. PICK i \in 1 .. Len(q) : u = q[i]
    BY DEF Queued
  <2>2. i # at
    BY <2>1, <1>1, <1>6
  <2>3. CASE i < at
    <3>1. i \in 1 .. Len(r) /\ r[i] = u
      BY <2>1, <2>3, <1>2, <1>3
    <3> QED
      BY <3>1 DEF Queued
  <2>4. CASE i > at
    <3>1. i - 1 \in 1 .. Len(r) /\ ~(i - 1 < at) /\ (i - 1) + 1 = i
      BY <2>4, <1>2
    <3>2. r[i - 1] = u
      BY <2>1, <3>1, <1>3
    <3> QED
      BY <3>1, <3>2 DEF Queued
  <2> QED
    BY <2>2, <2>3, <2>4
<1>7. ASSUME NEW i \in 1 .. Len(r), NEW j \in 1 .. Len(r), r[i] = r[j]
      PROVE  i = j
  <2> DEFINE up(k) == IF k < at THEN k ELSE k + 1
  <2>1. \A k \in 1 .. Len(r) : up(k) \in 1 .. Len(q) /\ r[k] = q[up(k)]
    BY <1>2, <1>3
  <2>2. up(i) = up(j)
    BY <2>1, <1>7 DEF NoneTwice
  <2> QED
    BY <2>2, <1>2
<1>8. ASSUME NEW u, u # t, Holds(q, u) PROVE Holds(r, u)
  <2>1. q[1] = u /\ 1 < at
    BY <1>1, <1>8 DEF Holds
  <2>2. Len(r) \in Nat /\ 1 \in 1 .. Len(r) /\ r[1] = u
    BY <2>1, <1>2, <1>3
  <2>3. r # <<>>
    BY <2>2
  <2> QED
    BY <2>2, <2>3 DEF Holds
<1> QED
  BY <1>5, <1>6, <1>7, <1>8 DEF NoneTwice, r
=============================================================================
