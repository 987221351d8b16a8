---------------------------- MODULE KernelProofs ----------------------------
(* For every set of threads.  First the scheduler, for Sched's own         *)
(* specification: the run queue is one ring, thread states and saved       *)
(* contexts agree with it, and the scheduler implements RoundRobin.  Then  *)
(* the kernel put together: kmain's start-up sequence, the interrupts that *)
(* come while it is going on, and what kmain and the shell do after it     *)
(* never let a line through that has no handler, and leave the keyboard    *)
(* on.                                                                     *)
EXTENDS Kernel, FiniteSetTheorems, SequenceTheorems, WellFoundedInduction, TLAPS

(* Induction over the naturals, with the numbers that satisfy the claim as *)
(* a set.                                                                  *)
LEMMA SetInduction ==
  ASSUME NEW S \in SUBSET Nat, 0 \in S, \A n \in S : n + 1 \in S
  PROVE  \A n \in Nat : n \in S
  <1> DEFINE R == OpToRel(<, Nat)
             T == Nat \ S
  <1> SUFFICES ASSUME T # {} PROVE FALSE
      OBVIOUS
  <1>1. IsWellFoundedOn(R, Nat)
      BY NatLessThanWellFounded, Zenon
  <1>2. \A x, y \in Nat : x < y => <<x, y>> \in R
      BY DEF OpToRel
  <1> HIDE DEF R
  <1>3. PICK x \in T : \A y \in T : ~ (<<y, x>> \in R)
    <2>1. T \subseteq Nat
        OBVIOUS
    <2> HIDE DEF T
    <2> QED
        BY <1>1, <2>1, WFMin
  <1>4. x - 1 \in Nat /\ x - 1 < x
      OBVIOUS
  <1>5. x - 1 \in S
      BY <1>2, <1>3, <1>4
  <1>6. (x - 1) + 1 \in S
      BY <1>5
  <1> QED
      BY <1>6

-----------------------------------------------------------------------------
(* The ring.                                                               *)

Links == [head : Threads \cup {NULL},
          next : [Threads -> Threads \cup {NULL}],
          prev : [Threads -> Threads \cup {NULL}]]

Succ(q, k) == IF k = Len(q) THEN 1 ELSE k + 1
Pred(q, k) == IF k = 1 THEN Len(q) ELSE k - 1

(* The list r holds the threads of q, each once, in this order.            *)
Ring(r, q) ==
    /\ r \in Links
    /\ q \in Seq(Threads)
    /\ \A j, k \in 1 .. Len(q) : q[j] = q[k] => j = k
    /\ \A t \in Threads : r.next[t] # NULL => \E k \in 1 .. Len(q) : q[k] = t
    /\ \A t \in Threads : r.next[t] = NULL => r.prev[t] = NULL
    /\ \A k \in 1 .. Len(q) : r.next[q[k]] = q[Succ(q, k)] /\ r.prev[q[k]] = q[Pred(q, k)]
    /\ r.head = IF Len(q) = 0 THEN NULL ELSE q[1]

RemoveAt(q, k) == SubSeq(q, 1, k - 1) \o SubSeq(q, k + 1, Len(q))

(* What is left of q without its k-th member.                              *)
LEMMA RemoveAtIs ==
  ASSUME NEW q \in Seq(Threads), NEW k \in 1 .. Len(q)
  PROVE  /\ RemoveAt(q, k) \in Seq(Threads)
         /\ Len(RemoveAt(q, k)) = Len(q) - 1
         /\ \A j \in 1 .. Len(q) - 1 :
               RemoveAt(q, k)[j] = IF j < k THEN q[j] ELSE q[j + 1]
  <1> DEFINE a == SubSeq(q, 1, k - 1)
             b == SubSeq(q, k + 1, Len(q))
  <1>0. Len(q) \in Nat /\ \A j \in 1 .. Len(q) : q[j] \in Threads
      OBVIOUS
  <1>1. a \in Seq(Threads) /\ Len(a) = k - 1 /\ \A j \in 1 .. k - 1 : a[j] = q[j]
      BY <1>0, SubSeqProperties
  <1>2. b \in Seq(Threads) /\ Len(b) = Len(q) - k /\ \A j \in 1 .. Len(q) - k : b[j] = q[k + j]
      BY <1>0, SubSeqProperties
  <1>3. RemoveAt(q, k) = a \o b
      BY DEF RemoveAt
  <1> HIDE DEF a, b
  <1>4. /\ a \o b \in Seq(Threads)
        /\ Len(a \o b) = Len(a) + Len(b)
        /\ \A j \in 1 .. Len(a) + Len(b) : (a \o b)[j] = IF j <= Len(a) THEN a[j] ELSE b[j - Len(a)]
      BY <1>1, <1>2, ConcatProperties
  <1>5. \A j \in 1 .. Len(q) - 1 : (a \o b)[j] = IF j < k THEN q[j] ELSE q[j + 1]
    <2> TAKE j \in 1 .. Len(q) - 1
    <2>1. CASE j < k
      <3>1. j \in 1 .. k - 1 /\ j \in 1 .. Len(a) + Len(b) /\ j <= Len(a)
          BY <1>0, <1>1, <1>2, <2>1
      <3>2. (a \o b)[j] = a[j]
          BY <1>4, <3>1
      <3> QED
          BY <1>1, <2>1, <3>1, <3>2
    <2>2. CASE ~ (j < k)
      <3>1. /\ j - Len(a) \in 1 .. Len(q) - k /\ j \in 1 .. Len(a) + Len(b) /\ ~ (j <= Len(a))
            /\ k + (j - Len(a)) = j + 1
          BY <1>0, <1>1, <1>2, <2>2
      <3>2. (a \o b)[j] = b[j - Len(a)]
          BY <1>4, <3>1
      <3>3. b[j - Len(a)] = q[k + (j - Len(a))]
          BY <1>2, <3>1
      <3> QED
          BY <2>2, <3>1, <3>2, <3>3
    <2> QED
        BY <2>1, <2>2
  <1> QED
      BY <1>0, <1>1, <1>2, <1>3, <1>4, <1>5

(* A linked thread is in the sequence, and only such.                      *)
LEMMA RingMembers ==
  ASSUME NEW r, NEW q, Ring(r, q)
  PROVE  /\ Len(q) \in Nat
         /\ \A k \in 1 .. Len(q) : q[k] \in Threads /\ r.next[q[k]] # NULL
         /\ \A t \in Threads : r.next[t] # NULL <=> \E k \in 1 .. Len(q) : q[k] = t
         /\ r.head = NULL <=> q = <<>>
         /\ q # <<>> => r.head = q[1]
  <1>1. Len(q) \in Nat /\ \A k \in 1 .. Len(q) : q[k] \in Threads
      BY DEF Ring
  <1>2. \A k \in 1 .. Len(q) : r.next[q[k]] # NULL
      BY <1>1, SchedAssumption DEF Ring, Succ
  <1>3. q = <<>> <=> Len(q) = 0
      BY DEF Ring
  <1> QED
      BY <1>1, <1>2, <1>3, SchedAssumption DEF Ring

(* enqueue adds a thread that is not linked at the end.                    *)
LEMMA EnqueueRing ==
  ASSUME NEW r, NEW q, Ring(r, q), NEW t \in Threads, r.next[t] = NULL
  PROVE  Ring(Enqueue(r, t), Append(q, t))
  <1> DEFINE p == Append(q, t)
             e == Enqueue(r, t)
             n == Len(q)
  <1> SUFFICES Ring(e, p)
      OBVIOUS
  <1>0. n \in Nat /\ q \in Seq(Threads) /\ r \in Links
      BY DEF Ring
  <1>1. /\ p \in Seq(Threads) /\ Len(p) = n + 1
        /\ \A k \in 1 .. n : p[k] = q[k]
        /\ p[n + 1] = t
      BY <1>0
  <1>2. \A k \in 1 .. n : q[k] \in Threads /\ q[k] # t
      BY RingMembers
  <1>3. \A j, k \in 1 .. n + 1 : p[j] = p[k] => j = k
      BY <1>0, <1>1, <1>2, SMTT(30) DEF Ring
  <1> HIDE DEF p
  <1>4. CASE n = 0
    <2>1. e = [head |-> t, next |-> [r.next EXCEPT ![t] = t], prev |-> [r.prev EXCEPT ![t] = t]]
        BY <1>4 DEF Ring, Enqueue
    <2>2. \A s \in Threads : r.next[s] = NULL
        BY <1>4 DEF Ring
    <2> HIDE DEF e
    <2> QED
        BY <1>0, <1>1, <1>3, <1>4, <2>1, <2>2 DEF Ring, Links, Succ, Pred
  <1>5. CASE n > 0
    <2>1. r.head = q[1] /\ r.head # NULL /\ r.prev[r.head] = q[n]
        BY <1>0, <1>2, <1>5, SchedAssumption DEF Ring, Pred
    <2>2. e = [head |-> q[1],
               next |-> [r.next EXCEPT ![t] = q[1], ![q[n]] = t],
               prev |-> [r.prev EXCEPT ![t] = q[n], ![q[1]] = t]]
        BY <2>1 DEF Enqueue, HeadAfter
    <2> HIDE DEF e
    <2>3. e \in Links
        BY <1>0, <1>2, <1>5, <2>2, SMTT(30) DEF Links
    <2>4. /\ \A s \in Threads : e.next[s] = IF s = q[n] THEN t ELSE IF s = t THEN q[1] ELSE r.next[s]
          /\ \A s \in Threads : e.prev[s] = IF s = q[1] THEN t ELSE IF s = t THEN q[n] ELSE r.prev[s]
        BY <1>0, <1>2, <1>5, <2>2 DEF Links
    <2>5. \A s \in Threads : e.next[s] # NULL => \E k \in 1 .. n + 1 : p[k] = s
      <3> SUFFICES ASSUME NEW s \in Threads, e.next[s] # NULL, s # t
                   PROVE  \E k \in 1 .. n : q[k] = s
          BY <1>0, <1>1
      <3>1. CASE s = q[n]
          BY <1>0, <1>5, <3>1
      <3>2. CASE s # q[n]
          BY <2>4, <3>2 DEF Ring
      <3> QED
          BY <3>1, <3>2
    <2>6. \A s \in Threads : e.next[s] = NULL => e.prev[s] = NULL
      <3> SUFFICES ASSUME NEW s \in Threads, e.next[s] = NULL
                   PROVE  e.prev[s] = NULL
          OBVIOUS
      <3>1. s # t /\ s # q[n] /\ r.next[s] = NULL
          BY <1>0, <1>2, <1>5, <2>4, SchedAssumption
      <3>2. s # q[1]
          BY <1>0, <1>5, <3>1, RingMembers
      <3> QED
          BY <2>4, <3>1, <3>2 DEF Ring
    <2>7. \A k \in 1 .. n + 1 : e.next[p[k]] = p[Succ(p, k)]
      <3> SUFFICES ASSUME NEW k \in 1 .. n + 1 PROVE e.next[p[k]] = p[Succ(p, k)]
          OBVIOUS
      <3>1. CASE k = n + 1
          BY <1>0, <1>1, <1>2, <1>5, <2>4, <3>1 DEF Succ
      <3>2. CASE k = n
          BY <1>0, <1>1, <1>2, <1>5, <2>4, <3>2 DEF Succ
      <3>3. CASE k < n
        <4>1. p[k] = q[k] /\ q[k] # q[n] /\ q[k] # t /\ q[k] \in Threads
            BY <1>0, <1>1, <1>2, <3>3 DEF Ring
        <4>2. r.next[q[k]] = q[k + 1] /\ p[Succ(p, k)] = q[k + 1]
            BY <1>0, <1>1, <3>3 DEF Ring, Succ
        <4> QED
            BY <2>4, <4>1, <4>2
      <3> QED
          BY <1>0, <3>1, <3>2, <3>3
    <2>8. \A k \in 1 .. n + 1 : e.prev[p[k]] = p[Pred(p, k)]
      <3> SUFFICES ASSUME NEW k \in 1 .. n + 1 PROVE e.prev[p[k]] = p[Pred(p, k)]
          OBVIOUS
      <3>1. CASE k = n + 1
          BY <1>0, <1>1, <1>2, <1>5, <2>4, <3>1 DEF Pred
      <3>2. CASE k = 1
          BY <1>0, <1>1, <1>2, <1>5, <2>4, <3>2 DEF Pred
      <3>3. CASE k \in 2 .. n
        <4>1. p[k] = q[k] /\ q[k] # q[1] /\ q[k] # t /\ q[k] \in Threads
            BY <1>0, <1>1, <1>2, <3>3 DEF Ring
        <4>2. r.prev[q[k]] = q[k - 1] /\ p[Pred(p, k)] = q[k - 1]
            BY <1>0, <1>1, <3>3, SMTT(30) DEF Ring, Pred
        <4> QED
            BY <2>4, <4>1, <4>2
      <3> QED
          BY <1>0, <3>1, <3>2, <3>3
    <2>9. e.head = p[1] /\ Len(p) # 0
        BY <1>0, <1>1, <1>5, <2>2
    <2> HIDE DEF n
    <2> QED
        BY <1>1, <1>3, <2>3, <2>5, <2>6, <2>7, <2>8, <2>9 DEF Ring
  <1> QED
      BY <1>0, <1>4, <1>5

(* Unlinking takes a thread out wherever it is.                            *)
LEMMA UnlinkRing ==
  ASSUME NEW r, NEW q, Ring(r, q), NEW k \in 1 .. Len(q)
  PROVE  Ring(Unlink(r, q[k]), RemoveAt(q, k))
  <1> DEFINE p == RemoveAt(q, k)
             u == Unlink(r, q[k])
             n == Len(q)
             at(j) == IF j < k THEN j ELSE j + 1
  <1> SUFFICES Ring(u, p)
      OBVIOUS
  <1>0. n \in Nat /\ q \in Seq(Threads) /\ r \in Links
      BY DEF Ring
  <1>1. /\ p \in Seq(Threads) /\ Len(p) = n - 1
        /\ \A j \in 1 .. n - 1 : p[j] = q[at(j)] /\ at(j) \in 1 .. n /\ at(j) # k
      BY <1>0, RemoveAtIs
  <1>2. \A j \in 1 .. n : q[j] \in Threads /\ (q[j] = q[k] => j = k)
      BY <1>0 DEF Ring
  <1>3. r.next[q[k]] = q[Succ(q, k)] /\ r.prev[q[k]] = q[Pred(q, k)]
      BY DEF Ring
  <1>4. Succ(q, k) \in 1 .. n /\ Pred(q, k) \in 1 .. n
      BY <1>0 DEF Succ, Pred
  <1>5. \A i, j \in 1 .. n - 1 : p[i] = p[j] => i = j
    <2> SUFFICES ASSUME NEW i \in 1 .. n - 1, NEW j \in 1 .. n - 1, p[i] = p[j]
                 PROVE  i = j
        OBVIOUS
    <2>1. q[at(i)] = q[at(j)] /\ at(i) \in 1 .. n /\ at(j) \in 1 .. n
        BY <1>1
    <2>2. at(i) = at(j)
        BY <2>1 DEF Ring
    <2> QED
        BY <1>0, <2>2
  <1>6. /\ u \in Links
        /\ u.head = IF r.next[q[k]] = q[k] THEN NULL
                    ELSE IF r.head = q[k] THEN r.next[q[k]] ELSE r.head
        /\ \A s \in Threads : u.next[s] = IF s = q[k] THEN NULL
                                           ELSE IF s = q[Pred(q, k)] THEN q[Succ(q, k)] ELSE r.next[s]
        /\ \A s \in Threads : u.prev[s] = IF s = q[k] THEN NULL
                                           ELSE IF s = q[Succ(q, k)] THEN q[Pred(q, k)] ELSE r.prev[s]
    <2>1. u = [head |-> IF r.next[q[k]] = q[k] THEN NULL
                        ELSE IF r.head = q[k] THEN r.next[q[k]] ELSE r.head,
               next |-> [r.next EXCEPT ![q[Pred(q, k)]] = q[Succ(q, k)], ![q[k]] = NULL],
               prev |-> [r.prev EXCEPT ![q[Succ(q, k)]] = q[Pred(q, k)], ![q[k]] = NULL]]
        BY <1>3 DEF Unlink
    <2>2. q[k] \in Threads /\ q[Succ(q, k)] \in Threads /\ q[Pred(q, k)] \in Threads
        BY <1>2, <1>4
    <2> HIDE DEF u
    <2> QED
        BY <1>0, <1>3, <2>1, <2>2 DEF Links
  <1> HIDE DEF u, p
  <1>7. \A s \in Threads : u.next[s] # NULL => \E j \in 1 .. n - 1 : p[j] = s
    <2> SUFFICES ASSUME NEW s \in Threads, u.next[s] # NULL
                 PROVE  \E j \in 1 .. n - 1 : p[j] = s
        OBVIOUS
    <2>1. PICK j \in 1 .. n : q[j] = s /\ j # k
      <3>1. s # q[k] /\ (s = q[Pred(q, k)] \/ r.next[s] # NULL)
          BY <1>6
      <3> QED
          BY <1>0, <1>4, <3>1 DEF Ring
    <2>2. CASE j < k
        BY <1>0, <1>1, <2>1, <2>2
    <2>3. CASE j > k
      <3>1. j - 1 \in 1 .. n - 1 /\ at(j - 1) = j
          BY <1>0, <2>3
      <3> QED
          BY <1>1, <2>1, <3>1
    <2> QED
        BY <1>0, <2>1, <2>2, <2>3
  <1>8. \A s \in Threads : u.next[s] = NULL => u.prev[s] = NULL
    <2> SUFFICES ASSUME NEW s \in Threads, u.next[s] = NULL, s # q[k]
                 PROVE  u.prev[s] = NULL
        BY <1>6
    <2>1. s # q[Pred(q, k)] /\ r.next[s] = NULL
        BY <1>2, <1>4, <1>6, SchedAssumption
    <2>2. s # q[Succ(q, k)]
        BY <1>4, <2>1, RingMembers
    <2> QED
        BY <1>6, <2>1, <2>2 DEF Ring
  <1>9. ASSUME NEW j \in 1 .. n - 1
        PROVE  u.next[p[j]] = p[Succ(p, j)] /\ u.prev[p[j]] = p[Pred(p, j)]
    <2>1. p[j] = q[at(j)] /\ at(j) \in 1 .. n /\ p[j] \in Threads /\ p[j] # q[k]
        BY <1>1, <1>2
    <2>2. /\ p[j] = q[Pred(q, k)] <=> at(j) = Pred(q, k)
          /\ p[j] = q[Succ(q, k)] <=> at(j) = Succ(q, k)
        BY <1>4, <2>1 DEF Ring
    <2>3. r.next[p[j]] = q[Succ(q, at(j))] /\ r.prev[p[j]] = q[Pred(q, at(j))]
        BY <2>1 DEF Ring
    <2>4. Succ(p, j) \in 1 .. n - 1 /\ Pred(p, j) \in 1 .. n - 1
        BY <1>0, <1>1 DEF Succ, Pred
    <2>5. p[Succ(p, j)] = q[at(Succ(p, j))] /\ p[Pred(p, j)] = q[at(Pred(p, j))]
        BY <1>1, <2>4
    <2>6. at(Succ(p, j)) = IF at(j) = Pred(q, k) THEN Succ(q, k) ELSE Succ(q, at(j))
        BY <1>0, <1>1 DEF Succ, Pred
    <2>7. at(Pred(p, j)) = IF at(j) = Succ(q, k) THEN Pred(q, k) ELSE Pred(q, at(j))
        BY <1>0, <1>1 DEF Succ, Pred
    <2>8. u.next[p[j]] = p[Succ(p, j)]
        BY <1>6, <2>1, <2>2, <2>3, <2>5, <2>6
    <2>9. u.prev[p[j]] = p[Pred(p, j)]
        BY <1>6, <2>1, <2>2, <2>3, <2>5, <2>7
    <2> QED
        BY <2>8, <2>9
  <1>10. u.head = IF n - 1 = 0 THEN NULL ELSE p[1]
    <2>1. r.head = q[1]
        BY <1>0 DEF Ring
    <2>2. CASE n = 1
      <3>1. Succ(q, k) = k
          BY <2>2 DEF Succ
      <3> QED
          BY <1>3, <1>6, <2>2, <3>1
    <2>3. CASE n > 1
      <3>1. r.next[q[k]] # q[k]
          BY <1>0, <1>2, <1>3, <2>3 DEF Succ
      <3>2. CASE k = 1
        <4>1. r.next[q[k]] = q[2] /\ p[1] = q[2]
            BY <1>0, <1>1, <1>3, <2>3, <3>2 DEF Succ
        <4> QED
            BY <1>6, <2>1, <2>3, <3>1, <3>2, <4>1
      <3>3. CASE k > 1
        <4>1. p[1] = q[1] /\ q[1] # q[k]
            BY <1>0, <1>1, <1>2, <2>3, <3>3
        <4> QED
            BY <1>6, <2>1, <2>3, <3>1, <4>1
      <3> QED
          BY <3>2, <3>3
    <2> QED
        BY <1>0, <2>2, <2>3
  <1> HIDE DEF n
  <1> QED
      BY <1>1, <1>5, <1>6, <1>7, <1>8, <1>9, <1>10 DEF Ring

-----------------------------------------------------------------------------
(* The queue read off the list.                                            *)

Linked == {t \in Threads : Queued(t)}

(* There are as many linked threads as the sequence is long.               *)
LEMMA LinkedCount ==
  ASSUME NEW q, Ring(rq, q)
  PROVE  Cardinality(Linked) = Len(q)
  <1>1. Len(q) \in Nat /\ q \in [1 .. Len(q) -> Linked]
      BY RingMembers DEF Ring, Linked, Queued
  <1>2. q \in Injection(1 .. Len(q), Linked)
      BY <1>1 DEF Ring, Injection, IsInjective
  <1>3. q \in Surjection(1 .. Len(q), Linked)
      BY <1>1, RingMembers DEF Surjection, Linked, Queued
  <1>4. ExistsBijection(1 .. Len(q), Linked)
      BY <1>2, <1>3 DEF ExistsBijection, Bijection
  <1> QED
      BY <1>1, <1>4, FS_CountingElements

(* The sequence is the only function that follows next from the head.      *)
LEMMA WalkUnique ==
  ASSUME NEW q, Ring(rq, q), NEW f,
         f = [k \in 1 .. Len(q) |-> IF k = 1 THEN rq.head ELSE NextOf(f[k - 1])]
  PROVE  f = q
  <1> DEFINE n == Len(q)
             S == {k \in Nat : k \in 1 .. n => f[k] = q[k]}
  <1>0. n \in Nat /\ q \in Seq(Threads)
      BY DEF Ring
  <1>1. 0 \in S
      OBVIOUS
  <1>2. ASSUME NEW k \in S PROVE k + 1 \in S
    <2> SUFFICES ASSUME k + 1 \in 1 .. n PROVE f[k + 1] = q[k + 1]
        OBVIOUS
    <2>1. CASE k = 0
        BY <1>0, <2>1 DEF Ring
    <2>2. CASE k > 0
      <3>1. k \in 1 .. n /\ f[k] = q[k] /\ q[k] \in Threads
          BY <1>0, <2>2
      <3>2. f[k + 1] = NextOf(f[k])
          BY <1>0, <2>2
      <3>3. Succ(q, k) = k + 1
          BY <1>0, <2>2 DEF Succ
      <3>4. NextOf(q[k]) = q[k + 1]
          BY <3>1, <3>3, SchedAssumption DEF NextOf, Ring
      <3> QED
          BY <3>1, <3>2, <3>4
    <2> QED
        BY <2>1, <2>2
  <1>3. \A k \in Nat : k \in S
    <2> HIDE DEF S
    <2>1. S \in SUBSET Nat
        BY DEF S
    <2> QED
        BY <1>1, <1>2, <2>1, SetInduction
  <1>4. ASSUME NEW k \in 1 .. n PROVE f[k] = q[k]
    <2>1. k \in Nat
        BY <1>0
    <2>2. k \in S
        BY <1>3, <2>1, Zenon
    <2> QED
        BY <2>2
  <1>5. DOMAIN f = 1 .. n
      OBVIOUS
  <1> QED
      BY <1>0, <1>4, <1>5

(* RunQueue reads the sequence off the list.                               *)
LEMMA RunQueueIs ==
  ASSUME NEW q, Ring(rq, q)
  PROVE  RunQueue = q
  <1> DEFINE n == Cardinality({t \in Threads : Queued(t)})
             Walk(f) == f = [k \in 1 .. n |-> IF k = 1 THEN rq.head ELSE NextOf(f[k - 1])]
  <1>0. n = Len(q)
      BY LinkedCount DEF Linked
  <1>1. RunQueue = CHOOSE f : Walk(f)
      BY DEF RunQueue
  <1> HIDE DEF n
  <1>2. Walk(q)
    <2>1. Len(q) \in Nat /\ q \in Seq(Threads)
        BY DEF Ring
    <2>2. \A k \in 1 .. Len(q) : q[k] = IF k = 1 THEN rq.head ELSE NextOf(q[k - 1])
      <3> SUFFICES ASSUME NEW k \in 1 .. Len(q), k # 1 PROVE q[k] = NextOf(q[k - 1])
          BY <2>1 DEF Ring
      <3>1. k - 1 \in 1 .. Len(q) /\ q[k - 1] \in Threads /\ Succ(q, k - 1) = k
          BY <2>1 DEF Succ
      <3> QED
          BY <3>1, SchedAssumption DEF NextOf, Ring
    <2> QED
        BY <1>0, <2>1, <2>2
  <1>3. \A f : Walk(f) => f = q
      BY <1>0, WalkUnique
  <1> HIDE DEF Walk
  <1>4. Walk(CHOOSE f : Walk(f))
      BY <1>2
  <1> QED
      BY <1>1, <1>3, <1>4

(* A list that holds some sequence is a ring in the sense of RingOK.       *)
LEMMA RingIsOK ==
  ASSUME NEW q, Ring(rq, q)
  PROVE  RingOK
  <1>0. Len(q) \in Nat /\ q \in Seq(Threads) /\ rq \in Links
      BY DEF Ring
  <1>1. RunQueue = q /\ Cardinality(Linked) = Len(q)
      BY RunQueueIs, LinkedCount
  <1>2. \A t \in Threads : t \in Linked <=> \E k \in 1 .. Len(q) : q[k] = t
      BY RingMembers DEF Linked, Queued
  <1>3. \A t \in Linked : rq.next[t] \in Linked /\ rq.prev[rq.next[t]] = t
    <2> SUFFICES ASSUME NEW t \in Linked PROVE rq.next[t] \in Linked /\ rq.prev[rq.next[t]] = t
        OBVIOUS
    <2>1. PICK k \in 1 .. Len(q) : q[k] = t
        BY <1>2 DEF Linked
    <2>2. Succ(q, k) \in 1 .. Len(q) /\ Pred(q, Succ(q, k)) = k
        BY <1>0 DEF Succ, Pred
    <2>3. rq.next[t] = q[Succ(q, k)] /\ rq.prev[q[Succ(q, k)]] = q[k]
        BY <2>1, <2>2 DEF Ring
    <2> QED
        BY <1>0, <1>2, <2>1, <2>2, <2>3
  <1>4. \A t \in Threads \ Linked : rq.prev[t] = NULL
      BY DEF Ring, Linked, Queued
  <1>5. {q[k] : k \in 1 .. Len(q)} = Linked
      BY <1>0, <1>2 DEF Linked
  <1>6. rq.head = NULL <=> Linked = {}
    <2>1. CASE Len(q) = 0
        BY <1>2, <2>1 DEF Ring, Linked
    <2>2. CASE Len(q) > 0
      <3>1. 1 \in 1 .. Len(q) /\ q[1] \in Threads
          BY <1>0, <2>2
      <3>2. rq.head = q[1] /\ q[1] \in Linked
          BY <1>2, <2>2, <3>1 DEF Ring
      <3> QED
          BY <3>1, <3>2, SchedAssumption
    <2> QED
        BY <1>0, <2>1, <2>2
  <1>7. Len(q) > 0 => NextOf(q[Len(q)]) = rq.head
    <2> SUFFICES ASSUME Len(q) > 0 PROVE NextOf(q[Len(q)]) = rq.head
        OBVIOUS
    <2>1. q[Len(q)] \in Threads /\ rq.next[q[Len(q)]] = q[1] /\ rq.head = q[1]
        BY <1>0 DEF Ring, Succ
    <2> QED
        BY <2>1, SchedAssumption DEF NextOf
  <1>8. RingOK <=>
          /\ \A t \in Linked : rq.next[t] \in Linked /\ rq.prev[rq.next[t]] = t
          /\ \A t \in Threads \ Linked : rq.prev[t] = NULL
          /\ {RunQueue[k] : k \in 1 .. Cardinality(Linked)} = Linked
          /\ rq.head = NULL <=> Linked = {}
          /\ Cardinality(Linked) > 0 => NextOf(RunQueue[Cardinality(Linked)]) = rq.head
      BY Zenon DEF RingOK, Linked
  <1> QED
      BY <1>1, <1>3, <1>4, <1>5, <1>6, <1>7, <1>8

-----------------------------------------------------------------------------
(* The inductive invariant.  First the types it needs.                     *)
TypeOK ==
    /\ state \in [Threads -> {"unborn", "READY", "RUNNING", "SLEEPING", "BLOCKED", "ZOMBIE"}]
    /\ cur \in Threads \cup {NULL}
    /\ esp \in [Threads -> {"none", "fresh", "saved", "live", "garbage"}]

(* Whatever may be put into the queue can be resumed.                      *)
Resumable ==
    \A t \in Threads :
        state[t] \in {"READY", "SLEEPING", "BLOCKED"} => esp[t] \in {"fresh", "saved"}

(* There is always a thread to switch to.                                  *)
IdleStays == cur \notin {NULL, Idle} => Queued(Idle)

(* No thread exists before sched_init.                                     *)
BeforeInit == cur = NULL => \A t \in Threads : state[t] = "unborn"

(* The invariant: the list holds some sequence, and states and contexts    *)
(* agree with it.                                                          *)
Inv ==
    /\ TypeOK
    /\ \E q : Ring(rq, q)
    /\ StateMatchesQueue
    /\ ContextsValid
    /\ Resumable
    /\ IdleStays
    /\ BeforeInit

(* The list of a queue without members.                                    *)
LEMMA EmptyRing == Ring(EmptyQueue, <<>>)
  BY SchedAssumption DEF Ring, EmptyQueue, Links

(* Taking the first member leaves the tail.                                *)
LEMMA RemoveHead ==
  ASSUME NEW q \in Seq(Threads), q # <<>>
  PROVE  RemoveAt(q, 1) = Tail(q) /\ 1 \in 1 .. Len(q) /\ Head(q) = q[1]
  <1>1. Len(q) \in Nat \ {0}
      OBVIOUS
  <1>2. RemoveAt(q, 1) \in Seq(Threads) /\ Tail(q) \in Seq(Threads)
      BY <1>1, RemoveAtIs
  <1>3. Len(RemoveAt(q, 1)) = Len(q) - 1 /\ Len(Tail(q)) = Len(q) - 1
      BY <1>1, RemoveAtIs, HeadTailProperties
  <1>4. \A j \in 1 .. Len(q) - 1 : RemoveAt(q, 1)[j] = q[j + 1]
    <2>1. \A j \in 1 .. Len(q) - 1 : RemoveAt(q, 1)[j] = IF j < 1 THEN q[j] ELSE q[j + 1]
      <3>1. 1 \in 1 .. Len(q)
          BY <1>1
      <3> QED
          BY <3>1, RemoveAtIs
    <2> QED
        BY <1>1, <2>1
  <1>5. \A j \in 1 .. Len(q) - 1 : Tail(q)[j] = q[j + 1]
      BY <1>1
  <1> QED
      BY <1>1, <1>2, <1>3, <1>4, <1>5, SeqEqual

(* Who is linked after the two splices.                                    *)
LEMMA EnqueueLinks ==
  ASSUME NEW r, NEW q, Ring(r, q), NEW t \in Threads, r.next[t] = NULL, NEW s \in Threads
  PROVE  Enqueue(r, t).next[s] # NULL <=> (s = t \/ r.next[s] # NULL)
  <1> DEFINE e == Enqueue(r, t)
             p == Append(q, t)
  <1>1. Ring(e, p)
      BY EnqueueRing
  <1>2. e.next[s] # NULL <=> \E k \in 1 .. Len(p) : p[k] = s
    <2> HIDE DEF e, p
    <2> QED
        BY <1>1, RingMembers
  <1>3. r.next[s] # NULL <=> \E k \in 1 .. Len(q) : q[k] = s
      BY RingMembers
  <1>4. /\ Len(q) \in Nat /\ Len(Append(q, t)) = Len(q) + 1
        /\ \A k \in 1 .. Len(q) : Append(q, t)[k] = q[k]
        /\ Append(q, t)[Len(q) + 1] = t
      BY DEF Ring
  <1> QED
      BY <1>2, <1>3, <1>4

(* Unlinking removes that one thread and no other.                         *)
LEMMA UnlinkLinks ==
  ASSUME NEW r, NEW q, Ring(r, q), NEW k \in 1 .. Len(q), NEW s \in Threads
  PROVE  Unlink(r, q[k]).next[s] # NULL <=> (s # q[k] /\ r.next[s] # NULL)
  <1>0. q \in Seq(Threads) /\ Len(q) \in Nat
      BY DEF Ring
  <1> DEFINE u == Unlink(r, q[k])
             p == RemoveAt(q, k)
  <1>1. Ring(u, p) /\ Len(p) = Len(q) - 1
      BY <1>0, UnlinkRing, RemoveAtIs
  <1>2. \A j \in 1 .. Len(q) - 1 : p[j] = IF j < k THEN q[j] ELSE q[j + 1]
      BY <1>0, RemoveAtIs
  <1> HIDE DEF u, p
  <1> SUFFICES u.next[s] # NULL <=> (s # q[k] /\ r.next[s] # NULL)
      BY DEF u
  <1>6. u.next[s] # NULL <=> \E j \in 1 .. Len(q) - 1 : p[j] = s
      BY <1>1, RingMembers
  <1>3. r.next[s] # NULL <=> \E j \in 1 .. Len(q) : q[j] = s
      BY RingMembers
  <1>4. ASSUME NEW j \in 1 .. Len(q) - 1, p[j] = s
        PROVE  s # q[k] /\ r.next[s] # NULL
    <2>1. PICK i \in 1 .. Len(q) : q[i] = s /\ i # k
        BY <1>0, <1>2, <1>4
    <2> QED
        BY <1>3, <2>1 DEF Ring
  <1>5. ASSUME s # q[k], NEW j \in 1 .. Len(q), q[j] = s
        PROVE  \E i \in 1 .. Len(q) - 1 : p[i] = s
    <2>1. j # k
        BY <1>5
    <2>2. CASE j < k
        BY <1>0, <1>5, <1>2, <2>2
    <2>3. CASE j > k
      <3>1. j - 1 \in 1 .. Len(q) - 1 /\ ~ (j - 1 < k) /\ (j - 1) + 1 = j
          BY <1>0, <2>3
      <3>2. p[j - 1] = q[j]
          BY <1>2, <3>1
      <3> QED
          BY <1>5, <3>1, <3>2
    <2> QED
        BY <1>0, <2>1, <2>2, <2>3
  <1> QED
      BY <1>3, <1>4, <1>5, <1>6

-----------------------------------------------------------------------------
(* The states a thread may be in when it calls sched_yield.                *)
Leaving(st) ==
    /\ st \in [Threads -> {"unborn", "READY", "RUNNING", "SLEEPING", "BLOCKED", "ZOMBIE"}]
    /\ \A t \in Threads \ {cur} : st[t] = state[t]
    /\ st[cur] \in {"RUNNING", "SLEEPING", "ZOMBIE"}
    /\ cur = Idle => st[cur] = "RUNNING"

(* The queue that a switch leaves behind.                                  *)
After(q, st) == IF st[cur] = "RUNNING" THEN Append(Tail(q), cur) ELSE Tail(q)

(* What sched_yield does when another thread is ready ...                  *)
LEMMA YieldSwitch ==
  ASSUME Inv, NEW q, Ring(rq, q), q # <<>>, cur # NULL,
         NEW st, Leaving(st), Yield(st)
  PROVE  /\ cur' = q[1] /\ q[1] \in Threads /\ q[1] # cur
         /\ Queued(q[1])
         /\ Ring(rq', After(q, st))
         /\ \A s \in Threads : rq'.next[s] # NULL
               <=> (s # q[1] /\ (Queued(s) \/ (s = cur /\ st[cur] = "RUNNING")))
         /\ state' = [s \in Threads |-> IF s = q[1] THEN "RUNNING"
                                        ELSE IF s = cur /\ st[cur] = "RUNNING" THEN "READY"
                                        ELSE st[s]]
         /\ esp' = [s \in Threads |-> IF s = q[1] THEN "live"
                                      ELSE IF s = cur THEN "saved" ELSE esp[s]]
  <1>0. cur \in Threads /\ q \in Seq(Threads)
      BY DEF Inv, TypeOK, Ring
  <1>1. /\ rq.head = q[1] /\ q[1] \in Threads /\ rq.head # NULL
        /\ Queued(q[1]) /\ 1 \in 1 .. Len(q) /\ RemoveAt(q, 1) = Tail(q)
      BY <1>0, RingMembers, RemoveHead DEF Queued
  <1>2. ~ Queued(cur) /\ q[1] # cur
      BY <1>0, <1>1 DEF Inv, StateMatchesQueue
  <1> DEFINE u == Unlink(rq, q[1])
  <1>3. Ring(u, Tail(q))
      BY <1>1, UnlinkRing
  <1>4. \A s \in Threads : u.next[s] # NULL <=> (s # q[1] /\ rq.next[s] # NULL)
      BY <1>1, UnlinkLinks
  <1>5. /\ rq' = IF st[cur] = "RUNNING" THEN Enqueue(u, cur) ELSE u
        /\ cur' = q[1]
        /\ state' = [(IF st[cur] = "RUNNING" THEN [st EXCEPT ![cur] = "READY"] ELSE st)
                       EXCEPT ![q[1]] = "RUNNING"]
        /\ switch_context(cur, q[1])
      BY <1>1 DEF Yield, Requeues
  <1> HIDE DEF u
  <1>6. u.next[cur] = NULL
      BY <1>0, <1>2, <1>4 DEF Queued
  <1>7. /\ Ring(rq', After(q, st))
        /\ \A s \in Threads : rq'.next[s] # NULL
              <=> (s # q[1] /\ (Queued(s) \/ (s = cur /\ st[cur] = "RUNNING")))
    <2>1. CASE st[cur] = "RUNNING"
      <3>1. Ring(Enqueue(u, cur), Append(Tail(q), cur))
          BY <1>0, <1>3, <1>6, EnqueueRing
      <3>2. \A s \in Threads : Enqueue(u, cur).next[s] # NULL <=> (s = cur \/ u.next[s] # NULL)
          BY <1>0, <1>3, <1>6, EnqueueLinks
      <3>3. rq' = Enqueue(u, cur)
          BY <1>5, <2>1
      <3>4. \A s \in Threads : rq'.next[s] # NULL <=> (s = cur \/ (s # q[1] /\ rq.next[s] # NULL))
          BY <1>4, <3>2, <3>3
      <3> QED
          BY <1>2, <2>1, <3>1, <3>3, <3>4 DEF After, Queued
    <2>2. CASE st[cur] # "RUNNING"
        BY <1>3, <1>4, <1>5, <2>2 DEF After, Queued
    <2> QED
        BY <2>1, <2>2
  <1>8. state' = [s \in Threads |-> IF s = q[1] THEN "RUNNING"
                                   ELSE IF s = cur /\ st[cur] = "RUNNING" THEN "READY"
                                   ELSE st[s]]
      BY <1>0, <1>1, <1>2, <1>5 DEF Leaving
  <1>9. esp' = [s \in Threads |-> IF s = q[1] THEN "live"
                                 ELSE IF s = cur THEN "saved" ELSE esp[s]]
    <2>1. esp[q[1]] \in {"fresh", "saved"}
        BY <1>1 DEF Inv, ContextsValid
    <2>2. esp' = [esp EXCEPT ![cur] = "saved", ![q[1]] = "live"]
        BY <1>5, <2>1 DEF switch_context
    <2> QED
        BY <1>0, <1>1, <1>2, <2>2 DEF Inv, TypeOK
  <1> QED
      BY <1>1, <1>2, <1>5, <1>7, <1>8, <1>9

(* ... and when none is.                                                   *)
LEMMA YieldStay ==
  ASSUME Ring(rq, <<>>), NEW st, Yield(st)
  PROVE  state' = st /\ UNCHANGED <<rq, cur, esp>>
  <1>1. rq.head = NULL
      BY RingMembers
  <1> QED
      BY <1>1 DEF Yield

(* A thread that sleeps or exits leaves the idle thread ready behind.      *)
LEMMA ReadyWhenLeaving ==
  ASSUME Inv, NEW q, Ring(rq, q), cur # NULL, cur # Idle
  PROVE  q # <<>>
  <1>1. rq.next[Idle] # NULL /\ Idle \in Threads
      BY SchedAssumption DEF Inv, IdleStays, Queued
  <1>2. \E k \in 1 .. Len(q) : q[k] = Idle
      BY <1>1, RingMembers
  <1> QED
      BY <1>2

(* The invariant holds after a yield.                                      *)
LEMMA YieldInv ==
  ASSUME Inv, cur # NULL, NEW st, Leaving(st), Yield(st),
         st = state \/ cur # Idle
  PROVE  Inv'
  <1>0. PICK q : Ring(rq, q)
      BY DEF Inv
  <1>1. CASE q = <<>>
    <2>1. state' = st /\ UNCHANGED <<rq, cur, esp>>
        BY <1>0, <1>1, YieldStay
    <2>2. st = state
        BY <1>0, <1>1, ReadyWhenLeaving
    <2> QED
        BY <2>1, <2>2 DEF Inv, TypeOK, StateMatchesQueue, ContextsValid, Resumable, IdleStays,
                          BeforeInit, Queued
  <1>2. CASE q # <<>>
    <2>1. /\ cur' = q[1] /\ q[1] \in Threads /\ q[1] # cur
          /\ Queued(q[1])
          /\ Ring(rq', After(q, st))
          /\ \A s \in Threads : rq'.next[s] # NULL
                <=> (s # q[1] /\ (Queued(s) \/ (s = cur /\ st[cur] = "RUNNING")))
          /\ state' = [s \in Threads |-> IF s = q[1] THEN "RUNNING"
                                         ELSE IF s = cur /\ st[cur] = "RUNNING" THEN "READY"
                                         ELSE st[s]]
          /\ esp' = [s \in Threads |-> IF s = q[1] THEN "live"
                                       ELSE IF s = cur THEN "saved" ELSE esp[s]]
        BY <1>0, <1>2, YieldSwitch
    <2>2. cur \in Threads /\ cur' # NULL
        BY <2>1, SchedAssumption DEF Inv, TypeOK
    <2>3. TypeOK'
        BY <2>1 DEF Inv, TypeOK, Leaving
    <2>4. StateMatchesQueue'
        BY <2>1, <2>2 DEF Inv, StateMatchesQueue, Leaving, Queued
    <2>5. ContextsValid'
        BY <2>1, <2>2 DEF Inv, ContextsValid, Queued
    <2>6. Resumable'
        BY <2>1, <2>2 DEF Inv, Resumable, Leaving
    <2>7. IdleStays'
        BY <2>1, <2>2, SchedAssumption DEF Inv, IdleStays, Leaving, Queued
    <2>8. BeforeInit'
        BY <2>2 DEF BeforeInit
    <2> QED
        BY <2>1, <2>3, <2>4, <2>5, <2>6, <2>7, <2>8 DEF Inv
  <1> QED
      BY <1>1, <1>2

-----------------------------------------------------------------------------
(* The other operations.                                                   *)

(* Making a thread ready that is neither running nor queued.               *)
LEMMA ReadyInv ==
  ASSUME Inv, NEW t \in Threads, ~ Queued(t), cur # NULL,
         state[t] \in {"READY", "SLEEPING", "BLOCKED"},
         state' = [state EXCEPT ![t] = "READY"], rq' = Enqueue(rq, t), UNCHANGED <<cur, esp>>
  PROVE  Inv'
  <1>1. PICK q : Ring(rq, q)
      BY DEF Inv
  <1>2. Ring(rq', Append(q, t))
      BY <1>1, EnqueueRing DEF Queued
  <1>3. \A s \in Threads : rq'.next[s] # NULL <=> (s = t \/ rq.next[s] # NULL)
      BY <1>1, EnqueueLinks DEF Queued
  <1>4. t # cur /\ esp[t] \in {"fresh", "saved"}
      BY DEF Inv, StateMatchesQueue, Resumable
  <1>5. TypeOK' /\ Resumable' /\ BeforeInit'
      BY <1>4 DEF Inv, TypeOK, Resumable, BeforeInit
  <1>6. StateMatchesQueue'
      BY <1>3, <1>4 DEF Inv, TypeOK, StateMatchesQueue, Queued
  <1>7. ContextsValid'
      BY <1>3, <1>4 DEF Inv, ContextsValid, Queued
  <1>8. IdleStays'
      BY <1>3, SchedAssumption DEF Inv, IdleStays, Queued
  <1> QED
      BY <1>2, <1>5, <1>6, <1>7, <1>8 DEF Inv

(* sched_remove of a thread that is queued.                                *)
LEMMA RemoveInv ==
  ASSUME Inv, NEW t \in Threads \ {Idle, cur}, Queued(t),
         rq' = Unlink(rq, t), UNCHANGED <<state, cur, esp>>
  PROVE  Inv'
  <1>1. PICK q : Ring(rq, q)
      BY DEF Inv
  <1>2. PICK k \in 1 .. Len(q) : q[k] = t
      BY <1>1, RingMembers DEF Queued
  <1>3. Ring(rq', RemoveAt(q, k))
      BY <1>1, <1>2, UnlinkRing
  <1>4. \A s \in Threads : rq'.next[s] # NULL <=> (s # t /\ rq.next[s] # NULL)
      BY <1>1, <1>2, UnlinkLinks
  <1>5. TypeOK' /\ Resumable' /\ BeforeInit'
      BY DEF Inv, TypeOK, Resumable, BeforeInit
  <1>6. StateMatchesQueue'
    <2>1. cur \in Threads \cup {NULL}
        BY DEF Inv, TypeOK
    <2> QED
        BY <1>4, <2>1 DEF Inv, StateMatchesQueue, Queued
  <1>7. ContextsValid'
      BY <1>4 DEF Inv, ContextsValid, Queued
  <1>8. IdleStays'
      BY <1>4, SchedAssumption DEF Inv, IdleStays, Queued
  <1> QED
      BY <1>3, <1>5, <1>6, <1>7, <1>8 DEF Inv

(* A step that leaves queue, threads and contexts alone.                   *)
LEMMA StutterInv ==
  ASSUME Inv, UNCHANGED <<rq, state, cur, esp>>
  PROVE  Inv'
  BY DEF Inv, TypeOK, StateMatchesQueue, ContextsValid, Resumable, IdleStays, BeforeInit, Queued

(* Before sched_init nothing is queued.                                    *)
LEMMA NothingQueued ==
  ASSUME Inv, cur = NULL
  PROVE  Ring(rq, <<>>) /\ \A t \in Threads : ~ Queued(t)
  <1>1. \A t \in Threads : ~ Queued(t)
      BY DEF Inv, BeforeInit, StateMatchesQueue
  <1>2. PICK q : Ring(rq, q)
      BY DEF Inv
  <1>3. Len(q) = 0
    <2>1. Len(q) \in Nat /\ \A k \in 1 .. Len(q) : q[k] \in Threads /\ rq.next[q[k]] # NULL
        BY <1>2, RingMembers
    <2>2. ~ (1 \in 1 .. Len(q))
        BY <1>1, <2>1 DEF Queued
    <2> QED
        BY <2>1, <2>2
  <1>4. q = <<>>
      BY <1>2, <1>3 DEF Ring
  <1> QED
      BY <1>1, <1>2, <1>4

(* It holds when the kernel starts.                                        *)
LEMMA InitInv == Init => Inv
  <1> SUFFICES ASSUME Init PROVE Inv
      OBVIOUS
  <1>1. Ring(rq, <<>>)
      BY EmptyRing DEF Init, InitWith
  <1>2. TypeOK /\ Resumable /\ IdleStays /\ BeforeInit
      BY DEF Init, InitWith, TypeOK, Resumable, IdleStays, BeforeInit
  <1>3. StateMatchesQueue /\ ContextsValid
      BY SchedAssumption DEF Init, InitWith, StateMatchesQueue, ContextsValid, Queued, EmptyQueue
  <1> QED
      BY <1>1, <1>2, <1>3 DEF Inv

(* What a step does to the list, the threads and the contexts: one of six  *)
(* things, whichever operation it belongs to.                              *)
Started ==
    /\ cur = NULL /\ cur' = Idle /\ rq' = rq
    /\ state' = [state EXCEPT ![Idle] = "RUNNING"]
    /\ esp' = [esp EXCEPT ![Idle] = "live"]

Created(t) ==
    /\ cur # NULL /\ state[t] = "unborn" /\ UNCHANGED <<rq, cur>>
    /\ state' = [state EXCEPT ![t] = "READY"]
    /\ esp' = [esp EXCEPT ![t] = "fresh"]

Readied(t) ==
    /\ cur # NULL /\ ~ Queued(t)
    /\ state[t] \in {"READY", "SLEEPING", "BLOCKED"}
    /\ state' = [state EXCEPT ![t] = "READY"]
    /\ rq' = Enqueue(rq, t)
    /\ UNCHANGED <<cur, esp>>

Removed(t) ==
    /\ Queued(t)
    /\ rq' = Unlink(rq, t)
    /\ UNCHANGED <<state, cur, esp>>

Yielded(st) ==
    /\ cur # NULL /\ Leaving(st) /\ Yield(st)
    /\ st = state \/ cur # Idle

Idled == UNCHANGED <<rq, state, cur, esp>>

(* What a step does to the run queue and the states: one of six things.    *)
LEMMA StepKinds ==
  ASSUME Inv, [Next]_vars
  PROVE  \/ Started
         \/ \E t \in Threads \ {Idle} : Created(t)
         \/ \E t \in Threads : Readied(t)
         \/ \E t \in Threads \ {Idle, cur} : Removed(t)
         \/ \E st : Yielded(st)
         \/ Idled
  <1>1. CASE sched_init
    <2>1. rq' = rq
      <3>1. rq.head = NULL /\ rq \in Links
          BY <1>1, NothingQueued DEF sched_init, Ring
      <3> QED
          BY <1>1, <3>1 DEF sched_init, Links
    <2> QED
        BY <1>1, <2>1 DEF sched_init, Started
  <1>2. CASE Create
      BY <1>2 DEF Create, thread_create, Created
  <1>3. CASE Add
    <2>1. PICK t \in Threads : state[t] = "READY" /\ ~ Queued(t) /\ sched_add(t)
        BY <1>3 DEF Add
    <2>2. cur # NULL
        BY <2>1 DEF Inv, BeforeInit
    <2> QED
        BY <2>1, <2>2 DEF sched_add, Readied
  <1>4. CASE Remove
    <2>1. PICK t \in Threads \ {Idle, cur} : sched_remove(t)
        BY <1>4 DEF Remove
    <2> QED
        BY <2>1 DEF sched_remove, Removed, Idled
  <1>5. CASE Wake
    <2>1. PICK t \in Threads \ {cur} : cur # NULL /\ sched_wake(t)
        BY <1>5 DEF Wake
    <2>2. CASE Wakes(t)
      <3>1. ~ Queued(t) /\ state[t] \in {"READY", "SLEEPING", "BLOCKED"}
          BY <2>2 DEF Inv, StateMatchesQueue, Wakes
      <3> QED
          BY <2>1, <2>2, <3>1 DEF sched_wake, Readied
    <2>3. CASE ~ Wakes(t)
        BY <2>1, <2>3 DEF sched_wake, Idled
    <2> QED
        BY <2>2, <2>3
  <1>6. CASE sched_yield
    <2>1. cur # NULL /\ Yield(state)
        BY <1>6 DEF sched_yield
    <2>2. Leaving(state)
        BY <2>1 DEF Inv, TypeOK, StateMatchesQueue, Leaving
    <2> QED
        BY <2>1, <2>2 DEF Yielded
  <1>7. CASE Sleep \/ Exit
    <2>1. PICK st : /\ cur # NULL /\ cur # Idle /\ Yield(st)
                    /\ \/ st = [state EXCEPT ![cur] = "SLEEPING"]
                       \/ st = [state EXCEPT ![cur] = "ZOMBIE"]
        BY <1>7 DEF Sleep, Exit, sched_sleep, thread_exit
    <2>2. Leaving(st)
        BY <2>1 DEF Inv, TypeOK, Leaving
    <2> QED
        BY <2>1, <2>2 DEF Yielded
  <1>8. CASE Tick
    <2>1. UNCHANGED <<rq, cur, esp>>
        BY <1>8 DEF Tick, sched_tick, pit_tick
    <2>2. state' = state
      <3>1. \A t \in Threads : Queued(t) => state[t] # "SLEEPING"
          BY DEF Inv, StateMatchesQueue
      <3>2. [t \in Threads |-> IF Queued(t) /\ state[t] = "SLEEPING" /\ wake_tick[t] <= ticks
                               THEN "READY" ELSE state[t]] = state
          BY <3>1 DEF Inv, TypeOK
      <3> QED
          BY <1>8, <3>2 DEF Tick, sched_tick, pit_tick
    <2> QED
        BY <2>1, <2>2 DEF Idled
  <1>9. CASE UNCHANGED vars
      BY <1>9 DEF vars, Idled
  <1> QED
      BY <1>1, <1>2, <1>3, <1>4, <1>5, <1>6, <1>7, <1>8, <1>9 DEF Next

(* The invariant is inductive.                                             *)
LEMMA NextInv == Inv /\ [Next]_vars => Inv'
  <1> SUFFICES ASSUME Inv, [Next]_vars PROVE Inv'
      OBVIOUS
  <1>1. CASE Started
    <2>1. \A t \in Threads : ~ Queued(t)
        BY <1>1, NothingQueued DEF Started
    <2>2. TypeOK' /\ IdleStays' /\ BeforeInit' /\ Resumable'
        BY <1>1, SchedAssumption DEF Started, Inv, TypeOK, IdleStays, BeforeInit, Resumable
    <2>3. StateMatchesQueue'
        BY <1>1, <2>1, SchedAssumption DEF Started, Inv, TypeOK, StateMatchesQueue, Queued
    <2>4. ContextsValid'
        BY <1>1, <2>1, SchedAssumption DEF Started, Inv, TypeOK, ContextsValid, Queued
    <2> QED
        BY <1>1, <2>2, <2>3, <2>4 DEF Started, Inv
  <1>2. ASSUME NEW t \in Threads \ {Idle}, Created(t) PROVE Inv'
    <2>1. t # cur /\ ~ Queued(t)
        BY <1>2 DEF Inv, StateMatchesQueue, Created
    <2>2. TypeOK' /\ IdleStays' /\ BeforeInit' /\ Resumable'
        BY <1>2 DEF Created, Inv, TypeOK, IdleStays, BeforeInit, Resumable, Queued
    <2>3. StateMatchesQueue'
        BY <1>2, <2>1 DEF Created, Inv, TypeOK, StateMatchesQueue, Queued
    <2>4. ContextsValid'
        BY <1>2, <2>1 DEF Created, Inv, TypeOK, ContextsValid, Queued
    <2> QED
        BY <1>2, <2>2, <2>3, <2>4 DEF Created, Inv
  <1>3. ASSUME NEW t \in Threads, Readied(t) PROVE Inv'
      BY <1>3, ReadyInv DEF Readied
  <1>4. ASSUME NEW t \in Threads \ {Idle, cur}, Removed(t) PROVE Inv'
      BY <1>4, RemoveInv DEF Removed
  <1>5. ASSUME NEW st, Yielded(st) PROVE Inv'
      BY <1>5, YieldInv DEF Yielded
  <1>6. CASE Idled
      BY <1>6, StutterInv DEF Idled
  <1> QED
      BY <1>1, <1>2, <1>3, <1>4, <1>5, <1>6, StepKinds

(* It holds in every state of the scheduler.                               *)
LEMMA SchedInv == Spec => []Inv
  BY InitInv, NextInv, PTL DEF Spec, SafeSpec

-----------------------------------------------------------------------------
(* The run queue that enqueue, dequeue_next and sched_remove splice is     *)
(* always one ring through the head, for any number of threads.            *)
THEOREM SchedRing == Spec => []RingOK
  <1>1. Inv => RingOK
      BY RingIsOK DEF Inv
  <1> QED
      BY <1>1, SchedInv, PTL

(* Linked threads are READY, the current one alone is RUNNING and it is    *)
(* not linked.                                                             *)
THEOREM SchedStates == Spec => []StateMatchesQueue
  <1>1. Inv => StateMatchesQueue
      BY DEF Inv
  <1> QED
      BY <1>1, SchedInv, PTL

(* switch_context only loads stack pointers that lead to a frame it can    *)
(* resume.                                                                 *)
THEOREM SchedContexts == Spec => []ContextsValid
  <1>1. Inv => ContextsValid
      BY DEF Inv
  <1> QED
      BY <1>1, SchedInv, PTL

(* A thread that called thread_exit never runs again, whatever the others  *)
(* do to it.                                                               *)
THEOREM SchedZombies == Spec => ZombiesStay
  <1>1. ASSUME Inv, [Next]_vars, NEW t \in Threads, state[t] = "ZOMBIE"
        PROVE  state'[t] = "ZOMBIE" /\ cur' # t
    <2>0. t # cur /\ ~ Queued(t) /\ cur # NULL
        BY <1>1 DEF Inv, StateMatchesQueue, BeforeInit
    <2>1. CASE Started
        BY <2>0, <2>1 DEF Started
    <2>2. ASSUME NEW s \in Threads, Created(s) \/ Readied(s)
          PROVE  state'[t] = "ZOMBIE" /\ cur' # t
        BY <1>1, <2>0, <2>2 DEF Created, Readied, Inv, TypeOK
    <2>3. ASSUME NEW s \in Threads, Removed(s)
          PROVE  state'[t] = "ZOMBIE" /\ cur' # t
        BY <1>1, <2>0, <2>3 DEF Removed
    <2>4. ASSUME NEW st, Yielded(st)
          PROVE  state'[t] = "ZOMBIE" /\ cur' # t
      <3>1. PICK q : Ring(rq, q)
          BY <1>1 DEF Inv
      <3>2. st[t] = "ZOMBIE"
          BY <1>1, <2>0, <2>4 DEF Yielded, Leaving
      <3>3. CASE q = <<>>
          BY <2>0, <2>4, <3>1, <3>2, <3>3, YieldStay DEF Yielded
      <3>4. CASE q # <<>>
        <4>1. /\ cur' = q[1] /\ Queued(q[1])
              /\ state' = [s \in Threads |-> IF s = q[1] THEN "RUNNING"
                                             ELSE IF s = cur /\ st[cur] = "RUNNING" THEN "READY"
                                             ELSE st[s]]
            BY <1>1, <2>4, <3>1, <3>4, YieldSwitch DEF Yielded
        <4> QED
            BY <2>0, <3>2, <4>1
      <3> QED
          BY <3>3, <3>4
    <2>5. CASE Idled
        BY <1>1, <2>0, <2>5 DEF Idled
    <2> QED
        BY <1>1, <2>1, <2>2, <2>3, <2>4, <2>5, StepKinds
  <1>2. Inv /\ [Next]_vars =>
          [\A t \in Threads : state[t] = "ZOMBIE" => state'[t] = "ZOMBIE" /\ cur' # t]_vars
      BY <1>1
  <1> QED
      BY <1>2, SchedInv, PTL DEF Spec, SafeSpec, ZombiesStay

-----------------------------------------------------------------------------
(* The refinement: what the list holds is the abstract queue.              *)

(* RunQueueIs in a form that also holds of the next state.                 *)
LEMMA RunQueueNow == (\A q : Ring(rq, q) => RunQueue = q)
  BY RunQueueIs

(* The same of the next state.                                             *)
LEMMA RunQueueNext == \A q : Ring(rq', q) => RunQueue' = q
  <1>1. (\A q : Ring(rq, q) => RunQueue = q)'
      BY RunQueueNow, PTL
  <1> QED
      BY <1>1

(* The members of the queue are the linked threads.                        *)
LEMMA InQueueIs ==
  ASSUME NEW q, Ring(rq, q), NEW t \in Threads
  PROVE  (\E k \in DOMAIN q : q[k] = t) <=> Queued(t)
  <1>1. DOMAIN q = 1 .. Len(q)
      BY DEF Ring
  <1> QED
      BY <1>1, RingMembers DEF Queued

(* Every step of the scheduler is one of round-robin scheduling, or        *)
(* changes neither the queue nor the running thread.                       *)
LEMMA StepIsRoundRobin ==
  ASSUME Inv, [Next]_vars
  PROVE  [RR!Next]_<<RunQueue, cur>>
  <1>1. PICK q : Ring(rq, q)
      BY DEF Inv
  <1>2. RunQueue = q /\ q \in Seq(Threads)
      BY <1>1, RunQueueIs DEF Ring
  <1>3. CASE Started
    <2>1. RunQueue' = q
        BY <1>1, <1>3, RunQueueNext DEF Started
    <2>2. RR!Start(Idle)
        BY <1>2, <1>3, <2>1 DEF Started, RR!Start
    <2> QED
        BY <2>2, SchedAssumption DEF RR!Next
  <1>4. ASSUME Idled \/ \E t \in Threads : Created(t)
        PROVE  UNCHANGED <<RunQueue, cur>>
    <2>1. rq' = rq /\ cur' = cur
        BY <1>4 DEF Idled, Created
    <2> QED
        BY <1>1, <1>2, <2>1, RunQueueNext
  <1>5. ASSUME NEW t \in Threads, Readied(t) PROVE RR!Admit(t)
    <2>1. Ring(rq', Append(q, t))
        BY <1>1, <1>5, EnqueueRing DEF Readied, Queued
    <2>2. RunQueue' = Append(RunQueue, t)
        BY <1>2, <2>1, RunQueueNext
    <2>3. t # cur
        BY <1>5 DEF Inv, StateMatchesQueue, Readied
    <2>4. ~ RR!InQueue(t)
        BY <1>1, <1>2, <1>5, InQueueIs DEF Readied, RR!InQueue
    <2> QED
        BY <1>5, <2>2, <2>3, <2>4 DEF Readied, RR!Admit
  <1>6. ASSUME NEW t \in Threads, Removed(t) PROVE RR!Withdraw(t)
    <2>1. PICK k \in 1 .. Len(q) : q[k] = t
        BY <1>1, <1>6, RingMembers DEF Queued, Removed
    <2>2. Ring(rq', RemoveAt(q, k))
        BY <1>1, <1>6, <2>1, UnlinkRing DEF Removed
    <2>3. RunQueue' = RemoveAt(q, k)
        BY <2>2, RunQueueNext
    <2>4. k \in DOMAIN q
        BY <1>2
    <2> QED
        BY <1>2, <1>6, <2>1, <2>3, <2>4 DEF RR!Withdraw, RemoveAt, Removed
  <1>7. ASSUME NEW st, Yielded(st)
        PROVE  RR!Yield \/ RR!Leave \/ UNCHANGED <<RunQueue, cur>>
    <2>1. CASE q = <<>>
      <3>1. rq' = rq /\ cur' = cur
          BY <1>1, <1>7, <2>1, YieldStay DEF Yielded
      <3> QED
          BY <1>1, <1>2, <3>1, RunQueueNext
    <2>2. CASE q # <<>>
      <3>1. cur' = q[1] /\ Ring(rq', After(q, st))
          BY <1>1, <1>7, <2>2, YieldSwitch DEF Yielded
      <3>2. RunQueue' = After(q, st)
          BY <3>1, RunQueueNext
      <3>3. Head(q) = q[1]
          BY <1>2, <2>2
      <3> QED
          BY <1>2, <2>2, <3>1, <3>2, <3>3 DEF After, RR!Yield, RR!Leave
    <2> QED
        BY <2>1, <2>2
  <1> QED
      BY <1>3, <1>4, <1>5, <1>6, <1>7, StepKinds DEF RR!Next

(* The linked list, the states and the context switches implement          *)
(* round-robin scheduling: first ready, first run, for any set of threads. *)
THEOREM SchedRoundRobin == Spec => IsRoundRobin
  <1>1. Init => RR!Init
    <2> SUFFICES ASSUME Init PROVE RR!Init
        OBVIOUS
    <2>1. RunQueue = <<>>
        BY EmptyRing, RunQueueIs DEF Init, InitWith
    <2> QED
        BY <2>1 DEF RR!Init, Init, InitWith
  <1>2. Inv /\ [Next]_vars => [RR!Next]_<<RunQueue, cur>>
      BY StepIsRoundRobin
  <1> QED
      BY <1>1, <1>2, SchedInv, PTL DEF Spec, SafeSpec, IsRoundRobin, RR!Spec

-----------------------------------------------------------------------------
(* The start-up sequence, put together from the drivers' own, step by      *)
(* step.                                                                   *)
LEMMA BootIs ==
  /\ Len(Boot) = 35
  /\ Boot[1][1] = "isr_init" /\ Boot[2][1] = "register" /\ Boot[3][1] = "register"
  /\ Boot[4][1] = "unmask" /\ Boot[5][1] = "sti" /\ Boot[6][1] = "cmd"
  /\ Boot[7][1] = "cmd" /\ Boot[8][1] = "flush" /\ Boot[9][1] = "cmd"
  /\ Boot[10][1] = "keyboard_config" /\ Boot[11][1] = "cmd" /\ Boot[12][1] = "read"
  /\ Boot[13][1] = "cmd" /\ Boot[14][1] = "read" /\ Boot[15][1] = "cmd"
  /\ Boot[16][1] = "keyboard" /\ Boot[17][1] = "read" /\ Boot[18][1] = "keyboard"
  /\ Boot[19][1] = "keyboard" /\ Boot[20][1] = "read" /\ Boot[21][1] = "flush"
  /\ Boot[22][1] = "register" /\ Boot[23][1] = "unmask" /\ Boot[24][1] = "cmd"
  /\ Boot[25][1] = "cmd" /\ Boot[26][1] = "mouse_config" /\ Boot[27][1] = "mouse"
  /\ Boot[28][1] = "read" /\ Boot[29][1] = "mouse" /\ Boot[30][1] = "read"
  /\ Boot[31][1] = "mouse" /\ Boot[32][1] = "read" /\ Boot[33][1] = "register"
  /\ Boot[34][1] = "unmask" /\ Boot[35][1] = "sched_init"
  /\ Boot[2][2] = 0 /\ Boot[2][3] = "sched_tick" /\ Boot[3][2] = 0
  /\ Boot[3][3] = "pit_tick" /\ Boot[4][2] = 0 /\ Boot[6][2] = "keyboard_off"
  /\ Boot[7][2] = "mouse_off" /\ Boot[9][2] = "read_config"
  /\ Boot[11][2] = "self_test" /\ Boot[13][2] = "test_port"
  /\ Boot[15][2] = "keyboard_on" /\ Boot[22][2] = 1 /\ Boot[22][3] = "kb_handler"
  /\ Boot[23][2] = 1 /\ Boot[24][2] = "mouse_on" /\ Boot[25][2] = "read_config"
  /\ Boot[33][2] = 12 /\ Boot[33][3] = "mouse_handler" /\ Boot[34][2] = 12
  <1> USE DEF Boot, PitInit, Enable, KeyboardInit, KeyboardSettle, KeyboardAttach, MouseInit
  <1>1. Len(Boot) = 35
      OBVIOUS
  <1>2. /\ Boot[1][1] = "isr_init" /\ Boot[2][1] = "register"
        /\ Boot[3][1] = "register" /\ Boot[4][1] = "unmask" /\ Boot[5][1] = "sti"
        /\ Boot[6][1] = "cmd" /\ Boot[7][1] = "cmd" /\ Boot[8][1] = "flush"
        /\ Boot[9][1] = "cmd" /\ Boot[10][1] = "keyboard_config"
        /\ Boot[11][1] = "cmd" /\ Boot[12][1] = "read"
      OBVIOUS
  <1>3. /\ Boot[13][1] = "cmd" /\ Boot[14][1] = "read" /\ Boot[15][1] = "cmd"
        /\ Boot[16][1] = "keyboard" /\ Boot[17][1] = "read"
        /\ Boot[18][1] = "keyboard" /\ Boot[19][1] = "keyboard"
        /\ Boot[20][1] = "read" /\ Boot[21][1] = "flush" /\ Boot[22][1] = "register"
        /\ Boot[23][1] = "unmask" /\ Boot[24][1] = "cmd"
      OBVIOUS
  <1>4. /\ Boot[25][1] = "cmd" /\ Boot[26][1] = "mouse_config"
        /\ Boot[27][1] = "mouse" /\ Boot[28][1] = "read" /\ Boot[29][1] = "mouse"
        /\ Boot[30][1] = "read" /\ Boot[31][1] = "mouse" /\ Boot[32][1] = "read"
        /\ Boot[33][1] = "register" /\ Boot[34][1] = "unmask"
        /\ Boot[35][1] = "sched_init"
      OBVIOUS
  <1>5. /\ Boot[2][2] = 0 /\ Boot[2][3] = "sched_tick" /\ Boot[3][2] = 0
        /\ Boot[3][3] = "pit_tick" /\ Boot[4][2] = 0 /\ Boot[6][2] = "keyboard_off"
        /\ Boot[7][2] = "mouse_off" /\ Boot[9][2] = "read_config"
      OBVIOUS
  <1>6. /\ Boot[11][2] = "self_test" /\ Boot[13][2] = "test_port"
        /\ Boot[15][2] = "keyboard_on" /\ Boot[22][2] = 1
        /\ Boot[22][3] = "kb_handler" /\ Boot[23][2] = 1 /\ Boot[24][2] = "mouse_on"
        /\ Boot[25][2] = "read_config" /\ Boot[33][2] = 12
        /\ Boot[33][3] = "mouse_handler" /\ Boot[34][2] = 12
      OBVIOUS
  <1> HIDE DEF Boot
  <1> QED
      BY <1>1, <1>2, <1>3, <1>4, <1>5, <1>6

(* Which steps register a handler, unmask a line, enable interrupts or     *)
(* change the keyboard's configuration.                                    *)
Registers(k, irq, h) == Boot[k][1] = "register" /\ Boot[k][2] = irq /\ Boot[k][3] = h
Unmasks(k, irq) == Boot[k][1] = "unmask" /\ Boot[k][2] = irq

(* The steps one by one.                                                   *)
LEMMA Steps ==
  ASSUME NEW k \in 1 .. 35
  PROVE  \/ k \in {1, 2, 3, 4, 5, 6, 7, 8, 9} \/ k \in {10, 11, 12, 13, 14, 15, 16, 17, 18}
         \/ k \in {19, 20, 21, 22, 23, 24, 25, 26, 27} \/ k \in {28, 29, 30, 31, 32, 33, 34, 35}
  OBVIOUS

(* The handlers, and when they are registered.                             *)
LEMMA BootRegisters ==
  /\ Registers(2, 0, "sched_tick") /\ Registers(3, 0, "pit_tick")
  /\ Registers(22, 1, "kb_handler") /\ Registers(33, 12, "mouse_handler")
  /\ \A k \in 1 .. 35 : Boot[k][1] = "register" => k \in {2, 3, 22, 33}
  <1>1. ASSUME NEW k \in 1 .. 35, Boot[k][1] = "register" PROVE k \in {2, 3, 22, 33}
      BY <1>1, Steps, BootIs
  <1> QED
      BY <1>1, BootIs DEF Registers

(* The lines, and when they are unmasked.                                  *)
LEMMA BootUnmasks ==
  /\ Unmasks(4, 0) /\ Unmasks(23, 1) /\ Unmasks(34, 12)
  /\ \A k \in 1 .. 35 : Boot[k][1] = "unmask" => k \in {4, 23, 34}
  <1>1. ASSUME NEW k \in 1 .. 35, Boot[k][1] = "unmask" PROVE k \in {4, 23, 34}
      BY <1>1, Steps, BootIs
  <1> QED
      BY <1>1, BootIs DEF Unmasks

(* What is done at one step only.                                          *)
LEMMA BootOnce ==
  /\ Boot[1][1] = "isr_init" /\ Boot[10][1] = "keyboard_config" /\ Boot[35][1] = "sched_init"
  /\ \A k \in 1 .. 35 :
        /\ Boot[k][1] = "isr_init" => k = 1
        /\ Boot[k][1] = "sti" => k = 5
        /\ Boot[k][1] = "sched_init" => k = 35
        /\ Boot[k][1] = "keyboard_config" => k = 10
        /\ Boot[k][1] = "cmd" /\ Boot[k][2] = "keyboard_off" => k = 6
  <1>1. ASSUME NEW k \in 1 .. 35, Boot[k][1] = "isr_init" PROVE k = 1
      BY <1>1, Steps, BootIs
  <1>2. ASSUME NEW k \in 1 .. 35, Boot[k][1] = "sti" PROVE k = 5
      BY <1>2, Steps, BootIs
  <1>3. ASSUME NEW k \in 1 .. 35, Boot[k][1] = "sched_init" PROVE k = 35
      BY <1>3, Steps, BootIs
  <1>4. ASSUME NEW k \in 1 .. 35, Boot[k][1] = "keyboard_config" PROVE k = 10
      BY <1>4, Steps, BootIs
  <1>5. ASSUME NEW k \in 1 .. 35, Boot[k][1] = "cmd", Boot[k][2] = "keyboard_off" PROVE k = 6
      BY <1>5, Steps, BootIs
  <1> QED
      BY <1>1, <1>2, <1>3, <1>4, <1>5, BootIs

-----------------------------------------------------------------------------
(* The invariant: how far the start-up has come fixes what is in the       *)
(* handler table, which lines may be unmasked, and what the configuration  *)
(* must hold.                                                              *)

(* kmain is the only code until the last step, and interrupts are off      *)
(* until the fifth is done.                                                *)
StepInv ==
    /\ step \in 1 .. 35
    /\ kpc # "boot" => step = 35
    /\ kpc = "boot" => cur = NULL
    /\ iflag => step >= 6

HandlerInv ==
    /\ DOMAIN handlers = Irqs
    /\ step >= 3 => handlers[0] # "none"
    /\ step >= 23 <=> handlers[1] = "kb_handler"
    /\ step >= 34 => handlers[12] # "none"

MayCome(irq) ==
    \/ irq = 0 /\ step >= 5
    \/ irq = 1 /\ step >= 24
    \/ irq = 12 /\ step = 35

MaskInv == step >= 2 => \A irq \in Irqs \ masked : MayCome(irq)

ConfigInv == step >= 11 /\ ~ mistaken => "kbd_int" \in cfg /\ "kbd_off" \notin cfg

KInv == StepInv /\ HandlerInv /\ MaskInv /\ ConfigInv

(* It holds when the boot loader enters kmain.                             *)
LEMMA KInvInit == KInit => KInv
  <1> SUFFICES ASSUME KInit PROVE KInv
      OBVIOUS
  <1>1. /\ step = 1 /\ kpc = "boot" /\ cur = NULL /\ iflag = FALSE
        /\ handlers = [irq \in Irqs |-> "none"]
      BY DEF KInit, InitWith
  <1> QED
      BY <1>1 DEF KInv, StepInv, HandlerInv, MaskInv, ConfigInv, Irqs

(* A step of the start-up that is done: it was the step it was at, and     *)
(* kmain goes on to the next.                                              *)
LEMMA DoneIs ==
  ASSUME StepInv, NEW op, At(op), Done
  PROVE  /\ step \in 1 .. 35 /\ Boot[step][1] = op /\ kpc = "boot" /\ cur = NULL
         /\ step < 35 => step' = step + 1 /\ kpc' = "boot"
         /\ step = 35 => step' = 35 /\ kpc' = "setup"
  <1>1. Len(Boot) = 35
      BY BootIs
  <1> QED
      BY <1>1 DEF StepInv, At, Done

(* What such a step keeps when it leaves the scheduler alone.              *)
LEMMA DoneStep ==
  ASSUME StepInv, NEW op, At(op), Done, cur' = cur, op # "sched_init",
         iflag' => iflag \/ op = "sti"
  PROVE  StepInv' /\ step < 35 /\ step' = step + 1
  <1>0. step \in 1 .. 35 /\ Boot[step][1] = op
      BY DoneIs
  <1>1. step < 35
    <2>1. step # 35
        BY <1>0, BootOnce
    <2> QED
        BY <1>0, <2>1
  <1>2. op = "sti" => step = 5
      BY DoneIs, BootOnce
  <1> QED
      BY <1>1, <1>2, DoneIs DEF StepInv

(* A step that registers nothing keeps the handlers right.                 *)
LEMMA DoneHandlers ==
  ASSUME HandlerInv, step \in 1 .. 34, step' = step + 1, handlers' = handlers,
         Boot[step][1] # "register"
  PROVE  HandlerInv'
  <1>1. step \notin {2, 3, 22, 33}
      BY BootRegisters DEF Registers
  <1> QED
      BY <1>1 DEF HandlerInv

(* One that unmasks nothing keeps the masks right, once they are set.      *)
LEMMA DoneMasks ==
  ASSUME MaskInv, step \in 1 .. 34, step' = step + 1, masked' = masked,
         Boot[step][1] # "isr_init"
  PROVE  MaskInv'
  <1>1. step # 1
      BY BootOnce
  <1> QED
      BY <1>1 DEF MaskInv, MayCome

(* One that leaves the configuration alone keeps it right.                 *)
LEMMA DoneConfig ==
  ASSUME ConfigInv, step \in 1 .. 34, step' = step + 1, cfg' = cfg, mistaken' = mistaken,
         Boot[step][1] # "keyboard_config"
  PROVE  ConfigInv'
  <1>1. step # 10
      BY BootOnce
  <1>2. step' >= 11 => step >= 11
      BY <1>1
  <1> QED
      BY <1>2, Zenon DEF ConfigInv

(* isr_init empties the table and masks every line.                        *)
LEMMA IsrInitInv == KInv /\ IsrInit => KInv'
  <1> SUFFICES ASSUME KInv, IsrInit PROVE KInv'
      OBVIOUS
  <1>0. /\ At("isr_init") /\ Done /\ cur' = cur /\ iflag' = iflag
        /\ cfg' = cfg /\ mistaken' = mistaken
        /\ handlers' = [irq \in Irqs |-> "none"] /\ masked' = Irqs
      BY DEF IsrInit, schedVars, vars, ps2Vars
  <1>1. StepInv' /\ step < 35 /\ step' = step + 1
      BY <1>0, DoneStep DEF KInv
  <1>2. step = 1 /\ Boot[step][1] = "isr_init"
      BY <1>0, DoneIs, BootOnce DEF KInv
  <1>3. HandlerInv' /\ MaskInv'
      BY <1>0, <1>1, <1>2 DEF HandlerInv, MaskInv, Irqs
  <1>4. ConfigInv'
      BY <1>1, <1>2 DEF ConfigInv
  <1> QED
      BY <1>1, <1>3, <1>4 DEF KInv

(* Each handler is registered when its line is still masked.               *)
LEMMA RegisterInv == KInv /\ isr_register => KInv'
  <1> SUFFICES ASSUME KInv, isr_register PROVE KInv'
      OBVIOUS
  <1>0. /\ At("register") /\ Done /\ cur' = cur /\ iflag' = iflag
        /\ cfg' = cfg /\ mistaken' = mistaken /\ masked' = masked
        /\ handlers' = [handlers EXCEPT ![Boot[step][2]] = Boot[step][3]]
      BY DEF isr_register, schedVars, vars, ps2Vars
  <1>1. StepInv' /\ step < 35 /\ step' = step + 1
      BY <1>0, DoneStep DEF KInv
  <1>2. step \in 1 .. 34 /\ Boot[step][1] = "register"
      BY <1>0, <1>1, DoneIs DEF KInv
  <1>3. step \in {2, 3, 22, 33}
      BY <1>2, BootRegisters
  <1>4. MaskInv' /\ ConfigInv'
      BY <1>0, <1>1, <1>2, DoneMasks, DoneConfig DEF KInv
  <1>5. /\ step = 2 => handlers' = [handlers EXCEPT ![0] = "sched_tick"]
        /\ step = 3 => handlers' = [handlers EXCEPT ![0] = "pit_tick"]
    <2>1. /\ Boot[2][2] = 0 /\ Boot[2][3] = "sched_tick"
          /\ Boot[3][2] = 0 /\ Boot[3][3] = "pit_tick"
        BY BootRegisters DEF Registers
    <2> QED
        BY <1>0, <2>1, Zenon
  <1>6. /\ step = 22 => handlers' = [handlers EXCEPT ![1] = "kb_handler"]
        /\ step = 33 => handlers' = [handlers EXCEPT ![12] = "mouse_handler"]
    <2>1. /\ Boot[22][2] = 1 /\ Boot[22][3] = "kb_handler"
          /\ Boot[33][2] = 12 /\ Boot[33][3] = "mouse_handler"
        BY BootRegisters DEF Registers
    <2> QED
        BY <1>0, <2>1, Zenon
  <1>7. HandlerInv'
      BY <1>1, <1>3, <1>5, <1>6 DEF KInv, HandlerInv, Irqs
  <1> QED
      BY <1>1, <1>4, <1>7 DEF KInv

(* Each line is unmasked when its handler is there.                        *)
LEMMA UnmaskInv == KInv /\ pic_unmask_irq => KInv'
  <1> SUFFICES ASSUME KInv, pic_unmask_irq PROVE KInv'
      OBVIOUS
  <1>0. /\ At("unmask") /\ Done /\ cur' = cur /\ iflag' = iflag
        /\ cfg' = cfg /\ mistaken' = mistaken /\ handlers' = handlers
        /\ masked' = masked \ {Boot[step][2]}
      BY DEF pic_unmask_irq, schedVars, vars, ps2Vars
  <1>1. StepInv' /\ step < 35 /\ step' = step + 1
      BY <1>0, DoneStep DEF KInv
  <1>2. step \in 1 .. 34 /\ Boot[step][1] = "unmask"
      BY <1>0, <1>1, DoneIs DEF KInv
  <1>3. step \in {4, 23, 34}
      BY <1>2, BootUnmasks
  <1>4. HandlerInv' /\ ConfigInv'
      BY <1>0, <1>1, <1>2, DoneHandlers, DoneConfig DEF KInv
  <1>5. \/ step = 4 /\ masked' = masked \ {0}
        \/ step = 23 /\ masked' = masked \ {1}
        \/ step = 34 /\ masked' = masked \ {12}
      BY <1>0, <1>3, BootUnmasks DEF Unmasks
  <1>6. MaskInv'
      BY <1>1, <1>5 DEF KInv, MaskInv, MayCome
  <1> QED
      BY <1>1, <1>4, <1>6 DEF KInv

(* Interrupts come on with the timer's line alone let through.             *)
LEMMA StiInv == KInv /\ Sti => KInv'
  <1> SUFFICES ASSUME KInv, Sti PROVE KInv'
      OBVIOUS
  <1>0. /\ At("sti") /\ Done /\ cur' = cur
        /\ cfg' = cfg /\ mistaken' = mistaken /\ handlers' = handlers /\ masked' = masked
      BY DEF Sti, EnableInterrupts, ps2Vars, irqVars
  <1>1. StepInv' /\ step < 35 /\ step' = step + 1
      BY <1>0, DoneStep DEF KInv
  <1>2. step \in 1 .. 34 /\ Boot[step][1] = "sti"
      BY <1>0, <1>1, DoneIs DEF KInv
  <1> QED
      BY <1>0, <1>1, <1>2, DoneHandlers, DoneMasks, DoneConfig DEF KInv

(* The last step, after which kmain is the idle thread.                    *)
LEMMA SchedInitInv == KInv /\ SchedInit => KInv'
  <1> SUFFICES ASSUME KInv, SchedInit PROVE KInv'
      OBVIOUS
  <1>0. /\ At("sched_init") /\ Done /\ iflag' = iflag
        /\ cfg' = cfg /\ mistaken' = mistaken /\ handlers' = handlers /\ masked' = masked
      BY DEF SchedInit, sched_init, ps2Vars, irqVars
  <1>1. step = 35 /\ step' = 35 /\ kpc' = "setup"
      BY <1>0, DoneIs, BootOnce DEF KInv
  <1> QED
      BY <1>0, <1>1 DEF KInv, StepInv, HandlerInv, MaskInv, MayCome, ConfigInv

(* The keyboard is turned off before it is configured, not after.          *)
LEMMA SendInv == KInv /\ Send => KInv'
  <1> SUFFICES ASSUME KInv, Send PROVE KInv'
      OBVIOUS
  <1>0. /\ Done /\ cur' = cur /\ iflag' = iflag
        /\ mistaken' = mistaken /\ handlers' = handlers /\ masked' = masked
      BY DEF Send, schedVars, vars, irqVars
  <1> DEFINE S == {"cmd", "keyboard", "mouse"}
  <1>1. PICK op \in S :
           At(op) /\ (cfg' = cfg \/ (op = "cmd" /\ ps2_send_cmd(Boot[step][2])))
    <2>1. \/ At("cmd") /\ ps2_send_cmd(Boot[step][2])
          \/ At("keyboard") /\ cfg' = cfg
          \/ At("mouse") /\ cfg' = cfg
        BY DEF Send
    <2>2. "cmd" \in S /\ "keyboard" \in S /\ "mouse" \in S
        OBVIOUS
    <2> HIDE DEF S
    <2> QED
        BY <2>1, <2>2, Zenon
  <1>2. StepInv' /\ step < 35 /\ step' = step + 1
      BY <1>0, <1>1, DoneStep DEF KInv
  <1>3. step \in 1 .. 34 /\ Boot[step][1] = op
      BY <1>0, <1>1, <1>2, DoneIs DEF KInv
  <1>4. HandlerInv' /\ MaskInv'
      BY <1>0, <1>1, <1>2, <1>3, DoneHandlers, DoneMasks DEF KInv
  <1>5. CASE cfg' = cfg
      BY <1>0, <1>1, <1>2, <1>3, <1>4, <1>5, DoneConfig DEF KInv
  <1>6. CASE op = "cmd" /\ ps2_send_cmd(Boot[step][2])
    <2>1. Boot[step][2] # "keyboard_off" => cfg' = cfg \/ cfg' = cfg \ {"kbd_off"}
        BY <1>6 DEF ps2_send_cmd
    <2>2. Boot[step][2] = "keyboard_off" => step = 6
        BY <1>3, <1>6, BootOnce
    <2>3. step # 10
        BY <1>3, <1>6, BootOnce
    <2>4. step' >= 11 => step >= 11 /\ Boot[step][2] # "keyboard_off"
        BY <1>2, <1>3, <2>2, <2>3
    <2>5. "kbd_int" # "kbd_off"
        OBVIOUS
    <2>6. ConfigInv'
        BY <1>0, <2>1, <2>4, <2>5, Zenon DEF KInv, ConfigInv
    <2> QED
        BY <1>2, <1>4, <2>6 DEF KInv
  <1> QED
      BY <1>1, <1>5, <1>6

(* A byte read and dropped.                                                *)
LEMMA ReadByteInv == KInv /\ ReadByte => KInv'
  <1> SUFFICES ASSUME KInv, ReadByte PROVE KInv'
      OBVIOUS
  <1>0. /\ At("read") /\ Done /\ cur' = cur /\ iflag' = iflag
        /\ cfg' = cfg /\ mistaken' = mistaken /\ handlers' = handlers /\ masked' = masked
      BY DEF ReadByte, schedVars, vars, irqVars
  <1>1. StepInv' /\ step < 35 /\ step' = step + 1
      BY <1>0, DoneStep DEF KInv
  <1>2. step \in 1 .. 34 /\ Boot[step][1] = "read"
      BY <1>0, <1>1, DoneIs DEF KInv
  <1> QED
      BY <1>0, <1>1, <1>2, DoneHandlers, DoneMasks, DoneConfig DEF KInv

(* The port found empty.                                                   *)
LEMMA FlushEndInv == KInv /\ FlushEnd => KInv'
  <1> SUFFICES ASSUME KInv, FlushEnd PROVE KInv'
      OBVIOUS
  <1>0. /\ At("flush") /\ Done /\ cur' = cur /\ iflag' = iflag
        /\ cfg' = cfg /\ mistaken' = mistaken /\ handlers' = handlers /\ masked' = masked
      BY DEF FlushEnd, schedVars, vars, irqVars, ps2Vars
  <1>1. StepInv' /\ step < 35 /\ step' = step + 1
      BY <1>0, DoneStep DEF KInv
  <1>2. step \in 1 .. 34 /\ Boot[step][1] = "flush"
      BY <1>0, <1>1, DoneIs DEF KInv
  <1> QED
      BY <1>0, <1>1, <1>2, DoneHandlers, DoneMasks, DoneConfig DEF KInv

(* keyboard_init's configuration has the keyboard on.                      *)
LEMMA KeyboardConfigInv ==
  KInv /\ ReadConfig("keyboard_config", {KeyboardConfig(bits) : bits \in Configs(DataByte)}) => KInv'
  <1> DEFINE act == ReadConfig("keyboard_config", {KeyboardConfig(bits) : bits \in Configs(DataByte)})
  <1> SUFFICES ASSUME KInv, act PROVE KInv'
      OBVIOUS
  <1>0. /\ At("keyboard_config") /\ Done /\ cur' = cur /\ iflag' = iflag
        /\ handlers' = handlers /\ masked' = masked
        /\ \E bits : cfg' = KeyboardConfig(bits)
      BY DEF ReadConfig, schedVars, vars, irqVars
  <1>1. StepInv' /\ step < 35 /\ step' = step + 1
      BY <1>0, DoneStep DEF KInv
  <1>2. step \in 1 .. 34 /\ Boot[step][1] = "keyboard_config"
      BY <1>0, <1>1, DoneIs DEF KInv
  <1>3. ConfigInv'
      BY <1>0 DEF ConfigInv, KeyboardConfig
  <1> QED
      BY <1>0, <1>1, <1>2, <1>3, DoneHandlers, DoneMasks DEF KInv

(* mouse_init adds its bit to the configuration it read, if it is one.     *)
LEMMA MouseConfigInv ==
  KInv /\ ReadConfig("mouse_config", {MouseConfig(bits) : bits \in Configs(DataByte)}) => KInv'
  <1> DEFINE act == ReadConfig("mouse_config", {MouseConfig(bits) : bits \in Configs(DataByte)})
  <1> SUFFICES ASSUME KInv, act PROVE KInv'
      OBVIOUS
  <1>0. /\ At("mouse_config") /\ Done /\ cur' = cur /\ iflag' = iflag
        /\ handlers' = handlers /\ masked' = masked
        /\ mistaken' = (mistaken \/ DataByte # "config")
        /\ \E bits \in Configs(DataByte) : cfg' = MouseConfig(bits)
      BY DEF ReadConfig, schedVars, vars, irqVars
  <1>1. StepInv' /\ step < 35 /\ step' = step + 1
      BY <1>0, DoneStep DEF KInv
  <1>2. step \in 1 .. 34 /\ Boot[step][1] = "mouse_config"
      BY <1>0, <1>1, DoneIs DEF KInv
  <1>3. step # 10
      BY <1>2, BootOnce
  <1>4. ~ mistaken' => ~ mistaken /\ cfg' = cfg \cup {"aux_int"}
      BY <1>0 DEF MouseConfig, Configs
  <1>5. step' >= 11 => step >= 11
      BY <1>1, <1>2, <1>3
  <1>6. "aux_int" # "kbd_off"
      OBVIOUS
  <1>7. ConfigInv'
      BY <1>4, <1>5, <1>6, Zenon DEF KInv, ConfigInv
  <1> QED
      BY <1>0, <1>1, <1>2, <1>7, DoneHandlers, DoneMasks DEF KInv

(* Every other step leaves the tables and the configuration as they are.   *)
Beside ==
    /\ step' = step /\ handlers' = handlers /\ masked' = masked
    /\ cfg' = cfg /\ mistaken' = mistaken

(* Then only where kmain is matters.                                       *)
LEMMA BesideInv == KInv /\ Beside /\ StepInv' => KInv'
  BY DEF Beside, KInv, HandlerInv, MaskInv, MayCome, ConfigInv

(* kmain after the start-up.                                               *)
LEMMA GotoInv ==
  ASSUME KInv, NEW from, NEW to, Goto(from, to), from # "boot", to # "boot"
  PROVE  KInv'
  <1>1. Beside /\ kpc = from /\ kpc' = to
      BY DEF Goto, Beside, ps2Vars, irqVars
  <1>2. StepInv'
      BY <1>1 DEF KInv, Beside, StepInv
  <1> QED
      BY <1>1, <1>2, BesideInv

(* The shell runs only once kmain is the idle thread.                      *)
LEMMA ShellInv == KInv /\ ShellThread => KInv'
  <1> SUFFICES ASSUME KInv, ShellThread PROVE KInv'
      OBVIOUS
  <1>1. Beside /\ kpc' = kpc /\ cur = Shell
      BY DEF ShellThread, ShellKey, ShellEmpty, ShellYield, Beside, ps2Vars, irqVars
  <1>2. cur # NULL
      BY <1>1, SchedAssumption, KernelAssumption
  <1>3. StepInv'
      BY <1>1, <1>2 DEF KInv, Beside, StepInv
  <1> QED
      BY <1>1, <1>3, BesideInv

(* An interrupt does not bring kmain back to its start-up, or out of it.   *)
LEMMA EndHltIs == EndHlt => (kpc' = "boot" <=> kpc = "boot")
  BY DEF EndHlt

(* The timer interrupt, whichever handler it has.                          *)
LEMMA TimerInv == KInv /\ TimerIrq => KInv'
  <1> SUFFICES ASSUME KInv, TimerIrq PROVE KInv'
      OBVIOUS
  <1>1. Beside /\ EndHlt
      BY DEF TimerIrq, Beside, ps2Vars, irqVars
  <1>2. cur' = cur /\ iflag' = iflag
    <2>1. sched_tick \/ pit_tick \/ UNCHANGED schedVars
        BY DEF TimerIrq
    <2> QED
        BY <2>1 DEF sched_tick, pit_tick, schedVars, vars
  <1>3. StepInv'
      BY <1>1, <1>2, EndHltIs DEF KInv, Beside, StepInv
  <1> QED
      BY <1>1, <1>3, BesideInv

(* The keyboard interrupt.                                                 *)
LEMMA KeyInv == KInv /\ KeyIrq => KInv'
  <1> SUFFICES ASSUME KInv, KeyIrq PROVE KInv'
      OBVIOUS
  <1>1. Beside /\ EndHlt /\ cur' = cur /\ iflag' = iflag
      BY DEF KeyIrq, Beside, irqVars, schedVars, vars
  <1>3. StepInv'
      BY <1>1, EndHltIs DEF KInv, Beside, StepInv
  <1> QED
      BY <1>1, <1>3, BesideInv

(* Devices, a byte flushed and stuttering steps do not touch it.           *)
LEMMA QuietInv ==
  ASSUME KInv, Beside, cur' = cur, iflag' = iflag, kpc' = kpc
  PROVE  KInv'
  <1>1. StepInv'
      BY DEF KInv, Beside, StepInv
  <1> QED
      BY <1>1, BesideInv

(* Every step keeps the invariant.                                         *)
LEMMA KInvNext == KInv /\ [KNext]_kvars => KInv'
  <1> SUFFICES ASSUME KInv, [KNext]_kvars PROVE KInv'
      OBVIOUS
  <1>1. CASE StartUp
    <2>1. CASE FlushByte
      <3>1. Beside /\ cur' = cur /\ iflag' = iflag /\ kpc' = kpc
          BY <2>1 DEF FlushByte, Beside, schedVars, vars, irqVars
      <3> QED
          BY <3>1, QuietInv
    <2> QED
        BY <1>1, <2>1, IsrInitInv, RegisterInv, UnmaskInv, StiInv, SchedInitInv, SendInv,
           ReadByteInv, FlushEndInv, KeyboardConfigInv, MouseConfigInv DEF StartUp
  <1>2. CASE \/ SetupKey \/ SetupEmpty \/ SetupHlt \/ CreateShell \/ AddShell
             \/ KmainYield \/ IdleLoop
    <2>1. \E from, to : Goto(from, to) /\ from # "boot" /\ to # "boot"
        BY <1>2 DEF SetupKey, SetupEmpty, SetupHlt, CreateShell, AddShell, KmainYield,
                    IdleLoop
    <2> QED
        BY <2>1, GotoInv
  <1>3. CASE Device(CtlSend) \/ Device(KbdSend) \/ Device(MouseSend) \/ Device(KeyPress)
    <2>1. Beside /\ cur' = cur /\ iflag' = iflag /\ kpc' = kpc
        BY <1>3 DEF Device, Beside, schedVars, vars, irqVars
    <2> QED
        BY <2>1, QuietInv
  <1>4. CASE UNCHANGED kvars
    <2>1. Beside /\ cur' = cur /\ iflag' = iflag /\ kpc' = kpc
        BY <1>4 DEF kvars, Beside, vars, ps2Vars, irqVars
    <2> QED
        BY <2>1, QuietInv
  <1> QED
      BY <1>1, <1>2, <1>3, <1>4, ShellInv, TimerInv, KeyInv DEF KNext, Kmain

(* So it holds at all times.                                               *)
LEMMA KernelInv == KSpec => []KInv
  BY KInvInit, KInvNext, PTL DEF KSpec

-----------------------------------------------------------------------------
(* While interrupts are on, no line is let through without a handler in    *)
(* the table, from kmain's sti on, through the start of every driver.      *)
THEOREM KernelHandlers == KSpec => []HandlerBeforeUnmask
  <1>1. KInv => HandlerBeforeUnmask
    <2> SUFFICES ASSUME KInv, iflag, NEW irq \in Irqs, Deliverable(irq)
                 PROVE  handlers[irq] # "none"
        BY DEF HandlerBeforeUnmask
    <2>1. MayCome(irq) /\ step >= 6 /\ step \in 1 .. 35
        BY DEF KInv, StepInv, MaskInv, Deliverable
    <2> QED
        BY <2>1 DEF KInv, HandlerInv, MayCome
  <1> QED
      BY <1>1, KernelInv, PTL

(* The keyboard that keyboard_init set up stays on, with its interrupt,    *)
(* unless mouse_init took a byte from the keyboard for the configuration.  *)
THEOREM KernelKeyboard == KSpec => []KeyboardStaysOn
  <1>1. KInv => KeyboardStaysOn
      BY DEF KInv, StepInv, HandlerInv, ConfigInv, KeyboardStaysOn
  <1> QED
      BY <1>1, KernelInv, PTL
=============================================================================
