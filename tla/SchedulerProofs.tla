-------------------------- MODULE SchedulerProofs --------------------------
(***************************************************************************)
(* Scheduler for any number of tasks, devices of any size, any budget and  *)
(* any mode.  The queues: no task is lost or duplicated on its way through *)
(* them and through the locals of schedule (QInv), and they stay in        *)
(* arrival order (OrderInv).  The blocks: the three managers agree with    *)
(* the queues (MemInv), so that dispatch never fills more than it has      *)
(* slots for, the host and the disk hold whole blocks, and no block leaks. *)
(* The KV: what a task counts as filled is there, or is computed by a task *)
(* that runs before it (KvInv), as long as none comes from the host.  And  *)
(* the types of all variables (TypeInv).                                   *)
(***************************************************************************)
EXTENDS Scheduler, BlockOpsProofs

-----------------------------------------------------------------------------
(* How often a task is in a queue *)

Positions(q, s) == {i \in 1..Len(q) : q[i] = s}
Count(q, s) == Cardinality(Positions(q, s))
Same(e, s) == IF e = s THEN 1 ELSE 0

\* A count is a number.
LEMMA CountNat ==
  ASSUME NEW S, NEW q \in Seq(S), NEW s
  PROVE  IsFiniteSet(Positions(q, s)) /\ Count(q, s) \in Nat
<1>1. IsFiniteSet(1..Len(q))
  BY FS_Interval
<1>2. Positions(q, s) \in SUBSET (1..Len(q))
  BY DEF Positions
<1> QED
  BY <1>1, <1>2, FS_Subset, FS_CardinalityType DEF Count

IsConcat(c, p, q) == c = p \o q

\* The counts of a concatenation add up.
LEMMA CountConcat ==
  ASSUME NEW S, NEW p \in Seq(S), NEW q \in Seq(S), NEW c, IsConcat(c, p, q), NEW s
  PROVE  c \in Seq(S) /\ Count(c, s) = Count(p, s) + Count(q, s)
<1> DEFINE L == Len(p)
           A == Positions(p, s)
           B == Positions(q, s)
           C == Positions(c, s)
           D == {i + L : i \in B}
<1>1. /\ c \in Seq(S) /\ L \in Nat /\ Len(q) \in Nat /\ Len(c) = L + Len(q)
      /\ \A i \in 1..L : c[i] = p[i] /\ i \in 1..Len(c)
      /\ \A i \in 1..Len(q) : c[i + L] = q[i] /\ i + L \in 1..Len(c)
      /\ \A i \in 1..Len(c) : i \notin 1..L => i - L \in 1..Len(q) /\ (i - L) + L = i
  BY DEF IsConcat
<1> HIDE DEF L
<1>2. C = A \union D
  <2>1. ASSUME NEW i \in C PROVE i \in A \union D
    <3>1. CASE i \in 1..L
      BY <1>1, <3>1 DEF Positions, L
    <3>2. CASE i \notin 1..L
      <4>1. i \in 1..Len(c) /\ c[i] = s
        BY DEF Positions
      <4>2. i - L \in 1..Len(q) /\ (i - L) + L = i
        BY <1>1, <3>2, <4>1
      <4>3. q[i - L] = s
        BY <1>1, <4>1, <4>2
      <4> QED
        BY <4>2, <4>3 DEF Positions
    <3> QED
      BY <3>1, <3>2
  <2>2. ASSUME NEW i \in A PROVE i \in C
    BY <1>1 DEF Positions, L
  <2>3. ASSUME NEW i \in B PROVE i + L \in C
    BY <1>1 DEF Positions
  <2> QED
    BY <2>1, <2>2, <2>3
<1>3. A \cap D = {}
  BY <1>1 DEF Positions, L
<1>4. IsFiniteSet(A) /\ IsFiniteSet(B) /\ Cardinality(A) \in Nat /\ Cardinality(B) \in Nat
  BY CountNat DEF Count
<1>5. IsFiniteSet(D) /\ Cardinality(D) = Cardinality(B)
  <2> DEFINE f == [i \in B |-> i + L]
  <2>1. \A i \in B : i \in Nat
    BY <1>1 DEF Positions
  <2>2. f \in [B -> D] /\ \A d \in D : \E i \in B : f[i] = d
    OBVIOUS
  <2>3. \A i, j \in B : f[i] = f[j] => i = j
    BY <1>1, <2>1
  <2>4. f \in Bijection(B, D)
    <3> HIDE DEF f, B, D
    <3> QED
      BY <2>2, <2>3 DEF Bijection, Injection, IsInjective, Surjection
  <2> QED
    BY <1>4, <2>4, FS_Bijection DEF ExistsBijection
<1>6. Cardinality(C) = Cardinality(A) + Cardinality(D)
  <2> HIDE DEF A, D, C
  <2>1. Cardinality(A \cap D) = 0
    BY <1>3, FS_EmptySet
  <2>2. Cardinality(A \union D) = Cardinality(A) + Cardinality(D) - Cardinality(A \cap D)
    BY <1>4, <1>5, FS_Union
  <2> QED
    BY ONLY <1>2, <1>4, <1>5, <2>1, <2>2
<1> QED
  BY <1>1, <1>5, <1>6 DEF Count

\* A queue of one task, and an empty one.
LEMMA CountOne ==
  ASSUME NEW e, NEW s
  PROVE  Count(<<e>>, s) = Same(e, s) /\ Count(<<>>, s) = 0
<1>1. Positions(<<>>, s) = {}
  BY DEF Positions
<1>2. CASE e = s
  <2>1. Positions(<<e>>, s) = {1}
    BY <1>2 DEF Positions
  <2> QED
    BY <1>1, <1>2, <2>1, FS_Singleton, FS_EmptySet DEF Count, Same
<1>3. CASE e # s
  <2>1. Positions(<<e>>, s) = {}
    BY <1>3 DEF Positions
  <2> QED
    BY <1>1, <1>3, <2>1, FS_EmptySet DEF Count, Same
<1> QED
  BY <1>2, <1>3

\* A task is counted if it is in the queue.
LEMMA CountZero ==
  ASSUME NEW S, NEW q \in Seq(S), NEW s
  PROVE  Count(q, s) = 0 <=> s \notin Elems(q)
<1>1. Count(q, s) = 0 <=> Positions(q, s) = {}
  BY CountNat, FS_EmptySet DEF Count
<1> QED
  BY <1>1 DEF Positions, Elems

\* Taking the task at the front, or at the back.
LEMMA CountTail ==
  ASSUME NEW S, NEW q \in Seq(S), q # <<>>
  PROVE  /\ Head(q) \in S /\ Tail(q) \in Seq(S)
         /\ \A s : Count(q, s) = Same(Head(q), s) + Count(Tail(q), s)
<1> DEFINE one == <<Head(q)>>
           rest == Tail(q)
<1>1. Head(q) \in S /\ rest \in Seq(S) /\ one \in Seq(S) /\ IsConcat(q, one, rest)
  BY DEF IsConcat
<1>2. \A s : Count(one, s) = Same(Head(q), s)
  BY CountOne
<1> HIDE DEF one, rest
<1>3. ASSUME NEW s PROVE Count(q, s) = Same(Head(q), s) + Count(rest, s)
  BY <1>1, <1>2, CountConcat
<1> QED
  BY <1>1, <1>3 DEF rest

\* ... from the back, ...
LEMMA CountFront ==
  ASSUME NEW S, NEW q \in Seq(S), q # <<>>
  PROVE  /\ Last(q) \in S /\ Front(q) \in Seq(S)
         /\ \A s : Count(q, s) = Count(Front(q), s) + Same(Last(q), s)
<1> DEFINE one == <<Last(q)>>
           rest == Front(q)
<1>1. Last(q) \in S /\ rest \in Seq(S) /\ one \in Seq(S) /\ IsConcat(q, rest, one)
  BY DEF Last, Front, IsConcat
<1>2. \A s : Count(one, s) = Same(Last(q), s)
  BY CountOne
<1> HIDE DEF one, rest
<1>3. ASSUME NEW s PROVE Count(q, s) = Count(rest, s) + Same(Last(q), s)
  BY <1>1, <1>2, CountConcat
<1> QED
  BY <1>1, <1>3 DEF rest

\* A task at the end of a queue.
LEMMA CountAppend ==
  ASSUME NEW S, NEW q \in Seq(S), NEW e \in S
  PROVE  /\ Append(q, e) \in Seq(S)
         /\ \A s : Count(Append(q, e), s) = Count(q, s) + Same(e, s)
<1> DEFINE one == <<e>>
           more == Append(q, e)
<1>1. one \in Seq(S) /\ more \in Seq(S) /\ IsConcat(more, q, one)
  BY DEF IsConcat
<1>2. \A s : Count(one, s) = Same(e, s)
  BY CountOne
<1> HIDE DEF one, more
<1>3. ASSUME NEW s PROVE Count(more, s) = Count(q, s) + Same(e, s)
  BY <1>1, <1>2, CountConcat
<1> QED
  BY <1>1, <1>3 DEF more

\* Sequences of the same elements are the same.
LEMMA SeqsEqual ==
  ASSUME NEW S, NEW p \in Seq(S), NEW q \in Seq(S), Len(p) = Len(q),
         \A i \in 1..Len(p) : p[i] = q[i]
  PROVE  p = q
<1>1. p = [i \in 1..Len(p) |-> p[i]] /\ q = [i \in 1..Len(q) |-> q[i]]
  OBVIOUS
<1> QED
  BY <1>1

\* A queue cut in two.
LEMMA CountCut ==
  ASSUME NEW S, NEW q \in Seq(S), NEW k \in 0..Len(q)
  PROVE  /\ SubSeq(q, 1, k) \in Seq(S) /\ SubSeq(q, k + 1, Len(q)) \in Seq(S)
         /\ \A s : Count(q, s) = Count(SubSeq(q, 1, k), s) + Count(SubSeq(q, k + 1, Len(q)), s)
<1> DEFINE a == SubSeq(q, 1, k)
           b == SubSeq(q, k + 1, Len(q))
<1>1. /\ a \in Seq(S) /\ Len(a) = k /\ \A i \in 1..k : a[i] = q[i]
      /\ b \in Seq(S) /\ Len(b) = Len(q) - k /\ \A i \in 1..(Len(q) - k) : b[i] = q[k + i]
  OBVIOUS
<1> HIDE DEF a, b
<1>2. /\ a \o b \in Seq(S) /\ Len(a \o b) = Len(q)
      /\ \A i \in 1..Len(q) : (a \o b)[i] = IF i <= k THEN a[i] ELSE b[i - k]
  BY <1>1
<1>3. \A i \in 1..Len(q) : (a \o b)[i] = q[i]
  BY <1>1, <1>2
<1>4. IsConcat(q, a, b)
  BY <1>2, <1>3, SeqsEqual DEF IsConcat
<1>5. ASSUME NEW s PROVE Count(q, s) = Count(a, s) + Count(b, s)
  BY <1>1, <1>4, CountConcat
<1> QED
  BY <1>1, <1>5 DEF a, b

\* A task put into a queue.
LEMMA CountInsert ==
  ASSUME NEW S, NEW q \in Seq(S), NEW i \in 1..Len(q), NEW e \in S
  PROVE  /\ InsertAt(q, i, e) \in Seq(S)
         /\ \A s : Count(InsertAt(q, i, e), s) = Count(q, s) + Same(e, s)
<1> DEFINE a == SubSeq(q, 1, i - 1)
           b == SubSeq(q, i, Len(q))
<1>1. i - 1 \in 0..Len(q) /\ (i - 1) + 1 = i
  OBVIOUS
<1>2. a \in Seq(S) /\ b \in Seq(S) /\ \A s : Count(q, s) = Count(a, s) + Count(b, s)
  BY <1>1, CountCut
<1> DEFINE one == <<e>>
           first == a \o one
           whole == first \o b
<1>3. one \in Seq(S) /\ \A s : Count(one, s) = Same(e, s)
  BY CountOne
<1>4. InsertAt(q, i, e) = whole
  BY DEF InsertAt
<1> HIDE DEF a, b, one
<1>c. IsConcat(first, a, one) /\ IsConcat(whole, first, b) /\ first \in Seq(S) /\ whole \in Seq(S)
  BY <1>2, <1>3 DEF IsConcat
<1> HIDE DEF first, whole
<1>5. \A s : Count(first, s) = Count(a, s) + Same(e, s)
  BY <1>2, <1>3, <1>c, CountConcat
<1>6. \A s : Count(whole, s) = Count(first, s) + Count(b, s)
  BY <1>2, <1>c, CountConcat
<1>7. ASSUME NEW s PROVE Count(whole, s) = Count(q, s) + Same(e, s)
  <2>1. Count(a, s) \in Nat /\ Count(b, s) \in Nat /\ Same(e, s) \in Nat
    BY <1>2, CountNat DEF Same
  <2> QED
    BY <1>2, <1>5, <1>6, <2>1
<1> QED
  BY <1>4, <1>c, <1>7

\* In a queue without duplicates a task is counted once.
LEMMA CountNoDup ==
  ASSUME NEW S, NEW q \in Seq(S), NoDup(q), NEW s
  PROVE  Count(q, s) = IF s \in Elems(q) THEN 1 ELSE 0
<1>1. CASE s \in Elems(q)
  <2>1. PICK i \in 1..Len(q) : q[i] = s
    BY <1>1 DEF Elems
  <2>2. Positions(q, s) = {i}
    BY <2>1 DEF Positions, NoDup
  <2> QED
    BY <1>1, <2>2, FS_Singleton DEF Count
<1>2. CASE s \notin Elems(q)
  BY <1>2, CountZero
<1> QED
  BY <1>1, <1>2

\* A queue in which no task is counted twice has no duplicates.
LEMMA NoDupOfCount ==
  ASSUME NEW S, NEW q \in Seq(S), \A s \in S : Count(q, s) <= 1
  PROVE  NoDup(q)
<1> SUFFICES ASSUME NEW i \in 1..Len(q), NEW j \in 1..Len(q), q[i] = q[j], i # j
             PROVE  FALSE
  BY DEF NoDup
<1> DEFINE P == Positions(q, q[i])
<1>1. i \in P /\ j \in P
  BY DEF Positions
<1>2. IsFiniteSet(P) /\ Cardinality(P) \in Nat /\ Cardinality(P) <= 1
  BY CountNat DEF Count
<1> HIDE DEF P
<1>3. Cardinality(P) # 0
  BY <1>1, <1>2, FS_EmptySet
<1>4. Cardinality(P) = 1
  BY <1>2, <1>3
<1>5. PICK x : P = {x}
  BY <1>2, <1>4, FS_Singleton
<1> QED
  BY <1>1, <1>5

\* The tasks of a queue that are in T.
LEMMA CountKept ==
  ASSUME NEW S, NEW q \in Seq(S), NoDup(q), NEW T
  PROVE  /\ Kept(q, T) \in Seq(S)
         /\ \A s : Count(Kept(q, T), s) = IF s \in T THEN Count(q, s) ELSE 0
<1> DEFINE k == Kept(q, T)
<1>1. k \in Seq(S) /\ Elems(k) = Elems(q) \cap T /\ NoDup(k)
  BY KeptLemma
<1> HIDE DEF k
<1>2. ASSUME NEW s PROVE Count(k, s) = IF s \in T THEN Count(q, s) ELSE 0
  <2>1. Count(k, s) = IF s \in Elems(k) THEN 1 ELSE 0
    BY <1>1, CountNoDup
  <2>2. Count(q, s) = IF s \in Elems(q) THEN 1 ELSE 0
    BY CountNoDup
  <2> QED
    BY <1>1, <2>1, <2>2
<1> QED
  BY <1>1, <1>2 DEF k

\* A set of numbers up to n that is not empty has a greatest one.
LEMMA GreatestNat ==
  ASSUME NEW n \in Nat, NEW T \in SUBSET (1..n), T # {}
  PROVE  \E x \in T : \A y \in T : x >= y
<1> DEFINE U == {n - x : x \in T}
<1>1. U \in SUBSET Nat /\ U # {}
  <2>1. \A x \in T : n - x \in Nat
    OBVIOUS
  <2>2. PICK x \in T : TRUE
    OBVIOUS
  <2>3. n - x \in U
    OBVIOUS
  <2> QED
    BY <2>1, <2>3
<1>2. PICK u \in U : \A v \in U : u <= v
  <2> HIDE DEF U
  <2> QED
    BY <1>1, LeastNat
<1>3. PICK x \in T : u = n - x
  OBVIOUS
<1>4. ASSUME NEW y \in T PROVE x >= y
  <2>1. n - y \in U
    OBVIOUS
  <2>2. n - x <= n - y
    BY <1>2, <1>3, <2>1
  <2>3. x \in Nat /\ y \in Nat
    OBVIOUS
  <2> QED
    BY <2>2, <2>3
<1> QED
  BY <1>4

\* insert_sorted_by puts the task at some place of the queue.
LEMMA InsertSorted ==
  ASSUME NEW q \in Seq(Seqs), NEW s \in Seqs
  PROVE  /\ insert_sorted_by(q, s) \in Seq(Seqs)
         /\ \A t : Count(insert_sorted_by(q, s), t) = Count(q, t) + Same(s, t)
<1> DEFINE I == {i \in 1..Len(q) : Arrival[q[i]] > Arrival[s]}
           i == IF I # {} THEN Min(I) ELSE 0
<1>1. insert_sorted_by(q, s) = IF i = 0 THEN Append(q, s) ELSE InsertAt(q, i, s)
  BY DEF insert_sorted_by, SelectInSeq
<1>2. I # {} => Min(I) \in I
  <2>1. I \in SUBSET Nat
    OBVIOUS
  <2> HIDE DEF I
  <2> QED
    BY <2>1, LeastNat DEF Min
<1>3. i = 0 \/ i \in 1..Len(q)
  BY <1>2
<1> HIDE DEF i
<1> QED
  BY <1>1, <1>3, CountAppend, CountInsert

\* The promoted tasks are the end of allocated.
LEMMA LastOlderBound ==
  ASSUME allocated \in Seq(Seqs), NEW s \in Seqs
  PROVE  LastOlder(s) \in 0..Len(allocated)
<1> DEFINE I == {i \in 1..Len(allocated) : Arrival[allocated[i]] <= Arrival[s]}
<1>1. LastOlder(s) = IF I # {} THEN Max(I) ELSE 0
  BY DEF LastOlder, SelectLastInSeq
<1>2. I \in SUBSET (1..Len(allocated)) /\ Len(allocated) \in Nat
  OBVIOUS
<1> HIDE DEF I
<1>3. I # {} => Max(I) \in 1..Len(allocated)
  BY <1>2, GreatestNat DEF Max
<1>4. CASE I = {}
  BY <1>1, <1>2, <1>4
<1>5. CASE I # {}
  BY <1>1, <1>2, <1>3, <1>5
<1> QED
  BY <1>4, <1>5

-----------------------------------------------------------------------------
(***************************************************************************)
(* TaskConserved.  The invariant counts a task in all queues and locals    *)
(* together.  What it needs besides: which locals are empty where (they    *)
(* are overwritten there), that the entries of a batch belong to allocated *)
(* tasks (update takes the stopped ones from there), and that each copy    *)
(* from disk to host has a task of its own set aside in pending (the       *)
(* callback takes it from there).                                          *)
(***************************************************************************)

Statuses == {"New", "Reserved", "Failed", "Waiting", "Allocated", "Finished", "Done", "Dropped"}

QueueType ==
    /\ waiting \in Seq(Seqs) /\ allocated \in Seq(Seqs) /\ kept \in Seq(Seqs)
    /\ promoted \in Seq(Seqs) /\ nextWaiting \in Seq(Seqs) /\ finished \in Seq(Seqs)
    /\ pending \in SUBSET Seqs
    /\ cur \in Seqs \union {NoTask}
    /\ status \in [Seqs -> Statuses]

\* How often s is anywhere, and how often it should be.
Pended(s) == IF s \in pending THEN 1 ELSE 0
Everywhere(s) ==
    Count(waiting, s) + Count(allocated, s) + Count(kept, s) + Count(promoted, s)
      + Count(nextWaiting, s) + Count(finished, s) + Pended(s) + Same(cur, s)
Live(s) == IF status[s] \in {"Waiting", "Allocated", "Finished"} THEN 1 ELSE 0
Conserved == \A s \in Seqs : Everywhere(s) = Live(s)

LocalsInv ==
    /\ pc # "reclaim" => promoted = <<>> /\ cur = NoTask
    /\ pc = "reclaim" => cur \in Seqs
    /\ pc # "finish" => finished = <<>>
    /\ pc = "finish" => finished # <<>>

BatchInv ==
    pc \in {"dispatch", "infer"} =>
        /\ idx \in Nat \ {0}
        /\ \E S : batch \in Seq(S)
        /\ \A i \in 1..Len(batch) : batch[i].s \in Elems(allocated)

Stages(i) == i \in 1..Len(bg) /\ bg[i].to = "host"
JobInv ==
    /\ \E S : bg \in Seq(S)
    /\ \A i \in 1..Len(bg) : Stages(i) => bg[i].s \in pending /\ bg[i].s \notin Decoded
    /\ \A i, j \in 1..Len(bg) : Stages(i) /\ Stages(j) /\ bg[i].s = bg[j].s => i = j

QInv == QueueType /\ Conserved /\ LocalsInv /\ BatchInv /\ JobInv

\* The counts are numbers, and the name for no task is not counted.
NumbersAt(s) ==
    /\ Count(waiting, s) \in Nat /\ Count(allocated, s) \in Nat /\ Count(kept, s) \in Nat
    /\ Count(promoted, s) \in Nat /\ Count(nextWaiting, s) \in Nat /\ Count(finished, s) \in Nat
    /\ Pended(s) \in {0, 1} /\ Live(s) \in {0, 1} /\ Same(cur, s) \in {0, 1}
    /\ Same(NoTask, s) = 0 /\ Count(<<>>, s) = 0

\* All the counts are numbers.
LEMMA Numbers ==
  ASSUME QueueType, NEW s \in Seqs
  PROVE  NumbersAt(s)
BY CountNat, CountOne, SchedulerAssumption DEF NumbersAt, QueueType, Pended, Same, Live

\* One task is another, or not.
LEMMA SameNat ==
  ASSUME NEW e, NEW s
  PROVE  Same(e, s) \in {0, 1} /\ (Same(e, s) = 1 <=> e = s)
BY DEF Same

\* In the beginning no task is anywhere.
LEMMA QInit == Init => QInv
<1> SUFFICES ASSUME Init PROVE QInv
  OBVIOUS
<1>1. QueueType
  BY DEF Init, QueueType, Statuses
<1>2. ASSUME NEW s \in Seqs PROVE Everywhere(s) = Live(s)
  <2>1. NumbersAt(s)
    BY <1>1, Numbers
  <2> QED
    BY <2>1 DEF NumbersAt, Init, Everywhere, Live, Pended
<1>3. LocalsInv /\ BatchInv
  BY DEF Init, LocalsInv, BatchInv
<1>4. JobInv
  <2>1. bg \in Seq({}) /\ Len(bg) = 0
    BY DEF Init
  <2> QED
    BY <2>1 DEF JobInv
<1> QED
  BY <1>1, <1>2, <1>3, <1>4 DEF QInv, Conserved

-----------------------------------------------------------------------------
(* The handlers *)

\* What a step leaves alone keeps its part of the invariant.
LEMMA LocalsFrame == LocalsInv /\ UNCHANGED <<pc, promoted, cur, finished>> => LocalsInv'
BY DEF LocalsInv

\* ... that change neither the batch nor the tasks it is taken from, ...
LEMMA BatchFrame == BatchInv /\ UNCHANGED <<pc, idx, batch, allocated>> => BatchInv'
BY DEF BatchInv

\* ... and that change no job.
LEMMA JobFrame == JobInv /\ UNCHANGED bg /\ pending \subseteq pending' => JobInv'
BY DEF JobInv, Stages

\* add_request puts a new task at the end of waiting ...
LEMMA AddRequestStep ==
  ASSUME QInv, NEW s \in Seqs, AddRequest(s)
  PROVE  QInv'
<1> USE DEF QInv
<1>0. /\ waiting' = Append(waiting, s) /\ status' = [status EXCEPT ![s] = "Waiting"]
      /\ status[s] = "New"
      /\ UNCHANGED <<allocated, pending, bg, pc, locals, step, finished>>
  BY DEF AddRequest, Arrives
<1>u. UNCHANGED <<allocated, kept, promoted, nextWaiting, finished, pending, cur>>
  BY <1>0 DEF locals, queues
<1>1. QueueType'
  BY <1>0, CountAppend DEF QueueType, Statuses, locals
<1>2. ASSUME NEW t \in Seqs PROVE Everywhere(t)' = Live(t)'
  <2> DEFINE w == Count(waiting, t)   a == Count(allocated, t)   k == Count(kept, t)
             p == Count(promoted, t)   n == Count(nextWaiting, t)   f == Count(finished, t)
             d == Pended(t)   c == Same(cur, t)   w1 == Count(waiting, t)'
             x == Same(s, t)
  <2>1. NumbersAt(t) /\ x \in {0, 1}
    BY Numbers, SameNat
  <2>2. w1 = w + x
    BY <1>0, CountAppend DEF QueueType
  <2>3. /\ Everywhere(t) = w + a + k + p + n + f + d + c
        /\ Everywhere(t)' = w1 + a + k + p + n + f + d + c
    BY <1>u DEF Everywhere, Pended
  <2>4. /\ w \in Nat /\ a \in Nat /\ k \in Nat /\ p \in Nat /\ n \in Nat /\ f \in Nat
        /\ d \in Nat /\ c \in Nat /\ x \in Nat
    BY <2>1 DEF NumbersAt
  <2>5. w1 \in Int
    BY <2>2, <2>4
  <2> HIDE DEF w, a, k, p, n, f, d, c, w1, x
  <2>6. Everywhere(t)' = Everywhere(t) + x
    BY ONLY <2>2, <2>3, <2>4, <2>5
  <2>7. Everywhere(t) = Live(t) /\ Live(s) = 0 /\ Live(t)' = IF t = s THEN 1 ELSE Live(t)
    BY <1>0 DEF Conserved, Live, QueueType
  <2> QED
    BY <2>1, <2>6, <2>7 DEF Same, x, NumbersAt
<1>3. LocalsInv' /\ BatchInv' /\ JobInv'
  BY <1>0, LocalsFrame, BatchFrame, JobFrame DEF locals, step
<1> QED
  BY <1>1, <1>2, <1>3 DEF Conserved

\* ... or sets it aside until its blocks have come from disk.
LEMMA AddRequestStagedStep ==
  ASSUME QInv, NEW s \in Seqs, AddRequestStaged(s)
  PROVE  QInv'
<1> USE DEF QInv
<1>0. /\ pending' = pending \union {s} /\ status' = [status EXCEPT ![s] = "Waiting"]
      /\ status[s] = "New" /\ s \notin Decoded
      /\ UNCHANGED <<waiting, allocated, pc, locals, step, finished>>
  BY DEF AddRequestStaged, Arrives
<1>u. UNCHANGED <<waiting, allocated, kept, promoted, nextWaiting, finished, cur>>
  BY <1>0 DEF locals, queues
<1>b. PICK job : bg' = Append(bg, job) /\ job.s = s
  <2>1. PICK map : bg' = Append(bg, [s |-> s, from |-> "disk", to |-> "host", copied |-> FALSE,
                                     map |-> map])
    BY DEF AddRequestStaged
  <2> QED
    BY <2>1
<1>n. s \notin pending
  <2>1. Everywhere(s) = Live(s) /\ Live(s) = 0
    BY <1>0 DEF Conserved, Live
  <2>2. NumbersAt(s)
    BY Numbers
  <2> QED
    BY <2>1, <2>2 DEF Everywhere, Pended, NumbersAt
<1>1. QueueType'
  BY <1>0 DEF QueueType, Statuses, locals
<1>2. ASSUME NEW t \in Seqs PROVE Everywhere(t)' = Live(t)'
  <2> DEFINE w == Count(waiting, t)   a == Count(allocated, t)   k == Count(kept, t)
             p == Count(promoted, t)   n == Count(nextWaiting, t)   f == Count(finished, t)
             d == Pended(t)   c == Same(cur, t)   d1 == Pended(t)'
             x == Same(s, t)
  <2>1. NumbersAt(t) /\ x \in {0, 1}
    BY Numbers, SameNat
  <2>2. d1 = d + x
    BY <1>0, <1>n DEF Pended, Same
  <2>3. /\ Everywhere(t) = w + a + k + p + n + f + d + c
        /\ Everywhere(t)' = w + a + k + p + n + f + d1 + c
    BY <1>u DEF Everywhere, Pended
  <2>4. /\ w \in Nat /\ a \in Nat /\ k \in Nat /\ p \in Nat /\ n \in Nat /\ f \in Nat
        /\ d \in Nat /\ c \in Nat /\ x \in Nat
    BY <2>1 DEF NumbersAt
  <2>5. d1 \in Int
    BY <2>2, <2>4
  <2> HIDE DEF w, a, k, p, n, f, d, c, d1, x
  <2>6. Everywhere(t)' = Everywhere(t) + x
    BY ONLY <2>2, <2>3, <2>4, <2>5
  <2>7. Everywhere(t) = Live(t) /\ Live(s) = 0 /\ Live(t)' = IF t = s THEN 1 ELSE Live(t)
    BY <1>0 DEF Conserved, Live, QueueType
  <2> QED
    BY <2>1, <2>6, <2>7 DEF Same, x, NumbersAt
<1>3. LocalsInv' /\ BatchInv'
  BY <1>0, LocalsFrame, BatchFrame DEF locals, step
<1>4. JobInv'
  <2>1. PICK S : bg \in Seq(S)
    BY DEF JobInv
  <2>2. bg' \in Seq(S \union {job}) /\ Len(bg') = Len(bg) + 1 /\ Len(bg) \in Nat
    BY <1>b, <2>1
  <2>3. bg'[Len(bg) + 1] = job /\ \A i \in 1..Len(bg) : bg'[i] = bg[i]
    BY <1>b, <2>1
  <2>4. \A i \in 1..Len(bg) : Stages(i)' <=> Stages(i)
    BY <2>2, <2>3 DEF Stages
  <2>5. \A i \in 1..Len(bg) : Stages(i) => bg[i].s # s
    BY <1>n DEF JobInv
  <2>6. \A i \in 1..Len(bg') : i \in 1..Len(bg) \/ i = Len(bg) + 1
    BY <2>2
  <2>7. ASSUME NEW i \in 1..Len(bg'), Stages(i)' PROVE bg'[i].s \in pending' /\ bg'[i].s \notin Decoded
    BY <1>0, <1>b, <2>3, <2>4, <2>6, <2>7 DEF JobInv
  <2>8. ASSUME NEW i \in 1..Len(bg'), NEW j \in 1..Len(bg'), Stages(i)', Stages(j)',
               bg'[i].s = bg'[j].s
        PROVE  i = j
    BY <1>b, <2>3, <2>4, <2>5, <2>6, <2>8 DEF JobInv
  <2> QED
    BY <2>2, <2>7, <2>8 DEF JobInv
<1> QED
  BY <1>1, <1>2, <1>3, <1>4 DEF Conserved

\* reserve_request: the task is in no queue yet, ...
LEMMA ReserveRequestStep ==
  ASSUME QInv, NEW s \in Seqs, ReserveRequest(s)
  PROVE  QInv'
<1> USE DEF QInv
<1>0. /\ \E v \in {"Failed", "Reserved"} : status' = [status EXCEPT ![s] = v]
      /\ status[s] = "New"
      /\ UNCHANGED <<queues, bg, pc, locals, step, finished>>
  BY DEF ReserveRequest, Arrives
<1>1. QueueType'
  BY <1>0 DEF QueueType, Statuses, locals, queues
<1>2. ASSUME NEW t \in Seqs PROVE Everywhere(t)' = Live(t)'
  <2>1. Live(t)' = Live(t)
    BY <1>0 DEF Live, QueueType
  <2> QED
    BY <1>0, <2>1 DEF Everywhere, locals, queues, Pended, Conserved
<1>3. LocalsInv' /\ BatchInv' /\ JobInv'
  BY <1>0, LocalsFrame, BatchFrame, JobFrame DEF locals, step, queues
<1> QED
  BY <1>1, <1>2, <1>3 DEF Conserved

\* ... then it is set aside ...
LEMMA PendReservedStep ==
  ASSUME QInv, NEW s \in Seqs, PendReserved(s)
  PROVE  QInv'
<1> USE DEF QInv
<1>0. /\ pending' = pending \union {s} /\ status' = [status EXCEPT ![s] = "Waiting"]
      /\ status[s] = "Reserved"
      /\ UNCHANGED <<waiting, allocated, bg, pc, locals, step, finished>>
  BY DEF PendReserved
<1>u. UNCHANGED <<waiting, allocated, kept, promoted, nextWaiting, finished, cur>>
  BY <1>0 DEF locals, queues
<1>n. s \notin pending
  <2>1. Everywhere(s) = Live(s) /\ Live(s) = 0
    BY <1>0 DEF Conserved, Live
  <2>2. NumbersAt(s)
    BY Numbers
  <2> QED
    BY <2>1, <2>2 DEF Everywhere, Pended, NumbersAt
<1>1. QueueType'
  BY <1>0 DEF QueueType, Statuses, locals
<1>2. ASSUME NEW t \in Seqs PROVE Everywhere(t)' = Live(t)'
  <2> DEFINE w == Count(waiting, t)   a == Count(allocated, t)   k == Count(kept, t)
             p == Count(promoted, t)   n == Count(nextWaiting, t)   f == Count(finished, t)
             d == Pended(t)   c == Same(cur, t)   d1 == Pended(t)'
             x == Same(s, t)
  <2>1. NumbersAt(t) /\ x \in {0, 1}
    BY Numbers, SameNat
  <2>2. d1 = d + x
    BY <1>0, <1>n DEF Pended, Same
  <2>3. /\ Everywhere(t) = w + a + k + p + n + f + d + c
        /\ Everywhere(t)' = w + a + k + p + n + f + d1 + c
    BY <1>u DEF Everywhere, Pended
  <2>4. /\ w \in Nat /\ a \in Nat /\ k \in Nat /\ p \in Nat /\ n \in Nat /\ f \in Nat
        /\ d \in Nat /\ c \in Nat /\ x \in Nat
    BY <2>1 DEF NumbersAt
  <2>5. d1 \in Int
    BY <2>2, <2>4
  <2> HIDE DEF w, a, k, p, n, f, d, c, d1, x
  <2>6. Everywhere(t)' = Everywhere(t) + x
    BY ONLY <2>2, <2>3, <2>4, <2>5
  <2>7. Everywhere(t) = Live(t) /\ Live(s) = 0 /\ Live(t)' = IF t = s THEN 1 ELSE Live(t)
    BY <1>0 DEF Conserved, Live, QueueType
  <2> QED
    BY <2>1, <2>6, <2>7 DEF Same, x, NumbersAt
<1>3. LocalsInv' /\ BatchInv' /\ JobInv'
  BY <1>0, LocalsFrame, BatchFrame, JobFrame DEF locals, step
<1> QED
  BY <1>1, <1>2, <1>3 DEF Conserved

\* ... until trigger_pend_task moves it to its place in waiting.
LEMMA TriggerCounts ==
  ASSUME QueueType, Conserved, NEW s \in pending, pending' = pending \ {s},
         waiting' = insert_sorted_by(waiting, s),
         UNCHANGED <<allocated, kept, promoted, nextWaiting, finished, cur, status>>
  PROVE  QueueType' /\ Conserved'
<1>0. s \in Seqs
  BY DEF QueueType
<1>u. UNCHANGED <<allocated, kept, promoted, nextWaiting, finished, cur>>
  OBVIOUS
<1>1. QueueType'
  BY <1>0, InsertSorted DEF QueueType
<1>2. ASSUME NEW t \in Seqs PROVE Everywhere(t)' = Live(t)'
  <2> DEFINE w == Count(waiting, t)   a == Count(allocated, t)   k == Count(kept, t)
             p == Count(promoted, t)   n == Count(nextWaiting, t)   f == Count(finished, t)
             d == Pended(t)   c == Same(cur, t)   w1 == Count(waiting, t)'
             d1 == Pended(t)'   x == Same(s, t)
  <2>1. NumbersAt(t) /\ x \in {0, 1}
    BY Numbers, SameNat
  <2>a. w1 = w + x
    BY <1>0, InsertSorted DEF QueueType
  <2>b. d = d1 + x /\ d1 \in {0, 1}
    BY DEF Pended, Same
  <2>2. w1 = w + x /\ d = d1 + x /\ d1 \in {0, 1}
    BY <2>a, <2>b
  <2>3. /\ Everywhere(t) = w + a + k + p + n + f + d + c
        /\ Everywhere(t)' = w1 + a + k + p + n + f + d1 + c
    BY <1>u DEF Everywhere, Pended
  <2>4. /\ w \in Nat /\ a \in Nat /\ k \in Nat /\ p \in Nat /\ n \in Nat /\ f \in Nat
        /\ d \in Nat /\ c \in Nat /\ x \in Nat
    BY <2>1 DEF NumbersAt
  <2>5. w1 \in Int /\ d1 \in Int
    BY <2>2, <2>4
  <2> HIDE DEF w, a, k, p, n, f, d, c, w1, d1, x
  <2>6. Everywhere(t)' = Everywhere(t)
    BY ONLY <2>2, <2>3, <2>4, <2>5
  <2> QED
    BY <2>6 DEF Conserved, Live
<1> QED
  BY <1>1, <1>2 DEF Conserved

\* What a reserved request has waited for has arrived.
LEMMA TriggerRequestStep ==
  ASSUME QInv, NEW s \in Seqs, NEW n \in 0..NumFull, TriggerRequest(s, n)
  PROVE  QInv'
<1> USE DEF QInv
<1>0. /\ s \in pending /\ s \in Decoded
      /\ pending' = pending \ {s} /\ waiting' = insert_sorted_by(waiting, s)
      /\ UNCHANGED <<status, allocated, bg, pc, locals, step, finished>>
  BY DEF TriggerRequest
<1>1. QueueType' /\ Conserved'
  BY <1>0, TriggerCounts DEF locals
<1>2. LocalsInv' /\ BatchInv'
  BY <1>0, LocalsFrame, BatchFrame DEF locals, step
<1>3. JobInv'
  BY <1>0 DEF JobInv, Stages
<1> QED
  BY <1>1, <1>2, <1>3

\* clear_cache does not touch the queues.
LEMMA ClearCacheStep ==
  ASSUME QInv, UNCHANGED <<status, queues, bg, pc, locals, step, finished>>
  PROVE  QInv'
<1> USE DEF QInv, locals, step, queues
<1>1. QueueType' /\ LocalsInv' /\ BatchInv' /\ JobInv'
  BY LocalsFrame, BatchFrame, JobFrame DEF QueueType
<1>2. Conserved'
  BY DEF Conserved, Everywhere, Live, Pended
<1> QED
  BY <1>1, <1>2

-----------------------------------------------------------------------------
(* The background thread *)

\* The job at the front is done.
LEMMA JobTail ==
  ASSUME JobInv, bg # <<>>, bg' = Tail(bg),
         pending' = pending \/ (Stages(1) /\ pending' = pending \ {Head(bg).s})
  PROVE  JobInv'
<1>1. PICK S : bg \in Seq(S)
  BY DEF JobInv
<1>2. /\ bg' \in Seq(S) /\ Len(bg') = Len(bg) - 1 /\ Len(bg) \in Nat \ {0} /\ Head(bg) = bg[1]
      /\ \A i \in 1..Len(bg') : bg'[i] = bg[i + 1] /\ i + 1 \in 1..Len(bg) /\ i + 1 # 1
  BY <1>1
<1>3. \A i \in 1..Len(bg') : Stages(i)' <=> Stages(i + 1)
  BY <1>2 DEF Stages
<1>4. ASSUME NEW i \in 1..Len(bg'), Stages(i)' PROVE bg'[i].s \in pending' /\ bg'[i].s \notin Decoded
  <2>1. /\ i + 1 \in 1..Len(bg) /\ 1 \in 1..Len(bg) /\ i + 1 # 1 /\ Stages(i + 1)
        /\ bg'[i] = bg[i + 1]
    BY <1>2, <1>3, <1>4
  <2>2. bg[i + 1].s \in pending /\ bg[i + 1].s \notin Decoded
    BY <2>1 DEF JobInv
  <2>3. Stages(1) => bg[i + 1].s # bg[1].s
    BY <2>1 DEF JobInv
  <2> QED
    BY <1>2, <2>1, <2>2, <2>3
<1>5. ASSUME NEW i \in 1..Len(bg'), NEW j \in 1..Len(bg'), Stages(i)', Stages(j)',
             bg'[i].s = bg'[j].s
      PROVE  i = j
  <2>1. /\ i + 1 \in 1..Len(bg) /\ j + 1 \in 1..Len(bg) /\ Stages(i + 1) /\ Stages(j + 1)
        /\ bg[i + 1].s = bg[j + 1].s
    BY <1>2, <1>3, <1>5
  <2>2. i + 1 = j + 1
    BY <2>1 DEF JobInv
  <2> QED
    BY <1>2, <2>2
<1> QED
  BY <1>2, <1>4, <1>5 DEF JobInv

\* The callback of a stage.
LEMMA BgStagedStep ==
  ASSUME QInv, BgStaged
  PROVE  QInv'
<1> USE DEF QInv
<1> DEFINE s == Head(bg).s
<1>0. /\ bg # <<>> /\ Head(bg).to = "host" /\ bg' = Tail(bg)
      /\ pending' = pending \ {s} /\ waiting' = insert_sorted_by(waiting, s)
      /\ UNCHANGED <<status, allocated, pc, locals, step, finished>>
  BY DEF BgStaged
<1>1. 1 \in 1..Len(bg) /\ Stages(1) /\ s = bg[1].s
  <2>1. PICK S : bg \in Seq(S)
    BY DEF JobInv
  <2>2. 1 \in 1..Len(bg) /\ Head(bg) = bg[1]
    BY <1>0, <2>1
  <2> QED
    BY <1>0, <2>2 DEF Stages
<1>2. s \in pending
  BY <1>1 DEF JobInv
<1>3. JobInv'
  BY <1>0, <1>1, JobTail
<1> HIDE DEF s
<1>4. QueueType' /\ Conserved'
  BY <1>0, <1>2, TriggerCounts DEF locals
<1>5. LocalsInv' /\ BatchInv'
  BY <1>0, LocalsFrame, BatchFrame DEF locals, step
<1> QED
  BY <1>3, <1>4, <1>5

\* A copy, or the callback of a backup, leaves the tasks alone.
LEMMA BgCopyStep ==
  ASSUME QInv, BgCopy \/ BgSaved
  PROVE  QInv'
<1> USE DEF QInv
<1>0. UNCHANGED <<status, queues, pc, locals, step, finished>>
  BY DEF BgCopy, BgSaved
<1>1. QueueType' /\ Conserved'
  BY <1>0 DEF QueueType, Conserved, Everywhere, Live, Pended, locals, queues
<1>2. LocalsInv' /\ BatchInv'
  BY <1>0, LocalsFrame, BatchFrame DEF locals, step, queues
<1>3. CASE BgSaved
  BY <1>0, <1>1, <1>2, <1>3, JobTail DEF BgSaved, queues
<1>4. CASE BgCopy
  <2>1. PICK S : bg \in Seq(S)
    BY DEF JobInv
  <2>2. 1 \in 1..Len(bg) /\ bg' = [bg EXCEPT ![1].copied = TRUE]
    BY <1>4, <2>1 DEF BgCopy
  <2>3. bg' \in Seq(S \union {bg'[1]}) /\ Len(bg') = Len(bg)
    <3> DEFINE job == [bg[1] EXCEPT !.copied = TRUE]
    <3>1. bg' = [bg EXCEPT ![1] = job]
      BY <2>2
    <3> HIDE DEF job
    <3> DEFINE c == Len(bg)
               T == S \union {bg'[1]}
    <3>2. bg \in [1..c -> S] /\ c \in Nat
      BY <2>1
    <3> HIDE DEF c
    <3>3. bg' \in [1..c -> T]
      BY <2>2, <3>1, <3>2
    <3> HIDE DEF T
    <3>4. bg' \in Seq(T) /\ Len(bg') = c
      BY <3>2, <3>3, FunctionIsSeq
    <3> QED
      BY <3>4 DEF c, T
  <2>4. \A i \in 1..Len(bg) : bg'[i].s = bg[i].s /\ bg'[i].to = bg[i].to
    BY <2>1, <2>2
  <2>5. JobInv'
    BY <1>0, <2>3, <2>4 DEF JobInv, Stages, queues
  <2> QED
    BY <1>1, <1>2, <2>5
<1> QED
  BY <1>3, <1>4

-----------------------------------------------------------------------------
(* schedule *)

Alive == {"Waiting", "Allocated", "Finished"}

\* A task that is somewhere is alive, and may change its status for another.
LEMMA SomewhereAlive ==
  ASSUME QueueType, Conserved, NEW s \in Seqs,
         \/ Count(waiting, s) # 0 \/ Count(allocated, s) # 0 \/ Count(promoted, s) # 0
         \/ Count(finished, s) # 0 \/ Same(cur, s) = 1
  PROVE  Live(s) = 1
<1>1. NumbersAt(s) /\ Everywhere(s) = Live(s)
  BY Numbers DEF Conserved
<1> QED
  BY <1>1 DEF NumbersAt, Everywhere

\* ... and is still alive then.
LEMMA StaysAlive ==
  ASSUME QueueType, NEW s \in Seqs, Live(s) = 1, NEW v \in Alive,
         status' = [status EXCEPT ![s] = v]
  PROVE  status' \in [Seqs -> Statuses] /\ \A t \in Seqs : Live(t)' = Live(t)
BY DEF QueueType, Live, Statuses, Alive

\* A step that moves tasks from one place to another.
LEMMA Moved ==
  ASSUME Conserved, \A t \in Seqs : Everywhere(t)' = Everywhere(t),
         \A t \in Seqs : Live(t)' = Live(t)
  PROVE  Conserved'
BY DEF Conserved

\* The steps that begin and end schedule.
LEMMA StartIterStep ==
  ASSUME QInv, StartIter \/ DispatchDone
  PROVE  QInv'
<1> USE DEF QInv
<1>0. UNCHANGED <<status, queues, bg, locals, step, finished>>
  BY DEF StartIter, DispatchDone
<1>1. QueueType' /\ Conserved'
  BY <1>0 DEF QueueType, Conserved, Everywhere, Live, Pended, locals, queues
<1>2. LocalsInv'
  BY <1>0 DEF StartIter, DispatchDone, LocalsInv, locals
<1>3. BatchInv'
  BY <1>0 DEF StartIter, DispatchDone, BatchInv, locals, step, queues
<1>4. JobInv'
  BY <1>0, JobFrame DEF queues
<1> QED
  BY <1>1, <1>2, <1>3, <1>4

\* Extend loop: the task at the front is kept, ...
LEMMA ExtendFrontStep ==
  ASSUME QInv, ExtendFront
  PROVE  QInv'
<1> USE DEF QInv
<1> DEFINE s == Head(allocated)
<1>0. /\ pc = "extend" /\ allocated # <<>>
      /\ kept' = Append(kept, s) /\ allocated' = Tail(allocated)
      /\ UNCHANGED <<status, waiting, pending, bg, pc, cur, promoted, nextWaiting, finished>>
  BY DEF ExtendFront
<1>u. UNCHANGED <<waiting, promoted, nextWaiting, finished, pending, cur>>
  BY <1>0
<1>1. /\ s \in Seqs /\ allocated' \in Seq(Seqs)
      /\ \A t : Count(allocated, t) = Same(s, t) + Count(allocated', t)
  BY <1>0, CountTail DEF QueueType
<1> HIDE DEF s
<1>2. kept' \in Seq(Seqs) /\ \A t : Count(kept', t) = Count(kept, t) + Same(s, t)
  BY <1>0, <1>1, CountAppend DEF QueueType
<1>3. QueueType'
  BY <1>0, <1>1, <1>2 DEF QueueType
<1>4. ASSUME NEW t \in Seqs PROVE Everywhere(t)' = Everywhere(t) /\ Live(t)' = Live(t)
  <2> DEFINE w == Count(waiting, t)   a == Count(allocated, t)   k == Count(kept, t)
             p == Count(promoted, t)   n == Count(nextWaiting, t)   f == Count(finished, t)
             d == Pended(t)   c == Same(cur, t)   a1 == Count(allocated, t)'
             k1 == Count(kept, t)'   x == Same(s, t)
  <2>1. NumbersAt(t) /\ x \in {0, 1}
    BY Numbers, SameNat
  <2>2. a = x + a1 /\ k1 = k + x /\ a1 \in Nat
    BY <1>1, <1>2, CountNat
  <2>3. /\ Everywhere(t) = w + a + k + p + n + f + d + c
        /\ Everywhere(t)' = w + a1 + k1 + p + n + f + d + c
    BY <1>u DEF Everywhere, Pended
  <2>4. /\ w \in Nat /\ a \in Nat /\ k \in Nat /\ p \in Nat /\ n \in Nat /\ f \in Nat
        /\ d \in Nat /\ c \in Nat /\ x \in Nat
    BY <2>1 DEF NumbersAt
  <2>5. a1 \in Int /\ k1 \in Int
    BY <2>2, <2>4
  <2> HIDE DEF w, a, k, p, n, f, d, c, a1, k1, x
  <2>6. Everywhere(t)' = Everywhere(t)
    BY ONLY <2>2, <2>3, <2>4, <2>5
  <2> QED
    BY <1>0, <2>6 DEF Live
<1>5. LocalsInv' /\ BatchInv' /\ JobInv'
  BY <1>0, LocalsFrame, JobFrame DEF BatchInv
<1> QED
  BY <1>3, <1>4, <1>5, Moved

\* ... the one at the back is preempted, ...
LEMMA PreemptBackStep ==
  ASSUME QInv, PreemptBack
  PROVE  QInv'
<1> USE DEF QInv
<1> DEFINE s == Last(allocated)
<1>0. /\ pc = "extend" /\ allocated # <<>>
      /\ status' = [status EXCEPT ![s] = "Waiting"]
      /\ waiting' = insert_sorted_by(waiting, s) /\ allocated' = Front(allocated)
      /\ UNCHANGED <<pending, bg, pc, locals, step, finished>>
  BY DEF PreemptBack, QueueType
<1>u. UNCHANGED <<kept, promoted, nextWaiting, finished, pending, cur>>
  BY <1>0 DEF locals, queues
<1>1. /\ s \in Seqs /\ allocated' \in Seq(Seqs)
      /\ \A t : Count(allocated, t) = Count(allocated', t) + Same(s, t)
  BY <1>0, CountFront DEF QueueType
<1> HIDE DEF s
<1>2. waiting' \in Seq(Seqs) /\ \A t : Count(waiting', t) = Count(waiting, t) + Same(s, t)
  BY <1>0, <1>1, InsertSorted DEF QueueType
<1>3. Live(s) = 1
  <2>1. Count(allocated', s) \in Nat /\ Same(s, s) = 1
    BY <1>1, CountNat DEF Same
  <2>2. Count(allocated, s) # 0
    BY <1>1, <2>1
  <2> QED
    BY <1>1, <2>2, SomewhereAlive
<1>4. status' \in [Seqs -> Statuses] /\ \A t \in Seqs : Live(t)' = Live(t)
  BY <1>0, <1>1, <1>3, StaysAlive DEF Alive
<1>5. QueueType'
  BY <1>0, <1>1, <1>2, <1>4 DEF QueueType, locals
<1>6. ASSUME NEW t \in Seqs PROVE Everywhere(t)' = Everywhere(t)
  <2> DEFINE w == Count(waiting, t)   a == Count(allocated, t)   k == Count(kept, t)
             p == Count(promoted, t)   n == Count(nextWaiting, t)   f == Count(finished, t)
             d == Pended(t)   c == Same(cur, t)   a1 == Count(allocated, t)'
             w1 == Count(waiting, t)'   x == Same(s, t)
  <2>1. NumbersAt(t) /\ x \in {0, 1}
    BY Numbers, SameNat
  <2>2. a = a1 + x /\ w1 = w + x /\ a1 \in Nat
    BY <1>1, <1>2, CountNat
  <2>3. /\ Everywhere(t) = w + a + k + p + n + f + d + c
        /\ Everywhere(t)' = w1 + a1 + k + p + n + f + d + c
    BY <1>u DEF Everywhere, Pended
  <2>4. /\ w \in Nat /\ a \in Nat /\ k \in Nat /\ p \in Nat /\ n \in Nat /\ f \in Nat
        /\ d \in Nat /\ c \in Nat /\ x \in Nat
    BY <2>1 DEF NumbersAt
  <2>5. a1 \in Int /\ w1 \in Int
    BY <2>2, <2>4
  <2> HIDE DEF w, a, k, p, n, f, d, c, a1, w1, x
  <2>6. Everywhere(t)' = Everywhere(t)
    BY ONLY <2>2, <2>3, <2>4, <2>5
  <2> QED
    BY <2>6
<1>7. LocalsInv' /\ BatchInv' /\ JobInv'
  BY <1>0, LocalsFrame, JobFrame DEF BatchInv, locals
<1> QED
  BY <1>4, <1>5, <1>6, <1>7, Moved

\* ... or the last one goes back to waiting, and the kept tasks are the
\* allocated ones.
LEMMA YieldFrontStep ==
  ASSUME QInv, YieldFront
  PROVE  QInv'
<1> USE DEF QInv
<1> DEFINE s == Head(allocated)
<1>0. /\ pc = "extend" /\ Len(allocated) = 1
      /\ waiting' = insert_sorted_by(waiting, s)
      /\ allocated' = kept /\ kept' = <<>> /\ pc' = "admit"
      /\ UNCHANGED <<status, pending, bg, cur, promoted, nextWaiting, finished>>
  BY DEF YieldFront
<1>u. UNCHANGED <<promoted, nextWaiting, finished, pending, cur>>
  BY <1>0
<1>1. s \in Seqs /\ \A t : Count(allocated, t) = Same(s, t) + Count(Tail(allocated), t)
  <2>1. allocated # <<>>
    BY <1>0
  <2> QED
    BY <2>1, CountTail DEF QueueType
<1>2. ASSUME NEW t PROVE Count(Tail(allocated), t) = 0
  <2> DEFINE rest == Tail(allocated)
  <2>1. rest \in Seq(Seqs) /\ Len(rest) = 0
    <3>1. allocated \in Seq(Seqs) /\ Len(allocated) = 1
      BY <1>0 DEF QueueType
    <3> QED
      BY ONLY <3>1
  <2> HIDE DEF rest
  <2>2. t \notin Elems(rest)
    BY <2>1 DEF Elems
  <2>3. Count(rest, t) = 0
    BY <2>1, <2>2, CountZero
  <2> QED
    BY <2>3 DEF rest
<1> HIDE DEF s
<1>3. waiting' \in Seq(Seqs) /\ \A t : Count(waiting', t) = Count(waiting, t) + Same(s, t)
  BY <1>0, <1>1, InsertSorted DEF QueueType
<1>4. QueueType'
  BY <1>0, <1>3 DEF QueueType
<1>5. ASSUME NEW t \in Seqs PROVE Everywhere(t)' = Everywhere(t) /\ Live(t)' = Live(t)
  <2> DEFINE w == Count(waiting, t)   a == Count(allocated, t)   k == Count(kept, t)
             p == Count(promoted, t)   n == Count(nextWaiting, t)   f == Count(finished, t)
             d == Pended(t)   c == Same(cur, t)   w1 == Count(waiting, t)'
             a1 == Count(allocated, t)'   k1 == Count(kept, t)'   x == Same(s, t)
  <2>1. NumbersAt(t) /\ x \in {0, 1}
    BY Numbers, SameNat
  <2>2. w1 = w + x /\ a = x + 0 /\ k1 = 0 /\ a1 = k
    BY <1>0, <1>1, <1>2, <1>3, CountOne
  <2>3. /\ Everywhere(t) = w + a + k + p + n + f + d + c
        /\ Everywhere(t)' = w1 + a1 + k1 + p + n + f + d + c
    BY <1>u DEF Everywhere, Pended
  <2>4. /\ w \in Nat /\ a \in Nat /\ k \in Nat /\ p \in Nat /\ n \in Nat /\ f \in Nat
        /\ d \in Nat /\ c \in Nat /\ x \in Nat
    BY <2>1 DEF NumbersAt
  <2>5. w1 \in Int /\ a1 \in Int /\ k1 \in Int
    BY <2>2, <2>4
  <2> HIDE DEF w, a, k, p, n, f, d, c, w1, a1, k1, x
  <2>6. Everywhere(t)' = Everywhere(t)
    BY ONLY <2>2, <2>3, <2>4, <2>5
  <2> QED
    BY <1>0, <2>6 DEF Live
<1>6. LocalsInv' /\ BatchInv' /\ JobInv'
  BY <1>0, JobFrame DEF BatchInv, LocalsInv
<1> QED
  BY <1>4, <1>5, <1>6, Moved

\* The extend loop ends.
LEMMA ExtendDoneStep ==
  ASSUME QInv, ExtendDone
  PROVE  QInv'
<1> USE DEF QInv
<1>0. /\ pc = "extend" /\ allocated = <<>>
      /\ allocated' = kept /\ kept' = <<>> /\ pc' = "admit"
      /\ UNCHANGED <<status, waiting, pending, bg, cur, promoted, nextWaiting, finished>>
  BY DEF ExtendDone
<1>u. UNCHANGED <<waiting, promoted, nextWaiting, finished, pending, cur>>
  BY <1>0
<1>1. QueueType'
  BY <1>0 DEF QueueType
<1>2. ASSUME NEW t \in Seqs PROVE Everywhere(t)' = Everywhere(t) /\ Live(t)' = Live(t)
  <2> DEFINE w == Count(waiting, t)   a == Count(allocated, t)   k == Count(kept, t)
             p == Count(promoted, t)   n == Count(nextWaiting, t)   f == Count(finished, t)
             d == Pended(t)   c == Same(cur, t)   a1 == Count(allocated, t)'
             k1 == Count(kept, t)'
  <2>1. NumbersAt(t)
    BY Numbers
  <2>2. a = 0 /\ k1 = 0 /\ a1 = k
    BY <1>0, CountOne
  <2>3. /\ Everywhere(t) = w + a + k + p + n + f + d + c
        /\ Everywhere(t)' = w + a1 + k1 + p + n + f + d + c
    BY <1>u DEF Everywhere, Pended
  <2>4. /\ w \in Nat /\ a \in Nat /\ k \in Nat /\ p \in Nat /\ n \in Nat /\ f \in Nat
        /\ d \in Nat /\ c \in Nat
    BY <2>1 DEF NumbersAt
  <2>5. a1 \in Int /\ k1 \in Int
    BY <2>2, <2>4
  <2> HIDE DEF w, a, k, p, n, f, d, c, a1, k1
  <2>6. Everywhere(t)' = Everywhere(t)
    BY ONLY <2>2, <2>3, <2>4, <2>5
  <2> QED
    BY <1>0, <2>6 DEF Live
<1>3. LocalsInv' /\ BatchInv' /\ JobInv'
  BY <1>0, JobFrame DEF BatchInv, LocalsInv
<1> QED
  BY <1>1, <1>2, <1>3, Moved

\* Admission, in order of arrival or with reordering: the task goes from the
\* front of waiting to allocated.
LEMMA AdmitStep ==
  ASSUME QInv, AdmitFront \/ ReorderAdmit
  PROVE  QInv'
<1> USE DEF QInv
<1> DEFINE s == Head(waiting)
<1>0. /\ pc = "admit" /\ waiting # <<>>
      /\ status' = [status EXCEPT ![s] = "Allocated"]
      /\ allocated' = Append(allocated, s) \/ allocated' = insert_sorted_by(allocated, s)
      /\ waiting' = Tail(waiting)
      /\ pc' \in {"panicked", "admit"}
      /\ UNCHANGED <<pending, bg, locals, step, finished>>
  BY DEF AdmitFront, ReorderAdmit, Admit
<1>u. UNCHANGED <<kept, promoted, nextWaiting, finished, pending, cur>>
  BY <1>0 DEF locals, queues
<1>1. /\ s \in Seqs /\ waiting' \in Seq(Seqs)
      /\ \A t : Count(waiting, t) = Same(s, t) + Count(waiting', t)
  BY <1>0, CountTail DEF QueueType
<1> HIDE DEF s
<1>2. allocated' \in Seq(Seqs) /\ \A t : Count(allocated', t) = Count(allocated, t) + Same(s, t)
  <2>1. CASE allocated' = Append(allocated, s)
    BY <1>1, <2>1, CountAppend DEF QueueType
  <2>2. CASE allocated' = insert_sorted_by(allocated, s)
    BY <1>1, <2>2, InsertSorted DEF QueueType
  <2> QED
    BY <1>0, <2>1, <2>2
<1>3. Live(s) = 1
  <2>1. Count(waiting', s) \in Nat /\ Same(s, s) = 1
    BY <1>1, CountNat DEF Same
  <2>2. Count(waiting, s) # 0
    BY <1>1, <2>1
  <2> QED
    BY <1>1, <2>2, SomewhereAlive
<1>4. status' \in [Seqs -> Statuses] /\ \A t \in Seqs : Live(t)' = Live(t)
  BY <1>0, <1>1, <1>3, StaysAlive DEF Alive
<1>5. QueueType'
  BY <1>0, <1>1, <1>2, <1>4 DEF QueueType, locals
<1>6. ASSUME NEW t \in Seqs PROVE Everywhere(t)' = Everywhere(t)
  <2> DEFINE w == Count(waiting, t)   a == Count(allocated, t)   k == Count(kept, t)
             p == Count(promoted, t)   n == Count(nextWaiting, t)   f == Count(finished, t)
             d == Pended(t)   c == Same(cur, t)   w1 == Count(waiting, t)'
             a1 == Count(allocated, t)'   x == Same(s, t)
  <2>1. NumbersAt(t) /\ x \in {0, 1}
    BY Numbers, SameNat
  <2>2. w = x + w1 /\ a1 = a + x /\ w1 \in Nat
    BY <1>1, <1>2, CountNat
  <2>3. /\ Everywhere(t) = w + a + k + p + n + f + d + c
        /\ Everywhere(t)' = w1 + a1 + k + p + n + f + d + c
    BY <1>u DEF Everywhere, Pended
  <2>4. /\ w \in Nat /\ a \in Nat /\ k \in Nat /\ p \in Nat /\ n \in Nat /\ f \in Nat
        /\ d \in Nat /\ c \in Nat /\ x \in Nat
    BY <2>1 DEF NumbersAt
  <2>5. w1 \in Int /\ a1 \in Int
    BY <2>2, <2>4
  <2> HIDE DEF w, a, k, p, n, f, d, c, w1, a1, x
  <2>6. Everywhere(t)' = Everywhere(t)
    BY ONLY <2>2, <2>3, <2>4, <2>5
  <2> QED
    BY <2>6
<1>7. LocalsInv' /\ BatchInv' /\ JobInv'
  BY <1>0, JobFrame DEF BatchInv, LocalsInv, locals
<1> QED
  BY <1>4, <1>5, <1>6, <1>7, Moved

\* Admission is over: an empty batch belongs to nobody.
LEMMA AdmitDoneStep ==
  ASSUME QInv, AdmitDone
  PROVE  QInv'
<1> USE DEF QInv
<1>0. /\ pc = "admit" /\ pc' = "dispatch" /\ idx' = 1 /\ batch' = <<>>
      /\ UNCHANGED <<status, queues, bg, kept, cur, promoted, nextWaiting, finished>>
  BY DEF AdmitDone, StartDispatch
<1>1. QueueType' /\ Conserved'
  BY <1>0 DEF QueueType, Conserved, Everywhere, Live, Pended, queues
<1>2. LocalsInv'
  BY <1>0 DEF LocalsInv
<1>3. BatchInv'
  <2>1. batch' \in Seq({}) /\ Len(batch') = 0
    BY <1>0
  <2> QED
    BY <1>0, <2>1 DEF BatchInv
<1>4. JobInv'
  BY <1>0, JobFrame DEF queues
<1> QED
  BY <1>1, <1>2, <1>3, <1>4

\* The reorder loop ends: the deferred tasks wait.
LEMMA ReorderDoneStep ==
  ASSUME QInv, ReorderDone
  PROVE  QInv'
<1> USE DEF QInv
<1>0. /\ pc = "admit" /\ pc' = "dispatch" /\ idx' = 1 /\ batch' = <<>>
      /\ waiting = <<>> /\ waiting' = nextWaiting /\ nextWaiting' = <<>>
      /\ UNCHANGED <<status, allocated, pending, bg, kept, cur, promoted, finished>>
  BY DEF ReorderDone, StartDispatch
<1>u. UNCHANGED <<allocated, kept, promoted, finished, pending, cur>>
  BY <1>0
<1>1. QueueType'
  BY <1>0 DEF QueueType
<1>2. ASSUME NEW t \in Seqs PROVE Everywhere(t)' = Everywhere(t) /\ Live(t)' = Live(t)
  <2> DEFINE w == Count(waiting, t)   a == Count(allocated, t)   k == Count(kept, t)
             p == Count(promoted, t)   n == Count(nextWaiting, t)   f == Count(finished, t)
             d == Pended(t)   c == Same(cur, t)   w1 == Count(waiting, t)'
             n1 == Count(nextWaiting, t)'
  <2>1. NumbersAt(t)
    BY Numbers
  <2>2. w = 0 /\ n1 = 0 /\ w1 = n
    BY <1>0, CountOne
  <2>3. /\ Everywhere(t) = w + a + k + p + n + f + d + c
        /\ Everywhere(t)' = w1 + a + k + p + n1 + f + d + c
    BY <1>u DEF Everywhere, Pended
  <2>4. /\ w \in Nat /\ a \in Nat /\ k \in Nat /\ p \in Nat /\ n \in Nat /\ f \in Nat
        /\ d \in Nat /\ c \in Nat
    BY <2>1 DEF NumbersAt
  <2>5. w1 \in Int /\ n1 \in Int
    BY <2>2, <2>4
  <2> HIDE DEF w, a, k, p, n, f, d, c, w1, n1
  <2>6. Everywhere(t)' = Everywhere(t)
    BY ONLY <2>2, <2>3, <2>4, <2>5
  <2> QED
    BY <1>0, <2>6 DEF Live
<1>3. LocalsInv' /\ JobInv'
  BY <1>0, JobFrame DEF LocalsInv
<1>4. BatchInv'
  <2>1. batch' \in Seq({}) /\ Len(batch') = 0
    BY <1>0
  <2> QED
    BY <1>0, <2>1 DEF BatchInv
<1> QED
  BY <1>1, <1>2, <1>3, <1>4, Moved

\* Reordering: a task that does not fit is put off ...
LEMMA ReorderDeferStep ==
  ASSUME QInv, ReorderDefer
  PROVE  QInv'
<1> USE DEF QInv
<1> DEFINE s == Head(waiting)
<1>0. /\ pc = "admit" /\ waiting # <<>>
      /\ nextWaiting' = Append(nextWaiting, s) /\ waiting' = Tail(waiting)
      /\ UNCHANGED <<status, allocated, pending, bg, pc, kept, cur, promoted, finished>>
  BY DEF ReorderDefer
<1>u. UNCHANGED <<allocated, kept, promoted, finished, pending, cur>>
  BY <1>0
<1>1. /\ s \in Seqs /\ waiting' \in Seq(Seqs)
      /\ \A t : Count(waiting, t) = Same(s, t) + Count(waiting', t)
  BY <1>0, CountTail DEF QueueType
<1> HIDE DEF s
<1>2. /\ nextWaiting' \in Seq(Seqs)
      /\ \A t : Count(nextWaiting', t) = Count(nextWaiting, t) + Same(s, t)
  BY <1>0, <1>1, CountAppend DEF QueueType
<1>3. QueueType'
  BY <1>0, <1>1, <1>2 DEF QueueType
<1>4. ASSUME NEW t \in Seqs PROVE Everywhere(t)' = Everywhere(t) /\ Live(t)' = Live(t)
  <2> DEFINE w == Count(waiting, t)   a == Count(allocated, t)   k == Count(kept, t)
             p == Count(promoted, t)   n == Count(nextWaiting, t)   f == Count(finished, t)
             d == Pended(t)   c == Same(cur, t)   w1 == Count(waiting, t)'
             n1 == Count(nextWaiting, t)'   x == Same(s, t)
  <2>1. NumbersAt(t) /\ x \in {0, 1}
    BY Numbers, SameNat
  <2>2. w = x + w1 /\ n1 = n + x /\ w1 \in Nat
    BY <1>1, <1>2, CountNat
  <2>3. /\ Everywhere(t) = w + a + k + p + n + f + d + c
        /\ Everywhere(t)' = w1 + a + k + p + n1 + f + d + c
    BY <1>u DEF Everywhere, Pended
  <2>4. /\ w \in Nat /\ a \in Nat /\ k \in Nat /\ p \in Nat /\ n \in Nat /\ f \in Nat
        /\ d \in Nat /\ c \in Nat /\ x \in Nat
    BY <2>1 DEF NumbersAt
  <2>5. w1 \in Int /\ n1 \in Int
    BY <2>2, <2>4
  <2> HIDE DEF w, a, k, p, n, f, d, c, w1, n1, x
  <2>6. Everywhere(t)' = Everywhere(t)
    BY ONLY <2>2, <2>3, <2>4, <2>5
  <2> QED
    BY <1>0, <2>6 DEF Live
<1>5. LocalsInv' /\ BatchInv' /\ JobInv'
  BY <1>0, LocalsFrame, JobFrame DEF BatchInv
<1> QED
  BY <1>3, <1>4, <1>5, Moved

\* ... or becomes the current one, the allocated tasks that arrived after it
\* being promoted ...
LEMMA ReorderReclaimStep ==
  ASSUME QInv, ReorderReclaim
  PROVE  QInv'
<1> USE DEF QInv
<1> DEFINE s == Head(waiting)
           cut == LastOlder(s)
<1>0. /\ pc = "admit" /\ waiting # <<>> /\ pc' = "reclaim"
      /\ cur' = s /\ waiting' = Tail(waiting)
      /\ promoted' = SubSeq(allocated, cut + 1, Len(allocated))
      /\ allocated' = SubSeq(allocated, 1, cut)
      /\ UNCHANGED <<status, pending, bg, kept, nextWaiting, finished>>
  BY DEF ReorderReclaim, Promoted
<1>u. UNCHANGED <<kept, nextWaiting, finished, pending>>
  BY <1>0
<1>1. /\ s \in Seqs /\ waiting' \in Seq(Seqs)
      /\ \A t : Count(waiting, t) = Same(s, t) + Count(waiting', t)
  BY <1>0, CountTail DEF QueueType
<1> HIDE DEF s
<1>2. cut \in 0..Len(allocated)
  BY <1>1, LastOlderBound DEF QueueType
<1> HIDE DEF cut
<1>3. /\ allocated' \in Seq(Seqs) /\ promoted' \in Seq(Seqs)
      /\ \A t : Count(allocated, t) = Count(allocated', t) + Count(promoted', t)
  BY <1>0, <1>2, CountCut DEF QueueType
<1>4. QueueType'
  BY <1>0, <1>1, <1>3 DEF QueueType
<1>5. ASSUME NEW t \in Seqs PROVE Everywhere(t)' = Everywhere(t) /\ Live(t)' = Live(t)
  <2> DEFINE w == Count(waiting, t)   a == Count(allocated, t)   k == Count(kept, t)
             p == Count(promoted, t)   n == Count(nextWaiting, t)   f == Count(finished, t)
             d == Pended(t)   c == Same(cur, t)   w1 == Count(waiting, t)'
             a1 == Count(allocated, t)'   p1 == Count(promoted, t)'   c1 == Same(cur, t)'
             x == Same(s, t)
  <2>1. NumbersAt(t) /\ x \in {0, 1}
    BY Numbers, SameNat
  <2>2. w = x + w1 /\ w1 \in Nat /\ a = a1 + p1 /\ a1 \in Nat /\ p1 \in Nat /\ p = 0 /\ c = 0 /\ c1 = x
    BY <1>0, <1>1, <1>3, <2>1, CountNat DEF LocalsInv, NumbersAt
  <2>3. /\ Everywhere(t) = w + a + k + p + n + f + d + c
        /\ Everywhere(t)' = w1 + a1 + k + p1 + n + f + d + c1
    BY <1>u DEF Everywhere, Pended
  <2>4. /\ w \in Nat /\ a \in Nat /\ k \in Nat /\ p \in Nat /\ n \in Nat /\ f \in Nat
        /\ d \in Nat /\ c \in Nat /\ x \in Nat
    BY <2>1 DEF NumbersAt
  <2>5. w1 \in Int /\ a1 \in Int /\ p1 \in Int /\ c1 \in Int
    BY <2>2, <2>4
  <2> HIDE DEF w, a, k, p, n, f, d, c, w1, a1, p1, c1, x
  <2>6. Everywhere(t)' = Everywhere(t)
    BY ONLY <2>2, <2>3, <2>4, <2>5
  <2> QED
    BY <1>0, <2>6 DEF Live
<1>6. LocalsInv' /\ BatchInv' /\ JobInv'
  BY <1>0, <1>1, JobFrame DEF BatchInv, LocalsInv
<1> QED
  BY <1>4, <1>5, <1>6, Moved

\* ... and preempted, newest first, until it fits ...
LEMMA ReclaimOneStep ==
  ASSUME QInv, ReclaimOne
  PROVE  QInv'
<1> USE DEF QInv
<1> DEFINE s == Last(promoted)
           rest == Front(promoted)
<1>0. /\ pc = "reclaim" /\ promoted # <<>> /\ cur \in Seqs
      /\ waiting' = insert_sorted_by(waiting, s)
      /\ UNCHANGED <<pending, bg, kept, nextWaiting, finished>>
  BY DEF ReclaimOne, LocalsInv
<1>u. UNCHANGED <<kept, nextWaiting, finished, pending>>
  BY <1>0
<1>1. \/ /\ status' = [status EXCEPT ![s] = "Waiting", ![cur] = "Allocated"]
         /\ allocated' = (allocated \o <<cur>>) \o rest
         /\ cur' = NoTask /\ promoted' = <<>> /\ pc' \in {"panicked", "admit"}
      \/ /\ status' = [status EXCEPT ![s] = "Waiting"]
         /\ promoted' = rest
         /\ UNCHANGED <<pc, allocated, cur>>
  BY DEF ReclaimOne, Admit
<1>2. /\ s \in Seqs /\ rest \in Seq(Seqs)
      /\ \A t : Count(promoted, t) = Count(rest, t) + Same(s, t)
  BY <1>0, CountFront DEF QueueType
<1> HIDE DEF s, rest
<1>3. waiting' \in Seq(Seqs) /\ \A t : Count(waiting', t) = Count(waiting, t) + Same(s, t)
  BY <1>0, <1>2, InsertSorted DEF QueueType
<1>4. Live(s) = 1 /\ Live(cur) = 1
  <2>1. Count(rest, s) \in Nat /\ Same(s, s) = 1 /\ Same(cur, cur) = 1
    BY <1>2, CountNat DEF Same
  <2>2. Count(promoted, s) # 0
    BY <1>2, <2>1
  <2> QED
    BY <1>0, <1>2, <2>1, <2>2, SomewhereAlive
<1>5. /\ status' \in [Seqs -> Statuses]
      /\ \A t \in Seqs : Live(t)' = Live(t)
  BY <1>0, <1>1, <1>2, <1>4 DEF QueueType, Live, Statuses
<1>6. CASE promoted' = rest /\ UNCHANGED <<pc, allocated, cur>>
  <2>1. QueueType'
    BY <1>0, <1>2, <1>3, <1>5, <1>6 DEF QueueType
  <2>2. ASSUME NEW t \in Seqs PROVE Everywhere(t)' = Everywhere(t)
    <3> DEFINE w == Count(waiting, t)   a == Count(allocated, t)   k == Count(kept, t)
               p == Count(promoted, t)   n == Count(nextWaiting, t)   f == Count(finished, t)
               d == Pended(t)   c == Same(cur, t)   w1 == Count(waiting, t)'
               p1 == Count(promoted, t)'   x == Same(s, t)   y == Count(rest, t)
    <3>1. NumbersAt(t) /\ x \in {0, 1} /\ y \in Nat
      BY <1>2, Numbers, SameNat, CountNat
    <3>2. p = y + x /\ w1 = w + x /\ p1 = y
      BY <1>2, <1>3, <1>6
    <3>3. /\ Everywhere(t) = w + a + k + p + n + f + d + c
          /\ Everywhere(t)' = w1 + a + k + p1 + n + f + d + c
      BY <1>u, <1>6 DEF Everywhere, Pended
    <3>4. /\ w \in Nat /\ a \in Nat /\ k \in Nat /\ p \in Nat /\ n \in Nat /\ f \in Nat
          /\ d \in Nat /\ c \in Nat /\ x \in Nat /\ y \in Nat
      BY <3>1 DEF NumbersAt
    <3>5. w1 \in Int /\ p1 \in Int
      BY <3>2, <3>4
    <3> HIDE DEF w, a, k, p, n, f, d, c, w1, p1, x, y
    <3>6. Everywhere(t)' = Everywhere(t)
      BY ONLY <3>2, <3>3, <3>4, <3>5
    <3> QED
      BY <3>6
  <2>3. LocalsInv' /\ BatchInv' /\ JobInv'
    BY <1>0, <1>6, JobFrame DEF BatchInv, LocalsInv
  <2> QED
    BY <1>5, <2>1, <2>2, <2>3, Moved
<1>7. CASE /\ allocated' = (allocated \o <<cur>>) \o rest
           /\ cur' = NoTask /\ promoted' = <<>> /\ pc' \in {"panicked", "admit"}
  <2> DEFINE first == Append(allocated, cur)
  <2>1. first \in Seq(Seqs) /\ \A t : Count(first, t) = Count(allocated, t) + Same(cur, t)
    BY <1>0, CountAppend DEF QueueType
  <2>2. IsConcat(allocated', first, rest)
    <3>1. first = allocated \o <<cur>>
      <4>1. allocated \in Seq(Seqs) /\ cur \in Seqs
        BY <1>0 DEF QueueType
      <4> QED
        BY <4>1
    <3> QED
      BY <1>7, <3>1 DEF IsConcat
  <2> HIDE DEF first
  <2>3. /\ allocated' \in Seq(Seqs)
        /\ \A t : Count(allocated', t) = Count(first, t) + Count(rest, t)
    BY <1>2, <2>1, <2>2, CountConcat
  <2>4. QueueType'
    BY <1>0, <1>3, <1>5, <1>7, <2>3 DEF QueueType
  <2>5. ASSUME NEW t \in Seqs PROVE Everywhere(t)' = Everywhere(t)
    <3> DEFINE w == Count(waiting, t)   a == Count(allocated, t)   k == Count(kept, t)
               p == Count(promoted, t)   n == Count(nextWaiting, t)   f == Count(finished, t)
               d == Pended(t)   c == Same(cur, t)   w1 == Count(waiting, t)'
               a1 == Count(allocated, t)'   p1 == Count(promoted, t)'   c1 == Same(cur, t)'
               x == Same(s, t)   y == Count(rest, t)   z == Count(first, t)
    <3>1. NumbersAt(t) /\ x \in {0, 1} /\ y \in Nat /\ z \in Nat
      BY <1>2, <2>1, Numbers, SameNat, CountNat
    <3>2. p = y + x /\ w1 = w + x /\ p1 = 0 /\ c1 = 0 /\ z = a + c /\ a1 = z + y
      BY <1>2, <1>3, <1>7, <2>1, <2>3, <3>1 DEF NumbersAt
    <3>3. /\ Everywhere(t) = w + a + k + p + n + f + d + c
          /\ Everywhere(t)' = w1 + a1 + k + p1 + n + f + d + c1
      BY <1>u DEF Everywhere, Pended
    <3>4. /\ w \in Nat /\ a \in Nat /\ k \in Nat /\ p \in Nat /\ n \in Nat /\ f \in Nat
          /\ d \in Nat /\ c \in Nat /\ x \in Nat /\ y \in Nat /\ z \in Nat
      BY <3>1 DEF NumbersAt
    <3>5. w1 \in Int /\ a1 \in Int /\ p1 \in Int /\ c1 \in Int
      BY <3>2, <3>4
    <3> HIDE DEF w, a, k, p, n, f, d, c, w1, a1, p1, c1, x, y, z
    <3>6. Everywhere(t)' = Everywhere(t)
      BY ONLY <3>2, <3>3, <3>4, <3>5
    <3> QED
      BY <3>6
  <2>6. LocalsInv' /\ BatchInv' /\ JobInv'
    BY <1>0, <1>7, JobFrame DEF BatchInv, LocalsInv
  <2> QED
    BY <1>5, <2>4, <2>5, <2>6, Moved
<1> QED
  BY <1>1, <1>6, <1>7

\* ... or dropped when it never does.
LEMMA ReclaimFailedStep ==
  ASSUME QInv, ReclaimFailed
  PROVE  QInv'
<1> USE DEF QInv
<1>0. /\ pc = "reclaim" /\ pc' = "admit" /\ promoted = <<>> /\ cur \in Seqs /\ cur' = NoTask
      /\ status' = [status EXCEPT ![cur] = "Dropped"]
      /\ UNCHANGED <<queues, bg, kept, promoted, nextWaiting, finished>>
  BY DEF ReclaimFailed, LocalsInv
<1>u. UNCHANGED <<waiting, allocated, kept, promoted, nextWaiting, finished, pending>>
  BY <1>0 DEF queues
<1>1. QueueType'
  BY <1>0, <1>u DEF QueueType, Statuses
<1>2. Live(cur) = 1
  BY <1>0, SomewhereAlive DEF Same
<1>3. ASSUME NEW t \in Seqs PROVE Everywhere(t)' = Live(t)'
  <2> DEFINE w == Count(waiting, t)   a == Count(allocated, t)   k == Count(kept, t)
             p == Count(promoted, t)   n == Count(nextWaiting, t)   f == Count(finished, t)
             d == Pended(t)   c == Same(cur, t)   c1 == Same(cur, t)'
  <2>1. NumbersAt(t)
    BY Numbers
  <2>2. c1 = 0
    BY <1>0, <2>1 DEF NumbersAt
  <2>3. /\ Everywhere(t) = w + a + k + p + n + f + d + c
        /\ Everywhere(t)' = w + a + k + p + n + f + d + c1
    BY <1>u DEF Everywhere, Pended
  <2>4. /\ w \in Nat /\ a \in Nat /\ k \in Nat /\ p \in Nat /\ n \in Nat /\ f \in Nat
        /\ d \in Nat /\ c \in Nat
    BY <2>1 DEF NumbersAt
  <2>5. Live(t)' = IF t = cur THEN 0 ELSE Live(t)
    BY <1>0 DEF Live, QueueType
  <2>6. c = IF t = cur THEN 1 ELSE 0
    BY DEF Same
  <2>7. Everywhere(t) = Live(t)
    BY DEF Conserved
  <2> HIDE DEF w, a, k, p, n, f, d, c, c1
  <2>8. Everywhere(t) = Everywhere(t)' + c
    BY ONLY <2>2, <2>3, <2>4
  <2>9. Everywhere(t)' \in Nat
    BY ONLY <2>2, <2>3, <2>4
  <2>10. CASE t = cur
    <3>1. Everywhere(t) = 1 /\ c = 1 /\ Live(t)' = 0
      BY <1>2, <2>5, <2>6, <2>7, <2>10
    <3> QED
      BY ONLY <2>8, <2>9, <3>1
  <2>11. CASE t # cur
    <3>1. c = 0 /\ Live(t)' = Live(t)
      BY <2>5, <2>6, <2>11
    <3>2. Everywhere(t) = Everywhere(t)'
      BY ONLY <2>8, <2>9, <3>1
    <3> QED
      BY <2>7, <3>1, <3>2
  <2> QED
    BY <2>10, <2>11
<1>4. LocalsInv' /\ BatchInv' /\ JobInv'
  BY <1>0, <1>u, JobFrame DEF BatchInv, LocalsInv
<1> QED
  BY <1>1, <1>3, <1>4 DEF Conserved

-----------------------------------------------------------------------------
(* dispatch, update and the finished tasks *)

\* An input is an allocated task.
LEMMA DispatchOneStep ==
  ASSUME QInv, DispatchOne
  PROVE  QInv'
<1> USE DEF QInv
<1>0. /\ pc = "dispatch" /\ pc' \in {"dispatch", "panicked"} /\ idx' = idx + 1
      /\ ~(idx > Len(allocated))
      /\ UNCHANGED <<status, queues, bg, kept, cur, promoted, nextWaiting, finished>>
  BY DEF DispatchOne, DispatchEnds
<1>a. \E x1, x2, x3, x4 :
          batch' = Append(batch, [s |-> allocated[idx], filled |-> x1, context |-> x2,
                                  chunked |-> x3, ids |-> x4])
  BY ZenonT(40) DEF DispatchOne
<1>1. PICK e : batch' = Append(batch, e) /\ e.s = allocated[idx]
  BY <1>a
<1>2. QueueType' /\ Conserved'
  BY <1>0 DEF QueueType, Conserved, Everywhere, Live, Pended, queues
<1>3. LocalsInv' /\ JobInv'
  BY <1>0, JobFrame DEF LocalsInv, queues
<1>4. BatchInv'
  <2>1. idx \in 1..Len(allocated)
    BY <1>0 DEF BatchInv, QueueType
  <2>2. e.s \in Elems(allocated)
    BY <1>1, <2>1 DEF Elems
  <2>3. PICK S : batch \in Seq(S)
    BY <1>0 DEF BatchInv
  <2>4. batch' \in Seq(S \union {e})
    <3>1. batch \in Seq(S \union {e})
      BY <2>3
    <3> QED
      BY <1>1, <3>1
  <2>5. ASSUME NEW i \in 1..Len(batch') PROVE batch'[i].s \in Elems(allocated)
    <3>1. Len(batch') = Len(batch) + 1 /\ Len(batch) \in Nat
      BY <1>1, <2>3
    <3>2. CASE i = Len(batch) + 1
      BY <1>1, <2>2, <2>3, <3>2
    <3>3. CASE i \in 1..Len(batch)
      <4>1. batch'[i] = batch[i]
        BY <1>1, <2>3, <3>3
      <4> QED
        BY <1>0, <3>3, <4>1 DEF BatchInv
    <3> QED
      BY <3>1, <3>2, <3>3
  <2>6. idx' \in Nat \ {0} /\ allocated' = allocated
    BY <1>0, <2>1 DEF queues
  <2> QED
    BY <2>4, <2>5, <2>6 DEF BatchInv
<1> QED
  BY <1>2, <1>3, <1>4

\* update moves the stopped tasks from allocated to finished.
LEMMA InferDoneStep ==
  ASSUME QInv, NEW eos \in SUBSET Producing, InferDone(eos)
  PROVE  QInv'
<1> USE DEF QInv
<1> DEFINE stopped == {s \in Producing : s \in eos \/ reached_max_len(s)}
<1>0. /\ pc = "infer" /\ pc' = IF finished' = <<>> THEN "idle" ELSE "finish"
      /\ status' = [s \in Seqs |-> IF s \in stopped THEN "Finished" ELSE status[s]]
      /\ finished' = Kept(allocated, stopped) /\ allocated' = Kept(allocated, Seqs \ stopped)
      /\ UNCHANGED <<waiting, pending, bg, locals>>
  BY DEF InferDone
<1>u. UNCHANGED <<waiting, kept, promoted, nextWaiting, pending, cur>>
  BY <1>0 DEF locals
<1>1. stopped \subseteq Elems(allocated)
  BY <1>0 DEF BatchInv, Producing
<1> HIDE DEF stopped
<1>2. ASSUME NEW t \in Seqs PROVE Count(allocated, t) <= 1
  <2> DEFINE w == Count(waiting, t)   a == Count(allocated, t)   k == Count(kept, t)
             p == Count(promoted, t)   n == Count(nextWaiting, t)   f == Count(finished, t)
             d == Pended(t)   c == Same(cur, t)
  <2>1. NumbersAt(t)
    BY Numbers
  <2>2. w + a + k + p + n + f + d + c \in {0, 1}
    BY <2>1 DEF Conserved, NumbersAt, Everywhere
  <2>3. /\ w \in Nat /\ a \in Nat /\ k \in Nat /\ p \in Nat /\ n \in Nat /\ f \in Nat
        /\ d \in Nat /\ c \in Nat
    BY <2>1 DEF NumbersAt
  <2> HIDE DEF w, a, k, p, n, f, d, c
  <2>4. a <= 1
    BY ONLY <2>2, <2>3
  <2> QED
    BY <2>4 DEF a
<1>3. allocated \in Seq(Seqs) /\ NoDup(allocated)
  BY <1>2, NoDupOfCount DEF QueueType
<1>4. /\ finished' \in Seq(Seqs) /\ allocated' \in Seq(Seqs)
      /\ \A t : Count(finished', t) = IF t \in stopped THEN Count(allocated, t) ELSE 0
      /\ \A t : Count(allocated', t) = IF t \in Seqs \ stopped THEN Count(allocated, t) ELSE 0
  BY <1>0, <1>3, CountKept
<1>5. QueueType'
  BY <1>0, <1>u, <1>4 DEF QueueType, Statuses
<1>6. ASSUME NEW t \in Seqs PROVE Everywhere(t)' = Everywhere(t)
  <2> DEFINE w == Count(waiting, t)   a == Count(allocated, t)   k == Count(kept, t)
             p == Count(promoted, t)   n == Count(nextWaiting, t)   f == Count(finished, t)
             d == Pended(t)   c == Same(cur, t)   a1 == Count(allocated, t)'
             f1 == Count(finished, t)'
  <2>1. NumbersAt(t)
    BY Numbers
  <2>2. f = 0
    BY <1>0, <2>1 DEF LocalsInv, NumbersAt
  <2>3. /\ f1 = IF t \in stopped THEN a ELSE 0
        /\ a1 = IF t \in Seqs \ stopped THEN a ELSE 0
    BY <1>4
  <2>4. /\ Everywhere(t) = w + a + k + p + n + f + d + c
        /\ Everywhere(t)' = w + a1 + k + p + n + f1 + d + c
    BY <1>u DEF Everywhere, Pended
  <2>5. /\ w \in Nat /\ a \in Nat /\ k \in Nat /\ p \in Nat /\ n \in Nat /\ f \in Nat
        /\ d \in Nat /\ c \in Nat
    BY <2>1 DEF NumbersAt
  <2> HIDE DEF w, a, k, p, n, f, d, c, a1, f1
  <2>6. a1 + f1 = a /\ a1 \in Nat /\ f1 \in Nat
    BY <2>3, <2>5
  <2> QED
    BY ONLY <2>2, <2>4, <2>5, <2>6
<1>7. ASSUME NEW t \in Seqs PROVE Live(t)' = Live(t)
  <2>1. CASE t \in stopped
    <3>1. Count(allocated, t) = 1
      BY <1>1, <1>3, <2>1, CountNoDup
    <3>2. Live(t) = 1
      BY <3>1, SomewhereAlive
    <3> QED
      BY <1>0, <2>1, <3>2 DEF Live
  <2>2. CASE t \notin stopped
    BY <1>0, <2>2 DEF Live, QueueType
  <2> QED
    BY <2>1, <2>2
<1>8. LocalsInv' /\ BatchInv' /\ JobInv'
  BY <1>0, <1>u, JobFrame DEF LocalsInv, BatchInv
<1> QED
  BY <1>5, <1>6, <1>7, <1>8, Moved

\* One finished task is removed; its backup is not a stage.
LEMMA FinishTaskStep ==
  ASSUME QInv, FinishTask
  PROVE  QInv'
<1> USE DEF QInv
<1> DEFINE s == Head(finished)
<1>0. /\ pc = "finish" /\ pc' = IF Tail(finished) = <<>> THEN "idle" ELSE "finish"
      /\ finished' = Tail(finished) /\ finished # <<>>
      /\ status' = [status EXCEPT ![s] = "Done"]
      /\ UNCHANGED <<queues, locals>>
  BY DEF FinishTask, LocalsInv
<1>j. bg' = bg \/ \E m : bg' = Append(bg, [s |-> s, from |-> "host", to |-> "disk",
                                           copied |-> FALSE, map |-> m])
  BY Zenon DEF FinishTask
<1>u. UNCHANGED <<waiting, allocated, kept, promoted, nextWaiting, pending, cur>>
  BY <1>0 DEF queues, locals
<1>1. /\ s \in Seqs /\ finished' \in Seq(Seqs)
      /\ \A t : Count(finished, t) = Same(s, t) + Count(finished', t)
  BY <1>0, CountTail DEF QueueType
<1> HIDE DEF s
<1>2. QueueType'
  BY <1>0, <1>u, <1>1 DEF QueueType, Statuses
<1>3. Live(s) = 1
  <2>1. Count(finished', s) \in Nat /\ Same(s, s) = 1
    BY <1>1, CountNat DEF Same
  <2>2. Count(finished, s) # 0
    BY <1>1, <2>1
  <2> QED
    BY <1>1, <2>2, SomewhereAlive
<1>4. ASSUME NEW t \in Seqs PROVE Everywhere(t)' = Live(t)'
  <2> DEFINE w == Count(waiting, t)   a == Count(allocated, t)   k == Count(kept, t)
             p == Count(promoted, t)   n == Count(nextWaiting, t)   f == Count(finished, t)
             d == Pended(t)   c == Same(cur, t)   f1 == Count(finished, t)'   x == Same(s, t)
  <2>1. NumbersAt(t) /\ x = IF t = s THEN 1 ELSE 0
    BY Numbers DEF Same
  <2>2. f = x + f1 /\ f1 \in Nat
    BY <1>1, CountNat
  <2>3. /\ Everywhere(t) = w + a + k + p + n + f + d + c
        /\ Everywhere(t)' = w + a + k + p + n + f1 + d + c
    BY <1>u DEF Everywhere, Pended
  <2>4. /\ w \in Nat /\ a \in Nat /\ k \in Nat /\ p \in Nat /\ n \in Nat /\ f \in Nat
        /\ d \in Nat /\ c \in Nat /\ x \in Nat
    BY <2>1 DEF NumbersAt
  <2>5. Live(t)' = IF t = s THEN 0 ELSE Live(t)
    BY <1>0 DEF Live, QueueType
  <2>6. Everywhere(t) = Live(t)
    BY DEF Conserved
  <2> HIDE DEF w, a, k, p, n, f, d, c, f1, x
  <2>7. Everywhere(t) = Everywhere(t)' + x /\ Everywhere(t)' \in Nat
    BY ONLY <2>2, <2>3, <2>4
  <2>8. CASE t = s
    <3>1. Everywhere(t) = 1 /\ x = 1 /\ Live(t)' = 0
      BY <1>3, <2>1, <2>5, <2>6, <2>8
    <3> QED
      BY ONLY <2>7, <3>1
  <2>9. CASE t # s
    <3>1. x = 0 /\ Live(t)' = Live(t)
      BY <2>1, <2>5, <2>9
    <3>2. Everywhere(t) = Everywhere(t)'
      BY ONLY <2>7, <3>1
    <3> QED
      BY <2>6, <3>1, <3>2
  <2> QED
    BY <2>8, <2>9
<1>5. LocalsInv' /\ BatchInv'
  BY <1>0, <1>u DEF LocalsInv, BatchInv
<1>6. JobInv'
  <2>1. CASE bg' = bg
    BY <1>u, <2>1, JobFrame
  <2>2. CASE bg' # bg
    <3>1. PICK m : bg' = Append(bg, [s |-> s, from |-> "host", to |-> "disk",
                                     copied |-> FALSE, map |-> m])
      BY <1>j, <2>2
    <3> DEFINE job == [s |-> s, from |-> "host", to |-> "disk", copied |-> FALSE, map |-> m]
    <3>2. bg' = Append(bg, job) /\ job.to # "host"
      BY <3>1
    <3> HIDE DEF job
    <3>3. PICK S : bg \in Seq(S)
      BY DEF JobInv
    <3>4. bg \in Seq(S \union {job})
      BY <3>3
    <3>5. bg' \in Seq(S \union {job}) /\ Len(bg') = Len(bg) + 1 /\ Len(bg) \in Nat
      BY <3>2, <3>4
    <3>6. /\ \A i \in 1..Len(bg) : bg'[i] = bg[i]
          /\ bg'[Len(bg) + 1] = job
      BY <3>2, <3>4
    <3>7. \A i \in 1..Len(bg') : Stages(i)' => i \in 1..Len(bg) /\ Stages(i) /\ bg'[i] = bg[i]
      BY <3>2, <3>5, <3>6 DEF Stages
    <3> QED
      BY <1>u, <3>5, <3>7 DEF JobInv
  <2> QED
    BY <2>1, <2>2
<1> QED
  BY <1>2, <1>4, <1>5, <1>6 DEF Conserved

-----------------------------------------------------------------------------
(* Theorems *)

\* Every step keeps the queues in order.
LEMMA QStep == QInv /\ [Next]_vars => QInv'
<1> SUFFICES ASSUME QInv, [Next]_vars PROVE QInv'
  OBVIOUS
<1>1. CASE Schedule
  BY <1>1, StartIterStep, ExtendFrontStep, PreemptBackStep, YieldFrontStep, ExtendDoneStep,
     AdmitStep, AdmitDoneStep, ReorderDeferStep, ReorderReclaimStep, ReclaimOneStep,
     ReclaimFailedStep, ReorderDoneStep, DispatchOneStep DEF Schedule
<1>2. CASE \E eos \in SUBSET Producing : InferDone(eos)
  BY <1>2, InferDoneStep
<1>3. CASE FinishTask
  BY <1>3, FinishTaskStep
<1>4. CASE Background
  BY <1>4, BgCopyStep, BgStagedStep DEF Background
<1>5. ASSUME NEW s \in Seqs,
             \/ AddRequest(s) \/ AddRequestStaged(s) \/ ReserveRequest(s) \/ PendReserved(s)
             \/ \E n \in 0..NumFull : TriggerRequest(s, n)
      PROVE  QInv'
  BY <1>5, AddRequestStep, AddRequestStagedStep, ReserveRequestStep, PendReservedStep,
     TriggerRequestStep
<1>6. CASE ClearCache
  BY <1>6, ClearCacheStep DEF ClearCache
<1>7. CASE UNCHANGED vars
  BY <1>7, ClearCacheStep DEF vars
<1> QED
  BY <1>1, <1>2, <1>3, <1>4, <1>5, <1>6, <1>7 DEF Next, EngineLoop, Handlers

\* QInv is an inductive invariant of the scheduler.
THEOREM QueueInvariant == Spec => []QInv
<1>1. Init => QInv
  BY QInit
<1>2. QInv /\ [Next]_vars => QInv'
  BY QStep
<1> QED
  BY <1>1, <1>2, PTL DEF Spec

\* No task is lost or duplicated by the handlers, by extending, preempting,
\* reordering or finishing, or by the callbacks of the background thread: at
\* every moment, a panicked engine included, a live task is in exactly one of
\* the queues or locals, and any other task in none.
THEOREM TasksConserved == Spec => []TaskConserved
<1>1. QInv => TaskConserved
  <2> SUFFICES ASSUME QInv, NEW s \in Seqs PROVE Places(s) = Live(s)
    BY DEF TaskConserved, Live
  <2> DEFINE q1 == waiting \o allocated
             q2 == q1 \o kept
             q3 == q2 \o promoted
             q4 == q3 \o nextWaiting
             q == q4 \o finished
             w == Count(waiting, s)   a == Count(allocated, s)   k == Count(kept, s)
             p == Count(promoted, s)   n == Count(nextWaiting, s)   f == Count(finished, s)
             d == Pended(s)   c == Same(cur, s)
             c1 == Count(q1, s)   c2 == Count(q2, s)   c3 == Count(q3, s)   c4 == Count(q4, s)
             c5 == Count(q, s)
  <2>0. Places(s) = c5 + d + c
    BY DEF Places, Count, Positions, Pended, Same
  <2>1. /\ IsConcat(q1, waiting, allocated) /\ IsConcat(q2, q1, kept) /\ IsConcat(q3, q2, promoted)
        /\ IsConcat(q4, q3, nextWaiting) /\ IsConcat(q, q4, finished)
    BY DEF IsConcat
  <2>2. NumbersAt(s) /\ QueueType /\ Everywhere(s) = Live(s)
    BY Numbers DEF QInv, Conserved
  <2> HIDE DEF q1, q2, q3, q4, q
  <2>3. q1 \in Seq(Seqs) /\ c1 = w + a
    BY <2>1, <2>2, CountConcat DEF QueueType
  <2>4. q2 \in Seq(Seqs) /\ c2 = c1 + k
    BY <2>1, <2>2, <2>3, CountConcat DEF QueueType
  <2>5. q3 \in Seq(Seqs) /\ c3 = c2 + p
    BY <2>1, <2>2, <2>4, CountConcat DEF QueueType
  <2>6. q4 \in Seq(Seqs) /\ c4 = c3 + n
    BY <2>1, <2>2, <2>5, CountConcat DEF QueueType
  <2>7. q \in Seq(Seqs) /\ c5 = c4 + f
    BY <2>1, <2>2, <2>6, CountConcat DEF QueueType
  <2>8. Everywhere(s) = w + a + k + p + n + f + d + c
    BY DEF Everywhere
  <2>9. /\ w \in Nat /\ a \in Nat /\ k \in Nat /\ p \in Nat /\ n \in Nat /\ f \in Nat
        /\ d \in Nat /\ c \in Nat
    BY <2>2 DEF NumbersAt
  <2> HIDE DEF w, a, k, p, n, f, d, c, c1, c2, c3, c4, c5
  <2>10. Places(s) = Everywhere(s)
    BY ONLY <2>0, <2>3, <2>4, <2>5, <2>6, <2>7, <2>8, <2>9
  <2> QED
    BY <2>2, <2>10
<1> QED
  BY <1>1, QueueInvariant, PTL

-----------------------------------------------------------------------------
(***************************************************************************)
(* QueuesSorted                                                            *)
(***************************************************************************)

\* A queue in arrival order, and a queue before another or before a task.
Sorted(q) == \A i, j \in 1..Len(q) : i < j => Arrival[q[i]] <= Arrival[q[j]]
Below(p, q) == \A x \in Elems(p), y \in Elems(q) : Arrival[x] <= Arrival[y]
UpTo(q, s) == \A x \in Elems(q) : Arrival[x] <= Arrival[s]
From(s, q) == \A x \in Elems(q) : Arrival[s] <= Arrival[x]

\* A concatenation is in order if its parts are and the first is before the
\* second.
LEMMA SortedConcat ==
  ASSUME NEW p \in Seq(Seqs), NEW q \in Seq(Seqs), NEW c, IsConcat(c, p, q)
  PROVE  /\ c \in Seq(Seqs) /\ Elems(c) = Elems(p) \union Elems(q)
         /\ Sorted(c) => Sorted(p) /\ Sorted(q) /\ Below(p, q)
         /\ Sorted(p) /\ Sorted(q) /\ Below(p, q) => Sorted(c)
<1> DEFINE L == Len(p)
           M == Len(q)
<1>1. /\ c \in Seq(Seqs) /\ L \in Nat /\ M \in Nat /\ Len(c) = L + M
      /\ \A i \in 1..L : c[i] = p[i] /\ i \in 1..Len(c)
      /\ \A i \in 1..M : c[L + i] = q[i] /\ L + i \in 1..Len(c)
  BY DEF IsConcat
<1>2. \A i \in 1..Len(c) : i \notin 1..L => i - L \in 1..M /\ c[i] = q[i - L]
  BY ConcatIndex DEF IsConcat
<1>3. Elems(c) = Elems(p) \union Elems(q)
  BY ConcatElems DEF IsConcat
<1> HIDE DEF L, M
<1>4. ASSUME Sorted(c) PROVE Sorted(p)
  <2> SUFFICES ASSUME NEW i \in 1..L, NEW j \in 1..L, i < j PROVE Arrival[p[i]] <= Arrival[p[j]]
    BY DEF Sorted, L
  <2>1. c[i] = p[i] /\ c[j] = p[j] /\ i \in 1..Len(c) /\ j \in 1..Len(c)
    BY <1>1
  <2>2. Arrival[c[i]] <= Arrival[c[j]]
    BY <1>4, <2>1 DEF Sorted
  <2> QED
    BY <2>1, <2>2
<1>5. ASSUME Sorted(c) PROVE Sorted(q)
  <2> SUFFICES ASSUME NEW i \in 1..M, NEW j \in 1..M, i < j PROVE Arrival[q[i]] <= Arrival[q[j]]
    BY DEF Sorted, M
  <2>1. /\ c[L + i] = q[i] /\ c[L + j] = q[j] /\ L + i \in 1..Len(c) /\ L + j \in 1..Len(c)
        /\ L + i < L + j
    BY <1>1
  <2>2. Arrival[c[L + i]] <= Arrival[c[L + j]]
    BY <1>5, <2>1 DEF Sorted
  <2> QED
    BY <2>1, <2>2
<1>6. ASSUME Sorted(c) PROVE Below(p, q)
  <2> SUFFICES ASSUME NEW x \in Elems(p), NEW y \in Elems(q) PROVE Arrival[x] <= Arrival[y]
    BY DEF Below
  <2>1. PICK i \in 1..L : x = p[i]
    BY DEF Elems, L
  <2>2. PICK j \in 1..M : y = q[j]
    BY DEF Elems, M
  <2>3. /\ c[i] = x /\ c[L + j] = y /\ i \in 1..Len(c) /\ L + j \in 1..Len(c) /\ i < L + j
    BY <1>1, <2>1, <2>2
  <2>4. Arrival[c[i]] <= Arrival[c[L + j]]
    BY <1>6, <2>3 DEF Sorted
  <2> QED
    BY <2>3, <2>4
<1>7. ASSUME Sorted(p), Sorted(q), Below(p, q) PROVE Sorted(c)
  <2> SUFFICES ASSUME NEW i \in 1..Len(c), NEW j \in 1..Len(c), i < j
               PROVE  Arrival[c[i]] <= Arrival[c[j]]
    BY DEF Sorted
  <2>1. CASE i \in 1..L /\ j \in 1..L
    <3>1. Arrival[p[i]] <= Arrival[p[j]]
      BY <1>7, <2>1 DEF Sorted, L
    <3> QED
      BY <1>1, <2>1, <3>1
  <2>2. CASE i \in 1..L /\ j \notin 1..L
    <3>1. p[i] \in Elems(p) /\ j - L \in 1..M /\ c[j] = q[j - L] /\ c[i] = p[i]
      BY <1>1, <1>2, <2>2 DEF Elems, L
    <3>2. q[j - L] \in Elems(q)
      BY <3>1 DEF Elems, M
    <3> QED
      BY <1>7, <3>1, <3>2 DEF Below
  <2>3. CASE i \notin 1..L /\ j \notin 1..L
    <3>1. /\ i - L \in 1..M /\ c[i] = q[i - L] /\ j - L \in 1..M /\ c[j] = q[j - L]
          /\ i - L < j - L
      BY <1>1, <1>2, <2>3
    <3>2. Arrival[q[i - L]] <= Arrival[q[j - L]]
      BY <1>7, <3>1 DEF Sorted, M
    <3> QED
      BY <3>1, <3>2
  <2>4. ~(i \notin 1..L /\ j \in 1..L)
    BY <1>1
  <2> QED
    BY <2>1, <2>2, <2>3, <2>4
<1> QED
  BY <1>1, <1>3, <1>4, <1>5, <1>6, <1>7

\* A single task, and none.
LEMMA SortedOne ==
  ASSUME NEW e \in Seqs
  PROVE  /\ <<e>> \in Seq(Seqs) /\ Elems(<<e>>) = {e} /\ Sorted(<<e>>)
         /\ Elems(<<>>) = {} /\ Sorted(<<>>)
BY DEF Sorted, Elems

\* The task at the front.
LEMMA SortedTail ==
  ASSUME NEW q \in Seq(Seqs), q # <<>>
  PROVE  /\ Head(q) \in Seqs /\ Tail(q) \in Seq(Seqs)
         /\ Elems(q) = {Head(q)} \union Elems(Tail(q))
         /\ Sorted(q) => Sorted(Tail(q)) /\ From(Head(q), Tail(q))
<1> DEFINE one == <<Head(q)>>
           rest == Tail(q)
<1>1. Head(q) \in Seqs /\ rest \in Seq(Seqs) /\ IsConcat(q, one, rest)
  BY DEF IsConcat
<1>2. one \in Seq(Seqs) /\ Elems(one) = {Head(q)}
  BY <1>1, SortedOne
<1> HIDE DEF one, rest
<1>3. /\ Elems(q) = {Head(q)} \union Elems(rest)
      /\ Sorted(q) => Sorted(rest) /\ Below(one, rest)
  BY <1>1, <1>2, SortedConcat
<1>4. Below(one, rest) => From(Head(q), rest)
  BY <1>2 DEF Below, From
<1> QED
  BY <1>1, <1>3, <1>4 DEF rest

\* The task at the back.
LEMMA SortedFront ==
  ASSUME NEW q \in Seq(Seqs), q # <<>>
  PROVE  /\ Last(q) \in Seqs /\ Front(q) \in Seq(Seqs)
         /\ Elems(q) = Elems(Front(q)) \union {Last(q)}
         /\ Sorted(q) => Sorted(Front(q))
<1> DEFINE one == <<Last(q)>>
           rest == Front(q)
<1>1. Last(q) \in Seqs /\ rest \in Seq(Seqs) /\ IsConcat(q, rest, one)
  BY DEF IsConcat, Last, Front
<1>2. one \in Seq(Seqs) /\ Elems(one) = {Last(q)}
  BY <1>1, SortedOne
<1> HIDE DEF one, rest
<1>3. Elems(q) = Elems(rest) \union {Last(q)} /\ (Sorted(q) => Sorted(rest))
  BY <1>1, <1>2, SortedConcat
<1> QED
  BY <1>1, <1>3 DEF rest

\* A task at the end of a queue.
LEMMA SortedAppend ==
  ASSUME NEW q \in Seq(Seqs), NEW e \in Seqs
  PROVE  /\ Append(q, e) \in Seq(Seqs) /\ Elems(Append(q, e)) = Elems(q) \union {e}
         /\ Sorted(q) /\ UpTo(q, e) => Sorted(Append(q, e))
<1> DEFINE one == <<e>>
           more == Append(q, e)
<1>1. one \in Seq(Seqs) /\ Elems(one) = {e} /\ Sorted(one)
  BY SortedOne
<1>2. IsConcat(more, q, one)
  BY DEF IsConcat
<1>3. UpTo(q, e) => Below(q, one)
  BY <1>1 DEF Below, UpTo
<1> HIDE DEF one, more
<1>4. more \in Seq(Seqs) /\ Elems(more) = Elems(q) \union {e}
  BY <1>1, <1>2, SortedConcat
<1>5. Sorted(q) /\ Below(q, one) => Sorted(more)
  BY <1>1, <1>2, SortedConcat
<1> QED
  BY <1>3, <1>4, <1>5 DEF more

\* A queue cut in two.
LEMMA SortedCut ==
  ASSUME NEW q \in Seq(Seqs), NEW k \in 0..Len(q)
  PROVE  /\ SubSeq(q, 1, k) \in Seq(Seqs) /\ SubSeq(q, k + 1, Len(q)) \in Seq(Seqs)
         /\ Elems(q) = Elems(SubSeq(q, 1, k)) \union Elems(SubSeq(q, k + 1, Len(q)))
         /\ Sorted(q) => Sorted(SubSeq(q, 1, k)) /\ Sorted(SubSeq(q, k + 1, Len(q)))
         /\ \A x \in Elems(SubSeq(q, 1, k)) : \E i \in 1..k : x = q[i]
         /\ \A x \in Elems(SubSeq(q, k + 1, Len(q))) : \E i \in (k + 1)..Len(q) : x = q[i]
<1> DEFINE a == SubSeq(q, 1, k)
           b == SubSeq(q, k + 1, Len(q))
<1>1. /\ a \in Seq(Seqs) /\ Len(a) = k /\ \A i \in 1..k : a[i] = q[i]
      /\ b \in Seq(Seqs) /\ Len(b) = Len(q) - k /\ \A i \in 1..(Len(q) - k) : b[i] = q[k + i]
  OBVIOUS
<1> HIDE DEF a, b
<1>2. /\ a \o b \in Seq(Seqs) /\ Len(a \o b) = Len(q)
      /\ \A i \in 1..Len(q) : (a \o b)[i] = IF i <= k THEN a[i] ELSE b[i - k]
  BY <1>1
<1>3. \A i \in 1..Len(q) : (a \o b)[i] = q[i]
  BY <1>1, <1>2
<1>4. IsConcat(q, a, b)
  BY <1>2, <1>3, SeqsEqual DEF IsConcat
<1>5. Elems(q) = Elems(a) \union Elems(b) /\ (Sorted(q) => Sorted(a) /\ Sorted(b))
  BY <1>1, <1>4, SortedConcat
<1>6. \A x \in Elems(a) : \E i \in 1..k : x = q[i]
  BY <1>1 DEF Elems
<1>7. ASSUME NEW x \in Elems(b) PROVE \E i \in (k + 1)..Len(q) : x = q[i]
  <2>1. PICK j \in 1..Len(b) : x = b[j]
    BY DEF Elems
  <2>2. k + j \in (k + 1)..Len(q) /\ x = q[k + j]
    BY <1>1, <2>1
  <2> QED
    BY <2>2
<1> QED
  BY <1>1, <1>5, <1>6, <1>7 DEF a, b

\* insert_sorted_by keeps a queue in order.
LEMMA InsertKeepsOrder ==
  ASSUME NEW q \in Seq(Seqs), NEW s \in Seqs
  PROVE  /\ insert_sorted_by(q, s) \in Seq(Seqs)
         /\ Elems(insert_sorted_by(q, s)) = Elems(q) \union {s}
         /\ Sorted(q) => Sorted(insert_sorted_by(q, s))
<1> DEFINE I == {i \in 1..Len(q) : Arrival[q[i]] > Arrival[s]}
           i == IF I # {} THEN Min(I) ELSE 0
<1>1. insert_sorted_by(q, s) = IF i = 0 THEN Append(q, s) ELSE InsertAt(q, i, s)
  BY DEF insert_sorted_by, SelectInSeq
<1>2. I # {} => Min(I) \in I /\ \A j \in I : Min(I) <= j
  <2>1. I \in SUBSET Nat
    OBVIOUS
  <2> HIDE DEF I
  <2> QED
    BY <2>1, LeastNat DEF Min
<1>n. Arrival[s] \in Nat /\ \A j \in 1..Len(q) : Arrival[q[j]] \in Nat
  BY SchedulerAssumption
<1>3. CASE I = {}
  <2>1. i = 0
    BY <1>3
  <2>2. UpTo(q, s)
    <3>1. \A j \in 1..Len(q) : Arrival[q[j]] <= Arrival[s]
      BY <1>3, <1>n
    <3> QED
      BY <3>1 DEF UpTo, Elems
  <2> QED
    BY <1>1, <2>1, <2>2, SortedAppend
<1>4. CASE I # {}
  <2>1. /\ i \in 1..Len(q) /\ Arrival[q[i]] > Arrival[s]
        /\ \A j \in 1..Len(q) : j < i => Arrival[q[j]] <= Arrival[s]
    <3>1. i = Min(I)
      BY <1>4
    <3>2. i \in I /\ \A j \in I : i <= j
      BY <1>2, <1>4, <3>1
    <3> HIDE DEF i
    <3>3. i \in 1..Len(q) /\ Arrival[q[i]] > Arrival[s]
      BY <3>2
    <3>4. ASSUME NEW j \in 1..Len(q), j < i PROVE Arrival[q[j]] <= Arrival[s]
      <4>1. j \notin I
        BY <3>2, <3>3, <3>4
      <4> QED
        BY <1>n, <4>1
    <3> QED
      BY <3>3, <3>4
  <2> HIDE DEF i, I
  <2> DEFINE a == SubSeq(q, 1, i - 1)
             b == SubSeq(q, i, Len(q))
             one == <<s>>
             first == a \o one
             whole == first \o b
  <2>2. i - 1 \in 0..Len(q) /\ (i - 1) + 1 = i
    BY <2>1
  <2>3. /\ a \in Seq(Seqs) /\ b \in Seq(Seqs) /\ Elems(q) = Elems(a) \union Elems(b)
        /\ Sorted(q) => Sorted(a) /\ Sorted(b)
        /\ \A x \in Elems(a) : \E j \in 1..(i - 1) : x = q[j]
        /\ \A x \in Elems(b) : \E j \in i..Len(q) : x = q[j]
    BY <2>2, SortedCut
  <2>4. one \in Seq(Seqs) /\ Elems(one) = {s} /\ Sorted(one)
    BY SortedOne
  <2>5. insert_sorted_by(q, s) = whole
    BY <1>1, <2>1 DEF InsertAt
  <2>6. IsConcat(first, a, one) /\ IsConcat(whole, first, b)
    BY DEF IsConcat
  <2> HIDE DEF a, b, one, first, whole
  <2>7. first \in Seq(Seqs) /\ Elems(first) = Elems(a) \union {s}
    BY <2>3, <2>4, <2>6, SortedConcat
  <2>8. whole \in Seq(Seqs) /\ Elems(whole) = Elems(q) \union {s}
    BY <2>3, <2>6, <2>7, SortedConcat
  <2>9. ASSUME Sorted(q) PROVE Sorted(whole)
    <3>1. \A x \in Elems(a) : Arrival[x] <= Arrival[s] /\ Arrival[x] \in Nat
      <4> SUFFICES ASSUME NEW x \in Elems(a)
                   PROVE  Arrival[x] <= Arrival[s] /\ Arrival[x] \in Nat
        OBVIOUS
      <4>1. PICK j \in 1..(i - 1) : x = q[j]
        BY <2>3
      <4>2. j \in 1..Len(q) /\ j < i
        BY <2>1, <4>1
      <4> QED
        BY <1>n, <2>1, <4>1, <4>2
    <3>2. \A x \in Elems(b) : Arrival[s] <= Arrival[x] /\ Arrival[x] \in Nat
      <4> SUFFICES ASSUME NEW x \in Elems(b)
                   PROVE  Arrival[s] <= Arrival[x] /\ Arrival[x] \in Nat
        OBVIOUS
      <4>1. PICK j \in i..Len(q) : x = q[j]
        BY <2>3
      <4>2. j \in 1..Len(q) /\ (j = i \/ i < j)
        BY <2>1, <4>1
      <4>3. Arrival[q[i]] <= Arrival[q[j]]
        BY <1>n, <2>1, <2>9, <4>2 DEF Sorted
      <4> QED
        BY <1>n, <2>1, <4>1, <4>2, <4>3
    <3>3. Below(a, one) /\ Below(first, b)
      BY <1>n, <2>4, <2>7, <3>1, <3>2 DEF Below
    <3>4. Sorted(first)
      BY <2>3, <2>4, <2>6, <2>9, <3>3, SortedConcat
    <3> QED
      BY <2>3, <2>6, <2>7, <2>9, <3>3, <3>4, SortedConcat
  <2> QED
    BY <2>5, <2>8, <2>9
<1> QED
  BY <1>3, <1>4

\* Taking some tasks out of a queue keeps the others in order.
LEMMA SortedKept ==
  ASSUME NEW q \in Seq(Seqs), NEW T
  PROVE  /\ Kept(q, T) \in Seq(Seqs) /\ Elems(Kept(q, T)) \subseteq Elems(q)
         /\ Sorted(q) => Sorted(Kept(q, T))
<1> DEFINE K == PosIn(q, T)
           c == Cardinality(K)
           pos(k) == CHOOSE i \in K : RankIn(K, i) = k
           p == Kept(q, T)
<1>1. p \in Seq(Seqs) /\ Elems(p) \subseteq Elems(q)
  BY KeptLemma
<1>2. K \in SUBSET (1..Len(q)) /\ Len(q) \in Nat
  BY DEF PosIn
<1>3. /\ IsFiniteSet(K) /\ c \in Nat
      /\ \A k \in 1..c : \E i \in K : RankIn(K, i) = k
  BY <1>2, RankLemma
<1>4. \A k \in 1..c : pos(k) \in K /\ RankIn(K, pos(k)) = k
  BY <1>3
<1>5. p = [k \in 1..c |-> q[pos(k)]]
  BY DEF Kept
<1> HIDE DEF K, c, pos, p
<1>6. Len(p) = c /\ \A k \in 1..c : p[k] = q[pos(k)]
  <2>0. ASSUME NEW k \in 1..c PROVE q[pos(k)] \in Seqs
    <3>1. pos(k) \in 1..Len(q)
      BY <1>2, <1>4
    <3> QED
      BY <3>1
  <2>1. p \in [1..c -> Seqs]
    BY <1>5, <2>0
  <2> QED
    BY <1>3, <1>5, <2>1, FunctionIsSeq
<1>7. ASSUME NEW x \in K, NEW y \in K, x <= y PROVE RankIn(K, x) <= RankIn(K, y)
  <2> DEFINE A == {j \in K : j <= x}
             B == {j \in K : j <= y}
  <2>0. \A j \in K : j \in Int
    BY <1>2
  <2>1. A \in SUBSET B /\ B \in SUBSET K
    BY <1>7, <2>0
  <2>2. IsFiniteSet(B)
    BY <1>3, <2>1, FS_Subset
  <2>3. Cardinality(A) <= Cardinality(B)
    <3> HIDE DEF A, B
    <3> QED
      BY <2>1, <2>2, FS_Subset
  <2> QED
    BY <2>3 DEF RankIn
<1>8. ASSUME NEW k \in 1..c, NEW l \in 1..c, k < l PROVE pos(k) < pos(l)
  <2>1. /\ pos(k) \in 1..Len(q) /\ pos(l) \in 1..Len(q) /\ pos(k) \in K /\ pos(l) \in K
        /\ RankIn(K, pos(k)) = k /\ RankIn(K, pos(l)) = l
    BY <1>2, <1>4
  <2>2. pos(l) <= pos(k) => l <= k
    BY <1>7, <2>1
  <2> QED
    BY <1>3, <1>8, <2>1, <2>2
<1>9. ASSUME Sorted(q), NEW k \in 1..c, NEW l \in 1..c, k < l
      PROVE  Arrival[p[k]] <= Arrival[p[l]]
  <2>1. pos(k) \in 1..Len(q) /\ pos(l) \in 1..Len(q) /\ pos(k) < pos(l)
    BY <1>2, <1>4, <1>8, <1>9
  <2>2. Arrival[q[pos(k)]] <= Arrival[q[pos(l)]]
    BY <1>9, <2>1 DEF Sorted
  <2> QED
    BY <1>6, <2>2
<1>10. Sorted(q) => Sorted(p)
  BY <1>6, <1>9 DEF Sorted
<1> QED
  BY <1>1, <1>10 DEF p

(* The invariant.  Requests enter in arrival order; a task that the reorder *)
(* loop puts off is older than those still in waiting; the current task is  *)
(* between the allocated tasks it left and the promoted ones.               *)

NewInv ==
    \A s, t \in Seqs : status[s] = "New" /\ status[t] # "New" => Arrival[t] <= Arrival[s]

EmptyInv ==
    /\ pc \notin {"admit", "reclaim"} => nextWaiting = <<>>
    /\ pc # "extend" => kept = <<>>
    /\ pc = "reclaim" => EnableReorder
    /\ ~EnableReorder => nextWaiting = <<>>

WaitInv == Sorted(waiting) /\ Sorted(nextWaiting) /\ Below(nextWaiting, waiting)

AllocInv == Sorted(kept) /\ Sorted(allocated) /\ Below(kept, allocated)

ReclaimInv ==
    pc = "reclaim" =>
        UpTo(nextWaiting, cur) /\ UpTo(allocated, cur) /\ Sorted(promoted) /\ From(cur, promoted)

InOrder == NewInv /\ EmptyInv /\ WaitInv /\ ReclaimInv /\ (EnableReorder => AllocInv)
OrderInv == pc # "panicked" /\ ~Overtaking => InOrder

\* What a step has to show.
KeepsOrder ==
    /\ mode' = mode
    /\ pc = "panicked" => pc' = "panicked"
    /\ ~Overtaking /\ InOrder => pc' = "panicked" \/ InOrder'

\* Nothing is in the empty queue.
LEMMA NoneInEmpty ==
  /\ Elems(<<>>) = {} /\ Sorted(<<>>)
  /\ \A q : Below(<<>>, q) /\ Below(q, <<>>)
  /\ \A s : UpTo(<<>>, s) /\ From(s, <<>>)
<1>1. Elems(<<>>) = {} /\ Sorted(<<>>)
  BY DEF Elems, Sorted
<1> QED
  BY <1>1 DEF Below, UpTo, From

Queued(s) ==
    \/ s \in Elems(waiting) \/ s \in Elems(allocated) \/ s \in Elems(promoted)
    \/ s \in Elems(finished) \/ (pc = "reclaim" /\ s = cur)

\* A task in a queue has entered.
LEMMA QueuedNotNew ==
  ASSUME QInv, NEW s, Queued(s)
  PROVE  s \in Seqs /\ status[s] # "New"
<1> USE DEF Queued
<1>1. QueueType /\ Conserved
  BY DEF QInv
<1>2. s \in Seqs
  BY <1>1 DEF QueueType, Elems, QInv, LocalsInv
<1>3. s \in Elems(waiting) => Count(waiting, s) # 0
  BY <1>1, CountZero DEF QueueType
<1>4. s \in Elems(allocated) => Count(allocated, s) # 0
  BY <1>1, CountZero DEF QueueType
<1>5. s \in Elems(promoted) => Count(promoted, s) # 0
  BY <1>1, CountZero DEF QueueType
<1>6. s \in Elems(finished) => Count(finished, s) # 0
  BY <1>1, CountZero DEF QueueType
<1>7. s = cur => Same(cur, s) = 1
  BY DEF Same
<1>8. Live(s) = 1
  BY <1>1, <1>2, <1>3, <1>4, <1>5, <1>6, <1>7, SomewhereAlive
<1> QED
  BY <1>2, <1>8 DEF Live

\* A task that has entered may change its status.
LEMMA NewFrame ==
  ASSUME NewInv, \A t \in Seqs : status'[t] # status[t] => status[t] # "New" /\ status'[t] # "New"
  PROVE  NewInv'
BY DEF NewInv

\* A request that enters in order.
LEMMA NewEnters ==
  ASSUME QueueType, NewInv, ~Overtaking, NEW s \in Seqs, Arrives(s), NEW v, v # "New",
         status' = [status EXCEPT ![s] = v]
  PROVE  NewInv'
<1>1. \A t \in Seqs : Arrival[t] < Arrival[s] => status[t] # "New"
  BY DEF Arrives
<1>2. Arrival \in [Seqs -> Nat] /\ status' = [status EXCEPT ![s] = v] /\ status \in [Seqs -> Statuses]
  BY SchedulerAssumption DEF QueueType
<1> QED
  BY <1>1, <1>2 DEF NewInv

\* Whether the mode reorders and lets requests overtake does not change.
LEMMA ModeFrame ==
  ASSUME mode' = mode
  PROVE  (EnableReorder' <=> EnableReorder) /\ (Overtaking' <=> Overtaking)
BY DEF EnableReorder, Overtaking

\* Steps that leave the queues alone.
LEMMA QueuesFrame ==
  ASSUME UNCHANGED <<mode, waiting, allocated, kept, promoted, cur, nextWaiting>>,
         UNCHANGED pc \/ pc \notin {"extend", "admit", "reclaim", "panicked"},
         pc' \in {"dispatch", "idle", "infer", "finish", "extend", "panicked"} \/ UNCHANGED pc,
         \A t \in Seqs : status'[t] # status[t] => status[t] # "New" /\ status'[t] # "New"
  PROVE  KeepsOrder
<1> SUFFICES ASSUME InOrder, pc' # "panicked" PROVE InOrder'
  BY DEF KeepsOrder
<1>1. NewInv'
  BY NewFrame DEF InOrder
<1>2. EmptyInv' /\ ReclaimInv'
  BY ModeFrame DEF InOrder, EmptyInv, ReclaimInv, UpTo, From, Sorted
<1>3. WaitInv' /\ (EnableReorder' => AllocInv')
  BY ModeFrame DEF InOrder, WaitInv, AllocInv, Sorted, Below
<1> QED
  BY <1>1, <1>2, <1>3 DEF InOrder

\* Steps of others while the engine loop does not hold the mutex.
LEMMA OthersOrder ==
  ASSUME LockFree, UNCHANGED <<mode, pc, allocated, kept, promoted, cur, nextWaiting>>,
         ~Overtaking /\ InOrder => NewInv' /\ Sorted(waiting')
  PROVE  KeepsOrder
<1> SUFFICES ASSUME ~Overtaking, InOrder PROVE InOrder'
  BY DEF KeepsOrder
<1>1. pc \notin {"admit", "reclaim", "extend"} /\ nextWaiting = <<>>
  BY DEF LockFree, InOrder, EmptyInv
<1>2. EmptyInv' /\ ReclaimInv'
  BY <1>1, ModeFrame DEF InOrder, EmptyInv, ReclaimInv
<1>3. WaitInv'
  BY <1>1, NoneInEmpty DEF WaitInv
<1>4. EnableReorder' => AllocInv'
  BY ModeFrame DEF InOrder, AllocInv, Sorted, Below
<1> QED
  BY <1>2, <1>3, <1>4 DEF InOrder

\* A new request is newer than all that wait.
LEMMA AddRequestOrder ==
  ASSUME QInv, NEW s \in Seqs, AddRequest(s)
  PROVE  KeepsOrder
<1>0. /\ LockFree /\ Arrives(s) /\ status' = [status EXCEPT ![s] = "Waiting"]
      /\ waiting' = Append(waiting, s)
      /\ UNCHANGED <<mode, pc, allocated, kept, promoted, cur, nextWaiting>>
  BY DEF AddRequest, locals
<1>1. QueueType
  BY DEF QInv
<1>2. ASSUME ~Overtaking, InOrder PROVE NewInv' /\ Sorted(waiting')
  <2>1. NewInv'
    BY <1>0, <1>1, <1>2, NewEnters DEF InOrder
  <2>2. UpTo(waiting, s)
    <3> SUFFICES ASSUME NEW x \in Elems(waiting) PROVE Arrival[x] <= Arrival[s]
      BY DEF UpTo
    <3>1. x \in Seqs /\ status[x] # "New"
      BY QueuedNotNew DEF Queued
    <3> QED
      BY <1>0, <1>2, <3>1 DEF InOrder, NewInv, Arrives
  <2>3. Sorted(waiting')
    BY <1>0, <1>1, <1>2, <2>2, SortedAppend DEF QueueType, InOrder, WaitInv
  <2> QED
    BY <2>1, <2>3
<1> QED
  BY <1>0, <1>2, OthersOrder

\* The other handlers do not touch waiting ...
LEMMA EnterOrder ==
  ASSUME QInv, NEW s \in Seqs, AddRequestStaged(s) \/ ReserveRequest(s)
  PROVE  KeepsOrder
<1>0. /\ LockFree /\ Arrives(s) /\ waiting' = waiting
      /\ UNCHANGED <<mode, pc, allocated, kept, promoted, cur, nextWaiting>>
  BY DEF AddRequestStaged, ReserveRequest, locals, queues
<1>1. \E v : v # "New" /\ status' = [status EXCEPT ![s] = v]
  <2>1. CASE AddRequestStaged(s)
    BY <2>1 DEF AddRequestStaged
  <2>2. CASE ReserveRequest(s)
    <3>1. \/ status' = [status EXCEPT ![s] = "Failed"]
          \/ status' = [status EXCEPT ![s] = "Reserved"]
      BY <2>2 DEF ReserveRequest
    <3> QED
      BY <3>1
  <2> QED
    BY <2>1, <2>2
<1>2. ASSUME ~Overtaking, InOrder PROVE NewInv' /\ Sorted(waiting')
  <2>1. NewInv'
    BY <1>0, <1>1, <1>2, NewEnters DEF InOrder, QInv
  <2>2. Sorted(waiting')
    BY <1>0, <1>2 DEF InOrder, WaitInv
  <2> QED
    BY <2>1, <2>2
<1> QED
  BY <1>0, <1>2, OthersOrder

\* A reserved request is set aside.
LEMMA PendReservedOrder ==
  ASSUME QInv, NEW s \in Seqs, PendReserved(s)
  PROVE  KeepsOrder
<1>0. /\ LockFree /\ status[s] = "Reserved" /\ status' = [status EXCEPT ![s] = "Waiting"]
      /\ UNCHANGED <<mode, waiting, pc, allocated, kept, promoted, cur, nextWaiting>>
  BY DEF PendReserved, locals
<1>1. \A t \in Seqs : status'[t] # status[t] => status[t] # "New" /\ status'[t] # "New"
  BY <1>0 DEF QInv, QueueType
<1> QED
  BY <1>0, <1>1, QueuesFrame

\* ... and trigger_pend_task puts the task in its place.
LEMMA TriggerOrder ==
  ASSUME QInv, LockFree, NEW s \in Seqs, waiting' = insert_sorted_by(waiting, s),
         UNCHANGED <<mode, status, pc, allocated, kept, promoted, cur, nextWaiting>>
  PROVE  KeepsOrder
<1>1. ASSUME InOrder PROVE NewInv' /\ Sorted(waiting')
  <2>1. NewInv'
    BY <1>1 DEF InOrder, NewInv
  <2>2. Sorted(waiting')
    BY <1>1, InsertKeepsOrder DEF InOrder, WaitInv, QInv, QueueType
  <2> QED
    BY <2>1, <2>2
<1> QED
  BY <1>1, OthersOrder

\* Extend loop.
LEMMA ExtendFrontOrder ==
  ASSUME QInv, ExtendFront
  PROVE  KeepsOrder
<1> DEFINE s == Head(allocated)
<1>0. /\ pc = "extend" /\ allocated # <<>>
      /\ kept' = Append(kept, s) /\ allocated' = Tail(allocated)
      /\ UNCHANGED <<mode, status, waiting, pc, cur, promoted, nextWaiting>>
  BY DEF ExtendFront
<1> SUFFICES ASSUME InOrder PROVE InOrder'
  BY <1>0 DEF KeepsOrder
<1>t. QueueType
  BY DEF QInv
<1>1. /\ s \in Seqs /\ Elems(allocated) = {s} \union Elems(allocated')
      /\ Sorted(allocated) => Sorted(allocated') /\ From(s, allocated')
  BY <1>0, <1>t, SortedTail DEF QueueType
<1> HIDE DEF s
<1>2. /\ Elems(kept') = Elems(kept) \union {s}
      /\ Sorted(kept) /\ UpTo(kept, s) => Sorted(kept')
  BY <1>0, <1>1, <1>t, SortedAppend DEF QueueType
<1>3. NewInv' /\ EmptyInv' /\ ReclaimInv' /\ WaitInv'
  BY <1>0, ModeFrame DEF InOrder, NewInv, EmptyInv, ReclaimInv, WaitInv, Sorted, Below
<1>4. ASSUME EnableReorder PROVE AllocInv'
  <2>1. Sorted(kept) /\ Sorted(allocated) /\ Below(kept, allocated)
    BY <1>4 DEF InOrder, AllocInv
  <2>2. UpTo(kept, s)
    BY <1>1, <2>1 DEF Below, UpTo
  <2>3. Below(kept', allocated')
    BY <1>1, <1>2, <2>1 DEF Below, From
  <2> QED
    BY <1>1, <1>2, <2>1, <2>2, <2>3 DEF AllocInv
<1> QED
  BY <1>0, <1>3, <1>4, ModeFrame DEF InOrder

\* A preempted task goes to its place in waiting.
LEMMA PreemptBackOrder ==
  ASSUME QInv, PreemptBack
  PROVE  KeepsOrder
<1> DEFINE s == Last(allocated)
<1>0. /\ pc = "extend" /\ Len(allocated) > 1 /\ status' = [status EXCEPT ![s] = "Waiting"]
      /\ waiting' = insert_sorted_by(waiting, s) /\ allocated' = Front(allocated)
      /\ UNCHANGED <<mode, pc, kept, cur, promoted, nextWaiting>>
  BY DEF PreemptBack, locals
<1> SUFFICES ASSUME InOrder PROVE InOrder'
  BY <1>0 DEF KeepsOrder
<1>t. QueueType /\ allocated \in Seq(Seqs) /\ allocated # <<>>
  BY <1>0 DEF QInv, QueueType
<1>1. /\ s \in Seqs /\ Elems(allocated) = Elems(allocated') \union {s}
      /\ Sorted(allocated) => Sorted(allocated')
  BY <1>0, <1>t, SortedFront
<1> HIDE DEF s
<1>2. status[s] # "New"
  BY <1>1, QueuedNotNew DEF Queued
<1>3. NewInv'
  BY <1>0, <1>1, <1>2, <1>t, NewFrame DEF InOrder, QueueType
<1>4. EmptyInv' /\ ReclaimInv' /\ nextWaiting' = <<>>
  BY <1>0, ModeFrame DEF InOrder, EmptyInv, ReclaimInv
<1>5. WaitInv'
  BY <1>0, <1>1, <1>4, <1>t, InsertKeepsOrder, NoneInEmpty DEF InOrder, WaitInv, QueueType
<1>6. EnableReorder => AllocInv'
  BY <1>0, <1>1 DEF InOrder, AllocInv, Below, Sorted
<1> QED
  BY <1>0, <1>3, <1>4, <1>5, <1>6, ModeFrame DEF InOrder

\* The extend loop ends.
LEMMA ExtendEndOrder ==
  ASSUME QInv, YieldFront \/ ExtendDone
  PROVE  KeepsOrder
<1>0. /\ pc = "extend" /\ pc' = "admit" /\ allocated' = kept /\ kept' = <<>>
      /\ UNCHANGED <<mode, status, cur, promoted, nextWaiting>>
  BY DEF YieldFront, ExtendDone
<1>1. \/ waiting' = waiting
      \/ allocated # <<>> /\ waiting' = insert_sorted_by(waiting, Head(allocated))
  BY DEF YieldFront, ExtendDone
<1> SUFFICES ASSUME InOrder PROVE InOrder'
  BY <1>0 DEF KeepsOrder
<1>t. QueueType
  BY DEF QInv
<1>2. NewInv' /\ EmptyInv' /\ ReclaimInv' /\ nextWaiting' = <<>>
  BY <1>0, ModeFrame DEF InOrder, NewInv, EmptyInv, ReclaimInv
<1>3. Sorted(waiting')
  <2>1. allocated # <<>> => Head(allocated) \in Seqs
    BY <1>t, SortedTail DEF QueueType
  <2> QED
    BY <1>1, <1>t, <2>1, InsertKeepsOrder DEF InOrder, WaitInv, QueueType
<1>4. WaitInv'
  BY <1>2, <1>3, NoneInEmpty DEF WaitInv
<1>5. EnableReorder => AllocInv'
  BY <1>0, NoneInEmpty DEF InOrder, AllocInv
<1> QED
  BY <1>0, <1>2, <1>4, <1>5, ModeFrame DEF InOrder

\* Admission: in arrival order allocated may get out of order, with
\* reordering the task goes to its place.
LEMMA AdmitOrder ==
  ASSUME QInv, AdmitFront \/ ReorderAdmit
  PROVE  KeepsOrder
<1> DEFINE s == Head(waiting)
<1>0. /\ pc = "admit" /\ waiting # <<>> /\ pc' \in {"admit", "panicked"}
      /\ status' = [status EXCEPT ![s] = "Allocated"] /\ waiting' = Tail(waiting)
      /\ EnableReorder => allocated' = insert_sorted_by(allocated, s)
      /\ UNCHANGED <<mode, kept, cur, promoted, nextWaiting>>
  BY DEF AdmitFront, ReorderAdmit, Admit, locals
<1> SUFFICES ASSUME InOrder, pc' = "admit" PROVE InOrder'
  BY <1>0 DEF KeepsOrder
<1>t. QueueType
  BY DEF QInv
<1>1. /\ s \in Seqs /\ Elems(waiting) = {s} \union Elems(waiting')
      /\ Sorted(waiting) => Sorted(waiting')
  BY <1>0, <1>t, SortedTail DEF QueueType
<1> HIDE DEF s
<1>2. status[s] # "New"
  BY <1>1, QueuedNotNew DEF Queued
<1>3. NewInv'
  BY <1>0, <1>1, <1>2, <1>t, NewFrame DEF InOrder, QueueType
<1>4. EmptyInv' /\ ReclaimInv' /\ kept' = <<>>
  BY <1>0, ModeFrame DEF InOrder, EmptyInv, ReclaimInv
<1>5. WaitInv'
  BY <1>0, <1>1 DEF InOrder, WaitInv, Below, Sorted
<1>6. EnableReorder => AllocInv'
  BY <1>0, <1>1, <1>4, <1>t, InsertKeepsOrder, NoneInEmpty DEF InOrder, AllocInv, QueueType
<1> QED
  BY <1>0, <1>3, <1>4, <1>5, <1>6, ModeFrame DEF InOrder

\* The admission ends.
LEMMA AdmitDoneOrder ==
  ASSUME QInv, AdmitDone \/ ReorderDone
  PROVE  KeepsOrder
<1>0. /\ pc = "admit" /\ pc' = "dispatch"
      /\ UNCHANGED <<mode, status, allocated, kept, cur, promoted>>
  BY DEF AdmitDone, ReorderDone, StartDispatch, queues
<1>1. \/ ~EnableReorder /\ UNCHANGED <<waiting, nextWaiting>>
      \/ waiting' = nextWaiting /\ nextWaiting' = <<>>
  BY DEF AdmitDone, ReorderDone, queues
<1> SUFFICES ASSUME InOrder PROVE InOrder'
  BY <1>0 DEF KeepsOrder
<1>2. nextWaiting' = <<>> /\ Sorted(waiting')
  BY <1>1 DEF InOrder, WaitInv, EmptyInv
<1>3. NewInv' /\ EmptyInv' /\ ReclaimInv'
  BY <1>0, <1>2 DEF InOrder, NewInv, EmptyInv, ReclaimInv
<1>4. WaitInv'
  BY <1>2, NoneInEmpty DEF WaitInv
<1>5. EnableReorder => AllocInv'
  BY <1>0 DEF InOrder, AllocInv, Sorted, Below
<1> QED
  BY <1>0, <1>3, <1>4, <1>5, ModeFrame DEF InOrder

\* A task that is put off is older than those behind it.
LEMMA ReorderDeferOrder ==
  ASSUME QInv, ReorderDefer
  PROVE  KeepsOrder
<1> DEFINE s == Head(waiting)
<1>0. /\ pc = "admit" /\ waiting # <<>> /\ EnableReorder
      /\ nextWaiting' = Append(nextWaiting, s) /\ waiting' = Tail(waiting)
      /\ UNCHANGED <<mode, status, allocated, pc, kept, cur, promoted>>
  BY DEF ReorderDefer
<1> SUFFICES ASSUME InOrder PROVE InOrder'
  BY <1>0 DEF KeepsOrder
<1>t. QueueType
  BY DEF QInv
<1>1. /\ s \in Seqs /\ Elems(waiting) = {s} \union Elems(waiting')
      /\ Sorted(waiting) => Sorted(waiting') /\ From(s, waiting')
  BY <1>0, <1>t, SortedTail DEF QueueType
<1> HIDE DEF s
<1>2. /\ Elems(nextWaiting') = Elems(nextWaiting) \union {s}
      /\ Sorted(nextWaiting) /\ UpTo(nextWaiting, s) => Sorted(nextWaiting')
  BY <1>0, <1>1, <1>t, SortedAppend DEF QueueType
<1>3. NewInv' /\ EmptyInv' /\ ReclaimInv' /\ AllocInv'
  BY <1>0, ModeFrame DEF InOrder, NewInv, EmptyInv, ReclaimInv, AllocInv, Sorted, Below
<1>4. WaitInv'
  <2>1. Sorted(waiting) /\ Sorted(nextWaiting) /\ Below(nextWaiting, waiting)
    BY DEF InOrder, WaitInv
  <2>2. UpTo(nextWaiting, s)
    BY <1>1, <2>1 DEF Below, UpTo
  <2>3. Below(nextWaiting', waiting')
    BY <1>1, <1>2, <2>1 DEF Below, From
  <2> QED
    BY <1>1, <1>2, <2>1, <2>2, <2>3 DEF WaitInv
<1> QED
  BY <1>3, <1>4 DEF InOrder

\* The allocated tasks up to the last one that is not newer than s are all not
\* newer, the others are all newer.
LEMMA LastOlderSplits ==
  ASSUME allocated \in Seq(Seqs), Sorted(allocated), NEW s \in Seqs
  PROVE  /\ \A i \in 1..LastOlder(s) : Arrival[allocated[i]] <= Arrival[s]
         /\ \A i \in (LastOlder(s) + 1)..Len(allocated) : Arrival[s] <= Arrival[allocated[i]]
<1> DEFINE I == {i \in 1..Len(allocated) : Arrival[allocated[i]] <= Arrival[s]}
           cut == LastOlder(s)
<1>1. cut = IF I # {} THEN Max(I) ELSE 0
  BY DEF LastOlder, SelectLastInSeq
<1>2. I \in SUBSET (1..Len(allocated)) /\ Len(allocated) \in Nat
  OBVIOUS
<1>n. Arrival[s] \in Nat /\ \A j \in 1..Len(allocated) : Arrival[allocated[j]] \in Nat
  BY SchedulerAssumption
<1>3. cut \in 0..Len(allocated)
  BY LastOlderBound
<1>4. (cut = 0 /\ I = {}) \/ (cut \in I /\ \A j \in I : cut >= j)
  <2> HIDE DEF I, cut
  <2>1. I # {} => Max(I) \in I /\ \A j \in I : Max(I) >= j
    BY <1>2, GreatestNat DEF Max
  <2> QED
    BY <1>1, <2>1
<1> HIDE DEF cut
<1>5. ASSUME NEW i \in 1..cut PROVE Arrival[allocated[i]] <= Arrival[s]
  <2>1. cut \in I /\ i \in 1..Len(allocated) /\ cut \in 1..Len(allocated)
    BY <1>3, <1>4
  <2>2. Arrival[allocated[cut]] <= Arrival[s]
    BY <2>1
  <2>3. i = cut \/ Arrival[allocated[i]] <= Arrival[allocated[cut]]
    BY <2>1 DEF Sorted
  <2> QED
    BY <1>n, <2>1, <2>2, <2>3
<1>6. ASSUME NEW i \in (cut + 1)..Len(allocated) PROVE Arrival[s] <= Arrival[allocated[i]]
  <2>1. i \in 1..Len(allocated) /\ i > cut
    BY <1>3
  <2>2. i \notin I
    BY <1>3, <1>4, <2>1
  <2> QED
    BY <1>n, <2>1, <2>2
<1> QED
  BY <1>5, <1>6 DEF cut

\* The current task divides the allocated tasks.
LEMMA ReorderReclaimOrder ==
  ASSUME QInv, ReorderReclaim
  PROVE  KeepsOrder
<1> DEFINE s == Head(waiting)
           cut == LastOlder(s)
<1>0. /\ pc = "admit" /\ EnableReorder /\ waiting # <<>> /\ pc' = "reclaim"
      /\ cur' = s /\ waiting' = Tail(waiting)
      /\ promoted' = SubSeq(allocated, cut + 1, Len(allocated))
      /\ allocated' = SubSeq(allocated, 1, cut)
      /\ UNCHANGED <<mode, status, kept, nextWaiting>>
  BY DEF ReorderReclaim, Promoted
<1> SUFFICES ASSUME InOrder PROVE InOrder'
  BY <1>0 DEF KeepsOrder
<1>t. QueueType
  BY DEF QInv
<1>a. Sorted(allocated) /\ kept = <<>>
  BY <1>0 DEF InOrder, AllocInv, EmptyInv
<1>1. /\ s \in Seqs /\ Elems(waiting) = {s} \union Elems(waiting')
      /\ Sorted(waiting) => Sorted(waiting')
  BY <1>0, <1>t, SortedTail DEF QueueType
<1> HIDE DEF s
<1>2. /\ cut \in 0..Len(allocated)
      /\ \A i \in 1..cut : Arrival[allocated[i]] <= Arrival[s]
      /\ \A i \in (cut + 1)..Len(allocated) : Arrival[s] <= Arrival[allocated[i]]
  BY <1>1, <1>a, <1>t, LastOlderBound, LastOlderSplits DEF QueueType
<1> HIDE DEF cut
<1>3. /\ Sorted(allocated') /\ Sorted(promoted')
      /\ \A x \in Elems(allocated') : \E i \in 1..cut : x = allocated[i]
      /\ \A x \in Elems(promoted') : \E i \in (cut + 1)..Len(allocated) : x = allocated[i]
  BY <1>0, <1>2, <1>a, <1>t, SortedCut DEF QueueType
<1>4. UpTo(allocated', s) /\ From(s, promoted')
  BY <1>2, <1>3 DEF UpTo, From
<1>5. UpTo(nextWaiting, s) /\ WaitInv'
  BY <1>0, <1>1 DEF InOrder, WaitInv, Below, UpTo, Sorted
<1>6. NewInv' /\ EmptyInv'
  BY <1>0, ModeFrame DEF InOrder, NewInv, EmptyInv
<1>7. ReclaimInv'
  BY <1>0, <1>3, <1>4, <1>5 DEF ReclaimInv, UpTo
<1>8. AllocInv'
  BY <1>0, <1>3, <1>a, NoneInEmpty DEF AllocInv
<1> QED
  BY <1>5, <1>6, <1>7, <1>8 DEF InOrder

\* A preempted task is newer than the current one and so than the ones put
\* off; the current one takes its place between the others.
LEMMA ReclaimOneOrder ==
  ASSUME QInv, ReclaimOne
  PROVE  KeepsOrder
<1> DEFINE s == Last(promoted)
           rest == Front(promoted)
<1>0. /\ pc = "reclaim" /\ promoted # <<>> /\ cur \in Seqs
      /\ waiting' = insert_sorted_by(waiting, s)
      /\ UNCHANGED <<mode, kept, nextWaiting>>
  BY DEF ReclaimOne, QInv, LocalsInv
<1>1. \/ /\ status' = [status EXCEPT ![s] = "Waiting", ![cur] = "Allocated"]
         /\ allocated' = (allocated \o <<cur>>) \o rest
         /\ cur' = NoTask /\ promoted' = <<>> /\ pc' \in {"panicked", "admit"}
      \/ /\ status' = [status EXCEPT ![s] = "Waiting"]
         /\ promoted' = rest
         /\ UNCHANGED <<pc, allocated, cur>>
  BY DEF ReclaimOne, Admit
<1> SUFFICES ASSUME InOrder, pc' # "panicked" PROVE InOrder'
  BY <1>0 DEF KeepsOrder
<1>t. QueueType
  BY DEF QInv
<1>2. /\ EnableReorder /\ kept = <<>> /\ Sorted(allocated) /\ UpTo(allocated, cur)
      /\ UpTo(nextWaiting, cur) /\ Sorted(promoted) /\ From(cur, promoted)
  BY <1>0 DEF InOrder, EmptyInv, AllocInv, ReclaimInv
<1>3. /\ s \in Seqs /\ rest \in Seq(Seqs) /\ Elems(promoted) = Elems(rest) \union {s}
      /\ Sorted(rest)
  BY <1>0, <1>2, <1>t, SortedFront DEF QueueType
<1> HIDE DEF s, rest
<1>4. status[s] # "New" /\ status[cur] # "New"
  BY <1>0, <1>3, QueuedNotNew DEF Queued
<1>5. NewInv'
  <2>1. \A t \in Seqs : status'[t] # status[t] => status[t] # "New" /\ status'[t] # "New"
    BY <1>0, <1>1, <1>3, <1>4, <1>t DEF QueueType
  <2> QED
    BY <2>1, NewFrame DEF InOrder
<1>6. WaitInv'
  <2>1. Sorted(waiting') /\ Elems(waiting') = Elems(waiting) \union {s}
    BY <1>0, <1>3, <1>t, InsertKeepsOrder DEF QueueType, InOrder, WaitInv
  <2>2. ASSUME NEW x \in Elems(nextWaiting) PROVE Arrival[x] <= Arrival[s]
    <3>1. Arrival[x] <= Arrival[cur] /\ Arrival[cur] <= Arrival[s]
      BY <1>2, <1>3 DEF UpTo, From
    <3>2. x \in Seqs
      BY <1>t DEF QueueType, Elems
    <3>3. Arrival[x] \in Nat /\ Arrival[cur] \in Nat /\ Arrival[s] \in Nat
      BY <1>0, <1>3, <3>2, SchedulerAssumption
    <3> QED
      BY <3>1, <3>3
  <2>3. Below(nextWaiting, waiting')
    BY <2>1, <2>2 DEF InOrder, WaitInv, Below
  <2> QED
    BY <1>0, <2>1, <2>3 DEF InOrder, WaitInv
<1>7. CASE promoted' = rest /\ UNCHANGED <<pc, allocated, cur>>
  <2>1. EmptyInv' /\ AllocInv'
    BY <1>0, <1>2, <1>7, ModeFrame, NoneInEmpty DEF InOrder, EmptyInv, AllocInv
  <2>2. ReclaimInv'
    BY <1>0, <1>2, <1>3, <1>7 DEF ReclaimInv, UpTo, From
  <2> QED
    BY <1>5, <1>6, <2>1, <2>2 DEF InOrder
<1>8. CASE /\ allocated' = (allocated \o <<cur>>) \o rest
           /\ cur' = NoTask /\ promoted' = <<>> /\ pc' \in {"panicked", "admit"}
  <2> DEFINE first == Append(allocated, cur)
  <2>1. first \in Seq(Seqs) /\ Elems(first) = Elems(allocated) \union {cur} /\ Sorted(first)
    BY <1>0, <1>2, <1>t, SortedAppend DEF QueueType
  <2>2. IsConcat(allocated', first, rest)
    <3>1. first = allocated \o <<cur>>
      <4>1. allocated \in Seq(Seqs) /\ cur \in Seqs
        BY <1>0, <1>t DEF QueueType
      <4> QED
        BY <4>1
    <3> QED
      BY <1>8, <3>1 DEF IsConcat
  <2> HIDE DEF first
  <2>3. ASSUME NEW x \in Elems(first), NEW y \in Elems(rest) PROVE Arrival[x] <= Arrival[y]
    <3>1. Arrival[cur] <= Arrival[y] /\ (x = cur \/ Arrival[x] <= Arrival[cur])
      BY <1>2, <1>3, <2>1 DEF From, UpTo
    <3>2. x \in Seqs /\ y \in Seqs
      BY <1>3, <2>1 DEF Elems
    <3>3. Arrival[x] \in Nat /\ Arrival[cur] \in Nat /\ Arrival[y] \in Nat
      BY <1>0, <3>2, SchedulerAssumption
    <3> QED
      BY <3>1, <3>3
  <2>4. Sorted(allocated')
    BY <1>3, <2>1, <2>2, <2>3, SortedConcat DEF Below
  <2>5. AllocInv'
    BY <1>0, <1>2, <2>4, NoneInEmpty DEF AllocInv
  <2>6. EmptyInv' /\ ReclaimInv'
    BY <1>0, <1>8, ModeFrame DEF InOrder, EmptyInv, ReclaimInv
  <2> QED
    BY <1>5, <1>6, <2>5, <2>6 DEF InOrder
<1> QED
  BY <1>1, <1>7, <1>8

\* A dropped task leaves the others where they are.
LEMMA ReclaimFailedOrder ==
  ASSUME QInv, ReclaimFailed
  PROVE  KeepsOrder
<1>0. /\ pc = "reclaim" /\ pc' = "admit" /\ cur \in Seqs
      /\ status' = [status EXCEPT ![cur] = "Dropped"]
      /\ UNCHANGED <<mode, waiting, allocated, kept, nextWaiting>>
  BY DEF ReclaimFailed, QInv, LocalsInv, queues
<1> SUFFICES ASSUME InOrder PROVE InOrder'
  BY <1>0 DEF KeepsOrder
<1>1. status[cur] # "New"
  BY <1>0, QueuedNotNew DEF Queued
<1>2. NewInv'
  <2>1. \A t \in Seqs : status'[t] # status[t] => status[t] # "New" /\ status'[t] # "New"
    BY <1>0, <1>1 DEF QInv, QueueType
  <2> QED
    BY <2>1, NewFrame DEF InOrder
<1>3. EmptyInv' /\ ReclaimInv'
  BY <1>0, ModeFrame DEF InOrder, EmptyInv, ReclaimInv
<1>4. WaitInv' /\ (EnableReorder => AllocInv')
  BY <1>0 DEF InOrder, WaitInv, AllocInv, Sorted, Below
<1> QED
  BY <1>0, <1>2, <1>3, <1>4, ModeFrame DEF InOrder

\* dispatch and the copies leave the queues alone, ...
LEMMA DispatchOrder ==
  ASSUME QInv, StartIter \/ DispatchOne \/ DispatchDone
  PROVE  KeepsOrder
<1>1. /\ UNCHANGED <<mode, status, waiting, allocated, kept, promoted, cur, nextWaiting>>
      /\ pc \in {"idle", "dispatch"}
      /\ pc' \in {"dispatch", "idle", "infer", "extend", "panicked"}
  BY DEF StartIter, DispatchOne, DispatchDone, queues, locals
<1> QED
  BY <1>1, QueuesFrame

\* Clearing the cache moves no task.
LEMMA ClearCacheOrder ==
  ASSUME QInv, UNCHANGED <<mode, status, queues, pc, locals>>
  PROVE  KeepsOrder
BY QueuesFrame DEF queues, locals

\* ... update takes the stopped tasks out of allocated, ...
LEMMA InferDoneOrder ==
  ASSUME QInv, NEW eos \in SUBSET Producing, InferDone(eos)
  PROVE  KeepsOrder
<1> DEFINE stopped == {s \in Producing : s \in eos \/ reached_max_len(s)}
<1>0. /\ pc = "infer" /\ pc' \in {"idle", "finish"}
      /\ status' = [s \in Seqs |-> IF s \in stopped THEN "Finished" ELSE status[s]]
      /\ allocated' = Kept(allocated, Seqs \ stopped)
      /\ UNCHANGED <<mode, waiting, kept, cur, promoted, nextWaiting>>
  BY DEF InferDone, locals
<1> SUFFICES ASSUME InOrder PROVE InOrder'
  BY <1>0 DEF KeepsOrder
<1>1. stopped \subseteq Elems(allocated)
  BY <1>0 DEF QInv, BatchInv, Producing
<1> HIDE DEF stopped
<1>2. NewInv'
  <2>1. \A t \in stopped : status[t] # "New"
    BY <1>1, QueuedNotNew DEF Queued
  <2>2. \A t \in Seqs : status'[t] # status[t] => status[t] # "New" /\ status'[t] # "New"
    BY <1>0, <2>1
  <2> QED
    BY <2>2, NewFrame DEF InOrder
<1>3. EmptyInv' /\ ReclaimInv' /\ kept' = <<>>
  BY <1>0, ModeFrame DEF InOrder, EmptyInv, ReclaimInv
<1>4. WaitInv'
  BY <1>0 DEF InOrder, WaitInv, Sorted, Below
<1>5. EnableReorder => AllocInv'
  BY <1>0, <1>3, SortedKept, NoneInEmpty DEF InOrder, AllocInv, QInv, QueueType
<1> QED
  BY <1>0, <1>2, <1>3, <1>4, <1>5, ModeFrame DEF InOrder

\* ... and a finished task is in no queue.
LEMMA FinishTaskOrder ==
  ASSUME QInv, FinishTask
  PROVE  KeepsOrder
<1> DEFINE s == Head(finished)
<1>0. /\ pc = "finish" /\ pc' \in {"idle", "finish"} /\ finished # <<>>
      /\ status' = [status EXCEPT ![s] = "Done"]
      /\ UNCHANGED <<mode, waiting, allocated, kept, cur, promoted, nextWaiting>>
  BY DEF FinishTask, QInv, LocalsInv, queues, locals
<1>1. s \in Elems(finished) /\ s \in Seqs
  BY <1>0, SortedTail DEF QInv, QueueType
<1> HIDE DEF s
<1>2. status[s] # "New"
  <2>1. Queued(s)
    BY <1>1 DEF Queued
  <2> QED
    BY <2>1, QueuedNotNew
<1>3. \A t \in Seqs : status'[t] # status[t] => status[t] # "New" /\ status'[t] # "New"
  BY <1>0, <1>1, <1>2 DEF QInv, QueueType
<1> QED
  BY <1>0, <1>3, QueuesFrame

\* The background thread.
LEMMA BackgroundOrder ==
  ASSUME QInv, Background
  PROVE  KeepsOrder
<1>1. CASE BgCopy \/ BgSaved
  <2>1. UNCHANGED <<mode, status, queues, pc, locals>>
    BY <1>1 DEF BgCopy, BgSaved
  <2> QED
    BY <2>1, ClearCacheOrder
<1>2. CASE BgStaged
  <2> DEFINE s == Head(bg).s
  <2>0. /\ LockFree /\ bg # <<>> /\ Head(bg).to = "host" /\ waiting' = insert_sorted_by(waiting, s)
        /\ UNCHANGED <<mode, status, pc, allocated, kept, promoted, cur, nextWaiting>>
    BY <1>2 DEF BgStaged, locals
  <2>1. s \in Seqs
    <3>1. PICK S : bg \in Seq(S)
      BY DEF QInv, JobInv
    <3>2. 1 \in 1..Len(bg) /\ Head(bg) = bg[1]
      BY <2>0, <3>1
    <3>3. bg[1].s \in pending
      BY <2>0, <3>2 DEF Stages, QInv, JobInv
    <3> QED
      BY <3>2, <3>3 DEF QInv, QueueType
  <2> HIDE DEF s
  <2> QED
    BY <2>0, <2>1, TriggerOrder
<1> QED
  BY <1>1, <1>2 DEF Background

\* Every step keeps the order.
LEMMA OrderStep == QInv /\ OrderInv /\ [Next]_vars => OrderInv'
<1> SUFFICES ASSUME QInv, [Next]_vars PROVE KeepsOrder
  BY ModeFrame DEF KeepsOrder, OrderInv
<1>1. CASE Schedule
  BY <1>1, DispatchOrder, ExtendFrontOrder, PreemptBackOrder, ExtendEndOrder, AdmitOrder,
     AdmitDoneOrder, ReorderDeferOrder, ReorderReclaimOrder, ReclaimOneOrder, ReclaimFailedOrder
     DEF Schedule
<1>2. CASE \E eos \in SUBSET Producing : InferDone(eos)
  BY <1>2, InferDoneOrder
<1>3. CASE FinishTask
  BY <1>3, FinishTaskOrder
<1>4. CASE Background
  BY <1>4, BackgroundOrder
<1>5. ASSUME NEW s \in Seqs,
             \/ AddRequest(s) \/ AddRequestStaged(s) \/ ReserveRequest(s) \/ PendReserved(s)
             \/ \E n \in 0..NumFull : TriggerRequest(s, n)
      PROVE  KeepsOrder
  <2>1. ASSUME NEW n \in 0..NumFull, TriggerRequest(s, n) PROVE KeepsOrder
    BY <2>1, TriggerOrder DEF TriggerRequest, locals
  <2> QED
    BY <1>5, <2>1, AddRequestOrder, EnterOrder, PendReservedOrder
<1>6. CASE ClearCache
  BY <1>6, ClearCacheOrder DEF ClearCache
<1>7. CASE UNCHANGED vars
  BY <1>7, ClearCacheOrder DEF vars
<1> QED
  BY <1>1, <1>2, <1>3, <1>4, <1>5, <1>6, <1>7 DEF Next, EngineLoop, Handlers

\* waiting is in arrival order at every moment, and with reordering allocated
\* is too, so that the assertion of schedule_waiting_with_reorder holds and the
\* tasks it preempts are the newest: for any number of tasks, devices of any
\* size and any budget, as long as requests enter in arrival order.
THEOREM QueuesAreSorted == Spec => []QueuesSorted
<1>1. Init => OrderInv
  BY NoneInEmpty DEF Init, OrderInv, InOrder, NewInv, EmptyInv, WaitInv, ReclaimInv, AllocInv
<1>2. QInv /\ OrderInv /\ [Next]_vars => OrderInv'
  BY OrderStep
<1>3. ASSUME NEW q \in Seq(Seqs), Sorted(q) PROVE is_sorted_by(q)
  BY <1>3 DEF Sorted, is_sorted_by
<1>4. QInv /\ OrderInv => QueuesSorted
  BY <1>3 DEF QInv, QueueType, OrderInv, InOrder, WaitInv, AllocInv, QueuesSorted
<1> QED
  BY <1>1, <1>2, <1>4, QueueInvariant, PTL DEF Spec

-----------------------------------------------------------------------------
(***************************************************************************)
(* The blocks.  A task holds GPU blocks only once it has been allocated,   *)
(* host and disk blocks only while it is in the scheduler's hands, and     *)
(* reserved blocks only while it waits for them to be filled.  What the    *)
(* extend loop and the admission leave behind has a GPU slot for every     *)
(* token, which is what dispatch needs; what is set aside has full host    *)
(* blocks only, which is what trigger_pend_task needs.                     *)
(***************************************************************************)

Gpu == dev["gpu"]
Host == dev["host"]
Disk == dev["disk"]

Running == Elems(kept) \union Elems(allocated) \union Elems(promoted)
Ready ==
    Elems(kept) \union Elems(promoted)
      \union (IF pc \in {"admit", "reclaim", "dispatch"} THEN Elems(allocated) ELSE {})

\* The regions of s: what is staged for it, and its backup.
In(s) == <<"in", s>>
Out(s) == <<"out", s>>
Backed(s) == \E i \in 1..Len(bg) : bg[i].to = "disk" /\ bg[i].s = s

MapInv(s) ==
    /\ Gpu.map[s].live => status[s] \in {"Allocated", "Finished", "Dropped"}
    /\ Host.map[s].live \/ Disk.map[s].live =>
          status[s] \in {"Waiting", "Allocated", "Finished", "Dropped"}
    /\ status[s] \in Alive /\ s \notin pending => Host.map[s].live
    /\ s \in pending => AllCached(Host, s)
    /\ Host.map[s].filled % BlockSize = 0 /\ Disk.map[s].filled % BlockSize = 0

LenInv(s) ==
    /\ status[s] \notin {"Finished", "Done"} => tlen[s] < MaxLen
    /\ status[s] = "Finished" => s \in Elems(finished)

RunInv(s) ==
    pc # "panicked" =>
        /\ s \in Running => Gpu.map[s].live
        /\ s \in Ready => Gpu.map[s].slots = tlen[s]

RegionInv(s) ==
    /\ Gpu.resv[In(s)] = <<>> /\ Gpu.resv[Out(s)] = <<>>
    /\ Host.resv[Out(s)] = <<>> /\ Disk.resv[In(s)] = <<>>
    /\ Host.resv[In(s)] # <<>> => s \in pending \/ status[s] = "Reserved"
    /\ Disk.resv[Out(s)] # <<>> => Backed(s)
    /\ Backed(s) => status[s] = "Done"

TaskInv(s) == MapInv(s) /\ LenInv(s) /\ RunInv(s) /\ RegionInv(s)

MemType ==
    /\ mode \in Modes /\ budget \in Nat /\ tlen \in [Seqs -> 1..MaxLen]
    /\ DOMAIN dev = Devices
    /\ \A i \in 1..Len(bg) : bg[i].s \in Seqs
    /\ pc # "extend" => kept = <<>>

DevSound ==
    Sound(Gpu, NumGpu, tlen) /\ Sound(Host, NumHost, tlen) /\ Sound(Disk, NumDisk, tlen)

LostInv ==
    /\ Gpu.lost # {} => pc = "panicked"
    /\ pc = "panicked" => Gpu.exhausted /\ \E s \in Seqs : status[s] \in Alive
    /\ Host.lost # {} => \E s \in Seqs : status[s] = "Failed"
    /\ Disk.lost = {}

MemInv == MemType /\ DevSound /\ LostInv /\ \A s \in Seqs : TaskInv(s)

\* The regions are those of the tasks, all of them different.
LEMMA RegionNames ==
  /\ \A s \in Seqs : In(s) \in Regions /\ Out(s) \in Regions
  /\ \A s, t \in Seqs : (In(s) = In(t) => s = t) /\ (Out(s) = Out(t) => s = t) /\ In(s) # Out(t)
  /\ \A r \in Regions : \E s \in Seqs : r = In(s) \/ r = Out(s)
BY SchedulerAssumption DEF In, Out

\* The lengths as the lemmas about the block managers take them.
LEMMA Lens ==
  ASSUME MemType
  PROVE  /\ tlen \in [Seqs -> 0..MaxLen]
         /\ NumGpu \in Nat /\ NumHost \in Nat /\ NumDisk \in Nat
         /\ BlockSize \in Nat \ {0} /\ MaxLen \in Nat
BY SizeAssumption, SchedulerAssumption DEF MemType

\* A live task is in one place.
PlaceOf(s) ==
    /\ s \in Elems(waiting) =>
          status[s] \in Alive /\ s \notin pending /\ s \notin Running /\ s \notin Elems(finished)
    /\ s \in Running =>
          status[s] \in Alive /\ s \notin pending /\ s \notin Elems(finished) /\ s # cur
    /\ s \in Elems(finished) => status[s] \in Alive /\ s \notin pending
    /\ s = cur => status[s] \in Alive /\ s \notin pending /\ s \notin Elems(finished)
    /\ s \in pending => status[s] \in Alive /\ s \notin Elems(finished)

\* ... and nowhere else.
LEMMA OnePlace ==
  ASSUME QInv, NEW s \in Seqs
  PROVE  PlaceOf(s)
<1> DEFINE w == Count(waiting, s)   a == Count(allocated, s)   k == Count(kept, s)
           p == Count(promoted, s)   n == Count(nextWaiting, s)   f == Count(finished, s)
           d == Pended(s)   c == Same(cur, s)   l == Live(s)
<1>1. NumbersAt(s) /\ w + a + k + p + n + f + d + c = l
  BY Numbers DEF QInv, Conserved, Everywhere
<1>2. /\ w \in Nat /\ a \in Nat /\ k \in Nat /\ p \in Nat /\ n \in Nat /\ f \in Nat
      /\ d \in {0, 1} /\ c \in {0, 1} /\ l \in {0, 1}
  BY <1>1 DEF NumbersAt
<1>3. /\ s \in Elems(waiting) <=> w # 0
      /\ s \in Elems(allocated) <=> a # 0
      /\ s \in Elems(kept) <=> k # 0
      /\ s \in Elems(promoted) <=> p # 0
      /\ s \in Elems(finished) <=> f # 0
  BY CountZero DEF QInv, QueueType
<1>4. (s \in pending <=> d = 1) /\ (s = cur <=> c = 1) /\ (l = 1 <=> status[s] \in Alive)
  BY DEF Pended, Same, Live, Alive
<1>5. s \in Running <=> a # 0 \/ k # 0 \/ p # 0
  BY <1>3 DEF Running
<1> HIDE DEF w, a, k, p, n, f, d, c, l
<1>6. /\ w # 0 => l = 1 /\ d = 0 /\ a = 0 /\ k = 0 /\ p = 0 /\ f = 0
      /\ a # 0 \/ k # 0 \/ p # 0 => l = 1 /\ d = 0 /\ f = 0 /\ c = 0
      /\ f # 0 => l = 1 /\ d = 0
      /\ c = 1 => l = 1 /\ d = 0 /\ f = 0
      /\ d = 1 => l = 1 /\ f = 0
  BY ONLY <1>1, <1>2
<1> QED BY ONLY <1>2, <1>3, <1>4, <1>5, <1>6 DEF PlaceOf

\* A step that does nothing to t.
SameBlocks(t) ==
    /\ Gpu'.map[t] = Gpu.map[t] /\ Host'.map[t] = Host.map[t] /\ Disk'.map[t] = Disk.map[t]
    /\ Gpu'.resv[In(t)] = Gpu.resv[In(t)] /\ Gpu'.resv[Out(t)] = Gpu.resv[Out(t)]
    /\ Host'.resv[In(t)] = Host.resv[In(t)] /\ Host'.resv[Out(t)] = Host.resv[Out(t)]
    /\ Disk'.resv[In(t)] = Disk.resv[In(t)] /\ Disk'.resv[Out(t)] = Disk.resv[Out(t)]

SameState(t) ==
    /\ status'[t] = status[t] /\ tlen'[t] = tlen[t]
    /\ t \in pending' <=> t \in pending
    /\ Backed(t)' <=> Backed(t)

StaysReady(t) ==
    pc' # "panicked" =>
        /\ pc # "panicked"
        /\ t \in Running' => t \in Running
        /\ t \in Ready' => t \in Ready

\* A task that a step does nothing to is as it was.
LEMMA TaskFrame ==
  ASSUME NEW t, TaskInv(t), SameBlocks(t), SameState(t), StaysReady(t),
         t \in Elems(finished) => t \in Elems(finished)'
  PROVE  TaskInv(t)'
<1>1. MapInv(t)'
  BY DEF TaskInv, MapInv, SameBlocks, SameState, AllCached
<1>2. LenInv(t)'
  BY DEF TaskInv, LenInv, SameState
<1>3. RunInv(t)'
  BY DEF TaskInv, RunInv, SameBlocks, SameState, StaysReady
<1>4. RegionInv(t)'
  BY DEF TaskInv, RegionInv, SameBlocks, SameState
<1> QED BY <1>1, <1>2, <1>3, <1>4 DEF TaskInv

\* In the beginning no block is in use.
LEMMA MemInit == Init => MemInv
<1> SUFFICES ASSUME Init PROVE MemInv
  OBVIOUS
<1>1. /\ dev = [d \in Devices |-> NewManager(NumOf[d])]
      /\ Gpu = NewManager(NumGpu) /\ Host = NewManager(NumHost) /\ Disk = NewManager(NumDisk)
  BY DEF Init, Gpu, Host, Disk, Devices, NumOf
<1>2. /\ mode \in Modes /\ mode.lens \in SUBSET (1..(MaxLen - 1)) /\ MaxLen \in Nat
  BY SchedulerAssumption, SizeAssumption DEF Init
<1>3. tlen \in [Seqs -> mode.lens]
  BY DEF Init
<1>4. tlen \in [Seqs -> 1..MaxLen] /\ \A s \in Seqs : tlen[s] < MaxLen
  BY <1>2, <1>3
<1>5. MemType
  BY <1>1, <1>2, <1>4 DEF Init, MemType
<1>6. DevSound
  BY <1>1, <1>5, Lens, NewSound DEF DevSound
<1>7. \A m \in {Gpu, Host, Disk} :
          /\ \A s \in Seqs : m.map[s] = NoMap
          /\ \A r \in Regions : m.resv[r] = <<>>
          /\ m.lost = {}
  BY <1>1 DEF NewManager
<1>8. LostInv
  BY <1>7 DEF Init, LostInv
<1>9. ASSUME NEW s \in Seqs PROVE TaskInv(s)
  <2>1. /\ status[s] = "New" /\ s \notin pending /\ ~Backed(s) /\ s \notin Running
        /\ s \notin Ready
    BY <1>9 DEF Init, Backed, Running, Ready, Elems
  <2>2. 0 % BlockSize = 0
    BY SizeAssumption
  <2>3. MapInv(s)
    BY <1>7, <2>1, <2>2 DEF MapInv, NoMap, Alive
  <2>4. LenInv(s) /\ RunInv(s)
    BY <1>4, <2>1 DEF LenInv, RunInv
  <2>5. RegionInv(s)
    BY <1>7, <2>1, RegionNames DEF RegionInv
  <2> QED BY <2>3, <2>4, <2>5 DEF TaskInv
<1> QED BY <1>5, <1>6, <1>8, <1>9 DEF MemInv

-----------------------------------------------------------------------------
(* Steps that touch no block *)

SameJobs == \A t \in Seqs : Backed(t)' <=> Backed(t)
QuietStep ==
    /\ UNCHANGED <<mode, dev, tlen, pending, finished>>
    /\ MemType' /\ SameJobs
    /\ pc' = "panicked" <=> pc = "panicked"
    /\ \A t \in Seqs : StaysReady(t)

\* A step that touches no block keeps the blocks in order.
LEMMA Quiet ==
  ASSUME MemInv, QuietStep, UNCHANGED status
  PROVE  MemInv'
<1>1. Gpu' = Gpu /\ Host' = Host /\ Disk' = Disk
  BY DEF QuietStep, Gpu, Host, Disk
<1>2. DevSound' /\ LostInv' /\ MemType'
  BY <1>1 DEF MemInv, DevSound, LostInv, QuietStep
<1>3. ASSUME NEW t \in Seqs PROVE TaskInv(t)'
  <2>1. SameBlocks(t) /\ SameState(t) /\ StaysReady(t)
    BY <1>1 DEF SameBlocks, SameState, QuietStep, SameJobs
  <2>2. t \in Elems(finished) => t \in Elems(finished)'
    BY DEF QuietStep
  <2> QED BY <2>1, <2>2, TaskFrame DEF MemInv
<1> QED BY <1>2, <1>3 DEF MemInv

\* The steps of schedule that only move tasks.
LEMMA ScheduleQuiet ==
  ASSUME QInv, MemInv,
         \/ StartIter \/ YieldFront \/ ExtendDone \/ AdmitDone \/ ReorderDefer \/ ReorderReclaim
         \/ ReorderDone \/ DispatchDone
  PROVE  MemInv'
<1>t. QueueType /\ LocalsInv /\ MemType
  BY DEF QInv, MemInv
<1>m. MaxNumBatchedTokens \in Nat
  BY <1>t, SchedulerAssumption DEF MemType, MaxNumBatchedTokens
<1>0. UNCHANGED <<mode, dev, tlen, pending, finished, status, bg>>
  BY DEF StartIter, YieldFront, ExtendDone, AdmitDone, ReorderDefer, ReorderReclaim, ReorderDone,
         DispatchDone, queues
<1>1. pc # "panicked" /\ pc' # "panicked" /\ budget' \in Nat /\ (pc' # "extend" => kept' = <<>>)
  BY <1>t, <1>m DEF StartIter, YieldFront, ExtendDone, AdmitDone, ReorderDefer, ReorderReclaim,
     ReorderDone, DispatchDone, StartDispatch, MemType, locals
<1>2. MemType'
  BY <1>t, <1>0, <1>1 DEF MemType
<1>3. Elems(<<>>) = {}
  BY DEF Elems
<1>4. Running' \subseteq Running /\ Ready' \subseteq Ready
  <2>1. CASE StartIter \/ DispatchDone
    BY <2>1 DEF StartIter, DispatchDone, Running, Ready, queues, locals
  <2>2. CASE YieldFront \/ ExtendDone
    BY <1>3, <2>2 DEF YieldFront, ExtendDone, Running, Ready
  <2>3. CASE AdmitDone \/ ReorderDefer \/ ReorderDone
    BY <2>3 DEF AdmitDone, ReorderDefer, ReorderDone, StartDispatch, Running, Ready, queues
  <2>4. CASE ReorderReclaim
    <3> DEFINE s == Head(waiting)
               k == LastOlder(s)
    <3>1. /\ allocated' = SubSeq(allocated, 1, k)
          /\ promoted' = SubSeq(allocated, k + 1, Len(allocated))
          /\ kept' = kept /\ pc = "admit" /\ waiting # <<>>
      BY <2>4 DEF ReorderReclaim, Promoted
    <3>2. k \in 0..Len(allocated)
      <4>1. s \in Seqs
        BY <1>t, <3>1, SortedTail DEF QueueType
      <4> QED BY <1>t, <4>1, LastOlderBound DEF QueueType
    <3> HIDE DEF k
    <3>3. Elems(allocated) = Elems(allocated') \union Elems(promoted')
      BY <1>t, <3>1, <3>2, SortedCut DEF QueueType
    <3> QED BY <3>1, <3>3 DEF Running, Ready
  <2> QED BY <2>1, <2>2, <2>3, <2>4
<1>5. \A t \in Seqs : StaysReady(t)
  BY <1>1, <1>4 DEF StaysReady
<1>6. SameJobs
  BY <1>0 DEF SameJobs, Backed
<1>7. QuietStep
  BY <1>0, <1>1, <1>2, <1>5, <1>6 DEF QuietStep
<1> QED BY <1>0, <1>7, Quiet

\* The task that schedule loses keeps what it holds.
LEMMA ReclaimFailedMem ==
  ASSUME QInv, MemInv, ReclaimFailed
  PROVE  MemInv'
<1>t. QueueType /\ LocalsInv /\ MemType /\ LostInv
  BY DEF QInv, MemInv
<1>0. /\ pc = "reclaim" /\ promoted = <<>> /\ pc' = "admit"
      /\ status' = [status EXCEPT ![cur] = "Dropped"]
      /\ UNCHANGED <<mode, dev, tlen, waiting, allocated, pending, bg, kept, promoted, budget, finished>>
  BY DEF ReclaimFailed, queues
<1>1. cur \in Seqs /\ finished = <<>>
  BY <1>t, <1>0 DEF LocalsInv
<1>2. Gpu' = Gpu /\ Host' = Host /\ Disk' = Disk
  BY <1>0 DEF Gpu, Host, Disk
<1>3. MemType' /\ DevSound'
  BY <1>t, <1>0, <1>2 DEF MemInv, MemType, DevSound
<1>4. \A t \in Seqs : status'[t] = IF t = cur THEN "Dropped" ELSE status[t]
  BY <1>t, <1>0, <1>1 DEF QueueType
<1>5. PlaceOf(cur)
  BY <1>1, OnePlace
<1>6. status[cur] \in {"Waiting", "Allocated"} /\ cur \notin pending
  <2>1. TaskInv(cur) /\ Elems(<<>>) = {}
    BY <1>1 DEF MemInv, Elems
  <2> QED BY <1>1, <1>5, <2>1 DEF PlaceOf, Alive, TaskInv, LenInv
<1>7. LostInv'
  BY <1>t, <1>0, <1>2, <1>4, <1>6 DEF LostInv
<1>8. Running' = Running /\ Ready' = Ready
  BY <1>0 DEF Running, Ready
<1>9. ASSUME NEW t \in Seqs PROVE TaskInv(t)'
  <2>0. TaskInv(t) /\ SameBlocks(t) /\ StaysReady(t) /\ (Backed(t)' <=> Backed(t))
    BY <1>0, <1>2, <1>8 DEF SameBlocks, StaysReady, Backed, MemInv
  <2>1. CASE t # cur
    <3>1. SameState(t)
      BY <1>0, <1>4, <2>0, <2>1 DEF SameState
    <3> QED BY <1>0, <2>0, <3>1, TaskFrame
  <2>2. CASE t = cur
    <3>1. status'[t] = "Dropped" /\ status[t] \in {"Waiting", "Allocated"} /\ t \notin pending
      BY <1>4, <1>6, <2>2
    <3>2. MapInv(t)'
      BY <1>0, <1>2, <2>0, <3>1 DEF TaskInv, MapInv, Alive
    <3>3. LenInv(t)' /\ RunInv(t)'
      BY <1>0, <1>2, <1>8, <2>0, <3>1 DEF TaskInv, LenInv, RunInv
    <3>4. RegionInv(t)'
      BY <1>0, <1>2, <2>0, <3>1 DEF TaskInv, RegionInv
    <3> QED BY <3>2, <3>3, <3>4 DEF TaskInv
  <2> QED BY <2>1, <2>2
<1> QED BY <1>3, <1>7, <1>9 DEF MemInv

\* A background copy moves KV only.
LEMMA BgCopyMem ==
  ASSUME QInv, MemInv, BgCopy
  PROVE  MemInv'
<1>t. QueueType /\ MemType
  BY DEF QInv, MemInv
<1>0. /\ bg # <<>> /\ bg' = [bg EXCEPT ![1].copied = TRUE]
      /\ UNCHANGED <<mode, dev, tlen, pending, finished, status, pc, kept, allocated, promoted, budget>>
  BY DEF BgCopy, queues, locals
<1>1. PICK S : bg \in Seq(S)
  BY DEF QInv, JobInv
<1>2. Len(bg') = Len(bg) /\ \A i \in 1..Len(bg) : bg'[i].to = bg[i].to /\ bg'[i].s = bg[i].s
  <2> DEFINE j == [bg[1] EXCEPT !.copied = TRUE]
  <2>1. bg' = [bg EXCEPT ![1] = j]
    BY <1>0
  <2>2. j.to = bg[1].to /\ j.s = bg[1].s
    OBVIOUS
  <2> HIDE DEF j
  <2>3. Len(bg') = Len(bg) /\ \A i \in 1..Len(bg) : bg'[i] = IF i = 1 THEN j ELSE bg[i]
    BY <1>1, <2>1
  <2> QED BY <2>2, <2>3
<1>3. SameJobs
  BY <1>2 DEF SameJobs, Backed
<1>4. MemType'
  BY <1>t, <1>0, <1>2 DEF MemType
<1>5. \A t \in Seqs : StaysReady(t)
  BY <1>0 DEF StaysReady, Running, Ready
<1>6. QuietStep
  BY <1>0, <1>3, <1>4, <1>5 DEF QuietStep
<1> QED BY <1>0, <1>6, Quiet

\* A sequence with no map has nothing, and full blocks only.
LEMMA NoMapCached ==
  ASSUME NEW n \in Nat, NEW tl, NEW x, Sound(x, n, tl), NEW s \in Seqs, ~x.map[s].live
  PROVE  x.map[s] = NoMap /\ AllCached(x, s) /\ x.map[s].filled % BlockSize = 0
<1>1. x.map[s] = NoMap
  BY DEF Sound, MapOK
<1>2. NoMap.slots = 0 /\ NoMap.filled = 0 /\ NoMap.ids = <<>> /\ Len(<<>>) = 0
  BY DEF NoMap
<1>3. BlockSize * 0 = 0 /\ 0 % BlockSize = 0
  BY SizeAssumption
<1> QED BY <1>1, <1>2, <1>3 DEF AllCached

\* A reserved request waits with no host blocks of its own.
LEMMA PendReservedMem ==
  ASSUME QInv, MemInv, NEW s \in Seqs, PendReserved(s)
  PROVE  MemInv'
<1>t. QueueType /\ MemType /\ LostInv /\ DevSound
  BY DEF QInv, MemInv
<1>0. /\ status[s] = "Reserved" /\ pending' = pending \union {s}
      /\ status' = [status EXCEPT ![s] = "Waiting"]
      /\ UNCHANGED <<mode, dev, tlen, waiting, allocated, promoted, bg, kept, budget, finished, pc>>
  BY DEF PendReserved, locals
<1>2. Gpu' = Gpu /\ Host' = Host /\ Disk' = Disk
  BY <1>0 DEF Gpu, Host, Disk
<1>3. MemType' /\ DevSound'
  BY <1>t, <1>0, <1>2 DEF MemType, DevSound
<1>4. \A t \in Seqs : status'[t] = IF t = s THEN "Waiting" ELSE status[t]
  BY <1>t, <1>0 DEF QueueType
<1>7. LostInv'
  BY <1>t, <1>0, <1>2, <1>4 DEF LostInv, Alive
<1>8. Running' = Running /\ Ready' = Ready
  BY <1>0 DEF Running, Ready
<1>9. ASSUME NEW t \in Seqs PROVE TaskInv(t)'
  <2>0. TaskInv(t) /\ SameBlocks(t) /\ StaysReady(t) /\ (Backed(t)' <=> Backed(t))
    BY <1>0, <1>2, <1>8 DEF SameBlocks, StaysReady, Backed, MemInv
  <2>1. CASE t # s
    <3>1. SameState(t)
      BY <1>0, <1>4, <2>0, <2>1 DEF SameState
    <3> QED BY <1>0, <2>0, <3>1, TaskFrame
  <2>2. CASE t = s
    <3>1. status'[t] = "Waiting" /\ status[t] = "Reserved" /\ t \in pending'
      BY <1>0, <1>4, <2>2
    <3>2. ~Host.map[t].live /\ ~Gpu.map[t].live
      BY <2>0, <3>1 DEF TaskInv, MapInv
    <3>3. AllCached(Host, t)
      BY <1>t, <3>2, Lens, NoMapCached DEF DevSound
    <3>4. MapInv(t)'
      BY <1>2, <2>0, <3>1, <3>2, <3>3 DEF TaskInv, MapInv, Alive
    <3>5. LenInv(t)' /\ RunInv(t)'
      BY <1>0, <1>2, <1>8, <2>0, <3>1 DEF TaskInv, LenInv, RunInv
    <3>6. RegionInv(t)'
      BY <1>2, <2>0, <3>1 DEF TaskInv, RegionInv
    <3> QED BY <3>4, <3>5, <3>6 DEF TaskInv
  <2> QED BY <2>1, <2>2
<1> QED BY <1>3, <1>7, <1>9 DEF MemInv

-----------------------------------------------------------------------------
(* The handlers *)

\* A multiple of the block size leaves no tokens over.
LEMMA WholeBlocks ==
  ASSUME NEW k \in Nat
  PROVE  (BlockSize * k) % BlockSize = 0 /\ (k * BlockSize) % BlockSize = 0
<1> DEFINE a == k * BlockSize
<1>1. BlockSize \in Nat \ {0} /\ a \in Nat
  BY SizeAssumption
<1>2. a % BlockSize \in 0..(BlockSize - 1) /\ a = BlockSize * (a \div BlockSize) + (a % BlockSize)
      /\ a \div BlockSize \in Nat
  BY ONLY <1>1
<1> DEFINE q == a \div BlockSize
           r == a % BlockSize
<1>3. q \in Nat /\ r \in 0..(BlockSize - 1) /\ k * BlockSize = BlockSize * q + r
  BY <1>2
<1> HIDE DEF q, r
<1>4. r = 0
  <2>1. CASE q = k
    BY ONLY <1>1, <1>3, <2>1
  <2>2. CASE q < k
    <3>1. q * BlockSize + BlockSize <= k * BlockSize
      BY <1>3, <2>2, MulMono
    <3> QED BY ONLY <1>1, <1>3, <3>1
  <2>3. CASE k < q
    <3>1. k * BlockSize + BlockSize <= q * BlockSize
      BY <1>3, <2>3, MulMono
    <3> QED BY ONLY <1>1, <1>3, <3>1
  <2> QED BY ONLY <1>3, <2>1, <2>2, <2>3, k \in Nat
<1>5. a % BlockSize = 0
  BY <1>4 DEF r
<1>6. BlockSize * k = k * BlockSize
  BY ONLY <1>1, k \in Nat
<1> QED BY <1>5, <1>6

\* A sequence with full blocks only has filled whole blocks.
LEMMA CachedAligned ==
  ASSUME NEW n \in Nat, NEW x \in Manager(n), NEW s \in Seqs, AllCached(x, s)
  PROVE  x.map[s].filled % BlockSize = 0
<1>1. x.map[s].filled = BlockSize * Len(x.map[s].ids) /\ Len(x.map[s].ids) \in Nat
  BY MapFields DEF AllCached
<1> QED BY <1>1, WholeBlocks

\* What the lookups of add_request leave: hits, and nothing else changed.
LEMMA HitsFacts ==
  ASSUME MemInv, NEW s \in Seqs, status[s] = "New", NEW y, NEW z,
         y = Hits("host", s), z = Hits("disk", s)
  PROVE  /\ Sound(y, NumHost, tlen) /\ OnlyMap(Host, y, s) /\ AllCached(y, s) /\ y.map[s].live
         /\ y.map[s].filled % BlockSize = 0
         /\ Sound(z, NumDisk, tlen) /\ OnlyMap(Disk, z, s) /\ z.map[s].live
         /\ z.map[s].filled % BlockSize = 0
<1>0. MemType /\ DevSound /\ TaskInv(s)
  BY DEF MemInv
<1>1. ~Host.map[s].live /\ ~Disk.map[s].live
  BY <1>0 DEF TaskInv, MapInv
<1>2. y = init_prefix_cache_blocks(Host, s, tlen[s]) /\ z = init_prefix_cache_blocks(Disk, s, tlen[s])
  BY DEF Hits, Host, Disk
<1>3. /\ Sound(y, NumHost, tlen) /\ OnlyMap(Host, y, s) /\ AllCached(y, s) /\ y.map[s].live
      /\ Sound(z, NumDisk, tlen) /\ OnlyMap(Disk, z, s) /\ AllCached(z, s) /\ z.map[s].live
  BY <1>0, <1>1, <1>2, Lens, InitSound DEF DevSound
<1>4. y \in Manager(NumHost) /\ z \in Manager(NumDisk)
  BY <1>3 DEF Sound
<1> QED BY <1>0, <1>3, <1>4, Lens, CachedAligned

\* A new request enters with its hits.
LEMMA AddRequestMem ==
  ASSUME QInv, MemInv, NEW s \in Seqs, AddRequest(s)
  PROVE  MemInv'
<1>t. QueueType /\ MemType /\ LostInv /\ DevSound
  BY DEF QInv, MemInv
<1> DEFINE h == Hits("host", s)
           d == Hits("disk", s)
<1>0. /\ status[s] = "New" /\ dev' = [dev EXCEPT !["host"] = h, !["disk"] = d]
      /\ status' = [status EXCEPT ![s] = "Waiting"]
      /\ UNCHANGED <<mode, tlen, pending, allocated, promoted, bg, kept, budget, finished, pc>>
  BY DEF AddRequest, Arrives, locals
<1>1. /\ Sound(h, NumHost, tlen) /\ OnlyMap(Host, h, s) /\ AllCached(h, s) /\ h.map[s].live
      /\ h.map[s].filled % BlockSize = 0
      /\ Sound(d, NumDisk, tlen) /\ OnlyMap(Disk, d, s) /\ d.map[s].live
      /\ d.map[s].filled % BlockSize = 0
  BY <1>0, HitsFacts
<1> HIDE DEF h, d
<1>2. Gpu' = Gpu /\ Host' = h /\ Disk' = d /\ DOMAIN dev' = Devices
  BY <1>t, <1>0 DEF Gpu, Host, Disk, MemType, Devices
<1>3. MemType' /\ DevSound'
  BY <1>t, <1>0, <1>1, <1>2 DEF MemType, DevSound
<1>4. \A t \in Seqs : status'[t] = IF t = s THEN "Waiting" ELSE status[t]
  BY <1>t, <1>0 DEF QueueType
<1>7. LostInv'
  BY <1>t, <1>0, <1>1, <1>2, <1>4 DEF LostInv, Alive, OnlyMap
<1>8. Running' = Running /\ Ready' = Ready
  BY <1>0 DEF Running, Ready
<1>9. ASSUME NEW t \in Seqs PROVE TaskInv(t)'
  <2>0. TaskInv(t) /\ StaysReady(t) /\ (Backed(t)' <=> Backed(t)) /\ PlaceOf(t)
    BY <1>0, <1>8, OnePlace DEF StaysReady, Backed, MemInv
  <2>1. CASE t # s
    <3>1. SameState(t)
      BY <1>0, <1>4, <2>0, <2>1 DEF SameState
    <3>2. SameBlocks(t)
      BY <1>1, <1>2, <2>1 DEF SameBlocks, OnlyMap
    <3> QED BY <1>0, <2>0, <3>1, <3>2, TaskFrame
  <2>2. CASE t = s
    <3>1. /\ status'[t] = "Waiting" /\ status[t] = "New" /\ t \notin pending /\ t \notin Running
          /\ t \notin Ready
      BY <1>0, <1>4, <2>0, <2>2 DEF PlaceOf, Alive, Running, Ready
    <3>2. ~Gpu.map[t].live
      BY <2>0, <3>1 DEF TaskInv, MapInv
    <3>4. MapInv(t)'
      BY <1>0, <1>1, <1>2, <2>2, <3>1, <3>2 DEF MapInv, Alive
    <3>5. LenInv(t)' /\ RunInv(t)'
      BY <1>0, <1>2, <1>8, <2>0, <3>1 DEF TaskInv, LenInv, RunInv
    <3>6. RegionInv(t)'
      BY <1>0, <1>1, <1>2, <2>0, <3>1 DEF TaskInv, RegionInv, OnlyMap
    <3> QED BY <3>4, <3>5, <3>6 DEF TaskInv
  <2> QED BY <2>1, <2>2
<1> QED BY <1>3, <1>7, <1>9 DEF MemInv

\* reserve_copy_blocks finds the blocks it has checked for.
LEMMA ReserveCopy ==
  ASSUME NEW n \in Nat, NEW m \in Nat, NEW tl \in [Seqs -> 0..MaxLen],
         NEW x, Sound(x, n, tl), NEW y, Sound(y, m, tl), NEW s \in Seqs,
         NEW r \in Regions, y.resv[r] = <<>>, CanReserveCopy(x, y, s),
         NEW z, z = reserve_copy_blocks(x, y, s, r)
  PROVE  /\ Sound(z, m, tl) /\ z.map = y.map /\ z.lost = y.lost
         /\ \A q \in Regions : q # r => z.resv[q] = y.resv[q]
<1> DEFINE f == x.map[s].filled
           g == y.map[s].filled
           c == get_block_ids_range(x, s, g, f, FALSE)
           j == g \div BlockSize
           i == f \div BlockSize
           k == IF i > j THEN i - j ELSE 0
           new == Popped(y, k)
<1>0. x \in Manager(n) /\ y \in Manager(m) /\ BlockSize \in Nat \ {0} /\ MaxLen \in Nat
  BY SizeAssumption DEF Sound
<1>1. f \in 0..MaxLen /\ g \in 0..MaxLen
  BY <1>0, MapFields
<1>2. j \in Nat /\ i \in Nat
  <2>1. f \in Nat /\ g \in Nat
    BY <1>0, <1>1
  <2> HIDE DEF f, g
  <2> QED BY ONLY <2>1, DivBounds
<1>3. CopySources(x, y, s) # <<>> /\ can_alloc_blocks(y, Len(CopySources(x, y, s)), 100)
  BY DEF CanReserveCopy
<1>4. CopySources(x, y, s) = c.ids
  BY <1>3 DEF CopySources
<1>5. Len(c.ids) = i - j /\ j < i
  <2>1. f \in Nat /\ g \in Nat /\ f <= x.map[s].filled
    BY <1>0, <1>1
  <2>2. c.ids # <<>> /\ FullIdsOf(c, x, s, g, f)
    BY <1>3, <1>4 DEF FullIdsOf
  <2> HIDE DEF c, f, g
  <2>3. /\ Len(c.ids) = (f \div BlockSize) - (g \div BlockSize)
        /\ g \div BlockSize < f \div BlockSize
    BY ONLY <2>1, <2>2, FullRange, n \in Nat, Sound(x, n, tl), s \in Seqs
  <2> QED BY <2>3
<1>6. k = Len(c.ids)
  <2> HIDE DEF c, i, j
  <2> QED BY ONLY <1>2, <1>5 DEF k
<1>7. k \in Nat
  <2> HIDE DEF i, j
  <2> QED BY ONLY <1>2 DEF k
<1>8. ~Exhausts(y, k)
  <2>1. y.total = m /\ Len(y.free) \in Nat
    BY <1>0, ManagerFields
  <2>2. (m - Len(y.free)) + k <= (100 * m) \div 100
    BY <1>3, <1>4, <1>6, <2>1 DEF can_alloc_blocks
  <2> DEFINE e == Len(y.free)
  <2>3. (m - e) + k <= (100 * m) \div 100 /\ e \in Nat
    BY <2>1, <2>2
  <2> HIDE DEF e, k
  <2>4. (100 * m) \div 100 = m
    BY ONLY m \in Nat
  <2>5. k <= e
    BY ONLY <1>7, <2>3, <2>4, m \in Nat
  <2> QED BY ONLY <1>7, <2>3, <2>5 DEF Exhausts, e
<1>9. z = reserve_blocks(y, r, s, g, f)
  BY DEF reserve_copy_blocks
<1>10. g \in Nat /\ f \in 0..MaxLen
  BY <1>0, <1>1
<1> HIDE DEF f, g
<1>11. Sound(z, m, tl)
  BY ONLY <1>9, <1>10, ReserveSound, m \in Nat, tl \in [Seqs -> 0..MaxLen], Sound(y, m, tl),
     r \in Regions, y.resv[r] = <<>>, s \in Seqs
<1>12. ReservedFor(y, z, m, r, s, j, k, new)
  <2>1. j = g \div BlockSize /\ new = Popped(y, k)
        /\ k = IF f \div BlockSize > j THEN (f \div BlockSize) - j ELSE 0
    OBVIOUS
  <2> HIDE DEF j, k, new
  <2> QED BY ONLY <1>7, <1>9, <2>1, ReserveEffect, m \in Nat, Sound(y, m, tl)
<1> HIDE DEF k, new, j
<1>13. z.map = y.map /\ z.resv = [y.resv EXCEPT ![r] = new] /\ z.lost = y.lost
  BY ONLY <1>8, <1>12 DEF ReservedFor
<1>14. y.resv \in [Regions -> Seq(Blocks(m))]
  BY <1>0, ManagerFields
<1>15. \A q \in Regions : q # r => z.resv[q] = y.resv[q]
  BY ONLY <1>13, <1>14
<1> QED BY <1>11, <1>13, <1>15

\* Appending a job.
LEMMA JobAppended ==
  ASSUME JobInv, NEW job, bg' = Append(bg, job)
  PROVE  /\ Len(bg') = Len(bg) + 1 /\ Len(bg) \in Nat
         /\ \A i \in 1..Len(bg) : bg'[i] = bg[i]
         /\ bg'[Len(bg) + 1] = job
         /\ \A t : Backed(t)' <=> Backed(t) \/ (job.to = "disk" /\ job.s = t)
         /\ (\A i \in 1..Len(bg) : bg[i].s \in Seqs) /\ job.s \in Seqs =>
               \A i \in 1..Len(bg') : bg'[i].s \in Seqs
<1>1. PICK S : bg \in Seq(S)
  BY DEF JobInv
<1>2. bg \in Seq(S \union {job})
  BY <1>1
<1>3. /\ Len(bg') = Len(bg) + 1 /\ Len(bg) \in Nat
      /\ \A i \in 1..Len(bg) : bg'[i] = bg[i]
      /\ bg'[Len(bg) + 1] = job
  BY <1>2
<1>4. \A i : i \in 1..Len(bg') <=> i \in 1..Len(bg) \/ i = Len(bg) + 1
  BY <1>3
<1>5. \A t : Backed(t)' <=> Backed(t) \/ (job.to = "disk" /\ job.s = t)
  BY <1>3, <1>4 DEF Backed
<1>6. (\A i \in 1..Len(bg) : bg[i].s \in Seqs) /\ job.s \in Seqs =>
          \A i \in 1..Len(bg') : bg'[i].s \in Seqs
  BY <1>3, <1>4
<1> QED BY <1>3, <1>5, <1>6

\* ... or with its hits and blocks for a stage of what the disk has.
LEMMA AddRequestStagedMem ==
  ASSUME QInv, MemInv, NEW s \in Seqs, AddRequestStaged(s)
  PROVE  MemInv'
<1>t. QueueType /\ MemType /\ LostInv /\ DevSound /\ JobInv
  BY DEF QInv, MemInv
<1> DEFINE h == Hits("host", s)
           d == Hits("disk", s)
           y == reserve_copy_blocks(d, h, s, <<"in", s>>)
           job == [s |-> s, from |-> "disk", to |-> "host", copied |-> FALSE,
                   map |-> zip(CopySources(d, h, s), y.resv[<<"in", s>>])]
<1>0. /\ status[s] = "New" /\ dev' = [dev EXCEPT !["host"] = y, !["disk"] = d]
      /\ CanReserveCopy(d, h, s)
      /\ status' = [status EXCEPT ![s] = "Waiting"]
      /\ pending' = pending \union {s} /\ bg' = Append(bg, job)
      /\ UNCHANGED <<mode, tlen, allocated, promoted, kept, budget, finished, pc>>
  BY DEF AddRequestStaged, Arrives, ShouldStage, locals
<1>j. job.to = "host" /\ job.s = s
  OBVIOUS
<1>1. /\ Sound(h, NumHost, tlen) /\ OnlyMap(Host, h, s) /\ AllCached(h, s) /\ h.map[s].live
      /\ h.map[s].filled % BlockSize = 0
      /\ Sound(d, NumDisk, tlen) /\ OnlyMap(Disk, d, s) /\ d.map[s].live
      /\ d.map[s].filled % BlockSize = 0
  BY <1>0, HitsFacts
<1> HIDE DEF h, d, job
<1>a. /\ TaskInv(s) /\ s \notin pending /\ In(s) \in Regions /\ PlaceOf(s)
  BY <1>0, OnePlace, RegionNames DEF MemInv, PlaceOf, Alive
<1>b. h.resv[In(s)] = <<>>
  BY <1>0, <1>1, <1>a DEF OnlyMap, TaskInv, RegionInv
<1>c. /\ Sound(y, NumHost, tlen) /\ y.map = h.map /\ y.lost = h.lost
      /\ \A q \in Regions : q # In(s) => y.resv[q] = h.resv[q]
  <2>1. y = reserve_copy_blocks(d, h, s, In(s))
    BY DEF In
  <2> HIDE DEF y
  <2> QED BY <1>t, <1>0, <1>1, <1>a, <1>b, <2>1, Lens, ReserveCopy
<1> HIDE DEF y
<1>2. Gpu' = Gpu /\ Host' = y /\ Disk' = d /\ DOMAIN dev' = Devices
  BY <1>t, <1>0 DEF Gpu, Host, Disk, MemType, Devices
<1>k. /\ \A t : Backed(t)' <=> Backed(t)
      /\ \A i \in 1..Len(bg') : bg'[i].s \in Seqs
  BY <1>t, <1>0, <1>j, JobAppended DEF MemType
<1>3. MemType' /\ DevSound'
  BY <1>t, <1>0, <1>1, <1>2, <1>c, <1>k DEF MemType, DevSound
<1>4. \A t \in Seqs : status'[t] = IF t = s THEN "Waiting" ELSE status[t]
  BY <1>t, <1>0 DEF QueueType
<1>7. LostInv'
  BY <1>t, <1>0, <1>1, <1>2, <1>4, <1>c DEF LostInv, Alive, OnlyMap
<1>8. Running' = Running /\ Ready' = Ready
  BY <1>0 DEF Running, Ready
<1>9. ASSUME NEW t \in Seqs PROVE TaskInv(t)'
  <2>0. TaskInv(t) /\ StaysReady(t) /\ (Backed(t)' <=> Backed(t)) /\ PlaceOf(t)
    BY <1>0, <1>8, <1>k, OnePlace DEF StaysReady, MemInv
  <2>n. /\ In(t) \in Regions /\ Out(t) \in Regions /\ Out(t) # In(s) /\ (t # s => In(t) # In(s))
    BY RegionNames
  <2>1. CASE t # s
    <3>1. SameState(t)
      BY <1>0, <1>4, <2>0, <2>1 DEF SameState
    <3>2. SameBlocks(t)
      BY <1>1, <1>2, <1>c, <2>1, <2>n DEF SameBlocks, OnlyMap
    <3> QED BY <1>0, <2>0, <3>1, <3>2, TaskFrame
  <2>2. CASE t = s
    <3>1. /\ status'[t] = "Waiting" /\ status[t] = "New" /\ t \in pending' /\ t \notin Running
          /\ t \notin Ready
      BY <1>0, <1>4, <2>0, <2>2 DEF PlaceOf, Alive, Running, Ready
    <3>2. ~Gpu.map[t].live
      BY <2>0, <3>1 DEF TaskInv, MapInv
    <3>4. MapInv(t)'
      BY <1>1, <1>2, <1>c, <2>2, <3>1, <3>2 DEF MapInv, Alive, AllCached
    <3>5. LenInv(t)' /\ RunInv(t)'
      BY <1>0, <1>2, <1>8, <2>0, <3>1 DEF TaskInv, LenInv, RunInv
    <3>6. RegionInv(t)'
      BY <1>1, <1>2, <1>c, <2>0, <2>n, <3>1 DEF TaskInv, RegionInv, OnlyMap
    <3> QED BY <3>4, <3>5, <3>6 DEF TaskInv
  <2> QED BY <2>1, <2>2
<1> QED BY <1>3, <1>7, <1>9 DEF MemInv

\* A request from another node gets host blocks for its full blocks, or fails.
LEMMA ReserveRequestMem ==
  ASSUME QInv, MemInv, NEW s \in Seqs, ReserveRequest(s)
  PROVE  MemInv'
<1>t. QueueType /\ MemType /\ LostInv /\ DevSound
  BY DEF QInv, MemInv
<1> DEFINE y == reserve_blocks(Host, In(s), s, 0, tlen[s])
           k == tlen[s] \div BlockSize
           v == IF Exhausts(Host, k) THEN "Failed" ELSE "Reserved"
           new == Popped(Host, k)
<1>0. /\ status[s] = "New" /\ dev' = [dev EXCEPT !["host"] = y]
      /\ status' = [status EXCEPT ![s] = v]
      /\ UNCHANGED <<mode, tlen, pending, allocated, promoted, bg, kept, budget, finished, pc>>
  BY DEF ReserveRequest, Arrives, locals, queues, Host, In
<1>a. /\ TaskInv(s) /\ s \notin pending /\ In(s) \in Regions /\ PlaceOf(s)
  BY <1>0, OnePlace, RegionNames DEF MemInv, PlaceOf, Alive
<1>b. Host.resv[In(s)] = <<>>
  BY <1>0, <1>a DEF TaskInv, RegionInv
<1>c. tlen[s] \in 0..MaxLen /\ tlen[s] \in Nat /\ k \in Nat
  <2>1. tlen[s] \in 0..MaxLen /\ tlen[s] \in Nat
    BY <1>t, Lens
  <2> QED BY <2>1, DivBounds
<1>d. Sound(y, NumHost, tlen)
  BY <1>t, <1>b, <1>c, <1>a, Lens, ReserveSound DEF DevSound
<1>e. ReservedFor(Host, y, NumHost, In(s), s, 0, k, new)
  <2>1. 0 = 0 \div BlockSize /\ new = Popped(Host, k) /\ y = reserve_blocks(Host, In(s), s, 0, tlen[s])
    BY SizeAssumption
  <2>2. k = IF tlen[s] \div BlockSize > 0 THEN (tlen[s] \div BlockSize) - 0 ELSE 0
    <3>1. k = tlen[s] \div BlockSize
      OBVIOUS
    <3> HIDE DEF k
    <3> QED BY ONLY <1>c, <3>1
  <2> HIDE DEF k, new, y
  <2> QED BY <1>t, <1>c, <2>1, <2>2, Lens, ReserveEffect DEF DevSound
<1>v. v \in {"Failed", "Reserved"} /\ (v = "Failed" <=> Exhausts(Host, k))
  OBVIOUS
<1> HIDE DEF k, new, y, v
<1>f. /\ y.map = Host.map /\ (v = "Reserved" => y.lost = Host.lost)
      /\ \A r \in Regions : r # In(s) => y.resv[r] = Host.resv[r]
      /\ v = "Failed" => y.resv[In(s)] = <<>>
  <2>1. Host.resv \in [Regions -> Seq(Blocks(NumHost))]
    BY <1>t, Lens, ManagerFields DEF DevSound, Sound
  <2>2. /\ y.map = Host.map /\ (~Exhausts(Host, k) => y.lost = Host.lost)
        /\ y.resv = [Host.resv EXCEPT ![In(s)] = IF Exhausts(Host, k) THEN Host.resv[In(s)] ELSE new]
    BY ONLY <1>e DEF ReservedFor
  <2> QED BY ONLY <1>a, <1>b, <1>v, <2>1, <2>2
<1>2. Gpu' = Gpu /\ Host' = y /\ Disk' = Disk /\ DOMAIN dev' = Devices
  BY <1>t, <1>0 DEF Gpu, Host, Disk, MemType, Devices
<1>3. MemType' /\ DevSound'
  BY <1>t, <1>0, <1>d, <1>2 DEF MemType, DevSound
<1>4. \A t \in Seqs : status'[t] = IF t = s THEN v ELSE status[t]
  BY <1>t, <1>0 DEF QueueType
<1>7. LostInv'
  BY <1>t, <1>0, <1>2, <1>4, <1>f, <1>v DEF LostInv, Alive
<1>8. Running' = Running /\ Ready' = Ready
  BY <1>0 DEF Running, Ready
<1>9. ASSUME NEW t \in Seqs PROVE TaskInv(t)'
  <2>0. TaskInv(t) /\ StaysReady(t) /\ (Backed(t)' <=> Backed(t)) /\ PlaceOf(t)
    BY <1>0, <1>8, OnePlace DEF StaysReady, Backed, MemInv
  <2>n. /\ In(t) \in Regions /\ Out(t) \in Regions /\ Out(t) # In(s) /\ (t # s => In(t) # In(s))
    BY RegionNames
  <2>1. CASE t # s
    <3>1. SameState(t)
      BY <1>0, <1>4, <2>0, <2>1 DEF SameState
    <3>2. SameBlocks(t)
      BY <1>2, <1>f, <2>1, <2>n DEF SameBlocks
    <3> QED BY <1>0, <2>0, <3>1, <3>2, TaskFrame
  <2>2. CASE t = s
    <3>1. status'[t] = v /\ status[t] = "New" /\ t \notin pending /\ t \notin pending'
      BY <1>0, <1>a, <1>4, <2>2
    <3>2. ~Gpu.map[t].live /\ ~Host.map[t].live /\ ~Disk.map[t].live
      BY <2>0, <3>1 DEF TaskInv, MapInv
    <3>4. MapInv(t)'
      BY <1>2, <1>f, <1>v, <2>0, <3>1, <3>2 DEF TaskInv, MapInv, Alive
    <3>5. LenInv(t)' /\ RunInv(t)'
      BY <1>0, <1>2, <1>8, <1>v, <2>0, <3>1 DEF TaskInv, LenInv, RunInv
    <3>6. RegionInv(t)'
      BY <1>2, <1>f, <1>v, <2>0, <2>2, <2>n, <3>1 DEF TaskInv, RegionInv
    <3> QED BY <3>4, <3>5, <3>6 DEF TaskInv
  <2> QED BY <2>1, <2>2
<1> QED BY <1>3, <1>7, <1>9 DEF MemInv

\* trigger_pend_task: the region is given up, and what has arrived is a hit.
LEMMA TriggerMem ==
  ASSUME QInv, MemInv, NEW s \in pending, NEW hs,
         dev' = [dev EXCEPT !["host"] = trigger_pend_task(s, hs)],
         pending' = pending \ {s},
         UNCHANGED <<mode, tlen, status, allocated, promoted, kept, budget, finished, pc>>,
         \A t : Backed(t)' <=> Backed(t), \A i \in 1..Len(bg') : bg'[i].s \in Seqs
  PROVE  MemInv'
<1>t. QueueType /\ MemType /\ LostInv /\ DevSound
  BY DEF QInv, MemInv
<1>s. s \in Seqs
  BY <1>t DEF QueueType
<1> DEFINE x == activate_reserved_blocks(Host, In(s), hs)
           y == update_prefix_cache_blocks(x, s, tlen[s])
<1>0. dev' = [dev EXCEPT !["host"] = y]
  BY DEF trigger_pend_task, Host, In
<1>a. TaskInv(s) /\ In(s) \in Regions /\ PlaceOf(s)
  BY <1>s, OnePlace, RegionNames DEF MemInv
<1>b. Sound(x, NumHost, tlen) /\ OnlyRegion(Host, x, In(s), <<>>)
  BY <1>t, <1>a, Lens, ActivateSound DEF DevSound
<1> HIDE DEF x
<1>c. /\ x.map = Host.map /\ x.lost = Host.lost /\ x.resv[In(s)] = <<>>
      /\ \A r \in Regions : r # In(s) => x.resv[r] = Host.resv[r]
  <2>1. Host.resv \in [Regions -> Seq(Blocks(NumHost))]
    BY <1>t, Lens, ManagerFields DEF DevSound, Sound
  <2> QED BY ONLY <1>a, <1>b, <2>1 DEF OnlyRegion
<1>d. AllCached(x, s)
  BY <1>a, <1>c DEF TaskInv, MapInv, AllCached
<1>e. Sound(y, NumHost, tlen) /\ OnlyMap(x, y, s) /\ AllCached(y, s) /\ y.map[s].live
  BY <1>t, <1>s, <1>b, <1>d, Lens, UpdateSound
<1> HIDE DEF y
<1>f. y.map[s].filled % BlockSize = 0
  BY <1>t, <1>s, <1>e, Lens, CachedAligned DEF Sound
<1>g. y.resv = x.resv /\ y.lost = x.lost /\ \A t \in Seqs : t # s => y.map[t] = x.map[t]
  BY ONLY <1>e DEF OnlyMap
<1>2. Gpu' = Gpu /\ Host' = y /\ Disk' = Disk /\ DOMAIN dev' = Devices
  BY <1>t, <1>0 DEF Gpu, Host, Disk, MemType, Devices
<1>3. MemType' /\ DevSound'
  BY <1>t, <1>e, <1>2 DEF MemType, DevSound
<1>7. LostInv'
  BY <1>t, <1>2, <1>c, <1>g DEF LostInv
<1>8. Running' = Running /\ Ready' = Ready
  BY DEF Running, Ready
<1>9. ASSUME NEW t \in Seqs PROVE TaskInv(t)'
  <2>0. TaskInv(t) /\ StaysReady(t)
    BY <1>8 DEF StaysReady, MemInv
  <2>n. /\ In(t) \in Regions /\ Out(t) \in Regions /\ Out(t) # In(s) /\ (t # s => In(t) # In(s))
    BY <1>s, RegionNames
  <2>1. CASE t # s
    <3>1. SameState(t)
      BY <2>1 DEF SameState
    <3>2. SameBlocks(t)
      BY <1>2, <1>c, <1>g, <2>1, <2>n DEF SameBlocks
    <3> QED BY <2>0, <3>1, <3>2, TaskFrame
  <2>2. CASE t = s
    <3>1. status[t] \in Alive /\ status'[t] = status[t] /\ t \notin pending' /\ t \in pending
          /\ t \notin Elems(finished)
      BY <1>a, <2>2 DEF PlaceOf
    <3>2. status[t] \in {"Waiting", "Allocated"}
      BY <2>0, <3>1 DEF TaskInv, LenInv, Alive
    <3>4. MapInv(t)'
      BY <1>2, <1>e, <1>f, <2>0, <2>2, <3>1, <3>2 DEF TaskInv, MapInv, Alive
    <3>5. LenInv(t)' /\ RunInv(t)'
      BY <1>2, <1>8, <2>0, <3>1 DEF TaskInv, LenInv, RunInv
    <3>6. RegionInv(t)'
      BY <1>2, <1>c, <1>g, <2>0, <2>2, <2>n, <3>1 DEF TaskInv, RegionInv
    <3> QED BY <3>4, <3>5, <3>6 DEF TaskInv
  <2> QED BY <2>1, <2>2
<1> QED BY <1>3, <1>7, <1>9 DEF MemInv

\* Removing the job at the front.
LEMMA JobRemoved ==
  ASSUME JobInv, bg # <<>>, bg' = Tail(bg)
  PROVE  /\ \A t : Backed(t) <=> Backed(t)' \/ (Head(bg).to = "disk" /\ Head(bg).s = t)
         /\ (\A i \in 1..Len(bg) : bg[i].s \in Seqs) =>
               Head(bg).s \in Seqs /\ \A i \in 1..Len(bg') : bg'[i].s \in Seqs
<1>1. PICK S : bg \in Seq(S)
  BY DEF JobInv
<1>2. /\ Len(bg) \in Nat \ {0} /\ Len(bg') = Len(bg) - 1 /\ Head(bg) = bg[1]
      /\ \A i \in 1..Len(bg') : bg'[i] = bg[i + 1]
  BY <1>1
<1>3. \A t : Backed(t) => Backed(t)' \/ (Head(bg).to = "disk" /\ Head(bg).s = t)
  <2> SUFFICES ASSUME NEW t, NEW i \in 1..Len(bg), bg[i].to = "disk", bg[i].s = t, i # 1
               PROVE  Backed(t)'
    BY <1>2 DEF Backed
  <2>1. i - 1 \in 1..Len(bg') /\ bg'[i - 1] = bg[i]
    <3>1. i - 1 \in 1..Len(bg') /\ (i - 1) + 1 = i
      BY <1>2
    <3> QED BY <1>2, <3>1
  <2> QED BY <2>1 DEF Backed
<1>4. \A t : Backed(t)' \/ (Head(bg).to = "disk" /\ Head(bg).s = t) => Backed(t)
  <2>1. \A i \in 1..Len(bg') : i + 1 \in 1..Len(bg)
    BY <1>2
  <2> QED BY <1>2, <2>1 DEF Backed
<1>5. (\A i \in 1..Len(bg) : bg[i].s \in Seqs) =>
          Head(bg).s \in Seqs /\ \A i \in 1..Len(bg') : bg'[i].s \in Seqs
  <2>1. 1 \in 1..Len(bg) /\ \A i \in 1..Len(bg') : i + 1 \in 1..Len(bg)
    BY <1>2
  <2> QED BY <1>2, <2>1
<1> QED BY <1>3, <1>4, <1>5

\* What the prefill node has pushed, and what a stage has copied, are hits.
LEMMA TriggerRequestMem ==
  ASSUME QInv, MemInv, NEW s \in Seqs, NEW n \in 0..NumFull, TriggerRequest(s, n)
  PROVE  MemInv'
<1> DEFINE ids == dev["host"].resv[<<"in", s>>]
           hs == {dev["host"].hash[b] : b \in {ids[i] : i \in 1..n}}
<1>1. /\ s \in pending /\ dev' = [dev EXCEPT !["host"] = trigger_pend_task(s, hs)]
      /\ pending' = pending \ {s}
      /\ UNCHANGED <<mode, tlen, status, allocated, promoted, kept, budget, finished, pc, bg>>
  BY DEF TriggerRequest, locals
<1> HIDE DEF hs
<1>2. (\A t : Backed(t)' <=> Backed(t)) /\ \A i \in 1..Len(bg') : bg'[i].s \in Seqs
  BY <1>1 DEF Backed, MemInv, MemType
<1> QED BY <1>1, <1>2, TriggerMem

\* What a stage has copied is a hit, too.
LEMMA BgStagedMem ==
  ASSUME QInv, MemInv, BgStaged
  PROVE  MemInv'
<1> DEFINE s == Head(bg).s
           hs == Labels("host", <<"in", s>>)
<1>1. /\ bg # <<>> /\ Head(bg).to = "host" /\ bg' = Tail(bg)
      /\ dev' = [dev EXCEPT !["host"] = trigger_pend_task(s, hs)]
      /\ pending' = pending \ {s}
      /\ UNCHANGED <<mode, tlen, status, allocated, promoted, kept, budget, finished, pc>>
  BY DEF BgStaged, locals
<1>2. JobInv /\ MemType
  BY DEF QInv, MemInv
<1>3. s \in pending
  <2>1. PICK S : bg \in Seq(S)
    BY <1>2 DEF JobInv
  <2>2. 1 \in 1..Len(bg) /\ Head(bg) = bg[1]
    BY <1>1, <2>1
  <2> QED BY <1>1, <1>2, <2>2 DEF JobInv, Stages
<1> HIDE DEF hs, s
<1>4. (\A t : Backed(t)' <=> Backed(t)) /\ \A i \in 1..Len(bg') : bg'[i].s \in Seqs
  BY <1>1, <1>2, JobRemoved DEF MemType
<1> QED BY <1>1, <1>3, <1>4, TriggerMem

\* A backup that is done gives its region up.
LEMMA BgSavedMem ==
  ASSUME QInv, MemInv, BgSaved
  PROVE  MemInv'
<1>t. QueueType /\ MemType /\ LostInv /\ DevSound /\ JobInv
  BY DEF QInv, MemInv
<1> DEFINE s == Head(bg).s
           y == activate_reserved_blocks(Disk, Out(s), Labels("disk", Out(s)))
<1>0. /\ bg # <<>> /\ Head(bg).to = "disk" /\ bg' = Tail(bg)
      /\ dev' = [dev EXCEPT !["disk"] = y]
      /\ UNCHANGED <<mode, tlen, status, pending, allocated, promoted, kept, budget, finished, pc>>
  BY DEF BgSaved, locals, queues, Disk, Out
<1>k. /\ \A t : Backed(t) <=> Backed(t)' \/ t = s
      /\ s \in Seqs /\ \A i \in 1..Len(bg') : bg'[i].s \in Seqs
  BY <1>t, <1>0, JobRemoved DEF MemType
<1>a. Out(s) \in Regions
  BY <1>k, RegionNames
<1> HIDE DEF s
<1>b. Sound(y, NumDisk, tlen) /\ OnlyRegion(Disk, y, Out(s), <<>>)
  BY <1>t, <1>a, Lens, ActivateSound DEF DevSound
<1> HIDE DEF y
<1>c. /\ y.map = Disk.map /\ y.lost = Disk.lost /\ y.resv[Out(s)] = <<>>
      /\ \A r \in Regions : r # Out(s) => y.resv[r] = Disk.resv[r]
  <2>1. Disk.resv \in [Regions -> Seq(Blocks(NumDisk))]
    BY <1>t, Lens, ManagerFields DEF DevSound, Sound
  <2> QED BY ONLY <1>a, <1>b, <2>1 DEF OnlyRegion
<1>2. Gpu' = Gpu /\ Host' = Host /\ Disk' = y /\ DOMAIN dev' = Devices
  BY <1>t, <1>0 DEF Gpu, Host, Disk, MemType, Devices
<1>3. MemType' /\ DevSound'
  BY <1>t, <1>0, <1>b, <1>2, <1>k DEF MemType, DevSound
<1>7. LostInv'
  BY <1>t, <1>0, <1>2, <1>c DEF LostInv
<1>8. Running' = Running /\ Ready' = Ready
  BY <1>0 DEF Running, Ready
<1>9. ASSUME NEW t \in Seqs PROVE TaskInv(t)'
  <2>0. TaskInv(t) /\ StaysReady(t)
    BY <1>0, <1>8 DEF StaysReady, MemInv
  <2>n. /\ In(t) \in Regions /\ Out(t) \in Regions /\ In(t) # Out(s) /\ (t # s => Out(t) # Out(s))
    BY <1>k, RegionNames
  <2>1. CASE t # s
    <3>1. SameState(t)
      BY <1>0, <1>k, <2>1 DEF SameState
    <3>2. SameBlocks(t)
      BY <1>2, <1>c, <2>1, <2>n DEF SameBlocks
    <3> QED BY <1>0, <2>0, <3>1, <3>2, TaskFrame
  <2>2. CASE t = s
    <3>4. MapInv(t)'
      BY <1>0, <1>2, <1>c, <2>0 DEF TaskInv, MapInv, AllCached
    <3>5. LenInv(t)' /\ RunInv(t)'
      BY <1>0, <1>2, <1>8, <2>0 DEF TaskInv, LenInv, RunInv
    <3>6. RegionInv(t)'
      BY <1>0, <1>2, <1>c, <1>k, <2>0, <2>2, <2>n DEF TaskInv, RegionInv
    <3> QED BY <3>4, <3>5, <3>6 DEF TaskInv
  <2> QED BY <2>1, <2>2
<1> QED BY <1>3, <1>7, <1>9 DEF MemInv

\* clear_cache forgets labels only.
LEMMA ClearCacheMem ==
  ASSUME QInv, MemInv, ClearCache
  PROVE  MemInv'
<1>t. MemType /\ LostInv /\ DevSound
  BY DEF MemInv
<1>0. /\ dev' = [d \in Devices |-> clear_cache(dev[d])]
      /\ UNCHANGED <<mode, tlen, status, pending, bg, allocated, promoted, kept, budget, finished, pc>>
  BY DEF ClearCache, locals, queues
<1>2. Gpu' = clear_cache(Gpu) /\ Host' = clear_cache(Host) /\ Disk' = clear_cache(Disk)
      /\ DOMAIN dev' = Devices
  BY <1>0 DEF Gpu, Host, Disk, Devices
<1>a. DevSound'
  BY <1>t, <1>0, <1>2, Lens, ClearSound DEF DevSound
<1>b. \A x : clear_cache(x).map = x.map /\ clear_cache(x).resv = x.resv
             /\ clear_cache(x).lost = x.lost /\ clear_cache(x).exhausted = x.exhausted
  BY DEF clear_cache
<1>3. MemType'
  BY <1>t, <1>0, <1>2 DEF MemType
<1>7. LostInv'
  BY <1>t, <1>0, <1>2, <1>b DEF LostInv
<1>9. ASSUME NEW t \in Seqs PROVE TaskInv(t)'
  <2>1. TaskInv(t) /\ StaysReady(t) /\ SameState(t)
    BY <1>0 DEF StaysReady, MemInv, SameState, Running, Ready, Backed
  <2>2. SameBlocks(t)
    BY <1>2, <1>b DEF SameBlocks
  <2> QED BY <1>0, <2>1, <2>2, TaskFrame
<1> QED BY <1>3, <1>7, <1>9, <1>a DEF MemInv

-----------------------------------------------------------------------------
(* Blocks for the tasks of schedule *)

\* OnePlace for all tasks.
LEMMA Everyone == QInv => \A s \in Seqs : PlaceOf(s)
BY OnePlace

\* What an extension of s leaves alone.
Grown(x, y, s) ==
    /\ y.resv = x.resv /\ \A t \in Seqs : t # s => y.map[t] = x.map[t]
    /\ y.map[s].live /\ y.map[s].filled = x.map[s].filled /\ y.lost = x.lost

\* An extension that was checked for finds its blocks.
LEMMA ExtendGrows ==
  ASSUME NEW n \in Nat, NEW tl \in [Seqs -> 0..MaxLen], NEW x, Sound(x, n, tl), NEW s \in Seqs,
         x.map[s].live, NEW wm \in {97, 100}, can_alloc_seq(x, s, tl[s], wm),
         NEW y, y = alloc_blocks(x, s, tl[s])
  PROVE  Sound(y, n, tl) /\ Grown(x, y, s) /\ y.map[s].slots = tl[s]
<1>1. tl[s] \in Nat /\ x \in Manager(n)
  BY SizeAssumption DEF Sound
<1>2. Sound(y, n, tl)
  BY AllocCall
<1>3. CeilDiv(tl[s], BlockSize) - Len(x.map[s].ids) <= Len(x.free)
  BY <1>1, Admitted
<1>4. /\ y.resv = x.resv /\ \A t \in Seqs : t # s => y.map[t] = x.map[t]
      /\ Extends(x, y, s, tl[s])
  BY <1>3, AllocExtends
<1> QED BY <1>2, <1>4 DEF Grown, Extends

\* The host blocks of a task are extended when there is room.
LEMMA HostExtends ==
  ASSUME MemType, DevSound, NEW s \in Seqs, Host.map[s].live,
         NEW y, y = try_extend_infer_task("host", s)
  PROVE  Sound(y, NumHost, tlen) /\ Grown(Host, y, s)
<1>1. y = IF can_alloc_seq(Host, s, tlen[s], 100) THEN alloc_blocks(Host, s, tlen[s]) ELSE Host
  BY DEF try_extend_infer_task, CanExtend, Host
<1>2. CASE can_alloc_seq(Host, s, tlen[s], 100)
  BY <1>1, <1>2, Lens, ExtendGrows DEF DevSound
<1>3. CASE ~can_alloc_seq(Host, s, tlen[s], 100)
  BY <1>1, <1>3 DEF DevSound, Grown
<1> QED BY <1>2, <1>3

\* An admitted task has a GPU slot for each of its tokens, or the loop panics.
AdmittedTo(s, g) ==
    /\ Sound(Gpu', NumGpu, tlen) /\ Sound(Host', NumHost, tlen) /\ Disk' = Disk
    /\ DOMAIN dev' = Devices
    /\ Gpu'.resv = g.resv /\ \A t \in Seqs : t # s => Gpu'.map[t] = g.map[t]
    /\ \/ pc' = "panicked" /\ Gpu'.exhausted /\ Host' = Host
       \/ /\ pc' = "admit" /\ Gpu'.lost = g.lost
          /\ Gpu'.map[s].live /\ Gpu'.map[s].slots = tlen[s]
          /\ Grown(Host, Host', s)

\* Admission, in either order, does one or the other.
LEMMA AdmitBlocks ==
  ASSUME MemType, DevSound, NEW s \in Seqs, Host.map[s].live, NEW g, Sound(g, NumGpu, tlen),
         CanAlloc(s, g), Admit(s, g)
  PROVE  AdmittedTo(s, g)
<1> DEFINE x == init_prefix_cache_blocks(g, s, tlen[s])
           y == alloc_blocks(x, s, tlen[s])
           h == try_extend_infer_task("host", s)
<1>1. /\ Sound(x, NumGpu, tlen) /\ x.map[s].live
      /\ ~g.map[s].live => x.map[s].slots = Len(x.map[s].ids) * BlockSize /\ OnlyMap(g, x, s)
  BY Lens, InitSound
<1>2. g.map[s].live => x = g
  BY DEF init_prefix_cache_blocks
<1>3. can_alloc_seq(g, s, tlen[s], 97)
  BY DEF CanAlloc
<1>h. Sound(h, NumHost, tlen) /\ Grown(Host, h, s)
  BY HostExtends
<1>4. \/ y.exhausted /\ dev' = [dev EXCEPT !["gpu"] = y] /\ pc' = "panicked"
      \/ ~y.exhausted /\ dev' = [dev EXCEPT !["gpu"] = y, !["host"] = h] /\ pc' = "admit"
  BY DEF Admit
<1> HIDE DEF x, h
<1>5. x.resv = g.resv /\ x.lost = g.lost /\ \A t \in Seqs : t # s => x.map[t] = g.map[t]
  BY <1>1, <1>2 DEF OnlyMap
<1>6. Sound(y, NumGpu, tlen)
  BY <1>1, <1>2, <1>3, Lens, AllocCall
<1>7. /\ y.resv = x.resv /\ \A t \in Seqs : t # s => y.map[t] = x.map[t]
      /\ ~y.exhausted => Extends(x, y, s, tlen[s])
  BY <1>1, Lens, AllocExtends
<1> HIDE DEF y
<1>8. DOMAIN dev' = Devices /\ Gpu' = y /\ Disk' = Disk /\ Host' = IF y.exhausted THEN Host ELSE h
  BY <1>4 DEF Gpu, Host, Disk, MemType, Devices
<1>9. Sound(Host, NumHost, tlen)
  BY DEF DevSound
<1> QED BY <1>4, <1>5, <1>6, <1>7, <1>8, <1>9, <1>h DEF AdmittedTo, Extends

\* A task that is admitted, or extended.
TakesBlocks(s) ==
    /\ status'[s] = "Allocated" /\ status[s] \in {"Waiting", "Allocated"} /\ tlen'[s] = tlen[s]
    /\ s \notin pending /\ s \notin pending' /\ (Backed(s)' <=> Backed(s))
    /\ Disk' = Disk /\ Gpu'.resv = Gpu.resv /\ Host'.resv = Host.resv
    /\ Host'.map[s].live /\ Host'.map[s].filled = Host.map[s].filled
    /\ pc' # "panicked" => Gpu'.map[s].live /\ Gpu'.map[s].slots = tlen[s]
    /\ UNCHANGED finished

\* Such a task is as MemInv says.
LEMMA TakesTask ==
  ASSUME NEW s \in Seqs, TaskInv(s), TakesBlocks(s)
  PROVE  TaskInv(s)'
<1>1. MapInv(s)'
  BY DEF TaskInv, MapInv, TakesBlocks, Alive
<1>2. LenInv(s)'
  BY DEF TaskInv, LenInv, TakesBlocks, Alive
<1>3. RunInv(s)'
  BY DEF RunInv, TakesBlocks
<1>4. RegionInv(s)'
  BY DEF TaskInv, RegionInv, TakesBlocks, Alive
<1> QED BY <1>1, <1>2, <1>3, <1>4 DEF TaskInv

\* A task that is preempted.
Yields(v) ==
    /\ status[v] \in Alive /\ status'[v] = "Waiting" /\ tlen'[v] = tlen[v]
    /\ v \notin pending /\ v \notin pending' /\ (Backed(v)' <=> Backed(v))
    /\ v \notin Elems(finished) /\ v \notin Running'
    /\ Disk' = Disk /\ Gpu'.resv = Gpu.resv /\ Host'.resv = Host.resv
    /\ ~Gpu'.map[v].live /\ Host'.map[v] = Host.map[v]

\* So is this one.
LEMMA YieldsTask ==
  ASSUME NEW v \in Seqs, TaskInv(v), Yields(v)
  PROVE  TaskInv(v)'
<1>1. MapInv(v)'
  BY DEF TaskInv, MapInv, Yields, Alive
<1>2. LenInv(v)'
  BY DEF TaskInv, LenInv, Yields, Alive
<1>3. RunInv(v)'
  <2>1. v \notin Ready'
    BY DEF Yields, Running, Ready
  <2> QED BY <2>1 DEF RunInv, Yields
<1>4. RegionInv(v)'
  BY DEF TaskInv, RegionInv, Yields, Alive
<1> QED BY <1>1, <1>2, <1>3, <1>4 DEF TaskInv

\* The extend loop: the task at the front gets a slot for its new token.
LEMMA ExtendFrontMem ==
  ASSUME QInv, MemInv, ExtendFront
  PROVE  MemInv'
<1>t. QueueType /\ MemType /\ LostInv /\ DevSound
  BY DEF QInv, MemInv
<1> DEFINE s == Head(allocated)
           y == try_extend_infer_task("gpu", s)
           h == try_extend_infer_task("host", s)
<1>0. /\ pc = "extend" /\ allocated # <<>> /\ CanExtend("gpu", s)
      /\ dev' = [dev EXCEPT !["gpu"] = y, !["host"] = h]
      /\ kept' = Append(kept, s) /\ allocated' = Tail(allocated)
      /\ UNCHANGED <<mode, tlen, status, pending, bg, pc, promoted, budget, finished>>
  BY DEF ExtendFront
<1>s. s \in Seqs /\ Elems(allocated) = {s} \union Elems(allocated')
  BY <1>t, <1>0, SortedTail DEF QueueType
<1>k. Elems(kept') = Elems(kept) \union {s}
  BY <1>t, <1>0, <1>s, SortedAppend DEF QueueType
<1>y. y = alloc_blocks(Gpu, s, tlen[s]) /\ can_alloc_seq(Gpu, s, tlen[s], 100)
  BY <1>0 DEF try_extend_infer_task, CanExtend, Gpu
<1> HIDE DEF s
<1>a. s \in Running /\ TaskInv(s) /\ PlaceOf(s)
  BY <1>s, OnePlace DEF MemInv, Running
<1>b. /\ status[s] \in {"Waiting", "Allocated", "Finished"} /\ s \notin pending
      /\ s \notin Elems(finished) /\ Gpu.map[s].live /\ Host.map[s].live
  BY <1>0, <1>a DEF PlaceOf, TaskInv, RunInv, MapInv, Alive
<1>c. Sound(y, NumGpu, tlen) /\ Grown(Gpu, y, s) /\ y.map[s].slots = tlen[s]
  BY <1>t, <1>s, <1>y, <1>b, Lens, ExtendGrows DEF DevSound
<1>h. Sound(h, NumHost, tlen) /\ Grown(Host, h, s)
  BY <1>t, <1>s, <1>b, HostExtends
<1> HIDE DEF y, h
<1>2. Gpu' = y /\ Host' = h /\ Disk' = Disk /\ DOMAIN dev' = Devices
  BY <1>t, <1>0 DEF Gpu, Host, Disk, MemType, Devices
<1>3. MemType' /\ DevSound'
  BY <1>t, <1>0, <1>c, <1>h, <1>2 DEF MemType, DevSound
<1>7. LostInv'
  BY <1>t, <1>0, <1>2, <1>c, <1>h DEF LostInv, Grown
<1>8. Running' \subseteq Running /\ Ready' \subseteq Ready \union {s}
  BY <1>0, <1>s, <1>k DEF Running, Ready
<1>9. ASSUME NEW t \in Seqs PROVE TaskInv(t)'
  <2>0. TaskInv(t) /\ (Backed(t)' <=> Backed(t))
    BY <1>0 DEF MemInv, Backed
  <2>1. CASE t # s
    <3>1. SameState(t) /\ StaysReady(t)
      BY <1>0, <1>8, <2>0, <2>1 DEF SameState, StaysReady
    <3>2. SameBlocks(t)
      BY <1>2, <1>c, <1>h, <2>1 DEF SameBlocks, Grown
    <3> QED BY <1>0, <2>0, <3>1, <3>2, TaskFrame
  <2>2. CASE t = s
    <3>1. status[t] = "Allocated"
      BY <1>b, <2>0, <2>2 DEF TaskInv, MapInv, LenInv
    <3>2. TakesBlocks(t)
      BY <1>0, <1>2, <1>b, <1>c, <1>h, <2>0, <2>2, <3>1 DEF TakesBlocks, Grown, Alive
    <3> QED BY <2>0, <3>2, TakesTask
  <2> QED BY <2>1, <2>2
<1> QED BY <1>3, <1>7, <1>9 DEF MemInv

\* Freeing the blocks of a task.
LEMMA FreeBlocks ==
  ASSUME NEW n \in Nat, NEW tl \in [Seqs -> 0..MaxLen], NEW x, Sound(x, n, tl),
         NEW s \in Seqs, NEW y, y = free(x, s) \/ y = free_and_drop_cache(x, s)
  PROVE  /\ Sound(y, n, tl) /\ y.resv = x.resv /\ y.lost = x.lost
         /\ y.map[s] = NoMap /\ \A t \in Seqs : t # s => y.map[t] = x.map[t]
<1>1. x.map[s].filled \in Nat /\ 0 \in Nat
  BY MapFields, SizeAssumption DEF Sound
<1>2. \E f \in Nat : y = free_dropping(x, s, f)
  BY <1>1 DEF free, free_and_drop_cache
<1>3. PICK f \in Nat : y = free_dropping(x, s, f)
  BY <1>2
<1>4. Sound(y, n, tl) /\ OnlyFreed(x, y, n, s)
  BY <1>3, FreeSound, FreeEffect
<1> QED BY <1>4 DEF OnlyFreed

\* The extend loop: the task at the back gives up its GPU blocks.
LEMMA PreemptBackMem ==
  ASSUME QInv, MemInv, PreemptBack
  PROVE  MemInv'
<1>t. QueueType /\ MemType /\ LostInv /\ DevSound
  BY DEF QInv, MemInv
<1>v. allocated # <<>> /\ Last(allocated) \in Seqs
  BY <1>t, SortedFront DEF PreemptBack, QueueType
<1>p. PICK v \in Seqs : v = Last(allocated)
  BY <1>v
<1> DEFINE y == free(Gpu, v)
<1>0. /\ pc = "extend" /\ dev' = [dev EXCEPT !["gpu"] = y]
      /\ status' = [status EXCEPT ![v] = "Waiting"]
      /\ waiting' = insert_sorted_by(waiting, v) /\ allocated' = Front(allocated)
      /\ UNCHANGED <<mode, tlen, pending, bg, pc, kept, promoted, budget, finished>>
  BY <1>p DEF PreemptBack, locals, Gpu
<1>s. v \in Seqs /\ Elems(allocated) = Elems(allocated') \union {v}
  BY <1>t, <1>0, <1>v, <1>p, SortedFront DEF QueueType
<1>w. v \in Elems(waiting')
  BY <1>t, <1>0, <1>s, InsertKeepsOrder DEF QueueType
<1>q. QInv'
  BY PreemptBackStep
<1>a. PlaceOf(v)'
  <2>1. (QInv => \A s \in Seqs : PlaceOf(s))'
    BY Everyone, PTL
  <2> QED BY <1>q, <1>s, <2>1
<1>b. v \notin Running' /\ v \notin pending' /\ v \notin Elems(finished')
  BY <1>w, <1>a DEF PlaceOf
<1>c. Sound(y, NumGpu, tlen) /\ y.resv = Gpu.resv /\ y.lost = Gpu.lost
      /\ y.map[v] = NoMap /\ \A t \in Seqs : t # v => y.map[t] = Gpu.map[t]
  BY <1>t, <1>s, Lens, FreeBlocks DEF DevSound
<1> HIDE DEF y
<1>2. Gpu' = y /\ Host' = Host /\ Disk' = Disk /\ DOMAIN dev' = Devices
  BY <1>t, <1>0 DEF Gpu, Host, Disk, MemType, Devices
<1>3. MemType' /\ DevSound'
  BY <1>t, <1>0, <1>c, <1>2 DEF MemType, DevSound
<1>4. \A t \in Seqs : status'[t] = IF t = v THEN "Waiting" ELSE status[t]
  BY <1>t, <1>0 DEF QueueType
<1>5. TaskInv(v) /\ PlaceOf(v) /\ v \in Running
  BY <1>s, OnePlace DEF MemInv, Running
<1>6. status[v] \in Alive
  BY <1>5 DEF PlaceOf
<1>7. LostInv'
  BY <1>t, <1>0, <1>2, <1>4, <1>6, <1>c DEF LostInv, Alive
<1>8. Running' \subseteq Running /\ Ready' \subseteq Ready
  BY <1>0, <1>s DEF Running, Ready
<1>9. ASSUME NEW t \in Seqs PROVE TaskInv(t)'
  <2>0. TaskInv(t) /\ StaysReady(t) /\ (Backed(t)' <=> Backed(t))
    BY <1>0, <1>8 DEF MemInv, Backed, StaysReady
  <2>1. CASE t # v
    <3>1. SameState(t)
      BY <1>0, <1>4, <2>0, <2>1 DEF SameState
    <3>2. SameBlocks(t)
      BY <1>2, <1>c, <2>1 DEF SameBlocks
    <3> QED BY <1>0, <2>0, <3>1, <3>2, TaskFrame
  <2>2. CASE t = v
    <3>1. NoMap.live = FALSE
      BY DEF NoMap
    <3>2. Yields(t)
      BY <1>0, <1>2, <1>4, <1>6, <1>b, <1>c, <2>0, <2>2, <3>1 DEF Yields
    <3> QED BY <2>0, <3>2, YieldsTask
  <2> QED BY <2>1, <2>2
<1> QED BY <1>3, <1>7, <1>9 DEF MemInv

\* A task that is about to be admitted has host blocks and is not finished.
LEMMA Admissible ==
  ASSUME QInv, MemInv, NEW s \in Seqs, s \in Elems(waiting) \/ s = cur
  PROVE  /\ TaskInv(s) /\ status[s] \in {"Waiting", "Allocated"} /\ s \notin pending
         /\ Host.map[s].live
<1>1. TaskInv(s) /\ PlaceOf(s)
  BY OnePlace DEF MemInv
<1>2. status[s] \in Alive /\ s \notin pending /\ s \notin Elems(finished)
  BY <1>1 DEF PlaceOf
<1> QED BY <1>1, <1>2 DEF TaskInv, LenInv, MapInv, Alive

\* Admission in either order.
LEMMA AdmitMem ==
  ASSUME QInv, MemInv, AdmitFront \/ ReorderAdmit
  PROVE  MemInv'
<1>t. QueueType /\ MemType /\ LostInv /\ DevSound
  BY DEF QInv, MemInv
<1> DEFINE s == Head(waiting)
<1>0. /\ pc = "admit" /\ waiting # <<>> /\ CanAlloc(s, Gpu) /\ Admit(s, Gpu)
      /\ status' = [status EXCEPT ![s] = "Allocated"]
      /\ allocated' = Append(allocated, s) \/ allocated' = insert_sorted_by(allocated, s)
      /\ UNCHANGED <<mode, tlen, pending, bg, kept, promoted, budget, finished>>
  BY DEF AdmitFront, ReorderAdmit, locals, Gpu
<1>s. s \in Seqs /\ s \in Elems(waiting)
  BY <1>t, <1>0, SortedTail DEF QueueType
<1> HIDE DEF s
<1>e. Elems(allocated') = Elems(allocated) \union {s}
  BY <1>t, <1>0, <1>s, SortedAppend, InsertKeepsOrder DEF QueueType
<1>b. TaskInv(s) /\ status[s] \in {"Waiting", "Allocated"} /\ s \notin pending /\ Host.map[s].live
  BY <1>s, Admissible
<1>c. AdmittedTo(s, Gpu)
  BY <1>t, <1>0, <1>s, <1>b, AdmitBlocks DEF DevSound
<1>3. MemType' /\ DevSound'
  BY <1>t, <1>0, <1>c DEF MemType, DevSound, AdmittedTo
<1>4. \A t \in Seqs : status'[t] = IF t = s THEN "Allocated" ELSE status[t]
  BY <1>t, <1>0 DEF QueueType
<1>7. LostInv'
  BY <1>t, <1>0, <1>s, <1>b, <1>4, <1>c DEF LostInv, AdmittedTo, Grown, Alive
<1>8. Running' \subseteq Running \union {s} /\ (pc' = "admit" => Ready' \subseteq Ready \union {s})
  BY <1>0, <1>e DEF Running, Ready
<1>9. ASSUME NEW t \in Seqs PROVE TaskInv(t)'
  <2>0. TaskInv(t) /\ (Backed(t)' <=> Backed(t))
    BY <1>0 DEF MemInv, Backed
  <2>1. CASE t # s
    <3>1. SameState(t) /\ StaysReady(t)
      BY <1>0, <1>4, <1>8, <1>c, <2>0, <2>1 DEF SameState, StaysReady, AdmittedTo
    <3>2. SameBlocks(t)
      BY <1>c, <2>1 DEF SameBlocks, AdmittedTo, Grown
    <3> QED BY <1>0, <2>0, <3>1, <3>2, TaskFrame
  <2>2. CASE t = s
    <3>1. TakesBlocks(t)
      BY <1>0, <1>4, <1>b, <1>c, <2>0, <2>2 DEF TakesBlocks, AdmittedTo, Grown
    <3> QED BY <2>0, <3>1, TakesTask
  <2> QED BY <2>1, <2>2
<1> QED BY <1>3, <1>7, <1>9 DEF MemInv

\* A promoted task gives up its GPU blocks, and the waiting one may take them.
LEMMA ReclaimOneMem ==
  ASSUME QInv, MemInv, ReclaimOne
  PROVE  MemInv'
<1>t. QueueType /\ LocalsInv /\ MemType /\ LostInv /\ DevSound
  BY DEF QInv, MemInv
<1>v. pc = "reclaim" /\ promoted # <<>> /\ Last(promoted) \in Seqs /\ cur \in Seqs
  BY <1>t, SortedFront DEF ReclaimOne, QueueType, LocalsInv
<1>p. PICK v \in Seqs, c \in Seqs : v = Last(promoted) /\ c = cur
  BY <1>v
<1> DEFINE g == free(Gpu, v)
<1>0. /\ waiting' = insert_sorted_by(waiting, v)
      /\ \/ /\ CanAlloc(c, g) /\ Admit(c, g)
            /\ status' = [status EXCEPT ![v] = "Waiting", ![c] = "Allocated"]
            /\ allocated' = (allocated \o <<c>>) \o Front(promoted)
            /\ promoted' = <<>>
         \/ /\ dev' = [dev EXCEPT !["gpu"] = g] /\ pc' = pc
            /\ status' = [status EXCEPT ![v] = "Waiting"]
            /\ promoted' = Front(promoted) /\ allocated' = allocated
      /\ UNCHANGED <<mode, tlen, pending, bg, kept, budget, finished>>
  BY <1>p DEF ReclaimOne, Gpu
<1>s. Front(promoted) \in Seq(Seqs) /\ Elems(promoted) = Elems(Front(promoted)) \union {v}
  BY <1>t, <1>v, <1>p, SortedFront DEF QueueType
<1>w. v \in Elems(waiting')
  BY <1>t, <1>0, InsertKeepsOrder DEF QueueType
<1>a. PlaceOf(v)'
  <2>1. (QInv => \A s \in Seqs : PlaceOf(s))'
    BY Everyone, PTL
  <2> QED BY <2>1, ReclaimOneStep
<1>b. /\ v \notin Running' /\ v \notin pending' /\ v \notin Elems(finished')
      /\ v # c /\ v \in Running /\ status[v] \in Alive
  <2>1. PlaceOf(v) /\ v \in Running
    BY <1>s, OnePlace DEF Running
  <2> QED BY <1>w, <1>a, <1>p, <2>1 DEF PlaceOf
<1>c. Sound(g, NumGpu, tlen) /\ g.resv = Gpu.resv /\ g.lost = Gpu.lost
      /\ g.map[v] = NoMap /\ \A t \in Seqs : t # v => g.map[t] = Gpu.map[t]
  BY <1>t, Lens, FreeBlocks DEF DevSound
<1> HIDE DEF g
<1>d. TaskInv(v) /\ NoMap.live = FALSE
  BY DEF MemInv, NoMap
<1>1. CASE CanAlloc(c, g) /\ Admit(c, g) /\ promoted' = <<>>
           /\ status' = [status EXCEPT ![v] = "Waiting", ![c] = "Allocated"]
           /\ allocated' = (allocated \o <<c>>) \o Front(promoted)
  <2>b. TaskInv(c) /\ status[c] \in {"Waiting", "Allocated"} /\ c \notin pending /\ Host.map[c].live
    BY <1>p, Admissible
  <2>c. AdmittedTo(c, g)
    BY <1>t, <1>1, <1>c, <2>b, AdmitBlocks
  <2>3. MemType' /\ DevSound'
    BY <1>t, <1>0, <1>v, <2>c DEF MemType, DevSound, AdmittedTo
  <2>4. \A t \in Seqs : status'[t] = IF t = c THEN "Allocated"
                                     ELSE IF t = v THEN "Waiting" ELSE status[t]
    BY <1>t, <1>1 DEF QueueType
  <2>7. LostInv'
    BY <1>t, <1>0, <1>v, <1>b, <1>c, <2>b, <2>4, <2>c DEF LostInv, AdmittedTo, Grown, Alive
  <2>e. Elems(allocated') \subseteq Elems(allocated) \union Elems(promoted) \union {c}
    <3>1. allocated \o <<c>> \in Seq(Seqs) /\ Elems(allocated \o <<c>>) = Elems(allocated) \union {c}
      <4>1. allocated \o <<c>> = Append(allocated, c)
        BY <1>t DEF QueueType
      <4>2. Append(allocated, c) \in Seq(Seqs) /\ Elems(Append(allocated, c)) = Elems(allocated) \union {c}
        BY <1>t, SortedAppend DEF QueueType
      <4> QED BY ONLY <4>1, <4>2
    <3> DEFINE q == allocated \o <<c>>
    <3>2. q \in Seq(Seqs) /\ allocated' = q \o Front(promoted) /\ Elems(q) = Elems(allocated) \union {c}
      BY <1>1, <3>1
    <3> HIDE DEF q
    <3>3. Elems(allocated') = Elems(q) \union Elems(Front(promoted))
      BY <1>s, <3>2, ConcatElems
    <3> QED BY <1>s, <3>2, <3>3
  <2>8. /\ Running' \subseteq Running \union {c}
        /\ pc' = "admit" => Ready' \subseteq Ready \union {c}
    <3>1. Elems(promoted') = {}
      BY <1>1 DEF Elems
    <3> QED BY <1>0, <1>v, <2>e, <3>1 DEF Running, Ready
  <2>9. ASSUME NEW t \in Seqs PROVE TaskInv(t)'
    <3>0. TaskInv(t) /\ (Backed(t)' <=> Backed(t))
      BY <1>0 DEF MemInv, Backed
    <3>1. CASE t # c /\ t # v
      <4>1. SameState(t) /\ StaysReady(t)
        BY <1>0, <1>v, <2>4, <2>8, <2>c, <3>0, <3>1 DEF SameState, StaysReady, AdmittedTo
      <4>2. SameBlocks(t)
        BY <1>c, <2>c, <3>1 DEF SameBlocks, AdmittedTo, Grown
      <4> QED BY <1>0, <3>0, <4>1, <4>2, TaskFrame
    <3>2. CASE t = c
      <4>1. TakesBlocks(t)
        BY <1>0, <1>c, <2>4, <2>b, <2>c, <3>0, <3>2 DEF TakesBlocks, AdmittedTo, Grown
      <4> QED BY <3>0, <4>1, TakesTask
    <3>3. CASE t = v
      <4>1. Yields(t)
        BY <1>0, <1>b, <1>c, <1>d, <2>4, <2>c, <3>0, <3>3 DEF Yields, AdmittedTo, Grown
      <4> QED BY <3>0, <4>1, YieldsTask
    <3> QED BY <3>1, <3>2, <3>3
  <2> QED BY <2>3, <2>7, <2>9 DEF MemInv
<1>2. CASE dev' = [dev EXCEPT !["gpu"] = g] /\ pc' = pc /\ promoted' = Front(promoted)
           /\ status' = [status EXCEPT ![v] = "Waiting"] /\ allocated' = allocated
  <2>2. Gpu' = g /\ Host' = Host /\ Disk' = Disk /\ DOMAIN dev' = Devices
    BY <1>t, <1>2 DEF Gpu, Host, Disk, MemType, Devices
  <2>3. MemType' /\ DevSound'
    BY <1>t, <1>0, <1>2, <1>c, <2>2 DEF MemType, DevSound
  <2>4. \A t \in Seqs : status'[t] = IF t = v THEN "Waiting" ELSE status[t]
    BY <1>t, <1>2 DEF QueueType
  <2>7. LostInv'
    BY <1>t, <1>v, <1>2, <1>b, <1>c, <2>2, <2>4 DEF LostInv, Alive
  <2>8. Running' \subseteq Running /\ Ready' \subseteq Ready
    BY <1>0, <1>2, <1>s DEF Running, Ready
  <2>9. ASSUME NEW t \in Seqs PROVE TaskInv(t)'
    <3>0. TaskInv(t) /\ StaysReady(t) /\ (Backed(t)' <=> Backed(t))
      BY <1>0, <1>2, <2>8 DEF MemInv, Backed, StaysReady
    <3>1. CASE t # v
      <4>1. SameState(t)
        BY <1>0, <2>4, <3>0, <3>1 DEF SameState
      <4>2. SameBlocks(t)
        BY <1>c, <2>2, <3>1 DEF SameBlocks
      <4> QED BY <1>0, <3>0, <4>1, <4>2, TaskFrame
    <3>2. CASE t = v
      <4>1. Yields(t)
        BY <1>0, <1>b, <1>c, <1>d, <2>2, <2>4, <3>0, <3>2 DEF Yields
      <4> QED BY <3>0, <4>1, YieldsTask
    <3> QED BY <3>1, <3>2
  <2> QED BY <2>3, <2>7, <2>9 DEF MemInv
<1> QED BY <1>0, <1>1, <1>2

-----------------------------------------------------------------------------
(* dispatch *)

FetchedBy(f, x, y, s) == f = copy_blocks(x, y, s, TRUE)
WrittenBy(f, x, y, s) == f = copy_blocks(x, y, s, FALSE)

\* What is fetched is no more than the host has.
LEMMA FetchedLen ==
  ASSUME NEW n \in Nat, NEW m \in Nat, NEW tl, NEW x, Sound(x, n, tl), NEW y, Sound(y, m, tl),
         NEW s \in Seqs, NEW f, FetchedBy(f, x, y, s), f.map # <<>>
  PROVE  f.filled \in Nat /\ f.filled <= x.map[s].filled
<1> DEFINE from == y.map[s].filled
           end == Least(x.map[s].filled, y.map[s].slots)
           have == get_block_ids_range(x, s, from, end, TRUE)
           room == get_block_ids_range(y, s, from, end, TRUE)
<1>1. f = IF end <= from \/ have.ids = <<>> \/ room.ids = <<>>
          THEN [map |-> <<>>, filled |-> from]
          ELSE [map |-> zip(have.ids, room.ids), filled |-> have.filled]
  BY DEF FetchedBy, copy_blocks
<1>2. IdsOf(have, x, s, from, end)
  BY DEF IdsOf
<1>3. from \in Nat /\ end \in Nat
  BY MapFields, SizeAssumption DEF Sound, Least
<1> HIDE DEF have, room, from, end
<1>4. have.ids # <<>> /\ f.filled = have.filled
  BY ONLY <1>1, f.map # <<>>
<1>5. have.filled \in Nat /\ have.filled <= x.map[s].filled
  BY ONLY <1>2, <1>3, <1>4, RangeFilled, n \in Nat, Sound(x, n, tl), s \in Seqs
<1> QED BY ONLY <1>4, <1>5

\* What is written through is whole blocks, within those the host has.
LEMMA WrittenLen ==
  ASSUME NEW n \in Nat, NEW m \in Nat, NEW tl, NEW x, Sound(x, n, tl), NEW y, Sound(y, m, tl),
         NEW s \in Seqs, NEW f, WrittenBy(f, x, y, s), f.map # <<>>
  PROVE  f.filled \in Nat /\ f.filled <= y.map[s].slots /\ f.filled % BlockSize = 0
<1> DEFINE from == y.map[s].filled
           a == x.map[s].filled
           b == y.map[s].slots
           end == Least(a, b)
           have == get_block_ids_range(x, s, from, end, FALSE)
           room == get_block_ids_range(y, s, from, end, FALSE)
           q == end \div BlockSize
<1>1. f = IF end <= from \/ have.ids = <<>> \/ room.ids = <<>>
          THEN [map |-> <<>>, filled |-> from]
          ELSE [map |-> zip(have.ids, room.ids), filled |-> have.filled]
  BY DEF WrittenBy, copy_blocks
<1>2. FullIdsOf(have, x, s, from, end)
  BY DEF FullIdsOf
<1>3. from \in Nat /\ a \in Nat /\ b \in Nat
  BY MapFields, SizeAssumption DEF Sound
<1>4. end \in Nat /\ end <= a /\ end <= b
  <2> HIDE DEF a, b
  <2> QED BY ONLY <1>3 DEF Least
<1>a. end <= x.map[s].filled /\ b = y.map[s].slots
  BY <1>4
<1> HIDE DEF have, room, from, end, a, b
<1>5. have.ids # <<>> /\ f.filled = have.filled
  BY ONLY <1>1, f.map # <<>>
<1>6. have.filled = q * BlockSize
  BY ONLY <1>2, <1>3, <1>4, <1>5, <1>a, FullRange, n \in Nat, Sound(x, n, tl), s \in Seqs
<1>7. q \in Nat /\ q * BlockSize <= end /\ BlockSize \in Nat
  BY <1>4, DivBounds, SizeAssumption
<1> HIDE DEF q
<1>8. (q * BlockSize) % BlockSize = 0
  BY <1>7, WholeBlocks
<1>9. q * BlockSize \in Nat
  BY ONLY <1>7
<1> QED BY ONLY <1>3, <1>4, <1>5, <1>6, <1>7, <1>8, <1>9, <1>a

\* update_filled_len on a live sequence, within its slots.
LEMMA SetFilled ==
  ASSUME NEW n \in Nat, NEW tl, NEW x, Sound(x, n, tl), NEW s \in Seqs, x.map[s].live,
         NEW f \in Nat, f <= x.map[s].slots, NEW y, y = update_filled_len(x, s, f)
  PROVE  Sound(y, n, tl) /\ OnlyFilled(x, y, s, f)
<1>1. x \in Manager(n)
  BY DEF Sound
<1> QED BY <1>1, FilledLenSound, FilledLenEffect

\* Dispatching a task fills its slots, and never more.
LEMMA DispatchOneMem ==
  ASSUME QInv, MemInv, DispatchOne
  PROVE  MemInv'
<1>t. QueueType /\ BatchInv /\ MemType /\ LostInv /\ DevSound
  BY DEF QInv, MemInv
<1> DEFINE s == allocated[idx]
           total == tlen[s]
           f == copy_blocks(dev["host"], dev["gpu"], s, TRUE)
           x == IF f.map = <<>> THEN dev["gpu"] ELSE update_filled_len(dev["gpu"], s, f.filled)
           done == Least(x.map[s].filled, total - 1)
           n == Least(total - done, budget)
           y == update_filled_len(x, s, done + n)
           w == copy_blocks(y, dev["host"], s, FALSE)
           h == IF w.map = <<>> THEN dev["host"] ELSE update_filled_len(dev["host"], s, w.filled)
<1>0. /\ pc = "dispatch" /\ ~DispatchEnds /\ dev' = [dev EXCEPT !["gpu"] = y, !["host"] = h]
      /\ budget' = budget - n
      /\ UNCHANGED <<mode, tlen, status, pending, bg, kept, promoted, allocated, finished>>
  BY DEF DispatchOne, queues
<1>q. pc' = IF \/ f.map # <<>> /\ f.filled > x.map[s].slots
               \/ done + n > x.map[s].slots
               \/ w.map # <<>> /\ w.filled > Host.map[s].slots
            THEN "panicked" ELSE pc
  BY DEF DispatchOne, Host
<1>i. pc = "dispatch" /\ ~DispatchEnds
  BY DEF DispatchOne
<1>f. FetchedBy(f, Host, Gpu, s) /\ WrittenBy(w, y, Host, s)
  BY DEF FetchedBy, WrittenBy, Host, Gpu
<1>g. /\ x = IF f.map = <<>> THEN Gpu ELSE update_filled_len(Gpu, s, f.filled)
      /\ h = IF w.map = <<>> THEN Host ELSE update_filled_len(Host, s, w.filled)
  BY DEF Gpu, Host
<1>s. s \in Seqs /\ s \in Elems(allocated)
  <2>1. idx \in 1..Len(allocated)
    BY ONLY <1>t, <1>i DEF BatchInv, DispatchEnds, QueueType
  <2> QED BY <1>t, <2>1 DEF QueueType, Elems
<1>k. total \in 1..MaxLen /\ budget \in Nat /\ MaxLen \in Nat
  BY <1>t, <1>s, SizeAssumption DEF MemType
<1>l. total = tlen[s] /\ done = Least(x.map[s].filled, total - 1) /\ n = Least(total - done, budget)
      /\ y = update_filled_len(x, s, done + n)
  OBVIOUS
<1>a. TaskInv(s) /\ PlaceOf(s) /\ s \in Running /\ s \in Ready
  BY <1>0, <1>s, OnePlace DEF MemInv, Running, Ready
<1> HIDE DEF s, f, w, h, x, y, done, n, total
<1>b. /\ Gpu.map[s].live /\ Gpu.map[s].slots = total
      /\ status[s] \in Alive /\ s \notin pending /\ Host.map[s].live
  BY <1>0, <1>a, <1>l DEF PlaceOf, TaskInv, RunInv, MapInv
<1>m. /\ Host.map[s].filled \in Nat /\ Host.map[s].slots \in Nat /\ Gpu.map[s].filled \in Nat
      /\ Host.map[s].filled <= Host.map[s].slots /\ Host.map[s].slots <= total
      /\ Gpu.map[s].filled <= total
  <2>1. Host \in Manager(NumHost) /\ Gpu \in Manager(NumGpu) /\ NumHost \in Nat /\ NumGpu \in Nat
    BY <1>t, Lens DEF DevSound, Sound
  <2>2. MapOK(Host, s, total) /\ MapOK(Gpu, s, total)
    BY <1>t, <1>s, <1>l DEF DevSound, Sound
  <2>3. Host.map[s].filled \in 0..MaxLen /\ Host.map[s].slots \in 0..MaxLen
        /\ Gpu.map[s].filled \in 0..MaxLen
    BY <1>s, <2>1, MapFields
  <2> QED BY <1>b, <1>k, <2>2, <2>3 DEF MapOK
<1>c. /\ Sound(x, NumGpu, tlen) /\ x.map[s].live /\ x.map[s].slots = total
      /\ x.map[s].filled \in Nat
      /\ \A t \in Seqs : t # s => x.map[t] = Gpu.map[t]
      /\ x.resv = Gpu.resv /\ x.lost = Gpu.lost /\ x.exhausted = Gpu.exhausted
      /\ f.map # <<>> => f.filled <= x.map[s].slots
  <2>1. CASE f.map = <<>>
    BY <1>t, <1>g, <1>b, <1>m, <2>1 DEF DevSound
  <2>2. CASE f.map # <<>>
    <3>1. f.filled \in Nat /\ f.filled <= Host.map[s].filled
      BY <1>t, <1>f, <1>s, <2>2, Lens, FetchedLen DEF DevSound
    <3> DEFINE e == f.filled
               u == Host.map[s].filled
               v == Host.map[s].slots
    <3>2. e <= total /\ e \in Nat
      <4>1. e \in Nat /\ u \in Nat /\ v \in Nat /\ e <= u /\ u <= v /\ v <= total
        BY <1>m, <3>1
      <4> HIDE DEF e, u, v
      <4> QED BY ONLY <4>1, <1>k
    <3> HIDE DEF e
    <3>3. x = update_filled_len(Gpu, s, e)
      BY <1>g, <2>2 DEF e
    <3>4. Sound(x, NumGpu, tlen) /\ OnlyFilled(Gpu, x, s, e)
      BY <1>t, <1>s, <1>b, <3>2, <3>3, Lens, SetFilled DEF DevSound
    <3> QED BY <1>b, <3>2, <3>4 DEF OnlyFilled, e
  <2> QED BY <2>1, <2>2
<1>d. done \in Nat /\ n \in Nat /\ done + n \in Nat /\ done + n <= total /\ budget - n \in Nat
  <2> DEFINE u == x.map[s].filled
  <2>1. u \in Nat /\ done = Least(u, total - 1)
    BY <1>c, <1>l
  <2> HIDE DEF u
  <2>2. done \in Nat /\ done <= total - 1
    BY ONLY <1>k, <2>1 DEF Least
  <2>3. n \in Nat /\ n <= total - done /\ n <= budget
    BY ONLY <1>k, <1>l, <2>2 DEF Least
  <2> QED BY ONLY <1>k, <2>2, <2>3
<1>e. /\ Sound(y, NumGpu, tlen) /\ y.map[s].live /\ y.map[s].slots = total
      /\ \A t \in Seqs : t # s => y.map[t] = Gpu.map[t]
      /\ y.resv = Gpu.resv /\ y.lost = Gpu.lost
  <2> DEFINE e == done + n
  <2>1. e \in Nat /\ e <= x.map[s].slots /\ y = update_filled_len(x, s, e)
    BY <1>c, <1>d, <1>l
  <2> HIDE DEF e
  <2>2. Sound(y, NumGpu, tlen) /\ OnlyFilled(x, y, s, e)
    BY <1>t, <1>s, <1>c, <2>1, Lens, SetFilled
  <2> QED BY <1>c, <2>2 DEF OnlyFilled
<1>h. /\ Sound(h, NumHost, tlen) /\ h.map[s].live /\ h.map[s].slots = Host.map[s].slots
      /\ h.map[s].filled % BlockSize = 0
      /\ \A t \in Seqs : t # s => h.map[t] = Host.map[t]
      /\ h.resv = Host.resv /\ h.lost = Host.lost
      /\ w.map # <<>> => w.filled <= Host.map[s].slots
  <2>1. CASE w.map = <<>>
    BY <1>t, <1>g, <1>b, <1>a, <2>1 DEF DevSound, TaskInv, MapInv
  <2>2. CASE w.map # <<>>
    <3>1. w.filled \in Nat /\ w.filled <= Host.map[s].slots /\ w.filled % BlockSize = 0
      BY <1>t, <1>f, <1>s, <1>e, <2>2, Lens, WrittenLen DEF DevSound
    <3> DEFINE e == w.filled
    <3>2. e \in Nat /\ e <= Host.map[s].slots /\ e % BlockSize = 0 /\ h = update_filled_len(Host, s, e)
      BY <1>g, <2>2, <3>1
    <3> HIDE DEF e
    <3>3. Sound(h, NumHost, tlen) /\ OnlyFilled(Host, h, s, e)
      BY <1>t, <1>s, <1>b, <3>2, Lens, SetFilled DEF DevSound
    <3> QED BY <1>b, <3>1, <3>2, <3>3 DEF OnlyFilled
  <2> QED BY <2>1, <2>2
<1>p. pc' = pc
  <2> DEFINE u == done + n
             v == f.filled
             z == w.filled
             c == x.map[s].slots
             d == Host.map[s].slots
  <2>1. /\ c \in Nat /\ d \in Nat /\ u \in Nat /\ u <= c
        /\ f.map # <<>> => v <= c /\ v \in Nat
        /\ w.map # <<>> => z <= d /\ z \in Nat
    <3>1. c \in Nat /\ d \in Nat /\ u \in Nat /\ u <= c
      BY <1>c, <1>d, <1>k, <1>m
    <3>2. f.map # <<>> => v <= c /\ v \in Nat
      BY <1>t, <1>c, <1>f, <1>s, Lens, FetchedLen DEF DevSound
    <3>3. w.map # <<>> => z <= d /\ z \in Nat
      BY <1>t, <1>f, <1>s, <1>e, <1>h, Lens, WrittenLen DEF DevSound
    <3> QED BY <3>1, <3>2, <3>3
  <2>2. pc' = IF (f.map # <<>> /\ v > c) \/ u > c \/ (w.map # <<>> /\ z > d) THEN "panicked" ELSE pc
    BY ONLY <1>q
  <2> HIDE DEF u, v, z, c, d
  <2>3. ~(u > c)
    BY ONLY <2>1
  <2>4. f.map # <<>> => ~(v > c)
    BY ONLY <2>1
  <2>5. w.map # <<>> => ~(z > d)
    BY ONLY <2>1
  <2> QED BY ONLY <2>2, <2>3, <2>4, <2>5
<1>2. Gpu' = y /\ Host' = h /\ Disk' = Disk /\ DOMAIN dev' = Devices
  BY <1>t, <1>0 DEF Gpu, Host, Disk, MemType, Devices
<1>3. MemType' /\ DevSound'
  BY <1>t, <1>0, <1>d, <1>e, <1>h, <1>p, <1>2 DEF MemType, DevSound
<1>7. LostInv'
  BY <1>t, <1>0, <1>2, <1>e, <1>h, <1>p DEF LostInv
<1>8. Running' = Running /\ Ready' = Ready
  BY <1>0, <1>p DEF Running, Ready
<1>9. ASSUME NEW t \in Seqs PROVE TaskInv(t)'
  <2>0. TaskInv(t) /\ (Backed(t)' <=> Backed(t)) /\ StaysReady(t)
    BY <1>0, <1>8, <1>p DEF MemInv, Backed, StaysReady
  <2>1. CASE t # s
    <3>1. SameState(t)
      BY <1>0, <2>0, <2>1 DEF SameState
    <3>2. SameBlocks(t)
      BY <1>2, <1>e, <1>h, <2>1 DEF SameBlocks
    <3> QED BY <1>0, <2>0, <3>1, <3>2, TaskFrame
  <2>2. CASE t = s
    <3>1. MapInv(t)'
      BY <1>0, <1>2, <1>b, <1>e, <1>h, <2>0, <2>2 DEF TaskInv, MapInv
    <3>2. LenInv(t)' /\ RunInv(t)'
      BY <1>0, <1>2, <1>e, <1>l, <1>p, <2>0, <2>2 DEF TaskInv, LenInv, RunInv
    <3>3. RegionInv(t)'
      BY <1>0, <1>2, <1>e, <1>h, <2>0 DEF TaskInv, RegionInv
    <3> QED BY <3>1, <3>2, <3>3 DEF TaskInv
  <2> QED BY <2>1, <2>2
<1> QED BY <1>3, <1>7, <1>9 DEF MemInv

-----------------------------------------------------------------------------
(* The end of an iteration *)

\* The tokens of an iteration: no sequence grows beyond MaxLen, and those
\* that stop are the finished tasks.
LEMMA InferDoneMem ==
  ASSUME QInv, MemInv, NEW eos \in SUBSET Producing, InferDone(eos)
  PROVE  MemInv'
<1>t. QueueType /\ LocalsInv /\ BatchInv /\ MemType /\ LostInv /\ DevSound
  BY DEF QInv, MemInv
<1> DEFINE P == Producing
           stopped == {s \in P : s \in eos \/ reached_max_len(s)}
<1>0. /\ pc = "infer" /\ pc' \in {"idle", "finish"}
      /\ tlen' = [s \in Seqs |-> IF s \in P THEN tlen[s] + 1 ELSE tlen[s]]
      /\ status' = [s \in Seqs |-> IF s \in stopped THEN "Finished" ELSE status[s]]
      /\ finished' = Kept(allocated, stopped) /\ allocated' = Kept(allocated, Seqs \ stopped)
      /\ UNCHANGED <<mode, dev, pending, bg, kept, promoted, budget>>
  BY DEF InferDone, locals
<1>p. P \subseteq Elems(allocated) /\ Elems(allocated) \subseteq Seqs
  <2>1. P \subseteq Elems(allocated)
    BY <1>t, <1>0 DEF Producing, BatchInv
  <2>2. Elems(allocated) \subseteq Seqs
    BY <1>t DEF QueueType, Elems
  <2> QED BY <2>1, <2>2
<1>s. stopped \subseteq P
  OBVIOUS
<1>r. \A s \in P : s \notin stopped => tlen[s] + 1 < MaxLen
  <2> SUFFICES ASSUME NEW s \in P, ~reached_max_len(s)
               PROVE  tlen[s] + 1 < MaxLen
    OBVIOUS
  <2>1. tlen[s] \in 1..MaxLen /\ MaxLen \in Nat
    BY <1>t, <1>p, SizeAssumption DEF MemType
  <2>2. ~(tlen[s] + 1 >= MaxLen)
    BY DEF reached_max_len
  <2> QED BY ONLY <2>1, <2>2
<1> HIDE DEF P, stopped
<1>a. \A s \in P : PlaceOf(s) /\ TaskInv(s) /\ s \in Running
  BY <1>p, OnePlace DEF MemInv, Running
<1>b. \A s \in P : /\ status[s] \in {"Waiting", "Allocated"} /\ s \notin pending /\ tlen[s] < MaxLen
                   /\ Gpu.map[s].live
  <2> SUFFICES ASSUME NEW s \in P
               PROVE  /\ status[s] \in {"Waiting", "Allocated"} /\ s \notin pending
                      /\ tlen[s] < MaxLen /\ Gpu.map[s].live
    OBVIOUS
  <2>1. status[s] \in Alive /\ s \notin pending /\ s \notin Elems(finished)
    BY <1>a DEF PlaceOf
  <2>2. LenInv(s) /\ RunInv(s) /\ s \in Running
    BY <1>a DEF TaskInv
  <2> QED BY <1>0, <2>1, <2>2 DEF LenInv, RunInv, Alive
<1>e. /\ Elems(allocated') \subseteq Elems(allocated)
      /\ \A s \in stopped : s \in Elems(finished')
  <2>1. Elems(allocated') \subseteq Elems(allocated)
    BY <1>t, <1>0, SortedKept DEF QueueType
  <2>2. Elems(Kept(allocated, stopped)) = {x \in stopped : x \in Elems(allocated)}
    BY <1>t, KeptLemma DEF QueueType
  <2> QED BY <1>0, <1>p, <1>s, <2>1, <2>2
<1>2. Gpu' = Gpu /\ Host' = Host /\ Disk' = Disk
  BY <1>0 DEF Gpu, Host, Disk
<1>3. /\ tlen' \in [Seqs -> 1..MaxLen]
      /\ \A s \in Seqs : /\ tlen[s] <= tlen'[s]
                         /\ s \notin P => tlen'[s] = tlen[s]
                         /\ s \in P => tlen'[s] = tlen[s] + 1
  <2>1. MaxLen \in Nat /\ tlen \in [Seqs -> 1..MaxLen]
    BY <1>t, SizeAssumption DEF MemType
  <2>2. \A s \in Seqs : (IF s \in P THEN tlen[s] + 1 ELSE tlen[s]) \in 1..MaxLen
    BY ONLY <1>b, <2>1
  <2>3. tlen' \in [Seqs -> 1..MaxLen]
    BY ONLY <1>0, <2>2
  <2>4. \A s \in Seqs : tlen'[s] = IF s \in P THEN tlen[s] + 1 ELSE tlen[s]
    BY ONLY <1>0
  <2> QED BY ONLY <2>1, <2>3, <2>4
<1>4. MemType'
  BY <1>t, <1>0, <1>3 DEF MemType
<1>5. DevSound'
  <2>1. MaxLen \in Nat /\ tlen \in [Seqs -> 0..MaxLen] /\ tlen' \in [Seqs -> 0..MaxLen]
    BY <1>t, <1>3, Lens
  <2> QED BY <1>t, <1>2, <1>3, <2>1, Lens, GrowSound DEF DevSound
<1>6. \A s \in Seqs : status'[s] = IF s \in stopped THEN "Finished" ELSE status[s]
  BY <1>0
<1>7. LostInv'
  BY <1>t, <1>0, <1>2, <1>6, <1>b, <1>s DEF LostInv
<1>8. Running' \subseteq Running /\ Ready' = {}
  <2>1. kept' = <<>> /\ promoted' = <<>> /\ Elems(<<>>) = {}
    BY <1>t, <1>0 DEF MemType, LocalsInv, Elems
  <2> QED BY <1>0, <1>e, <2>1 DEF Running, Ready
<1>9. ASSUME NEW t \in Seqs PROVE TaskInv(t)'
  <2>0. TaskInv(t) /\ (Backed(t)' <=> Backed(t))
    BY <1>0 DEF MemInv, Backed
  <2>1. CASE t \notin P
    <3>1. SameState(t) /\ StaysReady(t)
      BY <1>0, <1>3, <1>6, <1>8, <1>s, <2>0, <2>1 DEF SameState, StaysReady
    <3>2. SameBlocks(t)
      BY <1>2 DEF SameBlocks
    <3>3. t \notin Elems(finished)
      BY <1>t, <1>0 DEF LocalsInv, Elems
    <3> QED BY <2>0, <3>1, <3>2, <3>3, TaskFrame
  <2>2. CASE t \in P
    <3>0. /\ status[t] \in {"Waiting", "Allocated"} /\ t \notin pending /\ t \notin pending'
          /\ status'[t] = IF t \in stopped THEN "Finished" ELSE status[t]
      BY <1>0, <1>6, <1>b, <2>2
    <3>1. MapInv(t)'
      BY <1>2, <1>b, <2>0, <2>2, <3>0 DEF TaskInv, MapInv, Alive
    <3>2. LenInv(t)'
      <4>1. t \notin stopped => tlen'[t] < MaxLen
        BY <1>3, <1>r, <2>2
      <4> QED BY <1>e, <3>0, <4>1 DEF LenInv
    <3>3. RunInv(t)'
      BY <1>2, <1>8, <1>b, <2>2 DEF RunInv
    <3>4. RegionInv(t)'
      BY <1>2, <2>0, <3>0 DEF TaskInv, RegionInv
    <3> QED BY <3>1, <3>2, <3>3, <3>4 DEF TaskInv
  <2> QED BY <2>1, <2>2
<1> QED BY <1>4, <1>5, <1>7, <1>9 DEF MemInv

\* A finished task leaves nothing behind but its backup.
LEMMA FinishTaskMem ==
  ASSUME QInv, MemInv, FinishTask
  PROVE  MemInv'
<1>t. QueueType /\ LocalsInv /\ MemType /\ LostInv /\ DevSound /\ JobInv
  BY DEF QInv, MemInv
<1> DEFINE s == Head(finished)
           saves == CanReserveCopy(Host, Disk, s)
           z == IF saves THEN reserve_copy_blocks(Host, Disk, s, Out(s)) ELSE Disk
           job == [s |-> s, from |-> "host", to |-> "disk", copied |-> FALSE,
                   map |-> zip(CopySources(Host, Disk, s), z.resv[Out(s)])]
           g == remove_task(Gpu, s)
           h == remove_task(Host, s)
           d == remove_task(z, s)
<1>0. /\ pc = "finish" /\ pc' \in {"idle", "finish"}
      /\ dev' = [gpu |-> g, host |-> h, disk |-> d]
      /\ bg' = IF saves THEN Append(bg, job) ELSE bg
      /\ status' = [status EXCEPT ![s] = "Done"]
      /\ finished' = Tail(finished)
      /\ UNCHANGED <<mode, tlen, pending, kept, promoted, allocated, budget>>
  BY DEF FinishTask, queues, locals, Gpu, Host, Disk, Out
<1>j. job.to = "disk" /\ job.s = s
  OBVIOUS
<1>s. s \in Seqs /\ Elems(finished) = {s} \union Elems(finished')
  BY <1>t, <1>0, SortedTail DEF QueueType, LocalsInv
<1>f. \A x : \/ remove_task(x, s) = free(x, s) \/ remove_task(x, s) = free_and_drop_cache(x, s)
  BY DEF remove_task
<1> HIDE DEF s, job
<1>a. TaskInv(s) /\ PlaceOf(s) /\ In(s) \in Regions /\ Out(s) \in Regions
  BY <1>s, OnePlace, RegionNames DEF MemInv
<1>b. status[s] \in Alive /\ s \notin pending /\ s \notin Running
  BY <1>s, <1>a DEF PlaceOf
<1>c. /\ ~Backed(s) /\ Disk.resv[Out(s)] = <<>> /\ Host.resv[In(s)] = <<>>
  BY <1>a, <1>b DEF TaskInv, RegionInv, Alive
<1>z. /\ Sound(z, NumDisk, tlen) /\ z.map = Disk.map /\ z.lost = Disk.lost
      /\ \A q \in Regions : q # Out(s) => z.resv[q] = Disk.resv[q]
      /\ ~saves => z.resv[Out(s)] = <<>>
  <2>1. CASE saves
    <3>1. z = reserve_copy_blocks(Host, Disk, s, Out(s)) /\ CanReserveCopy(Host, Disk, s)
      BY <2>1
    <3> HIDE DEF z, saves
    <3> QED BY <1>t, <1>s, <1>a, <1>c, <2>1, <3>1, Lens, ReserveCopy DEF DevSound
  <2>2. CASE ~saves
    BY <1>t, <1>c, <2>2 DEF DevSound
  <2> QED BY <2>1, <2>2
<1> HIDE DEF z, saves
<1>g. Sound(g, NumGpu, tlen) /\ g.resv = Gpu.resv /\ g.lost = Gpu.lost
      /\ g.map[s] = NoMap /\ \A t \in Seqs : t # s => g.map[t] = Gpu.map[t]
  BY <1>t, <1>s, <1>f, Lens, FreeBlocks DEF DevSound
<1>h. Sound(h, NumHost, tlen) /\ h.resv = Host.resv /\ h.lost = Host.lost
      /\ h.map[s] = NoMap /\ \A t \in Seqs : t # s => h.map[t] = Host.map[t]
  BY <1>t, <1>s, <1>f, Lens, FreeBlocks DEF DevSound
<1>d. Sound(d, NumDisk, tlen) /\ d.resv = z.resv /\ d.lost = z.lost
      /\ d.map[s] = NoMap /\ \A t \in Seqs : t # s => d.map[t] = z.map[t]
  BY <1>t, <1>s, <1>f, <1>z, Lens, FreeBlocks
<1> HIDE DEF g, h, d
<1>k. /\ \A t : Backed(t)' <=> Backed(t) \/ (saves /\ t = s)
      /\ \A i \in 1..Len(bg') : bg'[i].s \in Seqs
  <2>1. CASE saves
    BY <1>t, <1>0, <1>j, <1>s, <2>1, JobAppended DEF MemType
  <2>2. CASE ~saves
    BY <1>t, <1>0, <2>2 DEF MemType, Backed
  <2> QED BY <2>1, <2>2
<1>2. Gpu' = g /\ Host' = h /\ Disk' = d /\ DOMAIN dev' = Devices
  BY <1>0 DEF Gpu, Host, Disk, Devices
<1>3. MemType' /\ DevSound'
  BY <1>t, <1>0, <1>2, <1>k, <1>g, <1>h, <1>d DEF MemType, DevSound
<1>4. \A t \in Seqs : status'[t] = IF t = s THEN "Done" ELSE status[t]
  BY <1>t, <1>0 DEF QueueType
<1>7. LostInv'
  BY <1>t, <1>0, <1>2, <1>4, <1>b, <1>g, <1>h, <1>d, <1>z DEF LostInv, Alive
<1>8. Running' = Running /\ Ready' \subseteq Ready
  BY <1>0 DEF Running, Ready
<1>9. ASSUME NEW t \in Seqs PROVE TaskInv(t)'
  <2>0. TaskInv(t) /\ StaysReady(t)
    BY <1>0, <1>8 DEF MemInv, StaysReady
  <2>n. In(t) \in Regions /\ Out(t) \in Regions /\ In(t) # Out(s) /\ (t # s => Out(t) # Out(s))
    BY <1>s, RegionNames
  <2>1. CASE t # s
    <3>1. SameState(t)
      BY <1>0, <1>4, <1>k, <2>1 DEF SameState
    <3>2. SameBlocks(t)
      BY <1>2, <1>g, <1>h, <1>d, <1>z, <2>1, <2>n DEF SameBlocks
    <3>3. t \in Elems(finished) => t \in Elems(finished)'
      BY <1>s, <2>1
    <3> QED BY <2>0, <3>1, <3>2, <3>3, TaskFrame
  <2>2. CASE t = s
    <3>0. NoMap.live = FALSE /\ NoMap.filled = 0 /\ 0 % BlockSize = 0
      BY SizeAssumption DEF NoMap
    <3>1. MapInv(t)'
      BY <1>0, <1>2, <1>4, <1>b, <1>g, <1>h, <1>d, <2>2, <3>0 DEF MapInv, Alive
    <3>2. LenInv(t)'
      BY <1>4, <2>2 DEF LenInv
    <3>3. RunInv(t)'
      <4>1. t \notin Running' /\ t \notin Ready'
        BY <1>0, <1>8, <1>b, <2>2 DEF Running, Ready
      <4> QED BY <4>1 DEF RunInv
    <3>4. RegionInv(t)'
      BY <1>2, <1>4, <1>c, <1>g, <1>h, <1>d, <1>z, <1>k, <2>0, <2>2, <2>n DEF TaskInv, RegionInv
    <3> QED BY <3>1, <3>2, <3>3, <3>4 DEF TaskInv
  <2> QED BY <2>1, <2>2
<1> QED BY <1>3, <1>7, <1>9 DEF MemInv

\* Every step keeps the blocks in order.
LEMMA MemStep == QInv /\ MemInv /\ [Next]_vars => MemInv'
<1> SUFFICES ASSUME QInv, MemInv, [Next]_vars PROVE MemInv'
  OBVIOUS
<1>1. CASE Schedule
  BY <1>1, ScheduleQuiet, ExtendFrontMem, PreemptBackMem, AdmitMem, ReclaimOneMem,
     ReclaimFailedMem, DispatchOneMem DEF Schedule
<1>2. CASE \E eos \in SUBSET Producing : InferDone(eos)
  BY <1>2, InferDoneMem
<1>3. CASE FinishTask
  BY <1>3, FinishTaskMem
<1>4. CASE Background
  BY <1>4, BgCopyMem, BgStagedMem, BgSavedMem DEF Background
<1>5. ASSUME NEW s \in Seqs,
             \/ AddRequest(s) \/ AddRequestStaged(s) \/ ReserveRequest(s) \/ PendReserved(s)
             \/ \E n \in 0..NumFull : TriggerRequest(s, n)
      PROVE  MemInv'
  BY <1>5, AddRequestMem, AddRequestStagedMem, ReserveRequestMem, PendReservedMem,
     TriggerRequestMem
<1>6. CASE ClearCache
  BY <1>6, ClearCacheMem
<1>7. CASE UNCHANGED vars
  <2>1. UNCHANGED <<mode, dev, tlen, status, pending, bg, finished, pc, kept, allocated, promoted, budget>>
    BY <1>7 DEF vars, queues, locals
  <2>2. MemType'
    BY <2>1 DEF MemInv, MemType
  <2>3. QuietStep
    BY <2>1, <2>2 DEF QuietStep, SameJobs, StaysReady, Running, Ready, Backed
  <2> QED BY <2>1, <2>3, Quiet
<1> QED
  BY <1>1, <1>2, <1>3, <1>4, <1>5, <1>6, <1>7 DEF Next, EngineLoop, Handlers

\* The queues and the blocks of the three devices agree, always: QInv /\ MemInv
\* is an inductive invariant of the scheduler.
THEOREM MemoryInvariant == Spec => [](QInv /\ MemInv)
<1>1. Init => QInv /\ MemInv
  BY QInit, MemInit
<1>2. (QInv /\ MemInv) /\ [Next]_vars => (QInv /\ MemInv)'
  BY QStep, MemStep
<1> QED
  BY <1>1, <1>2, PTL DEF Spec

\* The assertion of update_filled_len never fires: whatever was preempted,
\* chunked, fetched or staged before, dispatch never fills more tokens of a
\* sequence than it has slots, on the GPU or on the host, so that the engine
\* loop panics only when alloc_block finds the GPU's pool empty.
THEOREM FillsWithinSlots == Spec => []FilledWithinSlots
<1>1. MemInv => FilledWithinSlots
  BY DEF MemInv, LostInv, FilledWithinSlots, Gpu
<1> QED
  BY <1>1, MemoryInvariant, PTL

\* The host and the disk hold whole blocks only, in every state: what
\* get_prefix_cache_blocks_range asserts when trigger_pend_task calls it.
THEOREM WholeBlocksOnly == Spec => []HostAligned
<1>1. MemInv => HostAligned
  BY DEF MemInv, TaskInv, MapInv, HostAligned, filled, Host, Disk
<1> QED
  BY <1>1, MemoryInvariant, PTL

\* A device none of whose blocks is held and none was lost has all of them
\* on its free list.
LEMMA AllBack ==
  ASSUME NEW n \in Nat, NEW x, Sound(x, n, tlen), \A s \in Seqs : ~x.map[s].live,
         \A s \in Seqs : x.resv[In(s)] = <<>> /\ x.resv[Out(s)] = <<>>, x.lost = {}
  PROVE  Len(x.free) = n
<1>1. \A s \in Seqs : x.map[s].ids = <<>>
  BY NoMapCached DEF NoMap
<1>2. \A r \in Regions : x.resv[r] = <<>>
  BY RegionNames
<1>3. Len(x.free) + Cardinality(x.lost) = n
  BY <1>1, <1>2, AllFree
<1>4. Cardinality(x.lost) = 0
  BY FS_EmptySet
<1>5. Len(x.free) \in Nat
  BY ManagerFields DEF Sound
<1> QED BY ONLY <1>3, <1>4, <1>5

\* No block leaks: once every request is served and the background copies are
\* done, every block of the GPU, the host and the disk is free again, whatever
\* was preempted, staged, shared, cached or backed up on the way.
THEOREM BlocksReleased == Spec => []AllReleased
<1>1. QInv /\ MemInv => AllReleased
  <2> SUFFICES ASSUME QInv, MemInv, \A s \in Seqs : status[s] \in {"New", "Done"}, bg = <<>>
               PROVE  \A d \in Devices : Len(dev[d].free) = NumOf[d]
    BY DEF AllReleased
  <2>1. MemType /\ DevSound /\ LostInv
    BY DEF MemInv
  <2>2. \A s \in Seqs : TaskInv(s) /\ s \notin pending /\ ~Backed(s)
    BY OnePlace DEF MemInv, PlaceOf, Alive, Backed
  <2>3. \A s \in Seqs : ~Gpu.map[s].live /\ ~Host.map[s].live /\ ~Disk.map[s].live
    BY <2>2 DEF TaskInv, MapInv
  <2>4. \A s \in Seqs : /\ Gpu.resv[In(s)] = <<>> /\ Gpu.resv[Out(s)] = <<>>
                        /\ Host.resv[In(s)] = <<>> /\ Host.resv[Out(s)] = <<>>
                        /\ Disk.resv[In(s)] = <<>> /\ Disk.resv[Out(s)] = <<>>
    BY <2>2 DEF TaskInv, RegionInv
  <2>5. Gpu.lost = {} /\ Host.lost = {} /\ Disk.lost = {}
    BY <2>1 DEF LostInv, Alive
  <2>6. Len(Gpu.free) = NumGpu /\ Len(Host.free) = NumHost /\ Len(Disk.free) = NumDisk
    BY <2>1, <2>3, <2>4, <2>5, Lens, AllBack DEF DevSound
  <2> QED BY <2>6 DEF Devices, NumOf, Gpu, Host, Disk
<1> QED
  BY <1>1, MemoryInvariant, PTL

\* The engine loop is always at one of its places.
PcType == pc \in {"idle", "extend", "admit", "reclaim", "dispatch", "infer", "finish", "panicked"}

\* ... and every step leads to another.
LEMMA PcStep == PcType /\ [Next]_vars => PcType'
<1> SUFFICES ASSUME PcType, [Next]_vars PROVE PcType'
  OBVIOUS
<1>1. CASE Schedule
  BY <1>1 DEF PcType, Schedule, StartIter, ExtendFront, PreemptBack, YieldFront, ExtendDone,
     AdmitFront, AdmitDone, ReorderAdmit, ReorderDefer, ReorderReclaim, ReclaimOne, ReclaimFailed,
     ReorderDone, DispatchOne, DispatchDone, Admit, StartDispatch
<1>2. CASE (\E eos \in SUBSET Producing : InferDone(eos)) \/ FinishTask
  BY <1>2 DEF PcType, InferDone, FinishTask
<1>3. CASE Background \/ Handlers
  <2>1. pc' = pc
    BY ONLY <1>3 DEF Background, BgCopy, BgStaged, BgSaved, Handlers, AddRequest, AddRequestStaged,
       ReserveRequest, PendReserved, TriggerRequest, ClearCache
  <2> QED BY <2>1 DEF PcType
<1>4. CASE UNCHANGED vars
  BY <1>4 DEF PcType, vars
<1> QED
  BY <1>1, <1>2, <1>3, <1>4 DEF Next, EngineLoop

-----------------------------------------------------------------------------
(* The KV in the blocks of the GPU: the execution of a batch is a fold *)

\* What the GPU holds when the entries of q have been executed in turn.
Ran(c, q) == FoldLeft(Computed, c, q)

\* g is the recursion of this fold on the subsets of 1..m.
Step(g, c, q, s) == IF s = {} THEN c ELSE Computed(g[s \ {Max(s)}], q[Max(s)])
Iter(g, c, q, m) == [s \in SUBSET (1..m) |-> Step(g, c, q, s)]

\* The fold is the value of that recursion at 1..Len(q).
LEMMA RanIter ==
  ASSUME NEW c, NEW S, NEW q \in Seq(S)
  PROVE  Ran(c, q) = (CHOOSE g : g = Iter(g, c, q, Len(q)))[1..Len(q)]
<1>1. DOMAIN q = 1..Len(q)
  OBVIOUS
<1>2. Ran(c, q) = (CHOOSE g : g = [s \in SUBSET (DOMAIN q) |-> Step(g, c, q, s)])[DOMAIN q]
  BY Zenon DEF Ran, FoldLeft, MapThenFoldSet, Step
<1> QED BY <1>1, <1>2 DEF Iter

\* Induction, with the numbers that have the property as a set.
LEMMA Climb ==
  ASSUME NEW T, 0 \in T, \A n \in Nat : n \in T => n + 1 \in T
  PROVE  Nat \subseteq T
<1> SUFFICES ASSUME Nat \ T # {} PROVE FALSE
  OBVIOUS
<1>1. PICK x \in Nat \ T : \A y \in Nat \ T : x <= y
  <2> DEFINE U == Nat \ T
  <2>1. U \in SUBSET Nat /\ U # {}
    OBVIOUS
  <2> HIDE DEF U
  <2>2. \E x \in U : \A y \in U : x <= y
    BY <2>1, LeastNat
  <2> QED BY <2>2 DEF U
<1>2. x # 0
  BY <1>1
<1>3. x - 1 \in Nat /\ x - 1 \in T
  BY <1>1, <1>2
<1>4. (x - 1) + 1 \in T
  BY <1>3
<1> QED BY <1>1, <1>4

\* The greatest element of a set of positions, and what is left without it.
LEMMA WithoutMax ==
  ASSUME NEW m \in Nat, NEW s \in SUBSET (1..(m + 1)), s # {}
  PROVE  Max(s) \in s /\ s \ {Max(s)} \in SUBSET (1..m)
<1>0. m + 1 \in Nat /\ \A i \in 1..(m + 1) : i # m + 1 => i \in 1..m
  OBVIOUS
<1>1. PICK x \in s : \A y \in s : x >= y
  BY <1>0, GreatestNat
<1>2. Max(s) \in s /\ \A y \in s : Max(s) >= y
  BY <1>1 DEF Max
<1>3. \A y \in s : y # Max(s) => y # m + 1
  <2>1. \A y, z \in 1..(m + 1) : y >= z /\ z = m + 1 => y = z
    OBVIOUS
  <2> QED BY <1>2, <2>1
<1> QED BY <1>0, <1>2, <1>3

\* The recursion has a solution.
LEMMA IterExists ==
  ASSUME NEW c, NEW q
  PROVE  \A m \in Nat : \E g : g = Iter(g, c, q, m)
<1> DEFINE T == {m \in Nat : \E g : g = Iter(g, c, q, m)}
<1>1. 0 \in T
  <2> DEFINE g == [s \in SUBSET (1..0) |-> c]
  <2>1. \A s \in SUBSET (1..0) : s = {}
    OBVIOUS
  <2>2. g = Iter(g, c, q, 0)
    BY <2>1 DEF Iter, Step
  <2> HIDE DEF g
  <2> QED BY <2>2
<1>2. ASSUME NEW m \in Nat, m \in T PROVE m + 1 \in T
  <2>1. PICK g : g = Iter(g, c, q, m)
    BY <1>2
  <2> DEFINE h == [s \in SUBSET (1..(m + 1)) |-> Step(g, c, q, s)]
  <2>2. \A s \in SUBSET (1..m) : s \in SUBSET (1..(m + 1)) /\ h[s] = g[s]
    <3>1. \A s \in SUBSET (1..m) : s \in SUBSET (1..(m + 1))
      OBVIOUS
    <3>2. \A s \in SUBSET (1..m) : g[s] = Step(g, c, q, s)
      BY <2>1 DEF Iter
    <3> QED BY <3>1, <3>2
  <2>3. ASSUME NEW s \in SUBSET (1..(m + 1)) PROVE Step(g, c, q, s) = Step(h, c, q, s)
    <3>1. CASE s = {}
      BY <3>1 DEF Step
    <3>2. CASE s # {}
      <4>1. s \ {Max(s)} \in SUBSET (1..m)
        BY <3>2, WithoutMax
      <4>2. h[s \ {Max(s)}] = g[s \ {Max(s)}]
        BY <2>2, <4>1
      <4> HIDE DEF h
      <4> QED BY ONLY <3>2, <4>2 DEF Step
    <3> QED BY <3>1, <3>2
  <2>4. h = Iter(h, c, q, m + 1)
    <3>1. h = [s \in SUBSET (1..(m + 1)) |-> Step(g, c, q, s)]
      OBVIOUS
    <3> HIDE DEF h
    <3> QED BY <2>3, <3>1 DEF Iter
  <2> HIDE DEF h
  <2> QED BY <2>4
<1>3. Nat \subseteq T
  <2> HIDE DEF T
  <2> QED BY <1>1, <1>2, Climb
<1> QED BY <1>3

\* It depends on the entries it reaches only.
LEMMA IterUnique ==
  ASSUME NEW c, NEW q, NEW r, NEW m \in Nat, NEW n \in Nat, m <= n,
         \A i \in 1..m : q[i] = r[i], NEW g, g = Iter(g, c, q, m), NEW h, h = Iter(h, c, r, n)
  PROVE  \A s \in SUBSET (1..m) : g[s] = h[s]
<1> DEFINE T == {j \in Nat : j <= m => \A s \in SUBSET (1..j) : g[s] = h[s]}
<1>1. /\ \A s \in SUBSET (1..m) : g[s] = Step(g, c, q, s)
      /\ \A s \in SUBSET (1..n) : h[s] = Step(h, c, r, s)
  BY DEF Iter
<1>2. 0 \in T
  <2>1. \A s \in SUBSET (1..0) : s = {} /\ s \in SUBSET (1..m) /\ s \in SUBSET (1..n)
    OBVIOUS
  <2> QED BY <1>1, <2>1 DEF Step
<1>3. ASSUME NEW j \in Nat, j \in T PROVE j + 1 \in T
  <2> SUFFICES ASSUME j + 1 <= m, NEW s \in SUBSET (1..(j + 1)) PROVE g[s] = h[s]
    OBVIOUS
  <2>1. s \in SUBSET (1..m) /\ s \in SUBSET (1..n)
    OBVIOUS
  <2>2. g[s] = Step(g, c, q, s) /\ h[s] = Step(h, c, r, s)
    BY <1>1, <2>1
  <2>3. CASE s = {}
    BY <2>2, <2>3 DEF Step
  <2>4. CASE s # {}
    <3>1. Max(s) \in s /\ s \ {Max(s)} \in SUBSET (1..j)
      BY <2>4, WithoutMax
    <3>2. g[s \ {Max(s)}] = h[s \ {Max(s)}]
      BY <1>3, <3>1
    <3>3. q[Max(s)] = r[Max(s)]
      BY <2>1, <3>1
    <3> QED BY ONLY <2>2, <2>4, <3>2, <3>3 DEF Step
  <2> QED BY <2>3, <2>4
<1>4. Nat \subseteq T
  <2> HIDE DEF T
  <2> QED BY <1>2, <1>3, Climb
<1> QED BY <1>4

\* Nothing is executed in an empty batch, and one more entry after the others.
LEMMA RanEmpty ==
  ASSUME NEW c
  PROVE  Ran(c, <<>>) = c
<1>1. PICK h : h = Iter(h, c, <<>>, 0)
  BY IterExists
<1> DEFINE g == CHOOSE g : g = Iter(g, c, <<>>, 0)
<1>2. g = Iter(g, c, <<>>, 0)
  BY <1>1
<1>3. Ran(c, <<>>) = g[1..0]
  <2>1. <<>> \in Seq({}) /\ Len(<<>>) = 0
    OBVIOUS
  <2> QED BY <2>1, RanIter
<1> HIDE DEF g
<1>4. 1..0 = {}
  OBVIOUS
<1> QED BY <1>2, <1>3, <1>4 DEF Iter, Step

\* One more entry is executed on what the entries before it left.
LEMMA RanAppend ==
  ASSUME NEW c, NEW S, NEW q \in Seq(S), NEW e
  PROVE  Ran(c, Append(q, e)) = Computed(Ran(c, q), e)
<1> DEFINE n == Len(q) r == Append(q, e) U == S \union {e}
<1>1. /\ n \in Nat /\ r \in Seq(U) /\ q \in Seq(S) /\ Len(r) = n + 1
      /\ r[n + 1] = e /\ \A i \in 1..n : q[i] = r[i]
  OBVIOUS
<1> DEFINE g == CHOOSE g : g = Iter(g, c, q, n)
           h == CHOOSE h : h = Iter(h, c, r, n + 1)
<1>2. Ran(c, q) = g[1..n] /\ Ran(c, r) = h[1..(n + 1)]
  <2>1. Ran(c, q) = g[1..n]
    BY RanIter
  <2>2. Ran(c, r) = (CHOOSE f : f = Iter(f, c, r, Len(r)))[1..Len(r)]
    <3> HIDE DEF r, U
    <3> QED BY <1>1, RanIter
  <2> HIDE DEF r, n
  <2> QED BY <1>1, <2>1, <2>2
<1>3. g = Iter(g, c, q, n)
  <2>1. \E f : f = Iter(f, c, q, n)
    BY <1>1, IterExists
  <2> QED BY <2>1
<1>4. h = Iter(h, c, r, n + 1)
  <2> HIDE DEF r, n
  <2>1. n + 1 \in Nat
    BY <1>1
  <2>2. \E f : f = Iter(f, c, r, n + 1)
    BY <2>1, IterExists
  <2> QED BY <2>2
<1> HIDE DEF g, h, n, r, U
<1>5. g[1..n] = h[1..n]
  <2>1. n \in Nat /\ n + 1 \in Nat /\ n <= n + 1
    BY <1>1
  <2>3. \A i \in 1..n : q[i] = r[i]
    BY <1>1
  <2> DEFINE k == n + 1
  <2>4. k \in Nat /\ n <= k /\ h = Iter(h, c, r, k)
    BY <1>4, <2>1
  <2> HIDE DEF k
  <2>2. \A s \in SUBSET (1..n) : g[s] = h[s]
    BY ONLY <1>3, <2>1, <2>3, <2>4, IterUnique
  <2> QED BY <2>2
<1>6. Max(1..(n + 1)) = n + 1 /\ (1..(n + 1)) \ {n + 1} = 1..n /\ 1..(n + 1) # {}
  <2>1. n + 1 \in 1..(n + 1) /\ \A y \in 1..(n + 1) : n + 1 >= y
    BY <1>1
  <2>2. \A x \in 1..(n + 1) : (\A y \in 1..(n + 1) : x >= y) => x = n + 1
    BY <1>1
  <2>3. Max(1..(n + 1)) = n + 1
    BY <2>1, <2>2 DEF Max
  <2>4. (1..(n + 1)) \ {n + 1} = 1..n
    BY <1>1
  <2> QED BY <2>1, <2>3, <2>4
<1>7. h[1..(n + 1)] = Step(h, c, r, 1..(n + 1))
  BY <1>4 DEF Iter
<1>8. Step(h, c, r, 1..(n + 1)) = Computed(h[1..n], e)
  BY ONLY <1>1, <1>6 DEF Step
<1> QED BY ONLY <1>2, <1>5, <1>7, <1>8 DEF r

-----------------------------------------------------------------------------
(* A block that is counted as filled is filled, or owed by a task that runs before *)

\* Block b holds at least the first n tokens of the block with hash h.
Has(c, b, h, n) == c[b] = Misplaced \/ (c[b].key = h /\ c[b].n >= n)

\* u has yet to compute (a part of) block b, and has the slots for it.
OwesAt(x, u, b, k) ==
    /\ x.map[u].ids[k] = b
    /\ x.map[u].filled < k * BlockSize /\ x.map[u].filled < x.map[u].slots
Owes(x, u, b) == \E k \in 1..Len(x.map[u].ids) : OwesAt(x, u, b, k)
Settled(x, t) == \A u \in Seqs : u # t => \A b \in Elems(x.map[t].ids) : ~Owes(x, u, b)

Before(q, u, t) == \E i, j \in 1..Len(q) : i < j /\ q[i] = u /\ q[j] = t

\* Who shares a block that u owes counts it as filled, and runs after u.
ShareInv(x, q) ==
    \A u, t \in Seqs : u # t =>
        \A b \in Elems(x.map[t].ids) : Owes(x, u, b) => ~Owes(x, t, b) /\ Before(q, u, t)

\* What t counts as filled is there, or somebody else owes it.
OwnOK(x, c, t, k) ==
    (k - 1) * BlockSize < x.map[t].filled =>
        \/ Has(c, x.map[t].ids[k], BlockHash[t][k],
               Least(BlockSize, x.map[t].filled - (k - 1) * BlockSize))
        \/ \E u \in Seqs : u # t /\ Owes(x, u, x.map[t].ids[k])
OwnInv(x, c) == \A t \in Seqs : \A k \in 1..Len(x.map[t].ids) : OwnOK(x, c, t, k)

\* So is what is found by its label.
HitOK(x, c, h) ==
    lookup_block_id(x, h) # NoBlock =>
        \/ Has(c, lookup_block_id(x, h), h, BlockSize)
        \/ \E u \in Seqs : Owes(x, u, lookup_block_id(x, h))
HitInv(x, c) == \A h \in Hashes : HitOK(x, c, h)

\* A task that does not run, or has no slot yet for its last token, has all
\* its slots filled, and nobody owes it anything.
RestOK(x, q, tl, t) ==
    (t \notin Elems(q) \/ x.map[t].slots < tl[t]) =>
        x.map[t].filled = x.map[t].slots /\ Settled(x, t)
RestInv(x, q, tl) == \A t \in Seqs : RestOK(x, q, tl, t)

Filling(x, q, c, tl) == ShareInv(x, q) /\ OwnInv(x, c) /\ HitInv(x, c) /\ RestInv(x, q, tl)

\* Owes depends on the map of u only.
LEMMA OwesFrame ==
  ASSUME NEW x, NEW y, NEW u, y.map[u] = x.map[u], NEW b
  PROVE  Owes(y, u, b) <=> Owes(x, u, b)
BY DEF Owes, OwesAt

\* Who owes a block holds it, and has slots that are not filled.
LEMMA OwesHolds ==
  ASSUME NEW n \in Nat, NEW x \in Manager(n), NEW u \in Seqs, NEW b, Owes(x, u, b)
  PROVE  b \in Elems(x.map[u].ids) /\ x.map[u].filled # x.map[u].slots
<1>1. x.map[u].filled \in Nat /\ x.map[u].slots \in Nat
  BY MapFields, SizeAssumption
<1> QED BY <1>1 DEF Owes, OwesAt, Elems

\* s gets slots: it owes the new blocks, and nobody else has those.
LEMMA GrowFilling ==
  ASSUME NEW n \in Nat, NEW tl \in [Seqs -> 0..MaxLen], NEW x, Sound(x, n, tl), NEW s \in Seqs,
         NEW y, NEW new \in Seq(Blocks(n)), Gets(x, y, s, tl[s], new),
         \A t \in Seqs : t # s => y.map[t] = x.map[t],
         y.map[s].filled = x.map[s].filled, y.map[s].slots = tl[s],
         x.map[s].slots < tl[s] => x.map[s].filled = x.map[s].slots,
         NEW q, s \in Elems(q), NEW c, ShareInv(x, q), OwnInv(x, c), HitInv(x, c),
         \A t \in Seqs : t # s => RestOK(x, q, tl, t)
  PROVE  Filling(y, q, c, tl)
<1> DEFINE B == BlockSize
           ids == x.map[s].ids
           L == Len(ids)
           slots == x.map[s].slots
           filled0 == x.map[s].filled
           total == tl[s]
<1>0. /\ x \in Manager(n) /\ ids \in Seq(Blocks(n)) /\ L \in Nat
      /\ slots \in Nat /\ filled0 \in Nat /\ total \in Nat /\ B \in Nat \ {0}
  BY MapFields, SizeAssumption DEF Sound
<1>1. slots <= total /\ filled0 <= slots /\ slots <= L * B
  <2>1. MapOK(x, s, total)
    BY DEF Sound
  <2>2. slots <= total /\ filled0 <= slots /\ L = CeilDiv(slots, B)
    BY <2>1 DEF MapOK
  <2> HIDE DEF slots, L, filled0, total
  <2> QED BY <1>0, <2>2, CeilBounds
<1>2. /\ y.map[s].ids = ids \o new /\ Len(y.map[s].ids) = L + Len(new) /\ Len(new) \in Nat
      /\ \A k \in 1..L : y.map[s].ids[k] = ids[k]
      /\ \A k \in 1..Len(y.map[s].ids) : k \notin 1..L => y.map[s].ids[k] \in Elems(new) /\ k > L
      /\ Elems(y.map[s].ids) = Elems(ids) \union Elems(new)
  <2>1. y.map[s].ids = ids \o new
    BY DEF Gets
  <2>2. Elems(ids \o new) = Elems(ids) \union Elems(new)
    BY <1>0, ConcatElems
  <2> DEFINE w == ids \o new
             p == ids
  <2>3. /\ Len(w) = Len(p) + Len(new) /\ Len(new) \in Nat
        /\ \A k \in 1..Len(p) : w[k] = p[k]
        /\ \A k \in 1..Len(w) :
              k \notin 1..Len(p) => k - Len(p) \in 1..Len(new) /\ w[k] = new[k - Len(p)]
    <3>1. p \in Seq(Blocks(n)) /\ w = p \o new
      BY <1>0
    <3> HIDE DEF p, w
    <3> QED BY <3>1, ConcatIndex
  <2>4. \A k \in 1..Len(w) : k \notin 1..Len(p) => k > Len(p)
    <3>1. Len(p) \in Nat
      BY <1>0
    <3> HIDE DEF p, w
    <3> QED BY <2>3, <3>1
  <2>5. \A k \in 1..Len(w) : k \notin 1..Len(p) => w[k] \in Elems(new)
    <3> HIDE DEF p, w
    <3> QED BY <2>3 DEF Elems
  <2>6. y.map[s].ids = w /\ Len(p) = L
    BY <2>1
  <2>7. Elems(w) = Elems(p) \union Elems(new)
    BY <2>2
  <2> HIDE DEF w, L, p
  <2>8. /\ y.map[s].ids = w /\ Len(w) = L + Len(new) /\ Len(new) \in Nat
        /\ \A k \in 1..L : w[k] = p[k]
        /\ \A k \in 1..Len(w) : k \notin 1..L => w[k] \in Elems(new) /\ k > L
    BY <2>3, <2>4, <2>5, <2>6
  <2> QED BY <2>7, <2>8 DEF w, p
<1>3. \A u \in Seqs : u # s => \A b : Owes(y, u, b) <=> Owes(x, u, b)
  BY OwesFrame
<1>4. \A b \in Elems(new) : \A t \in Seqs : b \notin Elems(x.map[t].ids)
  BY DEF Gets
<1>5. \A u \in Seqs : \A b : Owes(x, u, b) => b \in Elems(x.map[u].ids)
  BY <1>0, OwesHolds
<1>6. ASSUME NEW h \in Hashes
      PROVE  \/ lookup_block_id(y, h) \in {NoBlock, lookup_block_id(x, h)} \union Elems(new)
             \/ /\ lookup_block_id(y, h) = ids[L] /\ L >= 1
                /\ slots < total /\ slots < L * B
  BY DEF Gets, LastBlock
<1>7. /\ y.map[s].filled = filled0 /\ y.map[s].slots = total
      /\ slots = total => new = <<>>
      /\ slots < total => filled0 = slots
  BY DEF Gets
<1>8. CASE slots = total
  <2>1. new = <<>> /\ Elems(new) = {} /\ y.map[s].ids = ids
    BY <1>0, <1>2, <1>7, <1>8 DEF Elems
  <2>2. \A t \in Seqs : /\ y.map[t].ids = x.map[t].ids /\ y.map[t].filled = x.map[t].filled
                        /\ y.map[t].slots = x.map[t].slots
    BY <1>7, <1>8, <2>1
  <2>3. \A u \in Seqs : \A b : Owes(y, u, b) <=> Owes(x, u, b)
    BY <2>2 DEF Owes, OwesAt
  <2>4. \A h \in Hashes : lookup_block_id(y, h) \in {NoBlock, lookup_block_id(x, h)}
    <3> HIDE DEF ids, L, slots, total
    <3> QED BY <1>0, <1>6, <1>8, <2>1
  <2>5. ShareInv(y, q)
    BY <2>2, <2>3 DEF ShareInv
  <2>6. OwnInv(y, c)
    BY <2>2, <2>3 DEF OwnInv, OwnOK
  <2>7. HitInv(y, c)
    BY <2>3, <2>4 DEF HitInv, HitOK
  <2>8. RestInv(y, q, tl)
    <3> SUFFICES ASSUME NEW t \in Seqs PROVE RestOK(y, q, tl, t)
      BY DEF RestInv
    <3>1. CASE t = s
      <4>1. ~(y.map[s].slots < tl[s])
        BY <1>0
      <4> QED BY <3>1, <4>1 DEF RestOK
    <3>2. CASE t # s
      BY <2>2, <2>3, <3>2 DEF RestOK, Settled
    <3> QED BY <3>1, <3>2
  <2> QED BY <2>5, <2>6, <2>7, <2>8 DEF Filling
<1>9. CASE slots < total
  <2>1. filled0 = slots /\ \A b : ~Owes(x, s, b)
    BY <1>0, <1>7, <1>9, OwesHolds
  <2>2. ASSUME NEW b, Owes(y, s, b), NEW t \in Seqs, t # s PROVE b \notin Elems(x.map[t].ids)
    <3>1. PICK k \in 1..Len(y.map[s].ids) : OwesAt(y, s, b, k)
      BY <2>2 DEF Owes
    <3>2. y.map[s].ids[k] = b /\ filled0 < k * B
      BY <1>7, <3>1 DEF OwesAt
    <3>3. CASE k \notin 1..L
      BY <1>2, <1>4, <3>2, <3>3
    <3>4. CASE k \in 1..L
      <4>1. b = ids[k]
        BY <1>2, <3>2, <3>4
      <4> SUFFICES ASSUME b \in Elems(x.map[t].ids) PROVE FALSE
        OBVIOUS
      <4>2. k * B <= slots
        BY <2>2, <3>4, <4>1, SharedFull
      <4> DEFINE kb == k * B
      <4>3. kb \in Nat
        BY <1>0, <3>4
      <4> HIDE DEF slots, filled0, kb
      <4> QED BY ONLY <1>0, <2>1, <3>2, <4>2, <4>3 DEF kb
    <3> QED BY <3>3, <3>4
  <2>3. ASSUME NEW b \in Elems(new) PROVE Owes(y, s, b)
    <3>1. PICK k \in 1..Len(y.map[s].ids) : y.map[s].ids[k] = b /\ k \notin 1..L
      <4>1. b \in Elems(y.map[s].ids) /\ b \notin Elems(ids)
        BY <1>2, <1>4
      <4>2. PICK k \in 1..Len(y.map[s].ids) : y.map[s].ids[k] = b
        BY <4>1 DEF Elems
      <4>3. k \notin 1..L
        BY <1>2, <4>1, <4>2 DEF Elems
      <4> QED BY <4>2, <4>3
    <3>2. k > L /\ k \in Nat
      BY <1>2, <3>1
    <3>3. L * B + B <= k * B /\ L * B \in Nat /\ k * B \in Nat
      <4> HIDE DEF L
      <4> QED BY <1>0, <3>2, MulMono
    <3>4. filled0 < k * B
      <4> DEFINE lb == L * B
                 kb == k * B
      <4>1. lb \in Nat /\ kb \in Nat /\ lb + B <= kb /\ slots <= lb
        BY <1>1, <3>3
      <4> HIDE DEF lb, kb, slots, filled0
      <4>2. filled0 < kb
        BY ONLY <1>0, <1>1, <4>1
      <4> QED BY <4>2 DEF kb
    <3>5. OwesAt(y, s, b, k)
      BY <1>7, <1>9, <2>1, <3>1, <3>4 DEF OwesAt
    <3> QED BY <3>5 DEF Owes
  <2>4. ASSUME L >= 1, slots < L * B PROVE Owes(y, s, ids[L])
    <3>1. L \in 1..L /\ L \in 1..Len(y.map[s].ids)
      <4> HIDE DEF L
      <4> QED BY <1>0, <1>2, <2>4
    <3>2. y.map[s].ids[L] = ids[L]
      BY <1>2, <3>1
    <3>3. OwesAt(y, s, ids[L], L)
      BY <1>7, <1>9, <2>1, <2>4, <3>2 DEF OwesAt
    <3> QED BY <3>1, <3>3 DEF Owes
  <2>5. ShareInv(y, q)
    <3> SUFFICES ASSUME NEW u \in Seqs, NEW t \in Seqs, u # t, NEW b \in Elems(y.map[t].ids),
                        Owes(y, u, b)
                 PROVE  ~Owes(y, t, b) /\ Before(q, u, t)
      BY DEF ShareInv
    <3>1. CASE u = s
      BY <2>2, <3>1
    <3>2. CASE u # s
      <4>1. Owes(x, u, b) /\ b \in Elems(x.map[u].ids)
        BY <1>3, <1>5, <3>2
      <4>2. CASE t = s
        <5>1. b \in Elems(x.map[t].ids)
          BY <1>2, <1>4, <4>1, <4>2
        <5>2. ~Owes(y, t, b)
          BY <2>2, <3>2, <4>1, <4>2
        <5> QED BY <4>1, <5>1, <5>2 DEF ShareInv
      <4>3. CASE t # s
        BY <1>3, <4>1, <4>3 DEF ShareInv
      <4> QED BY <4>2, <4>3
    <3> QED BY <3>1, <3>2
  <2>6. OwnInv(y, c)
    <3> SUFFICES ASSUME NEW t \in Seqs, NEW k \in 1..Len(y.map[t].ids),
                        (k - 1) * BlockSize < y.map[t].filled
                 PROVE  \/ Has(c, y.map[t].ids[k], BlockHash[t][k],
                               Least(BlockSize, y.map[t].filled - (k - 1) * BlockSize))
                        \/ \E u \in Seqs : u # t /\ Owes(y, u, y.map[t].ids[k])
      BY DEF OwnInv, OwnOK
    <3>1. /\ k \in 1..Len(x.map[t].ids) /\ y.map[t].ids[k] = x.map[t].ids[k]
          /\ y.map[t].filled = x.map[t].filled
      <4>1. CASE t # s
        BY <4>1
      <4>2. CASE t = s
        <5>1. k \in Nat /\ k >= 1 /\ (k - 1) * B < filled0
          BY <1>2, <1>7, <4>2
        <5>2. k - 1 < L
          <6> SUFFICES ASSUME L <= k - 1 PROVE FALSE
            BY <1>0, <5>1
          <6> DEFINE m == k - 1
          <6>1. m \in Nat /\ L <= m
            BY <5>1
          <6> HIDE DEF m, L
          <6>2. L * B <= m * B
            BY <1>0, <6>1
          <6> DEFINE lb == L * B
                     mb == m * B
          <6>3. lb \in Nat /\ mb \in Nat /\ slots <= lb /\ lb <= mb /\ mb < filled0
            BY <1>0, <1>1, <5>1, <6>1, <6>2 DEF m
          <6> HIDE DEF lb, mb, slots, filled0
          <6> QED BY ONLY <1>0, <1>1, <6>3
        <5>3. k \in 1..L
          BY <1>0, <5>1, <5>2
        <5> QED BY <1>2, <1>7, <4>2, <5>3
      <4> QED BY <4>1, <4>2
    <3>2. \/ Has(c, x.map[t].ids[k], BlockHash[t][k],
                 Least(BlockSize, x.map[t].filled - (k - 1) * BlockSize))
          \/ \E u \in Seqs : u # t /\ Owes(x, u, x.map[t].ids[k])
      BY <3>1 DEF OwnInv, OwnOK
    <3>3. \A u \in Seqs : Owes(x, u, x.map[t].ids[k]) => Owes(y, u, x.map[t].ids[k])
      BY <1>3, <2>1
    <3> QED BY <3>1, <3>2, <3>3
  <2>7. HitInv(y, c)
    <3> SUFFICES ASSUME NEW h \in Hashes, lookup_block_id(y, h) # NoBlock
                 PROVE  \/ Has(c, lookup_block_id(y, h), h, BlockSize)
                        \/ \E u \in Seqs : Owes(y, u, lookup_block_id(y, h))
      BY DEF HitInv, HitOK
    <3>1. CASE lookup_block_id(y, h) \in Elems(new)
      BY <2>3, <3>1
    <3>2. CASE lookup_block_id(y, h) = ids[L] /\ L >= 1 /\ slots < L * B
      BY <2>4, <3>2
    <3>3. CASE lookup_block_id(y, h) = lookup_block_id(x, h)
      <4>1. \/ Has(c, lookup_block_id(y, h), h, BlockSize)
            \/ \E u \in Seqs : Owes(x, u, lookup_block_id(y, h))
        BY <3>3 DEF HitInv, HitOK
      <4>2. \A u \in Seqs : Owes(x, u, lookup_block_id(y, h)) => Owes(y, u, lookup_block_id(y, h))
        BY <1>3, <2>1
      <4> QED BY <4>1, <4>2
    <3> QED BY <1>6, <3>1, <3>2, <3>3
  <2>8. RestInv(y, q, tl)
    <3> SUFFICES ASSUME NEW t \in Seqs PROVE RestOK(y, q, tl, t)
      BY DEF RestInv
    <3>1. CASE t = s
      <4>1. ~(y.map[s].slots < tl[s])
        BY <1>0
      <4> QED BY <3>1, <4>1 DEF RestOK
    <3>2. CASE t # s
      <4>1. Settled(x, t) => Settled(y, t)
        <5> SUFFICES ASSUME Settled(x, t), NEW u \in Seqs, u # t, NEW b \in Elems(y.map[t].ids)
                     PROVE  ~Owes(y, u, b)
          BY DEF Settled
        <5>1. b \in Elems(x.map[t].ids)
          BY <3>2
        <5>2. ~Owes(x, u, b)
          BY <5>1 DEF Settled
        <5> QED BY <1>3, <2>2, <3>2, <5>1, <5>2
      <4> QED BY <3>2, <4>1 DEF RestOK
    <3> QED BY <3>1, <3>2
  <2> QED BY <2>5, <2>6, <2>7, <2>8 DEF Filling
<1> QED BY <1>0, <1>1, <1>8, <1>9

\* s joins the tasks of q, behind them.
Joins(q, r, s) ==
    /\ Elems(r) = Elems(q) \union {s}
    /\ \A u, t \in Seqs : Before(q, u, t) => Before(r, u, t)
    /\ \A u \in Elems(q) : Before(r, u, s)

\* A task that joins the running ones comes after them.
LEMMA BeforeAppend ==
  ASSUME NEW q \in Seq(Seqs), NEW s \in Seqs, NEW r, r = Append(q, s)
  PROVE  Joins(q, r, s)
<1> DEFINE L == Len(q)
<1>1. /\ L \in Nat /\ Len(r) = L + 1 /\ r[L + 1] = s /\ L + 1 \in 1..(L + 1)
      /\ \A i \in 1..L : r[i] = q[i] /\ i \in 1..(L + 1) /\ i < L + 1
      /\ \A i \in 1..(L + 1) : i \in 1..L \/ i = L + 1
  OBVIOUS
<1> HIDE DEF L
<1>2. Elems(r) = Elems(q) \union {s}
  BY ONLY <1>1 DEF Elems, L
<1>3. ASSUME NEW u, NEW t, Before(q, u, t) PROVE Before(r, u, t)
  <2>1. PICK i \in 1..L, j \in 1..L : i < j /\ q[i] = u /\ q[j] = t
    BY <1>3 DEF Before, L
  <2> QED BY ONLY <1>1, <2>1 DEF Before
<1>4. ASSUME NEW u \in Elems(q) PROVE Before(r, u, s)
  <2>1. PICK i \in 1..L : q[i] = u
    BY DEF Elems, L
  <2> QED BY ONLY <1>1, <2>1 DEF Before
<1> QED BY <1>2, <1>3, <1>4 DEF Joins

\* The parts of Filling that hold while s is being admitted.
Admitting(x, q, c, tl, s) ==
    /\ ShareInv(x, q) /\ OwnInv(x, c) /\ HitInv(x, c)
    /\ \A t \in Seqs : t # s => RestOK(x, q, tl, t)
    /\ x.map[s].filled = x.map[s].slots

\* A task that kept its blocks is admitted again.
LEMMA Readmitting ==
  ASSUME NEW n \in Nat, NEW tl, NEW x, NEW s \in Seqs, NEW q \in Seq(Seqs), s \notin Elems(q),
         NEW r, r = Append(q, s), NEW c, Filling(x, q, c, tl)
  PROVE  Admitting(x, r, c, tl, s)
<1>1. /\ Elems(r) = Elems(q) \union {s}
      /\ \A u, t \in Seqs : Before(q, u, t) => Before(r, u, t)
  BY BeforeAppend DEF Joins
<1>2. ShareInv(x, q) /\ OwnInv(x, c) /\ HitInv(x, c) /\ \A t \in Seqs : RestOK(x, q, tl, t)
  BY DEF Filling, RestInv
<1>3. ShareInv(x, r)
  BY ONLY <1>1, <1>2 DEF ShareInv
<1>4. \A t \in Seqs : t # s => RestOK(x, r, tl, t)
  BY ONLY <1>1, <1>2 DEF RestOK
<1>5. x.map[s].filled = x.map[s].slots
  BY <1>2 DEF RestOK
<1> QED BY ONLY <1>2, <1>3, <1>4, <1>5 DEF Admitting

\* A task without blocks is: it shares what its labels find, which is there
\* or owed by a task before it.
LEMMA InitAdmitting ==
  ASSUME NEW n \in Nat, NEW tl \in [Seqs -> 0..MaxLen], NEW x, Sound(x, n, tl),
         NEW s \in Seqs, ~x.map[s].live, NEW y, y = init_prefix_cache_blocks(x, s, tl[s]),
         NEW q \in Seq(Seqs), s \notin Elems(q), NEW r, r = Append(q, s),
         NEW c, Filling(x, q, c, tl)
  PROVE  Admitting(y, r, c, tl, s)
<1>0. x \in Manager(n) /\ x.map[s] = NoMap
  BY DEF Sound, MapOK
<1>1. /\ Elems(r) = Elems(q) \union {s}
      /\ \A u, t \in Seqs : Before(q, u, t) => Before(r, u, t)
      /\ \A u \in Elems(q) : Before(r, u, s)
  BY BeforeAppend DEF Joins
<1>2. ShareInv(x, q) /\ OwnInv(x, c) /\ HitInv(x, c) /\ \A t \in Seqs : RestOK(x, q, tl, t)
  BY DEF Filling, RestInv
<1>3. /\ Sound(y, n, tl) /\ y.map[s].filled = y.map[s].slots
      /\ y.map[s].slots = Len(y.map[s].ids) * BlockSize
      /\ \A t \in Seqs : t # s => y.map[t] = x.map[t]
  BY InitSound DEF OnlyMap, AllCached
<1>4. /\ \A k \in 1..Len(y.map[s].ids) :
            /\ k \in 1..NumFull
            /\ y.map[s].ids[k] = lookup_block_id(x, BlockHash[s][k])
            /\ lookup_block_id(x, BlockHash[s][k]) # NoBlock
      /\ \A h \in Hashes : lookup_block_id(y, h) = lookup_block_id(x, h)
  BY ONLY InitHits, n \in Nat, tl \in [Seqs -> 0..MaxLen], Sound(x, n, tl), s \in Seqs,
          ~x.map[s].live, y = init_prefix_cache_blocks(x, s, tl[s])
<1>5. \A u \in Seqs : u # s => \A b : Owes(y, u, b) <=> Owes(x, u, b)
  BY <1>3, OwesFrame
<1>6. \A b : ~Owes(x, s, b) /\ ~Owes(y, s, b)
  <2>1. y \in Manager(n) /\ x.map[s].filled = x.map[s].slots
    BY <1>0, <1>3 DEF Sound, NoMap
  <2> QED BY <1>0, <1>3, <2>1, OwesHolds
<1>7. \A u \in Seqs : \A b : Owes(y, u, b) <=> Owes(x, u, b)
  BY <1>5, <1>6
<1>8. \A u \in Seqs : \A b : Owes(x, u, b) => u \in Elems(q)
  <2> SUFFICES ASSUME NEW u \in Seqs, NEW b, Owes(x, u, b), u \notin Elems(q) PROVE FALSE
    OBVIOUS
  <2>1. x.map[u].filled = x.map[u].slots
    BY <1>2 DEF RestOK
  <2> QED BY <1>0, <2>1, OwesHolds
<1>9. ShareInv(y, r)
  <2> SUFFICES ASSUME NEW u \in Seqs, NEW t \in Seqs, u # t, NEW b \in Elems(y.map[t].ids),
                      Owes(y, u, b)
               PROVE  ~Owes(y, t, b) /\ Before(r, u, t)
    BY DEF ShareInv
  <2>1. Owes(x, u, b)
    BY <1>7
  <2>2. CASE t = s
    BY <1>1, <1>6, <1>8, <2>1, <2>2
  <2>3. CASE t # s
    <3>1. b \in Elems(x.map[t].ids)
      BY <1>3, <2>3
    <3>2. ~Owes(x, t, b) /\ Before(q, u, t)
      BY <1>2, <2>1, <3>1 DEF ShareInv
    <3> QED BY <1>1, <1>7, <3>2
  <2> QED BY <2>2, <2>3
<1>10. OwnInv(y, c)
  <2> SUFFICES ASSUME NEW t \in Seqs, NEW k \in 1..Len(y.map[t].ids)
               PROVE  OwnOK(y, c, t, k)
    BY DEF OwnInv
  <2>1. CASE t # s
    <3>1. y.map[t] = x.map[t]
      BY <1>3, <2>1
    <3>2. OwnOK(x, c, t, k)
      BY <1>2, <3>1 DEF OwnInv
    <3> QED BY <1>7, <3>1, <3>2 DEF OwnOK
  <2>2. CASE t = s
    <3> DEFINE h == BlockHash[s][k]
               b == lookup_block_id(x, h)
               w == y.map[s].filled - (k - 1) * BlockSize
    <3>1. y.map[s].ids[k] = b /\ b # NoBlock /\ h \in Hashes
      <4>1. k \in 1..NumFull
        BY <1>4, <2>2
      <4> QED BY <1>4, <2>2, <4>1, HashAssumption
    <3>2. HitOK(x, c, h)
      BY <1>2, <3>1 DEF HitInv
    <3>3. Has(c, b, h, BlockSize) \/ \E u \in Seqs : u # s /\ Owes(y, u, b)
      BY <1>6, <1>7, <3>1, <3>2 DEF HitOK
    <3>4. k * BlockSize <= y.map[s].filled
      <4> DEFINE L == Len(y.map[s].ids)
      <4>1. L \in Nat /\ k \in 1..L /\ y.map[s].filled = L * BlockSize /\ BlockSize \in Nat
        <5>1. y \in Manager(n)
          BY <1>3 DEF Sound
        <5> QED BY <1>3, <2>2, <5>1, MapFields, SizeAssumption
      <4> HIDE DEF L
      <4>2. k = L \/ k * BlockSize + BlockSize <= L * BlockSize
        BY <4>1, MulMono
      <4>3. k * BlockSize \in Nat /\ L * BlockSize \in Nat
        BY <4>1
      <4> DEFINE kb == k * BlockSize
                 lb == L * BlockSize
      <4>4. kb \in Nat /\ lb \in Nat /\ (kb = lb \/ kb + BlockSize <= lb)
        BY <4>2, <4>3
      <4> HIDE DEF kb, lb
      <4>5. kb <= lb
        BY ONLY <4>1, <4>4
      <4> QED BY <4>1, <4>5 DEF kb, lb
    <3>5. Least(BlockSize, w) = BlockSize
      <4> DEFINE kb == k * BlockSize
                 jb == (k - 1) * BlockSize
                 f == y.map[s].filled
      <4>1. kb \in Nat /\ jb \in Nat /\ kb = jb + BlockSize /\ BlockSize \in Nat
        <5>1. k \in Nat /\ k >= 1
          OBVIOUS
        <5> QED BY ONLY <5>1, SizeAssumption
      <4>2. f \in Nat /\ kb <= f /\ w = f - jb
        <5>1. y \in Manager(n)
          BY <1>3 DEF Sound
        <5> QED BY <3>4, <5>1, MapFields, SizeAssumption
      <4> HIDE DEF kb, jb, f, w
      <4> QED BY ONLY <4>1, <4>2 DEF Least
    <3> HIDE DEF h, b, w
    <3>6. \/ Has(c, y.map[s].ids[k], h, Least(BlockSize, w))
          \/ \E u \in Seqs : u # s /\ Owes(y, u, y.map[s].ids[k])
      BY <3>1, <3>3, <3>5
    <3> QED BY <2>2, <3>6 DEF OwnOK, h, w
  <2> QED BY <2>1, <2>2
<1>11. HitInv(y, c)
  BY <1>2, <1>4, <1>7 DEF HitInv, HitOK
<1>12. ASSUME NEW t \in Seqs, t # s PROVE RestOK(y, r, tl, t)
  <2>1. y.map[t] = x.map[t] /\ RestOK(x, q, tl, t)
    BY <1>2, <1>3, <1>12
  <2>2. Settled(x, t) => Settled(y, t)
    BY <1>7, <2>1 DEF Settled
  <2> QED BY <1>1, <2>1, <2>2 DEF RestOK
<1> QED BY <1>3, <1>9, <1>10, <1>11, <1>12 DEF Admitting

\* Admission: cached blocks, then slots for all tokens.
AdmittedAs(x, y, s, q, r, tl) ==
    /\ y = alloc_blocks(init_prefix_cache_blocks(x, s, tl[s]), s, tl[s]) /\ ~y.exhausted
    /\ s \notin Elems(q) /\ r = Append(q, s)

\* It joins the running tasks as Filling says.
LEMMA AdmitFilling ==
  ASSUME NEW n \in Nat, NEW tl \in [Seqs -> 0..MaxLen], NEW x, Sound(x, n, tl),
         NEW s \in Seqs, NEW q \in Seq(Seqs), NEW r, NEW y, AdmittedAs(x, y, s, q, r, tl),
         NEW c, Filling(x, q, c, tl)
  PROVE  Filling(y, r, c, tl)
<1> DEFINE z == init_prefix_cache_blocks(x, s, tl[s])
<1>0. /\ z = init_prefix_cache_blocks(x, s, tl[s]) /\ y = alloc_blocks(z, s, tl[s])
      /\ ~y.exhausted /\ s \notin Elems(q) /\ r = Append(q, s)
  BY DEF AdmittedAs
<1> HIDE DEF z
<1>1. Sound(z, n, tl)
  BY <1>0, InitSound
<1>2. Admitting(z, r, c, tl, s)
  <2>1. CASE x.map[s].live
    <3>1. z = x
      BY <1>0, <2>1 DEF init_prefix_cache_blocks
    <3> QED BY <1>0, <3>1, Readmitting
  <2>2. CASE ~x.map[s].live
    BY <1>0, <2>2, InitAdmitting
  <2> QED BY <2>1, <2>2
<1>3. PICK new \in Seq(Blocks(n)) : Gets(z, y, s, tl[s], new)
  BY <1>0, <1>1, AllocGets
<1>4. /\ \A t \in Seqs : t # s => y.map[t] = z.map[t]
      /\ y.map[s].filled = z.map[s].filled /\ y.map[s].slots = tl[s]
  BY <1>0, <1>1, AllocExtends DEF Extends
<1>5. s \in Elems(r)
  <2>1. Joins(q, r, s)
    BY <1>0, BeforeAppend
  <2> QED BY <2>1 DEF Joins
<1>6. /\ ShareInv(z, r) /\ OwnInv(z, c) /\ HitInv(z, c)
      /\ \A t \in Seqs : t # s => RestOK(z, r, tl, t)
      /\ z.map[s].slots < tl[s] => z.map[s].filled = z.map[s].slots
  BY ONLY <1>2 DEF Admitting
<1> QED BY ONLY <1>1, <1>3, <1>4, <1>5, <1>6, GrowFilling, n \in Nat, tl \in [Seqs -> 0..MaxLen],
           s \in Seqs

\* Slots for the tokens of a running task.
LEMMA ExtendFilling ==
  ASSUME NEW n \in Nat, NEW tl \in [Seqs -> 0..MaxLen], NEW x, Sound(x, n, tl),
         NEW s \in Seqs, x.map[s].live, can_alloc_seq(x, s, tl[s], 100),
         NEW y, y = alloc_blocks(x, s, tl[s]),
         NEW q, s \in Elems(q), NEW c, Filling(x, q, c, tl)
  PROVE  Filling(y, q, c, tl)
<1>1. CeilDiv(tl[s], BlockSize) - Len(x.map[s].ids) <= Len(x.free)
  <2>1. tl[s] \in Nat /\ x \in Manager(n)
    BY SizeAssumption DEF Sound
  <2> QED BY <2>1, Admitted
<1>2. PICK new \in Seq(Blocks(n)) : Gets(x, y, s, tl[s], new)
  BY <1>1, AllocGets
<1>3. /\ \A t \in Seqs : t # s => y.map[t] = x.map[t]
      /\ y.map[s].filled = x.map[s].filled /\ y.map[s].slots = tl[s]
  BY <1>1, AllocExtends DEF Extends
<1>4. /\ ShareInv(x, q) /\ OwnInv(x, c) /\ HitInv(x, c)
      /\ \A t \in Seqs : t # s => RestOK(x, q, tl, t)
      /\ x.map[s].slots < tl[s] => x.map[s].filled = x.map[s].slots
  BY DEF Filling, RestInv, RestOK
<1> QED BY ONLY <1>2, <1>3, <1>4, GrowFilling, n \in Nat, tl \in [Seqs -> 0..MaxLen],
           s \in Seqs, Sound(x, n, tl), s \in Elems(q)

\* The tasks of D leave q, or get a token: they have all their slots filled,
\* and nobody owes them anything.
Regroups(x, q, r, tl, ul, D) ==
    /\ \A t \in Seqs : t \in D => x.map[t].filled = x.map[t].slots /\ Settled(x, t)
    /\ \A t \in Seqs : t \notin D => ul[t] = tl[t] /\ (t \in Elems(q) => t \in Elems(r))
    /\ \A u, t \in Seqs : u \notin D /\ t \notin D /\ Before(q, u, t) => Before(r, u, t)

\* The others fill on.
LEMMA Regroup ==
  ASSUME NEW n \in Nat, NEW x \in Manager(n), NEW tl, NEW ul, NEW q, NEW r, NEW c, NEW D,
         Filling(x, q, c, tl), Regroups(x, q, r, tl, ul, D)
  PROVE  Filling(x, r, c, ul)
<1>0. /\ \A t \in Seqs : t \in D => x.map[t].filled = x.map[t].slots /\ Settled(x, t)
      /\ \A t \in Seqs : t \notin D => ul[t] = tl[t] /\ (t \in Elems(q) => t \in Elems(r))
      /\ \A u, t \in Seqs : u \notin D /\ t \notin D /\ Before(q, u, t) => Before(r, u, t)
  BY DEF Regroups
<1>1. ShareInv(x, q) /\ OwnInv(x, c) /\ HitInv(x, c) /\ \A t \in Seqs : RestOK(x, q, tl, t)
  BY DEF Filling, RestInv
<1>2. ShareInv(x, r)
  <2> SUFFICES ASSUME NEW u \in Seqs, NEW t \in Seqs, u # t, NEW b \in Elems(x.map[t].ids),
                      Owes(x, u, b)
               PROVE  ~Owes(x, t, b) /\ Before(r, u, t)
    BY DEF ShareInv
  <2>1. ~Owes(x, t, b) /\ Before(q, u, t)
    BY <1>1 DEF ShareInv
  <2>2. u \notin D
    BY <1>0, OwesHolds
  <2>3. t \notin D
    BY <1>0 DEF Settled
  <2> QED BY <1>0, <2>1, <2>2, <2>3
<1>3. RestInv(x, r, ul)
  <2> SUFFICES ASSUME NEW t \in Seqs PROVE RestOK(x, r, ul, t)
    BY DEF RestInv
  <2>1. CASE t \in D
    BY <1>0, <2>1 DEF RestOK
  <2>2. CASE t \notin D
    BY <1>0, <1>1, <2>2 DEF RestOK
  <2> QED BY <2>1, <2>2
<1> QED BY <1>1, <1>2, <1>3 DEF Filling

\* v leaves the tasks of q, and was not before any other.
Leaves(q, r, v) ==
    /\ \A t \in Seqs : t # v /\ t \in Elems(q) => t \in Elems(r)
    /\ \A u, t \in Seqs : u # v /\ t # v /\ Before(q, u, t) => Before(r, u, t)
    /\ \A t \in Seqs : ~Before(q, v, t)

\* The last task does.
LEMMA LastLeaves ==
  ASSUME NEW r \in Seq(Seqs), NEW v \in Seqs, v \notin Elems(r), NEW q, q = Append(r, v)
  PROVE  Leaves(q, r, v)
<1> DEFINE L == Len(r)
<1>1. /\ L \in Nat /\ Len(q) = L + 1 /\ q[L + 1] = v
      /\ \A i \in 1..L : q[i] = r[i]
      /\ \A i \in 1..(L + 1) : i \in 1..L \/ i = L + 1
      /\ \A i, j \in 1..(L + 1) : i < j => i \in 1..L
  OBVIOUS
<1>2. \A i \in 1..L : r[i] # v
  BY DEF Elems
<1> HIDE DEF L
<1>3. \A t \in Seqs : t # v /\ t \in Elems(q) => t \in Elems(r)
  BY ONLY <1>1 DEF Elems, L
<1>4. ASSUME NEW u \in Seqs, NEW t \in Seqs, u # v, t # v, Before(q, u, t) PROVE Before(r, u, t)
  <2>1. PICK i \in 1..(L + 1), j \in 1..(L + 1) : i < j /\ q[i] = u /\ q[j] = t
    BY ONLY <1>1, <1>4 DEF Before
  <2>2. i \in 1..L /\ j \in 1..L
    BY ONLY <1>1, <1>4, <2>1
  <2> QED BY ONLY <1>1, <2>1, <2>2 DEF Before, L
<1>5. ASSUME NEW t \in Seqs, Before(q, v, t) PROVE FALSE
  <2>1. PICK i \in 1..(L + 1), j \in 1..(L + 1) : i < j /\ q[i] = v /\ q[j] = t
    BY ONLY <1>1, <1>5 DEF Before
  <2>2. i \in 1..L
    BY ONLY <1>1, <2>1
  <2> QED BY ONLY <1>1, <1>2, <2>1, <2>2
<1> QED BY <1>3, <1>4, <1>5 DEF Leaves

\* So does a task that is not there.
LEMMA AbsentLeaves ==
  ASSUME NEW q, NEW v, v \notin Elems(q)
  PROVE  Leaves(q, q, v)
BY DEF Leaves, Before, Elems

\* A block with other references than that of v has another holder.
LEMMA OtherHolder ==
  ASSUME NEW n \in Nat, NEW x \in Manager(n), RefExact(x, n), NEW v \in Seqs,
         NEW b \in Blocks(n), b \in Elems(x.map[v].ids), x.ref[b] # 1,
         \A r \in Regions : x.resv[r] = <<>>, x.lost = {}
  PROVE  \E t \in Seqs : t # v /\ b \in Elems(x.map[t].ids)
<1> DEFINE S == HeldBySeqs(x, b)
           R == HeldByRegions(x, b)
<1>1. x.ref[b] = Cardinality(S) + Cardinality(R) + Stranded(x, b)
  BY DEF RefExact
<1>2. R = {} /\ Stranded(x, b) = 0
  BY DEF HeldByRegions, Stranded, Elems
<1>3. Cardinality(R) = 0 /\ Cardinality({v}) = 1
  BY <1>2, FS_EmptySet, FS_Singleton
<1>4. Cardinality(S) \in Nat
  BY HoldersFinite
<1>5. v \in S
  BY DEF HeldBySeqs
<1> HIDE DEF S, R
<1>6. Cardinality(S) # 1
  BY <1>1, <1>2, <1>3, <1>4
<1>7. S # {v}
  BY <1>3, <1>6
<1>8. PICK t \in S : t # v
  BY <1>5, <1>7
<1> QED BY <1>8 DEF S, HeldBySeqs

\* v gives up its blocks.  What it owed is found no more, and nobody else
\* has it.
LEMMA FreeFilling ==
  ASSUME NEW n \in Nat, NEW tl \in [Seqs -> 0..MaxLen], NEW x, Sound(x, n, tl), NEW v \in Seqs,
         NEW f \in Nat, f <= x.map[v].filled, NEW y, y = free_dropping(x, v, f),
         \A r \in Regions : x.resv[r] = <<>>, x.lost = {},
         NEW q, NEW r, Leaves(q, r, v), NEW c, Filling(x, q, c, tl)
  PROVE  Filling(y, r, c, tl)
<1>0. x \in Manager(n) /\ RefExact(x, n)
  BY DEF Sound
<1>1. ShareInv(x, q) /\ OwnInv(x, c) /\ HitInv(x, c) /\ \A t \in Seqs : RestOK(x, q, tl, t)
  BY DEF Filling, RestInv
<1>2. y.map[v] = NoMap /\ \A t \in Seqs : t # v => y.map[t] = x.map[t]
  BY FreeEffect DEF OnlyFreed
<1>3. \A u \in Seqs : u # v => \A b : Owes(y, u, b) <=> Owes(x, u, b)
  BY <1>2, OwesFrame
<1>4. /\ \A b : ~Owes(y, v, b)
      /\ y.map[v].filled = y.map[v].slots /\ Elems(y.map[v].ids) = {} /\ Len(y.map[v].ids) = 0
  BY <1>2 DEF Owes, OwesAt, NoMap, Elems
<1>5. ASSUME NEW t \in Seqs, t # v, NEW b \in Elems(x.map[t].ids) PROVE ~Owes(x, v, b)
  BY <1>1, <1>5 DEF ShareInv, Leaves
<1>6. ASSUME NEW h \in Hashes, lookup_block_id(y, h) # NoBlock
      PROVE  lookup_block_id(y, h) = lookup_block_id(x, h) /\ ~Owes(x, v, lookup_block_id(y, h))
  <2> DEFINE b == lookup_block_id(y, h)
  <2>1. b = lookup_block_id(x, h) /\ b \notin DropSet(x, v, f)
    BY <1>0, <1>6, FreeLookup
  <2> HIDE DEF b
  <2> SUFFICES ASSUME Owes(x, v, b) PROVE FALSE
    BY <2>1 DEF b
  <2>2. PICK k \in 1..Len(x.map[v].ids) : x.map[v].ids[k] = b /\ x.map[v].filled < k * BlockSize
    BY DEF Owes, OwesAt
  <2>3. b \in Blocks(n) /\ b \in Elems(x.map[v].ids)
    BY <1>0, <2>2, MapFields DEF Elems
  <2>4. k * BlockSize > f
    <3> DEFINE kb == k * BlockSize
               g == x.map[v].filled
    <3>1. kb \in Nat /\ g \in Nat /\ f <= g /\ g < kb
      BY <1>0, <2>2, MapFields, SizeAssumption
    <3> HIDE DEF kb, g
    <3>2. kb > f
      BY ONLY <3>1, f \in Nat
    <3> QED BY <3>2 DEF kb
  <2>5. x.ref[b] # 1
    BY <2>1, <2>2, <2>4 DEF DropSet
  <2>6. PICK t \in Seqs : t # v /\ b \in Elems(x.map[t].ids)
    BY <1>0, <2>3, <2>5, OtherHolder
  <2> QED BY <1>5, <2>6
<1>7. ShareInv(y, r)
  <2> SUFFICES ASSUME NEW u \in Seqs, NEW t \in Seqs, u # t, NEW b \in Elems(y.map[t].ids),
                      Owes(y, u, b)
               PROVE  ~Owes(y, t, b) /\ Before(r, u, t)
    BY DEF ShareInv
  <2>1. u # v /\ t # v /\ Owes(x, u, b) /\ b \in Elems(x.map[t].ids)
    BY <1>2, <1>3, <1>4
  <2>2. ~Owes(x, t, b) /\ Before(q, u, t)
    BY <1>1, <2>1 DEF ShareInv
  <2> QED BY <1>3, <2>1, <2>2 DEF Leaves
<1>8. OwnInv(y, c)
  <2> SUFFICES ASSUME NEW t \in Seqs, NEW k \in 1..Len(y.map[t].ids) PROVE OwnOK(y, c, t, k)
    BY DEF OwnInv
  <2>1. t # v
    BY <1>4
  <2>2. y.map[t] = x.map[t]
    BY <1>2, <2>1
  <2>3. OwnOK(x, c, t, k)
    BY <1>1, <2>2 DEF OwnInv
  <2>4. ~Owes(x, v, x.map[t].ids[k])
    BY <1>5, <2>1, <2>2 DEF Elems
  <2> QED BY <1>3, <2>2, <2>3, <2>4 DEF OwnOK
<1>9. HitInv(y, c)
  <2> SUFFICES ASSUME NEW h \in Hashes PROVE HitOK(y, c, h)
    BY DEF HitInv
  <2>1. HitOK(x, c, h)
    BY <1>1 DEF HitInv
  <2> QED BY <1>3, <1>6, <2>1 DEF HitOK
<1>10. RestInv(y, r, tl)
  <2> SUFFICES ASSUME NEW t \in Seqs PROVE RestOK(y, r, tl, t)
    BY DEF RestInv
  <2>1. CASE t = v
    BY <1>4, <2>1 DEF RestOK, Settled
  <2>2. CASE t # v
    <3>1. y.map[t] = x.map[t] /\ RestOK(x, q, tl, t) /\ (t \in Elems(q) => t \in Elems(r))
      BY <1>1, <1>2, <2>2 DEF Leaves
    <3>2. Settled(x, t) => Settled(y, t)
      BY <1>3, <1>4, <3>1 DEF Settled
    <3> QED BY <3>1, <3>2 DEF RestOK
  <2> QED BY <2>1, <2>2
<1> QED BY <1>7, <1>8, <1>9, <1>10 DEF Filling

-----------------------------------------------------------------------------
(* The execution of one entry *)

\* The contents of the blocks of a device of n blocks.
ContentType(c, n) ==
    /\ c = [b \in Blocks(n) |-> c[b]]
    /\ DOMAIN c = Blocks(n) /\ \A b \in Blocks(n) : c[b].n \in Nat

\* What block b, the k-th page of entry e, holds after the execution of e.
PageAfter(c, e, k, b) ==
    LET before == e.filled - (k - 1) * BlockSize
        upto == Least(BlockSize, e.context + Shift(e) - (k - 1) * BlockSize)
        key == BlockHash[e.s][k]
        known == IF c[b].key = key THEN c[b].n ELSE 0
    IN  IF upto > 0 /\ upto > before
        THEN IF Shift(e) # 0 \/ (c[b] = Misplaced /\ before > 0) THEN Misplaced
             ELSE IF known < before THEN Garbage
             ELSE [key |-> key, n |-> IF known > upto THEN known ELSE upto]
        ELSE c[b]

\* Executing an entry changes its pages so ...
LEMMA ComputedPage ==
  ASSUME NEW c, NEW e, NoDup(e.ids), NEW k \in 1..Len(e.ids), NEW b \in DOMAIN c, b = e.ids[k]
  PROVE  Computed(c, e)[b] = PageAfter(c, e, k, b)
<1>1. IndexIn(e.ids, b) \in 1..Len(e.ids) /\ e.ids[IndexIn(e.ids, b)] = b
  BY DEF IndexIn
<1>2. IndexIn(e.ids, b) = k
  BY ONLY <1>1, NoDup(e.ids), k \in 1..Len(e.ids), b = e.ids[k] DEF NoDup
<1>3. b \in Elems(e.ids)
  BY DEF Elems
<1> DEFINE At(a) == IndexIn(e.ids, a)
<1>4. At(b) = k
  BY <1>2
<1> HIDE DEF At
<1>5. Computed(c, e)[b] =
        IF b \in Elems(e.ids)
             /\ Least(BlockSize, e.context + Shift(e) - (At(b) - 1) * BlockSize) > 0
             /\ Least(BlockSize, e.context + Shift(e) - (At(b) - 1) * BlockSize)
                  > e.filled - (At(b) - 1) * BlockSize
        THEN IF Shift(e) # 0 \/ (c[b] = Misplaced /\ e.filled - (At(b) - 1) * BlockSize > 0)
             THEN Misplaced
             ELSE IF (IF c[b].key = BlockHash[e.s][At(b)] THEN c[b].n ELSE 0)
                       < e.filled - (At(b) - 1) * BlockSize
             THEN Garbage
             ELSE [key |-> BlockHash[e.s][At(b)],
                   n |-> IF (IF c[b].key = BlockHash[e.s][At(b)] THEN c[b].n ELSE 0)
                              > Least(BlockSize, e.context + Shift(e) - (At(b) - 1) * BlockSize)
                         THEN (IF c[b].key = BlockHash[e.s][At(b)] THEN c[b].n ELSE 0)
                         ELSE Least(BlockSize, e.context + Shift(e) - (At(b) - 1) * BlockSize)]
        ELSE c[b]
  BY Zenon DEF Computed, At
<1> QED BY ONLY <1>3, <1>4, <1>5, Zenon DEF PageAfter

\* ... and leaves the other blocks alone.
LEMMA ComputedElsewhere ==
  ASSUME NEW c, NEW e
  PROVE  /\ DOMAIN Computed(c, e) = DOMAIN c
         /\ Computed(c, e) = [b \in DOMAIN c |-> Computed(c, e)[b]]
         /\ \A b \in DOMAIN c : b \notin Elems(e.ids) => Computed(c, e)[b] = c[b]
BY Zenon DEF Computed

\* The lengths of the pages, for a page that starts at token j.
LEMMA PageHas ==
  ASSUME NEW c, NEW e, NEW k \in Nat, NEW b, NEW j \in Nat, j = (k - 1) * BlockSize,
         e.filled \in Nat, e.context \in Nat, e.filled < e.context, Shift(e) \in Nat,
         c[b].n \in Nat, j < e.context,
         j < e.filled => Has(c, b, BlockHash[e.s][k], Least(BlockSize, e.filled - j)),
         NEW d, d[b] = PageAfter(c, e, k, b)
  PROVE  Has(d, b, BlockHash[e.s][k], Least(BlockSize, e.context - j))
<1> DEFINE B == BlockSize
           f == e.filled
           x == e.context
           sh == Shift(e)
           h == BlockHash[e.s][k]
           m == c[b].n
           before == f - j
           upto == Least(B, x + sh - j)
           known == IF c[b].key = h THEN m ELSE 0
           page == [key |-> h, n |-> IF known > upto THEN known ELSE upto]
<1>0. B \in Nat \ {0} /\ f \in Nat /\ x \in Nat /\ sh \in Nat /\ m \in Nat /\ f < x /\ j < x
  BY SizeAssumption
<1>1. d[b] = IF upto > 0 /\ upto > before
             THEN IF sh # 0 \/ (c[b] = Misplaced /\ before > 0) THEN Misplaced
                  ELSE IF known < before THEN Garbage ELSE page
             ELSE c[b]
  BY DEF PageAfter
<1>2. j < f => c[b] = Misplaced \/ (c[b].key = h /\ m >= Least(B, f - j))
  BY DEF Has
<1>3. page.key = h /\ page.n = IF known > upto THEN known ELSE upto
  OBVIOUS
<1>4. SUFFICES d[b] = Misplaced \/ (d[b].key = h /\ d[b].n >= Least(B, x - j))
  BY DEF Has
<1> HIDE DEF B, f, x, sh, h, m, page
<1>5. upto > 0 /\ upto \in Nat
  BY ONLY <1>0, j \in Nat DEF Least
<1>6. CASE upto > before
  <2>1. CASE sh # 0 \/ (c[b] = Misplaced /\ before > 0)
    BY <1>1, <1>5, <1>6, <2>1
  <2>2. CASE ~(sh # 0 \/ (c[b] = Misplaced /\ before > 0))
    <3>1. known \in Nat
      BY ONLY <1>0
    <3>2. ~(known < before)
      <4>1. CASE before > 0
        <5>1. c[b].key = h /\ m >= Least(B, f - j) /\ known = m
          BY ONLY <1>0, <1>2, <2>2, <4>1, j \in Nat
        <5> QED BY ONLY <1>0, <1>6, <5>1, j \in Nat, <4>1, <2>2 DEF Least
      <4>2. CASE ~(before > 0)
        BY ONLY <1>0, <3>1, <4>2, j \in Nat
      <4> QED BY <4>1, <4>2
    <3>3. d[b] = page /\ sh = 0
      BY ONLY <1>1, <1>5, <1>6, <2>2, <3>2
    <3>4. upto = Least(B, x - j)
      BY ONLY <1>0, <3>3, j \in Nat DEF Least
    <3>5. page.n >= upto
      BY ONLY <1>3, <1>5, <3>1
    <3> QED BY ONLY <1>3, <3>3, <3>4, <3>5
  <2> QED BY <2>1, <2>2
<1>7. CASE ~(upto > before)
  <2>1. d[b] = c[b]
    BY ONLY <1>1, <1>7
  <2>2. before >= B /\ Least(B, f - j) = B /\ Least(B, x - j) = B /\ j < f
    BY ONLY <1>0, <1>7, j \in Nat DEF Least
  <2> QED BY <1>2, <2>1, <2>2 DEF m
<1> QED BY <1>6, <1>7

\* The content stays one.
LEMMA ComputedType ==
  ASSUME NEW n \in Nat, NEW c, ContentType(c, n), NEW e, NoDup(e.ids),
         e.filled \in Nat, e.context \in Nat, Shift(e) \in Nat, Len(e.ids) \in Nat,
         NEW d, d = Computed(c, e)
  PROVE  ContentType(d, n)
<1>1. DOMAIN d = Blocks(n) /\ d = [b \in Blocks(n) |-> d[b]]
  <2>1. DOMAIN c = Blocks(n)
    BY DEF ContentType
  <2>2. DOMAIN d = DOMAIN c /\ d = [b \in DOMAIN c |-> d[b]]
    BY ONLY ComputedElsewhere, d = Computed(c, e)
  <2> QED BY <2>1, <2>2
<1>2. ASSUME NEW b \in Blocks(n) PROVE d[b].n \in Nat
  <2>0. b \in DOMAIN c /\ c[b].n \in Nat
    BY DEF ContentType
  <2>1. CASE b \notin Elems(e.ids)
    <3>1. d[b] = c[b]
      BY <2>0, <2>1, ComputedElsewhere
    <3> QED BY <2>0, <3>1
  <2>2. CASE b \in Elems(e.ids)
    <3>1. PICK k \in 1..Len(e.ids) : b = e.ids[k]
      BY <2>2 DEF Elems
    <3>2. d[b] = PageAfter(c, e, k, b)
      BY <2>0, <3>1, ComputedPage
    <3> DEFINE j == (k - 1) * BlockSize
               upto == Least(BlockSize, e.context + Shift(e) - j)
               known == IF c[b].key = BlockHash[e.s][k] THEN c[b].n ELSE 0
               page == [key |-> BlockHash[e.s][k], n |-> IF known > upto THEN known ELSE upto]
    <3>3. j \in Nat /\ BlockSize \in Nat
      BY SizeAssumption, <3>1
    <3>4. upto \in Int /\ known \in Nat
      <4> HIDE DEF j
      <4> QED BY <2>0, <3>3 DEF Least
    <3>5. page.n = IF known > upto THEN known ELSE upto
      OBVIOUS
    <3>6. Misplaced.n \in Nat /\ Garbage.n \in Nat
      BY <3>3 DEF Misplaced, Garbage
    <3>7. d[b] \in {c[b], Misplaced, Garbage} \/ (d[b] = page /\ upto > 0)
      BY <3>2 DEF PageAfter
    <3> HIDE DEF page, upto, known
    <3> QED BY ONLY <2>0, <3>4, <3>5, <3>6, <3>7
  <2> QED BY <2>1, <2>2
<1> QED BY <1>1, <1>2 DEF ContentType

\* Entry e of s gets pages for its context, and maybe more.
EntryOK(x, e, s) ==
    /\ e.s = s /\ Len(e.ids) >= CeilDiv(e.context, BlockSize)
    /\ Len(e.ids) \in 0..Len(x.map[s].ids)
    /\ \A k \in 1..Len(e.ids) : e.ids[k] = x.map[s].ids[k]

\* Positions are never too small.
LEMMA ShiftNat ==
  ASSUME NEW e, e.context \in Nat \ {0}, Len(e.ids) \in Nat,
         Len(e.ids) >= CeilDiv(e.context, BlockSize)
  PROVE  Shift(e) \in Nat
<1> DEFINE B == BlockSize
           L == Len(e.ids)
           a == e.context - 1
           q == a \div B
           qb == q * B
           r == a % B
           lb == (L - 1) * B
<1>0. B \in Nat \ {0} /\ L \in Nat /\ a \in Nat /\ e.context = a + 1
  BY SizeAssumption
<1>1. q \in Nat /\ qb \in Nat /\ r \in Nat /\ a = qb + r /\ r < B
  <2> HIDE DEF a, B
  <2> QED BY <1>0
<1>2. q + 1 = CeilDiv(e.context, B)
  <2>1. (q + 1) * B = qb + B
    <3> HIDE DEF a, B, q
    <3> QED BY <1>0, <1>1 DEF qb
  <2>2. e.context <= (q + 1) * B /\ (q + 1) * B < e.context + B
    <3> HIDE DEF a, q, qb, r
    <3> QED BY ONLY <1>0, <1>1, <2>1
  <2> HIDE DEF q
  <2>3. q + 1 \in Nat /\ e.context \in Nat
    BY <1>1
  <2> QED BY <2>2, <2>3, CeilUnique
<1>3. q <= L - 1
  <2> HIDE DEF q, L
  <2> QED BY <1>0, <1>1, <1>2 DEF L
<1>4. qb <= lb /\ lb \in Nat
  <2> DEFINE l == L - 1
  <2>1. l \in Nat /\ q <= l
    <3> HIDE DEF q, L
    <3> QED BY ONLY <1>0, <1>1, <1>3
  <2> HIDE DEF l, q
  <2>2. q * B <= l * B /\ l * B \in Nat
    BY ONLY <1>0, <1>1, <2>1
  <2> QED BY <2>2 DEF l
<1>5. Shift(e) = (lb + r + 1) - e.context
  BY DEF Shift
<1> HIDE DEF lb, qb, r, a
<1> QED BY ONLY <1>0, <1>1, <1>4, <1>5

\* One block more.
LEMMA MulSucc ==
  ASSUME NEW l \in Nat
  PROVE  (l + 1) * BlockSize = l * BlockSize + BlockSize /\ l * BlockSize \in Nat
BY SizeAssumption

\* A sequence is executed whose blocks nobody else owes anything.
LEMMA DispatchFilling ==
  ASSUME NEW n \in Nat, NEW tl \in [Seqs -> 0..MaxLen], NEW x, Sound(x, n, tl), NEW s \in Seqs,
         x.map[s].slots = tl[s], NEW q, s \in Elems(q), NEW c, Filling(x, q, c, tl),
         Settled(x, s), ContentType(c, n), NEW e, EntryOK(x, e, s),
         e.filled \in Nat, e.context \in Nat, e.filled < e.context,
         e.filled <= x.map[s].filled, x.map[s].filled <= e.context, e.context <= x.map[s].slots,
         NEW y, OnlyFilled(x, y, s, e.context),
         \A h \in Hashes : lookup_block_id(y, h) = lookup_block_id(x, h),
         NEW d, d = Computed(c, e)
  PROVE  Filling(y, q, d, tl) /\ ContentType(d, n)
<1> DEFINE B == BlockSize
           ids == x.map[s].ids
           L == Len(ids)
           ctx == e.context
           g == x.map[s].filled
<1>0. /\ x \in Manager(n) /\ ids \in Seq(Blocks(n)) /\ L \in Nat /\ B \in Nat \ {0}
      /\ g \in Nat /\ ctx \in Nat /\ e.filled \in Nat
      /\ x.map[s].slots \in Nat
  BY MapFields, SizeAssumption DEF Sound
<1>1. NoDup(ids) /\ L = CeilDiv(x.map[s].slots, B)
  BY DEF Sound, MapOK
<1>2. /\ Len(e.ids) \in Nat /\ Len(e.ids) <= L /\ Len(e.ids) >= CeilDiv(ctx, B) /\ e.s = s
      /\ \A k \in 1..Len(e.ids) : k \in 1..L /\ e.ids[k] = ids[k]
  <2> HIDE DEF L
  <2> QED BY <1>0 DEF EntryOK, L
<1>3. NoDup(e.ids)
  <2> HIDE DEF ids, L
  <2> QED BY <1>1, <1>2 DEF NoDup, L
<1>4. Shift(e) \in Nat
  BY <1>0, <1>2, ShiftNat
<1>5. ContentType(d, n)
  BY <1>0, <1>2, <1>3, <1>4, ComputedType
<1>6. /\ ShareInv(x, q) /\ OwnInv(x, c) /\ HitInv(x, c) /\ RestInv(x, q, tl)
  BY DEF Filling
<1>7. /\ y.map[s].ids = ids /\ y.map[s].slots = x.map[s].slots /\ y.map[s].filled = ctx
      /\ \A t \in Seqs : t # s => y.map[t] = x.map[t]
      /\ \A t \in Seqs : y.map[t].ids = x.map[t].ids
  BY DEF OnlyFilled
<1>8. /\ \A u \in Seqs : u # s => \A b : Owes(y, u, b) <=> Owes(x, u, b)
      /\ \A u \in Seqs : \A b : Owes(y, u, b) => Owes(x, u, b)
  <2>1. \A u \in Seqs : u # s => \A b : Owes(y, u, b) <=> Owes(x, u, b)
    BY <1>7, OwesFrame
  <2>2. ASSUME NEW b, Owes(y, s, b) PROVE Owes(x, s, b)
    <3>1. PICK k \in 1..L : OwesAt(y, s, b, k)
      BY <1>7, <2>2 DEF Owes
    <3> DEFINE kb == k * B
               sl == x.map[s].slots
    <3>2. ids[k] = b /\ ctx < kb /\ ctx < sl /\ kb \in Nat /\ sl \in Nat /\ g <= ctx
      BY <1>0, <1>7, <3>1 DEF OwesAt
    <3> HIDE DEF kb, sl, ctx, g
    <3>3. g < kb /\ g < sl
      BY ONLY <1>0, <3>2
    <3>4. OwesAt(x, s, b, k)
      BY <3>2, <3>3 DEF OwesAt, kb, sl, g
    <3> QED BY <3>4 DEF Owes
  <2> QED BY <2>1, <2>2
<1>9. \A u \in Seqs : \A b : Owes(x, u, b) => b \in Elems(x.map[u].ids)
  BY <1>0, OwesHolds
<1>10. ASSUME NEW k \in 1..L, (k - 1) * B < ctx
       PROVE  Has(d, ids[k], BlockHash[s][k], Least(B, ctx - (k - 1) * B))
  <2> DEFINE j == (k - 1) * B
             b == ids[k]
  <2>1. j \in Nat /\ k \in Nat /\ j < ctx
    <3> HIDE DEF L, B, ctx
    <3>1. k \in Nat /\ k - 1 \in Nat
      BY ONLY <1>0, k \in 1..L
    <3>2. j \in Nat
      BY ONLY <1>0, <3>1
    <3> QED BY ONLY <1>10, <3>1, <3>2
  <2>2. k \in 1..Len(e.ids)
    <3> DEFINE C == CeilDiv(ctx, B)
    <3>1. C \in Nat /\ ctx <= C * B
      BY <1>0, CeilBounds
    <3>2. k <= C
      <4> SUFFICES ASSUME C < k PROVE FALSE
        BY <2>1, <3>1
      <4> DEFINE l == k - 1
      <4>1. l \in Nat /\ C <= l
        <5> HIDE DEF C
        <5> QED BY <1>0, <3>1
      <4> HIDE DEF C, l
      <4>2. C * B <= l * B /\ C * B \in Nat
        BY ONLY <1>0, <3>1, <4>1
      <4>3. j = l * B
        BY DEF l
      <4> HIDE DEF j, ctx
      <4> QED BY ONLY <1>0, <2>1, <3>1, <4>2, <4>3
    <3> HIDE DEF C, L
    <3> QED BY <1>0, <1>2, <3>1, <3>2 DEF C
  <2>3. b = e.ids[k] /\ b \in Blocks(n) /\ b \in DOMAIN c /\ c[b].n \in Nat
    BY <1>0, <1>2, <2>2 DEF ContentType
  <2>4. d[b] = PageAfter(c, e, k, b)
    BY <1>3, <2>2, <2>3, ComputedPage
  <2>5. ASSUME j < e.filled PROVE Has(c, b, BlockHash[s][k], Least(B, e.filled - j))
    <3>1. OwnOK(x, c, s, k)
      BY <1>6 DEF OwnInv
    <3>2. j < g
      <4> HIDE DEF j, g
      <4> QED BY <1>0, <2>1, <2>5 DEF g
    <3>3. Has(c, b, BlockHash[s][k], Least(B, g - j)) \/ \E u \in Seqs : u # s /\ Owes(x, u, b)
      BY <3>1, <3>2 DEF OwnOK
    <3>4. b \in Elems(ids)
      BY DEF Elems
    <3>5. Has(c, b, BlockHash[s][k], Least(B, g - j))
      BY <3>3, <3>4 DEF Settled
    <3>6. Least(B, e.filled - j) <= Least(B, g - j) /\ Least(B, e.filled - j) \in Nat /\ Least(B, g - j) \in Nat
      <4>1. e.filled <= g
        OBVIOUS
      <4> HIDE DEF j, g
      <4> QED BY ONLY <1>0, <2>1, <2>5, <3>2, <4>1 DEF Least
    <3> DEFINE v == Least(B, e.filled - j)
               w == Least(B, g - j)
               m == c[b].n
    <3>7. v <= w /\ v \in Nat /\ w \in Nat /\ m \in Nat
      BY <2>3, <3>6
    <3>8. c[b] = Misplaced \/ (c[b].key = BlockHash[s][k] /\ m >= w)
      BY <3>5 DEF Has
    <3> HIDE DEF v, w, m
    <3>9. c[b] = Misplaced \/ (c[b].key = BlockHash[s][k] /\ m >= v)
      BY ONLY <3>7, <3>8
    <3> QED BY <3>9 DEF Has, m, v
  <2> DEFINE ub == b
  <2> HIDE DEF j
  <2>6. /\ j = (k - 1) * BlockSize /\ e.s = s
    BY <1>2 DEF j
  <2>7. Has(d, b, BlockHash[e.s][k], Least(BlockSize, e.context - j))
    <3>1. j < e.filled => Has(c, b, BlockHash[e.s][k], Least(BlockSize, e.filled - j))
      BY <2>5, <2>6
    <3> HIDE DEF b
    <3> QED BY <1>0, <1>4, <2>1, <2>3, <2>4, <2>6, <3>1, PageHas
  <2> QED BY <2>6, <2>7
<1>11. ASSUME NEW k \in 1..L,
              x.hash[ids[k]] # NoHash \/ \E t \in Seqs : t # s /\ ids[k] \in Elems(x.map[t].ids)
       PROVE  Has(d, ids[k], BlockHash[s][k], B) \/ Owes(y, s, ids[k])
  <2>1. k * B <= x.map[s].slots
    BY <1>11, SharedFull
  <2> DEFINE kb == k * B
             j == (k - 1) * B
  <2>2. kb \in Nat /\ j \in Nat /\ kb = j + B
    <3> DEFINE l == k - 1
    <3>1. l \in Nat /\ k = l + 1
      BY <1>0
    <3> HIDE DEF l, B
    <3>2. (l + 1) * B = l * B + B /\ l * B \in Nat
      BY <3>1, MulSucc DEF B
    <3>3. j = l * B /\ kb = (l + 1) * B
      BY <3>1 DEF l
    <3> DEFINE lb == l * B
    <3> HIDE DEF lb, j, kb
    <3>4. lb \in Nat /\ kb = lb + B /\ j = lb
      BY ONLY <3>2, <3>3 DEF lb
    <3> QED BY ONLY <1>0, <3>4
  <2>3. CASE kb <= ctx
    <3>1. j < ctx /\ Least(B, ctx - j) = B
      <4> HIDE DEF kb, j, ctx
      <4> QED BY <1>0, <2>2, <2>3 DEF Least
    <3> QED BY <1>10, <3>1
  <2>4. CASE ctx < kb
    <3> DEFINE sl == x.map[s].slots
    <3>1. ctx < sl
      <4>1. sl \in Nat /\ kb <= sl
        BY <1>0, <2>1
      <4> HIDE DEF kb, ctx, sl
      <4> QED BY ONLY <1>0, <2>2, <2>4, <4>1
    <3>2. OwesAt(y, s, ids[k], k)
      BY <1>7, <2>4, <3>1 DEF OwesAt
    <3> QED BY <1>7, <3>2 DEF Owes
  <2> HIDE DEF kb
  <2> QED BY <1>0, <2>2, <2>3, <2>4
<1>12. ASSUME NEW b \in Blocks(n), b \notin Elems(ids) PROVE d[b] = c[b]
  <2>1. b \notin Elems(e.ids)
    <3> HIDE DEF ids, L
    <3>1. \A k \in 1..Len(e.ids) : k \in 1..Len(ids) /\ e.ids[k] = ids[k]
      BY <1>2 DEF L
    <3> QED BY ONLY <1>12, <3>1 DEF Elems
  <2> QED BY <2>1, ComputedElsewhere DEF ContentType
<1>13. ShareInv(y, q)
  <2> SUFFICES ASSUME NEW u \in Seqs, NEW t \in Seqs, u # t, NEW b \in Elems(y.map[t].ids),
                      Owes(y, u, b)
               PROVE  ~Owes(y, t, b) /\ Before(q, u, t)
    BY DEF ShareInv
  <2>1. Owes(x, u, b) /\ b \in Elems(x.map[t].ids)
    BY <1>7, <1>8
  <2>2. ~Owes(x, t, b) /\ Before(q, u, t)
    BY <1>6, <2>1 DEF ShareInv
  <2> QED BY <1>8, <2>2
<1>14. OwnInv(y, d)
  <2> SUFFICES ASSUME NEW t \in Seqs, NEW k \in 1..Len(y.map[t].ids),
                      (k - 1) * BlockSize < y.map[t].filled
               PROVE  \/ Has(d, y.map[t].ids[k], BlockHash[t][k],
                             Least(BlockSize, y.map[t].filled - (k - 1) * BlockSize))
                      \/ \E u \in Seqs : u # t /\ Owes(y, u, y.map[t].ids[k])
    BY DEF OwnInv, OwnOK
  <2>1. CASE t = s
    BY <1>7, <1>10, <2>1
  <2>2. CASE t # s
    <3> DEFINE b == x.map[t].ids[k]
               w == Least(BlockSize, x.map[t].filled - (k - 1) * BlockSize)
    <3>1. /\ y.map[t] = x.map[t] /\ k \in 1..Len(x.map[t].ids)
          /\ b \in Blocks(n) /\ b \in Elems(x.map[t].ids)
      BY <1>0, <1>7, <2>2, MapFields DEF Elems
    <3>2. Has(c, b, BlockHash[t][k], w) \/ \E u \in Seqs : u # t /\ Owes(x, u, b)
      BY <1>6, <3>1 DEF OwnInv, OwnOK
    <3>3. CASE b \in Elems(ids)
      <4>1. PICK i \in 1..L : ids[i] = b
        BY <3>3 DEF Elems
      <4>2. i = k /\ BlockHash[s][i] = BlockHash[t][i]
        BY <2>2, <3>1, <4>1, SameDepth
      <4>3. Has(d, ids[i], BlockHash[s][i], B) \/ Owes(y, s, ids[i])
        BY <1>11, <2>2, <3>1, <4>1
      <4>4. CASE Owes(y, s, ids[i])
        BY <2>2, <3>1, <4>1, <4>4
      <4>5. CASE Has(d, ids[i], BlockHash[s][i], B)
        <5>1. w <= B /\ w \in Int
          <6> DEFINE F == x.map[t].filled
                     J == (k - 1) * BlockSize
          <6>1. k - 1 \in Nat
            BY ONLY <1>0, <3>1, <4>1, <4>2
          <6>a. F \in Nat
            BY <1>0, MapFields, SizeAssumption
          <6>b. J \in Nat
            BY ONLY <1>0, <6>1
          <6>2. F \in Nat /\ J \in Nat /\ B \in Nat
            BY <1>0, <6>a, <6>b
          <6>3. w = Least(B, F - J)
            OBVIOUS
          <6> HIDE DEF F, J, B, w
          <6> QED BY ONLY <6>2, <6>3 DEF Least
        <5>2. d[b].n \in Nat
          BY <1>5, <3>1 DEF ContentType
        <5>3. Has(d, b, BlockHash[t][k], B)
          BY <4>1, <4>2, <4>5
        <5> HIDE DEF w, b
        <5>4. Has(d, b, BlockHash[t][k], w)
          BY <1>0, <5>1, <5>2, <5>3 DEF Has
        <5> QED BY <3>1, <5>4 DEF w, b
      <4> QED BY <4>3, <4>4, <4>5
    <3>4. CASE b \notin Elems(ids)
      <4>1. d[b] = c[b]
        BY <1>12, <3>1, <3>4
      <4>2. Has(c, b, BlockHash[t][k], w) => Has(d, b, BlockHash[t][k], w)
        BY <4>1 DEF Has
      <4>3. \A u \in Seqs : Owes(x, u, b) => Owes(y, u, b)
        BY <1>8, <1>9, <3>4
      <4> QED BY <3>1, <3>2, <4>2, <4>3
    <3> QED BY <3>3, <3>4
  <2> QED BY <2>1, <2>2
<1>15. HitInv(y, d)
  <2> SUFFICES ASSUME NEW h \in Hashes, lookup_block_id(y, h) # NoBlock
               PROVE  \/ Has(d, lookup_block_id(y, h), h, BlockSize)
                      \/ \E u \in Seqs : Owes(y, u, lookup_block_id(y, h))
    BY DEF HitInv, HitOK
  <2> DEFINE b == lookup_block_id(x, h)
  <2>1. b = lookup_block_id(y, h) /\ b # NoBlock
    OBVIOUS
  <2>2. b \in Blocks(n) /\ x.hash[b] = h /\ h # NoHash
    <3>1. h # NoHash
      BY HashAssumption DEF NoHash
    <3> QED BY <1>0, <2>1, <3>1, Lookup
  <2>3. Has(c, b, h, BlockSize) \/ \E u \in Seqs : Owes(x, u, b)
    BY <1>6, <2>1 DEF HitInv, HitOK
  <2>4. CASE b \in Elems(ids)
    <3>1. PICK i \in 1..L : ids[i] = b
      BY <2>4 DEF Elems
    <3>2. x.hash[b] = BlockHash[s][i]
      <4>1. x.hash[b] # NoHash /\ b = x.map[s].ids[i]
        BY <2>2, <3>1
      <4> HIDE DEF b
      <4> QED BY <4>1, SharedFull
    <3>3. Has(d, ids[i], BlockHash[s][i], B) \/ Owes(y, s, ids[i])
      BY <1>11, <2>2, <3>1
    <3> QED BY <2>1, <2>2, <3>1, <3>2, <3>3
  <2>5. CASE b \notin Elems(ids)
    <3>1. d[b] = c[b]
      BY <1>12, <2>2, <2>5
    <3>2. Has(c, b, h, BlockSize) => Has(d, b, h, BlockSize)
      BY <3>1 DEF Has
    <3>3. \A u \in Seqs : Owes(x, u, b) => Owes(y, u, b)
      BY <1>8, <1>9, <2>5
    <3> QED BY <2>1, <2>3, <3>2, <3>3
  <2> QED BY <2>4, <2>5
<1>16. RestInv(y, q, tl)
  <2> SUFFICES ASSUME NEW t \in Seqs PROVE RestOK(y, q, tl, t)
    BY DEF RestInv
  <2>1. CASE t = s
    <3>1. ~(y.map[s].slots < tl[s])
      BY <1>0, <1>7
    <3> QED BY <2>1, <3>1 DEF RestOK
  <2>2. CASE t # s
    <3>1. RestOK(x, q, tl, t)
      BY <1>6 DEF RestInv
    <3>2. Settled(x, t) => Settled(y, t)
      BY <1>7, <1>8 DEF Settled
    <3> QED BY <1>7, <2>2, <3>1, <3>2 DEF RestOK
  <2> QED BY <2>1, <2>2
<1> QED BY <1>5, <1>13, <1>14, <1>15, <1>16 DEF Filling

-----------------------------------------------------------------------------
(* The order of the running tasks *)

\* The running tasks, when their front moves from one queue to the other.
LEMMA FrontMoves ==
  ASSUME NEW S, NEW p \in Seq(S), NEW q \in Seq(S), q # <<>>
  PROVE  Append(p, Head(q)) \o Tail(q) = p \o q
<1> DEFINE h == Append(p, Head(q))
           t == Tail(q)
           P == Len(p)
           Q == Len(q)
<1>1. /\ P \in Nat /\ Q \in Nat /\ Q >= 1
      /\ h \in Seq(S) /\ t \in Seq(S) /\ Len(h) = P + 1 /\ Len(t) = Q - 1
      /\ \A i \in 1..P : h[i] = p[i]
      /\ h[P + 1] = q[1]
      /\ \A i \in 1..(Q - 1) : t[i] = q[i + 1]
  OBVIOUS
<1>2. p \in Seq(S) /\ q \in Seq(S)
  OBVIOUS
<1>3. /\ h \o t \in Seq(S) /\ p \o q \in Seq(S)
      /\ Len(h \o t) = Len(h) + Len(t) /\ Len(p \o q) = P + Q
  BY <1>1
<1> HIDE DEF h, t, P, Q
<1>4. ASSUME NEW i \in 1..(P + Q) PROVE (h \o t)[i] = (p \o q)[i]
  <2>1. (h \o t)[i] = IF i <= P + 1 THEN h[i] ELSE t[i - (P + 1)]
    BY <1>1
  <2>2. (p \o q)[i] = IF i <= P THEN p[i] ELSE q[i - P]
    BY <1>1, <1>2 DEF P, Q
  <2>3. CASE i <= P
    BY <1>1, <2>1, <2>2, <2>3
  <2>4. CASE i = P + 1
    BY <1>1, <2>1, <2>2, <2>4
  <2>5. CASE i > P + 1
    <3>1. i - (P + 1) \in 1..(Q - 1) /\ (i - (P + 1)) + 1 = i - P
      BY <1>1, <2>5
    <3> QED BY <1>1, <2>1, <2>2, <2>5, <3>1
  <2>6. i <= P \/ i = P + 1 \/ i > P + 1
    BY ONLY <1>1, i \in 1..(P + Q)
  <2> QED BY ONLY <2>3, <2>4, <2>5, <2>6
<1>5. Len(h \o t) = P + Q
  BY <1>1, <1>3
<1>6. h \o t = p \o q
  <2> DEFINE a == h \o t
             b == p \o q
  <2>1. a \in Seq(S) /\ b \in Seq(S) /\ Len(a) = Len(b) /\ \A i \in 1..Len(a) : a[i] = b[i]
    BY <1>3, <1>4, <1>5
  <2> HIDE DEF a, b
  <2>2. a = b
    BY <2>1, SeqsEqual
  <2> QED BY <2>2 DEF a, b
<1> QED BY <1>6 DEF h, t

\* ... and their last one.
LEMMA LastIsLast ==
  ASSUME NEW S, NEW p \in Seq(S), NEW q \in Seq(S), q # <<>>
  PROVE  /\ Last(q) \in S /\ Front(q) \in Seq(S)
         /\ p \o q = Append(p \o Front(q), Last(q))
<1> DEFINE f == Front(q)
           l == Last(q)
           P == Len(p)
           Q == Len(q)
<1>1. /\ P \in Nat /\ Q \in Nat /\ Q >= 1 /\ f \in Seq(S) /\ l \in S /\ Len(f) = Q - 1
      /\ l = q[Q] /\ \A i \in 1..(Q - 1) : f[i] = q[i]
  <2>1. P \in Nat /\ Q \in Nat /\ Q >= 1 /\ l = q[Q] /\ l \in S
    BY DEF Last
  <2>2. f = SubSeq(q, 1, Q - 1)
    BY DEF Front
  <2>3. f \in Seq(S) /\ Len(f) = Q - 1 /\ \A i \in 1..(Q - 1) : f[i] = q[i]
    <3> DEFINE m == Q - 1
    <3>1. m \in 0..Len(q)
      BY <2>1
    <3> HIDE DEF m
    <3> DEFINE g == SubSeq(q, 1, m)
    <3>2. g \in Seq(S) /\ Len(g) = m /\ \A i \in 1..m : g[i] = q[i]
      BY <3>1
    <3> QED BY <2>2, <3>2 DEF m
  <2> QED BY <2>1, <2>3
<1>2. p \in Seq(S) /\ q \in Seq(S)
  OBVIOUS
<1> HIDE DEF f, l, P, Q
<1> DEFINE a == p \o q
           b == Append(p \o f, l)
<1>c. p \o f \in Seq(S) /\ Len(p \o f) = P + (Q - 1) /\ Len(p \o f) + 1 = P + Q
  <2>1. p \in Seq(S) /\ f \in Seq(S)
    BY <1>1, <1>2
  <2>2. p \o f \in Seq(S) /\ Len(p \o f) = Len(p) + Len(f)
    BY ONLY <2>1
  <2>3. Len(p) = P /\ Len(f) = Q - 1 /\ P \in Nat /\ Q \in Nat
    BY <1>1 DEF P
  <2> QED BY ONLY <2>2, <2>3
<1>3. a \in Seq(S) /\ b \in Seq(S) /\ Len(a) = P + Q /\ Len(b) = P + Q
  <2>1. p \o f \in Seq(S) /\ Len(p \o f) = P + (Q - 1)
    BY <1>c
  <2>2. b \in Seq(S) /\ Len(b) = Len(p \o f) + 1
    BY <1>1, <2>1
  <2>3. a \in Seq(S) /\ Len(a) = P + Q
    BY <1>2 DEF P, Q
  <2> HIDE DEF a, b
  <2> QED BY ONLY <1>1, <2>1, <2>2, <2>3
<1>4. ASSUME NEW i \in 1..(P + Q) PROVE a[i] = b[i]
  <2>1. a[i] = IF i <= P THEN p[i] ELSE q[i - P]
    BY <1>1, <1>2 DEF P, Q
  <2>2. CASE i < P + Q
    <3>1. p \o f \in Seq(S) /\ Len(p \o f) = P + (Q - 1)
      BY <1>c
    <3>2. b[i] = (p \o f)[i]
      BY <1>1, <2>2, <3>1
    <3>3. (p \o f)[i] = IF i <= P THEN p[i] ELSE f[i - P]
      BY <1>1, <1>2, <2>2, <3>1 DEF P
    <3> QED BY <1>1, <2>1, <2>2, <3>2, <3>3
  <2>3. CASE i = P + Q
    <3>1. p \o f \in Seq(S) /\ Len(p \o f) + 1 = P + Q
      BY <1>c
    <3>2. b[i] = l
      BY <1>1, <2>3, <3>1
    <3> QED BY <1>1, <2>1, <2>3, <3>2
  <2>4. i < P + Q \/ i = P + Q
    BY ONLY <1>1, i \in 1..(P + Q)
  <2> QED BY ONLY <2>2, <2>3, <2>4
<1> HIDE DEF a, b
<1>5. a = b
  BY <1>3, <1>4, SeqsEqual
<1> QED BY <1>1, <1>5 DEF a, b, f, l

\* A filter keeps the order.
LEMMA KeptBefore ==
  ASSUME NEW q \in Seq(Seqs), NEW T, NEW u \in T, NEW t \in T, Before(q, u, t)
  PROVE  Before(Kept(q, T), u, t)
<1> DEFINE K == PosIn(q, T)
           C == Cardinality(K)
           r == Kept(q, T)
           R(i) == RankIn(K, i)
<1>1. PICK i \in 1..Len(q), j \in 1..Len(q) : i < j /\ q[i] = u /\ q[j] = t
  BY DEF Before
<1>2. K \in SUBSET (1..Len(q)) /\ Len(q) \in Nat /\ i \in K /\ j \in K
  BY <1>1 DEF PosIn
<1>3. /\ IsFiniteSet(K) /\ C \in Nat /\ \A k \in K : R(k) \in 1..C
      /\ \A k, l \in K : R(k) = R(l) => k = l
  BY <1>2, RankLemma
<1>4. R(i) <= R(j)
  <2> DEFINE A == {k \in K : k <= i}
             B == {k \in K : k <= j}
  <2>1. A \subseteq B
    BY <1>1, <1>2
  <2>2. IsFiniteSet(B)
    BY <1>3, FS_Subset
  <2>3. Cardinality(A) <= Cardinality(B)
    BY <2>1, <2>2, FS_Subset
  <2> QED BY <2>3 DEF RankIn
<1>5. R(i) < R(j)
  <2>1. R(i) # R(j) /\ R(i) \in 1..C /\ R(j) \in 1..C
    BY <1>1, <1>2, <1>3
  <2> HIDE DEF R, C
  <2> QED BY ONLY <1>3, <1>4, <2>1
<1>6. r = [k \in 1..C |-> q[CHOOSE l \in K : R(l) = k]]
  BY DEF Kept
<1>7. ASSUME NEW k \in K PROVE r[R(k)] = q[k]
  <2>1. R(k) \in 1..C
    BY <1>3
  <2>2. r[R(k)] = q[CHOOSE l \in K : R(l) = R(k)]
    BY <1>6, <2>1
  <2> DEFINE m == CHOOSE l \in K : R(l) = R(k)
  <2>3. m \in K /\ R(m) = R(k)
    OBVIOUS
  <2>4. m = k
    BY <1>3, <2>3
  <2> QED BY <2>2, <2>4
<1>8. Len(r) = C
  <2> HIDE DEF C
  <2> QED BY <1>3, <1>6
<1>9. R(i) \in 1..Len(r) /\ R(j) \in 1..Len(r) /\ r[R(i)] = u /\ r[R(j)] = t
  BY <1>1, <1>2, <1>3, <1>7, <1>8
<1> HIDE DEF R, r
<1> QED BY <1>5, <1>9 DEF Before, r

-----------------------------------------------------------------------------
(* The invariant, and the steps that leave the GPU alone *)

\* The running tasks in the order in which they are executed, and what the
\* GPU holds once the batch, as far as it is made up, has been executed.
Hand == kept \o allocated
Content == Ran(kv["gpu"], batch)

FillInv == Filling(Gpu, Hand, Content, tlen) /\ ContentType(Content, NumGpu)

\* Entry i is the one of task i, and computes it to its end unless the budget
\* is spent.
EntryInv(i) ==
    LET e == batch[i]
        t == allocated[i]
    IN  /\ EntryOK(Gpu, e, t) /\ e.context = Gpu.map[t].filled
        /\ (e.chunked <=> e.context < tlen[t])
        /\ e.context = tlen[t] \/ (budget = 0 /\ i = idx - 1)

BatchFilled ==
    /\ pc \notin {"dispatch", "infer"} => batch = <<>>
    /\ pc \in {"dispatch", "infer"} =>
          /\ Len(batch) = idx - 1 /\ idx - 1 <= Len(allocated)
          /\ \A i \in 1..Len(batch) : EntryInv(i)

CopyInv ==
    /\ pc # "reclaim" /\ DOMAIN kv = Devices /\ fetch = <<>>
    /\ kv["gpu"] = [b \in Blocks(NumGpu) |-> kv["gpu"][b]]
    /\ \A i \in 1..Len(bg) : bg[i].to \in {"host", "disk"}

KvOK == FillInv /\ BatchFilled /\ CopyInv
KvInv == ~EnableReorder /\ pc # "panicked" => KvOK

\* In the beginning nothing is cached.
LEMMA KvInit == Init => KvInv
<1> SUFFICES ASSUME Init PROVE KvOK
  BY DEF KvInv
<1>1. /\ Gpu = NewManager(NumGpu) /\ kept = <<>> /\ allocated = <<>> /\ batch = <<>> /\ fetch = <<>>
      /\ bg = <<>> /\ pc = "idle" /\ DOMAIN kv = Devices
      /\ kv["gpu"] = [b \in 0..(NumGpu - 1) |-> Garbage]
  BY DEF Init, Gpu, Devices, NumOf
<1>2. Content = kv["gpu"] /\ ContentType(Content, NumGpu)
  <2>1. Content = kv["gpu"]
    BY <1>1, RanEmpty DEF Content
  <2>2. Garbage.n = 0
    BY DEF Garbage
  <2> QED BY <1>1, <2>1, <2>2 DEF ContentType, Blocks
<1>3. \A s \in Seqs : Gpu.map[s] = NoMap
  BY <1>1 DEF NewManager
<1>4. \A h \in Hashes : lookup_block_id(Gpu, h) = NoBlock
  BY <1>1 DEF NewManager, lookup_block_id
<1>5. NoMap.ids = <<>> /\ NoMap.filled = 0 /\ NoMap.slots = 0 /\ Len(<<>>) = 0 /\ Elems(<<>>) = {}
  BY DEF NoMap, Elems
<1>6. \A u \in Seqs : \A b : ~Owes(Gpu, u, b)
  BY <1>3, <1>5 DEF Owes
<1>7. Filling(Gpu, Hand, Content, tlen)
  <2>1. ShareInv(Gpu, Hand)
    BY <1>6 DEF ShareInv
  <2>2. OwnInv(Gpu, Content)
    BY <1>3, <1>5 DEF OwnInv
  <2>3. HitInv(Gpu, Content)
    BY <1>4 DEF HitInv, HitOK
  <2>4. RestInv(Gpu, Hand, tlen)
    BY <1>3, <1>5 DEF RestInv, RestOK, Settled
  <2> QED BY <2>1, <2>2, <2>3, <2>4 DEF Filling
<1>8. CopyInv /\ BatchFilled
  BY <1>1, <1>2 DEF CopyInv, BatchFilled, ContentType
<1> QED BY <1>2, <1>7, <1>8 DEF KvOK, FillInv

\* A step that leaves the GPU and the running tasks alone.
LEMMA QuietKv ==
  ASSUME KvOK, Gpu' = Gpu, Hand' = Hand, tlen' = tlen, kv'["gpu"] = kv["gpu"], batch' = batch,
         BatchFilled', CopyInv'
  PROVE  KvOK'
<1>1. Content' = Content
  BY DEF Content
<1>2. FillInv'
  BY <1>1 DEF KvOK, FillInv
<1> QED BY <1>2 DEF KvOK

\* The handlers and the background copies are such steps.
LEMMA HandlerKv ==
  ASSUME KvOK, DOMAIN dev = Devices, Gpu' = Gpu, DOMAIN kv' = DOMAIN kv, kv'["gpu"] = kv["gpu"],
         \A i \in 1..Len(bg') : bg'[i].to \in {"host", "disk"},
         UNCHANGED <<tlen, allocated, pc, locals, step>>
  PROVE  KvOK'
<1>1. UNCHANGED <<kept, idx, budget, batch, fetch>>
  BY DEF locals, step
<1>2. Hand' = Hand
  BY <1>1 DEF Hand
<1>3. BatchFilled'
  <2>1. \A i : EntryInv(i)' <=> EntryInv(i)
    BY <1>1 DEF EntryInv
  <2> QED BY <1>1, <2>1 DEF KvOK, BatchFilled
<1>4. CopyInv'
  BY <1>1 DEF KvOK, CopyInv
<1> QED BY <1>1, <1>2, <1>3, <1>4, QuietKv

\* The handlers and the background jobs leave the GPU and the running tasks alone:
\* what they copy goes to the host or to the disk.
LEMMA OutsideKv ==
  ASSUME QInv, MemInv, KvOK, NEW s \in Seqs,
         \/ AddRequest(s) \/ AddRequestStaged(s) \/ ReserveRequest(s) \/ PendReserved(s)
         \/ \E n \in 0..NumFull : TriggerRequest(s, n)
         \/ BgStaged \/ BgSaved \/ BgCopy
  PROVE  KvOK'
<1>1. DOMAIN dev = Devices /\ DOMAIN kv = Devices /\ "gpu" \in Devices /\ \E S : bg \in Seq(S)
      /\ \A i \in 1..Len(bg) : bg[i].to \in {"host", "disk"}
  BY DEF MemInv, MemType, KvOK, CopyInv, Devices, QInv, JobInv
<1>2. PICK S : bg \in Seq(S)
  BY <1>1
<1>3. UNCHANGED <<tlen, allocated, pc, locals, step>>
  BY DEF AddRequest, AddRequestStaged, ReserveRequest, PendReserved, TriggerRequest, BgStaged,
         BgSaved, BgCopy, queues
<1>4. Gpu' = Gpu
  BY <1>1 DEF AddRequest, AddRequestStaged, ReserveRequest, PendReserved, TriggerRequest, BgStaged,
         BgSaved, BgCopy, Gpu
<1>5. CASE BgCopy
  <2> DEFINE j == Head(bg)
  <2>1. /\ bg # <<>> /\ bg' = [bg EXCEPT ![1].copied = TRUE]
        /\ kv' = [kv EXCEPT ![j.to] = CopyKV(kv[j.from], @, j.map)]
    BY <1>5 DEF BgCopy
  <2>2. j = bg[1] /\ 1 \in 1..Len(bg)
    BY <1>2, <2>1
  <2>3. j.to \in {"host", "disk"}
    BY <1>1, <2>2
  <2>4. DOMAIN kv' = DOMAIN kv /\ kv'["gpu"] = kv["gpu"]
    BY <1>1, <2>1, <2>3
  <2>5. Len(bg') = Len(bg) /\ \A i \in 1..Len(bg) : bg'[i].to = bg[i].to
    <3>1. bg' = [bg EXCEPT ![1] = [bg[1] EXCEPT !.copied = TRUE]]
      BY <2>1
    <3>2. Len(bg') = Len(bg)
      BY <1>2, <3>1
    <3>3. [bg[1] EXCEPT !.copied = TRUE].to = bg[1].to
      OBVIOUS
    <3> QED BY <1>2, <3>1, <3>2, <3>3
  <2> QED BY <1>1, <1>3, <1>4, <2>4, <2>5, HandlerKv
<1>6. CASE ~BgCopy
  <2>1. DOMAIN kv' = DOMAIN kv /\ kv'["gpu"] = kv["gpu"]
    BY <1>1, <1>6 DEF AddRequest, AddRequestStaged, ReserveRequest, PendReserved, TriggerRequest,
         BgStaged, BgSaved
  <2>2. \A i \in 1..Len(bg') : bg'[i].to \in {"host", "disk"}
    <3>1. CASE bg' = bg
      BY <1>1, <3>1
    <3>2. CASE AddRequestStaged(s)
      <4> DEFINE host == Hits("host", s)
                 disk == Hits("disk", s)
                 new == reserve_copy_blocks(disk, host, s, <<"in", s>>)
                 job == [s |-> s, from |-> "disk", to |-> "host", copied |-> FALSE,
                         map |-> zip(CopySources(disk, host, s), new.resv[<<"in", s>>])]
      <4>1. bg' = Append(bg, job) /\ job.to = "host"
        BY <3>2 DEF AddRequestStaged
      <4> HIDE DEF job
      <4> QED BY <1>1, <1>2, <4>1
    <3>3. CASE BgStaged \/ BgSaved
      <4>1. bg # <<>> /\ bg' = Tail(bg)
        BY <3>3 DEF BgStaged, BgSaved
      <4>2. Len(bg') = Len(bg) - 1 /\ \A i \in 1..(Len(bg) - 1) : bg'[i] = bg[i + 1] /\ i + 1 \in 1..Len(bg)
        BY <1>2, <4>1
      <4> QED BY <1>1, <4>2
    <3>4. bg' = bg \/ AddRequestStaged(s) \/ BgStaged \/ BgSaved
      BY <1>6 DEF AddRequest, ReserveRequest, PendReserved, TriggerRequest
    <3> QED BY <3>1, <3>2, <3>3, <3>4
  <2> QED BY <1>1, <1>3, <1>4, <2>1, <2>2, HandlerKv
<1> QED BY <1>5, <1>6

\* Clearing the cache takes labels away.
LEMMA ClearFilling ==
  ASSUME NEW n \in Nat, NEW x \in Manager(n), NEW y, y = clear_cache(x), NEW q, NEW c, NEW tl,
         Filling(x, q, c, tl)
  PROVE  Filling(y, q, c, tl)
<1>0. Whole(x)
  BY ManagerFields
<1>1. y.map = x.map /\ y.table = [h \in Hashes |-> NoBlock]
  BY <1>0 DEF clear_cache, Whole
<1>2. \A h \in Hashes : lookup_block_id(y, h) = NoBlock
  BY <1>1 DEF lookup_block_id
<1>3. \A u, b : Owes(y, u, b) <=> Owes(x, u, b)
  BY <1>1 DEF Owes, OwesAt
<1>4. \A t : Settled(y, t) <=> Settled(x, t)
  BY <1>1, <1>3 DEF Settled
<1>5. ShareInv(y, q)
  BY <1>1, <1>3 DEF ShareInv, Filling
<1>6. OwnInv(y, c)
  BY <1>1, <1>3 DEF OwnInv, OwnOK, Filling
<1>7. HitInv(y, c)
  BY <1>2 DEF HitInv, HitOK
<1>8. RestInv(y, q, tl)
  BY <1>1, <1>4 DEF RestInv, RestOK, Filling
<1> QED BY <1>5, <1>6, <1>7, <1>8 DEF Filling

-----------------------------------------------------------------------------
(* The steps of the engine loop *)

\* No task is twice among the running ones, and those that have a place
\* elsewhere are not among them.
LEMMA HandFacts ==
  ASSUME QInv
  PROVE  /\ Hand \in Seq(Seqs) /\ NoDup(Hand)
         /\ Elems(Hand) = Elems(kept) \union Elems(allocated)
<1>t. QueueType /\ kept \in Seq(Seqs) /\ allocated \in Seq(Seqs)
  BY DEF QInv, QueueType
<1>1. Hand \in Seq(Seqs) /\ Elems(Hand) = Elems(kept) \union Elems(allocated)
  BY <1>t, ConcatElems DEF Hand
<1>2. ASSUME NEW s \in Seqs PROVE Count(Hand, s) <= 1
  <2> DEFINE w == Count(waiting, s)   a == Count(allocated, s)   k == Count(kept, s)
             p == Count(promoted, s)   n == Count(nextWaiting, s)   f == Count(finished, s)
             d == Pended(s)   c == Same(cur, s)   l == Live(s)
  <2>1. NumbersAt(s) /\ w + a + k + p + n + f + d + c = l
    BY <1>t, Numbers DEF QInv, Conserved, Everywhere
  <2>2. /\ w \in Nat /\ a \in Nat /\ k \in Nat /\ p \in Nat /\ n \in Nat /\ f \in Nat
        /\ d \in {0, 1} /\ c \in {0, 1} /\ l \in {0, 1}
    BY <2>1 DEF NumbersAt
  <2>3. Count(Hand, s) = k + a
    <3>1. IsConcat(Hand, kept, allocated)
      BY DEF IsConcat, Hand
    <3> QED BY <1>t, <3>1, CountConcat
  <2> HIDE DEF w, a, k, p, n, f, d, c, l
  <2> QED BY ONLY <2>1, <2>2, <2>3
<1>3. NoDup(Hand)
  BY <1>1, <1>2, NoDupOfCount
<1> QED BY <1>1, <1>3

\* Outside of the extend loop the running tasks are those in allocated.
LEMMA HandAllocated ==
  ASSUME QInv, MemInv, pc # "extend"
  PROVE  Hand = allocated
<1>1. kept = <<>> /\ allocated \in Seq(Seqs)
  BY DEF MemInv, MemType, QInv, QueueType
<1>2. <<>> \o allocated = allocated
  BY <1>1
<1> QED BY <1>1, <1>2 DEF Hand

\* What the lemmas about the blocks take.
LEMMA GpuFacts ==
  ASSUME MemInv
  PROVE  /\ NumGpu \in Nat /\ tlen \in [Seqs -> 0..MaxLen]
         /\ Sound(Gpu, NumGpu, tlen) /\ Gpu \in Manager(NumGpu)
         /\ \A r \in Regions : Gpu.resv[r] = <<>>
         /\ pc # "panicked" => Gpu.lost = {}
<1>1. MemType /\ DevSound /\ LostInv /\ \A s \in Seqs : RegionInv(s)
  BY DEF MemInv, TaskInv
<1>2. \A r \in Regions : Gpu.resv[r] = <<>>
  BY <1>1, RegionNames DEF RegionInv
<1> QED BY <1>1, <1>2, Lens DEF DevSound, LostInv, Sound

\* A step of the engine loop that computes nothing.
LEMMA LoopKv ==
  ASSUME KvOK, Filling(Gpu', Hand', Content, tlen'), UNCHANGED <<kv, batch, fetch>>,
         CopyInv', BatchFilled'
  PROVE  KvOK'
<1>1. Content' = Content
  BY DEF Content
<1>2. FillInv'
  BY <1>1 DEF KvOK, FillInv
<1> QED BY <1>2 DEF KvOK

\* Outside of dispatch there is no batch.
LEMMA NoBatch ==
  ASSUME KvOK, pc \notin {"dispatch", "infer"}, pc' \notin {"dispatch", "infer", "reclaim"},
         UNCHANGED <<kv, step>>, \A i \in 1..Len(bg') : bg'[i].to \in {"host", "disk"}
  PROVE  BatchFilled' /\ CopyInv' /\ UNCHANGED <<kv, batch, fetch>>
BY DEF KvOK, BatchFilled, CopyInv, step

\* clear_cache takes labels away, no blocks.
LEMMA ClearCacheKv ==
  ASSUME QInv, MemInv, KvOK, ClearCache
  PROVE  KvOK'
<1>1. Gpu' = clear_cache(Gpu)
  BY DEF ClearCache, Gpu, Devices
<1>2. UNCHANGED <<tlen, allocated, pc, locals, step, kv, bg>>
  BY DEF ClearCache, queues
<1>3. Hand' = Hand /\ UNCHANGED <<kept, idx, budget, batch, fetch>>
  BY <1>2 DEF Hand, locals, step
<1>4. Gpu'.map = Gpu.map
  BY <1>1 DEF clear_cache
<1>5. Filling(Gpu', Hand, Content, tlen)
  <2> DEFINE y == clear_cache(Gpu)
  <2>1. Filling(Gpu, Hand, Content, tlen)
    BY DEF KvOK, FillInv
  <2>2. Filling(y, Hand, Content, tlen)
    BY <2>1, GpuFacts, ClearFilling
  <2> QED BY <1>1, <2>2
<1>6. BatchFilled' /\ CopyInv'
  <2>1. \A i : EntryInv(i)' <=> EntryInv(i)
    BY <1>2, <1>3, <1>4 DEF EntryInv, EntryOK
  <2> QED BY <1>2, <1>3, <2>1 DEF KvOK, BatchFilled, CopyInv
<1> QED BY <1>2, <1>3, <1>5, <1>6, LoopKv

\* The front of the queue gets slots for its new token, which it then owes; the
\* order of the running tasks stays.
LEMMA ExtendFrontKv ==
  ASSUME QInv, MemInv, KvOK, ExtendFront
  PROVE  KvOK'
<1>t. QueueType /\ MemType /\ DevSound
  BY DEF QInv, MemInv
<1>s. Head(allocated) \in Seqs /\ Head(allocated) \in Elems(allocated) /\ allocated # <<>>
  BY <1>t, SortedTail DEF QueueType, ExtendFront
<1> PICK s \in Seqs : s = Head(allocated)
  BY <1>s
<1>0. /\ pc = "extend" /\ CanExtend("gpu", s)
      /\ Gpu' = try_extend_infer_task("gpu", s)
      /\ kept' = Append(kept, s) /\ allocated' = Tail(allocated)
      /\ UNCHANGED <<kv, tlen, bg, pc, step>>
  BY <1>t DEF ExtendFront, Gpu, MemType, Devices
<1>1. Gpu' = alloc_blocks(Gpu, s, tlen[s]) /\ can_alloc_seq(Gpu, s, tlen[s], 100)
  BY <1>0 DEF try_extend_infer_task, CanExtend, Gpu
<1>2. Hand' = Hand
  <2>1. kept \in Seq(Seqs) /\ allocated \in Seq(Seqs)
    BY <1>t DEF QueueType
  <2>2. Append(kept, Head(allocated)) \o Tail(allocated) = kept \o allocated
    BY <1>s, <2>1, FrontMoves
  <2> QED BY <1>0, <2>2 DEF Hand
<1>3. s \in Elems(Hand) /\ Gpu.map[s].live
  <2>1. TaskInv(s) /\ s \in Running
    BY <1>s DEF MemInv, Running
  <2> QED BY <1>0, <1>s, <2>1, HandFacts DEF TaskInv, RunInv
<1>4. Filling(Gpu', Hand, Content, tlen)
  <2> DEFINE y == alloc_blocks(Gpu, s, tlen[s])
  <2>1. Filling(Gpu, Hand, Content, tlen)
    BY DEF KvOK, FillInv
  <2>2. Filling(y, Hand, Content, tlen)
    BY <1>1, <1>3, <2>1, GpuFacts, ExtendFilling
  <2> QED BY <1>1, <2>2
<1>5. BatchFilled' /\ CopyInv' /\ UNCHANGED <<kv, batch, fetch>>
  BY <1>0, NoBatch DEF KvOK, CopyInv
<1> QED BY <1>0, <1>2, <1>4, <1>5, LoopKv

\* The last of the running tasks is preempted: nobody runs after it, so nobody
\* counts on what it owes.
LEMMA PreemptBackKv ==
  ASSUME QInv, MemInv, KvOK, PreemptBack
  PROVE  KvOK'
<1>t. QueueType /\ MemType /\ DevSound /\ kept \in Seq(Seqs) /\ allocated \in Seq(Seqs)
  BY DEF QInv, MemInv, QueueType
<1>v. allocated # <<>> /\ Last(allocated) \in Seqs
  BY <1>t, SortedFront DEF PreemptBack
<1> PICK v \in Seqs : v = Last(allocated)
  BY <1>v
<1>0. /\ pc = "extend" /\ Gpu' = free(Gpu, v)
      /\ allocated' = Front(allocated)
      /\ UNCHANGED <<kv, tlen, bg, pc, kept, step>>
  BY <1>t DEF PreemptBack, Gpu, MemType, Devices, locals
<1> DEFINE r == kept \o Front(allocated)
<1>1. Hand = Append(r, v) /\ Hand' = r /\ r \in Seq(Seqs)
  <2>1. Front(allocated) \in Seq(Seqs) /\ kept \o allocated = Append(r, Last(allocated))
    BY <1>t, <1>v, LastIsLast
  <2> QED BY <1>t, <1>0, <2>1 DEF Hand
<1>2. v \notin Elems(r)
  <2> HIDE DEF r
  <2> DEFINE R == Len(r)
  <2>1. R \in Nat /\ Len(Hand) = R + 1 /\ Hand[R + 1] = v /\ \A i \in 1..R : Hand[i] = r[i]
    BY <1>1
  <2>2. NoDup(Hand)
    BY HandFacts
  <2> HIDE DEF R
  <2>3. \A i \in 1..R : i \in 1..(R + 1) /\ R + 1 \in 1..(R + 1) /\ i # R + 1
    BY ONLY <2>1
  <2>4. \A i \in 1..R : r[i] # v
    BY ONLY <2>1, <2>2, <2>3 DEF NoDup
  <2> QED BY <2>4 DEF Elems, R
<1>3. Leaves(Hand, r, v)
  <2> HIDE DEF r
  <2> QED BY <1>1, <1>2, LastLeaves
<1>4. Filling(Gpu', r, Content, tlen)
  <2> DEFINE f == Gpu.map[v].filled
             y == free_dropping(Gpu, v, f)
  <2>1. Filling(Gpu, Hand, Content, tlen)
    BY DEF KvOK, FillInv
  <2>2. f \in Nat /\ f <= Gpu.map[v].filled
    BY GpuFacts, MapFields, SizeAssumption
  <2>3. Filling(y, r, Content, tlen)
    <3> HIDE DEF r, f
    <3> QED BY <1>0, <1>3, <2>1, <2>2, GpuFacts, FreeFilling
  <2> QED BY <1>0, <2>3 DEF free
<1>5. BatchFilled' /\ CopyInv' /\ UNCHANGED <<kv, batch, fetch>>
  BY <1>0, NoBatch DEF KvOK, CopyInv
<1> QED BY <1>0, <1>1, <1>4, <1>5, LoopKv

\* The task that appended last leaves.
LEMMA TailLeaves ==
  ASSUME NEW r \in Seq(Seqs), NEW v \in Seqs, NEW q, q = Append(r, v), NoDup(q)
  PROVE  Leaves(q, r, v)
<1> DEFINE R == Len(r)
<1>1. R \in Nat /\ Len(q) = R + 1 /\ q[R + 1] = v /\ \A i \in 1..R : q[i] = r[i]
  OBVIOUS
<1> HIDE DEF R
<1>2. \A i \in 1..R : i \in 1..(R + 1) /\ R + 1 \in 1..(R + 1) /\ i # R + 1
  BY ONLY <1>1
<1>3. \A i \in 1..R : r[i] # v
  BY ONLY <1>1, <1>2, NoDup(q) DEF NoDup
<1>4. v \notin Elems(r)
  BY <1>3 DEF Elems, R
<1> QED BY <1>4, LastLeaves

\* Only a task without a slot for its last token asks for blocks.
LEMMA NoRoomAsks ==
  ASSUME NEW n \in Nat, NEW tl \in [Seqs -> 0..MaxLen], NEW x, Sound(x, n, tl), NEW s \in Seqs,
         x.map[s].live, ~can_alloc_seq(x, s, tl[s], 100)
  PROVE  x.map[s].slots < tl[s]
<1>1. x \in Manager(n) /\ x.total = n /\ Len(x.free) \in Nat /\ x.map[s].slots \in Nat
      /\ tl[s] \in Nat /\ BlockSize \in Nat \ {0}
  BY ManagerFields, MapFields, SizeAssumption DEF Sound
<1>2. x.map[s].slots <= tl[s] /\ Len(x.map[s].ids) = CeilDiv(x.map[s].slots, BlockSize)
  BY DEF Sound, MapOK
<1> SUFFICES ASSUME x.map[s].slots = tl[s] PROVE FALSE
  BY <1>1, <1>2
<1> DEFINE C == CeilDiv(tl[s], BlockSize)
<1>3. C \in Nat
  BY <1>1, CeilBounds
<1>4. get_num_required_blocks(x, s, tl[s]) = C - C
  BY <1>2 DEF get_num_required_blocks
<1> HIDE DEF C
<1>5. get_num_required_blocks(x, s, tl[s]) = 0
  BY <1>3, <1>4
<1>6. ~((n - Len(x.free)) + 0 <= (100 * n) \div 100)
  BY <1>1, <1>5 DEF can_alloc_seq, can_alloc_blocks
<1>7. (100 * n) \div 100 = n
  OBVIOUS
<1> QED BY <1>1, <1>6, <1>7

\* A task that finds no room to extend has filled all of its slots: it owes
\* nothing when it yields.
LEMMA YieldFrontKv ==
  ASSUME QInv, MemInv, KvOK, YieldFront
  PROVE  KvOK'
<1>t. QueueType /\ MemType /\ DevSound /\ kept \in Seq(Seqs) /\ allocated \in Seq(Seqs)
  BY DEF QInv, MemInv, QueueType
<1>s. /\ Head(allocated) \in Seqs /\ Head(allocated) \in Elems(allocated) /\ allocated # <<>>
      /\ allocated = <<Head(allocated)>>
  <2>1. allocated # <<>> /\ Len(allocated) = 1
    <3>1. Len(allocated) = 1
      BY DEF YieldFront
    <3> QED BY <3>1
  <2> QED BY <1>t, <2>1, SortedTail
<1> PICK s \in Seqs : s = Head(allocated)
  BY <1>s
<1>0. /\ pc = "extend" /\ pc' = "admit" /\ ~can_alloc_seq(Gpu, s, tlen[s], 100)
      /\ allocated' = kept /\ kept' = <<>>
      /\ UNCHANGED <<kv, dev, tlen, bg, step>>
  BY DEF YieldFront, CanExtend, Gpu
<1>1. Gpu' = Gpu
  BY <1>0 DEF Gpu
<1>2. Hand = Append(kept, s) /\ Hand' = kept
  <2>1. kept \o <<s>> = Append(kept, s) /\ <<>> \o kept = kept
    BY <1>t
  <2> QED BY <1>0, <1>s, <2>1 DEF Hand
<1>3. Leaves(Hand, kept, s)
  BY <1>t, <1>2, HandFacts, TailLeaves
<1>4. Gpu.map[s].slots < tlen[s]
  <2>1. TaskInv(s) /\ s \in Running
    BY <1>s DEF MemInv, Running
  <2>2. Gpu.map[s].live
    BY <1>0, <2>1 DEF TaskInv, RunInv
  <2> QED BY <1>0, <2>2, GpuFacts, NoRoomAsks
<1>5. Filling(Gpu, Hand, Content, tlen)
  BY DEF KvOK, FillInv
<1>6. Gpu.map[s].filled = Gpu.map[s].slots /\ Settled(Gpu, s)
  BY <1>4, <1>5 DEF Filling, RestInv, RestOK
<1>7. Filling(Gpu, kept, Content, tlen)
  <2> DEFINE D == {s}
  <2>1. \A t \in Seqs : t \in D => Gpu.map[t].filled = Gpu.map[t].slots /\ Settled(Gpu, t)
    BY <1>6
  <2> DEFINE ul == tlen
  <2>2. \A t \in Seqs : t \notin D => ul[t] = tlen[t] /\ (t \in Elems(Hand) => t \in Elems(kept))
    BY <1>3 DEF Leaves
  <2>3. \A u, t \in Seqs : u \notin D /\ t \notin D /\ Before(Hand, u, t) => Before(kept, u, t)
    BY <1>3 DEF Leaves
  <2> HIDE DEF D, ul
  <2>4. NumGpu \in Nat /\ Gpu \in Manager(NumGpu)
    BY GpuFacts
  <2>5. Regroups(Gpu, Hand, kept, tlen, ul, D)
    BY ONLY <2>1, <2>2, <2>3 DEF Regroups
  <2>6. Filling(Gpu, kept, Content, ul)
    BY ONLY <1>5, <2>4, <2>5, Regroup
  <2> QED BY <2>6 DEF ul
<1>8. BatchFilled' /\ CopyInv' /\ UNCHANGED <<kv, batch, fetch>>
  BY <1>0, NoBatch DEF KvOK, CopyInv
<1> QED BY <1>0, <1>1, <1>2, <1>7, <1>8, LoopKv

\* The steps of schedule that only go on to the next loop.
LEMMA ScheduleKv ==
  ASSUME QInv, MemInv, KvOK, StartIter \/ ExtendDone \/ AdmitDone \/ DispatchDone
  PROVE  KvOK'
<1>t. QueueType /\ MemType /\ kept \in Seq(Seqs) /\ allocated \in Seq(Seqs)
  BY DEF QInv, MemInv, QueueType
<1>0. UNCHANGED <<kv, dev, tlen, bg>>
  BY DEF StartIter, ExtendDone, AdmitDone, DispatchDone
<1>1. Gpu' = Gpu /\ Filling(Gpu, Hand, Content, tlen)
  BY <1>0 DEF Gpu, KvOK, FillInv
<1>2. CASE StartIter \/ ExtendDone
  <2>1. Hand' = Hand
    <3>1. CASE StartIter
      BY <3>1 DEF StartIter, Hand, queues, locals
    <3>2. CASE ExtendDone
      <4>1. kept \o <<>> = kept /\ <<>> \o kept = kept
        BY <1>t
      <4> QED BY <3>2, <4>1 DEF ExtendDone, Hand
    <3> QED BY <1>2, <3>1, <3>2
  <2>2. pc \in {"idle", "extend"} /\ pc' \in {"extend", "admit"} /\ UNCHANGED step
    BY <1>2 DEF StartIter, ExtendDone
  <2>3. BatchFilled' /\ CopyInv' /\ UNCHANGED <<kv, batch, fetch>>
    BY <1>0, <2>2, NoBatch DEF KvOK, CopyInv
  <2> QED BY <1>0, <1>1, <2>1, <2>3, LoopKv
<1>3. CASE AdmitDone
  <2>1. /\ pc = "admit" /\ pc' = "dispatch" /\ idx' = 1 /\ batch' = <<>> /\ fetch' = <<>>
        /\ kept' = kept /\ allocated' = allocated
    BY <1>3 DEF AdmitDone, StartDispatch, queues
  <2>2. batch = <<>> /\ fetch = <<>>
    BY <2>1 DEF KvOK, BatchFilled, CopyInv
  <2>3. Hand' = Hand
    BY <2>1 DEF Hand
  <2>4. CopyInv'
    BY <1>0, <2>1 DEF KvOK, CopyInv
  <2>5. BatchFilled'
    <3>1. Len(batch') = 0 /\ 0 <= Len(allocated)
      BY <1>t, <2>1
    <3> QED BY <2>1, <3>1 DEF BatchFilled
  <2> QED BY <1>0, <1>1, <2>1, <2>2, <2>3, <2>4, <2>5, LoopKv
<1>4. CASE DispatchDone
  <2>1. /\ pc = "dispatch" /\ pc' = (IF batch = <<>> THEN "idle" ELSE "infer")
        /\ UNCHANGED <<kept, allocated, idx, budget, batch, fetch>>
    BY <1>4 DEF DispatchDone, queues, locals, step
  <2>2. Hand' = Hand
    BY <2>1 DEF Hand
  <2>3. CopyInv'
    BY <1>0, <2>1 DEF KvOK, CopyInv
  <2>4. BatchFilled'
    <3>1. \A i : EntryInv(i)' <=> EntryInv(i)
      BY <1>0, <1>1, <2>1 DEF EntryInv
    <3> QED BY <2>1, <3>1 DEF KvOK, BatchFilled
  <2> QED BY <1>0, <1>1, <2>1, <2>2, <2>3, <2>4, LoopKv
<1> QED BY <1>2, <1>3, <1>4

\* An admitted task runs after those whose blocks it takes over by their labels.
LEMMA AdmitFrontKv ==
  ASSUME QInv, MemInv, KvOK, AdmitFront, pc' # "panicked"
  PROVE  KvOK'
<1>t. QueueType /\ MemType /\ DevSound /\ kept \in Seq(Seqs) /\ allocated \in Seq(Seqs)
  BY DEF QInv, MemInv, QueueType
<1>s. Head(waiting) \in Seqs /\ Head(waiting) \in Elems(waiting)
  BY <1>t, SortedTail DEF QueueType, AdmitFront
<1> PICK s \in Seqs : s = Head(waiting)
  BY <1>s
<1> DEFINE z == init_prefix_cache_blocks(Gpu, s, tlen[s])
           y == alloc_blocks(z, s, tlen[s])
<1>0. /\ pc = "admit" /\ pc' = "admit" /\ ~y.exhausted /\ Gpu' = y
      /\ allocated' = Append(allocated, s)
      /\ UNCHANGED <<kv, tlen, bg, kept, step>>
  BY <1>t DEF AdmitFront, Admit, Gpu, MemType, Devices, locals
<1>1. Hand = allocated /\ Hand' = Append(allocated, s)
  <2>1. kept = <<>>
    BY <1>t, <1>0 DEF MemType
  <2>2. <<>> \o allocated = allocated /\ <<>> \o Append(allocated, s) = Append(allocated, s)
    BY <1>t
  <2> QED BY <1>0, <2>1, <2>2 DEF Hand
<1>2. s \notin Elems(Hand)
  <2>1. PlaceOf(s)
    BY OnePlace
  <2> QED BY <1>s, <1>1, <2>1 DEF PlaceOf, Running
<1>3. Filling(Gpu, Hand, Content, tlen)
  BY DEF KvOK, FillInv
<1>4. Filling(Gpu', Hand', Content, tlen)
  <2>1. Hand \in Seq(Seqs)
    BY HandFacts
  <2>2. AdmittedAs(Gpu, y, s, Hand, Hand', tlen)
    BY <1>0, <1>1, <1>2 DEF AdmittedAs
  <2> HIDE DEF y, z
  <2>3. Filling(y, Hand', Content, tlen)
    BY <1>3, <2>1, <2>2, GpuFacts, AdmitFilling
  <2> QED BY <1>0, <2>3
<1>5. BatchFilled' /\ CopyInv' /\ UNCHANGED <<kv, batch, fetch>>
  BY <1>0, NoBatch DEF KvOK, CopyInv
<1> QED BY <1>0, <1>4, <1>5, LoopKv

\* A finished task owes nothing; its blocks keep what they hold and their labels,
\* or lose the labels.
LEMMA FinishTaskKv ==
  ASSUME QInv, MemInv, KvOK, FinishTask
  PROVE  KvOK'
<1>t. QueueType /\ MemType /\ DevSound /\ LocalsInv /\ kept \in Seq(Seqs) /\ allocated \in Seq(Seqs)
      /\ \E S : bg \in Seq(S)
  BY DEF QInv, MemInv, QueueType, JobInv
<1>s. Head(finished) \in Seqs /\ Head(finished) \in Elems(finished)
  BY <1>t, SortedTail DEF QueueType, FinishTask, LocalsInv
<1> PICK s \in Seqs : s = Head(finished)
  BY <1>s
<1>0. /\ pc = "finish" /\ pc' \in {"idle", "finish"} /\ Gpu' = remove_task(Gpu, s)
      /\ UNCHANGED <<kv, tlen, kept, allocated, step>>
  BY DEF FinishTask, Gpu, queues, locals
<1>1. \A i \in 1..Len(bg') : bg'[i].to \in {"host", "disk"}
  <2>0. \A i \in 1..Len(bg) : bg[i].to \in {"host", "disk"}
    BY DEF KvOK, CopyInv
  <2>1. \/ bg' = bg
        \/ \E m : bg' = Append(bg, [s |-> s, from |-> "host", to |-> "disk", copied |-> FALSE,
                                     map |-> m])
    BY DEF FinishTask
  <2>2. CASE bg' = bg
    BY <2>0, <2>2
  <2>3. CASE bg' # bg
    <3>1. PICK m : bg' = Append(bg, [s |-> s, from |-> "host", to |-> "disk", copied |-> FALSE,
                                      map |-> m])
      BY <2>1, <2>3
    <3> DEFINE job == [s |-> s, from |-> "host", to |-> "disk", copied |-> FALSE, map |-> m]
    <3>2. bg' = Append(bg, job) /\ job.to = "disk"
      BY <3>1
    <3> HIDE DEF job
    <3> QED BY <1>t, <2>0, <3>2
  <2> QED BY <2>2, <2>3
<1>2. s \notin Elems(Hand) /\ Hand' = Hand
  <2>1. PlaceOf(s)
    BY OnePlace
  <2>2. s \notin Running
    BY <1>s, <2>1 DEF PlaceOf
  <2> QED BY <1>0, <2>2, HandFacts DEF Running, Hand
<1>3. Filling(Gpu, Hand, Content, tlen)
  BY DEF KvOK, FillInv
<1>4. Filling(Gpu', Hand, Content, tlen)
  <2> DEFINE g == Gpu.map[s].filled
  <2>1. g \in Nat /\ g <= g /\ 0 <= g
    BY GpuFacts, MapFields, SizeAssumption
  <2>2. \E f \in Nat : f <= g /\ Gpu' = free_dropping(Gpu, s, f)
    BY <1>0, <2>1 DEF remove_task, free, free_and_drop_cache
  <2>3. PICK f \in Nat : f <= g /\ Gpu' = free_dropping(Gpu, s, f)
    BY <2>2
  <2>4. Leaves(Hand, Hand, s)
    BY <1>2, AbsentLeaves
  <2> DEFINE y == free_dropping(Gpu, s, f)
  <2>5. Filling(y, Hand, Content, tlen)
    BY <1>0, <1>3, <2>3, <2>4, GpuFacts, FreeFilling
  <2> QED BY <2>3, <2>5
<1>5. BatchFilled' /\ CopyInv' /\ UNCHANGED <<kv, batch, fetch>>
  BY <1>0, <1>1, NoBatch
<1> QED BY <1>0, <1>2, <1>4, <1>5, LoopKv

\* The pages an entry gets.
LEMMA RangePages ==
  ASSUME NEW n \in Nat, NEW tl, NEW x, Sound(x, n, tl), NEW s \in Seqs,
         NEW ctx \in Nat \ {0}, ctx <= x.map[s].slots,
         NEW g, IdsOf(g, x, s, 0, ctx), NEW e, e.s = s, e.context = ctx, e.ids = g.ids
  PROVE  EntryOK(x, e, s)
<1> DEFINE B == BlockSize
           ids == x.map[s].ids
           L == Len(ids)
           sl == x.map[s].slots
           q == ctx \div B
           C == CeilDiv(ctx, B)
           last == Least(q + (IF TRUE THEN 1 ELSE 0), L)
<1>0. x \in Manager(n) /\ B \in Nat \ {0} /\ ids \in Seq(Blocks(n)) /\ L \in Nat /\ sl \in Nat
  BY MapFields, SizeAssumption DEF Sound
<1>1. L = CeilDiv(sl, B) /\ sl <= L * B
  <2>1. L = CeilDiv(sl, B)
    BY DEF Sound, MapOK
  <2> HIDE DEF sl, L
  <2> QED BY <1>0, <2>1, CeilBounds
<1>2. C \in Nat /\ ctx <= C * B /\ C * B < ctx + B
  BY CeilBounds
<1>3. q \in Nat /\ ctx < q * B + B
  BY DivBounds
<1>4. 0 < C /\ C <= L /\ C <= q + 1
  <2> DEFINE cb == C * B
             lb == L * B
             qb == q * B
  <2>1. cb \in Nat /\ lb \in Nat /\ qb \in Nat
    <3> HIDE DEF C, L, q
    <3> QED BY <1>0, <1>2, <1>3
  <2>2. C = 0 => cb = 0
    <3> HIDE DEF C
    <3> QED BY <1>0
  <2>3. L < C => lb + B <= cb
    <3> HIDE DEF L, C
    <3> QED BY <1>0, <1>2, MulMono
  <2>4. q + 1 < C => qb + B + B <= cb
    <3> HIDE DEF q, C
    <3>1. q + 1 \in Nat /\ (q + 1) * BlockSize = q * BlockSize + BlockSize
      BY <1>3, MulSucc
    <3>2. q + 1 < C => (q + 1) * BlockSize + BlockSize <= C * BlockSize
      BY <1>2, <3>1, MulMono
    <3> QED BY ONLY <3>1, <3>2
  <2>5. ctx <= cb /\ cb < ctx + B /\ ctx < qb + B /\ ctx <= sl /\ sl <= lb
    BY <1>1, <1>2, <1>3
  <2> HIDE DEF cb, lb, qb, C, L, q, sl
  <2> QED BY ONLY <1>0, <1>2, <1>3, <2>1, <2>2, <2>3, <2>4, <2>5, ctx \in Nat \ {0}
<1>5. last \in 1..L /\ C <= last /\ last \in Nat
  <2> HIDE DEF C, L, q
  <2> QED BY ONLY <1>0, <1>2, <1>3, <1>4 DEF Least
<1>6. 0 \div B = 0
  BY <1>0
<1>7. g = IF 0 \div B >= last THEN [ids |-> <<>>, filled |-> 0]
          ELSE [ids |-> SubSeq(ids, (0 \div B) + 1, last),
                filled |-> Least((last - 1) * BlockSize + x.len[ids[last]], x.map[s].filled)]
  BY DEF IdsOf, get_block_ids_range
<1> HIDE DEF last
<1>8. g.ids = SubSeq(ids, 1, last)
  <2>1. ~(0 \div B >= last) /\ (0 \div B) + 1 = 1
    BY <1>5, <1>6
  <2> QED BY <1>7, <2>1
<1>9. Len(g.ids) = last /\ \A k \in 1..last : g.ids[k] = ids[k]
  <2> DEFINE p == ids
  <2>1. p \in Seq(Blocks(n)) /\ last \in 1..Len(p) /\ g.ids = SubSeq(p, 1, last)
    BY <1>0, <1>5, <1>8
  <2> HIDE DEF p
  <2>2. Len(g.ids) = last /\ \A k \in 1..last : g.ids[k] = p[k]
    BY ONLY <2>1
  <2> QED BY <2>2 DEF p
<1>10. last \in 0..L
  BY <1>5
<1> HIDE DEF C, L
<1> QED BY <1>5, <1>9, <1>10 DEF EntryOK, C, L

\* With the tasks before it filled, nobody owes a task anything.
LEMMA SettledAt ==
  ASSUME QInv, MemInv, KvOK, pc # "extend", NEW j \in 1..Len(allocated),
         \A i \in 1..Len(allocated) :
             i < j => Gpu.map[allocated[i]].filled = tlen[allocated[i]]
  PROVE  Settled(Gpu, allocated[j])
<1>t. allocated \in Seq(Seqs) /\ Hand = allocated /\ NoDup(allocated)
  BY HandAllocated, HandFacts DEF QInv, QueueType
<1> SUFFICES ASSUME NEW u \in Seqs, u # allocated[j], NEW b \in Elems(Gpu.map[allocated[j]].ids),
                    Owes(Gpu, u, b)
             PROVE  FALSE
  BY DEF Settled
<1>1. ShareInv(Gpu, allocated) /\ allocated[j] \in Seqs
  BY <1>t DEF KvOK, FillInv, Filling
<1>2. Before(allocated, u, allocated[j])
  BY <1>1 DEF ShareInv
<1>3. PICK i \in 1..Len(allocated), k \in 1..Len(allocated) :
         i < k /\ allocated[i] = u /\ allocated[k] = allocated[j]
  BY <1>2 DEF Before
<1>4. i < j
  BY <1>t, <1>3 DEF NoDup
<1>5. Gpu.map[u].filled = tlen[u]
  BY <1>3, <1>4
<1>6. /\ Gpu.map[u].filled \in Nat /\ Gpu.map[u].slots \in Nat /\ tlen[u] \in Nat
      /\ Gpu.map[u].filled <= Gpu.map[u].slots /\ Gpu.map[u].slots <= tlen[u]
  BY GpuFacts, MapFields, SizeAssumption DEF Sound, MapOK
<1>7. Gpu.map[u].filled # Gpu.map[u].slots
  BY GpuFacts, OwesHolds
<1> QED BY ONLY <1>5, <1>6, <1>7

\* The blocks of a range are a sequence of blocks ...
LEMMA RangeSeq ==
  ASSUME NEW n \in Nat, NEW x \in Manager(n), NEW s \in Seqs, NEW start \in Nat, NEW end \in Nat,
         NEW g, IdsOf(g, x, s, start, end)
  PROVE  g.ids \in Seq(Blocks(n)) /\ Len(g.ids) \in Nat
<1> DEFINE ids == x.map[s].ids
           i == start \div BlockSize
           last == Least(end \div BlockSize + (IF TRUE THEN 1 ELSE 0), Len(ids))
<1>1. ids \in Seq(Blocks(n)) /\ Len(ids) \in Nat /\ i \in Nat /\ end \div BlockSize \in Nat
  BY MapFields, DivBounds
<1>2. last \in Nat /\ last <= Len(ids)
  BY <1>1 DEF Least
<1>3. g = IF i >= last THEN [ids |-> <<>>, filled |-> 0]
          ELSE [ids |-> SubSeq(ids, i + 1, last),
                filled |-> Least((last - 1) * BlockSize + x.len[ids[last]], x.map[s].filled)]
  BY DEF IdsOf, get_block_ids_range
<1> HIDE DEF i, last
<1>4. g.ids = <<>> \/ (g.ids = SubSeq(ids, i + 1, last) /\ i < last)
  BY <1>1, <1>2, <1>3
<1> DEFINE p == ids
<1>5. p \in Seq(Blocks(n)) /\ Len(p) \in Nat /\ last <= Len(p)
      /\ (g.ids = <<>> \/ (g.ids = SubSeq(p, i + 1, last) /\ i < last))
  BY <1>1, <1>2, <1>4
<1> HIDE DEF p
<1>6. CASE g.ids = <<>>
  BY ONLY <1>6
<1>7. CASE g.ids = SubSeq(p, i + 1, last) /\ i < last
  <2>1. i + 1 \in 1..(Len(p) + 1) /\ last \in 0..Len(p) /\ \A k \in (i + 1)..last : p[k] \in Blocks(n)
    BY ONLY <1>1, <1>2, <1>5, <1>7
  <2> QED BY ONLY <1>2, <1>5, <1>7, <2>1
<1> QED BY ONLY <1>5, <1>6, <1>7

\* ... and so is the mapping that dispatch fetches.
LEMMA FetchSeq ==
  ASSUME MemInv, NEW s \in Seqs
  PROVE  \E S : copy_blocks(Host, Gpu, s, TRUE).map \in Seq(S)
<1> DEFINE from == Gpu.map[s].filled
           end == Least(Host.map[s].filled, Gpu.map[s].slots)
           have == get_block_ids_range(Host, s, from, end, TRUE)
           room == get_block_ids_range(Gpu, s, from, end, TRUE)
           f == copy_blocks(Host, Gpu, s, TRUE)
<1>1. Host \in Manager(NumHost) /\ Gpu \in Manager(NumGpu) /\ NumHost \in Nat /\ NumGpu \in Nat
  BY SchedulerAssumption DEF MemInv, DevSound, Sound
<1>2. from \in Nat /\ end \in Nat
  BY <1>1, MapFields, SizeAssumption DEF Least
<1>3. f = IF end <= from \/ have.ids = <<>> \/ room.ids = <<>>
          THEN [map |-> <<>>, filled |-> from]
          ELSE [map |-> zip(have.ids, room.ids), filled |-> have.filled]
  BY DEF copy_blocks
<1>4. IdsOf(have, Host, s, from, end) /\ IdsOf(room, Gpu, s, from, end)
  BY DEF IdsOf
<1> HIDE DEF from, end, have, room, f
<1>5. Len(have.ids) \in Nat /\ Len(room.ids) \in Nat
  BY <1>1, <1>2, <1>4, RangeSeq
<1>6. f.map = <<>> \/ f.map = zip(have.ids, room.ids)
  BY <1>3
<1> DEFINE m == Least(Len(have.ids), Len(room.ids))
           Job(i) == [src |-> have.ids[i], dst |-> room.ids[i]]
<1>7. m \in Nat /\ zip(have.ids, room.ids) = [i \in 1..m |-> Job(i)]
  BY <1>5 DEF zip, Least
<1> HIDE DEF m, Job
<1>8. [i \in 1..m |-> Job(i)] \in Seq({Job(i) : i \in 1..m})
  BY <1>7
<1>9. <<>> \in Seq({Job(i) : i \in 1..m})
  OBVIOUS
<1> QED BY <1>6, <1>7, <1>8, <1>9 DEF f

\* Without host blocks there is nothing to fetch.
LEMMA NoFetch ==
  ASSUME NumHost = 0, MemInv, NEW s \in Seqs
  PROVE  copy_blocks(Host, Gpu, s, TRUE).map = <<>>
<1> DEFINE bm == Host.map[s]
<1>1. Host \in Manager(0) /\ MapOK(Host, s, tlen[s])
  BY DEF MemInv, DevSound, Sound
<1>2. bm.ids \in Seq(Blocks(0)) /\ bm.slots \in Nat /\ bm.filled \in Nat
  BY <1>1, MapFields, SizeAssumption
<1>3. Len(bm.ids) = 0
  <2>1. \A b : b \notin Blocks(0)
    BY DEF Blocks
  <2> QED BY <1>2, <2>1
<1>4. bm.slots = 0
  <2>1. CeilDiv(bm.slots, BlockSize) = 0
    BY <1>1, <1>3 DEF MapOK
  <2> DEFINE sl == bm.slots
  <2>2. sl <= 0 * BlockSize /\ sl \in Nat
    BY <1>2, <2>1, CeilBounds
  <2> HIDE DEF sl
  <2>3. 0 * BlockSize = 0
    BY SizeAssumption
  <2>4. sl = 0
    BY ONLY <2>2, <2>3
  <2> QED BY <2>4 DEF sl
<1>5. bm.filled = 0
  <2>1. bm.filled <= bm.slots
    BY <1>1 DEF MapOK
  <2> QED BY <1>2, <1>4, <2>1
<1>6. Gpu.map[s].filled \in Nat /\ Gpu.map[s].slots \in Nat
  BY GpuFacts, MapFields, SizeAssumption
<1> DEFINE from == Gpu.map[s].filled
           end == Least(Host.map[s].filled, Gpu.map[s].slots)
<1>7. end <= from
  BY <1>5, <1>6 DEF Least
<1> HIDE DEF end, from
<1>8. copy_blocks(Host, Gpu, s, TRUE) = [map |-> <<>>, filled |-> from]
  BY <1>7 DEF copy_blocks, end, from
<1>9. [map |-> <<>>, filled |-> from].map = <<>>
  OBVIOUS
<1> QED BY <1>8, <1>9

\* update_filled_len leaves the labels alone.
LEMMA FilledLookup ==
  ASSUME NEW n \in Nat, NEW x \in Manager(n), NEW s \in Seqs, NEW f,
         NEW y, y = update_filled_len(x, s, f)
  PROVE  \A h \in Hashes : lookup_block_id(y, h) = lookup_block_id(x, h)
<1>1. y.table = x.table /\ y.hash = x.hash
  BY DEF update_filled_len
<1> QED BY <1>1 DEF lookup_block_id

\* The tokens that a dispatched sequence is given.
LEMMA Portion ==
  ASSUME NEW filled0 \in Nat, NEW total \in Nat \ {0}, filled0 <= total, NEW bud \in Nat \ {0},
         NEW done, done = Least(filled0, total - 1), NEW k, k = Least(total - done, bud)
  PROVE  /\ done \in Nat /\ k \in Nat /\ done + k \in Nat \ {0}
         /\ done < done + k /\ done <= filled0 /\ filled0 <= done + k /\ done + k <= total
         /\ done + k = total \/ bud - k = 0
<1>1. done \in Nat /\ done <= total - 1 /\ done <= filled0 /\ (done = filled0 \/ filled0 = total)
      /\ (done # filled0 => done = total - 1)
  BY DEF Least
<1>2. k \in Nat /\ k >= 1 /\ k <= total - done /\ (k = total - done \/ k = bud)
  BY <1>1 DEF Least
<1> QED BY <1>1, <1>2

\* A dispatched task computes what it owes, unless the budget ends first, and
\* nobody owes it anything: the tasks before it are in the batch to their end.
LEMMA DispatchOneKv ==
  ASSUME QInv, MemInv, KvOK, DispatchOne, pc' # "panicked", fetch' = <<>>
  PROVE  KvOK'
<1>t. QueueType /\ BatchInv /\ MemType /\ DevSound /\ allocated \in Seq(Seqs)
  BY DEF QInv, MemInv, QueueType
<1>i. /\ pc = "dispatch" /\ ~DispatchEnds /\ idx \in Nat \ {0} /\ idx \in 1..Len(allocated)
      /\ budget \in Nat \ {0}
  <2>1. pc = "dispatch" /\ ~DispatchEnds
    BY DEF DispatchOne
  <2> QED BY <1>t, <2>1 DEF BatchInv, DispatchEnds, QueueType, MemType
<1> PICK s \in Seqs : s = allocated[idx]
  BY <1>t, <1>i
<1> DEFINE total == tlen[s]
           g == Gpu.map[s].filled
           done == Least(g, total - 1)
           k == Least(total - done, budget)
           ctx == done + k
           rng == get_block_ids_range(Gpu, s, 0, ctx, TRUE)
           e == [s |-> s, filled |-> done, context |-> ctx, chunked |-> total > ctx, ids |-> rng.ids]
           y == update_filled_len(Gpu, s, ctx)
<1>f. copy_blocks(Host, Gpu, s, TRUE).map = <<>>
  <2> DEFINE m == copy_blocks(Host, Gpu, s, TRUE).map
  <2>1. fetch' = fetch \o m /\ fetch = <<>>
    BY DEF DispatchOne, Host, Gpu, KvOK, CopyInv
  <2>2. PICK S : m \in Seq(S)
    BY FetchSeq
  <2> HIDE DEF m
  <2>3. Len(<<>> \o m) = Len(m) /\ Len(<<>> \o m) = 0
    BY <2>1, <2>2
  <2>4. m = <<>>
    BY <2>2, <2>3
  <2> QED BY <2>4 DEF m
<1>0. /\ Gpu' = y /\ fetch' = fetch \o <<>> /\ batch' = Append(batch, e) /\ budget' = budget - k
      /\ idx' = idx + 1 /\ pc' = "dispatch"
      /\ UNCHANGED <<kv, tlen, allocated, bg, kept>>
  <2>1. copy_blocks(dev["host"], dev["gpu"], allocated[idx], TRUE).map = <<>>
    BY <1>f DEF Host, Gpu
  <2>2. "gpu" \in DOMAIN dev /\ "host" \in DOMAIN dev
    BY <1>t DEF MemType, Devices
  <2>3. /\ Gpu' = y /\ fetch' = fetch \o <<>> /\ batch' = Append(batch, e) /\ budget' = budget - k
    BY <2>1, <2>2 DEF DispatchOne, Gpu
  <2>4. idx' = idx + 1 /\ pc' = "dispatch" /\ UNCHANGED <<kv, tlen, allocated, bg, kept>>
    BY <1>i DEF DispatchOne, queues
  <2> QED BY <2>3, <2>4
<1>e. /\ e.s = s /\ e.filled = done /\ e.context = ctx /\ e.ids = rng.ids
      /\ (e.chunked <=> total > ctx)
  OBVIOUS
<1>r. IdsOf(rng, Gpu, s, 0, ctx)
  BY DEF IdsOf
<1>a. Gpu.map[s].live /\ Gpu.map[s].slots = total /\ s \in Elems(allocated)
  <2>1. s \in Elems(allocated)
    BY <1>i DEF Elems
  <2>2. TaskInv(s) /\ s \in Running /\ s \in Ready
    BY <1>i, <2>1 DEF MemInv, Running, Ready
  <2> QED BY <1>i, <2>1, <2>2 DEF TaskInv, RunInv
<1>b. g \in Nat /\ total \in Nat \ {0} /\ g <= total
  <2>1. MapOK(Gpu, s, total)
    BY <1>t DEF DevSound, Sound
  <2>2. g \in 0..MaxLen /\ total \in 1..MaxLen /\ MaxLen \in Nat
    BY <1>t, GpuFacts, MapFields, SizeAssumption DEF MemType
  <2> QED BY <1>a, <2>1, <2>2 DEF MapOK
<1>c. /\ done \in Nat /\ k \in Nat /\ ctx \in Nat \ {0} /\ done < ctx /\ done <= g /\ g <= ctx
      /\ ctx <= total /\ (ctx = total \/ budget - k = 0)
  <2> HIDE DEF g, total
  <2>1. done = Least(g, total - 1) /\ k = Least(total - done, budget)
    OBVIOUS
  <2> HIDE DEF done, k
  <2> QED BY <1>b, <1>i, <2>1, Portion
<1> HIDE DEF e, rng, y, ctx, done, k
<1>y. OnlyFilled(Gpu, y, s, ctx) /\ \A h \in Hashes : lookup_block_id(y, h) = lookup_block_id(Gpu, h)
  <2>1. y = update_filled_len(Gpu, s, ctx)
    BY DEF y
  <2> QED BY <1>a, <2>1, GpuFacts, FilledLenEffect, FilledLookup
<1>p. EntryOK(Gpu, e, s)
  <2>1. ctx <= Gpu.map[s].slots
    BY <1>a, <1>c
  <2> QED BY <1>c, <1>e, <1>r, <2>1, GpuFacts, RangePages
<1>q. /\ Len(batch) = idx - 1 /\ fetch = <<>> /\ \A i \in 1..Len(batch) : EntryInv(i)
      /\ Filling(Gpu, Hand, Content, tlen) /\ ContentType(Content, NumGpu)
  BY <1>i DEF KvOK, BatchFilled, CopyInv, FillInv
<1>h. Hand = allocated /\ Hand' = allocated /\ NoDup(allocated)
  <2>1. Hand = allocated /\ NoDup(allocated)
    BY <1>i, HandAllocated, HandFacts
  <2>2. Hand' = Hand
    BY <1>0 DEF Hand
  <2> QED BY <2>1, <2>2
<1>x. \A i \in 1..Len(batch) : i \in 1..Len(allocated) /\ i # idx /\ allocated[i] # s
  <2>1. \A i \in 1..Len(batch) : i \in 1..Len(allocated) /\ i # idx
    BY <1>i, <1>q
  <2> QED BY <1>h, <1>i, <2>1 DEF NoDup
<1>d. \A i \in 1..Len(batch) : batch[i].context = tlen[allocated[i]]
  BY <1>i, <1>q DEF EntryInv
<1>s. Settled(Gpu, s)
  <2>1. ASSUME NEW i \in 1..Len(allocated), i < idx
        PROVE  Gpu.map[allocated[i]].filled = tlen[allocated[i]]
    <3>1. i \in 1..Len(batch)
      BY <1>i, <1>q, <2>1
    <3> QED BY <1>d, <1>q, <3>1 DEF EntryInv
  <2> QED BY <1>i, <2>1, SettledAt
<1>1. Content' = Computed(Content, e)
  <2>1. PICK S : batch \in Seq(S)
    BY <1>t, <1>i DEF BatchInv
  <2> QED BY <1>0, <2>1, RanAppend DEF Content
<1>2. Filling(y, allocated, Content', tlen) /\ ContentType(Content', NumGpu)
  <2> DEFINE c == Content
             x == Gpu
             tl == tlen
             q == allocated
             d == Content'
  <2>1. /\ NumGpu \in Nat /\ tl \in [Seqs -> 0..MaxLen] /\ Sound(x, NumGpu, tl)
        /\ x.map[s].slots = tl[s] /\ s \in Elems(q) /\ Filling(x, q, c, tl) /\ Settled(x, s)
        /\ ContentType(c, NumGpu) /\ EntryOK(x, e, s) /\ e.filled \in Nat /\ e.context \in Nat
        /\ e.filled < e.context /\ e.filled <= x.map[s].filled /\ x.map[s].filled <= e.context
        /\ e.context <= x.map[s].slots /\ OnlyFilled(x, y, s, e.context)
        /\ \A h \in Hashes : lookup_block_id(y, h) = lookup_block_id(x, h)
        /\ d = Computed(c, e)
    BY <1>1, <1>a, <1>c, <1>e, <1>h, <1>p, <1>q, <1>s, <1>y, GpuFacts
  <2> HIDE DEF c, x, tl, q, d
  <2>2. Filling(y, q, d, tl) /\ ContentType(d, NumGpu)
    BY ONLY <2>1, s \in Seqs, DispatchFilling
  <2> QED BY <2>2 DEF q, d, tl
<1>3. FillInv'
  BY <1>0, <1>2, <1>h DEF FillInv
<1>4. CopyInv'
  <2>1. fetch' = <<>>
    BY <1>0, <1>q
  <2> QED BY <1>0, <2>1 DEF KvOK, CopyInv
<1>5. /\ Len(batch') = idx /\ batch'[idx] = e
      /\ \A i \in 1..Len(batch) : batch'[i] = batch[i]
      /\ \A i \in 1..idx : i = idx \/ i \in 1..Len(batch)
  <2>1. PICK S : batch \in Seq(S)
    BY <1>t, <1>i DEF BatchInv
  <2>2. Len(batch) + 1 = idx
    BY <1>i, <1>q
  <2> QED BY <1>0, <1>i, <1>q, <2>1, <2>2
<1>6. ASSUME NEW i \in 1..Len(batch) PROVE EntryInv(i)'
  <2> DEFINE t == allocated[i]
  <2>1. EntryInv(i) /\ t \in Seqs /\ t # s /\ Gpu'.map[t] = Gpu.map[t]
    BY <1>0, <1>q, <1>t, <1>x, <1>y DEF OnlyFilled
  <2>2. batch'[i] = batch[i] /\ allocated' = allocated /\ tlen' = tlen
    BY <1>0, <1>5
  <2>3. batch[i].context = tlen[t]
    BY <1>d
  <2> QED BY <2>1, <2>2, <2>3 DEF EntryInv, EntryOK
<1>7. ASSUME NEW j, j = idx PROVE EntryInv(j)'
  <2>1. batch'[j] = e /\ allocated'[j] = s /\ tlen' = tlen
    BY <1>0, <1>5, <1>7
  <2>2. Gpu'.map[s].ids = Gpu.map[s].ids /\ Gpu'.map[s].filled = ctx
    BY <1>0, <1>y DEF OnlyFilled
  <2>3. EntryOK(Gpu', e, s) /\ e.context = Gpu'.map[s].filled
    BY <1>e, <1>p, <2>2 DEF EntryOK
  <2>4. e.chunked <=> e.context < tlen[s]
    <3>1. total > ctx <=> ctx < total
      BY <1>b, <1>c
    <3> QED BY <1>e, <3>1
  <2>5. e.context = tlen[s] \/ (budget' = 0 /\ j = idx' - 1)
    BY <1>0, <1>c, <1>e, <1>i, <1>7
  <2> QED BY <2>1, <2>3, <2>4, <2>5 DEF EntryInv
<1>8. BatchFilled'
  <2>1. Len(batch') = idx' - 1 /\ idx' - 1 <= Len(allocated')
    BY <1>0, <1>5, <1>i
  <2>2. ASSUME NEW i \in 1..Len(batch') PROVE EntryInv(i)'
    <3>1. i = idx \/ i \in 1..Len(batch)
      BY <1>5
    <3> QED BY <1>6, <1>7, <3>1
  <2> QED BY <1>0, <2>1, <2>2 DEF BatchFilled
<1> QED BY <1>3, <1>4, <1>8 DEF KvOK

-----------------------------------------------------------------------------
(* The results of a batch *)

\* Nothing is fetched, so the workers execute the batch on what the GPU holds.
LEMMA AfterInfer ==
  ASSUME CopyInv
  PROVE  GpuAfterInfer = Content
<1>1. fetch = <<>> /\ kv["gpu"] = [b \in Blocks(NumGpu) |-> kv["gpu"][b]]
  BY DEF CopyInv
<1>2. \A i \in 1..Len(fetch) : FALSE
  BY <1>1
<1>3. GpuAfterFetch = [b \in DOMAIN kv["gpu"] |-> kv["gpu"][b]]
  BY <1>2 DEF GpuAfterFetch, CopyKV, SelectLastInSeq
<1>4. GpuAfterFetch = kv["gpu"]
  BY <1>1, <1>3
<1> QED BY <1>4 DEF GpuAfterInfer, Content, Ran

\* When the batch is executed, only its last entry is a chunk: nobody owes a
\* block to the task of an entry.
LEMMA EntrySettled ==
  ASSUME QInv, MemInv, KvOK, pc = "infer", NEW i \in 1..Len(batch)
  PROVE  i \in 1..Len(allocated) /\ EntryInv(i) /\ Settled(Gpu, allocated[i])
<1>1. /\ Len(batch) = idx - 1 /\ idx - 1 <= Len(allocated) /\ idx \in Nat /\ Len(allocated) \in Nat
      /\ \A j \in 1..Len(batch) : EntryInv(j)
  BY DEF KvOK, BatchFilled, QInv, BatchInv, QueueType
<1>2. i \in 1..Len(allocated) /\ EntryInv(i)
  BY <1>1
<1>3. ASSUME NEW j \in 1..Len(allocated), j < i
      PROVE  Gpu.map[allocated[j]].filled = tlen[allocated[j]]
  <2>1. j \in 1..Len(batch) /\ j # idx - 1
    BY <1>1, <1>3
  <2> QED BY <1>1, <2>1 DEF EntryInv
<1> QED BY <1>2, <1>3, SettledAt

\* Entry i does not produce a token unless its task is computed to its end.
LEMMA ProducingFilled ==
  ASSUME QInv, MemInv, KvOK, pc = "infer", NEW t \in Producing
  PROVE  t \in Seqs /\ Gpu.map[t].filled = Gpu.map[t].slots /\ Settled(Gpu, t)
<1>1. PICK i \in 1..Len(batch) : batch[i].s = t /\ ~batch[i].chunked
  BY DEF Producing
<1>2. i \in 1..Len(allocated) /\ EntryInv(i) /\ Settled(Gpu, allocated[i])
  BY EntrySettled
<1>3. t = allocated[i] /\ t \in Seqs
  BY <1>1, <1>2 DEF EntryInv, EntryOK, QInv, QueueType
<1>4. batch[i].context = Gpu.map[t].filled /\ ~(batch[i].context < tlen[t])
  BY <1>1, <1>2, <1>3 DEF EntryInv
<1>5. /\ Gpu.map[t].filled \in Nat /\ Gpu.map[t].slots \in Nat /\ tlen[t] \in Nat
      /\ Gpu.map[t].filled <= Gpu.map[t].slots /\ Gpu.map[t].slots <= tlen[t]
  BY <1>3, GpuFacts, MapFields, SizeAssumption DEF Sound, MapOK
<1>6. Gpu.map[t].filled = Gpu.map[t].slots
  BY ONLY <1>4, <1>5
<1> QED BY <1>2, <1>3, <1>6

\* The results of a batch: what it computed is there, and the tasks that are
\* not finished run on in their order.
LEMMA InferDoneKv ==
  ASSUME QInv, MemInv, KvOK, NEW eos \in SUBSET Producing, InferDone(eos)
  PROVE  KvOK'
<1> DEFINE stopped == {s \in Producing : s \in eos \/ reached_max_len(s)}
<1>1. /\ pc = "infer" /\ Gpu' = Gpu /\ bg' = bg /\ kept' = kept /\ batch' = <<>> /\ fetch' = <<>>
      /\ pc' \in {"idle", "finish"} /\ allocated' = Kept(allocated, Seqs \ stopped)
      /\ tlen' = [s \in Seqs |-> IF s \in Producing THEN tlen[s] + 1 ELSE tlen[s]]
      /\ kv' = [kv EXCEPT !["gpu"] = GpuAfterInfer, !["host"] = CopyKV(GpuAfterInfer, @, write)]
  BY DEF InferDone, locals, Gpu
<1>2. /\ DOMAIN kv = Devices /\ CopyInv /\ Filling(Gpu, Hand, Content, tlen)
      /\ ContentType(Content, NumGpu) /\ allocated \in Seq(Seqs)
  BY DEF KvOK, CopyInv, FillInv, QInv, QueueType
<1>3. DOMAIN kv' = Devices /\ kv'["gpu"] = Content
  BY <1>1, <1>2, AfterInfer DEF Devices
<1>4. Content' = Content
  BY <1>1, <1>3, RanEmpty DEF Content
<1>5. Hand = allocated /\ Hand' = allocated'
  <2>1. kept = <<>> /\ Hand = allocated
    BY <1>1, HandAllocated DEF MemInv, MemType
  <2>2. allocated' \in Seq(Seqs)
    BY <1>1, <1>2, KeptLemma
  <2> QED BY <1>1, <2>1, <2>2 DEF Hand
<1>6. Regroups(Gpu, allocated, allocated', tlen, tlen', Producing)
  <2> DEFINE T == Seqs \ stopped
  <2>1. Elems(allocated') = Elems(allocated) \cap T
    BY <1>1, <1>2, KeptLemma
  <2>2. \A t \in Seqs : t \notin Producing => t \in T
    OBVIOUS
  <2>3. \A t \in Seqs : t \in Producing => Gpu.map[t].filled = Gpu.map[t].slots /\ Settled(Gpu, t)
    BY <1>1, ProducingFilled
  <2>4. \A t \in Seqs : t \notin Producing =>
            tlen'[t] = tlen[t] /\ (t \in Elems(allocated) => t \in Elems(allocated'))
    BY <1>1, <2>1, <2>2
  <2>5. ASSUME NEW u \in Seqs, NEW t \in Seqs, u \notin Producing, t \notin Producing,
               Before(allocated, u, t)
        PROVE  Before(allocated', u, t)
    <3>1. u \in T /\ t \in T /\ allocated' = Kept(allocated, T)
      BY <1>1, <2>2, <2>5
    <3> HIDE DEF T
    <3> QED BY <1>2, <2>5, <3>1, KeptBefore
  <2> QED BY <2>3, <2>4, <2>5 DEF Regroups
<1>7. FillInv'
  <2>1. Filling(Gpu, allocated', Content, tlen')
    BY <1>2, <1>5, <1>6, GpuFacts, Regroup
  <2> QED BY <1>1, <1>2, <1>4, <1>5, <2>1 DEF FillInv
<1>8. BatchFilled' /\ CopyInv'
  <2>1. kv'["gpu"] = [b \in Blocks(NumGpu) |-> kv'["gpu"][b]]
    BY <1>2, <1>3 DEF ContentType
  <2>2. pc' # "reclaim" /\ pc' \notin {"dispatch", "infer"}
    BY <1>1
  <2> QED BY <1>1, <1>2, <1>3, <2>1, <2>2 DEF BatchFilled, CopyInv
<1> QED BY <1>7, <1>8 DEF KvOK

\* The configuration never changes, and a panic of the engine loop is final.
LEMMA ModeStep ==
  ASSUME [Next]_vars
  PROVE  mode' = mode /\ (pc = "panicked" => pc' = "panicked")
<1>1. CASE Schedule
  BY <1>1 DEF Schedule, StartIter, ExtendFront, PreemptBack, YieldFront, ExtendDone,
     AdmitFront, AdmitDone, ReorderAdmit, ReorderDefer, ReorderReclaim, ReclaimOne, ReclaimFailed,
     ReorderDone, DispatchOne, DispatchDone, Admit, StartDispatch
<1>2. CASE (\E eos \in SUBSET Producing : InferDone(eos)) \/ FinishTask
  BY <1>2 DEF InferDone, FinishTask
<1>3. CASE Background \/ Handlers
  BY <1>3 DEF Background, BgCopy, BgStaged, BgSaved, Handlers, AddRequest, AddRequestStaged,
     ReserveRequest, PendReserved, TriggerRequest, ClearCache
<1>4. CASE UNCHANGED vars
  BY <1>4 DEF vars
<1> QED
  BY <1>1, <1>2, <1>3, <1>4 DEF Next, EngineLoop

\* Every step keeps what is counted as filled filled, or owed by a task that
\* runs before.
LEMMA KvStep ==
  ASSUME QInv, MemInv, KvInv, fetch' = <<>>, [Next]_vars
  PROVE  KvInv'
<1> SUFFICES ASSUME ~EnableReorder', pc' # "panicked" PROVE KvOK'
  BY DEF KvInv
<1>0. ~EnableReorder /\ pc # "panicked" /\ KvOK
  BY ModeStep DEF KvInv, EnableReorder
<1>1. CASE Schedule
  <2>1. ~ReorderAdmit /\ ~ReorderDefer /\ ~ReorderReclaim /\ ~ReorderDone
    BY <1>0 DEF ReorderAdmit, ReorderDefer, ReorderReclaim, ReorderDone
  <2>2. ~ReclaimOne /\ ~ReclaimFailed
    BY <1>0 DEF ReclaimOne, ReclaimFailed, KvOK, CopyInv
  <2> QED
    BY <1>0, <1>1, <2>1, <2>2, ScheduleKv, ExtendFrontKv, PreemptBackKv, YieldFrontKv, AdmitFrontKv,
       DispatchOneKv DEF Schedule
<1>2. CASE \E eos \in SUBSET Producing : InferDone(eos)
  BY <1>0, <1>2, InferDoneKv
<1>3. CASE FinishTask
  BY <1>0, <1>3, FinishTaskKv
<1>4. CASE Background
  <2>1. \E s : s \in Seqs
    <3>1. bg # <<>> /\ \E S : bg \in Seq(S)
      BY <1>4 DEF Background, BgCopy, BgStaged, BgSaved, QInv, JobInv
    <3>2. 1 \in 1..Len(bg)
      BY <3>1
    <3> QED BY <3>2 DEF MemInv, MemType
  <2> QED BY <1>0, <1>4, <2>1, OutsideKv DEF Background
<1>5. CASE \E s \in Seqs :
              \/ AddRequest(s) \/ AddRequestStaged(s) \/ ReserveRequest(s) \/ PendReserved(s)
              \/ \E n \in 0..NumFull : TriggerRequest(s, n)
  BY <1>0, <1>5, OutsideKv
<1>6. CASE ClearCache
  BY <1>0, <1>6, ClearCacheKv
<1>7. CASE UNCHANGED vars
  <2>1. Gpu' = Gpu /\ DOMAIN dev = Devices
    BY <1>7 DEF vars, Gpu, MemInv, MemType
  <2>2. bg' = bg /\ kv' = kv /\ UNCHANGED <<tlen, allocated, pc, locals, step>>
    BY <1>7 DEF vars, queues
  <2> QED BY <1>0, <2>1, <2>2, HandlerKv DEF KvOK, CopyInv
<1> QED
  BY <1>1, <1>2, <1>3, <1>4, <1>5, <1>6, <1>7 DEF Next, EngineLoop, Handlers

\* What a task counts as filled is there when it is executed.
LEMMA KvServes ==
  ASSUME QInv, MemInv, KvInv
  PROVE  KVSound
<1> SUFFICES ASSUME pc = "infer", ~EnableReorder, NEW i \in 1..Len(batch)
             PROVE  LET e == batch[i]
                        n == CeilDiv(e.context, BlockSize)
                    IN  /\ Len(e.ids) >= n
                        /\ \A k \in 1..n : Stored(e, k) \/ GpuAfterInfer[e.ids[k]] = Misplaced
  BY DEF KVSound
<1> DEFINE e == batch[i]
           t == allocated[i]
           n == CeilDiv(e.context, BlockSize)
<1>1. KvOK
  BY DEF KvInv
<1>2. i \in 1..Len(allocated) /\ EntryInv(i) /\ Settled(Gpu, t)
  BY <1>1, EntrySettled
<1>3. t \in Seqs /\ e.s = t /\ Len(e.ids) >= n /\ e.context = Gpu.map[t].filled
      /\ Len(e.ids) \in 0..Len(Gpu.map[t].ids) /\ \A k \in 1..Len(e.ids) : e.ids[k] = Gpu.map[t].ids[k]
  BY <1>2 DEF EntryInv, EntryOK, QInv, QueueType
<1>4. Gpu.map[t].ids \in Seq(Blocks(NumGpu)) /\ e.context \in Nat /\ BlockSize \in Nat \ {0}
  BY <1>3, GpuFacts, MapFields, SizeAssumption
<1>5. n \in Nat /\ e.context <= n * BlockSize /\ n * BlockSize < e.context + BlockSize
  BY <1>4, CeilBounds
<1>6. GpuAfterInfer = Content /\ OwnInv(Gpu, Content)
  BY <1>1, AfterInfer DEF KvOK, FillInv, Filling
<1>7. ASSUME NEW k \in 1..n PROVE Stored(e, k) \/ GpuAfterInfer[e.ids[k]] = Misplaced
  <2>1. k \in 1..Len(Gpu.map[t].ids) /\ e.ids[k] = Gpu.map[t].ids[k] /\ k \in Nat
    <3> DEFINE E == Len(e.ids)
               L == Len(Gpu.map[t].ids)
    <3> HIDE DEF n
    <3>0. L \in Nat
      BY <1>4
    <3> HIDE DEF E, L
    <3>1. E \in 0..L /\ L \in Nat /\ n \in Nat /\ E >= n /\ k \in 1..n
      BY ONLY <1>3, <1>5, <3>0, k \in 1..n DEF E, L
    <3>2. k \in 1..E /\ k \in 1..L /\ k \in Nat
      BY ONLY <3>1
    <3> QED BY ONLY <1>3, <3>2 DEF E, L
  <2>2. (k - 1) * BlockSize < e.context
    <3> DEFINE a == (k - 1) * BlockSize
               b == n * BlockSize
               ctx == e.context
    <3>1. k - 1 \in Nat /\ k - 1 < n
      <4> HIDE DEF n
      <4> QED BY <1>5
    <3>2. a \in Nat /\ b \in Nat
      <4> HIDE DEF n
      <4> QED BY <1>4, <1>5, <3>1
    <3>3. a + BlockSize <= b
      <4> HIDE DEF n
      <4> QED BY <1>5, <3>1, MulMono
    <3>4. b < ctx + BlockSize /\ ctx \in Nat
      BY <1>4, <1>5
    <3> HIDE DEF a, b, ctx
    <3>5. a < ctx
      BY ONLY <3>2, <3>3, <3>4, <1>4
    <3> QED BY <3>5 DEF a, ctx
  <2>3. OwnOK(Gpu, Content, t, k)
    BY <1>3, <1>6, <2>1 DEF OwnInv
  <2>4. Gpu.map[t].ids[k] \in Elems(Gpu.map[t].ids)
    BY <2>1 DEF Elems
  <2>5. ~\E u \in Seqs : u # t /\ Owes(Gpu, u, Gpu.map[t].ids[k])
    BY <1>2, <2>4 DEF Settled
  <2>6. Has(Content, e.ids[k], BlockHash[t][k], Least(BlockSize, e.context - (k - 1) * BlockSize))
    BY <1>3, <2>1, <2>2, <2>3, <2>5 DEF OwnOK
  <2> QED BY <1>3, <1>6, <2>6 DEF Has, Stored
<1> QED BY <1>3, <1>7

\* Without host blocks nothing is ever fetched.
LEMMA FetchStep ==
  ASSUME NumHost = 0, QInv, MemInv, fetch = <<>>, [Next]_vars
  PROVE  fetch' = <<>>
<1>1. CASE Schedule /\ ~DispatchOne
  BY <1>1 DEF Schedule, StartIter, ExtendFront, PreemptBack, YieldFront, ExtendDone,
     AdmitFront, AdmitDone, ReorderAdmit, ReorderDefer, ReorderReclaim, ReclaimOne, ReclaimFailed,
     ReorderDone, DispatchDone, StartDispatch, step
<1>2. CASE DispatchOne
  <2>0. pc = "dispatch" /\ ~DispatchEnds
    BY <1>2 DEF DispatchOne
  <2>1. idx \in 1..Len(allocated) /\ allocated \in Seq(Seqs)
    BY <2>0 DEF DispatchEnds, QInv, BatchInv, QueueType
  <2>2. PICK s \in Seqs : s = allocated[idx]
    BY <2>1
  <2>3. copy_blocks(Host, Gpu, s, TRUE).map = <<>>
    BY NoFetch
  <2>4. fetch' = <<>> \o <<>>
    BY <1>2, <2>2, <2>3 DEF DispatchOne, Host, Gpu
  <2> QED BY <2>4
<1>3. CASE (\E eos \in SUBSET Producing : InferDone(eos)) \/ FinishTask
  BY <1>3 DEF InferDone, FinishTask, step
<1>4. CASE Background \/ Handlers
  BY <1>4 DEF Background, BgCopy, BgStaged, BgSaved, Handlers, AddRequest, AddRequestStaged,
     ReserveRequest, PendReserved, TriggerRequest, ClearCache, step
<1>5. CASE UNCHANGED vars
  BY <1>5 DEF vars, step
<1> QED
  BY <1>1, <1>2, <1>3, <1>4, <1>5 DEF Next, EngineLoop

\* As long as no KV comes from the host, every input of a batch finds the KV of
\* all its context tokens in the GPU blocks it is given (misplaced chunks
\* apart), whatever was cached, shared, chunked, preempted or written through
\* before, in whatever order the requests came in.
THEOREM KvIsSound == Spec /\ [](fetch = <<>>) => []KVSound
<1>1. Init => KvInv
  BY KvInit
<1>2. QInv /\ MemInv /\ KvInv /\ (fetch = <<>>)' /\ [Next]_vars => KvInv'
  BY KvStep
<1>3. QInv /\ MemInv /\ KvInv => KVSound
  BY KvServes
<1> QED
  BY <1>1, <1>2, <1>3, MemoryInvariant, PTL DEF Spec

\* Without a host cache that is all of the behaviours.
THEOREM KvIsSoundOnGpu ==
  ASSUME NumHost = 0
  PROVE  Spec => []KVSound
<1>1. Init => fetch = <<>>
  BY DEF Init
<1>2. QInv /\ MemInv /\ fetch = <<>> /\ [Next]_vars => (fetch = <<>>)'
  BY FetchStep
<1> QED
  BY <1>1, <1>2, KvIsSound, MemoryInvariant, PTL DEF Spec

-----------------------------------------------------------------------------
(***************************************************************************)
(* TypeOK.  The queues and the managers have their types by QInv and       *)
(* MemInv.  For the copies and the contents one fact more is needed: the   *)
(* batch keeps contents contents, whatever it is executed on (fetch is not *)
(* complete before the batch is).                                          *)
(***************************************************************************)
Device(n) == [Blocks(n) -> Contents]
Pairs(n, m) == [src : Blocks(n), dst : Blocks(m)]

KvTyped == DOMAIN kv = Devices /\ kv["gpu"] \in Device(NumGpu) /\ kv["host"] \in Device(NumHost)
             /\ kv["disk"] \in Device(NumDisk)
JobTyped == bg \in Seq(Jobs("disk", "host") \union Jobs("host", "disk"))
Executes(q) == \A c \in Device(NumGpu) : Ran(c, q) \in Device(NumGpu)
BatchTyped ==
    /\ idx \in Nat \ {0} /\ batch \in Seq(Inputs) /\ Executes(batch)
    /\ fetch \in Seq(Pairs(NumHost, NumGpu)) /\ write \in Seq(Pairs(NumGpu, NumHost))
TypeInv == KvTyped /\ olen \in [Seqs -> Nat] /\ JobTyped /\ BatchTyped

\* The types of Scheduler in these terms.
LEMMA TypeNames ==
  /\ \A n : Blocks(n) = 0..(n - 1)
  /\ BlockIds("gpu") = Blocks(NumGpu) /\ BlockIds("host") = Blocks(NumHost)
  /\ BlockIds("disk") = Blocks(NumDisk)
  /\ Mappings("host", "gpu") = Seq(Pairs(NumHost, NumGpu))
  /\ Mappings("gpu", "host") = Seq(Pairs(NumGpu, NumHost))
  /\ Mappings("host", "disk") = Seq(Pairs(NumHost, NumDisk))
  /\ Mappings("disk", "host") = Seq(Pairs(NumDisk, NumHost))
BY DEF Blocks, BlockIds, NumOf, Mappings, Pairs

\* A job is one of the two kinds.
LEMMA JobKinds ==
  ASSUME NEW j \in Jobs("disk", "host") \union Jobs("host", "disk")
  PROVE  /\ j.s \in Seqs
         /\ \/ j.from = "disk" /\ j.to = "host" /\ j.map \in Seq(Pairs(NumDisk, NumHost))
            \/ j.from = "host" /\ j.to = "disk" /\ j.map \in Seq(Pairs(NumHost, NumDisk))
BY TypeNames DEF Jobs

\* The blocks of a range are blocks of the device, no more than the sequence has.
LEMMA RangeIds ==
  ASSUME NEW n, NEW x, NEW s, x.map[s].ids \in Seq(Blocks(n)), NEW start \in Nat, NEW end \in Nat,
         NEW partial \in BOOLEAN, NEW g, g = get_block_ids_range(x, s, start, end, partial)
  PROVE  g.ids \in Seq(Blocks(n)) /\ Len(g.ids) <= Len(x.map[s].ids)
<1> DEFINE ids == x.map[s].ids
           i == start \div BlockSize
           q == end \div BlockSize
           last == Least(q + (IF partial THEN 1 ELSE 0), Len(ids))
<1>1. ids \in Seq(Blocks(n)) /\ Len(ids) \in Nat /\ i \in Nat /\ q \in Nat
  <2>1. ids \in Seq(Blocks(n)) /\ Len(ids) \in Nat
    OBVIOUS
  <2>2. i \in Nat /\ q \in Nat
    BY DivBounds
  <2> QED BY <2>1, <2>2
<1>2. g = IF i >= last THEN [ids |-> <<>>, filled |-> 0]
          ELSE [ids |-> SubSeq(ids, i + 1, last),
                filled |-> Least((last - 1) * BlockSize + x.len[ids[last]], x.map[s].filled)]
  BY DEF get_block_ids_range
<1>3. last \in Nat /\ last <= Len(ids)
  <2> HIDE DEF q, ids
  <2> QED BY <1>1 DEF Least
<1> DEFINE p == ids
<1>4. p \in Seq(Blocks(n)) /\ last <= Len(p) /\ p = x.map[s].ids
      /\ (g.ids = <<>> \/ (g.ids = SubSeq(p, i + 1, last) /\ i < last))
  <2>1. g.ids = <<>> \/ (g.ids = SubSeq(ids, i + 1, last) /\ i < last)
    <3> DEFINE f == Least((last - 1) * BlockSize + x.len[ids[last]], x.map[s].filled)
               sub == SubSeq(ids, i + 1, last)
    <3>1. g = IF i >= last THEN [ids |-> <<>>, filled |-> 0] ELSE [ids |-> sub, filled |-> f]
      BY ONLY <1>2
    <3> HIDE DEF f, sub, i, last
    <3>2. CASE i >= last
      BY ONLY <3>1, <3>2
    <3>3. CASE ~(i >= last)
      BY ONLY <1>1, <1>3, <3>1, <3>3 DEF sub
    <3> QED BY <3>2, <3>3
  <2> HIDE DEF i, last
  <2> QED BY <1>1, <1>3, <2>1
<1> HIDE DEF i, last, p
<1>5. CASE g.ids = <<>>
  BY ONLY <1>4, <1>5
<1>6. CASE g.ids = SubSeq(p, i + 1, last) /\ i < last
  <2>1. i + 1 \in 1..(Len(p) + 1) /\ last \in 0..Len(p)
    BY ONLY <1>1, <1>3, <1>4, <1>6
  <2>2. SubSeq(p, i + 1, last) \in Seq(Blocks(n)) /\ Len(SubSeq(p, i + 1, last)) = last - i
    BY ONLY <1>1, <1>3, <1>4, <1>6, <2>1
  <2> QED BY ONLY <1>1, <1>3, <1>4, <1>6, <2>2
<1> QED BY <1>4, <1>5, <1>6

\* A mapping pairs blocks of the one device with blocks of the other.
LEMMA ZipPairs ==
  ASSUME NEW n, NEW m, NEW p \in Seq(Blocks(n)), NEW q \in Seq(Blocks(m))
  PROVE  zip(p, q) \in Seq(Pairs(n, m))
<1> DEFINE l == Least(Len(p), Len(q))
<1>1. l \in Nat /\ l <= Len(p) /\ l <= Len(q)
  BY DEF Least
<1>2. zip(p, q) = [i \in 1..l |-> [src |-> p[i], dst |-> q[i]]]
  BY DEF zip
<1> HIDE DEF l
<1>3. [i \in 1..l |-> [src |-> p[i], dst |-> q[i]]] \in [1..l -> Pairs(n, m)]
  BY <1>1 DEF Pairs
<1> QED BY <1>1, <1>2, <1>3, FunctionIsSeq

\* The mapping of copy_blocks.
Spread(x, n, s) ==
    x.map[s].ids \in Seq(Blocks(n)) /\ x.map[s].slots \in Nat /\ x.map[s].filled \in Nat
LEMMA CopyPairs ==
  ASSUME NEW n, NEW m, NEW x, NEW y, NEW s, Spread(x, n, s), Spread(y, m, s), NEW partial \in BOOLEAN,
         NEW f, f = copy_blocks(x, y, s, partial)
  PROVE  f.map \in Seq(Pairs(n, m))
<1> DEFINE from == y.map[s].filled
           end == Least(x.map[s].filled, y.map[s].slots)
           have == get_block_ids_range(x, s, from, end, partial)
           room == get_block_ids_range(y, s, from, end, partial)
<1>1. f = IF end <= from \/ have.ids = <<>> \/ room.ids = <<>>
          THEN [map |-> <<>>, filled |-> from]
          ELSE [map |-> zip(have.ids, room.ids), filled |-> have.filled]
  BY DEF copy_blocks
<1>2. from \in Nat /\ end \in Nat
  BY DEF Spread, Least
<1> HIDE DEF from, end
<1>3. have.ids \in Seq(Blocks(n)) /\ room.ids \in Seq(Blocks(m))
  BY <1>2, RangeIds DEF Spread
<1> HIDE DEF have, room
<1>4. zip(have.ids, room.ids) \in Seq(Pairs(n, m)) /\ <<>> \in Seq(Pairs(n, m))
  BY <1>3, ZipPairs
<1> QED BY <1>1, <1>4

\* A copy leaves contents in the blocks.
LEMMA CopyTyped ==
  ASSUME NEW n, NEW m, NEW from \in Device(n), NEW to \in Device(m), NEW map \in Seq(Pairs(n, m))
  PROVE  CopyKV(from, to, map) \in Device(m)
<1> DEFINE I(b) == {i \in 1..Len(map) : map[i].dst = b}
           at(b) == IF I(b) # {} THEN Max(I(b)) ELSE 0
<1>1. CopyKV(from, to, map) = [b \in Blocks(m) |-> IF at(b) = 0 THEN to[b] ELSE from[map[at(b)].src]]
  BY DEF CopyKV, SelectLastInSeq, Device
<1>2. ASSUME NEW b PROVE at(b) = 0 \/ at(b) \in 1..Len(map)
  <2>1. I(b) \in SUBSET (1..Len(map)) /\ Len(map) \in Nat
    OBVIOUS
  <2> HIDE DEF I
  <2>2. I(b) # {} => Max(I(b)) \in 1..Len(map)
    BY <2>1, GreatestNat DEF Max
  <2> QED BY <2>2
<1> HIDE DEF at
<1>3. \A i \in 1..Len(map) : map[i].src \in Blocks(n)
  <2>1. \A i \in 1..Len(map) : map[i] \in Pairs(n, m)
    OBVIOUS
  <2> QED BY <2>1 DEF Pairs
<1> QED BY <1>1, <1>2, <1>3 DEF Device

\* So does the execution of an entry.
LEMMA ComputedTyped ==
  ASSUME NEW n, NEW c \in Device(n), NEW e \in Inputs, NEW d, d = Computed(c, e)
  PROVE  d \in Device(n)
<1>0. /\ BlockSize \in Nat \ {0} /\ MaxLen \in Nat /\ Misplaced \in Contents /\ Garbage \in Contents
      /\ DOMAIN c = Blocks(n)
  BY SizeAssumption DEF Misplaced, Garbage, Contents, Device
<1>1. /\ e.s \in Seqs /\ e.filled \in Nat /\ e.context \in Nat /\ e.ids \in Seq(Blocks(NumGpu))
      /\ Len(e.ids) \in Nat /\ Len(e.ids) <= NumFull
  BY <1>0, TypeNames DEF Inputs
<1>2. Shift(e) \in Int
  BY <1>0, <1>1 DEF Shift
<1>3. DOMAIN d = Blocks(n) /\ d = [b \in Blocks(n) |-> d[b]]
  BY <1>0, ComputedElsewhere
<1>4. ASSUME NEW b \in Blocks(n) PROVE d[b] \in Contents
  <2>0. b \in DOMAIN c /\ c[b] \in Contents
    BY <1>0 DEF Device
  <2>1. CASE b \notin Elems(e.ids)
    BY <2>0, <2>1, ComputedElsewhere
  <2>2. CASE b \in Elems(e.ids)
    <3> DEFINE k == IndexIn(e.ids, b)
    <3>1. k \in 1..Len(e.ids)
      BY <2>2 DEF Elems, IndexIn
    <3>2. d[b] = PageAfter(c, e, k, b)
      BY <2>0, <2>2, Zenon DEF Computed, PageAfter
    <3> HIDE DEF k
    <3>3. k \in 1..NumFull /\ k \in Nat
      BY <1>1, <3>1, <1>0, DivBounds DEF NumFull
    <3> DEFINE j == (k - 1) * BlockSize
               upto == Least(BlockSize, e.context + Shift(e) - j)
               h == BlockHash[e.s][k]
               known == IF c[b].key = h THEN c[b].n ELSE 0
               len == IF known > upto THEN known ELSE upto
    <3>4. h \in Hashes
      BY <1>1, <3>3, HashAssumption
    <3>5. j \in Int /\ c[b].n \in 0..BlockSize
      BY <1>0, <2>0, <3>3 DEF Contents
    <3> HIDE DEF j, h
    <3>6. upto \in Int /\ upto <= BlockSize /\ known \in 0..BlockSize
      BY <1>0, <1>1, <1>2, <3>5 DEF Least
    <3>7. d[b] \in {c[b], Misplaced, Garbage} \/ (d[b] = [key |-> h, n |-> len] /\ upto > 0)
      BY <3>2 DEF PageAfter, h, j
    <3> HIDE DEF upto, known
    <3>8. upto > 0 => len \in 0..BlockSize
      BY <1>0, <3>6
    <3> HIDE DEF len
    <3>9. upto > 0 => [key |-> h, n |-> len] \in Contents
      BY <3>4, <3>8 DEF Contents
    <3> QED BY <1>0, <2>0, <3>7, <3>9
  <2> QED BY <2>1, <2>2
<1> QED BY <1>3, <1>4 DEF Device

\* At the start every block holds garbage and there is nothing to copy.
LEMMA TypeInit == Init => TypeInv
<1> SUFFICES ASSUME Init PROVE TypeInv
  OBVIOUS
<1>1. Garbage \in Contents
  BY SizeAssumption DEF Garbage, Contents
<1>2. /\ DOMAIN kv = Devices
      /\ \A d \in Devices : kv[d] = [b \in 0..(NumOf[d] - 1) |-> Garbage]
  BY DEF Init
<1>3. KvTyped
  BY <1>1, <1>2 DEF KvTyped, Device, Blocks, Devices, NumOf
<1>4. olen \in [Seqs -> Nat] /\ bg = <<>> /\ idx = 1 /\ batch = <<>> /\ fetch = <<>> /\ write = <<>>
  BY DEF Init
<1>5. Executes(<<>>)
  BY RanEmpty DEF Executes
<1>6. JobTyped /\ BatchTyped
  BY <1>4, <1>5 DEF JobTyped, BatchTyped
<1> QED BY <1>3, <1>4, <1>6 DEF TypeInv

\* Most steps leave all of this alone, or start a new batch.
LEMMA TypeFrame ==
  ASSUME TypeInv, UNCHANGED <<kv, olen, bg>>, UNCHANGED <<idx, step>> \/ StartDispatch
  PROVE  TypeInv'
<1>1. KvTyped' /\ olen' \in [Seqs -> Nat] /\ JobTyped'
  BY DEF TypeInv, KvTyped, JobTyped
<1>2. CASE UNCHANGED <<idx, step>>
  BY <1>1, <1>2 DEF TypeInv, BatchTyped, step
<1>3. CASE StartDispatch
  <2>1. Executes(<<>>)
    BY RanEmpty DEF Executes
  <2> QED BY <1>1, <1>3, <2>1 DEF TypeInv, BatchTyped, StartDispatch
<1> QED BY <1>2, <1>3

LEMMA QuietTypes ==
  ASSUME TypeInv,
         \/ Schedule /\ ~DispatchOne
         \/ \E s \in Seqs : AddRequest(s) \/ ReserveRequest(s) \/ PendReserved(s)
         \/ ClearCache
         \/ UNCHANGED vars
  PROVE  TypeInv'
<1>1. CASE Schedule /\ ~DispatchOne
  <2>1. UNCHANGED <<kv, olen, bg>> /\ (UNCHANGED <<idx, step>> \/ StartDispatch)
    BY <1>1 DEF Schedule, StartIter, ExtendFront, PreemptBack, YieldFront, ExtendDone, AdmitFront,
       AdmitDone, ReorderAdmit, ReorderDefer, ReorderReclaim, ReclaimOne, ReclaimFailed, ReorderDone,
       DispatchDone, locals
  <2> QED BY <2>1, TypeFrame
<1>2. CASE \E s \in Seqs : AddRequest(s) \/ ReserveRequest(s) \/ PendReserved(s)
  <2>1. UNCHANGED <<kv, olen, bg>> /\ UNCHANGED <<idx, step>>
    BY <1>2 DEF AddRequest, ReserveRequest, PendReserved, locals
  <2> QED BY <2>1, TypeFrame
<1>3. CASE ClearCache \/ UNCHANGED vars
  <2>1. UNCHANGED <<kv, olen, bg>> /\ UNCHANGED <<idx, step>>
    BY <1>3 DEF ClearCache, vars, locals
  <2> QED BY <2>1, TypeFrame
<1> QED BY <1>1, <1>2, <1>3

\* The sources and the reserved blocks of a job are blocks of its devices.
LEMMA JobPairs ==
  ASSUME NEW n \in Nat, NEW m \in Nat, NEW x \in Manager(n), NEW y \in Manager(m), NEW z \in Manager(m),
         NEW s \in Seqs, NEW r \in Regions
  PROVE  zip(CopySources(x, y, s), z.resv[r]) \in Seq(Pairs(n, m))
<1>1. x.map[s].ids \in Seq(Blocks(n)) /\ x.map[s].filled \in Nat /\ y.map[s].filled \in Nat
  BY MapFields, SizeAssumption
<1>2. get_block_ids_range(x, s, y.map[s].filled, x.map[s].filled, FALSE).ids \in Seq(Blocks(n))
  BY <1>1, RangeIds
<1>3. CopySources(x, y, s) \in Seq(Blocks(n))
  <2> DEFINE ids == get_block_ids_range(x, s, y.map[s].filled, x.map[s].filled, FALSE).ids
  <2>1. CopySources(x, y, s) = IF x.map[s].filled <= y.map[s].filled THEN <<>> ELSE ids
    BY DEF CopySources
  <2>2. ids \in Seq(Blocks(n))
    BY <1>2
  <2> HIDE DEF ids
  <2> QED BY <2>1, <2>2
<1>4. z.resv[r] \in Seq(Blocks(m))
  BY ManagerFields
<1> QED BY <1>3, <1>4, ZipPairs

\* A job is added.
LEMMA JobTypes ==
  ASSUME TypeInv, NEW job \in Jobs("disk", "host") \union Jobs("host", "disk"),
         bg' = Append(bg, job), UNCHANGED <<kv, olen, idx, step>>
  PROVE  TypeInv'
<1>1. JobTyped'
  <2> DEFINE J == Jobs("disk", "host") \union Jobs("host", "disk")
  <2>1. bg \in Seq(J) /\ job \in J
    BY DEF TypeInv, JobTyped
  <2> HIDE DEF J
  <2>2. Append(bg, job) \in Seq(J)
    BY <2>1
  <2> QED BY <2>2 DEF JobTyped, J
<1> QED BY <1>1 DEF TypeInv, KvTyped, BatchTyped, step

LEMMA AddRequestStagedTypes ==
  ASSUME QInv, MemInv, TypeInv, NEW s \in Seqs, AddRequestStaged(s), MemInv'
  PROVE  TypeInv'
<1> DEFINE h == Hits("host", s)
           d == Hits("disk", s)
           y == reserve_copy_blocks(d, h, s, <<"in", s>>)
           map == zip(CopySources(d, h, s), y.resv[<<"in", s>>])
           job == [s |-> s, from |-> "disk", to |-> "host", copied |-> FALSE, map |-> map]
<1>0. /\ status[s] = "New" /\ dev' = [dev EXCEPT !["host"] = y, !["disk"] = d]
      /\ bg' = Append(bg, job) /\ UNCHANGED <<kv, olen, idx, step>>
  BY DEF AddRequestStaged, Arrives, locals
<1>1. h \in Manager(NumHost) /\ d \in Manager(NumDisk)
  BY <1>0, HitsFacts DEF Sound
<1> HIDE DEF h, d, y
<1>2. y \in Manager(NumHost) /\ NumHost \in Nat /\ NumDisk \in Nat
  <2>1. DOMAIN dev = Devices
    BY DEF MemInv, MemType
  <2>2. Host' = y
    BY <1>0, <2>1 DEF Host, Devices
  <2>3. DevSound'
    BY DEF MemInv
  <2> QED BY <2>2, <2>3, SchedulerAssumption DEF DevSound, Sound
<1>3. map \in Seq(Pairs(NumDisk, NumHost))
  <2>1. In(s) \in Regions /\ In(s) = <<"in", s>>
    BY RegionNames DEF In
  <2> QED BY <1>1, <1>2, <2>1, JobPairs
<1> HIDE DEF map
<1>4. job \in Jobs("disk", "host")
  BY <1>3, TypeNames DEF Jobs
<1> HIDE DEF job
<1> QED BY <1>0, <1>4, JobTypes

LEMMA FinishTaskTypes ==
  ASSUME QInv, MemInv, TypeInv, FinishTask
  PROVE  TypeInv'
<1>t. QueueType /\ LocalsInv /\ MemType /\ DevSound
  BY DEF QInv, MemInv
<1> DEFINE s == Head(finished)
           saves == CanReserveCopy(Host, Disk, s)
           z == reserve_copy_blocks(Host, Disk, s, Out(s))
           map == zip(CopySources(Host, Disk, s), z.resv[Out(s)])
           job == [s |-> s, from |-> "host", to |-> "disk", copied |-> FALSE, map |-> map]
<1>0. /\ pc = "finish" /\ bg' = IF saves THEN Append(bg, job) ELSE bg
      /\ UNCHANGED <<kv, olen, idx, step>>
  BY DEF FinishTask, locals, Host, Disk, Out
<1>s. s \in Seqs /\ s \in Elems(finished)
  <2>1. finished \in Seq(Seqs) /\ finished # <<>>
    BY <1>t, <1>0 DEF QueueType, LocalsInv
  <2>2. Len(finished) >= 1 /\ Head(finished) = finished[1] /\ finished[1] \in Seqs
    BY <2>1
  <2> QED BY <2>1, <2>2 DEF Elems
<1> HIDE DEF s
<1>1. CASE ~saves
  BY <1>0, <1>1, TypeFrame
<1>2. CASE saves
  <2>1. TaskInv(s) /\ PlaceOf(s) /\ Out(s) \in Regions
    BY <1>s, OnePlace, RegionNames DEF MemInv
  <2>2. Disk.resv[Out(s)] = <<>>
    <3>1. status[s] \in Alive
      BY <1>s, <2>1 DEF PlaceOf
    <3> QED BY <2>1, <3>1 DEF TaskInv, RegionInv, Alive
  <2>3. z \in Manager(NumDisk)
    <3>1. z = reserve_copy_blocks(Host, Disk, s, Out(s)) /\ CanReserveCopy(Host, Disk, s)
      BY <1>2
    <3> HIDE DEF z, saves
    <3> QED BY <1>t, <1>s, <2>1, <2>2, <3>1, Lens, ReserveCopy DEF DevSound, Sound
  <2> HIDE DEF z
  <2>4. Host \in Manager(NumHost) /\ Disk \in Manager(NumDisk) /\ NumHost \in Nat /\ NumDisk \in Nat
    BY <1>t, SchedulerAssumption DEF DevSound, Sound
  <2>5. map \in Seq(Pairs(NumHost, NumDisk))
    BY <1>s, <2>1, <2>3, <2>4, JobPairs
  <2> HIDE DEF map
  <2>6. job \in Jobs("host", "disk")
    BY <1>s, <2>5, TypeNames DEF Jobs
  <2> HIDE DEF job, saves
  <2> QED BY <1>0, <1>2, <2>6, JobTypes
<1> QED BY <1>1, <1>2

\* What is pushed to a decode node is whole blocks.
LEMMA TriggerTypes ==
  ASSUME MemInv, TypeInv, NEW s \in Seqs, NEW n \in 0..NumFull, TriggerRequest(s, n)
  PROVE  TypeInv'
<1> DEFINE got == {dev["host"].resv[<<"in", s>>][i] : i \in 1..n}
           c == kv["host"]
           d == [b \in DOMAIN c |-> IF b \in got THEN [key |-> dev["host"].hash[b], n |-> BlockSize]
                                    ELSE c[b]]
<1>1. /\ kv' = [kv EXCEPT !["host"] = d]
      /\ UNCHANGED <<olen, bg, idx, step>>
  BY DEF TriggerRequest, locals
<1>2. /\ DOMAIN kv = Devices /\ kv["gpu"] \in Device(NumGpu) /\ c \in Device(NumHost)
      /\ kv["disk"] \in Device(NumDisk)
  BY DEF TypeInv, KvTyped
<1>3. Host \in Manager(NumHost) /\ NumHost \in Nat
  BY SchedulerAssumption DEF MemInv, DevSound, Sound
<1>4. Host.hash \in [Blocks(NumHost) -> Hashes \union {NoHash}]
  BY <1>3, ManagerFields
<1>5. d \in Device(NumHost)
  <2>1. \A b \in Blocks(NumHost) : [key |-> dev["host"].hash[b], n |-> BlockSize] \in Contents
    BY <1>4, SizeAssumption DEF Contents, Host
  <2> HIDE DEF got
  <2> QED BY <1>2, <2>1 DEF Device
<1> HIDE DEF d
<1>6. KvTyped'
  BY <1>1, <1>2, <1>5 DEF KvTyped, Devices
<1> QED BY <1>1, <1>6 DEF TypeInv, JobTyped, BatchTyped, step

\* A background copy goes between the devices of its job.
LEMMA BgCopyTypes ==
  ASSUME TypeInv, BgCopy
  PROVE  TypeInv'
<1> DEFINE j == Head(bg)
           J == Jobs("disk", "host") \union Jobs("host", "disk")
<1>1. /\ bg # <<>> /\ kv' = [kv EXCEPT ![j.to] = CopyKV(kv[j.from], kv[j.to], j.map)]
      /\ bg' = [bg EXCEPT ![1].copied = TRUE] /\ UNCHANGED <<olen, idx, step>>
  BY DEF BgCopy, locals
<1>2. bg \in Seq(J)
  BY DEF TypeInv, JobTyped
<1>3. j \in J /\ j = bg[1] /\ Len(bg) \in Nat /\ 1 \in 1..Len(bg)
  <2> HIDE DEF J
  <2> QED BY <1>1, <1>2
<1>4. /\ DOMAIN kv = Devices /\ kv["gpu"] \in Device(NumGpu) /\ kv["host"] \in Device(NumHost)
      /\ kv["disk"] \in Device(NumDisk)
  BY DEF TypeInv, KvTyped
<1>5. KvTyped'
  <2>1. \/ j.from = "disk" /\ j.to = "host" /\ j.map \in Seq(Pairs(NumDisk, NumHost))
        \/ j.from = "host" /\ j.to = "disk" /\ j.map \in Seq(Pairs(NumHost, NumDisk))
    BY <1>3, JobKinds
  <2> HIDE DEF j
  <2>2. CASE j.from = "disk" /\ j.to = "host" /\ j.map \in Seq(Pairs(NumDisk, NumHost))
    <3>1. CopyKV(kv["disk"], kv["host"], j.map) \in Device(NumHost)
      BY <1>4, <2>2, CopyTyped
    <3> QED BY <1>1, <1>4, <2>2, <3>1 DEF KvTyped, Devices
  <2>3. CASE j.from = "host" /\ j.to = "disk" /\ j.map \in Seq(Pairs(NumHost, NumDisk))
    <3>1. CopyKV(kv["host"], kv["disk"], j.map) \in Device(NumDisk)
      BY <1>4, <2>3, CopyTyped
    <3> QED BY <1>1, <1>4, <2>3, <3>1 DEF KvTyped, Devices
  <2> QED BY <2>1, <2>2, <2>3
<1>6. JobTyped'
  <2> DEFINE k == [j EXCEPT !.copied = TRUE]
  <2>1. k \in J
    <3> HIDE DEF j
    <3>1. CASE j \in Jobs("disk", "host")
      BY <3>1 DEF Jobs
    <3>2. CASE j \in Jobs("host", "disk")
      BY <3>2 DEF Jobs
    <3> QED BY <1>3, <3>1, <3>2
  <2>2. bg' = [bg EXCEPT ![1] = k]
    BY <1>1, <1>3
  <2> HIDE DEF k, J
  <2> DEFINE l == Len(bg)
  <2>3. l \in Nat /\ bg \in [1..l -> J]
    BY <1>2
  <2> HIDE DEF l
  <2>4. bg' \in [1..l -> J]
    BY <2>1, <2>2, <2>3
  <2>5. bg' \in Seq(J)
    BY <2>3, <2>4, FunctionIsSeq
  <2> QED BY <2>5 DEF JobTyped, J
<1> QED BY <1>1, <1>5, <1>6 DEF TypeInv, BatchTyped, step

LEMMA CallbackTypes ==
  ASSUME TypeInv, BgStaged \/ BgSaved
  PROVE  TypeInv'
<1>1. bg # <<>> /\ bg' = Tail(bg) /\ UNCHANGED <<kv, olen, idx, step>>
  BY DEF BgStaged, BgSaved, locals
<1>2. JobTyped'
  <2> DEFINE J == Jobs("disk", "host") \union Jobs("host", "disk")
  <2>1. bg \in Seq(J)
    BY DEF TypeInv, JobTyped
  <2> HIDE DEF J
  <2>2. Tail(bg) \in Seq(J)
    BY <1>1, <2>1
  <2> QED BY <1>1, <2>2 DEF JobTyped, J
<1> QED BY <1>1, <1>2 DEF TypeInv, KvTyped, BatchTyped, step

\* A sequence never has more blocks than can be full.
LEMMA FewBlocks ==
  ASSUME NEW k \in Nat, k <= MaxLen
  PROVE  CeilDiv(k, BlockSize) <= NumFull
<1> DEFINE c == CeilDiv(k, BlockSize)
<1>1. BlockSize \in Nat \ {0} /\ MaxLen \in Nat /\ MaxLen % BlockSize = 0
  BY SizeAssumption, SchedulerAssumption
<1>2. MaxLen = NumFull * BlockSize /\ NumFull \in Nat
  <2>1. MaxLen = (MaxLen \div BlockSize) * BlockSize + (MaxLen % BlockSize)
    BY <1>1
  <2> QED BY <1>1, <2>1, DivBounds DEF NumFull
<1>3. c \in Nat /\ c * BlockSize < k + BlockSize
  BY CeilBounds
<1> HIDE DEF c
<1> SUFFICES ASSUME NumFull < c PROVE FALSE
  BY <1>2, <1>3 DEF c
<1>4. NumFull * BlockSize + BlockSize <= c * BlockSize
  BY <1>2, <1>3, MulMono
<1> DEFINE u == c * BlockSize
<1>5. u \in Nat /\ u < k + BlockSize /\ MaxLen + BlockSize <= u
  BY <1>1, <1>2, <1>3, <1>4
<1> HIDE DEF u
<1> QED BY <1>1, <1>5

\* dispatch adds an entry and its mappings.
LEMMA DispatchOneTypes ==
  ASSUME QInv, MemInv, MemInv', TypeInv, DispatchOne
  PROVE  TypeInv'
<1>t. QueueType /\ BatchInv /\ MemType /\ DevSound
  BY DEF QInv, MemInv
<1> DEFINE s == allocated[idx]
           total == tlen[s]
           f == copy_blocks(dev["host"], dev["gpu"], s, TRUE)
           x == IF f.map = <<>> THEN dev["gpu"] ELSE update_filled_len(dev["gpu"], s, f.filled)
           done == Least(x.map[s].filled, total - 1)
           n == Least(total - done, budget)
           y == update_filled_len(x, s, done + n)
           w == copy_blocks(y, dev["host"], s, FALSE)
           ids == get_block_ids_range(x, s, 0, done + n, TRUE).ids
           e == [s |-> s, filled |-> done, context |-> done + n, chunked |-> total > done + n,
                 ids |-> ids]
<1>0. /\ pc = "dispatch" /\ ~DispatchEnds /\ idx' = idx + 1 /\ batch' = Append(batch, e)
      /\ fetch' = fetch \o f.map /\ write' = write \o w.map
      /\ UNCHANGED <<kv, olen, bg, allocated>>
  BY DEF DispatchOne, queues
<1>g. \E h : dev' = [dev EXCEPT !["gpu"] = y, !["host"] = h]
  BY DEF DispatchOne
<1>f. /\ FetchedBy(f, Host, Gpu, s) /\ f = copy_blocks(Host, Gpu, s, TRUE)
      /\ w = copy_blocks(y, Host, s, FALSE)
      /\ x = IF f.map = <<>> THEN Gpu ELSE update_filled_len(Gpu, s, f.filled)
      /\ y = update_filled_len(x, s, done + n)
  BY DEF FetchedBy, Host, Gpu
<1>s. s \in Seqs /\ s \in Elems(allocated)
  <2>1. idx \in 1..Len(allocated)
    <3>1. allocated \in Seq(Seqs) /\ idx \in Nat \ {0}
      BY <1>t DEF TypeInv, BatchTyped, QueueType
    <3>2. ~(idx > Len(allocated))
      BY <1>0 DEF DispatchEnds
    <3> QED BY ONLY <3>1, <3>2
  <2> QED BY <1>t, <2>1 DEF QueueType, Elems
<1>k. total \in 1..MaxLen /\ budget \in Nat \ {0} /\ MaxLen \in Nat /\ total = tlen[s]
  BY <1>t, <1>s, <1>0, SizeAssumption DEF MemType, DispatchEnds
<1>l. done = Least(x.map[s].filled, total - 1) /\ n = Least(total - done, budget)
  OBVIOUS
<1>a. Gpu.map[s].live
  <2>1. TaskInv(s) /\ s \in Running
    BY <1>s DEF MemInv, Running
  <2> QED BY <1>0, <2>1 DEF TaskInv, RunInv
<1> HIDE DEF s, f, w, x, y, done, n, total
<1>m. /\ Host \in Manager(NumHost) /\ Gpu \in Manager(NumGpu) /\ NumHost \in Nat /\ NumGpu \in Nat
      /\ MapOK(Gpu, s, total)
  BY <1>t, <1>s, <1>k, Lens DEF DevSound, Sound
<1>h. Spread(Host, NumHost, s) /\ Spread(Gpu, NumGpu, s)
  BY <1>m, <1>s, MapFields, SizeAssumption DEF Spread
<1>x. /\ x.map[s].ids = Gpu.map[s].ids /\ x.map[s].filled \in Nat
  <2>1. CASE f.map = <<>>
    BY <1>f, <1>h, <2>1 DEF Spread
  <2>2. CASE f.map # <<>>
    <3>1. f.filled \in Nat
      BY <1>t, <1>f, <1>s, <2>2, Lens, FetchedLen DEF DevSound
    <3>2. x = update_filled_len(Gpu, s, f.filled)
      BY <1>f, <2>2
    <3>3. OnlyFilled(Gpu, x, s, f.filled)
      BY <1>m, <1>s, <1>a, <3>2, FilledLenEffect
    <3> QED BY <3>1, <3>3 DEF OnlyFilled
  <2> QED BY <2>1, <2>2
<1>y. Spread(y, NumGpu, s)
  <2>1. DOMAIN dev = Devices
    BY <1>t DEF MemType
  <2>2. Gpu' = y
    BY <1>g, <2>1 DEF Gpu, Devices
  <2>3. Gpu' \in Manager(NumGpu)
    BY DEF MemInv, DevSound, Sound
  <2> QED BY <1>m, <1>s, <2>2, <2>3, MapFields, SizeAssumption DEF Spread
<1>c. done \in 0..MaxLen /\ done + n \in 1..MaxLen /\ done + n \in Nat
  <2> DEFINE u == x.map[s].filled
  <2>1. u \in Nat /\ done = Least(u, total - 1)
    BY <1>x, <1>l
  <2> HIDE DEF u
  <2>2. done \in Nat /\ done <= total - 1
    BY ONLY <1>k, <2>1 DEF Least
  <2>3. n \in Nat /\ n >= 1 /\ n <= total - done
    BY ONLY <1>k, <1>l, <2>2 DEF Least
  <2> QED BY ONLY <1>k, <2>2, <2>3
<1>i. ids \in Seq(Blocks(NumGpu)) /\ Len(ids) <= NumFull
  <2> DEFINE g == get_block_ids_range(x, s, 0, done + n, TRUE)
             p == Gpu.map[s].ids
  <2>1. g.ids \in Seq(Blocks(NumGpu)) /\ Len(g.ids) <= Len(p)
    BY <1>h, <1>x, <1>c, RangeIds DEF Spread
  <2>2. Len(p) <= NumFull
    <3> DEFINE sl == Gpu.map[s].slots
    <3>1. sl \in 0..MaxLen /\ Len(p) = CeilDiv(sl, BlockSize)
      BY <1>m, <1>s, MapFields DEF MapOK
    <3> HIDE DEF sl, p
    <3>2. sl \in Nat /\ sl <= MaxLen
      BY <1>k, <3>1
    <3> QED BY <3>1, <3>2, FewBlocks
  <2>3. NumFull \in Nat /\ Len(p) \in Nat /\ ids = g.ids
    <3>1. NumFull \in Nat
      BY <1>k, DivBounds DEF NumFull
    <3>2. Len(p) \in Nat
      BY <1>h DEF Spread
    <3> QED BY <3>1, <3>2
  <2> HIDE DEF g, p, ids
  <2>4. Len(g.ids) \in Nat
    BY <2>1
  <2> QED BY <2>1, <2>2, <2>3, <2>4
<1> HIDE DEF ids
<1>e. e \in Inputs
  <2>1. BlockIds("gpu") = Blocks(NumGpu) /\ (total > done + n) \in BOOLEAN
    BY TypeNames
  <2> QED BY <1>s, <1>c, <1>i, <2>1 DEF Inputs
<1> HIDE DEF e
<1>1. batch' \in Seq(Inputs)
  BY <1>0, <1>e DEF TypeInv, BatchTyped
<1>2. Executes(batch')
  <2> SUFFICES ASSUME NEW c \in Device(NumGpu) PROVE Ran(c, Append(batch, e)) \in Device(NumGpu)
    BY <1>0 DEF Executes
  <2>1. batch \in Seq(Inputs) /\ Ran(c, batch) \in Device(NumGpu)
    BY DEF TypeInv, BatchTyped, Executes
  <2>2. Ran(c, Append(batch, e)) = Computed(Ran(c, batch), e)
    BY <2>1, RanAppend
  <2> QED BY <1>e, <2>1, <2>2, ComputedTyped
<1>3. fetch' \in Seq(Pairs(NumHost, NumGpu))
  <2>1. f.map \in Seq(Pairs(NumHost, NumGpu))
    BY <1>f, <1>h, CopyPairs
  <2>2. fetch \in Seq(Pairs(NumHost, NumGpu))
    BY DEF TypeInv, BatchTyped
  <2> QED BY <1>0, <2>1, <2>2
<1>4. write' \in Seq(Pairs(NumGpu, NumHost))
  <2>1. w.map \in Seq(Pairs(NumGpu, NumHost))
    BY <1>f, <1>h, <1>y, CopyPairs
  <2>2. write \in Seq(Pairs(NumGpu, NumHost))
    BY DEF TypeInv, BatchTyped
  <2> QED BY <1>0, <2>1, <2>2
<1>5. idx' \in Nat \ {0}
  BY <1>0 DEF TypeInv, BatchTyped
<1>6. KvTyped' /\ olen' \in [Seqs -> Nat] /\ JobTyped'
  BY <1>0 DEF TypeInv, KvTyped, JobTyped
<1> QED BY <1>1, <1>2, <1>3, <1>4, <1>5, <1>6 DEF TypeInv, BatchTyped

\* The workers fetch, execute the batch and write through.
LEMMA InferDoneTypes ==
  ASSUME TypeInv, NEW eos, InferDone(eos)
  PROVE  TypeInv'
<1>1. /\ kv' = [kv EXCEPT !["gpu"] = GpuAfterInfer,
                          !["host"] = CopyKV(GpuAfterInfer, kv["host"], write)]
      /\ olen' = [s \in Seqs |-> IF s \in Producing THEN olen[s] + 1 ELSE olen[s]]
      /\ batch' = <<>> /\ fetch' = <<>> /\ write' = <<>> /\ UNCHANGED <<bg, idx>>
  BY DEF InferDone, locals
<1>2. /\ DOMAIN kv = Devices /\ kv["gpu"] \in Device(NumGpu) /\ kv["host"] \in Device(NumHost)
      /\ kv["disk"] \in Device(NumDisk) /\ Executes(batch)
      /\ fetch \in Seq(Pairs(NumHost, NumGpu)) /\ write \in Seq(Pairs(NumGpu, NumHost))
      /\ olen \in [Seqs -> Nat] /\ JobTyped /\ idx \in Nat \ {0}
  BY DEF TypeInv, KvTyped, BatchTyped
<1>3. GpuAfterInfer \in Device(NumGpu)
  <2>1. GpuAfterFetch \in Device(NumGpu)
    BY <1>2, CopyTyped DEF GpuAfterFetch
  <2>2. GpuAfterInfer = Ran(GpuAfterFetch, batch)
    BY DEF GpuAfterInfer, Ran
  <2> QED BY <1>2, <2>1, <2>2 DEF Executes
<1>4. CopyKV(GpuAfterInfer, kv["host"], write) \in Device(NumHost)
  BY <1>2, <1>3, CopyTyped
<1> DEFINE g == GpuAfterInfer
           h == CopyKV(GpuAfterInfer, kv["host"], write)
<1>5. KvTyped'
  <2>1. kv' = [kv EXCEPT !["gpu"] = g, !["host"] = h] /\ g \in Device(NumGpu) /\ h \in Device(NumHost)
    BY <1>1, <1>3, <1>4
  <2> HIDE DEF g, h
  <2> QED BY ONLY <1>2, <2>1 DEF KvTyped, Devices
<1>6. olen' \in [Seqs -> Nat]
  <2> HIDE DEF Producing
  <2>1. \A s \in Seqs : olen[s] \in Nat /\ olen[s] + 1 \in Nat
    BY <1>2
  <2> QED BY <1>1, <2>1
<1>7. Executes(<<>>)
  BY RanEmpty DEF Executes
<1>8. BatchTyped' /\ JobTyped'
  BY <1>1, <1>2, <1>7 DEF BatchTyped, JobTyped
<1> QED BY <1>5, <1>6, <1>8 DEF TypeInv

LEMMA TypeStep ==
  ASSUME QInv, MemInv, MemInv', TypeInv, [Next]_vars
  PROVE  TypeInv'
<1>1. CASE Schedule
  BY <1>1, QuietTypes, DispatchOneTypes
<1>2. CASE (\E eos \in SUBSET Producing : InferDone(eos)) \/ FinishTask
  BY <1>2, InferDoneTypes, FinishTaskTypes
<1>3. CASE Background
  BY <1>3, BgCopyTypes, CallbackTypes DEF Background
<1>4. CASE Handlers
  <2>1. CASE \E s \in Seqs : AddRequest(s) \/ ReserveRequest(s) \/ PendReserved(s)
    BY <2>1, QuietTypes
  <2>2. CASE \E s \in Seqs : AddRequestStaged(s)
    BY <2>2, AddRequestStagedTypes
  <2>3. CASE \E s \in Seqs : \E n \in 0..NumFull : TriggerRequest(s, n)
    BY <2>3, TriggerTypes
  <2>4. CASE ClearCache
    BY <2>4, QuietTypes
  <2> QED BY <1>4, <2>1, <2>2, <2>3, <2>4 DEF Handlers
<1>5. CASE UNCHANGED vars
  BY <1>5, QuietTypes
<1> QED BY <1>1, <1>2, <1>3, <1>4, <1>5 DEF Next, EngineLoop

\* Every variable of the scheduler keeps its type: the three managers and the
\* contents of their blocks, lengths within MaxLen, queues of tasks, jobs, block
\* mappings and inputs with block ids that their devices have, and the places of
\* the engine loop.
THEOREM TypeCorrect == Spec => []TypeOK
<1>1. QInv /\ MemInv /\ PcType /\ TypeInv => TypeOK
  <2> SUFFICES ASSUME QInv, MemInv, PcType, TypeInv PROVE TypeOK
    OBVIOUS
  <2>1. DOMAIN dev = Devices /\ \A d \in Devices : dev[d] \in Manager(NumOf[d])
    BY DEF MemInv, MemType, DevSound, Sound, Devices, NumOf, Gpu, Host, Disk
  <2>2. DOMAIN kv = Devices /\ \A d \in Devices : kv[d] \in [BlockIds(d) -> Contents]
    BY DEF TypeInv, KvTyped, Device, Blocks, BlockIds, Devices, NumOf
  <2>3. mode \in Modes /\ tlen \in [Seqs -> 1..MaxLen] /\ budget \in Nat
    BY DEF MemInv, MemType
  <2>4. QueueType
    BY DEF QInv
  <2>5. /\ olen \in [Seqs -> Nat] /\ idx \in Nat \ {0} /\ batch \in Seq(Inputs)
        /\ bg \in Seq(Jobs("disk", "host") \union Jobs("host", "disk"))
        /\ fetch \in Mappings("host", "gpu") /\ write \in Mappings("gpu", "host")
    BY TypeNames DEF TypeInv, BatchTyped, JobTyped
  <2> QED BY <2>1, <2>2, <2>3, <2>4, <2>5 DEF TypeOK, QueueType, Statuses, PcType
<1>2. Init => PcType /\ TypeInv
  BY TypeInit DEF Init, PcType
<1>3. PcType /\ [Next]_vars => PcType'
  BY PcStep
<1>4. QInv /\ MemInv /\ MemInv' /\ TypeInv /\ [Next]_vars => TypeInv'
  BY TypeStep
<1> QED
  BY <1>1, <1>2, <1>3, <1>4, MemoryInvariant, PTL DEF Spec
=============================================================================
