--------------------------- MODULE BlockOpsProofs ---------------------------
(***************************************************************************)
(* What every operation of the block manager keeps, for every pool size,   *)
(* block size, set of sequences and regions and every hash chain.  Sound   *)
(* says of one manager record x of n blocks that its counts, its free      *)
(* list, its labels and the views of its holders agree; there is one lemma *)
(* for each operation of BlockOps.  BlockManagerProofs puts them together. *)
(***************************************************************************)
EXTENDS BlockOps, FiniteSetTheorems, WellFoundedInduction, TLAPS

-----------------------------------------------------------------------------
(* Numbers *)

\* A set of numbers that is not empty has a least one.
LEMMA LeastNat ==
  ASSUME NEW T \in SUBSET Nat, T # {}
  PROVE  \E x \in T : \A y \in T : x <= y
<1>1. \E x \in T : \A y \in T : ~ (<<y, x>> \in OpToRel(<, Nat))
  BY NatLessThanWellFounded, WFMin
<1>2. PICK x \in T : \A y \in T : ~ (<<y, x>> \in OpToRel(<, Nat))
  BY <1>1
<1>3. \A y \in T : ~(y < x)
  BY <1>2 DEF OpToRel
<1> QED BY <1>3

\* What the code gets from a / block_size.
LEMMA DivBounds ==
  ASSUME NEW a \in Nat
  PROVE  /\ a \div BlockSize \in Nat
         /\ (a \div BlockSize) * BlockSize <= a
         /\ a < (a \div BlockSize) * BlockSize + BlockSize
BY SizeAssumption

\* The blocks before block j hold at least one block less than j blocks do.
LEMMA MulMono ==
  ASSUME NEW i \in Nat, NEW j \in Nat, i < j
  PROVE  i * BlockSize + BlockSize <= j * BlockSize
BY SizeAssumption

\* k blocks hold at most a tokens exactly when k <= a / block_size.
LEMMA FullBlocks ==
  ASSUME NEW a \in Nat, NEW k \in Nat
  PROVE  k * BlockSize <= a <=> k <= a \div BlockSize
<1> DEFINE q == a \div BlockSize
<1>1. q \in Nat /\ q * BlockSize <= a /\ a < q * BlockSize + BlockSize
  BY DivBounds
<1>2. BlockSize \in Nat /\ k * BlockSize \in Nat /\ q * BlockSize \in Nat
  BY <1>1, SizeAssumption
<1> HIDE DEF q
<1>3. CASE k <= q
  <2>1. k = q \/ k * BlockSize + BlockSize <= q * BlockSize
    BY <1>1, <1>3, MulMono
  <2> QED BY <1>1, <1>2, <1>3, <2>1 DEF q
<1>4. CASE q < k
  <2>1. q * BlockSize + BlockSize <= k * BlockSize
    BY <1>1, <1>4, MulMono
  <2> QED BY <1>1, <1>2, <1>4, <2>1 DEF q
<1> QED BY <1>1, <1>3, <1>4

\* More tokens fill more blocks.
LEMMA DivMono ==
  ASSUME NEW a \in Nat, NEW c \in Nat, a <= c
  PROVE  a \div BlockSize <= c \div BlockSize
<1> DEFINE q == a \div BlockSize
<1>1. q \in Nat /\ q * BlockSize <= a /\ q * BlockSize \in Nat
  BY DivBounds, SizeAssumption
<1> HIDE DEF q
<1>2. q * BlockSize <= c
  BY <1>1
<1> QED BY <1>1, <1>2, FullBlocks DEF q

\* The blocks for a tokens: the last one has at least one of them.
LEMMA CeilBounds ==
  ASSUME NEW a \in Nat
  PROVE  /\ CeilDiv(a, BlockSize) \in Nat
         /\ a <= CeilDiv(a, BlockSize) * BlockSize
         /\ CeilDiv(a, BlockSize) * BlockSize < a + BlockSize
<1> DEFINE c == CeilDiv(a, BlockSize)
<1>0. BlockSize \in Nat \ {0}
  BY SizeAssumption
<1>1. a + BlockSize - 1 \in Nat
  BY <1>0
<1>2. /\ c \in Nat /\ c * BlockSize <= a + BlockSize - 1
      /\ a + BlockSize - 1 < c * BlockSize + BlockSize
  BY <1>1, DivBounds DEF CeilDiv
<1>3. c * BlockSize \in Nat
  BY <1>0, <1>2
<1> HIDE DEF c
<1> QED BY <1>0, <1>2, <1>3 DEF c

\* No other number of blocks is like that.
LEMMA CeilUnique ==
  ASSUME NEW a \in Nat, NEW k \in Nat, a <= k * BlockSize, k * BlockSize < a + BlockSize
  PROVE  k = CeilDiv(a, BlockSize)
<1> DEFINE c == CeilDiv(a, BlockSize)
<1>1. c \in Nat /\ a <= c * BlockSize /\ c * BlockSize < a + BlockSize
  BY CeilBounds
<1>2. BlockSize \in Nat /\ c * BlockSize \in Nat /\ k * BlockSize \in Nat
  BY <1>1, SizeAssumption
<1> HIDE DEF c
<1>3. c < k => c * BlockSize + BlockSize <= k * BlockSize
  BY <1>1, MulMono
<1>4. k < c => k * BlockSize + BlockSize <= c * BlockSize
  BY <1>1, MulMono
<1> QED BY <1>1, <1>2, <1>3, <1>4 DEF c

-----------------------------------------------------------------------------
(* Kept, the filter of the free list and of the blocks to free *)

\* No element of q is at two positions.
NoDup(q) == \A i, j \in 1..Len(q) : q[i] = q[j] => i = j

\* A function on 1..c is a sequence of length c.
LEMMA FunctionIsSeq ==
  ASSUME NEW S, NEW c \in Nat, NEW f \in [1..c -> S]
  PROVE  f \in Seq(S) /\ Len(f) = c
OBVIOUS

\* Where the elements of a concatenation are.
LEMMA ConcatIndex ==
  ASSUME NEW S, NEW p \in Seq(S), NEW q \in Seq(S)
  PROVE  /\ p \o q \in Seq(S) /\ Len(p \o q) = Len(p) + Len(q)
         /\ \A i \in 1..Len(p) : (p \o q)[i] = p[i]
         /\ \A i \in 1..Len(p \o q) :
               i \notin 1..Len(p) => i - Len(p) \in 1..Len(q) /\ (p \o q)[i] = q[i - Len(p)]
OBVIOUS

\* What a concatenation holds, and when it holds nothing twice.
LEMMA ConcatElems ==
  ASSUME NEW S, NEW p \in Seq(S), NEW q \in Seq(S)
  PROVE  /\ Elems(p \o q) = Elems(p) \union Elems(q)
         /\ NoDup(p \o q) => Elems(p) \cap Elems(q) = {}
         /\ NoDup(p) /\ NoDup(q) /\ Elems(p) \cap Elems(q) = {} => NoDup(p \o q)
<1> DEFINE c == p \o q
           L == Len(p)
<1>1. /\ L \in Nat /\ Len(q) \in Nat /\ Len(c) = L + Len(q)
      /\ \A i \in 1..L : c[i] = p[i] /\ i \in 1..Len(c)
      /\ \A i \in 1..Len(q) : c[L + i] = q[i] /\ L + i \in 1..Len(c)
      /\ \A i \in 1..Len(c) : i \notin 1..L => i - L \in 1..Len(q) /\ L + (i - L) = i
  OBVIOUS
<1> HIDE DEF c
<1>2. \A b : b \in Elems(p) => b \in Elems(c)
  BY <1>1 DEF Elems
<1>3. \A b : b \in Elems(q) => b \in Elems(c)
  BY <1>1 DEF Elems
<1>4. ASSUME NEW i \in 1..Len(c) PROVE c[i] \in Elems(p) \/ c[i] \in Elems(q)
  <2>1. CASE i \in 1..L
    BY <1>1, <2>1 DEF Elems
  <2>2. CASE i \notin 1..L
    <3>1. i - L \in 1..Len(q) /\ c[i] = q[i - L]
      BY <1>1, <2>2
    <3> QED BY <3>1 DEF Elems
  <2> QED BY <2>1, <2>2
<1>5. Elems(c) = Elems(p) \union Elems(q)
  BY <1>2, <1>3, <1>4 DEF Elems
<1>6. ASSUME NoDup(c), NEW b \in Elems(p), b \in Elems(q) PROVE FALSE
  <2>1. PICK i \in 1..L : p[i] = b
    BY DEF Elems
  <2>2. PICK k \in 1..Len(q) : q[k] = b
    BY <1>6 DEF Elems
  <2>3. c[i] = c[L + k] /\ i \in 1..Len(c) /\ L + k \in 1..Len(c) /\ i # L + k
    BY <1>1, <2>1, <2>2
  <2> QED BY <1>6, <2>3 DEF NoDup
<1>7. ASSUME NoDup(p), NoDup(q), Elems(p) \cap Elems(q) = {} PROVE NoDup(c)
  <2> SUFFICES ASSUME NEW i \in 1..Len(c), NEW j \in 1..Len(c), c[i] = c[j] PROVE i = j
    BY DEF NoDup
  <2>1. CASE i \in 1..L /\ j \in 1..L
    BY <1>1, <1>7, <2>1 DEF NoDup
  <2>2. CASE i \notin 1..L /\ j \notin 1..L
    <3>1. i - L \in 1..Len(q) /\ j - L \in 1..Len(q) /\ q[i - L] = q[j - L]
      BY <1>1, <2>2
    <3>2. i - L = j - L
      BY <1>7, <3>1 DEF NoDup
    <3> QED BY <1>1, <3>2
  <2>3. CASE i \in 1..L /\ j \notin 1..L
    <3>1. c[i] \in Elems(p)
      BY <1>1, <2>3 DEF Elems
    <3>2. j - L \in 1..Len(q) /\ c[j] = q[j - L]
      BY <1>1, <2>3
    <3>3. c[j] \in Elems(q)
      BY <3>2 DEF Elems
    <3> QED BY <1>7, <3>1, <3>3
  <2>4. CASE i \notin 1..L /\ j \in 1..L
    <3>1. c[j] \in Elems(p)
      BY <1>1, <2>4 DEF Elems
    <3>2. i - L \in 1..Len(q) /\ c[i] = q[i - L]
      BY <1>1, <2>4
    <3>3. c[i] \in Elems(q)
      BY <3>2 DEF Elems
    <3> QED BY <1>7, <3>1, <3>3
  <2> QED BY <2>1, <2>2, <2>3, <2>4
<1> QED BY <1>5, <1>6, <1>7 DEF c

\* Counting the positions up to i numbers the positions of K from 1 on.
LEMMA RankLemma ==
  ASSUME NEW N \in Nat, NEW K \in SUBSET (1..N)
  PROVE  /\ IsFiniteSet(K)
         /\ Cardinality(K) \in Nat
         /\ \A i \in K : RankIn(K, i) \in 1..Cardinality(K)
         /\ \A i, j \in K : RankIn(K, i) = RankIn(K, j) => i = j
         /\ \A k \in 1..Cardinality(K) : \E i \in K : RankIn(K, i) = k
<1> DEFINE Upto(i) == {j \in K : j <= i}
           f == [i \in K |-> RankIn(K, i)]
<1>1. IsFiniteSet(K) /\ Cardinality(K) \in Nat
  <2>1. IsFiniteSet(1..N)
    BY FS_Interval
  <2> QED BY <2>1, FS_Subset, FS_CardinalityType
<1>t. \A i \in K : i \in Int
  OBVIOUS
<1>2. ASSUME NEW i \in K PROVE /\ IsFiniteSet(Upto(i)) /\ Cardinality(Upto(i)) \in Nat
                              /\ Cardinality(Upto(i)) <= Cardinality(K)
                              /\ Cardinality(Upto(i)) # 0
  <2>1. Upto(i) \in SUBSET K
    OBVIOUS
  <2>2. i \in Upto(i)
    OBVIOUS
  <2>3. IsFiniteSet(Upto(i)) /\ Cardinality(Upto(i)) <= Cardinality(K)
    BY <1>1, <2>1, FS_Subset
  <2> QED BY <2>2, <2>3, FS_EmptySet, FS_CardinalityType
<1>3. \A i \in K : RankIn(K, i) \in 1..Cardinality(K)
  BY <1>1, <1>2 DEF RankIn
<1>4. ASSUME NEW i \in K, NEW j \in K, i < j PROVE RankIn(K, i) # RankIn(K, j)
  <2>0. \A k \in K : k <= i => k <= j
    BY <1>4, <1>t
  <2>1. Upto(i) \in SUBSET Upto(j)
    BY <2>0
  <2>2. j \in Upto(j) /\ j \notin Upto(i)
    BY <1>4
  <2>3. Cardinality(Upto(j)) = Cardinality(Upto(i)) => Upto(j) = Upto(i)
    BY <1>2, <2>1, FS_Subset
  <2> QED BY <2>2, <2>3 DEF RankIn
<1>5. \A i, j \in K : RankIn(K, i) = RankIn(K, j) => i = j
  BY <1>4
<1>6. f \in Injection(K, 1..Cardinality(K))
  BY <1>3, <1>5 DEF Injection, IsInjective
<1>7. IsFiniteSet(1..Cardinality(K)) /\ Cardinality(1..Cardinality(K)) = Cardinality(K)
  BY <1>1, FS_Interval
<1>8. f \in Surjection(K, 1..Cardinality(K))
  BY <1>6, <1>7, FS_Injection
<1>9. \A k \in 1..Cardinality(K) : \E i \in K : RankIn(K, i) = k
  BY <1>8 DEF Surjection
<1> QED BY <1>1, <1>3, <1>5, <1>9

\* Kept(q, S) holds the elements of q that are in S, and none twice if q
\* holds none twice.
LEMMA KeptLemma ==
  ASSUME NEW T, NEW q \in Seq(T), NEW S
  PROVE  /\ Kept(q, S) \in Seq(T)
         /\ Elems(Kept(q, S)) = Elems(q) \cap S
         /\ NoDup(q) => NoDup(Kept(q, S))
<1> DEFINE K == PosIn(q, S)
           c == Cardinality(K)
           pos(k) == CHOOSE i \in K : RankIn(K, i) = k
           p == Kept(q, S)
<1>1. K \in SUBSET (1..Len(q)) /\ Len(q) \in Nat
  BY DEF PosIn
<1>2. /\ c \in Nat
      /\ \A i \in K : RankIn(K, i) \in 1..c
      /\ \A i, j \in K : RankIn(K, i) = RankIn(K, j) => i = j
      /\ \A k \in 1..c : \E i \in K : RankIn(K, i) = k
  BY <1>1, RankLemma
<1>3. \A k \in 1..c : pos(k) \in K /\ RankIn(K, pos(k)) = k
  BY <1>2
<1>4. p = [k \in 1..c |-> q[pos(k)]]
  BY DEF Kept
<1>5. \A i \in K : i \in 1..Len(q) /\ q[i] \in S /\ q[i] \in T
  BY DEF PosIn
<1>6. \A i \in 1..Len(q) : q[i] \in S => i \in K
  BY DEF PosIn
<1>h. HIDE DEF K, c, pos, p
<1>7. \A k \in 1..c : p[k] = q[pos(k)] /\ p[k] \in T
  BY <1>3, <1>4, <1>5
<1>8. p \in Seq(T) /\ Len(p) = c
  BY <1>2, <1>4, <1>7
<1>9. \A i \in K : \E k \in 1..c : pos(k) = i
  BY <1>2, <1>3
<1>10. Elems(p) = Elems(q) \cap S
  <2>1. \A k \in 1..c : p[k] \in Elems(q) \cap S
    BY <1>3, <1>5, <1>7 DEF Elems
  <2>2. ASSUME NEW e \in Elems(q), e \in S PROVE \E k \in 1..c : p[k] = e
    <3>1. PICK i \in 1..Len(q) : e = q[i]
      BY DEF Elems
    <3>2. i \in K
      BY <1>6, <2>2, <3>1
    <3>3. PICK k \in 1..c : pos(k) = i
      BY <1>9, <3>2
    <3> QED BY <1>7, <3>1, <3>3
  <2> QED BY <1>8, <2>1, <2>2 DEF Elems
<1>11. ASSUME NoDup(q) PROVE NoDup(p)
  BY <1>3, <1>5, <1>7, <1>8, <1>11 DEF NoDup
<1> QED BY <1>8, <1>10, <1>11 DEF p

-----------------------------------------------------------------------------
(* A manager that is sound *)

Blocks(n) == 0..(n - 1)

\* The sequences and the regions that hold b, and the reference a panic left.
HeldBySeqs(x, b) == {s \in Seqs : b \in Elems(x.map[s].ids)}
HeldByRegions(x, b) == {r \in Regions : b \in Elems(x.resv[r])}
Stranded(x, b) == IF b \in x.lost THEN 1 ELSE 0

RefExact(x, n) ==
    \A b \in Blocks(n) :
        x.ref[b] = Cardinality(HeldBySeqs(x, b)) + Cardinality(HeldByRegions(x, b))
                     + Stranded(x, b)

FreeExact(x, n) ==
    /\ Elems(x.free) = {b \in Blocks(n) : x.ref[b] = 0}
    /\ NoDup(x.free)
    /\ \A b \in Blocks(n) : x.status[b] = "Free" <=> x.ref[b] = 0

\* A labelled block is full: what makes a block found by its label fit.
LabelsFull(x, n) == \A b \in Blocks(n) : x.hash[b] # NoHash => x.len[b] = BlockSize

\* Block i of the map of s holds the tokens of s that it should.
BlockOK(x, s, i) ==
    LET bm == x.map[s]
    IN  IF i * BlockSize <= bm.slots
        THEN /\ x.len[bm.ids[i]] = BlockSize
             /\ x.hash[bm.ids[i]] = BlockHash[s][i]
        ELSE /\ x.len[bm.ids[i]] = bm.slots - (i - 1) * BlockSize
             /\ x.hash[bm.ids[i]] = NoHash
             /\ x.ref[bm.ids[i]] = 1

\* The map of s, a sequence of t tokens.
MapOK(x, s, t) ==
    LET bm == x.map[s]
    IN  /\ bm.filled <= bm.slots /\ bm.slots <= t
        /\ Len(bm.ids) = CeilDiv(bm.slots, BlockSize)
        /\ NoDup(bm.ids)
        /\ \A i \in 1..Len(bm.ids) : BlockOK(x, s, i)
        /\ ~bm.live => bm = NoMap

RegionOK(x, r) ==
    /\ NoDup(x.resv[r])
    /\ \A i, j \in 1..Len(x.resv[r]) :
          x.hash[x.resv[r][i]] = x.hash[x.resv[r][j]] => i = j
    /\ \A i \in 1..Len(x.resv[r]) : x.hash[x.resv[r][i]] # NoHash

\* tl gives the number of tokens of each sequence.
Sound(x, n, tl) ==
    /\ x \in Manager(n)
    /\ RefExact(x, n)
    /\ FreeExact(x, n)
    /\ LabelsFull(x, n)
    /\ \A s \in Seqs : MapOK(x, s, tl[s])
    /\ \A r \in Regions : RegionOK(x, r)

\* The hash table names only blocks that carry the label.
TableOK(x) == \A h \in Hashes : x.table[h] # NoBlock => x.hash[x.table[h]] = h

-----------------------------------------------------------------------------
(* The manager record *)

Whole(x) ==
    x = [total |-> x.total, free |-> x.free, ref |-> x.ref, status |-> x.status,
         len |-> x.len, hash |-> x.hash, table |-> x.table, map |-> x.map,
         resv |-> x.resv, exhausted |-> x.exhausted, lost |-> x.lost]

\* A manager has the fields of the struct, each of its type.
LEMMA ManagerFields ==
  ASSUME NEW n \in Nat, NEW x \in Manager(n)
  PROVE  /\ Whole(x)
         /\ x.total = n
         /\ x.free \in Seq(Blocks(n))
         /\ x.ref \in [Blocks(n) -> Int]
         /\ x.status \in [Blocks(n) -> {"Free", "Used"}]
         /\ x.len \in [Blocks(n) -> 0..BlockSize]
         /\ x.hash \in [Blocks(n) -> Hashes \union {NoHash}]
         /\ x.table \in [Hashes -> Blocks(n) \union {NoBlock}]
         /\ x.map \in [Seqs -> BlockMap(n)]
         /\ x.resv \in [Regions -> Seq(Blocks(n))]
         /\ x.exhausted \in BOOLEAN
         /\ x.lost \in SUBSET Blocks(n)
BY DEF Whole, Manager, Blocks

\* A record with those fields is a manager.
LEMMA ManagerOfFields ==
  ASSUME NEW n \in Nat, NEW x, Whole(x),
         x.total = n,
         x.free \in Seq(Blocks(n)),
         x.ref \in [Blocks(n) -> Int],
         x.status \in [Blocks(n) -> {"Free", "Used"}],
         x.len \in [Blocks(n) -> 0..BlockSize],
         x.hash \in [Blocks(n) -> Hashes \union {NoHash}],
         x.table \in [Hashes -> Blocks(n) \union {NoBlock}],
         x.map \in [Seqs -> BlockMap(n)],
         x.resv \in [Regions -> Seq(Blocks(n))],
         x.exhausted \in BOOLEAN,
         x.lost \in SUBSET Blocks(n)
  PROVE  x \in Manager(n)
BY DEF Whole, Manager, Blocks

\* The entries of the map and of the regions are sequences of blocks.
LEMMA MapFields ==
  ASSUME NEW n \in Nat, NEW x \in Manager(n), NEW s \in Seqs
  PROVE  /\ x.map[s] \in BlockMap(n)
         /\ x.map[s].live \in BOOLEAN
         /\ x.map[s].ids \in Seq(Blocks(n))
         /\ x.map[s].slots \in 0..MaxLen
         /\ x.map[s].filled \in 0..MaxLen
         /\ Len(x.map[s].ids) \in Nat
         /\ \A i \in 1..Len(x.map[s].ids) : x.map[s].ids[i] \in Blocks(n)
<1>1. x.map[s] \in BlockMap(n)
  BY ManagerFields
<1>2. /\ x.map[s].live \in BOOLEAN
      /\ x.map[s].ids \in Seq(Blocks(n))
      /\ x.map[s].slots \in 0..MaxLen
      /\ x.map[s].filled \in 0..MaxLen
  BY <1>1 DEF BlockMap, Blocks
<1> QED BY <1>1, <1>2

-----------------------------------------------------------------------------
(* Counting the holders of a block *)

\* One, or nothing.
Unit(p) == IF p THEN 1 ELSE 0

\* The holders of a block are finitely many.
LEMMA HoldersFinite ==
  ASSUME NEW x, NEW b
  PROVE  /\ IsFiniteSet(HeldBySeqs(x, b)) /\ Cardinality(HeldBySeqs(x, b)) \in Nat
         /\ IsFiniteSet(HeldByRegions(x, b)) /\ Cardinality(HeldByRegions(x, b)) \in Nat
<1>1. HeldBySeqs(x, b) \in SUBSET Seqs /\ HeldByRegions(x, b) \in SUBSET Regions
  BY DEF HeldBySeqs, HeldByRegions
<1>2. IsFiniteSet(HeldBySeqs(x, b)) /\ IsFiniteSet(HeldByRegions(x, b))
  BY <1>1, FS_Subset, FiniteAssumption
<1> QED BY <1>2, FS_CardinalityType

\* Two finite sets that agree but for e differ in size by what they say of e.
LEMMA OneElement ==
  ASSUME NEW A, NEW B, NEW e, IsFiniteSet(A), IsFiniteSet(B), A \ {e} = B \ {e}
  PROVE  Cardinality(B) = Cardinality(A) + Unit(e \in B) - Unit(e \in A)
<1>1. Cardinality(A) \in Nat /\ Cardinality(B) \in Nat
  BY FS_CardinalityType
<1>2. Cardinality(A \ {e}) = IF e \in A THEN Cardinality(A) - 1 ELSE Cardinality(A)
  BY FS_RemoveElement
<1>3. Cardinality(B \ {e}) = IF e \in B THEN Cardinality(B) - 1 ELSE Cardinality(B)
  BY FS_RemoveElement
<1> QED BY <1>1, <1>2, <1>3 DEF Unit

\* When only the map of s changes, the holders of b change by s at most.
LEMMA CountSeq ==
  ASSUME NEW x, NEW y, NEW s \in Seqs, NEW b,
         \A t \in Seqs : t # s => y.map[t].ids = x.map[t].ids
  PROVE  Cardinality(HeldBySeqs(y, b)) =
             Cardinality(HeldBySeqs(x, b)) + Unit(b \in Elems(y.map[s].ids))
                                           - Unit(b \in Elems(x.map[s].ids))
<1>1. HeldBySeqs(x, b) \ {s} = HeldBySeqs(y, b) \ {s}
  BY DEF HeldBySeqs
<1>2. /\ s \in HeldBySeqs(x, b) <=> b \in Elems(x.map[s].ids)
      /\ s \in HeldBySeqs(y, b) <=> b \in Elems(y.map[s].ids)
  BY DEF HeldBySeqs
<1>3. Cardinality(HeldBySeqs(y, b)) =
         Cardinality(HeldBySeqs(x, b)) + Unit(s \in HeldBySeqs(y, b))
                                       - Unit(s \in HeldBySeqs(x, b))
  BY <1>1, HoldersFinite, OneElement
<1> QED BY <1>2, <1>3 DEF Unit

\* When only region r changes, the holders of b change by r at most.
LEMMA CountRegion ==
  ASSUME NEW x, NEW y, NEW r \in Regions, NEW b,
         \A q \in Regions : q # r => y.resv[q] = x.resv[q]
  PROVE  Cardinality(HeldByRegions(y, b)) =
             Cardinality(HeldByRegions(x, b)) + Unit(b \in Elems(y.resv[r]))
                                              - Unit(b \in Elems(x.resv[r]))
<1>1. HeldByRegions(x, b) \ {r} = HeldByRegions(y, b) \ {r}
  BY DEF HeldByRegions
<1>2. /\ r \in HeldByRegions(x, b) <=> b \in Elems(x.resv[r])
      /\ r \in HeldByRegions(y, b) <=> b \in Elems(y.resv[r])
  BY DEF HeldByRegions
<1>3. Cardinality(HeldByRegions(y, b)) =
         Cardinality(HeldByRegions(x, b)) + Unit(r \in HeldByRegions(y, b))
                                          - Unit(r \in HeldByRegions(x, b))
  BY <1>1, HoldersFinite, OneElement
<1> QED BY <1>2, <1>3 DEF Unit

\* The counts stay exact when they follow what s holds.
LEMMA RefBySeq ==
  ASSUME NEW n \in Nat, NEW x, RefExact(x, n), NEW y, NEW s \in Seqs,
         \A t \in Seqs : t # s => y.map[t].ids = x.map[t].ids,
         y.resv = x.resv, y.lost = x.lost,
         \A b \in Blocks(n) :
            y.ref[b] = x.ref[b] + Unit(b \in Elems(y.map[s].ids))
                                - Unit(b \in Elems(x.map[s].ids))
  PROVE  RefExact(y, n)
<1> SUFFICES ASSUME NEW b \in Blocks(n)
             PROVE  y.ref[b] = Cardinality(HeldBySeqs(y, b))
                                 + Cardinality(HeldByRegions(y, b)) + Stranded(y, b)
  BY Zenon DEF RefExact
<1>1. Cardinality(HeldBySeqs(y, b)) =
         Cardinality(HeldBySeqs(x, b)) + Unit(b \in Elems(y.map[s].ids))
                                       - Unit(b \in Elems(x.map[s].ids))
  <2>1. \A t \in Seqs : t # s => y.map[t].ids = x.map[t].ids
    OBVIOUS
  <2> QED BY ONLY <2>1, s \in Seqs, CountSeq
<1>2. HeldByRegions(y, b) = HeldByRegions(x, b) /\ Stranded(y, b) = Stranded(x, b)
  BY DEF HeldByRegions, Stranded
<1>3. x.ref[b] = Cardinality(HeldBySeqs(x, b)) + Cardinality(HeldByRegions(x, b))
                   + Stranded(x, b)
  BY DEF RefExact
<1>4. /\ Cardinality(HeldBySeqs(x, b)) \in Nat /\ Cardinality(HeldByRegions(x, b)) \in Nat
      /\ Stranded(x, b) \in Nat
      /\ Unit(b \in Elems(y.map[s].ids)) \in Nat /\ Unit(b \in Elems(x.map[s].ids)) \in Nat
  BY HoldersFinite DEF Stranded, Unit
<1> QED BY <1>1, <1>2, <1>3, <1>4

\* The counts stay exact when they follow what region r holds.
LEMMA RefByRegion ==
  ASSUME NEW n \in Nat, NEW x, RefExact(x, n), NEW y, NEW r \in Regions,
         \A q \in Regions : q # r => y.resv[q] = x.resv[q],
         y.map = x.map, y.lost = x.lost,
         \A b \in Blocks(n) :
            y.ref[b] = x.ref[b] + Unit(b \in Elems(y.resv[r]))
                                - Unit(b \in Elems(x.resv[r]))
  PROVE  RefExact(y, n)
<1> SUFFICES ASSUME NEW b \in Blocks(n)
             PROVE  y.ref[b] = Cardinality(HeldBySeqs(y, b))
                                 + Cardinality(HeldByRegions(y, b)) + Stranded(y, b)
  BY Zenon DEF RefExact
<1>1. Cardinality(HeldByRegions(y, b)) =
         Cardinality(HeldByRegions(x, b)) + Unit(b \in Elems(y.resv[r]))
                                          - Unit(b \in Elems(x.resv[r]))
  <2>1. \A q \in Regions : q # r => y.resv[q] = x.resv[q]
    OBVIOUS
  <2> QED BY ONLY <2>1, r \in Regions, CountRegion
<1>2. HeldBySeqs(y, b) = HeldBySeqs(x, b) /\ Stranded(y, b) = Stranded(x, b)
  BY DEF HeldBySeqs, Stranded
<1>3. x.ref[b] = Cardinality(HeldBySeqs(x, b)) + Cardinality(HeldByRegions(x, b))
                   + Stranded(x, b)
  BY DEF RefExact
<1>4. /\ Cardinality(HeldBySeqs(x, b)) \in Nat /\ Cardinality(HeldByRegions(x, b)) \in Nat
      /\ Stranded(x, b) \in Nat
      /\ Unit(b \in Elems(y.resv[r])) \in Nat /\ Unit(b \in Elems(x.resv[r])) \in Nat
  BY HoldersFinite DEF Stranded, Unit
<1> QED BY <1>1, <1>2, <1>3, <1>4

\* The counts stay exact when they follow what a panic strands.
LEMMA RefByLost ==
  ASSUME NEW n \in Nat, NEW x, RefExact(x, n), NEW y,
         y.map = x.map, y.resv = x.resv,
         \A b \in Blocks(n) :
            y.ref[b] = x.ref[b] + Unit(b \in y.lost) - Unit(b \in x.lost)
  PROVE  RefExact(y, n)
<1> SUFFICES ASSUME NEW b \in Blocks(n)
             PROVE  y.ref[b] = Cardinality(HeldBySeqs(y, b))
                                 + Cardinality(HeldByRegions(y, b)) + Stranded(y, b)
  BY Zenon DEF RefExact
<1>1. /\ Stranded(y, b) = Unit(b \in y.lost) /\ Stranded(x, b) = Unit(b \in x.lost)
      /\ Unit(b \in y.lost) \in Nat /\ Unit(b \in x.lost) \in Nat
  BY DEF Stranded, Unit
<1>2. HeldBySeqs(y, b) = HeldBySeqs(x, b) /\ HeldByRegions(y, b) = HeldByRegions(x, b)
  BY DEF HeldBySeqs, HeldByRegions
<1>3. x.ref[b] = Cardinality(HeldBySeqs(x, b)) + Cardinality(HeldByRegions(x, b))
                   + Stranded(x, b)
  BY DEF RefExact
<1>4. Cardinality(HeldBySeqs(x, b)) \in Nat /\ Cardinality(HeldByRegions(x, b)) \in Nat
  BY HoldersFinite
<1> QED BY <1>1, <1>2, <1>3, <1>4

\* The count of a block tells who may hold it: nobody at 0, s alone at 1.
LEMMA Holders ==
  ASSUME NEW x, NEW n \in Nat, RefExact(x, n), NEW b \in Blocks(n)
  PROVE  /\ x.ref[b] \in Nat
         /\ x.ref[b] = 0 =>
              /\ \A s \in Seqs : b \notin Elems(x.map[s].ids)
              /\ \A r \in Regions : b \notin Elems(x.resv[r])
              /\ b \notin x.lost
         /\ \A s \in Seqs : b \in Elems(x.map[s].ids) =>
              /\ x.ref[b] >= 1
              /\ x.ref[b] = 1 =>
                   /\ \A t \in Seqs : b \in Elems(x.map[t].ids) => t = s
                   /\ \A r \in Regions : b \notin Elems(x.resv[r])
         /\ \A r \in Regions : b \in Elems(x.resv[r]) => x.ref[b] >= 1
<1> DEFINE S == HeldBySeqs(x, b)
           R == HeldByRegions(x, b)
<1>1. IsFiniteSet(S) /\ Cardinality(S) \in Nat /\ IsFiniteSet(R) /\ Cardinality(R) \in Nat
  BY HoldersFinite
<1>2. x.ref[b] = Cardinality(S) + Cardinality(R) + Stranded(x, b)
  BY DEF RefExact
<1>3. Stranded(x, b) \in {0, 1} /\ (b \in x.lost => Stranded(x, b) = 1)
  BY DEF Stranded
<1>4. /\ Cardinality(S) = 0 <=> S = {}
      /\ Cardinality(R) = 0 <=> R = {}
  BY <1>1, FS_EmptySet
<1>5. Cardinality(S) = 1 => \E e : S = {e}
  BY <1>1, FS_Singleton
<1>6. /\ \A s \in Seqs : b \in Elems(x.map[s].ids) <=> s \in S
      /\ \A r \in Regions : b \in Elems(x.resv[r]) <=> r \in R
  BY DEF HeldBySeqs, HeldByRegions
<1> HIDE DEF S, R
<1>7. x.ref[b] \in Nat
  BY <1>1, <1>2, <1>3
<1>8. x.ref[b] = 0 => S = {} /\ R = {} /\ b \notin x.lost
  BY <1>1, <1>2, <1>3, <1>4
<1>9. S # {} \/ R # {} => x.ref[b] >= 1
  BY <1>1, <1>2, <1>3, <1>4
<1>10. S # {} /\ x.ref[b] = 1 => Cardinality(S) = 1 /\ R = {}
  BY <1>1, <1>2, <1>3, <1>4
<1>11. \A s \in S : x.ref[b] = 1 => S = {s} /\ R = {}
  BY <1>5, <1>10
<1> QED BY <1>6, <1>7, <1>8, <1>9, <1>11

-----------------------------------------------------------------------------
(* Holders an operation does not touch *)

\* A map stays right when its blocks keep their labels and their tokens, and
\* the partly filled one its count.
LEMMA MapFrame ==
  ASSUME NEW n \in Nat, NEW x \in Manager(n), NEW y, NEW s \in Seqs, NEW t,
         MapOK(x, s, t), y.map[s] = x.map[s],
         \A b \in Elems(x.map[s].ids) :
            /\ y.len[b] = x.len[b]
            /\ y.hash[b] = x.hash[b]
            /\ x.ref[b] = 1 /\ x.hash[b] = NoHash => y.ref[b] = 1
  PROVE  MapOK(y, s, t)
<1>1. ASSUME NEW i \in 1..Len(x.map[s].ids) PROVE BlockOK(y, s, i)
  <2>1. x.map[s].ids[i] \in Elems(x.map[s].ids)
    BY DEF Elems
  <2>2. BlockOK(x, s, i)
    BY DEF MapOK
  <2> QED BY <2>1, <2>2 DEF BlockOK
<1> QED BY <1>1 DEF MapOK

\* A region stays right when its blocks keep their labels.
LEMMA RegionFrame ==
  ASSUME NEW x, NEW y, NEW r \in Regions,
         RegionOK(x, r), y.resv[r] = x.resv[r],
         \A b \in Elems(x.resv[r]) : y.hash[b] = x.hash[b]
  PROVE  RegionOK(y, r)
<1>1. \A i \in 1..Len(x.resv[r]) : y.hash[x.resv[r][i]] = x.hash[x.resv[r][i]]
  BY DEF Elems
<1> QED BY <1>1 DEF RegionOK

-----------------------------------------------------------------------------
(* Blocks found by their label *)

\* ids carry the labels of the blocks of s after the first j.
Labelled(x, s, j, ids) ==
    \A i \in 1..Len(ids) : x.hash[ids[i]] = BlockHash[s][j + i]

\* The blocks of ids, and their labels, are different.
AllDistinct(x, ids) ==
    /\ NoDup(ids)
    /\ \A i, k \in 1..Len(ids) : x.hash[ids[i]] = x.hash[ids[k]] => i = k
    /\ \A i \in 1..Len(ids) : x.hash[ids[i]] \in Hashes /\ x.hash[ids[i]] # NoHash

\* A hash is the hash of one depth only, so blocks with the labels of
\* different depths are different.
LEMMA ByDepth ==
  ASSUME NEW n \in Nat, NEW x \in Manager(n), NEW s \in Seqs, NEW j \in Nat,
         NEW ids \in Seq(Blocks(n)), j + Len(ids) <= NumFull,
         Labelled(x, s, j, ids)
  PROVE  AllDistinct(x, ids)
<1>0. NumFull \in Nat
  BY DivBounds, SizeAssumption DEF NumFull
<1>1. \A i \in 1..Len(ids) : j + i \in 1..NumFull
  BY <1>0
<1>l. \A i \in 1..Len(ids) : x.hash[ids[i]] = BlockHash[s][j + i]
  BY DEF Labelled
<1>2. \A i, k \in 1..Len(ids) : x.hash[ids[i]] = x.hash[ids[k]] => i = k
  <2> SUFFICES ASSUME NEW i \in 1..Len(ids), NEW k \in 1..Len(ids),
                      x.hash[ids[i]] = x.hash[ids[k]]
               PROVE  i = k
    OBVIOUS
  <2>1. BlockHash[s][j + i] = BlockHash[s][j + k]
    BY <1>l
  <2>2. \A d, e \in 1..NumFull : BlockHash[s][d] = BlockHash[s][e] => d = e
    BY ChainAssumption
  <2>3. j + i = j + k
    BY <1>1, <2>1, <2>2
  <2> QED BY <2>3
<1>3. \A i \in 1..Len(ids) : BlockHash[s][j + i] \in Hashes
  BY <1>1, HashAssumption
<1>4. \A i \in 1..Len(ids) : x.hash[ids[i]] \in Hashes /\ x.hash[ids[i]] # NoHash
  BY <1>l, <1>3, HashAssumption DEF NoHash
<1> QED BY <1>2, <1>4 DEF NoDup, AllDistinct

\* lookup_block_id returns a block with the label it looks for, or none.
LEMMA Lookup ==
  ASSUME NEW n \in Nat, NEW x \in Manager(n), NEW h \in Hashes,
         lookup_block_id(x, h) # NoBlock
  PROVE  /\ lookup_block_id(x, h) \in Blocks(n)
         /\ x.hash[lookup_block_id(x, h)] = h
<1>1. x.table[h] \in Blocks(n) \union {NoBlock}
  BY ManagerFields
<1> QED BY <1>1 DEF lookup_block_id

\* The blocks that blocks j + 1, j + 2, ... of s hit, up to block q.
HitsFrom(x, s, j, q) ==
    [i \in 1..NumHits(x, s, j, q) |-> lookup_block_id(x, BlockHash[s][j + i])]

\* The search of the prefix cache stops at the first miss: the blocks it
\* returns are blocks of the pool with the labels of s from depth j + 1 on.
LEMMA PrefixHits ==
  ASSUME NEW n \in Nat, NEW x \in Manager(n), NEW s \in Seqs,
         NEW j \in Nat, NEW q \in Nat, j <= q, q <= NumFull,
         NEW ids, ids = HitsFrom(x, s, j, q)
  PROVE  /\ ids \in Seq(Blocks(n))
         /\ j + Len(ids) <= q
         /\ Labelled(x, s, j, ids)
<1> DEFINE hit(i) == lookup_block_id(x, BlockHash[s][j + i]) # NoBlock
           T == {k \in 0..(q - j) : k < q - j => ~hit(k + 1)}
           Stops(k) == /\ \A i \in 1..k : hit(i)
                       /\ k < q - j => ~hit(k + 1)
<1>0. NumFull \in Nat
  BY DivBounds, SizeAssumption DEF NumFull
<1>1. T \in SUBSET Nat /\ q - j \in T
  OBVIOUS
<1>2. PICK k \in T : \A i \in T : k <= i
  BY <1>1, LeastNat
<1>3. k \in 0..(q - j) /\ (k < q - j => ~hit(k + 1))
  OBVIOUS
<1>4. ASSUME NEW i \in 1..k PROVE hit(i)
  <2>1. i - 1 \in 0..(q - j) /\ i - 1 < q - j /\ ~(k <= i - 1) /\ (i - 1) + 1 = i
    BY <1>3
  <2>2. i - 1 \notin T
    BY <1>2, <2>1
  <2> QED BY <2>1, <2>2
<1>5. Stops(k)
  BY <1>3, <1>4
<1>6. NumHits(x, s, j, q) = CHOOSE i \in 0..(q - j) : Stops(i)
  <2>1. \A i \in 0..(q - j) : j + i + 1 = j + (i + 1)
    OBVIOUS
  <2> QED BY <2>1 DEF NumHits
<1> DEFINE c == NumHits(x, s, j, q)
<1> HIDE DEF T, Stops
<1>7. c \in 0..(q - j) /\ Stops(c)
  BY <1>3, <1>5, <1>6
<1>8. c \in Nat /\ j + c <= q /\ \A i \in 1..c : hit(i)
  BY <1>7 DEF Stops
<1> HIDE DEF c
<1>9. \A i \in 1..c : j + i \in 1..NumFull
  BY <1>0, <1>8
<1>10. \A i \in 1..c : BlockHash[s][j + i] \in Hashes
  BY <1>9, HashAssumption
<1>11. ids = [i \in 1..c |-> lookup_block_id(x, BlockHash[s][j + i])]
  BY DEF c, HitsFrom
<1>12. ASSUME NEW i \in 1..c
       PROVE  ids[i] \in Blocks(n) /\ x.hash[ids[i]] = BlockHash[s][j + i]
  <2>1. ids[i] = lookup_block_id(x, BlockHash[s][j + i]) /\ ids[i] # NoBlock
    BY <1>8, <1>11
  <2> QED BY <1>10, <2>1, Lookup
<1>13. ids \in [1..c -> Blocks(n)]
  BY <1>11, <1>12
<1>14. ids \in Seq(Blocks(n)) /\ Len(ids) = c
  BY <1>8, <1>13, FunctionIsSeq
<1> QED BY <1>8, <1>12, <1>14 DEF Labelled

-----------------------------------------------------------------------------
(* alloc_blocks_by_id: a holder takes blocks that have a label *)

\* The fields after every block of ids has one reference more.
Grabbed(x, y, n, ids) ==
    /\ y.total = x.total
    /\ y.free = Kept(x.free, Blocks(n) \ Elems(ids))
    /\ y.ref = [b \in Blocks(n) |-> x.ref[b] + Unit(b \in Elems(ids))]
    /\ y.status = [b \in Blocks(n) |->
                      IF b \in Elems(ids) THEN "Used" ELSE x.status[b]]
    /\ y.len = x.len /\ y.hash = x.hash /\ y.table = x.table
    /\ y.exhausted = x.exhausted /\ y.lost = x.lost

\* alloc_blocks_by_id changes those fields and no other.
LEMMA GrabFields ==
  ASSUME NEW n \in Nat, NEW x \in Manager(n), NEW ids,
         NEW z, z = alloc_blocks_by_id(x, ids)
  PROVE  Whole(z) /\ Grabbed(x, z, n, ids) /\ z.map = x.map /\ z.resv = x.resv
<1>0. Whole(x)
  BY ManagerFields
<1>1. \A b \in Blocks(n) : x.ref[b] \in Int
  BY ManagerFields
<1>2. [b \in Blocks(n) |-> x.ref[b] + Unit(b \in Elems(ids))] =
         [b \in Blocks(n) |-> IF b \in Elems(ids) THEN x.ref[b] + 1 ELSE x.ref[b]]
  BY <1>1 DEF Unit
<1>3. DOMAIN x.ref = Blocks(n) /\ DOMAIN x.status = Blocks(n)
  BY ManagerFields
<1>4. /\ z.total = x.total
      /\ z.free = Kept(x.free, DOMAIN x.ref \ Elems(ids))
      /\ z.status = alloc_status(x, ids)
      /\ z.ref = [b \in DOMAIN x.ref |->
                     IF b \in Elems(ids) THEN x.ref[b] + 1 ELSE x.ref[b]]
      /\ z.len = x.len /\ z.hash = x.hash /\ z.table = x.table
      /\ z.exhausted = x.exhausted /\ z.lost = x.lost
      /\ z.map = x.map /\ z.resv = x.resv
  BY DEF alloc_blocks_by_id, Manager
<1>5. Whole(z)
  BY <1>0 DEF alloc_blocks_by_id, Whole
<1>6. Grabbed(x, z, n, ids)
  BY <1>2, <1>3, <1>4 DEF Grabbed, alloc_status
<1> QED BY <1>4, <1>5, <1>6

\* The free list loses the blocks that were on it.
LEMMA GrabFree ==
  ASSUME NEW n \in Nat, NEW x \in Manager(n), RefExact(x, n), FreeExact(x, n),
         NEW y, NEW ids \in Seq(Blocks(n)), Grabbed(x, y, n, ids)
  PROVE  FreeExact(y, n) /\ y.free \in Seq(Blocks(n))
<1>1. x.free \in Seq(Blocks(n)) /\ NoDup(x.free)
  BY ManagerFields DEF FreeExact
<1>2. /\ y.free \in Seq(Blocks(n))
      /\ Elems(y.free) = Elems(x.free) \cap (Blocks(n) \ Elems(ids))
      /\ NoDup(y.free)
  BY <1>1, KeptLemma DEF Grabbed
<1>3. \A b \in Blocks(n) : x.ref[b] \in Nat
  BY Holders
<1>4. \A b \in Blocks(n) : y.ref[b] = 0 <=> x.ref[b] = 0 /\ b \notin Elems(ids)
  BY <1>3 DEF Grabbed, Unit
<1>5. Elems(y.free) = {b \in Blocks(n) : y.ref[b] = 0}
  BY <1>2, <1>4 DEF FreeExact
<1>6. \A b \in Blocks(n) : y.status[b] = "Free" <=> y.ref[b] = 0
  BY <1>4 DEF FreeExact, Grabbed
<1> QED BY <1>2, <1>5, <1>6 DEF FreeExact

\* A manager stays a manager.
LEMMA GrabType ==
  ASSUME NEW n \in Nat, NEW x \in Manager(n), RefExact(x, n), FreeExact(x, n),
         NEW y, NEW ids \in Seq(Blocks(n)), Grabbed(x, y, n, ids), Whole(y),
         y.map \in [Seqs -> BlockMap(n)], y.resv \in [Regions -> Seq(Blocks(n))]
  PROVE  y \in Manager(n)
<1>1. y.free \in Seq(Blocks(n))
  BY GrabFree
<1>2. \A b \in Blocks(n) : x.ref[b] + Unit(b \in Elems(ids)) \in Int
  BY ManagerFields DEF Unit
<1>3. y.ref \in [Blocks(n) -> Int]
  BY <1>2 DEF Grabbed
<1>4. y.status \in [Blocks(n) -> {"Free", "Used"}]
  BY ManagerFields DEF Grabbed
<1>5. /\ y.total = n
      /\ y.len \in [Blocks(n) -> 0..BlockSize]
      /\ y.hash \in [Blocks(n) -> Hashes \union {NoHash}]
      /\ y.table \in [Hashes -> Blocks(n) \union {NoBlock}]
      /\ y.exhausted \in BOOLEAN
      /\ y.lost \in SUBSET Blocks(n)
  BY ManagerFields DEF Grabbed
<1> QED BY <1>1, <1>3, <1>4, <1>5, ManagerOfFields

\* The holders whose blocks stay the same are as right as they were.
GrabKeeps(x, y, n, tl) ==
    /\ \A t \in Seqs : y.map[t] = x.map[t] => MapOK(y, t, tl[t])
    /\ \A r \in Regions : y.resv[r] = x.resv[r] => RegionOK(y, r)
    /\ LabelsFull(y, n)

\* The maps and regions of everyone else stay right: only labelled blocks
\* get a reference, and a partly filled block has no label.
LEMMA GrabFrame ==
  ASSUME NEW n \in Nat, NEW x, NEW tl, Sound(x, n, tl),
         NEW y, NEW ids \in Seq(Blocks(n)), Grabbed(x, y, n, ids),
         \A i \in 1..Len(ids) : x.hash[ids[i]] # NoHash
  PROVE  GrabKeeps(x, y, n, tl)
<1>0. x \in Manager(n) /\ LabelsFull(x, n)
  BY DEF Sound
<1>1. ASSUME NEW t \in Seqs, y.map[t] = x.map[t] PROVE MapOK(y, t, tl[t])
  <2>1. MapOK(x, t, tl[t])
    BY DEF Sound
  <2>2. ASSUME NEW b \in Elems(x.map[t].ids)
        PROVE  /\ y.len[b] = x.len[b] /\ y.hash[b] = x.hash[b]
               /\ x.ref[b] = 1 /\ x.hash[b] = NoHash => y.ref[b] = 1
    <3>1. b \in Blocks(n)
      BY <1>0, MapFields DEF Elems
    <3>2. x.hash[b] = NoHash => b \notin Elems(ids)
      BY DEF Elems
    <3> QED BY <3>1, <3>2 DEF Grabbed, Unit
  <2> QED BY <1>0, <1>1, <2>1, <2>2, MapFrame
<1>2. ASSUME NEW r \in Regions, y.resv[r] = x.resv[r] PROVE RegionOK(y, r)
  <2>1. RegionOK(x, r) /\ y.hash = x.hash
    BY DEF Sound, Grabbed
  <2> QED BY <1>2, <2>1, RegionFrame
<1>3. LabelsFull(y, n)
  BY <1>0 DEF LabelsFull, Grabbed
<1> QED BY <1>1, <1>2, <1>3 DEF GrabKeeps

\* The map of a sequence that holds cached blocks only, of s with t tokens.
CachedMap(x, s, bm, t) ==
    /\ bm.live
    /\ bm.slots = Len(bm.ids) * BlockSize /\ bm.filled = bm.slots /\ bm.slots <= t
    /\ Labelled(x, s, 0, bm.ids)

\* s takes ids after the blocks it holds; its new map is bm.
GrabsFor(x, y, n, s, ids, bm) ==
    /\ Whole(y) /\ Grabbed(x, y, n, ids)
    /\ y.map = [x.map EXCEPT ![s] = bm] /\ y.resv = x.resv
    /\ bm.ids = x.map[s].ids \o ids

\* Such a map has different blocks, all labelled, and its length fits.
LEMMA CachedMapFacts ==
  ASSUME NEW n \in Nat, NEW x \in Manager(n), NEW s \in Seqs, NEW t \in 0..MaxLen,
         NEW bm \in BlockMap(n), CachedMap(x, s, bm, t)
  PROVE  /\ NoDup(bm.ids)
         /\ \A i \in 1..Len(bm.ids) : x.hash[bm.ids[i]] # NoHash
         /\ Len(bm.ids) = CeilDiv(bm.slots, BlockSize)
         /\ \A i \in 1..Len(bm.ids) : i * BlockSize <= bm.slots
<1> DEFINE ids == bm.ids
           L == Len(ids)
<1>1. ids \in Seq(Blocks(n)) /\ bm.slots \in 0..MaxLen
  BY DEF BlockMap, Blocks
<1>2. bm.slots = L * BlockSize /\ bm.slots <= t /\ Labelled(x, s, 0, ids)
  BY DEF CachedMap
<1>3. L \in Nat /\ BlockSize \in Nat \ {0} /\ MaxLen \in Nat
  BY <1>1, SizeAssumption
<1> HIDE DEF ids, L
<1>4. L <= NumFull
  <2>1. NumFull \in Nat /\ MaxLen < NumFull * BlockSize + BlockSize
    BY <1>3, DivBounds DEF NumFull
  <2>2. NumFull < L => NumFull * BlockSize + BlockSize <= L * BlockSize
    BY <1>3, <2>1, MulMono
  <2>3. L * BlockSize <= MaxLen
    BY <1>1, <1>2
  <2>4. L * BlockSize \in Nat /\ NumFull * BlockSize \in Nat
    BY <1>3, <2>1
  <2> QED BY <1>3, <2>1, <2>2, <2>3, <2>4
<1>5. NoDup(ids) /\ \A i \in 1..L : x.hash[ids[i]] # NoHash
  <2>1. 0 + L <= NumFull
    BY <1>3, <1>4
  <2>2. AllDistinct(x, ids)
    BY <1>1, <1>2, <2>1, ByDepth DEF L
  <2> QED BY <2>2 DEF AllDistinct, L
<1>6. L = CeilDiv(L * BlockSize, BlockSize)
  BY <1>3 DEF CeilDiv
<1>7. \A i \in 1..L : i * BlockSize <= L * BlockSize
  BY <1>3
<1> QED BY <1>2, <1>5, <1>6, <1>7 DEF ids, L

\* s holds full blocks only, and all its slots are filled.
AllCached(x, s) ==
    /\ x.map[s].slots = x.map[s].filled
    /\ x.map[s].slots = BlockSize * Len(x.map[s].ids)

\* What a call for s leaves alone: the labels, the regions, the other maps.
OnlyMap(x, y, s) ==
    /\ y.hash = x.hash /\ y.resv = x.resv
    /\ \A t \in Seqs : t # s => y.map[t] = x.map[t]
    /\ y.exhausted = x.exhausted /\ y.lost = x.lost

\* s has the blocks of bm, all of them cached.
LEMMA GrabbedMap ==
  ASSUME NEW n \in Nat, NEW x \in Manager(n), NEW s \in Seqs, NEW ids, NEW bm \in BlockMap(n),
         NEW y, GrabsFor(x, y, n, s, ids, bm), NEW t, CachedMap(x, s, bm, t)
  PROVE  OnlyMap(x, y, s) /\ AllCached(y, s) /\ y.map[s].live
<1>1. /\ y.map = [x.map EXCEPT ![s] = bm] /\ y.resv = x.resv /\ y.hash = x.hash
      /\ y.exhausted = x.exhausted /\ y.lost = x.lost
  BY DEF GrabsFor, Grabbed
<1>2. x.map \in [Seqs -> BlockMap(n)]
  BY ManagerFields
<1>3. y.map[s] = bm /\ \A q \in Seqs : q # s => y.map[q] = x.map[q]
  BY <1>1, <1>2
<1>4. bm.live /\ bm.slots = Len(bm.ids) * BlockSize /\ bm.filled = bm.slots
  BY DEF CachedMap
<1>5. Len(bm.ids) * BlockSize = BlockSize * Len(bm.ids)
  <2>1. Len(bm.ids) \in Nat
    BY DEF BlockMap
  <2> QED BY ONLY <2>1, SizeAssumption
<1>6. AllCached(y, s)
  BY <1>3, <1>4, <1>5 DEF AllCached
<1> QED BY <1>1, <1>3, <1>4, <1>6 DEF OnlyMap

\* init_prefix_cache_blocks and update_prefix_cache_blocks: s takes over ids,
\* so that its blocks carry the labels of its prefix.
LEMMA GrabSeq ==
  ASSUME NEW n \in Nat, NEW tl \in [Seqs -> 0..MaxLen], NEW x, Sound(x, n, tl),
         NEW s \in Seqs, NEW ids \in Seq(Blocks(n)), NEW y, NEW bm \in BlockMap(n),
         CachedMap(x, s, bm, tl[s]), GrabsFor(x, y, n, s, ids, bm)
  PROVE  Sound(y, n, tl) /\ (TableOK(x) => TableOK(y))
<1>0. x \in Manager(n) /\ RefExact(x, n) /\ FreeExact(x, n) /\ LabelsFull(x, n)
  BY DEF Sound
<1> DEFINE old == x.map[s].ids
           all == bm.ids
           L == Len(old)
<1>1. old \in Seq(Blocks(n)) /\ tl[s] \in 0..MaxLen
  BY <1>0, MapFields
<1>2. /\ all = old \o ids
      /\ all \in Seq(Blocks(n)) /\ Len(all) = L + Len(ids) /\ L \in Nat /\ Len(ids) \in Nat
      /\ \A i \in 1..L : all[i] = old[i]
      /\ \A i \in 1..Len(ids) : all[L + i] = ids[i]
      /\ \A i \in 1..Len(all) : i \in 1..L \/ (i - L \in 1..Len(ids) /\ all[i] = ids[i - L])
  <2> HIDE DEF old, all
  <2>1. all = old \o ids
    BY DEF GrabsFor, old, all
  <2> QED BY <1>1, <2>1
<1>3. /\ NoDup(all)
      /\ \A i \in 1..Len(all) : x.hash[all[i]] # NoHash
      /\ Len(all) = CeilDiv(bm.slots, BlockSize)
      /\ \A i \in 1..Len(all) : i * BlockSize <= bm.slots
  BY <1>0, <1>1, CachedMapFacts
<1>5. /\ Whole(y) /\ Grabbed(x, y, n, ids)
      /\ y.map = [x.map EXCEPT ![s] = bm] /\ y.resv = x.resv
  BY DEF GrabsFor
<1>7. /\ y.map[s] = bm
      /\ \A t \in Seqs : t # s => y.map[t] = x.map[t]
      /\ y.map \in [Seqs -> BlockMap(n)]
      /\ y.resv \in [Regions -> Seq(Blocks(n))]
  BY <1>0, <1>5, ManagerFields
<1>8. y \in Manager(n)
  BY <1>0, <1>5, <1>7, GrabType
<1>9. RefExact(y, n)
  <2>1. /\ \A t \in Seqs : t # s => y.map[t].ids = x.map[t].ids
        /\ y.map[s].ids = all /\ x.map[s].ids = old
        /\ y.lost = x.lost /\ y.resv = x.resv
    BY <1>5, <1>7 DEF Grabbed
  <2> HIDE DEF all, old, L
  <2>2. Elems(all) = Elems(old) \union Elems(ids) /\ Elems(old) \cap Elems(ids) = {}
    BY <1>1, <1>2, <1>3, ConcatElems DEF all
  <2>4. \A b \in Blocks(n) : x.ref[b] \in Nat /\ y.ref[b] = x.ref[b] + Unit(b \in Elems(ids))
    BY <1>0, <1>5, Holders DEF Grabbed
  <2>5. \A b \in Blocks(n) :
           y.ref[b] = x.ref[b] + Unit(b \in Elems(all)) - Unit(b \in Elems(old))
    BY <2>2, <2>4 DEF Unit
  <2>6. \A b \in Blocks(n) :
           y.ref[b] = x.ref[b] + Unit(b \in Elems(y.map[s].ids))
                               - Unit(b \in Elems(x.map[s].ids))
    BY <2>1, <2>5
  <2> QED BY ONLY <1>0, <2>1, <2>6, RefBySeq, n \in Nat, s \in Seqs
<1>10. \A i \in 1..Len(ids) : x.hash[ids[i]] # NoHash
  <2> SUFFICES ASSUME NEW i \in 1..Len(ids) PROVE x.hash[ids[i]] # NoHash
    OBVIOUS
  <2> HIDE DEF old, all, L
  <2>1. L + i \in 1..Len(all) /\ all[L + i] = ids[i]
    BY <1>2
  <2>2. x.hash[all[L + i]] # NoHash
    BY <1>3, <2>1 DEF all
  <2> QED BY <2>1, <2>2
<1>11. /\ \A t \in Seqs : t # s => MapOK(y, t, tl[t])
       /\ \A r \in Regions : RegionOK(y, r)
       /\ LabelsFull(y, n)
  <2>1. GrabKeeps(x, y, n, tl)
    BY ONLY <1>5, <1>10, GrabFrame, n \in Nat, Sound(x, n, tl), ids \in Seq(Blocks(n))
  <2>2. y.resv = x.resv
    BY <1>5
  <2> QED BY ONLY <1>7, <2>1, <2>2 DEF GrabKeeps
<1>12. MapOK(y, s, tl[s])
  <2>1. ASSUME NEW i \in 1..Len(all) PROVE BlockOK(y, s, i)
    <3>1. i * BlockSize <= bm.slots
      BY <1>3
    <3>2. all[i] \in Blocks(n) /\ x.hash[all[i]] = BlockHash[s][i] /\ x.hash[all[i]] # NoHash
      <4>1. x.hash[all[i]] = BlockHash[s][i] /\ x.hash[all[i]] # NoHash
        BY <1>3 DEF CachedMap, Labelled
      <4>2. all \in Seq(Blocks(n))
        BY <1>2
      <4> HIDE DEF all
      <4>3. all[i] \in Blocks(n)
        BY <4>2
      <4> QED BY <4>1, <4>3
    <3>3. y.hash[all[i]] = BlockHash[s][i] /\ y.len[all[i]] = BlockSize
      BY <1>0, <1>5, <3>2 DEF Grabbed, LabelsFull
    <3> QED BY <1>7, <3>1, <3>3 DEF BlockOK
  <2>2. bm.live /\ bm.filled = bm.slots /\ bm.slots <= tl[s] /\ bm.slots \in Nat
    BY DEF CachedMap, BlockMap
  <2>3. bm.filled <= bm.slots
    BY <2>2
  <2> QED BY <1>3, <1>7, <2>1, <2>2, <2>3 DEF MapOK
<1>13. TableOK(x) => TableOK(y)
  BY <1>5 DEF TableOK, Grabbed
<1>14. FreeExact(y, n)
  BY <1>0, <1>5, GrabFree
<1> QED BY <1>8, <1>9, <1>11, <1>12, <1>13, <1>14 DEF Sound

\* pin_blocks_by_hashes: region r takes blocks with different labels.
LEMMA GrabRegion ==
  ASSUME NEW n \in Nat, NEW tl \in [Seqs -> 0..MaxLen], NEW x, Sound(x, n, tl),
         NEW r \in Regions, x.resv[r] = <<>>, NEW ids \in Seq(Blocks(n)), NEW y,
         Whole(y), Grabbed(x, y, n, ids), y.map = x.map,
         y.resv = [x.resv EXCEPT ![r] = ids], NoDup(ids),
         \A i, j \in 1..Len(ids) : x.hash[ids[i]] = x.hash[ids[j]] => i = j,
         \A i \in 1..Len(ids) : x.hash[ids[i]] # NoHash
  PROVE  Sound(y, n, tl) /\ (TableOK(x) => TableOK(y))
<1>0. x \in Manager(n) /\ RefExact(x, n) /\ FreeExact(x, n) /\ LabelsFull(x, n)
  BY DEF Sound
<1>1. /\ y.resv[r] = ids
      /\ \A q \in Regions : q # r => y.resv[q] = x.resv[q]
      /\ y.map \in [Seqs -> BlockMap(n)]
      /\ y.resv \in [Regions -> Seq(Blocks(n))]
  BY <1>0, ManagerFields
<1>2. y \in Manager(n)
  BY <1>0, <1>1, GrabType
<1>3. RefExact(y, n)
  <2>1. Elems(x.resv[r]) = {} /\ y.lost = x.lost
    BY DEF Elems, Grabbed
  <2>2. \A b \in Blocks(n) : x.ref[b] \in Nat /\ y.ref[b] = x.ref[b] + Unit(b \in Elems(ids))
    BY <1>0, Holders DEF Grabbed
  <2>3. \A b \in Blocks(n) :
           y.ref[b] = x.ref[b] + Unit(b \in Elems(ids)) - Unit(b \in Elems(x.resv[r]))
    BY <2>1, <2>2 DEF Unit
  <2> QED BY <1>0, <1>1, <2>1, <2>3, RefByRegion
<1>4. /\ \A t \in Seqs : MapOK(y, t, tl[t])
      /\ \A q \in Regions : q # r => RegionOK(y, q)
      /\ LabelsFull(y, n)
  <2>1. GrabKeeps(x, y, n, tl)
    BY GrabFrame
  <2> QED BY <1>1, <2>1 DEF GrabKeeps
<1>5. RegionOK(y, r)
  BY <1>1 DEF RegionOK, Grabbed
<1>6. TableOK(x) => TableOK(y)
  BY DEF TableOK, Grabbed
<1>7. FreeExact(y, n)
  BY <1>0, GrabFree
<1> QED BY <1>2, <1>3, <1>4, <1>5, <1>6, <1>7 DEF Sound

\* The blocks the prefix cache has for s from block j + 1 on, when s has the
\* blocks up to j: as many as s has tokens for, and the labels fit.
LEMMA CacheHits ==
  ASSUME NEW n \in Nat, NEW x \in Manager(n), NEW s \in Seqs, NEW t \in 0..MaxLen,
         NEW j \in Nat, j <= t \div BlockSize, NEW ids,
         ids = HitsFrom(x, s, j, t \div BlockSize)
  PROVE  /\ ids \in Seq(Blocks(n)) /\ Len(ids) \in Nat
         /\ (j + Len(ids)) * BlockSize <= t
         /\ Labelled(x, s, j, ids)
<1>1. t \in Nat /\ MaxLen \in Nat /\ t <= MaxLen
  BY SizeAssumption
<1>2. t \div BlockSize \in Nat /\ t \div BlockSize <= NumFull
  BY <1>1, DivBounds, DivMono DEF NumFull
<1>3. /\ ids \in Seq(Blocks(n)) /\ j + Len(ids) <= t \div BlockSize
      /\ Labelled(x, s, j, ids)
  <2> DEFINE q == t \div BlockSize
  <2>1. q \in Nat /\ j <= q /\ q <= NumFull /\ ids = HitsFrom(x, s, j, q)
    BY <1>2
  <2> HIDE DEF q
  <2>2. /\ ids \in Seq(Blocks(n)) /\ j + Len(ids) <= q
        /\ Labelled(x, s, j, ids)
    BY ONLY <2>1, PrefixHits, n \in Nat, x \in Manager(n), s \in Seqs, j \in Nat
  <2> QED BY <2>2 DEF q
<1>4. Len(ids) \in Nat
  BY ONLY <1>3
<1>5. j + Len(ids) \in Nat
  BY ONLY <1>4, j \in Nat
<1>6. (j + Len(ids)) * BlockSize <= t
  BY ONLY <1>1, <1>3, <1>5, FullBlocks
<1> QED BY <1>3, <1>4, <1>6

\* alloc_blocks_by_id and then the map of s.
LEMMA GrabsForFields ==
  ASSUME NEW n \in Nat, NEW x \in Manager(n), NEW ids, NEW s \in Seqs, NEW bm, NEW y,
         y = [alloc_blocks_by_id(x, ids) EXCEPT !.map[s] = bm],
         bm.ids = x.map[s].ids \o ids
  PROVE  GrabsFor(x, y, n, s, ids, bm)
<1> DEFINE z == alloc_blocks_by_id(x, ids)
<1>1. Whole(z) /\ Grabbed(x, z, n, ids) /\ z.map = x.map /\ z.resv = x.resv
  BY GrabFields
<1>2. y = [z EXCEPT !.map[s] = bm]
  OBVIOUS
<1> HIDE DEF z
<1>3. /\ Whole(y)
      /\ y.total = z.total /\ y.free = z.free /\ y.ref = z.ref
      /\ y.status = z.status /\ y.len = z.len /\ y.hash = z.hash
      /\ y.table = z.table /\ y.exhausted = z.exhausted /\ y.lost = z.lost
      /\ y.map = [z.map EXCEPT ![s] = bm] /\ y.resv = z.resv
  BY ONLY <1>1, <1>2 DEF Whole
<1>4. Grabbed(x, y, n, ids) /\ y.map = [x.map EXCEPT ![s] = bm] /\ y.resv = x.resv
  BY ONLY <1>1, <1>3 DEF Grabbed
<1> QED BY <1>3, <1>4 DEF GrabsFor

\* init_prefix_cache_blocks.
LEMMA InitSound ==
  ASSUME NEW n \in Nat, NEW tl \in [Seqs -> 0..MaxLen], NEW x, Sound(x, n, tl),
         NEW s \in Seqs, NEW y, y = init_prefix_cache_blocks(x, s, tl[s])
  PROVE  /\ Sound(y, n, tl)
         /\ TableOK(x) => TableOK(y)
         /\ y.map[s].live
         /\ ~x.map[s].live => /\ y.map[s].slots = Len(y.map[s].ids) * BlockSize
                              /\ OnlyMap(x, y, s) /\ AllCached(y, s)
<1>1. CASE x.map[s].live
  BY <1>1 DEF init_prefix_cache_blocks
<1>2. CASE ~x.map[s].live
  <2> DEFINE t == tl[s]
             ids == get_prefix_cache_blocks(x, s, t)
             L == Len(ids)
             bm == [live |-> TRUE, ids |-> ids, slots |-> BlockSize * L,
                    filled |-> BlockSize * L]
  <2>0. x \in Manager(n) /\ t \in 0..MaxLen /\ BlockSize \in Nat \ {0} /\ MaxLen \in Nat
    BY SizeAssumption DEF Sound
  <2>1. x.map[s] = NoMap
    BY <1>2 DEF Sound, MapOK
  <2>2. y = [alloc_blocks_by_id(x, ids) EXCEPT !.map[s] = bm]
    BY <1>2 DEF init_prefix_cache_blocks
  <2>3. t \div BlockSize \in Nat
    BY <2>0, DivBounds
  <2>4. /\ ids \in Seq(Blocks(n)) /\ L \in Nat
        /\ (0 + L) * BlockSize <= t
        /\ Labelled(x, s, 0, ids)
    <3>1. ids = HitsFrom(x, s, 0, t \div BlockSize)
      BY DEF get_prefix_cache_blocks, HitsFrom
    <3> HIDE DEF ids, t
    <3>2. 0 \in Nat /\ 0 <= t \div BlockSize
      BY <2>3
    <3> QED BY <2>0, <2>3, <3>1, <3>2, CacheHits
  <2> HIDE DEF ids, t
  <2>5. L * BlockSize \in Nat /\ L * BlockSize <= t /\ BlockSize * L = L * BlockSize
    BY <2>0, <2>4
  <2>7. bm \in BlockMap(n)
    <3>1. BlockSize * L \in 0..MaxLen
      BY <2>0, <2>5
    <3> HIDE DEF L
    <3> QED BY <2>4, <3>1 DEF BlockMap, Blocks
  <2>8. CachedMap(x, s, bm, t)
    <3> HIDE DEF L
    <3>1. /\ bm.live /\ bm.ids = ids /\ bm.slots = L * BlockSize /\ bm.filled = bm.slots
      BY <2>5
    <3> HIDE DEF bm
    <3> QED BY <2>4, <2>5, <3>1 DEF CachedMap, L
  <2>9. bm.ids = x.map[s].ids \o ids
    <3>1. x.map[s].ids = <<>> /\ bm.ids = ids
      BY <2>1 DEF NoMap
    <3> HIDE DEF bm
    <3> QED BY <2>4, <3>1
  <2>10. GrabsFor(x, y, n, s, ids, bm) /\ y.map[s] = bm
    <3> HIDE DEF bm
    <3>1. GrabsFor(x, y, n, s, ids, bm)
      BY <2>0, <2>2, <2>9, GrabsForFields
    <3>2. y.map = [x.map EXCEPT ![s] = bm] /\ x.map \in [Seqs -> BlockMap(n)]
      BY <2>0, <3>1, ManagerFields DEF GrabsFor
    <3>3. y.map[s] = bm
      BY ONLY <3>2, s \in Seqs
    <3> QED BY <3>1, <3>3
  <2>11. y.map[s] = bm /\ bm.live /\ bm.slots = Len(bm.ids) * BlockSize
    BY <2>5, <2>10
  <2> HIDE DEF bm
  <2>12. OnlyMap(x, y, s) /\ AllCached(y, s)
    BY <2>0, <2>7, <2>8, <2>10, GrabbedMap
  <2> QED BY <2>4, <2>7, <2>8, <2>10, <2>11, <2>12, GrabSeq DEF t
<1> QED BY <1>1, <1>2

\* The blocks of a map that holds only full blocks have the labels of s.
LEMMA FullMap ==
  ASSUME NEW n \in Nat, NEW x \in Manager(n), NEW s \in Seqs, NEW t, MapOK(x, s, t),
         x.map[s].slots = Len(x.map[s].ids) * BlockSize
  PROVE  Labelled(x, s, 0, x.map[s].ids)
<1> DEFINE ids == x.map[s].ids
           L == Len(ids)
<1>1. L \in Nat /\ BlockSize \in Nat
  BY MapFields, SizeAssumption
<1>2. x.map[s].slots = L * BlockSize /\ \A i \in 1..L : BlockOK(x, s, i)
  BY DEF MapOK
<1> SUFFICES ASSUME NEW i \in 1..L PROVE x.hash[ids[i]] = BlockHash[s][0 + i]
  BY DEF Labelled
<1> HIDE DEF L
<1>3. i * BlockSize <= L * BlockSize /\ 0 + i = i
  BY ONLY <1>1, i \in 1..L
<1> QED BY <1>2, <1>3 DEF BlockOK

\* Labels of the first blocks and of those after them.
LEMMA LabelledConcat ==
  ASSUME NEW x, NEW s, NEW S, NEW p \in Seq(S), NEW q \in Seq(S),
         Labelled(x, s, 0, p), Labelled(x, s, Len(p), q)
  PROVE  Labelled(x, s, 0, p \o q)
<1> DEFINE c == p \o q
           L == Len(p)
<1>1. /\ L \in Nat /\ Len(q) \in Nat /\ Len(c) = L + Len(q)
      /\ \A i \in 1..L : c[i] = p[i]
      /\ \A i \in 1..Len(c) : i \notin 1..L => i - L \in 1..Len(q) /\ c[i] = q[i - L]
  OBVIOUS
<1>2. /\ \A i \in 1..L : x.hash[p[i]] = BlockHash[s][0 + i]
      /\ \A i \in 1..Len(q) : x.hash[q[i]] = BlockHash[s][L + i]
  BY DEF Labelled
<1> HIDE DEF c, L
<1> SUFFICES ASSUME NEW i \in 1..Len(c) PROVE x.hash[c[i]] = BlockHash[s][0 + i]
  BY DEF Labelled, c
<1>3. CASE i \in 1..L
  BY <1>1, <1>2, <1>3
<1>4. CASE i \notin 1..L
  <2>1. i - L \in 1..Len(q) /\ c[i] = q[i - L] /\ L + (i - L) = 0 + i
    BY <1>1, <1>4
  <2>2. x.hash[q[i - L]] = BlockHash[s][L + (i - L)]
    BY <1>2, <2>1
  <2> QED BY <2>1, <2>2
<1> QED BY <1>3, <1>4

\* update_prefix_cache_blocks of a sequence that holds cached blocks only.
LEMMA UpdateSound ==
  ASSUME NEW n \in Nat, NEW tl \in [Seqs -> 0..MaxLen], NEW x, Sound(x, n, tl),
         NEW s \in Seqs, AllCached(x, s),
         NEW y, y = update_prefix_cache_blocks(x, s, tl[s])
  PROVE  /\ Sound(y, n, tl)
         /\ TableOK(x) => TableOK(y)
         /\ OnlyMap(x, y, s) /\ AllCached(y, s) /\ y.map[s].live
<1> DEFINE t == tl[s]
           old == x.map[s].ids
           L == Len(old)
           ids == get_prefix_cache_blocks_range(x, s, x.map[s].filled, t)
           cached == x.map[s].filled + BlockSize * Len(ids)
           bm == [live |-> TRUE, ids |-> old \o ids, slots |-> cached, filled |-> cached]
<1>0. /\ x \in Manager(n) /\ MapOK(x, s, t) /\ t \in 0..MaxLen
      /\ BlockSize \in Nat \ {0} /\ MaxLen \in Nat
  BY SizeAssumption DEF Sound
<1>1. CASE ~x.map[s].live
  <2>1. y = init_prefix_cache_blocks(x, s, tl[s])
    BY <1>1 DEF update_prefix_cache_blocks
  <2> QED BY <1>1, <2>1, InitSound
<1>2. CASE x.map[s].live
  <2>1. y = [alloc_blocks_by_id(x, ids) EXCEPT !.map[s] = bm]
    <3> DEFINE z == alloc_blocks_by_id(x, ids)
               nm == [live |-> TRUE, ids |-> z.map[s].ids \o ids, slots |-> cached,
                      filled |-> cached]
    <3>1. y = [z EXCEPT !.map[s] = nm]
      BY <1>2 DEF update_prefix_cache_blocks
    <3>2. z.map = x.map
      BY <1>0, GrabFields
    <3>3. nm = bm
      BY ONLY <3>2
    <3> QED BY ONLY <3>1, <3>3
  <2>2. old \in Seq(Blocks(n)) /\ L \in Nat
    BY <1>0, MapFields
  <2>3. x.map[s].filled = L * BlockSize /\ x.map[s].slots = L * BlockSize /\ L * BlockSize \in Nat
    <3>1. x.map[s].slots = BlockSize * L /\ x.map[s].filled = x.map[s].slots
      BY DEF AllCached
    <3> HIDE DEF L
    <3>2. BlockSize * L = L * BlockSize /\ L * BlockSize \in Nat
      BY ONLY <1>0, <2>2
    <3> QED BY ONLY <3>1, <3>2
  <2>4. x.map[s].slots <= t
    BY <1>0 DEF MapOK
  <2>5. CeilDiv(x.map[s].filled, BlockSize) = L
    <3> HIDE DEF L, t
    <3>1. (L * BlockSize + BlockSize - 1) \div BlockSize = L
      BY ONLY <1>0, <2>2
    <3> QED BY <2>3, <3>1 DEF CeilDiv
  <2>6. L <= t \div BlockSize /\ t \div BlockSize \in Nat
    <3> HIDE DEF L, t
    <3>1. t \in Nat /\ L * BlockSize <= t
      BY <1>0, <2>3, <2>4
    <3> QED BY ONLY <2>2, <3>1, FullBlocks, DivBounds
  <2>7. Labelled(x, s, 0, old)
    BY <1>0, <2>3, FullMap
  <2>8. /\ ids \in Seq(Blocks(n)) /\ Len(ids) \in Nat
        /\ (L + Len(ids)) * BlockSize <= t
        /\ Labelled(x, s, L, ids)
    <3>1. CASE L >= t \div BlockSize
      <4>1. ids = <<>>
        BY <2>5, <3>1 DEF get_prefix_cache_blocks_range
      <4> HIDE DEF ids, t, L
      <4>2. ids \in Seq(Blocks(n)) /\ Len(ids) = 0
        BY ONLY <4>1
      <4>3. (L + Len(ids)) * BlockSize <= t
        BY <2>2, <2>3, <2>4, <4>2
      <4> QED BY <4>2, <4>3 DEF Labelled
    <3>2. CASE ~(L >= t \div BlockSize)
      <4>1. ids = HitsFrom(x, s, L, t \div BlockSize)
        BY <2>5, <3>2 DEF get_prefix_cache_blocks_range, HitsFrom
      <4> HIDE DEF ids, t, L
      <4> QED BY ONLY <1>0, <2>2, <2>6, <4>1, CacheHits, n \in Nat, s \in Seqs
    <3> QED BY <3>1, <3>2
  <2> HIDE DEF ids, t, old
  <2>9. bm.ids = old \o ids /\ bm.ids \in Seq(Blocks(n)) /\ Len(bm.ids) = L + Len(ids)
    BY <2>2, <2>8
  <2>10. cached = (L + Len(ids)) * BlockSize /\ cached \in 0..MaxLen /\ cached <= t
    <3> HIDE DEF L
    <3>1. L * BlockSize + BlockSize * Len(ids) = (L + Len(ids)) * BlockSize
      BY ONLY <1>0, <2>2, <2>8
    <3>2. (L + Len(ids)) * BlockSize \in Nat
      BY ONLY <1>0, <2>2, <2>8
    <3>3. cached = (L + Len(ids)) * BlockSize
      BY ONLY <2>3, <3>1
    <3> HIDE DEF cached
    <3> QED BY ONLY <1>0, <2>8, <3>2, <3>3
  <2> HIDE DEF cached, L
  <2>11. /\ bm \in BlockMap(n) /\ bm.live
         /\ bm.slots = Len(bm.ids) * BlockSize /\ bm.filled = bm.slots /\ bm.slots <= t
    BY <2>9, <2>10 DEF BlockMap, Blocks
  <2> HIDE DEF bm
  <2>12. CachedMap(x, s, bm, t)
    <3>1. Labelled(x, s, 0, bm.ids)
      BY <2>2, <2>7, <2>8, <2>9, LabelledConcat DEF L
    <3> QED BY <2>11, <3>1 DEF CachedMap
  <2>13. GrabsFor(x, y, n, s, ids, bm)
    BY <1>0, <2>1, <2>9, GrabsForFields DEF old
  <2>14. OnlyMap(x, y, s) /\ AllCached(y, s) /\ y.map[s].live
    BY <1>0, <2>11, <2>12, <2>13, GrabbedMap
  <2> QED BY <2>8, <2>11, <2>12, <2>13, <2>14, GrabSeq DEF t
<1> QED BY <1>1, <1>2

\* Region r has the blocks ids; nobody else notices.
OnlyRegion(x, y, r, ids) ==
    /\ y.hash = x.hash /\ y.map = x.map
    /\ y.resv = [x.resv EXCEPT ![r] = ids]
    /\ y.exhausted = x.exhausted /\ y.lost = x.lost

\* What region r pins: blocks with the labels of s after the first j, up to q.
PinnedFor(x, y, r, s, j, q) ==
    \E ids : OnlyRegion(x, y, r, ids) /\ Labelled(x, s, j, ids) /\ j + Len(ids) <= q

\* pin_blocks_by_hashes, into a region that is free.
LEMMA PinSound ==
  ASSUME NEW n \in Nat, NEW tl \in [Seqs -> 0..MaxLen], NEW x, Sound(x, n, tl),
         NEW r \in Regions, x.resv[r] = <<>>, NEW s \in Seqs,
         NEW j \in 0..NumFull, NEW q \in 0..NumFull, j < q,
         NEW y, y = pin_blocks_by_hashes(x, r, s, j, q)
  PROVE  Sound(y, n, tl) /\ PinnedFor(x, y, r, s, j, q)
<1> DEFINE ids == HitsFrom(x, s, j, q)
           z == alloc_blocks_by_id(x, ids)
<1>0. x \in Manager(n)
  BY DEF Sound
<1>1. y = [z EXCEPT !.resv[r] = ids]
  BY DEF pin_blocks_by_hashes, HitsFrom
<1>2. Whole(z) /\ Grabbed(x, z, n, ids) /\ z.map = x.map /\ z.resv = x.resv
  BY <1>0, GrabFields
<1> HIDE DEF ids, z
<1>3. NumFull \in Nat /\ j \in Nat /\ q \in Nat /\ j <= q /\ q <= NumFull
  BY DivBounds, SizeAssumption DEF NumFull
<1>4. ids \in Seq(Blocks(n)) /\ j + Len(ids) <= q /\ Labelled(x, s, j, ids)
  BY <1>0, <1>3, PrefixHits DEF ids
<1>5. Len(ids) \in Nat
  BY ONLY <1>4
<1>6. j + Len(ids) <= NumFull
  BY <1>3, <1>4, <1>5
<1>7. /\ NoDup(ids)
      /\ \A i, k \in 1..Len(ids) : x.hash[ids[i]] = x.hash[ids[k]] => i = k
      /\ \A i \in 1..Len(ids) : x.hash[ids[i]] # NoHash
  <2>1. AllDistinct(x, ids)
    BY ONLY <1>0, <1>3, <1>4, <1>6, ByDepth, n \in Nat, s \in Seqs
  <2> QED BY ONLY <2>1 DEF AllDistinct
<1>8. /\ Whole(y)
      /\ y.total = z.total /\ y.free = z.free /\ y.ref = z.ref
      /\ y.status = z.status /\ y.len = z.len /\ y.hash = z.hash
      /\ y.table = z.table /\ y.exhausted = z.exhausted /\ y.lost = z.lost
      /\ y.map = z.map /\ y.resv = [z.resv EXCEPT ![r] = ids]
  BY ONLY <1>1, <1>2 DEF Whole
<1>9. Grabbed(x, y, n, ids) /\ y.map = x.map /\ y.resv = [x.resv EXCEPT ![r] = ids]
  BY ONLY <1>2, <1>8 DEF Grabbed
<1>10. Whole(y)
  BY <1>8
<1>11. PinnedFor(x, y, r, s, j, q)
  BY ONLY <1>4, <1>9 DEF PinnedFor, OnlyRegion, Grabbed
<1> QED BY ONLY <1>4, <1>7, <1>9, <1>10, <1>11, GrabRegion, n \in Nat, r \in Regions,
                tl \in [Seqs -> 0..MaxLen], Sound(x, n, tl), x.resv[r] = <<>>

-----------------------------------------------------------------------------
(* free_blocks: a holder gives up its blocks *)

\* The fields after every block of ids has one reference less.
Released(x, y, n, ids) ==
    /\ y.total = x.total
    /\ y.free = x.free \o Kept(ids, {b \in Blocks(n) : x.ref[b] = 1})
    /\ y.ref = [b \in Blocks(n) |-> x.ref[b] - Unit(b \in Elems(ids))]
    /\ y.status = [b \in Blocks(n) |->
                      IF b \in Elems(ids) /\ x.ref[b] = 1 THEN "Free" ELSE x.status[b]]
    /\ y.exhausted = x.exhausted /\ y.lost = x.lost

\* free_blocks changes those fields and no other.
LEMMA ReleaseFields ==
  ASSUME NEW n \in Nat, NEW x \in Manager(n), NEW ids,
         NEW z, z = free_blocks(x, ids)
  PROVE  /\ Whole(z) /\ Released(x, z, n, ids)
         /\ z.len = x.len /\ z.hash = x.hash /\ z.table = x.table
         /\ z.map = x.map /\ z.resv = x.resv
<1>0. Whole(x)
  BY ManagerFields
<1>1. \A b \in Blocks(n) : x.ref[b] \in Int
  BY ManagerFields
<1>2. [b \in Blocks(n) |-> x.ref[b] - Unit(b \in Elems(ids))] =
         [b \in Blocks(n) |-> IF b \in Elems(ids) THEN x.ref[b] - 1 ELSE x.ref[b]]
  BY <1>1 DEF Unit
<1>3. DOMAIN x.ref = Blocks(n) /\ DOMAIN x.status = Blocks(n)
  BY ManagerFields
<1>4. /\ z.total = x.total
      /\ z.free = x.free \o Kept(ids, {b \in DOMAIN x.ref : x.ref[b] = 1})
      /\ z.status = [b \in DOMAIN x.status |->
                        IF b \in Elems(ids) /\ x.ref[b] = 1 THEN "Free" ELSE x.status[b]]
      /\ z.ref = [b \in DOMAIN x.ref |->
                     IF b \in Elems(ids) THEN x.ref[b] - 1 ELSE x.ref[b]]
      /\ z.len = x.len /\ z.hash = x.hash /\ z.table = x.table
      /\ z.exhausted = x.exhausted /\ z.lost = x.lost
      /\ z.map = x.map /\ z.resv = x.resv
  BY DEF free_blocks, Manager
<1>5. Whole(z)
  BY <1>0 DEF free_blocks, Whole
<1>6. Released(x, z, n, ids)
  BY <1>2, <1>3, <1>4 DEF Released
<1> QED BY <1>4, <1>5, <1>6

\* The blocks whose last reference goes join the free list, each once.
LEMMA ReleaseFree ==
  ASSUME NEW n \in Nat, NEW x \in Manager(n), RefExact(x, n), FreeExact(x, n),
         NEW y, NEW ids \in Seq(Blocks(n)), Released(x, y, n, ids), NoDup(ids),
         \A b \in Elems(ids) : x.ref[b] >= 1
  PROVE  /\ FreeExact(y, n)
         /\ y.total = n
         /\ y.free \in Seq(Blocks(n))
         /\ y.ref \in [Blocks(n) -> Int]
         /\ y.status \in [Blocks(n) -> {"Free", "Used"}]
         /\ y.exhausted \in BOOLEAN /\ y.lost \in SUBSET Blocks(n)
<1> DEFINE last == {b \in Blocks(n) : x.ref[b] = 1}
           fr == Kept(ids, last)
<1>1. x.free \in Seq(Blocks(n)) /\ NoDup(x.free)
  BY ManagerFields DEF FreeExact
<1>2. fr \in Seq(Blocks(n)) /\ Elems(fr) = Elems(ids) \cap last /\ NoDup(fr)
  BY KeptLemma
<1>3. \A b \in Blocks(n) : x.ref[b] \in Nat
  BY Holders
<1>4. Elems(x.free) = {b \in Blocks(n) : x.ref[b] = 0}
  BY DEF FreeExact
<1>5. Elems(x.free) \cap Elems(fr) = {}
  BY <1>2, <1>4
<1>6. y.free = x.free \o fr
  BY DEF Released
<1> HIDE DEF fr
<1>7. /\ y.free \in Seq(Blocks(n))
      /\ Elems(y.free) = Elems(x.free) \union Elems(fr)
      /\ NoDup(y.free)
  BY <1>1, <1>2, <1>5, <1>6, ConcatElems
<1>8. \A b \in Blocks(n) : y.ref[b] = x.ref[b] - Unit(b \in Elems(ids))
  BY DEF Released
<1>9. \A b \in Blocks(n) :
         y.ref[b] = 0 <=> x.ref[b] = 0 \/ (x.ref[b] = 1 /\ b \in Elems(ids))
  BY <1>3, <1>8 DEF Unit
<1>10. Elems(y.free) = {b \in Blocks(n) : y.ref[b] = 0}
  BY <1>2, <1>4, <1>7, <1>9
<1>11. \A b \in Blocks(n) : y.status[b] = "Free" <=> y.ref[b] = 0
  BY <1>9 DEF FreeExact, Released
<1>12. y.ref \in [Blocks(n) -> Int]
  <2>1. \A b \in Blocks(n) : x.ref[b] - Unit(b \in Elems(ids)) \in Int
    BY <1>3 DEF Unit
  <2> QED BY <2>1 DEF Released
<1>13. /\ y.total = n /\ y.status \in [Blocks(n) -> {"Free", "Used"}]
       /\ y.exhausted \in BOOLEAN /\ y.lost \in SUBSET Blocks(n)
  BY ManagerFields DEF Released
<1> QED BY <1>7, <1>10, <1>11, <1>12, <1>13 DEF FreeExact

\* The map of a sequence that holds nothing is right.
LEMMA NoMapOK ==
  ASSUME NEW y, NEW s, NEW t \in Nat, y.map[s] = NoMap
  PROVE  MapOK(y, s, t)
<1>1. NoMap.ids = <<>> /\ NoMap.slots = 0 /\ NoMap.filled = 0
  BY DEF NoMap
<1>2. CeilDiv(0, BlockSize) = 0
  BY SizeAssumption DEF CeilDiv
<1> QED BY <1>1, <1>2 DEF MapOK, NoDup

\* NoMap is an entry of the table.
LEMMA NoMapType ==
  ASSUME NEW n
  PROVE  NoMap \in BlockMap(n)
<1>1. 0 \in 0..MaxLen
  BY SizeAssumption
<1> QED BY <1>1 DEF NoMap, BlockMap

\* The blocks that are forgotten are held by s, and by nobody else.
LEMMA Dropped ==
  ASSUME NEW n \in Nat, NEW x \in Manager(n), RefExact(x, n), NEW s \in Seqs,
         NEW f \in Nat, NEW b \in DropSet(x, s, f)
  PROVE  /\ b \in Blocks(n) /\ b \in Elems(x.map[s].ids) /\ x.ref[b] = 1
         /\ \A t \in Seqs : b \in Elems(x.map[t].ids) => t = s
         /\ \A r \in Regions : b \notin Elems(x.resv[r])
<1>1. PICK i \in 1..Len(x.map[s].ids) : b = x.map[s].ids[i] /\ x.ref[b] = 1
  BY DEF DropSet
<1>2. b \in Blocks(n)
  BY <1>1, MapFields
<1>3. b \in Elems(x.map[s].ids)
  BY <1>1 DEF Elems
<1> QED BY <1>1, <1>2, <1>3, Holders

\* The fields after free or free_and_drop_cache.
FreedFor(x, y, n, s, drop) ==
    /\ Whole(y) /\ Released(x, y, n, x.map[s].ids)
    /\ y.map = [x.map EXCEPT ![s] = NoMap] /\ y.resv = x.resv
    /\ y.table = [h \in Hashes |->
                     IF \E b \in drop : x.hash[b] = h THEN NoBlock ELSE x.table[h]]
    /\ y.len = [b \in Blocks(n) |-> IF b \in drop THEN 0 ELSE x.len[b]]
    /\ y.hash = [b \in Blocks(n) |-> IF b \in drop THEN NoHash ELSE x.hash[b]]

\* free_dropping changes the fields like that.
LEMMA FreedFields ==
  ASSUME NEW n \in Nat, NEW x \in Manager(n), NEW s \in Seqs, NEW f,
         NEW y, y = free_dropping(x, s, f)
  PROVE  FreedFor(x, y, n, s, DropSet(x, s, f))
<1> DEFINE z == free_blocks(x, x.map[s].ids)
           drop == DropSet(x, s, f)
           tb == [h \in Hashes |->
                     IF \E b \in drop : x.hash[b] = h THEN NoBlock ELSE x.table[h]]
           ln == [b \in DOMAIN x.len |-> IF b \in drop THEN 0 ELSE x.len[b]]
           hh == [b \in DOMAIN x.hash |-> IF b \in drop THEN NoHash ELSE x.hash[b]]
<1>1. /\ Whole(z) /\ Released(x, z, n, x.map[s].ids)
      /\ z.map = x.map /\ z.resv = x.resv
  BY ReleaseFields
<1>2. y = [z EXCEPT !.map[s] = NoMap, !.table = tb, !.len = ln, !.hash = hh]
  BY DEF free_dropping
<1>3. DOMAIN x.len = Blocks(n) /\ DOMAIN x.hash = Blocks(n)
  BY ManagerFields
<1> HIDE DEF z, tb, ln, hh
<1>4. /\ Whole(y)
      /\ y.total = z.total /\ y.free = z.free /\ y.ref = z.ref
      /\ y.status = z.status /\ y.exhausted = z.exhausted /\ y.lost = z.lost
      /\ y.map = [z.map EXCEPT ![s] = NoMap] /\ y.resv = z.resv
      /\ y.table = tb /\ y.len = ln /\ y.hash = hh
  BY ONLY <1>1, <1>2 DEF Whole
<1>5. Released(x, y, n, x.map[s].ids)
  BY ONLY <1>1, <1>4 DEF Released
<1> QED BY <1>1, <1>3, <1>4, <1>5 DEF FreedFor, tb, ln, hh

\* free and free_and_drop_cache.
LEMMA FreeSound ==
  ASSUME NEW n \in Nat, NEW tl \in [Seqs -> 0..MaxLen], NEW x, Sound(x, n, tl),
         NEW s \in Seqs, NEW f \in Nat, NEW y, y = free_dropping(x, s, f)
  PROVE  Sound(y, n, tl) /\ (TableOK(x) => TableOK(y))
<1> DEFINE drop == DropSet(x, s, f)
           ids == x.map[s].ids
<1>0. x \in Manager(n) /\ RefExact(x, n) /\ FreeExact(x, n) /\ LabelsFull(x, n)
  BY DEF Sound
<1>1. FreedFor(x, y, n, s, drop)
  BY <1>0, FreedFields
<1>2. \A b \in drop : /\ b \in Blocks(n) /\ b \in Elems(ids) /\ x.ref[b] = 1
                      /\ \A t \in Seqs : b \in Elems(x.map[t].ids) => t = s
                      /\ \A r \in Regions : b \notin Elems(x.resv[r])
  BY <1>0, Dropped
<1> HIDE DEF drop
<1>3. ids \in Seq(Blocks(n)) /\ NoDup(ids)
  BY <1>0, MapFields DEF Sound, MapOK
<1>4. \A b \in Elems(ids) : b \in Blocks(n)
  BY <1>3 DEF Elems
<1>5. \A b \in Elems(ids) : x.ref[b] >= 1
  BY <1>0, <1>4, Holders
<1>6. Whole(y) /\ Released(x, y, n, ids) /\ y.resv = x.resv
  BY <1>1 DEF FreedFor
<1>7. /\ FreeExact(y, n)
      /\ y.total = n
      /\ y.free \in Seq(Blocks(n))
      /\ y.ref \in [Blocks(n) -> Int]
      /\ y.status \in [Blocks(n) -> {"Free", "Used"}]
      /\ y.exhausted \in BOOLEAN /\ y.lost \in SUBSET Blocks(n)
  BY <1>0, <1>3, <1>5, <1>6, ReleaseFree
<1>8. /\ \A b \in Blocks(n) : y.len[b] = IF b \in drop THEN 0 ELSE x.len[b]
      /\ \A b \in Blocks(n) : y.hash[b] = IF b \in drop THEN NoHash ELSE x.hash[b]
      /\ \A b \in Blocks(n) : y.ref[b] = x.ref[b] - Unit(b \in Elems(ids))
  BY <1>1, <1>6 DEF FreedFor, Released
<1>9. /\ y.map[s] = NoMap
      /\ \A t \in Seqs : t # s => y.map[t] = x.map[t]
      /\ y.map \in [Seqs -> BlockMap(n)]
  <2>1. x.map \in [Seqs -> BlockMap(n)] /\ NoMap \in BlockMap(n)
    BY <1>0, ManagerFields, NoMapType
  <2>2. y.map = [x.map EXCEPT ![s] = NoMap]
    BY <1>1 DEF FreedFor
  <2> QED BY ONLY <2>1, <2>2, s \in Seqs
<1>10. y \in Manager(n)
  <2>1. y.len \in [Blocks(n) -> 0..BlockSize]
    <3>1. 0 \in 0..BlockSize /\ x.len \in [Blocks(n) -> 0..BlockSize]
      BY <1>0, ManagerFields, SizeAssumption
    <3> QED BY <1>1, <3>1 DEF FreedFor
  <2>2. y.hash \in [Blocks(n) -> Hashes \union {NoHash}]
    BY <1>0, <1>1, ManagerFields DEF FreedFor
  <2>3. y.table \in [Hashes -> Blocks(n) \union {NoBlock}]
    BY <1>0, <1>1, ManagerFields DEF FreedFor
  <2>4. y.resv \in [Regions -> Seq(Blocks(n))]
    BY <1>0, <1>6, ManagerFields
  <2> QED BY <1>6, <1>7, <1>9, <2>1, <2>2, <2>3, <2>4, ManagerOfFields
<1>11. RefExact(y, n)
  <2>1. /\ \A t \in Seqs : t # s => y.map[t].ids = x.map[t].ids
        /\ y.resv = x.resv /\ y.lost = x.lost
    BY <1>6, <1>9 DEF Released
  <2>2. Elems(y.map[s].ids) = {}
    BY <1>9 DEF NoMap, Elems
  <2>3. \A b \in Blocks(n) : x.ref[b] \in Nat
    BY <1>0, Holders
  <2>4. \A b \in Blocks(n) :
           y.ref[b] = x.ref[b] + Unit(b \in Elems(y.map[s].ids)) - Unit(b \in Elems(x.map[s].ids))
    BY <1>8, <2>2, <2>3 DEF Unit
  <2> QED BY ONLY <1>0, <2>1, <2>4, RefBySeq, n \in Nat, s \in Seqs
<1>12. LabelsFull(y, n)
  BY <1>0, <1>8 DEF LabelsFull
<1>13. ASSUME NEW t \in Seqs PROVE MapOK(y, t, tl[t])
  <2>1. CASE t = s
    <3>1. tl[s] \in Nat
      BY SizeAssumption
    <3> QED BY <1>9, <2>1, <3>1, NoMapOK
  <2>2. CASE t # s
    <3>1. ASSUME NEW b \in Elems(x.map[t].ids)
          PROVE  /\ y.len[b] = x.len[b] /\ y.hash[b] = x.hash[b]
                 /\ x.ref[b] = 1 /\ x.hash[b] = NoHash => y.ref[b] = 1
      <4>1. b \in Blocks(n)
        BY <1>0, MapFields DEF Elems
      <4>2. b \notin drop
        BY <1>2, <2>2
      <4>3. x.ref[b] = 1 => b \notin Elems(ids)
        BY <1>0, <2>2, <4>1, Holders
      <4> QED BY <1>8, <4>1, <4>2, <4>3 DEF Unit
    <3>2. MapOK(x, t, tl[t]) /\ y.map[t] = x.map[t]
      BY <1>9, <2>2 DEF Sound
    <3> QED BY <1>0, <3>1, <3>2, MapFrame
  <2> QED BY <2>1, <2>2
<1>14. ASSUME NEW r \in Regions PROVE RegionOK(y, r)
  <2>1. RegionOK(x, r) /\ x.resv[r] \in Seq(Blocks(n))
    BY <1>0, ManagerFields DEF Sound
  <2>2. \A b \in Elems(x.resv[r]) : b \in Blocks(n)
    BY <2>1 DEF Elems
  <2>3. \A b \in Elems(x.resv[r]) : y.hash[b] = x.hash[b]
    BY <1>2, <1>8, <2>2
  <2> QED BY <1>6, <2>1, <2>3, RegionFrame
<1>15. ASSUME TableOK(x) PROVE TableOK(y)
  <2> SUFFICES ASSUME NEW h \in Hashes, y.table[h] # NoBlock PROVE y.hash[y.table[h]] = h
    BY DEF TableOK
  <2>1. y.table[h] = x.table[h] /\ \A b \in drop : x.hash[b] # h
    BY <1>1 DEF FreedFor
  <2>2. x.table[h] \in Blocks(n) /\ x.hash[x.table[h]] = h
    BY <1>0, <1>15, <2>1, ManagerFields DEF TableOK
  <2> QED BY <1>8, <2>1, <2>2
<1> QED BY <1>7, <1>10, <1>11, <1>12, <1>13, <1>14, <1>15 DEF Sound

\* Region r gives up its blocks; the labels stay.
LEMMA ReleaseRegion ==
  ASSUME NEW n \in Nat, NEW tl \in [Seqs -> 0..MaxLen], NEW x, Sound(x, n, tl),
         NEW r \in Regions, NEW y, Whole(y), Released(x, y, n, x.resv[r]),
         y.len = x.len, y.hash = x.hash, y.map = x.map,
         y.resv = [x.resv EXCEPT ![r] = <<>>],
         y.table \in [Hashes -> Blocks(n) \union {NoBlock}]
  PROVE  Sound(y, n, tl)
<1> DEFINE ids == x.resv[r]
<1>0. x \in Manager(n) /\ RefExact(x, n) /\ FreeExact(x, n) /\ LabelsFull(x, n)
  BY DEF Sound
<1>1. ids \in Seq(Blocks(n)) /\ NoDup(ids)
  BY <1>0, ManagerFields DEF Sound, RegionOK
<1>2. \A b \in Elems(ids) : b \in Blocks(n)
  BY <1>1 DEF Elems
<1>3. \A b \in Elems(ids) : x.ref[b] >= 1
  BY <1>0, <1>2, Holders
<1>4. /\ FreeExact(y, n)
      /\ y.total = n
      /\ y.free \in Seq(Blocks(n))
      /\ y.ref \in [Blocks(n) -> Int]
      /\ y.status \in [Blocks(n) -> {"Free", "Used"}]
      /\ y.exhausted \in BOOLEAN /\ y.lost \in SUBSET Blocks(n)
  BY <1>0, <1>1, <1>3, ReleaseFree
<1>5. /\ y.resv[r] = <<>>
      /\ \A q \in Regions : q # r => y.resv[q] = x.resv[q]
      /\ y.resv \in [Regions -> Seq(Blocks(n))]
  <2>1. x.resv \in [Regions -> Seq(Blocks(n))] /\ <<>> \in Seq(Blocks(n))
    BY <1>0, ManagerFields
  <2> QED BY ONLY <2>1, y.resv = [x.resv EXCEPT ![r] = <<>>], r \in Regions
<1>6. y \in Manager(n)
  <2>1. /\ y.len \in [Blocks(n) -> 0..BlockSize]
        /\ y.hash \in [Blocks(n) -> Hashes \union {NoHash}]
        /\ y.map \in [Seqs -> BlockMap(n)]
    BY <1>0, ManagerFields
  <2> QED BY <1>4, <1>5, <2>1, ManagerOfFields
<1>7. \A b \in Blocks(n) : x.ref[b] \in Nat /\ y.ref[b] = x.ref[b] - Unit(b \in Elems(ids))
  BY <1>0, Holders DEF Released
<1>8. RefExact(y, n)
  <2>1. Elems(y.resv[r]) = {} /\ y.lost = x.lost
    BY <1>5 DEF Elems, Released
  <2>2. \A b \in Blocks(n) :
           y.ref[b] = x.ref[b] + Unit(b \in Elems(y.resv[r])) - Unit(b \in Elems(x.resv[r]))
    BY <1>7, <2>1 DEF Unit
  <2> QED BY ONLY <1>0, <1>5, <2>1, <2>2, RefByRegion, n \in Nat, r \in Regions, y.map = x.map
<1>9. LabelsFull(y, n)
  BY <1>0 DEF LabelsFull
<1>10. ASSUME NEW t \in Seqs PROVE MapOK(y, t, tl[t])
  <2>1. ASSUME NEW b \in Elems(x.map[t].ids), x.ref[b] = 1 PROVE y.ref[b] = 1
    <3>1. b \in Blocks(n)
      BY <1>0, MapFields DEF Elems
    <3>2. b \notin Elems(ids)
      BY <1>0, <2>1, <3>1, Holders
    <3> QED BY <1>7, <2>1, <3>1, <3>2 DEF Unit
  <2>2. MapOK(x, t, tl[t])
    BY DEF Sound
  <2> QED BY <1>0, <2>1, <2>2, MapFrame
<1>11. ASSUME NEW q \in Regions PROVE RegionOK(y, q)
  <2>1. CASE q = r
    BY <1>5, <2>1 DEF RegionOK, NoDup
  <2>2. CASE q # r
    <3>1. RegionOK(x, q)
      BY DEF Sound
    <3> QED BY <1>5, <2>2, <3>1, RegionFrame
  <2> QED BY <2>1, <2>2
<1> QED BY <1>4, <1>6, <1>8, <1>9, <1>10, <1>11 DEF Sound

\* unpin_blocks.
LEMMA UnpinSound ==
  ASSUME NEW n \in Nat, NEW tl \in [Seqs -> 0..MaxLen], NEW x, Sound(x, n, tl),
         NEW r \in Regions, NEW y, y = unpin_blocks(x, r)
  PROVE  Sound(y, n, tl) /\ OnlyRegion(x, y, r, <<>>)
<1> DEFINE z == free_blocks(x, x.resv[r])
<1>0. x \in Manager(n)
  BY DEF Sound
<1>1. /\ Whole(z) /\ Released(x, z, n, x.resv[r])
      /\ z.len = x.len /\ z.hash = x.hash /\ z.table = x.table
      /\ z.map = x.map /\ z.resv = x.resv
  BY <1>0, ReleaseFields
<1>2. y = [z EXCEPT !.resv[r] = <<>>]
  BY DEF unpin_blocks
<1> HIDE DEF z
<1>3. /\ Whole(y)
      /\ y.total = z.total /\ y.free = z.free /\ y.ref = z.ref
      /\ y.status = z.status /\ y.exhausted = z.exhausted /\ y.lost = z.lost
      /\ y.len = z.len /\ y.hash = z.hash /\ y.table = z.table
      /\ y.map = z.map /\ y.resv = [z.resv EXCEPT ![r] = <<>>]
  BY ONLY <1>1, <1>2 DEF Whole
<1>4. /\ Released(x, y, n, x.resv[r])
      /\ y.len = x.len /\ y.hash = x.hash /\ y.table = x.table /\ y.map = x.map
      /\ y.resv = [x.resv EXCEPT ![r] = <<>>]
  BY ONLY <1>1, <1>3 DEF Released
<1>5. y.table \in [Hashes -> Blocks(n) \union {NoBlock}]
  BY <1>0, <1>4, ManagerFields
<1>6. Whole(y)
  BY <1>3
<1>7. OnlyRegion(x, y, r, <<>>)
  BY ONLY <1>4 DEF OnlyRegion, Released
<1> QED BY ONLY <1>4, <1>5, <1>6, <1>7, ReleaseRegion, n \in Nat, r \in Regions,
                tl \in [Seqs -> 0..MaxLen], Sound(x, n, tl)

\* activate_reserved_blocks, whatever has arrived.
LEMMA ActivateSound ==
  ASSUME NEW n \in Nat, NEW tl \in [Seqs -> 0..MaxLen], NEW x, Sound(x, n, tl),
         NEW r \in Regions, NEW hs, NEW y, y = activate_reserved_blocks(x, r, hs)
  PROVE  Sound(y, n, tl) /\ OnlyRegion(x, y, r, <<>>)
<1> DEFINE ids == x.resv[r]
           z == free_blocks(x, ids)
           Lands(h, b) == h \in hs /\ b \in Elems(ids) /\ x.hash[b] = h
           tb == [h \in Hashes |->
                     IF x.table[h] = NoBlock /\ \E b \in Elems(ids) : Lands(h, b)
                     THEN CHOOSE b \in Elems(ids) : Lands(h, b)
                     ELSE x.table[h]]
<1>0. x \in Manager(n)
  BY DEF Sound
<1>1. /\ Whole(z) /\ Released(x, z, n, x.resv[r])
      /\ z.len = x.len /\ z.hash = x.hash /\ z.table = x.table
      /\ z.map = x.map /\ z.resv = x.resv
  BY <1>0, ReleaseFields
<1>2. y = [z EXCEPT !.resv[r] = <<>>, !.table = tb]
  BY DEF activate_reserved_blocks
<1>3. tb \in [Hashes -> Blocks(n) \union {NoBlock}]
  <2>1. ids \in Seq(Blocks(n)) /\ x.table \in [Hashes -> Blocks(n) \union {NoBlock}]
    BY <1>0, ManagerFields
  <2> HIDE DEF ids
  <2>2. Elems(ids) \subseteq Blocks(n)
    BY <2>1 DEF Elems
  <2>3. ASSUME NEW h \in Hashes PROVE tb[h] \in Blocks(n) \union {NoBlock}
    <3>1. CASE x.table[h] = NoBlock /\ \E b \in Elems(ids) : Lands(h, b)
      <4>1. (CHOOSE b \in Elems(ids) : Lands(h, b)) \in Elems(ids)
        BY <3>1
      <4> QED BY <2>2, <3>1, <4>1
    <3>2. CASE ~(x.table[h] = NoBlock /\ \E b \in Elems(ids) : Lands(h, b))
      BY <2>1, <3>2
    <3> QED BY <3>1, <3>2
  <2> QED BY <2>3
<1> HIDE DEF z, tb
<1>4. /\ Whole(y)
      /\ y.total = z.total /\ y.free = z.free /\ y.ref = z.ref
      /\ y.status = z.status /\ y.exhausted = z.exhausted /\ y.lost = z.lost
      /\ y.len = z.len /\ y.hash = z.hash /\ y.table = tb
      /\ y.map = z.map /\ y.resv = [z.resv EXCEPT ![r] = <<>>]
  BY ONLY <1>1, <1>2 DEF Whole
<1>5. /\ Released(x, y, n, x.resv[r])
      /\ y.len = x.len /\ y.hash = x.hash /\ y.map = x.map
      /\ y.resv = [x.resv EXCEPT ![r] = <<>>]
  BY ONLY <1>1, <1>4 DEF Released
<1>6. Whole(y) /\ y.table \in [Hashes -> Blocks(n) \union {NoBlock}]
  BY <1>3, <1>4
<1>7. OnlyRegion(x, y, r, <<>>)
  BY ONLY <1>5 DEF OnlyRegion, Released
<1> QED BY ONLY <1>5, <1>6, <1>7, ReleaseRegion, n \in Nat, r \in Regions,
                tl \in [Seqs -> 0..MaxLen], Sound(x, n, tl)

-----------------------------------------------------------------------------
(* alloc_block: a holder takes blocks off the free list *)

\* What is left of the free list.
Rest(x, new) == SubSeq(x.free, Len(new) + 1, Len(x.free))

\* new is the front of the free list: k different blocks nobody holds, or
\* fewer if the list is exhausted.
PopOK(x, n, k, new) ==
    /\ new \in Seq(Blocks(n)) /\ Len(new) \in Nat
    /\ Len(new) <= k /\ (~Exhausts(x, k) => Len(new) = k)
    /\ NoDup(new)
    /\ \A b \in Elems(new) : b \in Blocks(n) /\ x.ref[b] = 0
    /\ Rest(x, new) \in Seq(Blocks(n)) /\ NoDup(Rest(x, new))
    /\ Elems(Rest(x, new)) = Elems(x.free) \ Elems(new)

\* That is what k calls of alloc_block pop.
LEMMA PopFacts ==
  ASSUME NEW n \in Nat, NEW x \in Manager(n), FreeExact(x, n), NEW k \in Nat,
         NEW new, new = Popped(x, k)
  PROVE  PopOK(x, n, k, new)
<1> DEFINE fr == x.free
           c == Least(k, Len(fr))
           rest == SubSeq(fr, Len(new) + 1, Len(fr))
<1>1. fr \in Seq(Blocks(n)) /\ NoDup(fr) /\ Elems(fr) = {b \in Blocks(n) : x.ref[b] = 0}
  BY ManagerFields DEF FreeExact
<1>2. /\ Len(fr) \in Nat /\ c \in Nat /\ c <= k /\ c <= Len(fr)
      /\ (~Exhausts(x, k) => c = k)
  BY <1>1 DEF Least, Exhausts
<1>3. new = SubSeq(fr, 1, c)
  BY DEF Popped
<1> HIDE DEF fr, c
<1>4. /\ new \in Seq(Blocks(n)) /\ Len(new) = c
      /\ \A j \in 1..c : new[j] = fr[j]
  BY ONLY <1>1, <1>2, <1>3
<1>5. /\ rest \in Seq(Blocks(n)) /\ Len(rest) = Len(fr) - c
      /\ \A j \in 1..(Len(fr) - c) : rest[j] = fr[c + j] /\ c + j \in 1..Len(fr)
  BY ONLY <1>1, <1>2, <1>4
<1> HIDE DEF rest
<1>6. NoDup(new)
  BY <1>1, <1>2, <1>4 DEF NoDup
<1>7. \A b \in Elems(new) : b \in Elems(fr)
  BY <1>2, <1>4 DEF Elems
<1>10. NoDup(rest)
  <2> SUFFICES ASSUME NEW i \in 1..Len(rest), NEW j \in 1..Len(rest), rest[i] = rest[j]
               PROVE  i = j
    BY DEF NoDup
  <2>1. fr[c + i] = fr[c + j] /\ c + i \in 1..Len(fr) /\ c + j \in 1..Len(fr)
    BY <1>5
  <2>2. c + i = c + j
    BY <1>1, <2>1 DEF NoDup
  <2> QED BY <1>2, <1>5, <2>2
<1>11. ASSUME NEW b \in Elems(rest) PROVE b \in Elems(fr) /\ b \notin Elems(new)
  <2>1. PICK i \in 1..Len(rest) : b = rest[i]
    BY DEF Elems
  <2>2. b = fr[c + i] /\ c + i \in 1..Len(fr)
    BY <1>5, <2>1
  <2>3. \A j \in 1..c : j \in 1..Len(fr) /\ j # c + i
    BY <1>2, <1>5
  <2>4. \A j \in 1..c : fr[j] # b
    BY <1>1, <2>2, <2>3 DEF NoDup
  <2>5. b \notin Elems(new)
    BY <1>4, <2>4 DEF Elems
  <2>6. b \in Elems(fr)
    BY <2>2 DEF Elems
  <2> QED BY <2>5, <2>6
<1>12. \A b \in Elems(fr) : b \notin Elems(new) => b \in Elems(rest)
  <2> SUFFICES ASSUME NEW i \in 1..Len(fr), \A j \in 1..c : fr[j] # fr[i]
               PROVE  fr[i] \in Elems(rest)
    BY <1>4 DEF Elems
  <2>1. i - c \in 1..Len(rest) /\ c + (i - c) = i
    BY <1>2, <1>5
  <2>2. rest[i - c] = fr[i]
    BY <1>5, <2>1
  <2> QED BY <2>1, <2>2 DEF Elems
<1>13. Elems(rest) = Elems(fr) \ Elems(new)
  BY <1>11, <1>12
<1>14. \A b \in Elems(new) : b \in Blocks(n) /\ x.ref[b] = 0
  BY <1>1, <1>7
<1> QED BY <1>2, <1>4, <1>5, <1>6, <1>10, <1>13, <1>14 DEF rest, fr, Rest, PopOK

\* The fields after the blocks of new have been popped and relabelled: block
\* new[j] has ln[j] tokens and the label hh[j].
Fresh(x, y, n, new, ln, hh) ==
    /\ y.total = x.total
    /\ y.free = SubSeq(x.free, Len(new) + 1, Len(x.free))
    /\ y.ref = [b \in Blocks(n) |-> IF b \in Elems(new) THEN 1 ELSE x.ref[b]]
    /\ y.status = [b \in Blocks(n) |-> IF b \in Elems(new) THEN "Used" ELSE x.status[b]]
    /\ y.len = [b \in Blocks(n) |->
                   IF b \in Elems(new) THEN ln[IndexIn(new, b)] ELSE x.len[b]]
    /\ y.hash = [b \in Blocks(n) |->
                    IF b \in Elems(new) THEN hh[IndexIn(new, b)] ELSE x.hash[b]]

\* What the new blocks may be labelled with: a labelled block is full.
NewLabels(new, ln, hh) ==
    \A j \in 1..Len(new) : /\ ln[j] \in 0..BlockSize
                           /\ hh[j] \in Hashes \union {NoHash}
                           /\ hh[j] # NoHash => ln[j] = BlockSize

\* The free list, the types and the labels are right, and whoever holds
\* blocks does not notice: the new ones were held by nobody.
FreshOK(x, y, n, tl, new, ln, hh) ==
    /\ FreeExact(y, n) /\ LabelsFull(y, n)
    /\ y.total = n
    /\ y.free \in Seq(Blocks(n))
    /\ y.ref \in [Blocks(n) -> Int]
    /\ y.status \in [Blocks(n) -> {"Free", "Used"}]
    /\ y.len \in [Blocks(n) -> 0..BlockSize]
    /\ y.hash \in [Blocks(n) -> Hashes \union {NoHash}]
    /\ \A b \in Blocks(n) : y.ref[b] = x.ref[b] + Unit(b \in Elems(new))
    /\ \A j \in 1..Len(new) : /\ new[j] \in Blocks(n) /\ y.ref[new[j]] = 1
                              /\ y.len[new[j]] = ln[j] /\ y.hash[new[j]] = hh[j]
    /\ \A t \in Seqs : \A b \in Elems(x.map[t].ids) :
          /\ b \in Blocks(n) /\ b \notin Elems(new)
          /\ y.len[b] = x.len[b] /\ y.hash[b] = x.hash[b] /\ y.ref[b] = x.ref[b]
    /\ \A t \in Seqs : y.map[t] = x.map[t] => MapOK(y, t, tl[t])
    /\ \A r \in Regions : y.resv[r] = x.resv[r] => RegionOK(y, r)

\* Popping and relabelling do that to a sound manager.
LEMMA FreshFrame ==
  ASSUME NEW n \in Nat, NEW tl, NEW x, Sound(x, n, tl), NEW k \in Nat,
         NEW new, new = Popped(x, k), NEW ln, NEW hh, NewLabels(new, ln, hh),
         NEW y, Fresh(x, y, n, new, ln, hh)
  PROVE  FreshOK(x, y, n, tl, new, ln, hh)
<1>0. x \in Manager(n) /\ RefExact(x, n) /\ FreeExact(x, n) /\ LabelsFull(x, n)
  BY DEF Sound
<1> DEFINE rest == Rest(x, new)
<1>1. /\ new \in Seq(Blocks(n)) /\ Len(new) \in Nat /\ NoDup(new)
      /\ \A b \in Elems(new) : b \in Blocks(n) /\ x.ref[b] = 0
      /\ \A j \in 1..Len(new) : new[j] \in Elems(new) /\ IndexIn(new, new[j]) = j
      /\ rest \in Seq(Blocks(n)) /\ NoDup(rest) /\ Elems(rest) = Elems(x.free) \ Elems(new)
  <2>0. PopOK(x, n, k, new)
    BY <1>0, PopFacts
  <2>1. new \in Seq(Blocks(n)) /\ Len(new) \in Nat /\ NoDup(new)
    BY <2>0 DEF PopOK
  <2>2. \A b \in Elems(new) : b \in Blocks(n) /\ x.ref[b] = 0
    BY <2>0 DEF PopOK
  <2>3. \A j \in 1..Len(new) : new[j] \in Elems(new) /\ IndexIn(new, new[j]) = j
    BY ONLY <2>1 DEF NoDup, Elems, IndexIn
  <2>4. rest \in Seq(Blocks(n)) /\ NoDup(rest) /\ Elems(rest) = Elems(x.free) \ Elems(new)
    BY <2>0 DEF PopOK
  <2> QED BY <2>1, <2>2, <2>3, <2>4
<1>2. y.free = rest
  BY DEF Fresh, Rest
<1> HIDE DEF rest
<1>3. /\ \A b \in Blocks(n) : y.ref[b] = IF b \in Elems(new) THEN 1 ELSE x.ref[b]
      /\ \A b \in Blocks(n) : y.status[b] = IF b \in Elems(new) THEN "Used" ELSE x.status[b]
      /\ \A b \in Blocks(n) :
            y.len[b] = IF b \in Elems(new) THEN ln[IndexIn(new, b)] ELSE x.len[b]
      /\ \A b \in Blocks(n) :
            y.hash[b] = IF b \in Elems(new) THEN hh[IndexIn(new, b)] ELSE x.hash[b]
      /\ y.total = n
  BY <1>0, ManagerFields DEF Fresh
<1>4. \A b \in Blocks(n) : x.ref[b] \in Nat
  BY <1>0, Holders
<1>5. FreeExact(y, n)
  <2>1. Elems(x.free) = {b \in Blocks(n) : x.ref[b] = 0}
    BY <1>0 DEF FreeExact
  <2>2. Elems(y.free) = {b \in Blocks(n) : y.ref[b] = 0}
    BY <1>1, <1>2, <1>3, <2>1
  <2>3. \A b \in Blocks(n) : y.status[b] = "Free" <=> y.ref[b] = 0
    BY <1>0, <1>3 DEF FreeExact
  <2> QED BY <1>1, <1>2, <2>2, <2>3 DEF FreeExact
<1>6. \A b \in Elems(new) : IndexIn(new, b) \in 1..Len(new)
  <2>1. \A b \in Elems(new) : \E j \in 1..Len(new) : b = new[j]
    BY DEF Elems
  <2> QED BY <1>1, <2>1
<1>7. \A j \in 1..Len(new) : /\ ln[j] \in 0..BlockSize
                             /\ hh[j] \in Hashes \union {NoHash}
                             /\ hh[j] # NoHash => ln[j] = BlockSize
  BY DEF NewLabels
<1>8. LabelsFull(y, n)
  BY <1>0, <1>3, <1>6, <1>7 DEF LabelsFull
<1>9. /\ y.ref \in [Blocks(n) -> Int]
      /\ y.status \in [Blocks(n) -> {"Free", "Used"}]
  BY <1>0, ManagerFields DEF Fresh
<1>10. y.len \in [Blocks(n) -> 0..BlockSize]
  <2>1. x.len \in [Blocks(n) -> 0..BlockSize]
    BY <1>0, ManagerFields
  <2>2. \A b \in Blocks(n) :
           (IF b \in Elems(new) THEN ln[IndexIn(new, b)] ELSE x.len[b]) \in 0..BlockSize
    BY <1>6, <1>7, <2>1
  <2> QED BY <2>2 DEF Fresh
<1>11. y.hash \in [Blocks(n) -> Hashes \union {NoHash}]
  <2>1. x.hash \in [Blocks(n) -> Hashes \union {NoHash}]
    BY <1>0, ManagerFields
  <2>2. \A b \in Blocks(n) :
           (IF b \in Elems(new) THEN hh[IndexIn(new, b)] ELSE x.hash[b])
              \in Hashes \union {NoHash}
    BY <1>6, <1>7, <2>1
  <2> QED BY <2>2 DEF Fresh
<1>12. \A b \in Blocks(n) : y.ref[b] = x.ref[b] + Unit(b \in Elems(new))
  BY <1>1, <1>3, <1>4 DEF Unit
<1>13. \A j \in 1..Len(new) : /\ new[j] \in Blocks(n) /\ y.ref[new[j]] = 1
                              /\ y.len[new[j]] = ln[j] /\ y.hash[new[j]] = hh[j]
  BY <1>1, <1>3
<1>14. ASSUME NEW t \in Seqs, NEW b \in Elems(x.map[t].ids)
       PROVE  /\ b \in Blocks(n) /\ b \notin Elems(new)
              /\ y.len[b] = x.len[b] /\ y.hash[b] = x.hash[b] /\ y.ref[b] = x.ref[b]
  <2>1. b \in Blocks(n)
    BY <1>0, MapFields DEF Elems
  <2>2. b \notin Elems(new)
    BY <1>0, <1>1, <2>1, Holders
  <2> QED BY <1>3, <2>1, <2>2
<1>15. ASSUME NEW t \in Seqs, y.map[t] = x.map[t] PROVE MapOK(y, t, tl[t])
  <2>1. MapOK(x, t, tl[t])
    BY DEF Sound
  <2> QED BY <1>0, <1>14, <1>15, <2>1, MapFrame
<1>16. ASSUME NEW r \in Regions, y.resv[r] = x.resv[r] PROVE RegionOK(y, r)
  <2>1. RegionOK(x, r) /\ x.resv[r] \in Seq(Blocks(n))
    BY <1>0, ManagerFields DEF Sound
  <2>2. \A b \in Elems(x.resv[r]) : b \in Blocks(n)
    BY <2>1 DEF Elems
  <2>3. \A b \in Elems(x.resv[r]) : b \notin Elems(new)
    BY <1>0, <1>1, <2>2, Holders
  <2>4. \A b \in Elems(x.resv[r]) : y.hash[b] = x.hash[b]
    BY <1>3, <2>2, <2>3
  <2> QED BY <1>16, <2>1, <2>4, RegionFrame
<1> QED BY <1>1, <1>2, <1>3, <1>5, <1>8, <1>9, <1>10, <1>11, <1>12, <1>13, <1>14, <1>15, <1>16
       DEF FreshOK

\* The j-th new block of s, which has L full blocks and total tokens.
NewBlockOK(s, L, slots, total, j) ==
    /\ NewLen(slots, total, j) \in 0..BlockSize
    /\ NewHash(s, slots, total, j) \in Hashes \union {NoHash}
    /\ (L + j) * BlockSize <= total =>
          /\ NewLen(slots, total, j) = BlockSize
          /\ NewHash(s, slots, total, j) = BlockHash[s][L + j]
    /\ ~((L + j) * BlockSize <= total) =>
          /\ NewLen(slots, total, j) = total - (L + j - 1) * BlockSize
          /\ NewHash(s, slots, total, j) = NoHash

\* alloc_blocks gives it the right length and label.
LEMMA NewBlock ==
  ASSUME NEW s \in Seqs, NEW L \in Nat, NEW slots \in Nat, slots = L * BlockSize,
         NEW total \in 0..MaxLen, slots <= total, NEW k,
         k = CeilDiv(total - slots, BlockSize), NEW j \in 1..k
  PROVE  NewBlockOK(s, L, slots, total, j)
<1> DEFINE B == BlockSize
<1>0. B \in Nat \ {0} /\ MaxLen \in Nat
  BY SizeAssumption
<1>1. total - slots \in Nat /\ total \in Nat
  BY <1>0
<1>2. k \in Nat /\ k * B < total - slots + B
  BY <1>1, CeilBounds
<1>3. j \in Nat /\ j <= k /\ j >= 1
  BY <1>2
<1>4. (j - 1) * B \in Nat /\ j * B = (j - 1) * B + B /\ k * B \in Nat /\ L * B \in Nat
  BY <1>0, <1>2, <1>3
<1>5. j = k \/ j * B + B <= k * B
  BY <1>2, <1>3, MulMono
<1>6. (j - 1) * B < total - slots
  BY <1>0, <1>1, <1>2, <1>4, <1>5
<1>7. (L + j) * B = slots + j * B
  BY <1>0, <1>3
<1>8. total - (L + j - 1) * B = total - slots - (j - 1) * B
  BY <1>0, <1>1, <1>3
<1>9. NewLen(slots, total, j) = IF slots + j * B <= total THEN B ELSE total - slots - (j - 1) * B
  BY <1>0, <1>1, <1>4 DEF NewLen, Least
<1>10. NewLen(slots, total, j) \in 0..B
  BY <1>0, <1>1, <1>4, <1>6, <1>9
<1>11. slots \div B = L
  <2>1. (L * B) \div B = L
    BY ONLY <1>0, L \in Nat
  <2> QED BY <2>1
<1>12. NewHash(s, slots, total, j) = IF slots + j * B <= total THEN BlockHash[s][L + j] ELSE NoHash
  BY <1>11 DEF NewHash
<1>13. ASSUME (L + j) * B <= total PROVE BlockHash[s][L + j] \in Hashes
  <2>1. L + j \in Nat /\ L + j >= 1
    BY <1>3
  <2>2. (L + j) * B <= MaxLen
    <3>1. (L + j) * B \in Nat
      BY <1>0, <2>1
    <3> QED BY ONLY <1>0, <1>13, <3>1, total \in 0..MaxLen
  <2>3. L + j <= NumFull
    BY ONLY <1>0, <2>1, <2>2, FullBlocks DEF NumFull
  <2>4. L + j \in 1..NumFull
    <3>1. NumFull \in Nat
      BY <1>0, DivBounds DEF NumFull
    <3> QED BY ONLY <2>1, <2>3, <3>1
  <2> QED BY ONLY <2>4, HashAssumption, s \in Seqs
<1> HIDE DEF B
<1>14. NewHash(s, slots, total, j) \in Hashes \union {NoHash}
  BY <1>7, <1>12, <1>13
<1> QED BY <1>7, <1>8, <1>9, <1>10, <1>12, <1>14 DEF B, NewBlockOK

\* The fields after the second half of alloc_blocks, but for the map of s.
Took(x, y, n, new, ln, hh) ==
    /\ Whole(y) /\ Fresh(x, y, n, new, ln, hh)
    /\ y.resv = x.resv /\ y.table = alloc_table(x, new, hh)

\* s has the new blocks, or alloc_block has panicked before it got them all.
TookFor(x, y, s, total, new) ==
    /\ y.map = [x.map EXCEPT ![s] = [live |-> TRUE, ids |-> x.map[s].ids \o new,
                                      slots |-> total, filled |-> x.map[s].filled]]
    /\ y.exhausted = x.exhausted /\ y.lost = x.lost

TookLost(x, y, new) ==
    /\ y.map = x.map /\ y.exhausted = TRUE /\ y.lost = x.lost \union Elems(new)

\* The hash table names blocks of the pool, and blocks with the label if it
\* did before: an entry that a relabelled block leaves behind is evicted.
LEMMA TookTable ==
  ASSUME NEW n \in Nat, NEW tl, NEW x \in Manager(n), NEW y, NEW new, NEW ln, NEW hh,
         FreshOK(x, y, n, tl, new, ln, hh), Took(x, y, n, new, ln, hh)
  PROVE  /\ y.table \in [Hashes -> Blocks(n) \union {NoBlock}]
         /\ TableOK(x) => TableOK(y)
<1> DEFINE J == 1..Len(new)
           Enters(h, j) == hh[j] = h /\ \A i \in (j + 1)..Len(new) : x.hash[new[i]] # h
<1>1. x.table \in [Hashes -> Blocks(n) \union {NoBlock}]
  BY ManagerFields
<1>2. \A j \in J : new[j] \in Blocks(n) /\ y.hash[new[j]] = hh[j]
  BY DEF FreshOK
<1>3. y.table = [h \in Hashes |->
                   IF \E j \in J : Enters(h, j)
                   THEN new[CHOOSE j \in J : hh[j] = h]
                   ELSE IF \E j \in J : x.hash[new[j]] = h THEN NoBlock
                   ELSE x.table[h]]
  BY DEF Took, alloc_table
<1>4. \A b \in Blocks(n) : b \notin Elems(new) => y.hash[b] = x.hash[b]
  BY DEF Took, Fresh
<1>5. ASSUME NEW h \in Hashes
      PROVE  /\ y.table[h] \in Blocks(n) \union {NoBlock}
             /\ TableOK(x) /\ y.table[h] # NoBlock => y.hash[y.table[h]] = h
  <2>1. CASE \E j \in J : Enters(h, j)
    <3> DEFINE c == CHOOSE j \in J : hh[j] = h
    <3>1. c \in J /\ hh[c] = h
      BY <2>1
    <3>2. y.table[h] = new[c]
      BY <1>3, <2>1
    <3> HIDE DEF c, J
    <3> QED BY <1>2, <3>1, <3>2
  <2>2. CASE ~(\E j \in J : Enters(h, j)) /\ \E j \in J : x.hash[new[j]] = h
    <3>1. y.table[h] = NoBlock
      BY <1>3, <2>2
    <3> QED BY <3>1
  <2>3. CASE ~(\E j \in J : Enters(h, j)) /\ ~(\E j \in J : x.hash[new[j]] = h)
    <3>1. y.table[h] = x.table[h]
      BY <1>3, <2>3
    <3>2. ASSUME TableOK(x), x.table[h] # NoBlock PROVE y.hash[x.table[h]] = h
      <4>1. x.table[h] \in Blocks(n) /\ x.hash[x.table[h]] = h
        BY <1>1, <3>2 DEF TableOK
      <4>2. x.table[h] \notin Elems(new)
        BY <2>3, <4>1 DEF Elems
      <4> QED BY <1>4, <4>1, <4>2
    <3> QED BY <1>1, <3>1, <3>2
  <2> QED BY <2>1, <2>2, <2>3
<1>6. y.table \in [Hashes -> Blocks(n) \union {NoBlock}]
  <2>1. y.table = [h \in Hashes |-> y.table[h]]
    BY <1>3
  <2> QED BY <1>5, <2>1
<1> QED BY <1>5, <1>6 DEF TableOK

\* The new blocks of s, which has slots of its total tokens in full blocks or
\* all of them.
NewSpan(slots, total, L, k) ==
    /\ slots \in Nat /\ total \in 0..MaxLen /\ slots <= total
    /\ L \in Nat /\ L = CeilDiv(slots, BlockSize)
    /\ slots = total \/ slots = L * BlockSize
    /\ k = CeilDiv(total - slots, BlockSize)

NewLens(slots, total, new) == [j \in 1..Len(new) |-> NewLen(slots, total, j)]
NewHashes(s, slots, total, new) == [j \in 1..Len(new) |-> NewHash(s, slots, total, j)]

\* They are labelled as they should be, also when the list is exhausted.
LEMMA NewSpanLabels ==
  ASSUME NEW s \in Seqs, NEW slots, NEW total, NEW L, NEW k, NewSpan(slots, total, L, k),
         NEW new, Len(new) \in Nat, Len(new) <= k
  PROVE  /\ k \in Nat /\ L + k = CeilDiv(total, BlockSize)
         /\ NewLabels(new, NewLens(slots, total, new), NewHashes(s, slots, total, new))
         /\ k # 0 => slots = L * BlockSize
<1>0. /\ BlockSize \in Nat \ {0} /\ MaxLen \in Nat
      /\ slots \in Nat /\ total \in 0..MaxLen /\ slots <= total
      /\ L \in Nat /\ L = CeilDiv(slots, BlockSize)
      /\ slots = total \/ slots = L * BlockSize
      /\ k = CeilDiv(total - slots, BlockSize)
  BY SizeAssumption DEF NewSpan
<1>1. total - slots \in Nat /\ total \in Nat
  BY <1>0
<1>2. k \in Nat /\ total - slots <= k * BlockSize /\ k * BlockSize < total - slots + BlockSize
  BY <1>0, <1>1, CeilBounds
<1>3. CASE slots = total
  <2>1. 0 * BlockSize = 0
    BY <1>0
  <2>2. k = 0
    BY <1>0, <1>1, <1>3, <2>1, CeilUnique
  <2>3. Len(new) = 0
    BY <2>2
  <2>4. L + k = CeilDiv(total, BlockSize)
    BY <1>0, <1>3, <2>2
  <2> QED BY <1>2, <2>2, <2>3, <2>4 DEF NewLabels
<1>4. CASE slots = L * BlockSize
  <2>1. (L + k) * BlockSize = slots + k * BlockSize /\ k * BlockSize \in Nat
    <3>1. L \in Nat /\ k \in Nat /\ BlockSize \in Nat
      BY <1>0, <1>2
    <3>2. (L + k) * BlockSize = L * BlockSize + k * BlockSize /\ k * BlockSize \in Nat
      BY ONLY <3>1
    <3> QED BY ONLY <1>4, <3>2
  <2>2. total <= (L + k) * BlockSize /\ (L + k) * BlockSize < total + BlockSize
    <3>1. slots \in Nat /\ total \in Nat /\ BlockSize \in Nat
      BY <1>0, <1>1
    <3> QED BY ONLY <1>2, <2>1, <3>1
  <2>3. L + k \in Nat
    BY <1>0, <1>2
  <2>4. L + k = CeilDiv(total, BlockSize)
    BY ONLY <1>1, <2>2, <2>3, CeilUnique
  <2> DEFINE ln == NewLens(slots, total, new)
             hh == NewHashes(s, slots, total, new)
  <2>5. ASSUME NEW j \in 1..Len(new)
        PROVE  /\ ln[j] \in 0..BlockSize
               /\ hh[j] \in Hashes \union {NoHash}
               /\ hh[j] # NoHash => ln[j] = BlockSize
    <3>1. j \in 1..k
      BY <1>2
    <3>2. ln[j] = NewLen(slots, total, j) /\ hh[j] = NewHash(s, slots, total, j)
      BY DEF NewLens, NewHashes
    <3> HIDE DEF ln, hh
    <3>3. /\ NewLen(slots, total, j) \in 0..BlockSize
          /\ NewHash(s, slots, total, j) \in Hashes \union {NoHash}
          /\ NewHash(s, slots, total, j) # NoHash => NewLen(slots, total, j) = BlockSize
      <4>1. NewBlockOK(s, L, slots, total, j)
        BY ONLY <1>0, <1>4, <3>1, NewBlock, s \in Seqs
      <4> QED BY ONLY <4>1 DEF NewBlockOK
    <3> QED BY <3>2, <3>3
  <2>6. NewLabels(new, ln, hh)
    BY <2>5 DEF NewLabels
  <2> QED BY <1>2, <1>4, <2>4, <2>6
<1> QED BY <1>0, <1>3, <1>4

\* The panic: the popped blocks are stranded, and nobody else notices.
LEMMA TakeLost ==
  ASSUME NEW n \in Nat, NEW tl, NEW x, Sound(x, n, tl), NEW k \in Nat,
         NEW new, new = Popped(x, k), NEW ln, NEW hh, NewLabels(new, ln, hh),
         NEW y, Whole(y), Fresh(x, y, n, new, ln, hh), y.resv = x.resv, TookLost(x, y, new),
         y.table \in [Hashes -> Blocks(n) \union {NoBlock}]
  PROVE  Sound(y, n, tl)
<1>0. x \in Manager(n) /\ RefExact(x, n)
  BY DEF Sound
<1>1. FreshOK(x, y, n, tl, new, ln, hh)
  BY FreshFrame
<1>2. PopOK(x, n, k, new)
  BY <1>0, PopFacts DEF Sound
<1>3. \A b \in Elems(new) : b \in Blocks(n) /\ x.ref[b] = 0
  BY <1>2 DEF PopOK
<1>4. y.map = x.map /\ y.exhausted = TRUE /\ y.lost = x.lost \union Elems(new)
  BY DEF TookLost
<1>5. \A b \in Elems(new) : b \notin x.lost
  BY <1>0, <1>3, Holders
<1>6. y \in Manager(n)
  <2>1. /\ y.map \in [Seqs -> BlockMap(n)] /\ y.resv \in [Regions -> Seq(Blocks(n))]
        /\ y.exhausted \in BOOLEAN /\ y.lost \in SUBSET Blocks(n)
    BY <1>0, <1>3, <1>4, ManagerFields
  <2>2. /\ y.total = n
        /\ y.free \in Seq(Blocks(n))
        /\ y.ref \in [Blocks(n) -> Int]
        /\ y.status \in [Blocks(n) -> {"Free", "Used"}]
        /\ y.len \in [Blocks(n) -> 0..BlockSize]
        /\ y.hash \in [Blocks(n) -> Hashes \union {NoHash}]
    BY <1>1 DEF FreshOK
  <2> QED BY <2>1, <2>2, ManagerOfFields
<1>7. RefExact(y, n)
  <2>1. \A b \in Blocks(n) : x.ref[b] \in Nat /\ y.ref[b] = x.ref[b] + Unit(b \in Elems(new))
    BY <1>0, <1>1, Holders DEF FreshOK
  <2>2. \A b \in Blocks(n) : y.ref[b] = x.ref[b] + Unit(b \in y.lost) - Unit(b \in x.lost)
    BY <1>4, <1>5, <2>1 DEF Unit
  <2> QED BY ONLY <1>0, <1>4, <2>2, RefByLost, n \in Nat, y.resv = x.resv
<1>8. /\ \A t \in Seqs : MapOK(y, t, tl[t])
      /\ \A r \in Regions : RegionOK(y, r)
      /\ FreeExact(y, n) /\ LabelsFull(y, n)
  BY <1>1, <1>4 DEF FreshOK
<1> QED BY <1>6, <1>7, <1>8 DEF Sound

\* The blocks of s, after it has got the new ones.
LEMMA TakeMap ==
  ASSUME NEW n \in Nat, NEW tl \in [Seqs -> 0..MaxLen], NEW x, Sound(x, n, tl),
         NEW s \in Seqs, NEW L, NEW k,
         NewSpan(x.map[s].slots, tl[s], L, k), L = Len(x.map[s].ids),
         NEW new \in Seq(Blocks(n)), Len(new) = k, NEW y,
         FreshOK(x, y, n, tl, new, NewLens(x.map[s].slots, tl[s], new),
                 NewHashes(s, x.map[s].slots, tl[s], new)),
         NEW all, all = x.map[s].ids \o new, y.map[s].ids = all, y.map[s].slots = tl[s]
  PROVE  \A i \in 1..Len(all) : BlockOK(y, s, i)
<1> DEFINE slots == x.map[s].slots
           total == tl[s]
           ids == x.map[s].ids
           ln == NewLens(slots, total, new)
           hh == NewHashes(s, slots, total, new)
<1>0. x \in Manager(n) /\ MapOK(x, s, total) /\ BlockSize \in Nat \ {0}
  BY SizeAssumption DEF Sound
<1>1. /\ slots \in Nat /\ total \in 0..MaxLen /\ slots <= total
      /\ L \in Nat /\ L = CeilDiv(slots, BlockSize)
      /\ slots = total \/ slots = L * BlockSize
      /\ k = CeilDiv(total - slots, BlockSize)
  BY DEF NewSpan
<1>2. ids \in Seq(Blocks(n))
  BY <1>0, MapFields
<1>3. k \in Nat /\ (k # 0 => slots = L * BlockSize)
  <2>1. Len(new) \in Nat /\ Len(new) <= k
    OBVIOUS
  <2> QED BY <2>1, NewSpanLabels
<1>4. /\ Len(all) = L + k
      /\ \A i \in 1..L : all[i] = ids[i]
      /\ \A i \in 1..Len(all) : i \notin 1..L => i - L \in 1..k /\ all[i] = new[i - L]
  <2>1. all = ids \o new /\ Len(ids) = L /\ Len(new) = k
    OBVIOUS
  <2> HIDE DEF ids
  <2>2. /\ Len(ids \o new) = Len(ids) + Len(new)
        /\ \A i \in 1..Len(ids) : (ids \o new)[i] = ids[i]
        /\ \A i \in 1..Len(ids \o new) :
              i \notin 1..Len(ids) => /\ i - Len(ids) \in 1..Len(new)
                                     /\ (ids \o new)[i] = new[i - Len(ids)]
    BY ONLY <1>2, ConcatIndex, new \in Seq(Blocks(n))
  <2> QED BY ONLY <2>1, <2>2
<1>5. ASSUME NEW i \in 1..L
      PROVE  /\ y.len[ids[i]] = x.len[ids[i]] /\ y.hash[ids[i]] = x.hash[ids[i]]
             /\ y.ref[ids[i]] = x.ref[ids[i]]
  <2>1. ids[i] \in Elems(ids)
    BY DEF Elems
  <2>2. FreshOK(x, y, n, tl, new, ln, hh)
    OBVIOUS
  <2> HIDE DEF ln, hh
  <2> QED BY ONLY <2>1, <2>2, s \in Seqs DEF FreshOK
<1>6. ASSUME NEW j \in 1..k
      PROVE  y.ref[new[j]] = 1 /\ y.len[new[j]] = ln[j] /\ y.hash[new[j]] = hh[j]
  BY DEF FreshOK
<1>7. ASSUME NEW j \in 1..k
      PROVE  ln[j] = NewLen(slots, total, j) /\ hh[j] = NewHash(s, slots, total, j)
  BY DEF NewLens, NewHashes
<1>b. ASSUME slots = L * BlockSize, NEW j \in 1..k
      PROVE  /\ (L + j) * BlockSize <= total =>
                   /\ NewLen(slots, total, j) = BlockSize
                   /\ NewHash(s, slots, total, j) = BlockHash[s][L + j]
             /\ ~((L + j) * BlockSize <= total) =>
                   /\ NewLen(slots, total, j) = total - (L + j - 1) * BlockSize
                   /\ NewHash(s, slots, total, j) = NoHash
  <2> HIDE DEF slots, total
  <2>1. NewBlockOK(s, L, slots, total, j)
    BY ONLY <1>1, <1>b, NewBlock, s \in Seqs, j \in 1..k
  <2> QED BY ONLY <2>1 DEF NewBlockOK
<1>8. \A i \in 1..L : BlockOK(x, s, i)
  BY <1>0 DEF MapOK
<1>9. y.map[s].ids = all /\ y.map[s].slots = total
  OBVIOUS
<1>10. ASSUME NEW i \in 1..L PROVE BlockOK(y, s, i)
  <2>1. i * BlockSize <= slots \/ slots = total
    <3>1. CASE slots = L * BlockSize
      <4>1. i * BlockSize <= L * BlockSize
        BY ONLY <1>0, <1>1, i \in 1..L
      <4> QED BY ONLY <3>1, <4>1
    <3> QED BY <1>1, <3>1
  <2>2. i * BlockSize <= slots => i * BlockSize <= total
    <3>1. i * BlockSize \in Nat /\ total \in Nat
      BY ONLY <1>0, <1>1, SizeAssumption, i \in 1..L
    <3> QED BY ONLY <1>1, <3>1
  <2> HIDE DEF slots, total, ids
  <2>3. y.map[s].ids[i] = ids[i]
    BY <1>4, <1>9
  <2>4. IF i * BlockSize <= slots
        THEN x.len[ids[i]] = BlockSize /\ x.hash[ids[i]] = BlockHash[s][i]
        ELSE /\ x.len[ids[i]] = slots - (i - 1) * BlockSize
             /\ x.hash[ids[i]] = NoHash /\ x.ref[ids[i]] = 1
    BY <1>8 DEF BlockOK, ids, slots
  <2>5. IF i * BlockSize <= total
        THEN y.len[ids[i]] = BlockSize /\ y.hash[ids[i]] = BlockHash[s][i]
        ELSE /\ y.len[ids[i]] = total - (i - 1) * BlockSize
             /\ y.hash[ids[i]] = NoHash /\ y.ref[ids[i]] = 1
    BY ONLY <1>5, <2>1, <2>2, <2>4, i \in 1..L
  <2> QED BY ONLY <1>9, <2>3, <2>5 DEF BlockOK
<1>11. ASSUME NEW i \in 1..Len(all), i \notin 1..L PROVE BlockOK(y, s, i)
  <2> DEFINE j == i - L
  <2>1. j \in 1..k /\ all[i] = new[j]
    BY <1>4, <1>11
  <2>2. L + j = i /\ L + j - 1 = i - 1
    BY ONLY <1>1, i \in 1..Len(all), <1>4, <1>3
  <2>3. slots = L * BlockSize
    <3>1. k # 0
      BY ONLY <1>3, <2>1
    <3> QED BY ONLY <1>3, <3>1
  <2> HIDE DEF j, slots, total, ids, ln, hh
  <2>4. /\ (L + j) * BlockSize <= total =>
              /\ NewLen(slots, total, j) = BlockSize
              /\ NewHash(s, slots, total, j) = BlockHash[s][L + j]
        /\ ~((L + j) * BlockSize <= total) =>
              /\ NewLen(slots, total, j) = total - (L + j - 1) * BlockSize
              /\ NewHash(s, slots, total, j) = NoHash
    BY <1>b, <2>1, <2>3
  <2>8. /\ i * BlockSize <= total =>
              /\ NewLen(slots, total, j) = BlockSize
              /\ NewHash(s, slots, total, j) = BlockHash[s][i]
        /\ ~(i * BlockSize <= total) =>
              /\ NewLen(slots, total, j) = total - (i - 1) * BlockSize
              /\ NewHash(s, slots, total, j) = NoHash
    BY ONLY <2>2, <2>4, Zenon
  <2>5. /\ y.ref[new[j]] = 1
        /\ y.len[new[j]] = NewLen(slots, total, j)
        /\ y.hash[new[j]] = NewHash(s, slots, total, j)
    BY <1>6, <1>7, <2>1
  <2>6. y.map[s].ids[i] = new[j]
    BY <1>9, <2>1
  <2>7. IF i * BlockSize <= total
        THEN y.len[new[j]] = BlockSize /\ y.hash[new[j]] = BlockHash[s][i]
        ELSE /\ y.len[new[j]] = total - (i - 1) * BlockSize
             /\ y.hash[new[j]] = NoHash /\ y.ref[new[j]] = 1
    BY ONLY <2>5, <2>8
  <2> QED BY ONLY <1>9, <2>6, <2>7 DEF BlockOK
<1> QED BY <1>10, <1>11

\* alloc_blocks got all the blocks it asked for.
LEMMA TakeSeq ==
  ASSUME NEW n \in Nat, NEW tl \in [Seqs -> 0..MaxLen], NEW x, Sound(x, n, tl),
         NEW s \in Seqs, NEW L, NEW k,
         NewSpan(x.map[s].slots, tl[s], L, k), L = Len(x.map[s].ids),
         NEW new, new = Popped(x, k), ~Exhausts(x, k), NEW y,
         Took(x, y, n, new, NewLens(x.map[s].slots, tl[s], new),
              NewHashes(s, x.map[s].slots, tl[s], new)),
         TookFor(x, y, s, tl[s], new)
  PROVE  Sound(y, n, tl) /\ (TableOK(x) => TableOK(y))
<1> DEFINE slots == x.map[s].slots
           ids == x.map[s].ids
           all == ids \o new
           ln == NewLens(slots, tl[s], new)
           hh == NewHashes(s, slots, tl[s], new)
<1>0. x \in Manager(n) /\ RefExact(x, n) /\ MapOK(x, s, tl[s]) /\ FreeExact(x, n)
  BY DEF Sound
<1>1. NewSpan(slots, tl[s], L, k) /\ L = Len(ids) /\ Took(x, y, n, new, ln, hh)
  OBVIOUS
<1>2. /\ y.map = [x.map EXCEPT ![s] = [live |-> TRUE, ids |-> all, slots |-> tl[s],
                                       filled |-> x.map[s].filled]]
      /\ y.exhausted = x.exhausted /\ y.lost = x.lost
      /\ Whole(y) /\ Fresh(x, y, n, new, ln, hh) /\ y.resv = x.resv
  BY DEF TookFor, Took
<1>3. k \in Nat
  BY CeilBounds DEF NewSpan
<1>4. PopOK(x, n, k, new)
  BY <1>0, <1>3, PopFacts
<1>5. new \in Seq(Blocks(n)) /\ Len(new) = k /\ NoDup(new)
  BY <1>4 DEF PopOK
<1>6. L + k = CeilDiv(tl[s], BlockSize) /\ NewLabels(new, ln, hh)
  <2> HIDE DEF ln, hh, slots
  <2>1. Len(new) \in Nat /\ Len(new) <= k
    BY ONLY <1>3, <1>5
  <2> QED BY ONLY <1>1, <2>1, NewSpanLabels, s \in Seqs DEF ln, hh
<1> HIDE DEF ln, hh
<1>7. FreshOK(x, y, n, tl, new, ln, hh)
  BY <1>2, <1>3, <1>6, FreshFrame
<1>8. ids \in Seq(Blocks(n)) /\ x.map \in [Seqs -> BlockMap(n)] /\ x.map[s].filled \in 0..MaxLen
      /\ slots \in 0..MaxLen
  BY <1>0, MapFields, ManagerFields
<1>9. all \in Seq(Blocks(n)) /\ Len(all) = L + k
  <2> HIDE DEF ids
  <2>1. ids \o new \in Seq(Blocks(n)) /\ Len(ids \o new) = Len(ids) + Len(new)
    BY ONLY <1>5, <1>8, ConcatIndex
  <2> QED BY ONLY <1>1, <1>5, <2>1
<1>10. \A b \in Elems(ids) : b \notin Elems(new)
  BY <1>7 DEF FreshOK
<1>11. NoDup(ids) /\ x.map[s].filled <= slots /\ slots <= tl[s]
  BY <1>0 DEF MapOK
<1>12. Elems(all) = Elems(ids) \union Elems(new) /\ NoDup(all)
  <2> HIDE DEF ids, all
  <2>1. Elems(ids) \cap Elems(new) = {}
    BY <1>10
  <2> QED BY ONLY <1>5, <1>8, <1>11, <2>1, ConcatElems DEF all
<1>13. /\ y.map[s] = [live |-> TRUE, ids |-> all, slots |-> tl[s], filled |-> x.map[s].filled]
       /\ \A t \in Seqs : t # s => y.map[t] = x.map[t]
  BY ONLY <1>2, <1>8, s \in Seqs
<1>14. y.map[s].live = TRUE /\ y.map[s].ids = all /\ y.map[s].slots = tl[s]
       /\ y.map[s].filled = x.map[s].filled
  BY ONLY <1>13
<1>15. \A i \in 1..Len(all) : BlockOK(y, s, i)
  BY <1>1, <1>5, <1>7, <1>14, TakeMap DEF ln, hh
<1> HIDE DEF all, ids, slots
<1>16. MapOK(y, s, tl[s])
  <2>1. x.map[s].filled <= tl[s] /\ tl[s] <= tl[s]
    BY <1>8, <1>11, SizeAssumption
  <2> QED BY ONLY <1>6, <1>9, <1>12, <1>14, <1>15, <2>1 DEF MapOK
<1>17. y.map \in [Seqs -> BlockMap(n)]
  <2>1. [live |-> TRUE, ids |-> all, slots |-> tl[s], filled |-> x.map[s].filled] \in BlockMap(n)
    BY <1>8, <1>9 DEF BlockMap, Blocks
  <2> QED BY ONLY <1>2, <1>8, <2>1
<1>18. y \in Manager(n)
  <2>1. /\ y.resv \in [Regions -> Seq(Blocks(n))]
        /\ y.exhausted \in BOOLEAN /\ y.lost \in SUBSET Blocks(n)
    BY <1>0, <1>2, ManagerFields
  <2>2. /\ y.total = n
        /\ y.free \in Seq(Blocks(n))
        /\ y.ref \in [Blocks(n) -> Int]
        /\ y.status \in [Blocks(n) -> {"Free", "Used"}]
        /\ y.len \in [Blocks(n) -> 0..BlockSize]
        /\ y.hash \in [Blocks(n) -> Hashes \union {NoHash}]
    BY ONLY <1>7 DEF FreshOK
  <2>3. y.table \in [Hashes -> Blocks(n) \union {NoBlock}]
    BY <1>0, <1>1, <1>7, TookTable
  <2> QED BY ONLY <1>2, <1>17, <2>1, <2>2, <2>3, ManagerOfFields, n \in Nat
<1>19. RefExact(y, n)
  <2>1. \A b \in Blocks(n) : x.ref[b] \in Nat /\ y.ref[b] = x.ref[b] + Unit(b \in Elems(new))
    BY <1>0, <1>7, Holders DEF FreshOK
  <2>2. \A b \in Blocks(n) :
           y.ref[b] = x.ref[b] + Unit(b \in Elems(y.map[s].ids)) - Unit(b \in Elems(x.map[s].ids))
    BY ONLY <1>10, <1>12, <1>14, <2>1 DEF Unit, ids
  <2>3. \A t \in Seqs : t # s => y.map[t].ids = x.map[t].ids
    BY <1>13
  <2>4. RefExact(x, n) /\ y.resv = x.resv /\ y.lost = x.lost
    BY <1>0, <1>2
  <2> QED BY ONLY <2>2, <2>3, <2>4, RefBySeq, n \in Nat, s \in Seqs
<1>20. /\ \A t \in Seqs : MapOK(y, t, tl[t])
       /\ \A r \in Regions : RegionOK(y, r)
       /\ FreeExact(y, n) /\ LabelsFull(y, n)
  BY ONLY <1>2, <1>7, <1>13, <1>16 DEF FreshOK
<1> QED BY <1>0, <1>1, <1>7, <1>18, <1>19, <1>20, TookTable DEF Sound

\* What the first half of alloc_blocks adds: a slots, up to the end of the
\* last of the L blocks or all the tokens that are left.
Appends(x, s, total, L, a) ==
    LET slots == x.map[s].slots
        last == x.map[s].ids[L]
    IN  /\ a \in Nat /\ slots + a <= total
        /\ slots + a = total \/ slots + a = L * BlockSize
        /\ slots + a <= L * BlockSize
        /\ L = CeilDiv(slots + a, BlockSize)
        /\ a # 0 => /\ L >= 1 /\ slots < L * BlockSize
                    /\ x.len[last] = slots - (L - 1) * BlockSize
                    /\ x.hash[last] = NoHash /\ x.ref[last] = 1

\* A sequence with a block that is not full has no other holder of it.
LEMMA AppendFacts ==
  ASSUME NEW n \in Nat, NEW x \in Manager(n), NEW s \in Seqs, NEW total \in 0..MaxLen,
         MapOK(x, s, total), NEW L, L = Len(x.map[s].ids)
  PROVE  Appends(x, s, total, L, AppendSlots(x, s, total))
<1> DEFINE slots == x.map[s].slots
           ids == x.map[s].ids
           B == BlockSize
           a == AppendSlots(x, s, total)
           last == ids[L]
<1>0. B \in Nat \ {0} /\ MaxLen \in Nat
  BY SizeAssumption
<1>1. slots \in Nat /\ total \in Nat /\ slots <= total
  BY <1>0, MapFields DEF MapOK
<1>2. L \in Nat /\ L = CeilDiv(slots, B)
  BY MapFields DEF MapOK
<1>3. slots <= L * B /\ L * B < slots + B /\ L * B \in Nat
  <2>1. slots <= L * B /\ L * B < slots + B
    BY ONLY <1>1, <1>2, CeilBounds
  <2> QED BY ONLY <1>0, <1>2, <2>1
<1>4. (L - 1) * B = L * B - B
  BY ONLY <1>0, <1>2
<1>5. CASE slots = 0
  <2>1. a = 0
    BY <1>5 DEF AppendSlots
  <2>2. L * B < B
    BY ONLY <1>0, <1>3, <1>5
  <2>3. L = 0
    <3>1. CASE L >= 1
      <4>1. 0 * B + B <= L * B
        BY ONLY <1>2, <3>1, MulMono
      <4>2. 0 * B = 0
        BY ONLY <1>0
      <4> QED BY ONLY <1>0, <1>3, <2>2, <4>1, <4>2
    <3> QED BY ONLY <1>2, <3>1
  <2>4. L * B = 0
    BY ONLY <1>0, <2>3
  <2>5. slots + a = slots
    BY <1>1, <2>1
  <2> HIDE DEF a
  <2> QED BY ONLY <1>1, <1>2, <1>5, <2>1, <2>4, <2>5 DEF Appends, a, slots, B
<1>6. CASE slots # 0
  <2>1. L >= 1
    <3>1. CASE L = 0
      <4>1. L * B = 0
        BY ONLY <1>0, <3>1
      <4> QED BY ONLY <1>1, <1>3, <1>6, <4>1
    <3> QED BY ONLY <1>2, <3>1
  <2>2. BlockOK(x, s, L) /\ L \in 1..Len(ids)
    BY <1>2, <2>1 DEF MapOK
  <2>3. /\ L * B <= slots => x.len[last] = B
        /\ ~(L * B <= slots) => /\ x.len[last] = slots - (L - 1) * B
                               /\ x.hash[last] = NoHash /\ x.ref[last] = 1
    BY <2>2 DEF BlockOK
  <2>4. LastBlock(x, s) = last
    BY DEF LastBlock
  <2>5. a = Least(B - x.len[last], total - slots)
    BY <1>1, <1>6, <2>4 DEF AppendSlots
  <2> DEFINE len == x.len[last]
  <2>6. len = IF L * B <= slots THEN B ELSE slots - (L - 1) * B
    BY <2>3
  <2> HIDE DEF a, last, slots, B, len
  <2>7. B - len = L * B - slots
    BY ONLY <1>0, <1>1, <1>3, <1>4, <2>6
  <2>8. a = IF L * B < total THEN L * B - slots ELSE total - slots
    BY ONLY <1>1, <1>3, <2>5, <2>7 DEF Least, len
  <2>9. /\ a \in Nat /\ slots + a <= total /\ slots + a <= L * B
        /\ slots + a = total \/ slots + a = L * B
        /\ slots <= slots + a
        /\ slots + a \in Nat
        /\ a # 0 => slots < L * B
    BY ONLY <1>1, <1>3, <2>8
  <2>10. L = CeilDiv(slots + a, B)
    <3>1. L * B < slots + a + B
      BY ONLY <1>0, <1>1, <1>3, <2>9
    <3> QED BY ONLY <1>2, <2>9, <3>1, CeilUnique DEF B
  <2>11. a # 0 => len = slots - (L - 1) * B /\ x.hash[last] = NoHash /\ x.ref[last] = 1
    <3>1. a # 0 => ~(L * B <= slots)
      BY ONLY <1>1, <1>3, <2>9
    <3> QED BY ONLY <2>3, <3>1 DEF len
  <2> QED BY ONLY <2>1, <2>9, <2>10, <2>11 DEF Appends, a, slots, B, last, len, ids
<1> QED BY <1>5, <1>6

\* The manager after the first half of alloc_blocks, but for the map of s.
FilledLast(x, z, a, last, h) ==
    /\ Whole(z)
    /\ z.total = x.total /\ z.free = x.free /\ z.ref = x.ref /\ z.status = x.status
    /\ z.resv = x.resv /\ z.exhausted = x.exhausted /\ z.lost = x.lost
    /\ x.len[last] + a < BlockSize =>
          /\ z.len = [x.len EXCEPT ![last] = x.len[last] + a]
          /\ z.hash = x.hash /\ z.table = x.table
    /\ ~(x.len[last] + a < BlockSize) =>
          /\ z.len = [x.len EXCEPT ![last] = BlockSize]
          /\ z.hash = [x.hash EXCEPT ![last] = h]
          /\ z.table = [x.table EXCEPT ![h] = last]

\* The same manager, the slots counted already.
WithSlots(z, s, a) == [z EXCEPT !.map = [z.map EXCEPT ![s] =
                          [live |-> z.map[s].live, ids |-> z.map[s].ids,
                           slots |-> z.map[s].slots + a, filled |-> z.map[s].filled]]]

\* fill_last_block changes the last block only.
LEMMA FillFields ==
  ASSUME NEW n \in Nat, NEW x \in Manager(n), NEW s \in Seqs, NEW total,
         NEW a, a = AppendSlots(x, s, total), a # 0,
         NEW last, last = LastBlock(x, s),
         NEW z, z = fill_last_block(x, s, total)
  PROVE  /\ FilledLast(x, z, a, last, BlockHash[s][(x.map[s].slots + a) \div BlockSize])
         /\ z.map = x.map
<1> DEFINE h == BlockHash[s][(x.map[s].slots + a) \div BlockSize]
<1>0. Whole(x)
  BY ManagerFields
<1>1. z = IF x.len[last] + a < BlockSize
          THEN [x EXCEPT !.len = [x.len EXCEPT ![last] = x.len[last] + a]]
          ELSE [x EXCEPT !.len = [x.len EXCEPT ![last] = BlockSize],
                         !.hash = [x.hash EXCEPT ![last] = h],
                         !.table = [x.table EXCEPT ![h] = last]]
  BY DEF fill_last_block
<1> HIDE DEF h
<1>2. CASE x.len[last] + a < BlockSize
  <2>1. z = [x EXCEPT !.len = [x.len EXCEPT ![last] = x.len[last] + a]]
    BY <1>1, <1>2
  <2> QED BY ONLY <1>0, <1>2, <2>1 DEF FilledLast, Whole, h
<1>3. CASE ~(x.len[last] + a < BlockSize)
  <2>1. z = [x EXCEPT !.len = [x.len EXCEPT ![last] = BlockSize],
                      !.hash = [x.hash EXCEPT ![last] = h],
                      !.table = [x.table EXCEPT ![h] = last]]
    BY <1>1, <1>3
  <2> QED BY ONLY <1>0, <1>3, <2>1 DEF FilledLast, Whole, h
<1> QED BY <1>2, <1>3

Counted(z, w, s, a) ==
    /\ Whole(w)
    /\ w.total = z.total /\ w.free = z.free /\ w.ref = z.ref /\ w.status = z.status
    /\ w.len = z.len /\ w.hash = z.hash /\ w.table = z.table
    /\ w.resv = z.resv /\ w.exhausted = z.exhausted /\ w.lost = z.lost
    /\ w.map = [z.map EXCEPT ![s] =
                   [live |-> z.map[s].live, ids |-> z.map[s].ids,
                    slots |-> z.map[s].slots + a, filled |-> z.map[s].filled]]

\* Counting the slots changes that field only.
LEMMA SlotsFields ==
  ASSUME NEW z, Whole(z), NEW s, NEW a, NEW w, w = WithSlots(z, s, a)
  PROVE  Counted(z, w, s, a)
BY DEF WithSlots, Whole, Counted

\* Filling the last block of s and counting its slots keeps the manager
\* sound: nobody else holds the block, and no table entry named it.
LEMMA FillSound ==
  ASSUME NEW n \in Nat, NEW tl \in [Seqs -> 0..MaxLen], NEW x, Sound(x, n, tl),
         NEW s \in Seqs, NEW a, a = AppendSlots(x, s, tl[s]), a # 0,
         NEW z, z = fill_last_block(x, s, tl[s]), NEW w, w = WithSlots(z, s, a)
  PROVE  Sound(w, n, tl) /\ (TableOK(x) => TableOK(w))
<1> DEFINE slots == x.map[s].slots
           ids == x.map[s].ids
           L == Len(ids)
           B == BlockSize
           last == ids[L]
           h == BlockHash[s][(slots + a) \div B]
           full == ~(x.len[last] + a < B)
           total == tl[s]
           P == L * B
           Q == (L - 1) * B
<1>0. /\ x \in Manager(n) /\ RefExact(x, n) /\ MapOK(x, s, total) /\ FreeExact(x, n)
      /\ LabelsFull(x, n) /\ B \in Nat \ {0} /\ total \in 0..MaxLen
  BY SizeAssumption DEF Sound
<1>1. /\ a \in Nat /\ slots + a <= total
      /\ slots + a = total \/ slots + a = L * B
      /\ slots + a <= L * B
      /\ L = CeilDiv(slots + a, B)
      /\ L >= 1 /\ slots < L * B
      /\ x.len[last] = slots - (L - 1) * B
      /\ x.hash[last] = NoHash /\ x.ref[last] = 1
  <2>1. Appends(x, s, total, L, a)
    BY <1>0, AppendFacts
  <2> HIDE DEF slots, L, last, total, B
  <2> QED BY ONLY <2>1, a # 0 DEF Appends, slots, last, ids, B
<1>2. /\ ids \in Seq(Blocks(n)) /\ L \in Nat /\ slots \in 0..MaxLen
      /\ x.map[s].filled \in 0..MaxLen /\ x.map \in [Seqs -> BlockMap(n)]
      /\ x.map[s].live \in BOOLEAN
      /\ MaxLen \in Nat
  BY <1>0, MapFields, ManagerFields, SizeAssumption
<1>3. last \in Blocks(n) /\ last \in Elems(ids) /\ L \in 1..L
  <2>1. L \in 1..L
    BY <1>1, <1>2
  <2> QED BY <1>2, <2>1 DEF Elems
<1>4. FilledLast(x, z, a, last, h) /\ z.map = x.map
  <2>1. LastBlock(x, s) = last
    BY DEF LastBlock
  <2> QED BY <1>0, <2>1, FillFields
<1> HIDE DEF h, last, ids, slots, full, total, L, B, P, Q
<1>5. /\ Whole(w)
      /\ w.total = x.total /\ w.free = x.free /\ w.ref = x.ref /\ w.status = x.status
      /\ w.resv = x.resv /\ w.exhausted = x.exhausted /\ w.lost = x.lost
      /\ ~full => /\ w.len = [x.len EXCEPT ![last] = x.len[last] + a]
                  /\ w.hash = x.hash /\ w.table = x.table
      /\ full => /\ w.len = [x.len EXCEPT ![last] = B]
                 /\ w.hash = [x.hash EXCEPT ![last] = h]
                 /\ w.table = [x.table EXCEPT ![h] = last]
      /\ w.map = [x.map EXCEPT ![s] = [live |-> x.map[s].live, ids |-> ids,
                                       slots |-> slots + a, filled |-> x.map[s].filled]]
  <2>1. /\ Whole(w)
        /\ w.total = z.total /\ w.free = z.free /\ w.ref = z.ref /\ w.status = z.status
        /\ w.len = z.len /\ w.hash = z.hash /\ w.table = z.table
        /\ w.resv = z.resv /\ w.exhausted = z.exhausted /\ w.lost = z.lost
        /\ w.map = [z.map EXCEPT ![s] =
                       [live |-> z.map[s].live, ids |-> z.map[s].ids,
                        slots |-> z.map[s].slots + a, filled |-> z.map[s].filled]]
    <3>1. Whole(z)
      BY <1>4 DEF FilledLast
    <3>2. Counted(z, w, s, a)
      BY ONLY <3>1, w = WithSlots(z, s, a), SlotsFields
    <3> QED BY ONLY <3>2 DEF Counted
  <2>2. /\ z.total = x.total /\ z.free = x.free /\ z.ref = x.ref /\ z.status = x.status
        /\ z.resv = x.resv /\ z.exhausted = x.exhausted /\ z.lost = x.lost
        /\ ~full => /\ z.len = [x.len EXCEPT ![last] = x.len[last] + a]
                    /\ z.hash = x.hash /\ z.table = x.table
        /\ full => /\ z.len = [x.len EXCEPT ![last] = B]
                   /\ z.hash = [x.hash EXCEPT ![last] = h]
                   /\ z.table = [x.table EXCEPT ![h] = last]
    BY ONLY <1>4 DEF FilledLast, full, B
  <2>3. w.map = [x.map EXCEPT ![s] = [live |-> x.map[s].live, ids |-> ids,
                                      slots |-> slots + a, filled |-> x.map[s].filled]]
    BY ONLY <1>4, <2>1 DEF ids, slots
  <2> HIDE DEF FilledLast
  <2> QED BY ONLY <2>1, <2>2, <2>3
<1>6. Q = P - B /\ P \in Nat /\ Q \in Int
  BY ONLY <1>0, <1>2 DEF P, Q
<1>21. /\ slots + a = total \/ slots + a = P
       /\ slots + a <= P /\ slots < P /\ x.len[last] = slots - Q
  BY ONLY <1>1 DEF P, Q
<1>22. slots \in Nat /\ total \in Nat /\ a \in Nat /\ B \in Nat \ {0} /\ MaxLen \in Nat
       /\ slots + a <= total /\ total <= MaxLen /\ slots <= MaxLen
  BY ONLY <1>0, <1>1, <1>2
<1>7. full <=> slots + a = P
  <2>1. full <=> ~(slots - Q + a < B)
    BY ONLY <1>21 DEF full
  <2> QED BY ONLY <1>6, <1>21, <1>22, <2>1
<1>8. full => h = BlockHash[s][L] /\ h \in Hashes
  <2> SUFFICES ASSUME full PROVE h = BlockHash[s][L] /\ h \in Hashes
    OBVIOUS
  <2>1. slots + a = L * B /\ L * B <= MaxLen
    <3>1. slots + a = P /\ P <= MaxLen
      BY ONLY <1>6, <1>7, <1>22, full
    <3> QED BY ONLY <3>1 DEF P
  <2>2. (L * B) \div B = L
    BY ONLY <1>0, <1>2
  <2>3. L <= NumFull
    BY ONLY <1>2, <2>1, FullBlocks DEF NumFull, B
  <2>4. L \in 1..NumFull
    <3>1. NumFull \in Nat
      BY ONLY <1>2, DivBounds DEF NumFull
    <3> QED BY ONLY <1>1, <1>2, <2>3, <3>1
  <2>5. BlockHash[s][L] \in Hashes
    BY ONLY <2>4, HashAssumption, s \in Seqs
  <2> QED BY ONLY <2>1, <2>2, <2>5 DEF h
<1>9. /\ x.len \in [Blocks(n) -> 0..B] /\ x.hash \in [Blocks(n) -> Hashes \union {NoHash}]
      /\ x.table \in [Hashes -> Blocks(n) \union {NoBlock}]
  BY <1>0, ManagerFields DEF B
<1>10. /\ w.len[last] = (slots + a) - Q
       /\ full => w.len[last] = B /\ w.hash[last] = h
       /\ ~full => w.hash[last] = NoHash
       /\ \A b \in Blocks(n) : b # last => w.len[b] = x.len[b] /\ w.hash[b] = x.hash[b]
  <2>1. CASE full
    <3>1. w.len[last] = B /\ w.hash[last] = h
      BY ONLY <1>3, <1>5, <1>9, <2>1
    <3>2. B = (slots + a) - Q
      BY ONLY <1>6, <1>7, <1>22, <2>1
    <3> QED BY ONLY <1>5, <1>9, <2>1, <3>1, <3>2
  <2>2. CASE ~full
    <3>1. w.len[last] = x.len[last] + a
      BY ONLY <1>3, <1>5, <1>9, <2>2
    <3>2. x.len[last] + a = (slots + a) - Q
      <4>1. slots - Q + a = (slots + a) - Q
        BY ONLY <1>6, <1>22
      <4> QED BY ONLY <1>21, <4>1
    <3> QED BY ONLY <1>1, <1>5, <1>9, <2>2, <3>1, <3>2
  <2> QED BY <2>1, <2>2
<1>11. /\ w.map[s].live = x.map[s].live /\ w.map[s].ids = ids
       /\ w.map[s].slots = slots + a /\ w.map[s].filled = x.map[s].filled
       /\ \A t \in Seqs : t # s => w.map[t] = x.map[t]
  BY ONLY <1>2, <1>5, s \in Seqs
<1>12. (slots + a) - Q \in 0..B /\ slots - Q + a \in 0..B
  <2>1. Q < slots
    <3>1. L = CeilDiv(slots, B)
      BY <1>0 DEF MapOK, slots, ids, L, B
    <3>2. L * B < slots + B
      BY ONLY <1>22, <3>1, CeilBounds DEF B
    <3>3. P < slots + B
      BY ONLY <3>2 DEF P
    <3> QED BY ONLY <1>6, <1>22, <3>3
  <2> QED BY ONLY <1>6, <1>21, <1>22, <2>1
<1>13. w \in Manager(n)
  <2>1. w.len \in [Blocks(n) -> 0..B] /\ w.hash \in [Blocks(n) -> Hashes \union {NoHash}]
        /\ w.table \in [Hashes -> Blocks(n) \union {NoBlock}]
    <3>1. CASE full
      BY ONLY <1>0, <1>3, <1>5, <1>8, <1>9, <3>1
    <3>2. CASE ~full
      <4>1. x.len[last] + a \in 0..B
        BY ONLY <1>12, <1>21
      <4> QED BY ONLY <1>3, <1>5, <1>9, <3>2, <4>1
    <3> QED BY <3>1, <3>2
  <2>2. w.map \in [Seqs -> BlockMap(n)]
    <3>1. slots + a \in 0..MaxLen
      BY ONLY <1>0, <1>1, <1>2
    <3>2. [live |-> x.map[s].live, ids |-> ids, slots |-> slots + a,
           filled |-> x.map[s].filled] \in BlockMap(n)
      BY ONLY <1>2, <3>1 DEF BlockMap, Blocks
    <3> QED BY ONLY <1>2, <1>5, <3>2
  <2>3. /\ w.total = n /\ w.free \in Seq(Blocks(n)) /\ w.ref \in [Blocks(n) -> Int]
        /\ w.status \in [Blocks(n) -> {"Free", "Used"}]
        /\ w.resv \in [Regions -> Seq(Blocks(n))]
        /\ w.exhausted \in BOOLEAN /\ w.lost \in SUBSET Blocks(n)
    BY <1>0, <1>5, ManagerFields
  <2> QED BY ONLY <1>5, <2>1, <2>2, <2>3, ManagerOfFields, n \in Nat DEF B
<1>14. RefExact(w, n)
  <2>1. \A b \in Blocks(n) : x.ref[b] \in Nat
    BY <1>0, Holders
  <2>2. w.ref = x.ref /\ w.resv = x.resv /\ w.lost = x.lost
    BY <1>5
  <2>3. w.map[s].ids = x.map[s].ids /\ \A t \in Seqs : t # s => w.map[t].ids = x.map[t].ids
    BY ONLY <1>11 DEF ids
  <2>4. \A b \in Blocks(n) :
           w.ref[b] = x.ref[b] + Unit(b \in Elems(w.map[s].ids)) - Unit(b \in Elems(x.map[s].ids))
    BY ONLY <2>1, <2>2, <2>3 DEF Unit
  <2>5. RefExact(x, n)
    BY <1>0
  <2> QED BY ONLY <2>2, <2>3, <2>4, <2>5, RefBySeq, n \in Nat, s \in Seqs
<1>15. FreeExact(w, n)
  BY ONLY <1>0, <1>5 DEF FreeExact
<1>16. LabelsFull(w, n)
  BY ONLY <1>0, <1>10 DEF LabelsFull, B
<1>17. ASSUME NEW t \in Seqs, t # s PROVE MapOK(w, t, tl[t])
  <2>1. MapOK(x, t, tl[t]) /\ x.map[t].ids \in Seq(Blocks(n))
    BY <1>0, MapFields DEF Sound
  <2>2. \A b \in Elems(x.map[t].ids) : b \in Blocks(n) /\ b # last
    <3>1. \A b \in Elems(x.map[t].ids) : b \in Blocks(n)
      BY <2>1 DEF Elems
    <3>2. last \notin Elems(x.map[t].ids)
      BY <1>0, <1>1, <1>3, <1>17, Holders DEF ids
    <3> QED BY <3>1, <3>2
  <2>3. \A b \in Elems(x.map[t].ids) :
           w.len[b] = x.len[b] /\ w.hash[b] = x.hash[b] /\ w.ref[b] = x.ref[b]
    BY <1>5, <1>10, <2>2
  <2>4. w.map[t] = x.map[t]
    BY <1>11, <1>17
  <2>5. x \in Manager(n)
    BY <1>0
  <2> QED BY ONLY <2>1, <2>3, <2>4, <2>5, MapFrame, n \in Nat, t \in Seqs
<1>18. MapOK(w, s, tl[s])
  <2>1. /\ x.map[s].filled <= slots /\ NoDup(ids)
        /\ \A i \in 1..L : BlockOK(x, s, i)
        /\ ~x.map[s].live => x.map[s] = NoMap
    BY <1>0 DEF MapOK, slots, ids, total, L
  <2>2. x.map[s].live
    <3>1. x.map[s] = NoMap => ids = <<>>
      BY DEF NoMap, ids
    <3>2. Len(<<>>) = 0
      OBVIOUS
    <3> QED BY <1>1, <2>1, <3>1, <3>2 DEF L
  <2>3. ASSUME NEW i \in 1..L PROVE BlockOK(w, s, i)
    <3>1. CASE i = L
      <4>1. w.map[s].ids[i] = last /\ w.map[s].slots = slots + a
        BY <1>11, <3>1 DEF last
      <4>2. i * B <= slots + a <=> full
        <5>1. P <= slots + a <=> full
          BY ONLY <1>6, <1>7, <1>21, <1>22
        <5> QED BY ONLY <3>1, <5>1 DEF P
      <4>3. full => w.len[last] = B /\ w.hash[last] = BlockHash[s][i]
        BY <1>8, <1>10, <3>1
      <4>4. ~full => /\ w.len[last] = (slots + a) - (i - 1) * B
                    /\ w.hash[last] = NoHash /\ w.ref[last] = 1
        <5>1. ~full => w.len[last] = (slots + a) - Q /\ w.hash[last] = NoHash
          BY ONLY <1>10
        <5>2. w.ref[last] = 1
          BY ONLY <1>1, <1>5
        <5>3. (i - 1) * B = Q
          BY ONLY <3>1 DEF Q
        <5> QED BY ONLY <5>1, <5>2, <5>3, Zenon
      <4>5. CASE full
        BY ONLY <4>1, <4>2, <4>3, <4>5 DEF BlockOK, B
      <4>6. CASE ~full
        <5>1. ~(i * B <= slots + a)
          BY <4>2, <4>6
        <5>2. /\ w.len[last] = (slots + a) - (i - 1) * B
              /\ w.hash[last] = NoHash /\ w.ref[last] = 1
          BY <4>4, <4>6
        <5> QED BY ONLY <4>1, <5>1, <5>2 DEF BlockOK, B
      <4> QED BY <4>5, <4>6
    <3>2. CASE i # L
      <4>1. i * B + B <= L * B
        BY ONLY <1>2, <3>2, i \in 1..L, MulMono DEF B
      <4>2. L * B < slots + B
        <5>1. L = CeilDiv(slots, B)
          BY <1>0 DEF MapOK, slots, ids, L, B
        <5>2. slots \in Nat
          BY <1>2
        <5> QED BY ONLY <5>1, <5>2, CeilBounds DEF B
      <4>9. i * B + B <= P /\ P < slots + B
        BY ONLY <4>1, <4>2 DEF P
      <4>3. i * B \in Nat
        BY ONLY <1>0, <1>2, i \in 1..L
      <4>4. i * B <= slots /\ i * B <= slots + a
        BY ONLY <1>6, <1>22, <4>9, <4>3
      <4>5. ids[i] # last /\ ids[i] \in Blocks(n)
        BY <1>2, <1>3, <2>1, <3>2 DEF NoDup, last, L
      <4>6. x.len[ids[i]] = B /\ x.hash[ids[i]] = BlockHash[s][i]
        BY <2>1, <4>4 DEF BlockOK, ids, slots, B
      <4>7. w.len[ids[i]] = B /\ w.hash[ids[i]] = BlockHash[s][i]
        BY <1>10, <4>5, <4>6
      <4>8. w.map[s].ids[i] = ids[i] /\ w.map[s].slots = slots + a
        BY <1>11
      <4> QED BY ONLY <4>4, <4>7, <4>8 DEF BlockOK, B
    <3> QED BY <3>1, <3>2
  <2>4. x.map[s].filled <= slots + a
    BY ONLY <1>1, <1>2, <2>1
  <2> QED BY ONLY <1>1, <1>11, <2>1, <2>2, <2>3, <2>4 DEF MapOK, L, B, total
<1>19. ASSUME NEW r \in Regions PROVE RegionOK(w, r)
  <2>1. RegionOK(x, r) /\ x.resv[r] \in Seq(Blocks(n))
    BY <1>0, ManagerFields DEF Sound
  <2>2. \A b \in Elems(x.resv[r]) : b \in Blocks(n)
    BY <2>1 DEF Elems
  <2>3. last \notin Elems(x.resv[r])
    BY <1>0, <1>1, <1>3, Holders DEF ids
  <2>4. \A b \in Elems(x.resv[r]) : w.hash[b] = x.hash[b]
    BY <1>10, <2>2, <2>3
  <2> QED BY <1>5, <2>1, <2>4, RegionFrame
<1>20. ASSUME TableOK(x) PROVE TableOK(w)
  <2>1. NoHash \notin Hashes
    BY HashAssumption DEF NoHash
  <2>2. \A g \in Hashes : x.table[g] # NoBlock =>
            x.hash[x.table[g]] = g /\ x.table[g] # last /\ x.table[g] \in Blocks(n)
    BY <1>1, <1>9, <1>20, <2>1 DEF TableOK
  <2>3. \A g \in Hashes : x.table[g] # NoBlock => w.hash[x.table[g]] = g
    BY <1>10, <2>2
  <2>4. CASE full
    BY <1>5, <1>8, <1>9, <1>10, <2>3, <2>4 DEF TableOK
  <2>5. CASE ~full
    BY <1>5, <2>3, <2>5 DEF TableOK
  <2> QED BY <2>4, <2>5
<1> QED BY <1>13, <1>14, <1>15, <1>16, <1>17, <1>18, <1>19, <1>20 DEF Sound

\* What take_blocks returns.
TakeResult(x, y, n, s, slots, total, k, new) ==
    /\ Took(x, y, n, new, NewLens(slots, total, new), NewHashes(s, slots, total, new))
    /\ ~Exhausts(x, k) => TookFor(x, y, s, total, new)
    /\ Exhausts(x, k) => /\ y.exhausted = TRUE /\ y.lost = x.lost \union Elems(new)
                         /\ y.map = [x.map EXCEPT ![s] = x.map[s]]

\* take_blocks changes the fields like that.
LEMMA TakeFields ==
  ASSUME NEW n \in Nat, NEW x, Whole(x), DOMAIN x.ref = Blocks(n),
         DOMAIN x.status = Blocks(n), DOMAIN x.len = Blocks(n), DOMAIN x.hash = Blocks(n),
         x.exhausted \in BOOLEAN,
         NEW s, NEW slots, NEW total, NEW k, k = CeilDiv(total - slots, BlockSize),
         NEW new, new = Popped(x, k), NEW y, y = take_blocks(x, s, slots, total)
  PROVE  TakeResult(x, y, n, s, slots, total, k, new)
<1> DEFINE ln == NewLens(slots, total, new)
           hh == NewHashes(s, slots, total, new)
<1>1. \A b \in Elems(new) : ln[IndexIn(new, b)] = NewLen(slots, total, IndexIn(new, b))
  <2>1. \A b \in Elems(new) : \E j \in 1..Len(new) : new[j] = b
    BY DEF Elems
  <2>2. \A b \in Elems(new) : IndexIn(new, b) \in 1..Len(new)
    BY <2>1 DEF IndexIn
  <2> QED BY <2>2 DEF NewLens
<1>2. y = [x EXCEPT
            !.free = SubSeq(x.free, Len(new) + 1, Len(x.free)),
            !.ref = alloc_ref(x, new),
            !.status = alloc_status(x, new),
            !.len = [b \in DOMAIN x.len |->
                        IF b \in Elems(new) THEN NewLen(slots, total, IndexIn(new, b))
                        ELSE x.len[b]],
            !.hash = [b \in DOMAIN x.hash |->
                         IF b \in Elems(new) THEN hh[IndexIn(new, b)] ELSE x.hash[b]],
            !.table = alloc_table(x, new, hh),
            !.map = [x.map EXCEPT ![s] =
                       IF Exhausts(x, k) THEN x.map[s]
                       ELSE [live |-> TRUE, ids |-> x.map[s].ids \o new, slots |-> total,
                             filled |-> x.map[s].filled]],
            !.exhausted = x.exhausted \/ Exhausts(x, k),
            !.lost = IF Exhausts(x, k) THEN x.lost \union Elems(new) ELSE x.lost]
  BY DEF take_blocks, NewHashes
<1> HIDE DEF ln, hh
<1>3. /\ Whole(y) /\ y.total = x.total /\ y.resv = x.resv
      /\ y.free = SubSeq(x.free, Len(new) + 1, Len(x.free))
      /\ y.ref = alloc_ref(x, new)
      /\ y.status = alloc_status(x, new)
      /\ y.len = [b \in DOMAIN x.len |->
                        IF b \in Elems(new) THEN NewLen(slots, total, IndexIn(new, b))
                        ELSE x.len[b]]
      /\ y.hash = [b \in DOMAIN x.hash |->
                         IF b \in Elems(new) THEN hh[IndexIn(new, b)] ELSE x.hash[b]]
      /\ y.table = alloc_table(x, new, hh)
      /\ y.map = [x.map EXCEPT ![s] =
                       IF Exhausts(x, k) THEN x.map[s]
                       ELSE [live |-> TRUE, ids |-> x.map[s].ids \o new, slots |-> total,
                             filled |-> x.map[s].filled]]
      /\ y.exhausted = (x.exhausted \/ Exhausts(x, k))
      /\ y.lost = IF Exhausts(x, k) THEN x.lost \union Elems(new) ELSE x.lost
  BY ONLY <1>2, Whole(x) DEF Whole
<1>4. Fresh(x, y, n, new, ln, hh)
  <2>1. y.len = [b \in Blocks(n) |->
                   IF b \in Elems(new) THEN ln[IndexIn(new, b)] ELSE x.len[b]]
    BY <1>1, <1>3
  <2> QED BY <1>3, <2>1 DEF Fresh, alloc_ref, alloc_status
<1>5. Took(x, y, n, new, ln, hh)
  BY ONLY <1>3, <1>4 DEF Took
<1>6. ~Exhausts(x, k) => TookFor(x, y, s, total, new)
  BY <1>3 DEF TookFor
<1>7. Exhausts(x, k) => /\ y.exhausted = TRUE /\ y.lost = x.lost \union Elems(new)
                        /\ y.map = [x.map EXCEPT ![s] = x.map[s]]
  BY <1>3
<1> QED BY <1>5, <1>6, <1>7 DEF ln, hh, TakeResult

\* A panic of alloc_blocks that nothing came before.
LEMMA TakeExhausted ==
  ASSUME NEW n \in Nat, NEW tl \in [Seqs -> 0..MaxLen], NEW x, Sound(x, n, tl),
         NEW s \in Seqs, NEW slots, NEW total, NEW L, NEW k, NewSpan(slots, total, L, k),
         NEW new, new = Popped(x, k), NEW y,
         Took(x, y, n, new, NewLens(slots, total, new), NewHashes(s, slots, total, new)),
         TookLost(x, y, new)
  PROVE  Sound(y, n, tl) /\ (TableOK(x) => TableOK(y))
<1> DEFINE ln == NewLens(slots, total, new)
           hh == NewHashes(s, slots, total, new)
<1>0. x \in Manager(n) /\ FreeExact(x, n)
  BY DEF Sound
<1>1. k \in Nat
  BY CeilBounds DEF NewSpan
<1>2. PopOK(x, n, k, new)
  BY <1>0, <1>1, PopFacts
<1>3. Len(new) \in Nat /\ Len(new) <= k
  BY <1>2 DEF PopOK
<1>4. NewLabels(new, ln, hh)
  BY <1>3, NewSpanLabels
<1>5. Took(x, y, n, new, ln, hh)
  OBVIOUS
<1> HIDE DEF ln, hh
<1>6. Whole(y) /\ Fresh(x, y, n, new, ln, hh) /\ y.resv = x.resv
  BY <1>5 DEF Took
<1>7. FreshOK(x, y, n, tl, new, ln, hh)
  BY <1>1, <1>4, <1>6, FreshFrame
<1>8. y.table \in [Hashes -> Blocks(n) \union {NoBlock}] /\ (TableOK(x) => TableOK(y))
  BY <1>0, <1>5, <1>7, TookTable
<1> QED BY <1>1, <1>4, <1>6, <1>8, TakeLost

\* Two managers that differ in the counted slots of s give the same result
\* when the blocks suffice.
LEMMA TookCounted ==
  ASSUME NEW n, NEW z, NEW w, NEW s, NEW a, Counted(z, w, s, a),
         NEW y, NEW new, NEW ln, NEW hh, NEW total,
         Took(z, y, n, new, ln, hh), TookFor(z, y, s, total, new), s \in DOMAIN z.map
  PROVE  Took(w, y, n, new, ln, hh) /\ TookFor(w, y, s, total, new)
<1>1. /\ w.total = z.total /\ w.free = z.free /\ w.ref = z.ref /\ w.status = z.status
      /\ w.len = z.len /\ w.hash = z.hash /\ w.table = z.table
      /\ w.resv = z.resv /\ w.exhausted = z.exhausted /\ w.lost = z.lost
  BY DEF Counted
<1>2. alloc_table(w, new, hh) = alloc_table(z, new, hh)
  BY ONLY <1>1 DEF alloc_table
<1>3. Took(w, y, n, new, ln, hh)
  BY ONLY <1>1, <1>2, Took(z, y, n, new, ln, hh) DEF Took, Fresh
<1>4. w.map = [z.map EXCEPT ![s] =
                   [live |-> z.map[s].live, ids |-> z.map[s].ids,
                    slots |-> z.map[s].slots + a, filled |-> z.map[s].filled]]
  BY DEF Counted
<1>5. w.map[s].ids = z.map[s].ids /\ w.map[s].filled = z.map[s].filled
  BY ONLY <1>4, s \in DOMAIN z.map
<1>6. y.map = [z.map EXCEPT ![s] = [live |-> TRUE, ids |-> z.map[s].ids \o new,
                                    slots |-> total, filled |-> z.map[s].filled]]
      /\ y.exhausted = z.exhausted /\ y.lost = z.lost
  BY DEF TookFor
<1>7. y.map = [w.map EXCEPT ![s] = [live |-> TRUE, ids |-> w.map[s].ids \o new,
                                    slots |-> total, filled |-> w.map[s].filled]]
  <2> DEFINE e == [live |-> TRUE, ids |-> z.map[s].ids \o new,
                   slots |-> total, filled |-> z.map[s].filled]
  <2>1. y.map = [z.map EXCEPT ![s] = e]
    BY <1>6
  <2> HIDE DEF e
  <2>2. y.map = [w.map EXCEPT ![s] = e]
    BY ONLY <1>4, <2>1
  <2> QED BY ONLY <1>5, <2>2 DEF e
<1>8. TookFor(w, y, s, total, new)
  BY ONLY <1>1, <1>6, <1>7 DEF TookFor
<1> QED BY <1>3, <1>8

\* alloc_blocks: the last block is filled, then fresh blocks are taken.  If
\* the last block takes tokens, the free list has all the blocks that are
\* needed; a panic after it would leave the last block ahead of the map.
LEMMA AllocSound ==
  ASSUME NEW n \in Nat, NEW tl \in [Seqs -> 0..MaxLen], NEW x, Sound(x, n, tl),
         NEW s \in Seqs,
         AppendSlots(x, s, tl[s]) # 0 =>
            CeilDiv(tl[s], BlockSize) - Len(x.map[s].ids) <= Len(x.free),
         NEW y, y = alloc_blocks(x, s, tl[s])
  PROVE  Sound(y, n, tl) /\ (TableOK(x) => TableOK(y))
<1> DEFINE slots == x.map[s].slots
           total == tl[s]
           L == Len(x.map[s].ids)
           a == AppendSlots(x, s, total)
           z == fill_last_block(x, s, total)
           k == CeilDiv(total - (slots + a), BlockSize)
           new == Popped(z, k)
           ln == NewLens(slots + a, total, new)
           hh == NewHashes(s, slots + a, total, new)
<1>0. /\ x \in Manager(n) /\ MapOK(x, s, total) /\ total \in 0..MaxLen
      /\ slots \in Nat /\ L \in Nat /\ x.map \in [Seqs -> BlockMap(n)]
  <2>1. x \in Manager(n) /\ MapOK(x, s, total) /\ total \in 0..MaxLen
    BY DEF Sound
  <2>2. slots \in 0..MaxLen /\ L \in Nat /\ x.map \in [Seqs -> BlockMap(n)]
    BY <2>1, MapFields, ManagerFields
  <2> QED BY <2>1, <2>2, SizeAssumption
<1>1. Appends(x, s, total, L, a)
  BY <1>0, AppendFacts
<1>2. a \in Nat /\ slots + a \in Nat
  BY <1>0, <1>1 DEF Appends
<1>3. NewSpan(slots + a, total, L, k)
  <2> HIDE DEF a, k, slots, L, total
  <2>1. /\ slots + a <= total /\ L = CeilDiv(slots + a, BlockSize)
        /\ slots + a = total \/ slots + a = L * BlockSize
    BY ONLY <1>1 DEF Appends, slots
  <2> QED BY ONLY <1>0, <1>2, <2>1 DEF NewSpan, k
<1>4. y = take_blocks(z, s, slots + a, total)
  BY DEF alloc_blocks
<1>5. a = 0 => z = x
  BY DEF fill_last_block
<1>6. a # 0 => /\ FilledLast(x, z, a, LastBlock(x, s), BlockHash[s][(slots + a) \div BlockSize])
              /\ z.map = x.map
  BY <1>0, FillFields
<1> HIDE DEF z, a, slots, L
<1>7. /\ Whole(z) /\ DOMAIN z.ref = Blocks(n) /\ DOMAIN z.status = Blocks(n)
      /\ DOMAIN z.len = Blocks(n) /\ DOMAIN z.hash = Blocks(n)
      /\ z.exhausted \in BOOLEAN /\ z.map = x.map /\ z.free = x.free
  <2>1. /\ Whole(x) /\ DOMAIN x.ref = Blocks(n) /\ DOMAIN x.status = Blocks(n)
        /\ DOMAIN x.len = Blocks(n) /\ DOMAIN x.hash = Blocks(n) /\ x.exhausted \in BOOLEAN
    BY <1>0, ManagerFields
  <2>2. CASE a = 0
    BY <1>5, <2>1, <2>2
  <2>3. CASE a # 0
    BY ONLY <1>6, <2>1, <2>3 DEF FilledLast
  <2> QED BY <2>2, <2>3
<1>8. /\ Took(z, y, n, new, ln, hh)
      /\ ~Exhausts(z, k) => TookFor(z, y, s, total, new)
      /\ Exhausts(z, k) => /\ y.exhausted = TRUE /\ y.lost = z.lost \union Elems(new)
                           /\ y.map = [z.map EXCEPT ![s] = z.map[s]]
  <2> DEFINE at == slots + a
  <2>1. k = CeilDiv(total - at, BlockSize) /\ new = Popped(z, k)
        /\ y = take_blocks(z, s, at, total)
    BY <1>4
  <2> HIDE DEF k, new, at, total
  <2>2. TakeResult(z, y, n, s, at, total, k, new)
    BY ONLY <1>7, <2>1, TakeFields, n \in Nat
  <2> QED BY ONLY <2>2 DEF at, TakeResult
<1>9. CASE a = 0
  <2>1. slots + a = slots /\ slots = x.map[s].slots /\ L = Len(x.map[s].ids)
    BY <1>0, <1>9 DEF slots, L
  <2>2. NewSpan(x.map[s].slots, tl[s], L, k)
    BY ONLY <1>3, <2>1
  <2>3. new = Popped(x, k) /\ Took(x, y, n, new, ln, hh)
    BY <1>5, <1>8, <1>9
  <2>4. CASE ~Exhausts(z, k)
    <3>1. ~Exhausts(x, k) /\ TookFor(x, y, s, tl[s], new)
      BY <1>5, <1>8, <1>9, <2>4
    <3> HIDE DEF k, new
    <3>2. Took(x, y, n, new, NewLens(x.map[s].slots, tl[s], new),
               NewHashes(s, x.map[s].slots, tl[s], new))
      BY ONLY <2>1, <2>3
    <3> QED BY <2>1, <2>2, <2>3, <3>1, <3>2, TakeSeq
  <2>5. CASE Exhausts(z, k)
    <3>1. y.exhausted = TRUE /\ y.lost = x.lost \union Elems(new)
      BY <1>5, <1>8, <1>9, <2>5
    <3>2. y.map = [x.map EXCEPT ![s] = x.map[s]]
      BY <1>5, <1>8, <1>9, <2>5
    <3>3. y.map = x.map
      BY ONLY <1>0, <3>2
    <3>4. TookLost(x, y, new)
      BY <3>1, <3>3 DEF TookLost
    <3> HIDE DEF k, new
    <3> QED BY <1>3, <2>3, <3>4, TakeExhausted
  <2> QED BY <2>4, <2>5
<1>10. CASE a # 0
  <2> DEFINE w == WithSlots(z, s, a)
  <2>1. Sound(w, n, tl) /\ (TableOK(x) => TableOK(w))
    BY <1>10, FillSound DEF a, z
  <2>2. Counted(z, w, s, a)
    BY <1>7, SlotsFields
  <2> HIDE DEF w
  <2>3. w.free = z.free /\ w.map[s].slots = slots + a /\ w.map[s].ids = x.map[s].ids
    <3>1. w.map = [z.map EXCEPT ![s] =
                      [live |-> z.map[s].live, ids |-> z.map[s].ids,
                       slots |-> z.map[s].slots + a, filled |-> z.map[s].filled]]
          /\ w.free = z.free
      BY ONLY <2>2 DEF Counted
    <3> QED BY ONLY <1>0, <1>7, <3>1, s \in Seqs DEF slots
  <2>4. ~Exhausts(z, k)
    <3>1. k \in Nat /\ L + k = CeilDiv(total, BlockSize)
      <4> HIDE DEF k
      <4>1. PICK q : q = <<>>
        OBVIOUS
      <4>2. Len(q) \in Nat /\ Len(q) <= k
        BY <1>3, <4>1, CeilBounds DEF NewSpan
      <4> HIDE DEF total
      <4> QED BY ONLY <1>3, <4>2, NewSpanLabels, s \in Seqs
    <3>2. CeilDiv(total, BlockSize) - L <= Len(x.free)
      BY <1>10 DEF a, L
    <3>3. Len(x.free) \in Nat
      BY <1>0, ManagerFields
    <3> HIDE DEF k
    <3>4. k <= Len(x.free)
      BY ONLY <1>0, <3>1, <3>2, <3>3
    <3> QED BY ONLY <1>7, <3>1, <3>3, <3>4 DEF Exhausts
  <2>5. TookFor(z, y, s, total, new) /\ Took(z, y, n, new, ln, hh)
    BY <1>8, <2>4
  <2>6. s \in DOMAIN z.map
    BY <1>0, <1>7
  <2>7. new = Popped(w, k) /\ ~Exhausts(w, k)
    BY ONLY <2>3, <2>4 DEF Popped, Exhausts
  <2> HIDE DEF new, k
  <2>8. TookFor(w, y, s, total, new) /\ Took(w, y, n, new, ln, hh)
    BY ONLY <2>2, <2>5, <2>6, TookCounted
  <2>9. /\ NewSpan(w.map[s].slots, tl[s], L, k) /\ L = Len(w.map[s].ids)
        /\ Took(w, y, n, new, NewLens(w.map[s].slots, tl[s], new),
                NewHashes(s, w.map[s].slots, tl[s], new))
    BY ONLY <1>3, <2>3, <2>8 DEF L
  <2> QED BY <2>1, <2>7, <2>8, <2>9, TakeSeq
<1> QED BY <1>9, <1>10

-----------------------------------------------------------------------------
(* Reserving a region *)

\* What reserve_blocks returns.
ReserveResult(x, y, n, r, k, new, ln, hh) ==
    /\ Whole(y) /\ Fresh(x, y, n, new, ln, hh)
    /\ y.map = x.map /\ y.table = x.table
    /\ ~Exhausts(x, k) => /\ y.resv = [x.resv EXCEPT ![r] = new]
                          /\ y.exhausted = x.exhausted /\ y.lost = x.lost
    /\ Exhausts(x, k) => y.resv = [x.resv EXCEPT ![r] = x.resv[r]] /\ TookLost(x, y, new)

\* The labels of the reserved blocks, those of s from depth j + 1 on.
FullLens(new) == [i \in 1..Len(new) |-> BlockSize]
DepthHashes(s, j, new) == [i \in 1..Len(new) |-> BlockHash[s][j + i]]

\* reserve_blocks changes the fields like that.
LEMMA ReserveFields ==
  ASSUME NEW n \in Nat, NEW x \in Manager(n), NEW r, NEW s, NEW start, NEW total,
         NEW j, j = start \div BlockSize, NEW k,
         k = IF total \div BlockSize > j THEN (total \div BlockSize) - j ELSE 0,
         NEW new, new = Popped(x, k), NEW y, y = reserve_blocks(x, r, s, start, total)
  PROVE  ReserveResult(x, y, n, r, k, new, FullLens(new), DepthHashes(s, j, new))
<1> DEFINE ln == FullLens(new)
           hh == DepthHashes(s, j, new)
<1>0. /\ Whole(x) /\ DOMAIN x.ref = Blocks(n) /\ DOMAIN x.status = Blocks(n)
      /\ DOMAIN x.len = Blocks(n) /\ DOMAIN x.hash = Blocks(n) /\ x.exhausted \in BOOLEAN
  BY ManagerFields
<1>1. \A b \in Elems(new) : /\ ln[IndexIn(new, b)] = BlockSize
                            /\ hh[IndexIn(new, b)] = BlockHash[s][j + IndexIn(new, b)]
  <2>1. \A b \in Elems(new) : \E i \in 1..Len(new) : new[i] = b
    BY DEF Elems
  <2>2. \A b \in Elems(new) : IndexIn(new, b) \in 1..Len(new)
    BY <2>1 DEF IndexIn
  <2> QED BY <2>2 DEF FullLens, DepthHashes
<1>2. y = [x EXCEPT
            !.free = SubSeq(x.free, Len(new) + 1, Len(x.free)),
            !.ref = alloc_ref(x, new),
            !.status = alloc_status(x, new),
            !.len = [b \in DOMAIN x.len |->
                        IF b \in Elems(new) THEN BlockSize ELSE x.len[b]],
            !.hash = [b \in DOMAIN x.hash |->
                         IF b \in Elems(new) THEN BlockHash[s][j + IndexIn(new, b)]
                         ELSE x.hash[b]],
            !.resv = [x.resv EXCEPT ![r] = IF Exhausts(x, k) THEN x.resv[r] ELSE new],
            !.exhausted = x.exhausted \/ Exhausts(x, k),
            !.lost = IF Exhausts(x, k) THEN x.lost \union Elems(new) ELSE x.lost]
  BY DEF reserve_blocks
<1> HIDE DEF ln, hh
<1>3. /\ Whole(y) /\ y.total = x.total /\ y.map = x.map /\ y.table = x.table
      /\ y.free = SubSeq(x.free, Len(new) + 1, Len(x.free))
      /\ y.ref = alloc_ref(x, new)
      /\ y.status = alloc_status(x, new)
      /\ y.len = [b \in DOMAIN x.len |->
                        IF b \in Elems(new) THEN BlockSize ELSE x.len[b]]
      /\ y.hash = [b \in DOMAIN x.hash |->
                         IF b \in Elems(new) THEN BlockHash[s][j + IndexIn(new, b)]
                         ELSE x.hash[b]]
      /\ y.resv = [x.resv EXCEPT ![r] = IF Exhausts(x, k) THEN x.resv[r] ELSE new]
      /\ y.exhausted = (x.exhausted \/ Exhausts(x, k))
      /\ y.lost = IF Exhausts(x, k) THEN x.lost \union Elems(new) ELSE x.lost
  BY ONLY <1>0, <1>2 DEF Whole
<1>4. Fresh(x, y, n, new, ln, hh)
  <2>1. y.len = [b \in Blocks(n) |->
                   IF b \in Elems(new) THEN ln[IndexIn(new, b)] ELSE x.len[b]]
    BY <1>0, <1>1, <1>3
  <2>2. y.hash = [b \in Blocks(n) |->
                    IF b \in Elems(new) THEN hh[IndexIn(new, b)] ELSE x.hash[b]]
    BY <1>0, <1>1, <1>3
  <2> QED BY <1>0, <1>3, <2>1, <2>2 DEF Fresh, alloc_ref, alloc_status
<1>5. ~Exhausts(x, k) => /\ y.resv = [x.resv EXCEPT ![r] = new]
                         /\ y.exhausted = x.exhausted /\ y.lost = x.lost
  BY <1>0, <1>3
<1>6. Exhausts(x, k) => y.resv = [x.resv EXCEPT ![r] = x.resv[r]] /\ TookLost(x, y, new)
  BY <1>0, <1>3 DEF TookLost
<1> QED BY <1>3, <1>4, <1>5, <1>6 DEF ReserveResult, ln, hh

\* reserve_blocks: the region gets fresh blocks with different labels, or the
\* call panics and strands the ones it popped.
LEMMA ReserveSound ==
  ASSUME NEW n \in Nat, NEW tl \in [Seqs -> 0..MaxLen], NEW x, Sound(x, n, tl),
         NEW r \in Regions, x.resv[r] = <<>>, NEW s \in Seqs, NEW start \in Nat,
         NEW total \in 0..MaxLen, NEW y, y = reserve_blocks(x, r, s, start, total)
  PROVE  Sound(y, n, tl)
<1> DEFINE j == start \div BlockSize
           q == total \div BlockSize
           k == IF q > j THEN q - j ELSE 0
           new == Popped(x, k)
           ln == FullLens(new)
           hh == DepthHashes(s, j, new)
<1>0. x \in Manager(n) /\ RefExact(x, n) /\ FreeExact(x, n)
  BY DEF Sound
<1>1. BlockSize \in Nat \ {0} /\ MaxLen \in Nat /\ total \in Nat /\ total <= MaxLen
  BY SizeAssumption
<1>2. j \in Nat /\ q \in Nat /\ q <= NumFull /\ NumFull \in Nat
  <2>1. j \in Nat /\ q \in Nat /\ MaxLen \div BlockSize \in Nat
    BY ONLY <1>1, DivBounds, start \in Nat
  <2>2. q <= MaxLen \div BlockSize
    BY ONLY <1>1, DivMono
  <2> QED BY <2>1, <2>2 DEF NumFull
<1>3. ReserveResult(x, y, n, r, k, new, ln, hh)
  <2>1. /\ j = start \div BlockSize
        /\ k = IF total \div BlockSize > j THEN (total \div BlockSize) - j ELSE 0
        /\ new = Popped(x, k)
    OBVIOUS
  <2> HIDE DEF j, k, new
  <2> QED BY <1>0, <2>1, ReserveFields
<1> HIDE DEF j, q
<1>4. k \in Nat /\ (k # 0 => j + k <= NumFull)
  BY ONLY <1>2
<1>5. PopOK(x, n, k, new)
  <2>1. new = Popped(x, k)
    OBVIOUS
  <2> HIDE DEF k, new
  <2> QED BY <1>0, <1>4, <2>1, PopFacts
<1>6. /\ new \in Seq(Blocks(n)) /\ Len(new) \in Nat /\ Len(new) <= k /\ NoDup(new)
      /\ \A b \in Elems(new) : b \in Blocks(n) /\ x.ref[b] = 0
  BY ONLY <1>5 DEF PopOK
<1>7. new = Popped(x, k)
  OBVIOUS
<1>8. \A i \in 1..Len(new) : ln[i] = BlockSize /\ hh[i] = BlockHash[s][j + i]
  BY DEF FullLens, DepthHashes
<1> HIDE DEF k, new, ln, hh
<1>9. \A i \in 1..Len(new) : BlockHash[s][j + i] \in Hashes
  <2>1. \A i \in 1..Len(new) : j + i \in 1..NumFull
    BY ONLY <1>2, <1>4, <1>6
  <2> QED BY ONLY <2>1, HashAssumption, s \in Seqs
<1>10. NewLabels(new, ln, hh)
  BY ONLY <1>1, <1>8, <1>9 DEF NewLabels
<1>11. /\ Whole(y) /\ Fresh(x, y, n, new, ln, hh) /\ y.map = x.map /\ y.table = x.table
  BY <1>3 DEF ReserveResult
<1>12. FreshOK(x, y, n, tl, new, ln, hh)
  BY <1>4, <1>7, <1>10, <1>11, FreshFrame
<1>13. /\ y.table \in [Hashes -> Blocks(n) \union {NoBlock}]
       /\ x.resv \in [Regions -> Seq(Blocks(n))]
       /\ y.map \in [Seqs -> BlockMap(n)]
  BY <1>0, <1>11, ManagerFields
<1>14. CASE Exhausts(x, k)
  <2>1. y.resv = [x.resv EXCEPT ![r] = x.resv[r]] /\ TookLost(x, y, new)
    BY <1>3, <1>14 DEF ReserveResult
  <2>2. y.resv = x.resv
    BY ONLY <1>13, <2>1
  <2> QED BY <1>4, <1>7, <1>10, <1>11, <1>13, <2>1, <2>2, TakeLost
<1>15. CASE ~Exhausts(x, k)
  <2>1. y.resv = [x.resv EXCEPT ![r] = new] /\ y.exhausted = x.exhausted /\ y.lost = x.lost
    BY <1>3, <1>15 DEF ReserveResult
  <2>2. y.resv[r] = new /\ \A p \in Regions : p # r => y.resv[p] = x.resv[p]
    BY ONLY <1>13, <2>1, r \in Regions
  <2>3. y \in Manager(n)
    <3>1. y.resv \in [Regions -> Seq(Blocks(n))]
      BY ONLY <1>6, <1>13, <2>1
    <3>2. y.exhausted \in BOOLEAN /\ y.lost \in SUBSET Blocks(n)
      BY <1>0, <2>1, ManagerFields
    <3>3. /\ y.total = n
          /\ y.free \in Seq(Blocks(n))
          /\ y.ref \in [Blocks(n) -> Int]
          /\ y.status \in [Blocks(n) -> {"Free", "Used"}]
          /\ y.len \in [Blocks(n) -> 0..BlockSize]
          /\ y.hash \in [Blocks(n) -> Hashes \union {NoHash}]
      BY ONLY <1>12 DEF FreshOK
    <3> QED BY ONLY <1>11, <1>13, <3>1, <3>2, <3>3, ManagerOfFields, n \in Nat
  <2>4. RefExact(y, n)
    <3>1. \A b \in Blocks(n) : x.ref[b] \in Nat /\ y.ref[b] = x.ref[b] + Unit(b \in Elems(new))
      BY <1>0, <1>12, Holders DEF FreshOK
    <3>2. Elems(x.resv[r]) = {}
      BY DEF Elems
    <3>3. \A b \in Blocks(n) :
             y.ref[b] = x.ref[b] + Unit(b \in Elems(y.resv[r])) - Unit(b \in Elems(x.resv[r]))
      BY ONLY <2>2, <3>1, <3>2 DEF Unit
    <3>4. RefExact(x, n) /\ y.map = x.map /\ y.lost = x.lost
      BY <1>0, <1>11, <2>1
    <3> QED BY ONLY <2>2, <3>3, <3>4, RefByRegion, n \in Nat, r \in Regions
  <2>5. RegionOK(y, r)
    <3>1. Labelled(y, s, j, new)
      <4>1. \A i \in 1..Len(new) : y.hash[new[i]] = hh[i]
        BY ONLY <1>12 DEF FreshOK
      <4> QED BY ONLY <1>8, <4>1 DEF Labelled
    <3>2. CASE Len(new) = 0
      BY ONLY <2>2, <3>2 DEF RegionOK, NoDup
    <3>3. CASE Len(new) # 0
      <4>1. j + Len(new) <= NumFull
        BY ONLY <1>2, <1>4, <1>6, <3>3
      <4>2. /\ NoDup(new)
            /\ \A i, p \in 1..Len(new) : y.hash[new[i]] = y.hash[new[p]] => i = p
            /\ \A i \in 1..Len(new) : y.hash[new[i]] \in Hashes /\ y.hash[new[i]] # NoHash
        <5>1. AllDistinct(y, new)
          BY ONLY <1>2, <1>6, <2>3, <3>1, <4>1, ByDepth, n \in Nat, s \in Seqs
        <5> QED BY ONLY <5>1 DEF AllDistinct
      <4> QED BY ONLY <2>2, <4>2 DEF RegionOK
    <3> QED BY <3>2, <3>3
  <2>6. /\ \A t \in Seqs : MapOK(y, t, tl[t])
        /\ \A p \in Regions : RegionOK(y, p)
        /\ FreeExact(y, n) /\ LabelsFull(y, n)
    BY ONLY <1>11, <1>12, <2>2, <2>5 DEF FreshOK
  <2> QED BY <2>3, <2>4, <2>6 DEF Sound
<1> QED BY <1>14, <1>15

-----------------------------------------------------------------------------
(* The remaining operations *)

\* A fresh manager: all the blocks are free, and nobody holds any.
LEMMA NewSound ==
  ASSUME NEW n \in Nat, NEW tl \in [Seqs -> 0..MaxLen], NEW x, x = NewManager(n)
  PROVE  Sound(x, n, tl) /\ TableOK(x)
<1>1. /\ x.total = n /\ x.free = [i \in 1..n |-> i - 1]
      /\ x.ref = [b \in Blocks(n) |-> 0] /\ x.status = [b \in Blocks(n) |-> "Free"]
      /\ x.len = [b \in Blocks(n) |-> 0] /\ x.hash = [b \in Blocks(n) |-> NoHash]
      /\ x.table = [h \in Hashes |-> NoBlock] /\ x.map = [s \in Seqs |-> NoMap]
      /\ x.resv = [r \in Regions |-> <<>>] /\ x.exhausted = FALSE /\ x.lost = {}
      /\ Whole(x)
  BY DEF NewManager, Blocks, Whole
<1>2. x.free \in Seq(Blocks(n)) /\ Len(x.free) = n
  <2>1. x.free \in [1..n -> Blocks(n)]
    BY <1>1 DEF Blocks
  <2> QED BY <2>1, FunctionIsSeq
<1>3. x \in Manager(n)
  <2>1. /\ x.ref \in [Blocks(n) -> Int] /\ x.status \in [Blocks(n) -> {"Free", "Used"}]
        /\ x.len \in [Blocks(n) -> 0..BlockSize]
        /\ x.hash \in [Blocks(n) -> Hashes \union {NoHash}]
        /\ x.table \in [Hashes -> Blocks(n) \union {NoBlock}]
        /\ x.resv \in [Regions -> Seq(Blocks(n))]
        /\ x.exhausted \in BOOLEAN /\ x.lost \in SUBSET Blocks(n)
    <3>1. 0 \in 0..BlockSize /\ 0 \in Int
      BY SizeAssumption
    <3>2. <<>> \in Seq(Blocks(n))
      OBVIOUS
    <3> QED BY ONLY <1>1, <3>1, <3>2
  <2>2. x.map \in [Seqs -> BlockMap(n)]
    BY <1>1, NoMapType
  <2> QED BY <1>1, <1>2, <2>1, <2>2, ManagerOfFields
<1>4. \A s \in Seqs : x.map[s] = NoMap
  BY <1>1
<1>5. \A r \in Regions : x.resv[r] = <<>>
  BY <1>1
<1>6. RefExact(x, n)
  <2>1. \A b : HeldBySeqs(x, b) = {} /\ HeldByRegions(x, b) = {} /\ Stranded(x, b) = 0
    BY <1>1, <1>4, <1>5 DEF HeldBySeqs, HeldByRegions, Stranded, Elems, NoMap
  <2>2. Cardinality({}) = 0
    BY FS_EmptySet
  <2>3. \A b \in Blocks(n) : x.ref[b] = 0
    BY <1>1
  <2> QED BY <2>1, <2>2, <2>3 DEF RefExact
<1>7. FreeExact(x, n)
  <2>1. \A b \in Blocks(n) : b + 1 \in 1..n /\ x.free[b + 1] = b
    BY <1>1 DEF Blocks
  <2>2. \A i \in 1..n : x.free[i] \in Blocks(n)
    BY <1>1 DEF Blocks
  <2>3. Elems(x.free) = Blocks(n)
    BY <1>2, <2>1, <2>2 DEF Elems
  <2>4. NoDup(x.free)
    BY <1>1, <1>2 DEF NoDup
  <2> QED BY <1>1, <2>3, <2>4 DEF FreeExact
<1>8. LabelsFull(x, n)
  BY <1>1 DEF LabelsFull
<1>9. \A s \in Seqs : MapOK(x, s, tl[s])
  <2>1. \A s \in Seqs : tl[s] \in Nat
    BY SizeAssumption
  <2> QED BY <1>4, <2>1, NoMapOK
<1>10. \A r \in Regions : RegionOK(x, r)
  BY <1>5 DEF RegionOK, NoDup
<1>11. TableOK(x)
  BY <1>1 DEF TableOK
<1> QED BY <1>3, <1>6, <1>7, <1>8, <1>9, <1>10, <1>11 DEF Sound

\* clear_cache: the table is emptied, which no holder depends on.
LEMMA ClearSound ==
  ASSUME NEW n \in Nat, NEW tl, NEW x, Sound(x, n, tl), NEW y, y = clear_cache(x)
  PROVE  Sound(y, n, tl) /\ TableOK(y)
<1>0. x \in Manager(n) /\ Whole(x)
  BY ManagerFields DEF Sound
<1>1. /\ Whole(y) /\ y.total = x.total /\ y.free = x.free /\ y.ref = x.ref
      /\ y.status = x.status /\ y.len = x.len /\ y.hash = x.hash /\ y.map = x.map
      /\ y.resv = x.resv /\ y.exhausted = x.exhausted /\ y.lost = x.lost
      /\ y.table = [h \in Hashes |-> NoBlock]
  BY <1>0 DEF clear_cache, Whole
<1>2. y \in Manager(n)
  <2>1. y.table \in [Hashes -> Blocks(n) \union {NoBlock}]
    BY <1>1
  <2>2. /\ y.total = n
        /\ y.free \in Seq(Blocks(n))
        /\ y.ref \in [Blocks(n) -> Int]
        /\ y.status \in [Blocks(n) -> {"Free", "Used"}]
        /\ y.len \in [Blocks(n) -> 0..BlockSize]
        /\ y.hash \in [Blocks(n) -> Hashes \union {NoHash}]
        /\ y.map \in [Seqs -> BlockMap(n)]
        /\ y.resv \in [Regions -> Seq(Blocks(n))]
        /\ y.exhausted \in BOOLEAN /\ y.lost \in SUBSET Blocks(n)
    BY <1>0, <1>1, ManagerFields
  <2> QED BY ONLY <1>1, <2>1, <2>2, ManagerOfFields, n \in Nat
<1>3. RefExact(y, n)
  BY <1>1 DEF Sound, RefExact, HeldBySeqs, HeldByRegions, Stranded
<1>4. FreeExact(y, n) /\ LabelsFull(y, n)
  BY <1>1 DEF Sound, FreeExact, LabelsFull
<1>5. ASSUME NEW s \in Seqs PROVE MapOK(y, s, tl[s])
  <2>1. /\ MapOK(x, s, tl[s]) /\ y.map[s] = x.map[s]
        /\ y.len = x.len /\ y.hash = x.hash /\ y.ref = x.ref
    BY <1>1 DEF Sound
  <2> QED BY ONLY <1>0, <2>1, MapFrame, n \in Nat, s \in Seqs
<1>6. \A r \in Regions : RegionOK(y, r)
  BY <1>1 DEF Sound, RegionOK
<1> QED BY <1>1, <1>2, <1>3, <1>4, <1>5, <1>6 DEF Sound, TableOK

\* update_filled_len: the filled length stays within the slots.
LEMMA FilledLenSound ==
  ASSUME NEW n \in Nat, NEW tl, NEW x, Sound(x, n, tl), NEW s \in Seqs,
         NEW f \in Nat, f <= x.map[s].slots, x.map[s].live,
         NEW y, y = update_filled_len(x, s, f)
  PROVE  Sound(y, n, tl) /\ (TableOK(x) => TableOK(y))
<1>0. x \in Manager(n) /\ Whole(x) /\ x.map \in [Seqs -> BlockMap(n)] /\ x.map[s] \in BlockMap(n)
  BY ManagerFields, MapFields DEF Sound
<1>1. y = [x EXCEPT !.map = [x.map EXCEPT ![s] = [x.map[s] EXCEPT !.filled = f]]]
  BY DEF update_filled_len
<1>2. /\ Whole(y) /\ y.total = x.total /\ y.free = x.free /\ y.ref = x.ref
      /\ y.status = x.status /\ y.len = x.len /\ y.hash = x.hash /\ y.table = x.table
      /\ y.resv = x.resv /\ y.exhausted = x.exhausted /\ y.lost = x.lost
      /\ y.map = [x.map EXCEPT ![s] = [x.map[s] EXCEPT !.filled = f]]
  BY ONLY <1>0, <1>1 DEF Whole
<1>3. /\ y.map[s] = [x.map[s] EXCEPT !.filled = f]
      /\ \A t \in Seqs : t # s => y.map[t] = x.map[t]
  BY ONLY <1>0, <1>2, s \in Seqs
<1>4. /\ y.map[s].live = x.map[s].live /\ y.map[s].ids = x.map[s].ids
      /\ y.map[s].slots = x.map[s].slots /\ y.map[s].filled = f
      /\ y.map[s] \in BlockMap(n)
  <2>1. x.map[s].slots \in 0..MaxLen
    BY <1>0, MapFields
  <2>2. f \in 0..MaxLen
    BY <2>1, SizeAssumption
  <2> QED BY ONLY <1>0, <1>3, <2>2 DEF BlockMap
<1>5. y \in Manager(n)
  <2>1. y.map \in [Seqs -> BlockMap(n)]
    BY ONLY <1>0, <1>2, <1>3, <1>4
  <2>2. /\ y.total = n
        /\ y.free \in Seq(Blocks(n))
        /\ y.ref \in [Blocks(n) -> Int]
        /\ y.status \in [Blocks(n) -> {"Free", "Used"}]
        /\ y.len \in [Blocks(n) -> 0..BlockSize]
        /\ y.hash \in [Blocks(n) -> Hashes \union {NoHash}]
        /\ y.table \in [Hashes -> Blocks(n) \union {NoBlock}]
        /\ y.resv \in [Regions -> Seq(Blocks(n))]
        /\ y.exhausted \in BOOLEAN /\ y.lost \in SUBSET Blocks(n)
    BY <1>0, <1>2, ManagerFields
  <2> QED BY ONLY <1>2, <2>1, <2>2, ManagerOfFields, n \in Nat
<1>6. \A t \in Seqs : y.map[t].ids = x.map[t].ids
  BY <1>3, <1>4
<1>7. RefExact(y, n)
  <2>1. \A b \in Blocks(n) : HeldBySeqs(y, b) = HeldBySeqs(x, b)
    BY ONLY <1>6 DEF HeldBySeqs
  <2>2. \A b \in Blocks(n) : /\ HeldByRegions(y, b) = HeldByRegions(x, b)
                             /\ Stranded(y, b) = Stranded(x, b)
    BY ONLY <1>2 DEF HeldByRegions, Stranded
  <2>3. RefExact(x, n) /\ y.ref = x.ref
    BY <1>2 DEF Sound
  <2> QED BY ONLY <2>1, <2>2, <2>3 DEF RefExact
<1>8. FreeExact(y, n) /\ LabelsFull(y, n)
  BY <1>2 DEF Sound, FreeExact, LabelsFull
<1>9. \A t \in Seqs : t # s => MapOK(y, t, tl[t])
  <2>1. \A t \in Seqs : MapOK(x, t, tl[t])
    BY DEF Sound
  <2>2. y.len = x.len /\ y.hash = x.hash /\ y.ref = x.ref
    BY <1>2
  <2>3. ASSUME NEW t \in Seqs, t # s PROVE MapOK(y, t, tl[t])
    <3>1. MapOK(x, t, tl[t]) /\ y.map[t] = x.map[t]
      BY <1>3, <2>1, <2>3
    <3> QED BY ONLY <1>0, <2>2, <3>1, MapFrame, n \in Nat, t \in Seqs
  <2> QED BY <2>3
<1>10. MapOK(y, s, tl[s])
  <2>1. MapOK(x, s, tl[s])
    BY DEF Sound
  <2>2. /\ x.map[s].slots <= tl[s] /\ Len(x.map[s].ids) = CeilDiv(x.map[s].slots, BlockSize)
        /\ NoDup(x.map[s].ids) /\ \A i \in 1..Len(x.map[s].ids) : BlockOK(x, s, i)
    BY ONLY <2>1 DEF MapOK
  <2>3. y.len = x.len /\ y.hash = x.hash /\ y.ref = x.ref
    BY <1>2
  <2>4. \A i \in 1..Len(y.map[s].ids) : BlockOK(y, s, i)
    BY ONLY <1>4, <2>2, <2>3 DEF BlockOK
  <2> QED BY ONLY <1>4, <2>2, <2>4, f <= x.map[s].slots, x.map[s].live DEF MapOK
<1>11. \A r \in Regions : RegionOK(y, r)
  BY <1>2 DEF Sound, RegionOK
<1> QED BY <1>2, <1>5, <1>7, <1>8, <1>9, <1>10, <1>11 DEF Sound, TableOK

\* append_output_id: a longer sequence has the same blocks.
LEMMA GrowSound ==
  ASSUME NEW n \in Nat, NEW tl \in [Seqs -> 0..MaxLen], NEW x, Sound(x, n, tl),
         NEW ul \in [Seqs -> 0..MaxLen], \A s \in Seqs : tl[s] <= ul[s]
  PROVE  Sound(x, n, ul)
<1>1. ASSUME NEW s \in Seqs PROVE MapOK(x, s, ul[s])
  <2>1. MapOK(x, s, tl[s])
    BY DEF Sound
  <2>2. x.map[s].slots \in 0..MaxLen
    BY MapFields DEF Sound
  <2>3. x.map[s].slots <= tl[s]
    BY ONLY <2>1 DEF MapOK
  <2>4. x.map[s].slots <= ul[s]
    <3>1. tl[s] <= ul[s] /\ tl[s] \in 0..MaxLen /\ ul[s] \in 0..MaxLen
      OBVIOUS
    <3> QED BY ONLY <2>2, <2>3, <3>1, SizeAssumption
  <2> QED BY ONLY <2>1, <2>4 DEF MapOK
<1> QED BY <1>1 DEF Sound

\* free forgets no completely filled block of s: the labels of the blocks it
\* drops are those of other depths.
LEMMA FreeKeeps ==
  ASSUME NEW n \in Nat, NEW tl \in [Seqs -> 0..MaxLen], NEW x, Sound(x, n, tl),
         NEW s \in Seqs, NEW y, y = free(x, s),
         NEW i \in 1..(x.map[s].filled \div BlockSize),
         lookup_block_id(x, BlockHash[s][i]) # NoBlock
  PROVE  lookup_block_id(y, BlockHash[s][i]) # NoBlock
<1> DEFINE ids == x.map[s].ids
           filled == x.map[s].filled
           slots == x.map[s].slots
           drop == DropSet(x, s, filled)
           h == BlockHash[s][i]
           b == x.table[h]
<1>0. x \in Manager(n) /\ MapOK(x, s, tl[s]) /\ BlockSize \in Nat \ {0} /\ MaxLen \in Nat
  BY SizeAssumption DEF Sound
<1>1. /\ ids \in Seq(Blocks(n)) /\ filled \in Nat /\ slots \in Nat /\ slots <= MaxLen
      /\ filled <= slots /\ Len(ids) \in Nat
  <2>1. ids \in Seq(Blocks(n)) /\ filled \in 0..MaxLen /\ slots \in 0..MaxLen /\ Len(ids) \in Nat
    BY <1>0, MapFields
  <2>2. filled <= slots
    BY <1>0 DEF MapOK
  <2> QED BY <1>0, <2>1, <2>2
<1> HIDE DEF ids, filled, slots
<1>2. i \in Nat /\ i >= 1 /\ i * BlockSize <= filled /\ i \in 1..NumFull
  <2>1. i \in 1..(filled \div BlockSize)
    BY DEF filled
  <2>2. filled \div BlockSize \in Nat /\ NumFull \in Nat
    BY ONLY <1>0, <1>1, DivBounds DEF NumFull
  <2>3. i \in Nat /\ i >= 1 /\ i <= filled \div BlockSize
    BY ONLY <2>1, <2>2
  <2>4. filled <= MaxLen
    BY ONLY <1>0, <1>1
  <2>5. filled \div BlockSize <= NumFull
    BY ONLY <1>0, <1>1, <2>4, DivMono DEF NumFull
  <2>6. i * BlockSize <= filled
    BY ONLY <1>1, <2>3, FullBlocks
  <2> QED BY ONLY <2>2, <2>3, <2>5, <2>6
<1>3. h \in Hashes /\ h # NoHash
  BY <1>2, HashAssumption DEF NoHash
<1>4. b # NoBlock /\ x.hash[b] = h /\ b \in Blocks(n)
  BY <1>0, <1>3, ManagerFields DEF lookup_block_id
<1>5. ASSUME NEW c \in drop PROVE x.hash[c] # h
  <2>1. PICK j \in 1..Len(ids) : c = ids[j] /\ j * BlockSize > filled
    BY DEF DropSet, ids
  <2>2. BlockOK(x, s, j)
    BY <1>0 DEF MapOK, ids
  <2>3. CASE j * BlockSize <= slots
    <3>1. x.hash[c] = BlockHash[s][j]
      BY <2>1, <2>2, <2>3 DEF BlockOK, ids, slots
    <3>2. j \in Nat /\ j >= 1 /\ j * BlockSize \in Nat
      BY ONLY <1>0, <1>1, j \in 1..Len(ids)
    <3>3. j * BlockSize <= MaxLen
      BY ONLY <1>0, <1>1, <2>3, <3>2
    <3>4. j <= NumFull /\ NumFull \in Nat
      BY ONLY <1>0, <3>2, <3>3, FullBlocks, DivBounds DEF NumFull
    <3>5. j \in 1..NumFull
      BY ONLY <3>2, <3>4
    <3>6. BlockHash[s][j] = BlockHash[s][i] => j = i
      BY ONLY <1>2, <3>5, ChainAssumption, s \in Seqs
    <3>7. j # i
      <4>1. CASE j = i
        BY ONLY <1>1, <1>2, <2>1, <3>2, <4>1
      <4> QED BY <4>1
    <3> QED BY <3>1, <3>6, <3>7
  <2>4. CASE ~(j * BlockSize <= slots)
    <3>1. x.hash[c] = NoHash
      BY <2>1, <2>2, <2>4 DEF BlockOK, ids, slots
    <3> QED BY <1>3, <3>1
  <2> QED BY <2>3, <2>4
<1>6. FreedFor(x, y, n, s, drop)
  BY <1>0, FreedFields DEF free, filled
<1> HIDE DEF drop, h, b
<1>7. y.table[h] = b
  <2>1. y.table = [g \in Hashes |-> IF \E c \in drop : x.hash[c] = g THEN NoBlock ELSE x.table[g]]
    BY <1>6 DEF FreedFor
  <2> QED BY ONLY <1>3, <1>5, <2>1 DEF b
<1>8. y.hash[b] = h
  <2>1. y.hash = [c \in Blocks(n) |-> IF c \in drop THEN NoHash ELSE x.hash[c]]
    BY <1>6 DEF FreedFor
  <2>2. b \notin drop
    BY <1>4, <1>5
  <2> QED BY ONLY <1>4, <2>1, <2>2
<1>9. lookup_block_id(y, h) # NoBlock
  BY ONLY <1>4, <1>7, <1>8 DEF lookup_block_id
<1> QED BY <1>9 DEF h

\* The admission check of a sequence that is allocated: the blocks it needs
\* are there, whichever of the two watermarks is used.
LEMMA Admitted ==
  ASSUME NEW n \in Nat, NEW x \in Manager(n), NEW s \in Seqs, x.map[s].live,
         NEW t \in Nat, NEW wm \in {97, 100}, can_alloc_seq(x, s, t, wm)
  PROVE  CeilDiv(t, BlockSize) - Len(x.map[s].ids) <= Len(x.free)
<1> DEFINE need == CeilDiv(t, BlockSize) - Len(x.map[s].ids)
<1>1. x.total = n /\ Len(x.free) \in Nat /\ Len(x.map[s].ids) \in Nat
  BY ManagerFields, MapFields
<1>2. CeilDiv(t, BlockSize) \in Nat
  BY CeilBounds
<1>3. need \in Int
  <2> DEFINE c == CeilDiv(t, BlockSize)
             l == Len(x.map[s].ids)
  <2>1. c \in Nat /\ l \in Nat
    BY <1>1, <1>2
  <2> HIDE DEF c, l
  <2>2. c - l \in Int
    BY ONLY <2>1
  <2> QED BY ONLY <2>2 DEF c, l
<1>4. (n - Len(x.free)) + need <= (wm * n) \div 100
  BY <1>1 DEF can_alloc_seq, can_alloc_blocks, get_num_required_blocks
<1> HIDE DEF need
<1>5. (wm * n) \div 100 <= n /\ (wm * n) \div 100 \in Int
  BY ONLY n \in Nat, wm \in {97, 100}
<1>6. need <= Len(x.free)
  <2> DEFINE f == Len(x.free)
             u == (wm * n) \div 100
  <2>1. (n - f) + need <= u /\ u <= n /\ u \in Int /\ f \in Nat
    BY <1>1, <1>4, <1>5
  <2> HIDE DEF f, u
  <2>2. need <= f
    BY ONLY <1>3, <2>1, n \in Nat
  <2> QED BY <2>2 DEF f
<1> QED BY <1>6 DEF need

\* alloc_blocks after the admission check, for a sequence whose blocks are
\* full or that is allocated.
LEMMA AllocCall ==
  ASSUME NEW n \in Nat, NEW tl \in [Seqs -> 0..MaxLen], NEW x, Sound(x, n, tl),
         NEW s \in Seqs, NEW wm \in {97, 100},
         \/ x.map[s].live /\ can_alloc_seq(x, s, tl[s], wm)
         \/ x.map[s].slots = Len(x.map[s].ids) * BlockSize,
         NEW y, y = alloc_blocks(x, s, tl[s])
  PROVE  Sound(y, n, tl) /\ (TableOK(x) => TableOK(y))
<1> DEFINE a == AppendSlots(x, s, tl[s])
           L == Len(x.map[s].ids)
<1>0. x \in Manager(n) /\ MapOK(x, s, tl[s]) /\ tl[s] \in 0..MaxLen /\ tl[s] \in Nat
  BY SizeAssumption DEF Sound
<1>1. ASSUME a # 0 PROVE CeilDiv(tl[s], BlockSize) - L <= Len(x.free)
  <2>1. CASE x.map[s].live /\ can_alloc_seq(x, s, tl[s], wm)
    BY <1>0, <2>1, Admitted
  <2>2. CASE x.map[s].slots = L * BlockSize
    <3>1. Appends(x, s, tl[s], L, a)
      BY <1>0, AppendFacts
    <3> HIDE DEF L, a
    <3>2. x.map[s].slots < L * BlockSize
      BY ONLY <1>1, <3>1 DEF Appends
    <3>3. x.map[s].slots \in 0..MaxLen
      BY <1>0, MapFields
    <3>4. FALSE
      BY ONLY <2>2, <3>2, <3>3, SizeAssumption
    <3> QED BY <3>4
  <2> QED BY <2>1, <2>2
<1> QED BY <1>1, AllocSound

\* A sequence with no map has no slots.
LEMMA NoMapEmpty ==
  ASSUME NEW x, NEW s, NEW t, MapOK(x, s, t), ~x.map[s].live
  PROVE  x.map[s].slots = Len(x.map[s].ids) * BlockSize
<1>1. x.map[s].slots = 0 /\ x.map[s].ids = <<>>
  BY DEF MapOK, NoMap
<1>2. Len(<<>>) * BlockSize = 0
  BY SizeAssumption
<1> QED BY <1>1, <1>2

-----------------------------------------------------------------------------
(* What the operations leave alone *)

\* s has given up its blocks: labels go only with blocks nobody else holds.
OnlyFreed(x, y, n, s) ==
    /\ y.map[s] = NoMap /\ \A t \in Seqs : t # s => y.map[t] = x.map[t]
    /\ y.resv = x.resv
    /\ y.exhausted = x.exhausted /\ y.lost = x.lost
    /\ \A b \in Blocks(n) : y.hash[b] = x.hash[b] \/ y.hash[b] = NoHash
    /\ \A r \in Regions : \A b \in Elems(x.resv[r]) : y.hash[b] = x.hash[b]

\* free and free_and_drop_cache.
LEMMA FreeEffect ==
  ASSUME NEW n \in Nat, NEW tl, NEW x, Sound(x, n, tl),
         NEW s \in Seqs, NEW f \in Nat, NEW y, y = free_dropping(x, s, f)
  PROVE  OnlyFreed(x, y, n, s)
<1> DEFINE drop == DropSet(x, s, f)
<1>0. x \in Manager(n) /\ RefExact(x, n)
  BY DEF Sound
<1>1. FreedFor(x, y, n, s, drop)
  BY <1>0, FreedFields
<1>2. \A b \in drop : \A r \in Regions : b \notin Elems(x.resv[r])
  BY <1>0, Dropped
<1> HIDE DEF drop
<1>3. y.map[s] = NoMap /\ \A t \in Seqs : t # s => y.map[t] = x.map[t]
  <2>1. x.map \in [Seqs -> BlockMap(n)] /\ y.map = [x.map EXCEPT ![s] = NoMap]
    BY <1>0, <1>1, ManagerFields DEF FreedFor
  <2> QED BY ONLY <2>1, s \in Seqs
<1>4. \A b \in Blocks(n) : y.hash[b] = IF b \in drop THEN NoHash ELSE x.hash[b]
  BY <1>1 DEF FreedFor
<1>5. \A r \in Regions : \A b \in Elems(x.resv[r]) : b \in Blocks(n)
  BY <1>0, ManagerFields DEF Elems
<1>6. y.resv = x.resv /\ y.exhausted = x.exhausted /\ y.lost = x.lost
  BY <1>1 DEF FreedFor, Released
<1> QED BY <1>2, <1>3, <1>4, <1>5, <1>6 DEF OnlyFreed

\* Only the filled length of s changes.
OnlyFilled(x, y, s, f) ==
    /\ \A t \in Seqs : t # s => y.map[t] = x.map[t]
    /\ y.map[s].live = x.map[s].live /\ y.map[s].ids = x.map[s].ids
    /\ y.map[s].slots = x.map[s].slots /\ y.map[s].filled = f
    /\ y.hash = x.hash /\ y.resv = x.resv
    /\ y.exhausted = x.exhausted /\ y.lost = x.lost

\* update_filled_len.
LEMMA FilledLenEffect ==
  ASSUME NEW n \in Nat, NEW x \in Manager(n), NEW s \in Seqs, NEW f, x.map[s].live,
         NEW y, y = update_filled_len(x, s, f)
  PROVE  OnlyFilled(x, y, s, f)
<1>0. Whole(x) /\ x.map \in [Seqs -> BlockMap(n)] /\ x.map[s] \in BlockMap(n)
  BY ManagerFields, MapFields
<1>1. y = [x EXCEPT !.map = [x.map EXCEPT ![s] = [x.map[s] EXCEPT !.filled = f]]]
  BY DEF update_filled_len
<1>2. /\ y.hash = x.hash /\ y.resv = x.resv /\ y.exhausted = x.exhausted /\ y.lost = x.lost
      /\ y.map = [x.map EXCEPT ![s] = [x.map[s] EXCEPT !.filled = f]]
  BY ONLY <1>0, <1>1 DEF Whole
<1>3. /\ y.map[s] = [x.map[s] EXCEPT !.filled = f]
      /\ \A t \in Seqs : t # s => y.map[t] = x.map[t]
  BY ONLY <1>0, <1>2, s \in Seqs
<1>4. /\ y.map[s].live = x.map[s].live /\ y.map[s].ids = x.map[s].ids
      /\ y.map[s].slots = x.map[s].slots /\ y.map[s].filled = f
  BY ONLY <1>0, <1>3 DEF BlockMap
<1> QED BY ONLY <1>2, <1>3, <1>4 DEF OnlyFilled

\* The blocks of new were held by nobody, and they alone have new labels.
Relabelled(x, y, n, new) ==
    /\ new \in Seq(Blocks(n)) /\ NoDup(new)
    /\ \A b \in Elems(new) : /\ \A t \in Seqs : b \notin Elems(x.map[t].ids)
                             /\ \A r \in Regions : b \notin Elems(x.resv[r])
    /\ \A b \in Blocks(n) : b \notin Elems(new) => y.hash[b] = x.hash[b]

\* The blocks of k calls of alloc_block.
LEMMA FreshRelabels ==
  ASSUME NEW n \in Nat, NEW x \in Manager(n), RefExact(x, n), FreeExact(x, n),
         NEW k \in Nat, NEW new, new = Popped(x, k),
         NEW y, NEW ln, NEW hh, Fresh(x, y, n, new, ln, hh)
  PROVE  Relabelled(x, y, n, new) /\ Len(new) <= k /\ (~Exhausts(x, k) => Len(new) = k)
<1>1. PopOK(x, n, k, new)
  BY PopFacts
<1>2. /\ new \in Seq(Blocks(n)) /\ NoDup(new) /\ Len(new) <= k
      /\ ~Exhausts(x, k) => Len(new) = k
      /\ \A b \in Elems(new) : b \in Blocks(n) /\ x.ref[b] = 0
  BY <1>1 DEF PopOK
<1>3. ASSUME NEW b \in Elems(new)
      PROVE  /\ \A t \in Seqs : b \notin Elems(x.map[t].ids)
             /\ \A r \in Regions : b \notin Elems(x.resv[r])
  BY <1>2, Holders
<1>4. \A b \in Blocks(n) : b \notin Elems(new) => y.hash[b] = x.hash[b]
  BY DEF Fresh
<1> QED BY <1>2, <1>3, <1>4 DEF Relabelled

\* The blocks a region gets: those of new, with the labels of s after the
\* first j, or none if alloc_block panics.
ReservedFor(x, y, n, r, s, j, k, new) ==
    /\ Relabelled(x, y, n, new) /\ Len(new) <= k /\ (~Exhausts(x, k) => Len(new) = k)
    /\ y.map = x.map /\ Labelled(y, s, j, new)
    /\ y.resv = [x.resv EXCEPT ![r] = IF Exhausts(x, k) THEN x.resv[r] ELSE new]
    /\ ~Exhausts(x, k) => y.exhausted = x.exhausted /\ y.lost = x.lost

\* reserve_blocks.
LEMMA ReserveEffect ==
  ASSUME NEW n \in Nat, NEW tl, NEW x, Sound(x, n, tl), NEW r, NEW s, NEW start, NEW total,
         NEW j, j = start \div BlockSize, NEW k \in Nat,
         k = IF total \div BlockSize > j THEN (total \div BlockSize) - j ELSE 0,
         NEW new, new = Popped(x, k), NEW y, y = reserve_blocks(x, r, s, start, total)
  PROVE  ReservedFor(x, y, n, r, s, j, k, new)
<1>0. x \in Manager(n) /\ RefExact(x, n) /\ FreeExact(x, n)
  BY DEF Sound
<1> DEFINE hh == DepthHashes(s, j, new)
           ln == FullLens(new)
<1>1. ReserveResult(x, y, n, r, k, new, ln, hh)
  BY <1>0, ReserveFields
<1>2. \A i \in 1..Len(new) : hh[i] = BlockHash[s][j + i]
  BY DEF DepthHashes
<1> HIDE DEF hh, ln
<1>3. /\ Fresh(x, y, n, new, ln, hh) /\ y.map = x.map
      /\ ~Exhausts(x, k) => /\ y.resv = [x.resv EXCEPT ![r] = new]
                            /\ y.exhausted = x.exhausted /\ y.lost = x.lost
      /\ Exhausts(x, k) => y.resv = [x.resv EXCEPT ![r] = x.resv[r]]
  BY <1>1 DEF ReserveResult
<1>4. Relabelled(x, y, n, new) /\ Len(new) <= k /\ (~Exhausts(x, k) => Len(new) = k)
  BY ONLY <1>0, <1>3, FreshRelabels, n \in Nat, k \in Nat, new = Popped(x, k)
<1>5. Labelled(y, s, j, new)
  <2> SUFFICES ASSUME NEW i \in 1..Len(new) PROVE y.hash[new[i]] = BlockHash[s][j + i]
    BY DEF Labelled
  <2>1. new \in Seq(Blocks(n)) /\ NoDup(new)
    BY <1>4 DEF Relabelled
  <2>2. new[i] \in Blocks(n) /\ new[i] \in Elems(new)
    BY <2>1 DEF Elems
  <2>3. y.hash[new[i]] = hh[IndexIn(new, new[i])]
    BY <1>3, <2>2 DEF Fresh
  <2>4. IndexIn(new, new[i]) = i
    BY <2>1 DEF IndexIn, NoDup
  <2> QED BY <1>2, <2>3, <2>4
<1>6. y.resv = [x.resv EXCEPT ![r] = IF Exhausts(x, k) THEN x.resv[r] ELSE new]
  BY <1>3
<1> QED BY <1>3, <1>4, <1>5, <1>6 DEF ReservedFor

\* The blocks s gets: those of new after the ones it has, unless alloc_block
\* panics.
AllocatedFor(x, y, n, s, total, k, new) ==
    /\ Relabelled(x, y, n, new) /\ (~Exhausts(x, k) => Len(new) = k)
    /\ y.resv = x.resv /\ \A t \in Seqs : t # s => y.map[t] = x.map[t]
    /\ ~Exhausts(x, k) =>
          /\ y.map[s] = [live |-> TRUE, ids |-> x.map[s].ids \o new, slots |-> total,
                         filled |-> x.map[s].filled]
          /\ y.exhausted = x.exhausted /\ y.lost = x.lost
    /\ Exhausts(x, k) => y.map[s] = x.map[s]

\* alloc_blocks of a sequence that holds full blocks only.
LEMMA AllocEffect ==
  ASSUME NEW n \in Nat, NEW tl \in [Seqs -> 0..MaxLen], NEW x, Sound(x, n, tl), NEW s \in Seqs,
         AllCached(x, s), NEW k, k = CeilDiv(tl[s] - x.map[s].slots, BlockSize),
         NEW new, new = Popped(x, k), NEW y, y = alloc_blocks(x, s, tl[s])
  PROVE  AllocatedFor(x, y, n, s, tl[s], k, new)
<1> DEFINE slots == x.map[s].slots
           total == tl[s]
           L == Len(x.map[s].ids)
           a == AppendSlots(x, s, total)
<1>0. /\ x \in Manager(n) /\ RefExact(x, n) /\ FreeExact(x, n)
      /\ MapOK(x, s, total) /\ total \in 0..MaxLen
  BY DEF Sound
<1>1. slots \in Nat /\ L \in Nat /\ slots = BlockSize * L /\ slots <= total
  <2>1. slots \in 0..MaxLen /\ L \in Nat
    BY <1>0, MapFields
  <2> QED BY <1>0, <2>1, SizeAssumption DEF AllCached, MapOK
<1>2. a = 0
  <2>1. Appends(x, s, total, L, a)
    BY <1>0, AppendFacts
  <2> HIDE DEF a, L
  <2>2. a # 0 => slots < L * BlockSize
    BY <2>1 DEF Appends
  <2> HIDE DEF slots
  <2> QED BY ONLY <1>1, <2>2, SizeAssumption
<1>3. fill_last_block(x, s, total) = x
  BY <1>2 DEF fill_last_block
<1>4. y = take_blocks(x, s, slots, total)
  <2>1. y = take_blocks(x, s, slots + a, total)
    BY <1>3 DEF alloc_blocks
  <2> HIDE DEF a, slots
  <2>2. slots + a = slots
    BY ONLY <1>1, <1>2
  <2> QED BY ONLY <2>1, <2>2
<1>5. k \in Nat
  <2>1. k = CeilDiv(total - slots, BlockSize)
    OBVIOUS
  <2> HIDE DEF total, slots
  <2>2. total \in Nat
    BY ONLY <1>0, SizeAssumption
  <2>3. total - slots \in Nat
    BY ONLY <1>1, <2>2
  <2> QED BY <2>1, <2>3, CeilBounds
<1>6. /\ Whole(x) /\ DOMAIN x.ref = Blocks(n) /\ DOMAIN x.status = Blocks(n)
      /\ DOMAIN x.len = Blocks(n) /\ DOMAIN x.hash = Blocks(n)
      /\ x.exhausted \in BOOLEAN /\ x.map \in [Seqs -> BlockMap(n)]
  BY <1>0, ManagerFields
<1>7. TakeResult(x, y, n, s, slots, total, k, new)
  <2>1. k = CeilDiv(total - slots, BlockSize) /\ new = Popped(x, k)
    OBVIOUS
  <2> HIDE DEF slots, total
  <2> QED BY ONLY <1>4, <1>6, <2>1, TakeFields, n \in Nat
<1> HIDE DEF slots, total, a
<1> DEFINE ln == NewLens(slots, total, new)
           hh == NewHashes(s, slots, total, new)
<1>8. /\ Took(x, y, n, new, ln, hh)
      /\ ~Exhausts(x, k) => TookFor(x, y, s, total, new)
      /\ Exhausts(x, k) => y.map = [x.map EXCEPT ![s] = x.map[s]]
  BY ONLY <1>7 DEF TakeResult
<1> HIDE DEF ln, hh
<1>9. Fresh(x, y, n, new, ln, hh) /\ y.resv = x.resv
  BY ONLY <1>8 DEF Took
<1>10. Relabelled(x, y, n, new) /\ (~Exhausts(x, k) => Len(new) = k)
  BY ONLY <1>0, <1>5, <1>9, FreshRelabels, n \in Nat, new = Popped(x, k)
<1>11. CASE ~Exhausts(x, k)
  <2> DEFINE bm == [live |-> TRUE, ids |-> x.map[s].ids \o new, slots |-> total,
                    filled |-> x.map[s].filled]
  <2>1. y.map = [x.map EXCEPT ![s] = bm] /\ y.exhausted = x.exhausted /\ y.lost = x.lost
    BY ONLY <1>8, <1>11 DEF TookFor
  <2>2. y.map[s] = bm /\ \A t \in Seqs : t # s => y.map[t] = x.map[t]
    <3> HIDE DEF bm
    <3> QED BY ONLY <1>6, <2>1, s \in Seqs
  <2> QED BY ONLY <1>9, <1>10, <1>11, <2>1, <2>2 DEF AllocatedFor, total
<1>12. CASE Exhausts(x, k)
  <2>1. y.map[s] = x.map[s] /\ \A t \in Seqs : t # s => y.map[t] = x.map[t]
    BY ONLY <1>6, <1>8, <1>12, s \in Seqs
  <2> QED BY ONLY <1>9, <1>10, <1>12, <2>1 DEF AllocatedFor
<1> QED BY <1>11, <1>12

\* s has room for total tokens, and nothing more of it is filled.
Extends(x, y, s, total) ==
    /\ y.map[s].live /\ y.map[s].slots = total /\ y.map[s].filled = x.map[s].filled
    /\ y.exhausted = x.exhausted /\ y.lost = x.lost

\* alloc_blocks of any sequence: it gets its slots unless alloc_block panics.
LEMMA AllocExtends ==
  ASSUME NEW n \in Nat, NEW tl \in [Seqs -> 0..MaxLen], NEW x, Sound(x, n, tl), NEW s \in Seqs,
         NEW y, y = alloc_blocks(x, s, tl[s])
  PROVE  /\ y.resv = x.resv /\ \A t \in Seqs : t # s => y.map[t] = x.map[t]
         /\ ~y.exhausted => Extends(x, y, s, tl[s])
         /\ CeilDiv(tl[s], BlockSize) - Len(x.map[s].ids) <= Len(x.free)
               => Extends(x, y, s, tl[s])
<1> DEFINE slots == x.map[s].slots
           total == tl[s]
           L == Len(x.map[s].ids)
           a == AppendSlots(x, s, total)
           z == fill_last_block(x, s, total)
           at == slots + a
           k == CeilDiv(total - at, BlockSize)
           new == Popped(z, k)
<1>0. /\ x \in Manager(n) /\ MapOK(x, s, total) /\ total \in 0..MaxLen
      /\ slots \in Nat /\ L \in Nat /\ x.map \in [Seqs -> BlockMap(n)]
      /\ Len(x.free) \in Nat
  <2>1. x \in Manager(n) /\ MapOK(x, s, total) /\ total \in 0..MaxLen
    BY DEF Sound
  <2>2. slots \in 0..MaxLen /\ L \in Nat /\ x.map \in [Seqs -> BlockMap(n)] /\ Len(x.free) \in Nat
    BY <2>1, MapFields, ManagerFields
  <2> QED BY <2>1, <2>2, SizeAssumption
<1>1. Appends(x, s, total, L, a)
  BY <1>0, AppendFacts
<1>2. a \in Nat /\ at \in Nat
  BY <1>0, <1>1 DEF Appends
<1>3. NewSpan(at, total, L, k)
  <2> HIDE DEF a, k, slots, L, total
  <2>1. /\ slots + a <= total /\ L = CeilDiv(slots + a, BlockSize)
        /\ slots + a = total \/ slots + a = L * BlockSize
    BY ONLY <1>1 DEF Appends, slots
  <2> QED BY ONLY <1>0, <1>2, <2>1 DEF NewSpan, k
<1>4. y = take_blocks(z, s, at, total)
  BY DEF alloc_blocks
<1>5. a = 0 => z = x
  BY DEF fill_last_block
<1>6. a # 0 => /\ FilledLast(x, z, a, LastBlock(x, s), BlockHash[s][(slots + a) \div BlockSize])
              /\ z.map = x.map
  BY <1>0, FillFields
<1> HIDE DEF z, a, slots, at
<1>7. /\ Whole(z) /\ DOMAIN z.ref = Blocks(n) /\ DOMAIN z.status = Blocks(n)
      /\ DOMAIN z.len = Blocks(n) /\ DOMAIN z.hash = Blocks(n)
      /\ z.exhausted \in BOOLEAN /\ z.map = x.map /\ z.free = x.free
      /\ z.resv = x.resv /\ z.exhausted = x.exhausted /\ z.lost = x.lost
  <2>1. /\ Whole(x) /\ DOMAIN x.ref = Blocks(n) /\ DOMAIN x.status = Blocks(n)
        /\ DOMAIN x.len = Blocks(n) /\ DOMAIN x.hash = Blocks(n) /\ x.exhausted \in BOOLEAN
    BY <1>0, ManagerFields
  <2>2. CASE a = 0
    BY <1>5, <2>1, <2>2
  <2>3. CASE a # 0
    BY ONLY <1>6, <2>1, <2>3 DEF FilledLast
  <2> QED BY <2>2, <2>3
<1>8. /\ y.resv = x.resv
      /\ ~Exhausts(z, k) => TookFor(z, y, s, total, new)
      /\ Exhausts(z, k) => /\ y.exhausted = TRUE
                           /\ y.map = [z.map EXCEPT ![s] = z.map[s]]
  <2>1. k = CeilDiv(total - at, BlockSize) /\ new = Popped(z, k)
    OBVIOUS
  <2> HIDE DEF k, new, total
  <2>2. TakeResult(z, y, n, s, at, total, k, new)
    BY ONLY <1>4, <1>7, <2>1, TakeFields, n \in Nat
  <2> QED BY ONLY <1>7, <2>2 DEF TakeResult, Took
<1>9. CeilDiv(total, BlockSize) - L <= Len(x.free) => ~Exhausts(z, k)
  <2>1. k \in Nat /\ L + k = CeilDiv(total, BlockSize)
    <3> HIDE DEF k
    <3>1. PICK q : q = <<>>
      OBVIOUS
    <3>2. Len(q) \in Nat /\ Len(q) <= k
      BY <1>3, <3>1, CeilBounds DEF NewSpan
    <3> HIDE DEF total, L
    <3> QED BY ONLY <1>3, <3>2, NewSpanLabels, s \in Seqs
  <2> DEFINE c == CeilDiv(total, BlockSize)
             f == Len(x.free)
  <2>2. f \in Nat /\ L \in Nat /\ L + k = c
    BY <1>0, <2>1
  <2> HIDE DEF k, c, f, L
  <2>3. c - L <= f => k <= f
    BY ONLY <2>1, <2>2
  <2>4. k <= f => ~Exhausts(z, k)
    BY ONLY <1>7, <2>1, <2>2 DEF Exhausts, f
  <2> QED BY <2>3, <2>4 DEF c, f
<1> HIDE DEF k, new, L, total
<1>10. CASE ~Exhausts(z, k)
  <2> DEFINE bm == [live |-> TRUE, ids |-> x.map[s].ids \o new, slots |-> total,
                    filled |-> x.map[s].filled]
  <2>1. y.map = [x.map EXCEPT ![s] = bm] /\ y.exhausted = x.exhausted /\ y.lost = x.lost
    BY ONLY <1>7, <1>8, <1>10 DEF TookFor
  <2>2. bm.live /\ bm.slots = total /\ bm.filled = x.map[s].filled
    OBVIOUS
  <2> HIDE DEF bm
  <2>3. y.map[s] = bm /\ \A t \in Seqs : t # s => y.map[t] = x.map[t]
    BY ONLY <1>0, <2>1, s \in Seqs
  <2>4. Extends(x, y, s, total)
    BY ONLY <2>1, <2>2, <2>3 DEF Extends
  <2> QED BY ONLY <1>8, <2>3, <2>4 DEF total
<1>11. CASE Exhausts(z, k)
  <2>1. \A t \in Seqs : t # s => y.map[t] = x.map[t]
    BY ONLY <1>0, <1>7, <1>8, <1>11, s \in Seqs
  <2>2. ~(CeilDiv(tl[s], BlockSize) - Len(x.map[s].ids) <= Len(x.free))
    BY ONLY <1>9, <1>11 DEF total, L
  <2> QED BY ONLY <1>8, <1>11, <2>1, <2>2
<1> QED BY ONLY <1>10, <1>11

-----------------------------------------------------------------------------
(* The blocks of a range of tokens *)

FullIdsOf(g, x, s, start, end) == g = get_block_ids_range(x, s, start, end, FALSE)
IdsOf(g, x, s, start, end) == g = get_block_ids_range(x, s, start, end, TRUE)

\* The blocks for tokens start to end, when they are filled and only full
\* blocks are asked for.
LEMMA FullRange ==
  ASSUME NEW n \in Nat, NEW tl, NEW x, Sound(x, n, tl), NEW s \in Seqs,
         NEW start \in Nat, NEW end \in Nat, end <= x.map[s].filled,
         NEW g, FullIdsOf(g, x, s, start, end)
  PROVE  /\ g.ids # <<>> =>
              /\ g.filled = (end \div BlockSize) * BlockSize
              /\ Len(g.ids) = (end \div BlockSize) - (start \div BlockSize)
              /\ start \div BlockSize < end \div BlockSize
         /\ g.ids = <<>> => ~(start \div BlockSize < end \div BlockSize)
<1> DEFINE ids == x.map[s].ids
           L == Len(ids)
           f == x.map[s].filled
           slots == x.map[s].slots
           j == start \div BlockSize
           q == end \div BlockSize
           last == Least(q + (IF FALSE THEN 1 ELSE 0), L)
<1>0. /\ x \in Manager(n) /\ MapOK(x, s, tl[s]) /\ BlockSize \in Nat \ {0}
  BY SizeAssumption DEF Sound
<1>1. /\ L \in Nat /\ f \in Nat /\ slots \in Nat /\ f <= slots /\ end <= f
      /\ L = CeilDiv(slots, BlockSize) /\ ids \in Seq(Blocks(n))
  <2>1. L \in Nat /\ f \in 0..MaxLen /\ slots \in 0..MaxLen /\ ids \in Seq(Blocks(n))
    BY <1>0, MapFields
  <2> QED BY <1>0, <2>1, SizeAssumption DEF MapOK
<1>2. j \in Nat /\ q \in Nat /\ q * BlockSize <= end
  BY <1>0, DivBounds
<1>3. q <= L
  <2> HIDE DEF L, slots, f, q
  <2>1. slots <= L * BlockSize
    BY ONLY <1>0, <1>1, CeilBounds
  <2>2. q * BlockSize <= L * BlockSize
    BY ONLY <1>0, <1>1, <1>2, <2>1
  <2>3. ASSUME L < q PROVE FALSE
    <3>1. L * BlockSize + BlockSize <= q * BlockSize
      BY ONLY <1>1, <1>2, <2>3, MulMono
    <3>2. L * BlockSize \in Nat /\ q * BlockSize \in Nat
      BY ONLY <1>0, <1>1, <1>2
    <3> QED BY ONLY <1>0, <2>2, <3>1, <3>2
  <2> QED BY ONLY <1>1, <1>2, <2>3
<1>4. last = q
  <2> HIDE DEF L, q
  <2> QED BY ONLY <1>1, <1>2, <1>3 DEF Least
<1>5. g = IF j >= last THEN [ids |-> <<>>, filled |-> 0]
          ELSE [ids |-> SubSeq(ids, j + 1, last),
                filled |-> Least((last - 1) * BlockSize + x.len[ids[last]], f)]
  BY DEF FullIdsOf, get_block_ids_range
<1> HIDE DEF last
<1>6. CASE j >= q
  <2>1. ~(j < q)
    <3> HIDE DEF j, q
    <3> QED BY ONLY <1>2, <1>6
  <2>2. g = [ids |-> <<>>, filled |-> 0]
    BY <1>4, <1>5, <1>6
  <2>3. g.ids = <<>>
    BY ONLY <2>2
  <2> QED BY <2>1, <2>3
<1>7. CASE ~(j >= q)
  <2>0. j < q
    <3> HIDE DEF j, q
    <3> QED BY ONLY <1>2, <1>7
  <2>1. g = [ids |-> SubSeq(ids, j + 1, q),
             filled |-> Least((q - 1) * BlockSize + x.len[ids[q]], f)]
    BY <1>4, <1>5, <1>7
  <2>2. q \in 1..L
    <3> HIDE DEF j, q, L
    <3> QED BY ONLY <1>1, <1>2, <1>3, <2>0
  <2>3. x.len[ids[q]] = BlockSize
    <3>1. BlockOK(x, s, q)
      BY <1>0, <2>2 DEF MapOK
    <3>2. q * BlockSize <= slots
      <4> HIDE DEF q, slots, f
      <4> QED BY ONLY <1>0, <1>1, <1>2
    <3> QED BY ONLY <3>1, <3>2 DEF BlockOK
  <2>4. g.filled = q * BlockSize
    <3> DEFINE v == x.len[ids[q]]
    <3>1. g.filled = Least((q - 1) * BlockSize + v, f) /\ v = BlockSize
      <4>1. g = [ids |-> SubSeq(ids, j + 1, q), filled |-> Least((q - 1) * BlockSize + v, f)]
        BY ONLY <2>1 DEF v
      <4>2. v = BlockSize
        BY ONLY <2>3 DEF v
      <4> DEFINE w == Least((q - 1) * BlockSize + v, f)
                 c == SubSeq(ids, j + 1, q)
      <4>3. g = [ids |-> c, filled |-> w]
        BY ONLY <4>1
      <4> HIDE DEF w, c
      <4>4. g.filled = w
        BY ONLY <4>3
      <4> QED BY ONLY <4>2, <4>4 DEF w
    <3> HIDE DEF q, v, f
    <3>2. (q - 1) * BlockSize + v = q * BlockSize /\ q * BlockSize \in Nat
      BY ONLY <1>0, <1>2, <3>1
    <3>3. q * BlockSize <= f
      BY ONLY <1>0, <1>1, <1>2
    <3> QED BY ONLY <1>1, <3>1, <3>2, <3>3 DEF Least
  <2>5. Len(g.ids) = q - j
    <3>1. g.ids = SubSeq(ids, j + 1, q)
      <4> DEFINE w == Least((q - 1) * BlockSize + x.len[ids[q]], f)
                 c == SubSeq(ids, j + 1, q)
      <4>1. g = [ids |-> c, filled |-> w]
        BY ONLY <2>1
      <4> HIDE DEF w, c
      <4>2. g.ids = c
        BY ONLY <4>1
      <4> QED BY ONLY <4>2 DEF c
    <3> HIDE DEF ids, j, q
    <3> QED BY ONLY <1>1, <1>2, <1>3, <2>0, <3>1 DEF L
  <2>6. g.ids # <<>>
    <3>1. Len(g.ids) # 0
      <4> HIDE DEF q, j
      <4> QED BY ONLY <1>2, <2>0, <2>5
    <3> QED BY <3>1
  <2> QED BY <2>0, <2>4, <2>5, <2>6
<1> QED BY <1>6, <1>7

\* With the block that is not full, too: no more tokens than are filled.
LEMMA RangeFilled ==
  ASSUME NEW n \in Nat, NEW tl, NEW x, Sound(x, n, tl), NEW s \in Seqs,
         NEW start \in Nat, NEW end \in Nat,
         NEW g, IdsOf(g, x, s, start, end), g.ids # <<>>
  PROVE  g.filled \in Nat /\ g.filled <= x.map[s].filled
<1> DEFINE ids == x.map[s].ids
           L == Len(ids)
           f == x.map[s].filled
           j == start \div BlockSize
           q == end \div BlockSize
           last == Least(q + (IF TRUE THEN 1 ELSE 0), L)
<1>0. x \in Manager(n) /\ BlockSize \in Nat \ {0}
  BY SizeAssumption DEF Sound
<1>1. L \in Nat /\ f \in Nat /\ \A i \in 1..L : ids[i] \in Blocks(n)
  <2>1. f \in 0..MaxLen
    BY <1>0, MapFields
  <2> QED BY <1>0, <2>1, MapFields, SizeAssumption
<1>2. j \in Nat /\ q \in Nat
  BY <1>0, DivBounds
<1>3. last \in 0..L
  <2> HIDE DEF q, L
  <2> QED BY ONLY <1>1, <1>2 DEF Least
<1>4. g = IF j >= last THEN [ids |-> <<>>, filled |-> 0]
          ELSE [ids |-> SubSeq(ids, j + 1, last),
                filled |-> Least((last - 1) * BlockSize + x.len[ids[last]], f)]
  BY DEF IdsOf, get_block_ids_range
<1> HIDE DEF last
<1>5. ~(j >= last)
  BY <1>4
<1>6. last \in 1..L
  <2> HIDE DEF j, L
  <2> QED BY ONLY <1>1, <1>2, <1>3, <1>5
<1>7. x.len[ids[last]] \in 0..BlockSize
  <2>1. ids[last] \in Blocks(n)
    BY <1>1, <1>6
  <2>2. x.len \in [Blocks(n) -> 0..BlockSize]
    BY <1>0, ManagerFields
  <2> HIDE DEF ids
  <2> QED BY ONLY <2>1, <2>2
<1>8. g.filled = Least((last - 1) * BlockSize + x.len[ids[last]], f)
  BY <1>4, <1>5
<1> DEFINE v == x.len[ids[last]]
<1>9. g.filled = Least((last - 1) * BlockSize + v, f) /\ v \in Nat
  BY <1>0, <1>7, <1>8
<1> HIDE DEF v, f, L
<1>10. (last - 1) * BlockSize + v \in Nat
  BY ONLY <1>0, <1>1, <1>6, <1>9
<1> QED BY ONLY <1>1, <1>9, <1>10 DEF Least, f
-----------------------------------------------------------------------------
(* When nobody holds a block *)

\* A sequence that holds nothing twice is as long as the set of what it holds.
LEMMA LenCounts ==
  ASSUME NEW S, NEW q \in Seq(S), NoDup(q)
  PROVE  IsFiniteSet(Elems(q)) /\ Cardinality(Elems(q)) = Len(q)
<1>1. Len(q) \in Nat /\ q \in [1..Len(q) -> Elems(q)]
  BY DEF Elems
<1>2. q \in Bijection(1..Len(q), Elems(q))
  BY <1>1 DEF NoDup, Elems, Bijection, Injection, Surjection, IsInjective
<1>3. ExistsBijection(1..Len(q), Elems(q))
  BY <1>2 DEF ExistsBijection
<1>4. IsFiniteSet(1..Len(q))
  BY <1>1, FS_Interval
<1> QED BY <1>1, <1>3, <1>4, FS_Bijection, FS_CountingElements

\* When no sequence holds a block, the blocks of the regions and the lost ones
\* are not free, and all others are.
LEMMA OnlyRegions ==
  ASSUME NEW n \in Nat, NEW tl, NEW x, Sound(x, n, tl), \A s \in Seqs : x.map[s].ids = <<>>
  PROVE  Elems(x.free) = Blocks(n) \ (x.lost \union UNION {Elems(x.resv[r]) : r \in Regions})
<1>1. /\ x \in Manager(n) /\ RefExact(x, n) /\ Elems(x.free) = {b \in Blocks(n) : x.ref[b] = 0}
  BY DEF Sound, FreeExact
<1>2. ASSUME NEW b \in Blocks(n)
      PROVE  x.ref[b] = 0 <=> b \notin x.lost /\ \A r \in Regions : b \notin Elems(x.resv[r])
  <2> DEFINE R == HeldByRegions(x, b)
             c == Cardinality(R)
  <2>1. HeldBySeqs(x, b) = {}
    <3>1. Elems(<<>>) = {}
      BY DEF Elems
    <3> QED BY <3>1 DEF HeldBySeqs
  <2>2. Cardinality({}) = 0
    BY FS_EmptySet
  <2>3. x.ref[b] = 0 + c + Stranded(x, b)
    BY <1>1, <2>1, <2>2 DEF RefExact
  <2>4. IsFiniteSet(R)
    BY HoldersFinite
  <2>5. c \in Nat /\ (c = 0 <=> R = {})
    BY <2>4, FS_CardinalityType, FS_EmptySet
  <2>6. R = {} <=> \A r \in Regions : b \notin Elems(x.resv[r])
    BY DEF HeldByRegions
  <2> HIDE DEF R, c
  <2> QED BY ONLY <2>3, <2>5, <2>6 DEF Stranded
<1> QED BY <1>1, <1>2

\* A manager that nobody holds a block of has all its blocks in the free list,
\* except for those a panic has lost.
LEMMA AllFree ==
  ASSUME NEW n \in Nat, NEW tl, NEW x, Sound(x, n, tl),
         \A s \in Seqs : x.map[s].ids = <<>>, \A r \in Regions : x.resv[r] = <<>>
  PROVE  Len(x.free) + Cardinality(x.lost) = n
<1>1. /\ x \in Manager(n) /\ RefExact(x, n) /\ Elems(x.free) = {b \in Blocks(n) : x.ref[b] = 0}
      /\ NoDup(x.free)
  BY DEF Sound, FreeExact
<1>2. x.free \in Seq(Blocks(n)) /\ x.lost \in SUBSET Blocks(n)
  BY <1>1, ManagerFields
<1>3. ASSUME NEW b \in Blocks(n) PROVE x.ref[b] = IF b \in x.lost THEN 1 ELSE 0
  <2>1. Elems(<<>>) = {}
    BY DEF Elems
  <2>2. HeldBySeqs(x, b) = {} /\ HeldByRegions(x, b) = {}
    BY <2>1 DEF HeldBySeqs, HeldByRegions
  <2>3. Cardinality({}) = 0
    BY FS_EmptySet
  <2>4. x.ref[b] = 0 + 0 + Stranded(x, b)
    BY <1>1, <2>2, <2>3 DEF RefExact
  <2> QED BY ONLY <2>4 DEF Stranded
<1>4. Elems(x.free) = Blocks(n) \ x.lost
  BY <1>1, <1>3
<1>5. IsFiniteSet(Blocks(n)) /\ Cardinality(Blocks(n)) = n
  <2>1. IsFiniteSet(0..(n - 1)) /\ Cardinality(0..(n - 1)) = n
    BY FS_Interval
  <2> QED BY <2>1 DEF Blocks
<1>6. Cardinality(Blocks(n) \ x.lost) = Cardinality(Blocks(n)) - Cardinality(Blocks(n) \cap x.lost)
  BY <1>5, FS_Difference
<1>7. Blocks(n) \cap x.lost = x.lost
  BY <1>2
<1>8. IsFiniteSet(x.lost) /\ Cardinality(x.lost) \in Nat
  BY <1>2, <1>5, FS_Subset, FS_CardinalityType
<1>9. Cardinality(Elems(x.free)) = Len(x.free)
  BY <1>1, <1>2, LenCounts
<1>10. Cardinality(Blocks(n) \ x.lost) = Len(x.free)
  BY ONLY <1>4, <1>9
<1>11. Cardinality(Blocks(n) \cap x.lost) = Cardinality(x.lost)
  BY ONLY <1>7
<1>12. Len(x.free) = n - Cardinality(x.lost)
  BY ONLY <1>5, <1>6, <1>10, <1>11
<1> QED BY ONLY <1>8, <1>12, n \in Nat

-----------------------------------------------------------------------------
(* Which blocks a sequence gets, and what is found by its label afterwards *)

\* s gets the blocks of new, which nobody holds, after the ones it has.  What
\* is found by its label was found before, or is one of them, or is the last
\* block that s had, filled up now.
Gets(x, y, s, total, new) ==
    /\ y.map[s].ids = x.map[s].ids \o new
    /\ \A b \in Elems(new) : \A t \in Seqs : b \notin Elems(x.map[t].ids)
    /\ x.map[s].slots = total => new = <<>>
    /\ \A h \in Hashes :
          \/ lookup_block_id(y, h) \in {NoBlock, lookup_block_id(x, h)} \union Elems(new)
          \/ /\ lookup_block_id(y, h) = LastBlock(x, s) /\ Len(x.map[s].ids) >= 1
             /\ x.map[s].slots < total /\ x.map[s].slots < Len(x.map[s].ids) * BlockSize

\* What take_blocks leaves in the hash table.
LEMMA TakeLookup ==
  ASSUME NEW n \in Nat, NEW z, DOMAIN z.hash = Blocks(n),
         \A h \in Hashes : z.table[h] \in Blocks(n) \union {NoBlock},
         NEW y, NEW new, NEW ln, NEW hh, Took(z, y, n, new, ln, hh), NEW h \in Hashes
  PROVE  lookup_block_id(y, h) \in {NoBlock, lookup_block_id(z, h)} \union Elems(new)
<1> DEFINE J == 1..Len(new)
           Enters(j) == hh[j] = h /\ \A i \in (j + 1)..Len(new) : z.hash[new[i]] # h
           b == y.table[h]
<1>1. b = IF \E j \in J : Enters(j) THEN new[CHOOSE j \in J : hh[j] = h]
          ELSE IF \E j \in J : z.hash[new[j]] = h THEN NoBlock ELSE z.table[h]
  BY DEF Took, alloc_table
<1>2. \A c \in Blocks(n) : c \notin Elems(new) => y.hash[c] = z.hash[c]
  BY DEF Took, Fresh
<1>3. lookup_block_id(y, h) = IF b # NoBlock /\ y.hash[b] = h THEN b ELSE NoBlock
  BY DEF lookup_block_id
<1>4. lookup_block_id(z, h) = IF z.table[h] # NoBlock /\ z.hash[z.table[h]] = h THEN z.table[h]
                              ELSE NoBlock
  BY DEF lookup_block_id
<1>5. (\E j \in J : Enters(j)) => b \in Elems(new)
  <2> SUFFICES ASSUME \E j \in J : Enters(j) PROVE b \in Elems(new)
    OBVIOUS
  <2> DEFINE c == CHOOSE j \in J : hh[j] = h
  <2>1. c \in J
    OBVIOUS
  <2>2. b = new[c]
    BY <1>1
  <2> HIDE DEF c, b
  <2> QED BY <2>1, <2>2 DEF Elems
<1>6. b \in Elems(new) \/ b = NoBlock \/ b = z.table[h]
  BY <1>1, <1>5
<1> HIDE DEF b
<1> QED BY <1>2, <1>3, <1>4, <1>6

\* What fill_last_block leaves there.
LEMMA FillLookup ==
  ASSUME NEW n \in Nat, NEW x \in Manager(n), NEW z, NEW a, NEW last, NEW g,
         FilledLast(x, z, a, last, g), NEW h \in Hashes
  PROVE  /\ lookup_block_id(z, h) \in {NoBlock, lookup_block_id(x, h), last}
         /\ z.table[h] \in {x.table[h], last} /\ DOMAIN z.hash = DOMAIN x.hash
<1>1. DOMAIN x.table = Hashes
  BY ManagerFields
<1>2. CASE x.len[last] + a < BlockSize
  BY <1>2 DEF FilledLast, lookup_block_id
<1>3. CASE ~(x.len[last] + a < BlockSize)
  <2>1. z.hash = [x.hash EXCEPT ![last] = g] /\ z.table = [x.table EXCEPT ![g] = last]
    BY <1>3 DEF FilledLast
  <2>2. z.table[h] = IF h = g THEN last ELSE x.table[h]
    BY <1>1, <2>1
  <2>3. \A b : b # last => z.hash[b] = x.hash[b]
    BY <2>1
  <2> QED BY <2>1, <2>2, <2>3 DEF lookup_block_id
<1> QED BY <1>2, <1>3

\* alloc_blocks does that, unless alloc_block panics.
LEMMA AllocGets ==
  ASSUME NEW n \in Nat, NEW tl \in [Seqs -> 0..MaxLen], NEW x, Sound(x, n, tl), NEW s \in Seqs,
         NEW y, y = alloc_blocks(x, s, tl[s]),
         ~y.exhausted \/ CeilDiv(tl[s], BlockSize) - Len(x.map[s].ids) <= Len(x.free)
  PROVE  \E new \in Seq(Blocks(n)) : Gets(x, y, s, tl[s], new)
<1> DEFINE slots == x.map[s].slots
           total == tl[s]
           L == Len(x.map[s].ids)
           a == AppendSlots(x, s, total)
           z == fill_last_block(x, s, total)
           at == slots + a
           k == CeilDiv(total - at, BlockSize)
           new == Popped(z, k)
           last == LastBlock(x, s)
           g == BlockHash[s][(slots + a) \div BlockSize]
<1>0. /\ x \in Manager(n) /\ RefExact(x, n) /\ FreeExact(x, n)
      /\ MapOK(x, s, total) /\ total \in Nat
      /\ slots \in Nat /\ L \in Nat /\ x.map \in [Seqs -> BlockMap(n)]
      /\ Len(x.free) \in Nat
  <2>1. /\ x \in Manager(n) /\ RefExact(x, n) /\ FreeExact(x, n)
        /\ MapOK(x, s, total) /\ total \in 0..MaxLen
    BY DEF Sound
  <2>2. slots \in 0..MaxLen /\ L \in Nat /\ x.map \in [Seqs -> BlockMap(n)] /\ Len(x.free) \in Nat
    BY <2>1, MapFields, ManagerFields
  <2> QED BY <2>1, <2>2, SizeAssumption
<1>1. Appends(x, s, total, L, a)
  <2>1. total \in 0..MaxLen
    OBVIOUS
  <2> QED BY <1>0, <2>1, AppendFacts
<1>2. a \in Nat /\ at \in Nat /\ at <= total
  BY <1>0, <1>1 DEF Appends
<1>3. NewSpan(at, total, L, k)
  <2>0. total \in 0..MaxLen
    OBVIOUS
  <2> HIDE DEF a, k, slots, L, total
  <2>1. /\ slots + a <= total /\ L = CeilDiv(slots + a, BlockSize)
        /\ slots + a = total \/ slots + a = L * BlockSize
    BY ONLY <1>1 DEF Appends, slots
  <2> QED BY ONLY <1>0, <1>2, <2>0, <2>1 DEF NewSpan, k
<1>4. y = take_blocks(z, s, at, total)
  BY DEF alloc_blocks
<1>5. a = 0 => z = x
  BY DEF fill_last_block
<1>6. a # 0 => FilledLast(x, z, a, last, g) /\ z.map = x.map
  BY <1>0, FillFields
<1> HIDE DEF z, a, slots, at
<1>7. /\ Whole(z) /\ DOMAIN z.ref = Blocks(n) /\ DOMAIN z.status = Blocks(n)
      /\ DOMAIN z.len = Blocks(n) /\ DOMAIN z.hash = Blocks(n)
      /\ z.exhausted \in BOOLEAN /\ z.map = x.map /\ z.free = x.free
  <2>1. /\ Whole(x) /\ DOMAIN x.ref = Blocks(n) /\ DOMAIN x.status = Blocks(n)
        /\ DOMAIN x.len = Blocks(n) /\ DOMAIN x.hash = Blocks(n) /\ x.exhausted \in BOOLEAN
    BY <1>0, ManagerFields
  <2>2. CASE a = 0
    BY <1>5, <2>1, <2>2
  <2>3. CASE a # 0
    BY ONLY <1>6, <2>1, <2>3 DEF FilledLast
  <2> QED BY <2>2, <2>3
<1>8. k \in Nat /\ L + k = CeilDiv(total, BlockSize)
  <2> HIDE DEF k, total, L
  <2>1. PICK q : q = <<>>
    OBVIOUS
  <2>2. Len(q) \in Nat /\ Len(q) <= k
    BY <1>3, <2>1, CeilBounds DEF NewSpan
  <2> QED BY ONLY <1>3, <2>2, NewSpanLabels, s \in Seqs
<1>9. /\ Took(z, y, n, new, NewLens(at, total, new), NewHashes(s, at, total, new))
      /\ ~Exhausts(z, k) => y.map = [x.map EXCEPT ![s] =
            [live |-> TRUE, ids |-> x.map[s].ids \o new, slots |-> total, filled |-> x.map[s].filled]]
      /\ Exhausts(z, k) => y.exhausted = TRUE
  <2>1. k = CeilDiv(total - at, BlockSize) /\ new = Popped(z, k)
    OBVIOUS
  <2> HIDE DEF k, new, total
  <2>2. TakeResult(z, y, n, s, at, total, k, new)
    BY ONLY <1>4, <1>7, <2>1, TakeFields, n \in Nat
  <2> QED BY ONLY <1>7, <2>2 DEF TakeResult, TookFor
<1>10. ~Exhausts(z, k)
  <2>1. CASE ~y.exhausted
    BY <1>9, <2>1
  <2>2. CASE CeilDiv(total, BlockSize) - L <= Len(x.free)
    <3> DEFINE c == CeilDiv(total, BlockSize)
               f == Len(x.free)
    <3>1. f \in Nat /\ L \in Nat /\ L + k = c /\ k \in Nat /\ c - L <= f
      BY <1>0, <1>8, <2>2
    <3> HIDE DEF k, c, f, L
    <3>2. k <= f
      BY ONLY <3>1
    <3> QED BY ONLY <1>7, <3>1, <3>2 DEF Exhausts, f
  <2> QED BY <2>1, <2>2
<1>11. PopOK(x, n, k, new)
  <2>1. new = Popped(x, k)
    BY <1>7 DEF Popped
  <2> HIDE DEF k, new
  <2> QED BY <1>0, <1>8, <2>1, PopFacts
<1>12. /\ new \in Seq(Blocks(n)) /\ Len(new) <= k
       /\ \A b \in Elems(new) : b \in Blocks(n) /\ x.ref[b] = 0
  <2> HIDE DEF new
  <2> QED BY <1>11 DEF PopOK
<1>13. \A b \in Elems(new) : \A t \in Seqs : b \notin Elems(x.map[t].ids)
  <2> HIDE DEF new
  <2> QED BY <1>0, <1>12, Holders
<1>14. y.map[s].ids = x.map[s].ids \o new
  <2> HIDE DEF new, k, total
  <2>1. y.map[s] = [live |-> TRUE, ids |-> x.map[s].ids \o new, slots |-> total,
                    filled |-> x.map[s].filled]
    BY ONLY <1>0, <1>9, <1>10, s \in Seqs
  <2> QED BY <2>1
<1>15. slots = total => new = <<>>
  <2> HIDE DEF new, total
  <2> SUFFICES ASSUME slots = total PROVE Len(new) = 0
    BY <1>12
  <2>1. total - at = 0
    BY <1>0, <1>2 DEF at
  <2>2. k = CeilDiv(0, BlockSize)
    BY <2>1 DEF k
  <2>3. CeilDiv(0, BlockSize) = 0
    <3>1. 0 <= 0 * BlockSize /\ 0 * BlockSize < 0 + BlockSize
      BY SizeAssumption
    <3> QED BY <3>1, CeilUnique
  <2> HIDE DEF k
  <2> QED BY <1>8, <1>12, <2>2, <2>3
<1>16. ASSUME NEW h \in Hashes
       PROVE  \/ lookup_block_id(y, h) \in {NoBlock, lookup_block_id(x, h)} \union Elems(new)
              \/ a # 0 /\ lookup_block_id(y, h) = last
  <2> HIDE DEF new, last, total, g
  <2>1. x.table \in [Hashes -> Blocks(n) \union {NoBlock}] /\ DOMAIN x.hash = Blocks(n)
    BY <1>0, ManagerFields
  <2>2. a # 0 => last \in Blocks(n)
    <3> SUFFICES ASSUME a # 0 PROVE last \in Blocks(n)
      OBVIOUS
    <3>1. L >= 1
      BY <1>1 DEF Appends
    <3>2. L \in 1..Len(x.map[s].ids)
      BY <1>0, <3>1
    <3> QED BY <1>0, <3>2, MapFields DEF last, LastBlock
  <2>3. \A j \in Hashes : z.table[j] \in Blocks(n) \union {NoBlock}
    <3>1. CASE a = 0
      BY <1>5, <2>1, <3>1
    <3>2. CASE a # 0
      <4>1. \A j \in Hashes : z.table[j] \in {x.table[j], last}
        BY <1>0, <1>6, <3>2, FillLookup
      <4> QED BY <2>1, <2>2, <3>2, <4>1
    <3> QED BY <3>1, <3>2
  <2>4. lookup_block_id(y, h) \in {NoBlock, lookup_block_id(z, h)} \union Elems(new)
    BY ONLY <1>7, <1>9, <2>3, TakeLookup, n \in Nat, h \in Hashes
  <2>5. CASE a = 0
    BY <1>5, <2>4, <2>5
  <2>6. CASE a # 0
    <3>1. lookup_block_id(z, h) \in {NoBlock, lookup_block_id(x, h), last}
      BY <1>0, <1>6, <2>6, FillLookup
    <3> QED BY ONLY <2>4, <2>6, <3>1
  <2> QED BY <2>5, <2>6
<1>17. a # 0 => L >= 1 /\ slots < total /\ slots < L * BlockSize
  <2> HIDE DEF L, total
  <2>1. a # 0 => L >= 1 /\ slots < L * BlockSize
    BY ONLY <1>1 DEF Appends, slots
  <2> QED BY ONLY <1>0, <1>2, <2>1 DEF at
<1> HIDE DEF new, k
<1>18. Gets(x, y, s, total, new)
  BY ONLY <1>13, <1>14, <1>15, <1>16, <1>17 DEF Gets, slots, L, last
<1> QED BY <1>12, <1>18

\* What a new sequence takes over is what its labels find.
LEMMA InitHits ==
  ASSUME NEW n \in Nat, NEW tl \in [Seqs -> 0..MaxLen], NEW x, Sound(x, n, tl),
         NEW s \in Seqs, ~x.map[s].live, NEW y, y = init_prefix_cache_blocks(x, s, tl[s])
  PROVE  /\ \A k \in 1..Len(y.map[s].ids) :
               /\ k \in 1..NumFull
               /\ y.map[s].ids[k] = lookup_block_id(x, BlockHash[s][k])
               /\ lookup_block_id(x, BlockHash[s][k]) # NoBlock
         /\ \A h \in Hashes : lookup_block_id(y, h) = lookup_block_id(x, h)
<1> DEFINE t == tl[s]
           q == t \div BlockSize
           ids == get_prefix_cache_blocks(x, s, t)
           bm == [live |-> TRUE, ids |-> ids, slots |-> BlockSize * Len(ids),
                  filled |-> BlockSize * Len(ids)]
           z == alloc_blocks_by_id(x, ids)
<1>0. x \in Manager(n) /\ t \in 0..MaxLen /\ BlockSize \in Nat \ {0} /\ MaxLen \in Nat
  BY SizeAssumption DEF Sound
<1>1. Whole(z) /\ Grabbed(x, z, n, ids) /\ z.map = x.map
  BY <1>0, GrabFields
<1>2. y = [z EXCEPT !.map[s] = bm]
  BY DEF init_prefix_cache_blocks
<1>3. t \in Nat /\ q \in Nat /\ q <= NumFull /\ NumFull \in Nat
  BY <1>0, DivBounds, DivMono DEF NumFull
<1>4. ids = HitsFrom(x, s, 0, q)
  BY DEF get_prefix_cache_blocks, HitsFrom
<1>5. ids = [i \in 1..NumHits(x, s, 0, q) |-> lookup_block_id(x, BlockHash[s][i])]
  BY DEF get_prefix_cache_blocks
<1> HIDE DEF z, ids, q, t
<1>6. ids \in Seq(Blocks(n)) /\ Len(ids) <= q
  <2>1. 0 \in Nat /\ 0 <= q
    BY <1>3
  <2>2. ids \in Seq(Blocks(n)) /\ 0 + Len(ids) <= q
    BY <1>0, <1>3, <1>4, <2>1, PrefixHits
  <2> QED BY <1>3, <2>2
<1>7. y.hash = z.hash /\ y.table = z.table /\ y.map = [z.map EXCEPT ![s] = bm] /\ bm.ids = ids
  <2>1. bm.ids = ids
    OBVIOUS
  <2> HIDE DEF bm
  <2> QED BY ONLY <1>1, <1>2, <2>1 DEF Whole
<1> HIDE DEF bm
<1>8. y.map[s].ids = ids /\ y.hash = x.hash /\ y.table = x.table
  <2>1. x.map \in [Seqs -> BlockMap(n)]
    BY <1>0, ManagerFields
  <2> QED BY <1>1, <1>7, <2>1 DEF Grabbed
<1>9. DOMAIN ids = 1..Len(ids)
  BY <1>6
<1>10. ASSUME NEW k \in 1..Len(ids)
       PROVE  /\ k \in 1..NumFull /\ ids[k] = lookup_block_id(x, BlockHash[s][k])
              /\ ids[k] # NoBlock
  <2>1. k \in 1..NumHits(x, s, 0, q)
    BY <1>5, <1>9
  <2>2. ids[k] \in Blocks(n)
    BY <1>6
  <2>3. k \in 1..NumFull
    <3> DEFINE l == Len(ids)
    <3>1. l \in Nat /\ l <= q /\ k \in 1..l
      BY <1>6
    <3> HIDE DEF l
    <3> QED BY ONLY <1>3, <3>1
  <2>4. ids[k] # NoBlock
    BY <2>2 DEF Blocks, NoBlock
  <2> QED BY <1>5, <2>1, <2>3, <2>4
<1> QED BY <1>8, <1>10 DEF lookup_block_id

\* free and free_and_drop_cache make no block findable, and what they forget
\* is found no more.
LEMMA FreeLookup ==
  ASSUME NEW n \in Nat, NEW x \in Manager(n), NEW s \in Seqs, NEW f, NEW y,
         y = free_dropping(x, s, f), NEW h \in Hashes, lookup_block_id(y, h) # NoBlock
  PROVE  /\ lookup_block_id(y, h) = lookup_block_id(x, h)
         /\ lookup_block_id(y, h) \notin DropSet(x, s, f)
<1> DEFINE drop == DropSet(x, s, f)
           b == y.table[h]
<1>1. /\ y.table = [g \in Hashes |->
                     IF \E c \in drop : x.hash[c] = g THEN NoBlock ELSE x.table[g]]
      /\ y.hash = [c \in Blocks(n) |-> IF c \in drop THEN NoHash ELSE x.hash[c]]
  <2>1. FreedFor(x, y, n, s, drop)
    BY FreedFields
  <2> HIDE DEF drop
  <2> QED BY ONLY <2>1 DEF FreedFor
<1>2. lookup_block_id(y, h) = b /\ b # NoBlock /\ y.hash[b] = h
  BY DEF lookup_block_id
<1>3. b = x.table[h] /\ x.table[h] \in Blocks(n) \union {NoBlock}
  BY <1>1, <1>2, ManagerFields
<1>4. h # NoHash
  BY HashAssumption DEF NoHash
<1> HIDE DEF drop, b
<1>5. b \in Blocks(n) /\ b \notin drop /\ x.hash[b] = h
  BY <1>1, <1>2, <1>3, <1>4
<1> QED BY <1>2, <1>3, <1>5 DEF lookup_block_id, drop

\* A block that a second sequence holds, or that has a label, is full: it
\* carries the label of s at its place in the map of s.
LEMMA SharedFull ==
  ASSUME NEW n \in Nat, NEW tl, NEW x, Sound(x, n, tl), NEW s \in Seqs,
         NEW k \in 1..Len(x.map[s].ids), NEW b, b = x.map[s].ids[k],
         x.hash[b] # NoHash \/ \E t \in Seqs : t # s /\ b \in Elems(x.map[t].ids)
  PROVE  /\ k * BlockSize <= x.map[s].slots /\ x.hash[b] = BlockHash[s][k]
         /\ k \in 1..NumFull /\ b \in Blocks(n)
<1>0. x \in Manager(n) /\ RefExact(x, n) /\ BlockOK(x, s, k)
  BY DEF Sound, MapOK
<1>1. b \in Blocks(n) /\ b \in Elems(x.map[s].ids)
  BY <1>0, MapFields DEF Elems
<1>2. x.hash[b] # NoHash \/ x.ref[b] # 1
  BY <1>0, <1>1, Holders
<1>3. k * BlockSize <= x.map[s].slots /\ x.hash[b] = BlockHash[s][k]
  BY <1>0, <1>2 DEF BlockOK
<1>4. k \in 1..NumFull
  <2>1. k \in Nat /\ k >= 1 /\ x.map[s].slots \in Nat /\ x.map[s].slots <= MaxLen /\ MaxLen \in Nat
    BY <1>0, MapFields, SizeAssumption
  <2>2. k * BlockSize <= MaxLen
    <3> DEFINE a == x.map[s].slots
    <3>1. a \in Nat /\ a <= MaxLen /\ k * BlockSize <= a /\ k * BlockSize \in Nat
      BY <1>3, <2>1, SizeAssumption
    <3> HIDE DEF a
    <3> QED BY ONLY <2>1, <3>1
  <2>3. k <= NumFull /\ NumFull \in Nat
    BY <2>1, <2>2, FullBlocks, DivBounds DEF NumFull
  <2> QED BY <2>1, <2>3
<1> QED BY <1>1, <1>3, <1>4

\* Two sequences that share a block have it at the same place, and they have
\* the same tokens up to its end.
LEMMA SameDepth ==
  ASSUME NEW n \in Nat, NEW tl, NEW x, Sound(x, n, tl), NEW s \in Seqs, NEW t \in Seqs, s # t,
         NEW k \in 1..Len(x.map[s].ids), NEW j \in 1..Len(x.map[t].ids),
         x.map[s].ids[k] = x.map[t].ids[j]
  PROVE  k = j /\ BlockHash[s][k] = BlockHash[t][k]
<1> DEFINE b == x.map[s].ids[k]
<1>1. b \in Elems(x.map[s].ids) /\ b \in Elems(x.map[t].ids)
  BY DEF Elems
<1>2. x.hash[b] = BlockHash[s][k] /\ k \in 1..NumFull
  BY <1>1, SharedFull
<1>3. x.hash[b] = BlockHash[t][j] /\ j \in 1..NumFull
  BY <1>1, SharedFull
<1> HIDE DEF b
<1>4. BlockHash[s][k] = BlockHash[t][j]
  BY <1>2, <1>3
<1>5. k = j
  BY <1>2, <1>3, <1>4, ChainAssumption
<1> QED BY <1>4, <1>5
=============================================================================
