--------------------------- MODULE StartUpProofs ---------------------------
(***************************************************************************)
(* KvReady, CacheFits and WarmupIsLargestBatch of StartUp for any number   *)
(* of workers and of launches, whatever memory they report, whatever fails *)
(* and whatever files are left over.                                       *)
(***************************************************************************)
EXTENDS StartUp, FiniteSetTheorems, TLAPS

\* What the proof needs of the types: the functions range over the workers.
Shape ==
    /\ call \in [Workers -> {"none", "sent", "running", "polling", "dialing", "ok", "error"}]
    /\ kv \in [Workers -> {"absent", "building", "bound", "serving", "dead"}]
    /\ blocks = [w \in Workers |-> blocks[w]]

\* While InitCache is gathered: a worker that has allocated has the blocks of
\* this request, and one that has answered has a KV worker that serves.
CacheInv ==
    phase = "init_cache" =>
        \A w \in Workers :
            /\ call[w] \in {"polling", "dialing", "ok"} => blocks[w] = num_gpu_blocks
            /\ call[w] = "ok" => kv[w] = "serving"

ReadyInv == Shape /\ CacheInv /\ KvReady

\* The group has a first worker.
LEMMA WorkerZero == 0 \in Workers
BY StartUpAssumption DEF Workers

\* No KV worker runs and no cache exists before the first launch.
LEMMA ReadyInit == Init => ReadyInv
BY DEF Init, ReadyInv, Shape, CacheInv, KvReady, AllWorkers

\* main and LLMEngine::new keep the invariant; the interesting step is the
\* one that gathers InitCache.
LEMMA EngineStep == ReadyInv /\ Engine => ReadyInv'
<1> SUFFICES ASSUME ReadyInv, Engine PROVE ReadyInv'
  OBVIOUS
<1> USE DEF ReadyInv, Shape
<1>1. CASE LaunchWorker
  BY <1>1 DEF LaunchWorker, CacheInv, KvReady, num_gpu_blocks
<1>2. CASE ConnectModel
  BY <1>2 DEF ConnectModel, Send, AllWorkers, CacheInv, KvReady, num_gpu_blocks
<1>3. CASE WarmedUp
  BY <1>3 DEF WarmedUp, Send, AllWorkers, CacheInv, KvReady
<1>4. CASE CacheReady
  <2>1. \A w \in Workers : kv[w] = "serving" /\ blocks[w] = blocks[0]
    BY <1>4, WorkerZero DEF CacheReady, Gathered, Succeeded, AllEqual, CacheInv
  <2> QED
    BY <1>4, <2>1 DEF CacheReady, Send, AllWorkers, CacheInv, KvReady
<1>5. CASE Rewarmed
  BY <1>5 DEF Rewarmed, Gathered, AllWorkers, CacheInv, KvReady
<1>6. CASE GatherPanics
  BY <1>6 DEF GatherPanics, processes, CacheInv, KvReady
<1>7. CASE ConnectKv
  BY <1>7 DEF ConnectKv, processes, CacheInv, KvReady
<1>8. CASE Serve
  BY <1>8 DEF Serve, processes, CacheInv, KvReady
<1> QED
  BY <1>1, <1>2, <1>3, <1>4, <1>5, <1>6, <1>7, <1>8 DEF Engine

\* A step of a model worker: only InitCache and ChannelReady touch what the
\* invariant is about.
LEMMA ModelWorkerStep ==
  ASSUME NEW w \in Workers, ReadyInv, ModelWorker(w)
  PROVE  ReadyInv'
<1> USE DEF ReadyInv, Shape, engine, num_gpu_blocks
<1>1. CASE JoinGroup(w) \/ LeaveAllReduce(w) \/ Listen(w)
  BY <1>1 DEF JoinGroup, LeaveAllReduce, Listen, CacheInv, KvReady
<1>2. CASE StartWarmup(w)
  BY <1>2 DEF StartWarmup, Answer, CacheInv, KvReady
<1>3. CASE FinishWarmup(w)
  BY <1>3 DEF FinishWarmup, Answer, CacheInv, KvReady
<1>4. CASE InitCache(w)
  BY <1>4 DEF InitCache, Answer, CacheInv, KvReady
<1>5. CASE PollSocket(w)
  BY <1>5 DEF PollSocket, Answer, CacheInv, KvReady
<1>6. CASE ChannelReady(w)
  BY <1>6 DEF ChannelReady, Answer, CacheInv, KvReady
<1> QED
  BY <1>1, <1>2, <1>3, <1>4, <1>5, <1>6 DEF ModelWorker

\* A KV worker only leaves the states in which it does not serve yet.
LEMMA KvWorkerStep ==
  ASSUME NEW w \in Workers, ReadyInv, KvWorker(w) \/ KvDies(w)
  PROVE  ReadyInv'
<1> USE DEF ReadyInv, Shape, engine, num_gpu_blocks
<1>1. CASE KvBuild(w)
  BY <1>1 DEF KvBuild, CacheInv, KvReady
<1>2. CASE KvServe(w)
  BY <1>2 DEF KvServe, CacheInv, KvReady
<1>3. CASE KvDies(w)
  BY <1>3 DEF KvDies, CacheInv, KvReady
<1> QED
  BY <1>1, <1>2, <1>3 DEF KvWorker

\* The failures of the model workers and of the registration.
LEMMA FailureStep == ReadyInv /\ Failure => ReadyInv'
<1> SUFFICES ASSUME ReadyInv, Failure PROVE ReadyInv'
  OBVIOUS
<1>1. CASE RegisterPanics
  BY <1>1 DEF RegisterPanics, processes, ReadyInv, Shape, CacheInv, KvReady
<1>2. ASSUME NEW w \in Workers, ModelWorkerDies(w) PROVE ReadyInv'
  BY <1>2 DEF ModelWorkerDies, engine, num_gpu_blocks, ReadyInv, Shape, CacheInv, KvReady
<1>3. ASSUME NEW w \in Workers, HandlerFails(w) PROVE ReadyInv'
  BY <1>3 DEF HandlerFails, Answer, engine, num_gpu_blocks, ReadyInv, Shape, CacheInv, KvReady
<1>4. ASSUME NEW w \in Workers, KvDies(w) PROVE ReadyInv'
  BY <1>4, KvWorkerStep
<1> QED
  BY <1>1, <1>2, <1>3, <1>4 DEF Failure

\* Every step, a new launch included, keeps the invariant.
LEMMA ReadyStep == ReadyInv /\ [Next]_vars => ReadyInv'
<1> SUFFICES ASSUME ReadyInv, [Next]_vars PROVE ReadyInv'
  OBVIOUS
<1>1. CASE Engine
  BY <1>1, EngineStep
<1>2. ASSUME NEW w \in Workers, ModelWorker(w) \/ KvWorker(w) PROVE ReadyInv'
  BY <1>2, ModelWorkerStep, KvWorkerStep
<1>3. CASE Failure
  BY <1>3, FailureStep
<1>4. CASE Relaunch
  BY <1>4 DEF Relaunch, AllWorkers, ReadyInv, Shape, CacheInv, KvReady
<1>5. CASE UNCHANGED vars
  BY <1>5 DEF vars, engine, processes, num_gpu_blocks, ReadyInv, Shape, CacheInv, KvReady
<1> QED
  BY <1>1, <1>2, <1>3, <1>4, <1>5 DEF Next

\* LLMEngine::new goes on past init_cache only with a serving KV worker of
\* this launch behind every model worker and with caches of the size the
\* scheduler is created with, for any tp_size, memory sizes, failures,
\* number of launches and files left over.
THEOREM KvWorkersReady == Spec => []KvReady
<1>1. ReadyInv => KvReady
  BY DEF ReadyInv
<1> QED
  BY ReadyInit, ReadyStep, <1>1, PTL DEF Spec

-----------------------------------------------------------------------------
(***************************************************************************)
(* CacheFits.  The size of the cache is computed once per launch from one  *)
(* worker's numbers; what a cache takes never exceeds that size.           *)
(***************************************************************************)

\* What the workers report is fixed, and every number is a natural number.
Machine ==
    /\ total \in [Workers -> Nat]
    /\ peak \in [Workers -> Nat]

\* gpu_cache_size is still unset or the size computed from the warm-up, and a
\* cache that exists takes no more than it.
SizeInv ==
    /\ blocks = [w \in Workers |-> blocks[w]]
    /\ cacheSize \in {0, CacheSize}
    /\ \A w \in Workers : blocks[w] = NoCache \/ blocks[w] = num_gpu_blocks
    /\ phase = "warmup" => \A w \in Workers : blocks[w] = NoCache
    /\ phase \in {"launch", "connect"} => \A w \in Workers : blocks[w] = NoCache

FitInv == Machine /\ SizeInv

\* A set of numbers that is not empty has a least one.
LEMMA SmallestOf ==
  ASSUME NEW T \in SUBSET Nat, T # {}
  PROVE  \E x \in T : \A y \in T : x <= y
<1>1. \E x \in T : \A y \in T : ~(<<y, x>> \in OpToRel(<, Nat))
  BY NatLessThanWellFounded, WFMin
<1>2. PICK x \in T : \A y \in T : ~(<<y, x>> \in OpToRel(<, Nat))
  BY <1>1
<1>3. \A y \in T : ~(y < x)
  BY <1>2 DEF OpToRel
<1> QED
  BY <1>3

\* min_by_key returns a worker, and no worker has less memory than it.
LEMMA SmallestWorker ==
  ASSUME Machine
  PROVE  Smallest \in Workers /\ \A v \in Workers : total[Smallest] <= total[v]
<1>1. PICK w \in Workers : \A v \in Workers : total[w] <= total[v]
  <2> DEFINE S == {total[w] : w \in Workers}
  <2>1. S \in SUBSET Nat
    BY DEF Machine
  <2>2. S # {}
    BY WorkerZero
  <2>3. \E x \in S : \A y \in S : x <= y
    <3> HIDE DEF S
    <3> QED
      BY <2>1, <2>2, SmallestOf
  <2> QED
    BY <2>3
<1> DEFINE T == {v \in Workers : total[v] = total[w]}
<1>2. PICK u \in T : \A v \in T : u <= v
  <2>1. T \in SUBSET Nat /\ T # {}
    BY <1>1, StartUpAssumption DEF Workers
  <2> HIDE DEF T
  <2> QED
    BY <2>1, SmallestOf
<1>3. u \in Workers /\ \A v \in Workers : total[u] < total[v] \/ (total[u] = total[v] /\ u <= v)
  BY <1>1, <1>2 DEF Machine
<1>4. /\ Smallest \in Workers
      /\ \A v \in Workers : total[Smallest] < total[v] \/ (total[Smallest] = total[v] /\ Smallest <= v)
  BY <1>3 DEF Smallest
<1> QED
  BY <1>4 DEF Machine

\* The numbers of the machines never change.
LEMMA MachineFixed == [Next]_vars => UNCHANGED <<total, peak, limits>>
<1> SUFFICES ASSUME [Next]_vars PROVE UNCHANGED <<total, peak, limits>>
  OBVIOUS
<1> USE DEF machine
<1>1. CASE Engine
  BY <1>1 DEF Engine, LaunchWorker, ConnectModel, WarmedUp, CacheReady, Rewarmed,
              GatherPanics, ConnectKv, Serve
<1>2. ASSUME NEW w \in Workers, ModelWorker(w) PROVE UNCHANGED <<total, peak, limits>>
  BY <1>2 DEF ModelWorker, JoinGroup, LeaveAllReduce, Listen, StartWarmup, FinishWarmup,
              InitCache, PollSocket, ChannelReady
<1>3. ASSUME NEW w \in Workers, KvWorker(w) PROVE UNCHANGED <<total, peak, limits>>
  BY <1>3 DEF KvWorker, KvBuild, KvServe
<1>4. CASE Failure
  BY <1>4 DEF Failure, RegisterPanics, ModelWorkerDies, HandlerFails, KvDies
<1>5. CASE Relaunch
  BY <1>5 DEF Relaunch
<1>6. CASE UNCHANGED vars
  BY <1>6 DEF vars
<1> QED
  BY <1>1, <1>2, <1>3, <1>4, <1>5, <1>6 DEF Next

\* So their types and the size computed from them stay.
LEMMA MachineStep == Machine /\ [Next]_vars => Machine' /\ UNCHANGED CacheSize
<1> SUFFICES ASSUME Machine, [Next]_vars PROVE Machine' /\ UNCHANGED CacheSize
  OBVIOUS
<1>1. UNCHANGED <<total, peak>>
  BY MachineFixed
<1> QED
  BY <1>1 DEF Machine, CacheSize, Smallest

\* A step sets the size of the cache before any cache exists, or leaves it
\* alone; caches get the size that is set, all at once if a launch begins.
LEMMA SizeStep ==
  ASSUME SizeInv, UNCHANGED CacheSize, [Next]_vars
  PROVE  SizeInv'
<1> USE DEF SizeInv, num_gpu_blocks, engine, processes
<1>1. CASE LaunchWorker \/ ConnectModel
  BY <1>1 DEF LaunchWorker, ConnectModel, Send
<1>2. CASE WarmedUp
  BY <1>2 DEF WarmedUp, Gathered, Send
<1>3. CASE CacheReady \/ Rewarmed \/ GatherPanics \/ ConnectKv \/ Serve
  BY <1>3 DEF CacheReady, Rewarmed, GatherPanics, ConnectKv, Serve, Send
<1>4. ASSUME NEW w \in Workers, InitCache(w) PROVE SizeInv'
  BY <1>4 DEF InitCache
<1>5. ASSUME NEW w \in Workers, ModelWorker(w), ~InitCache(w) PROVE SizeInv'
  BY <1>5 DEF ModelWorker, JoinGroup, LeaveAllReduce, Listen, StartWarmup, FinishWarmup,
              PollSocket, ChannelReady
<1>6. ASSUME NEW w \in Workers, KvWorker(w) PROVE SizeInv'
  BY <1>6 DEF KvWorker, KvBuild, KvServe
<1>7. CASE Failure
  BY <1>7 DEF Failure, RegisterPanics, ModelWorkerDies, HandlerFails, KvDies
<1>8. CASE Relaunch
  BY <1>8 DEF Relaunch, AllWorkers
<1>9. CASE UNCHANGED vars
  BY <1>9 DEF vars
<1> QED
  BY <1>1, <1>2, <1>3, <1>4, <1>5, <1>6, <1>7, <1>8, <1>9 DEF Next, Engine

\* The share of a GPU grows with the GPU.
LEMMA ShareMonotonic ==
  ASSUME NEW a \in Nat, NEW b \in Nat, a <= b
  PROVE  /\ (a * MemoryPercent) \div 100 \in Nat
         /\ (b * MemoryPercent) \div 100 \in Nat
         /\ (a * MemoryPercent) \div 100 <= (b * MemoryPercent) \div 100
<1>1. MemoryPercent \in Nat
  BY StartUpAssumption
<1> DEFINE x == a * MemoryPercent
           y == b * MemoryPercent
<1>2. x \in Nat /\ y \in Nat /\ x <= y
  BY <1>1
<1> HIDE DEF x, y
<1>3. x \div 100 \in Nat /\ y \div 100 \in Nat /\ x \div 100 <= y \div 100
  BY <1>2
<1> QED
  BY <1>3 DEF x, y

\* The blocks of a cache of size c take no more than c.
LEMMA BlocksWithin ==
  ASSUME NEW c \in Nat
  PROVE  (c \div BlockBytes) * BlockBytes <= c /\ c \div BlockBytes \in Nat
<1>1. BlockBytes \in Nat /\ BlockBytes > 0
  BY StartUpAssumption
<1> QED
  BY <1>1

\* What is left of the smallest GPU's share above its peak fits on every GPU
\* whose own peak is no higher.
LEMMA FitsEverywhere == FitInv => CacheFits
<1> SUFFICES ASSUME FitInv, NEW w \in Workers, blocks[w] > 0, peak[w] <= peak[Smallest]
             PROVE  blocks[w] * BlockBytes + peak[w] <= (total[w] * MemoryPercent) \div 100
  BY DEF CacheFits
<1> USE DEF FitInv
<1> DEFINE available == (total[Smallest] * MemoryPercent) \div 100
           share == (total[w] * MemoryPercent) \div 100
           taken == blocks[w] * BlockBytes
<1>1. Smallest \in Workers /\ total[Smallest] <= total[w]
  BY SmallestWorker
<1>2. total[Smallest] \in Nat /\ total[w] \in Nat /\ peak[Smallest] \in Nat /\ peak[w] \in Nat
  BY <1>1 DEF Machine
<1>3. available \in Nat /\ share \in Nat /\ available <= share
  BY <1>1, <1>2, ShareMonotonic
<1>4. CacheSize = IF available > peak[Smallest] THEN available - peak[Smallest] ELSE 0
  BY DEF CacheSize
<1>5. CacheSize \in Nat
  <2> HIDE DEF available
  <2> QED
    BY <1>2, <1>3, <1>4
<1>6. cacheSize \in Nat /\ blocks[w] = cacheSize \div BlockBytes
  BY <1>5 DEF SizeInv, NoCache, num_gpu_blocks
<1>7. taken <= cacheSize /\ taken \in Nat
  BY <1>6, BlocksWithin, StartUpAssumption
<1>8. cacheSize > 0
  <2>1. CASE cacheSize = 0
    BY <2>1, <1>6, StartUpAssumption
  <2> QED
    BY <2>1, <1>6
<1>9. cacheSize = available - peak[Smallest]
  <2> HIDE DEF available
  <2> QED
    BY <1>3, <1>4, <1>8, <1>2 DEF SizeInv
<1> HIDE DEF available, share, taken
<1>10. taken + peak[w] <= share
  BY <1>2, <1>3, <1>7, <1>9
<1> QED
  BY <1>10 DEF share, taken

\* gpu_cache_size is computed from the answers of the worker with the least
\* memory; nevertheless the cache it leads to fits, next to the peak of the
\* warm-up, into the configured fraction of every worker's GPU whose peak is
\* not higher: for any tp_size, memory sizes, block size, failures and
\* launches.
THEOREM CacheFitsEverywhere == Spec => []CacheFits
<1>1. Init => FitInv
  BY StartUpAssumption DEF Init, FitInv, Machine, SizeInv, AllWorkers
<1>2. FitInv /\ [Next]_vars => FitInv'
  BY MachineStep, SizeStep DEF FitInv
<1> QED
  BY <1>1, <1>2, FitsEverywhere, PTL DEF Spec
-----------------------------------------------------------------------------
(***************************************************************************)
(* WarmupIsLargestBatch.  The sum over a batch is MapThenSumSet, a         *)
(* recursion over the entries: first what it computes, for any entries and *)
(* lengths, then the two bounds of a batch and the tokens dealt by warmup. *)
(***************************************************************************)

\* Induction, with the numbers that have the property as a set.
LEMMA Climb ==
  ASSUME NEW T, 0 \in T, \A n \in Nat : n \in T => n + 1 \in T
  PROVE  Nat \subseteq T
<1> SUFFICES ASSUME Nat \ T # {} PROVE FALSE
  OBVIOUS
<1>1. PICK x \in Nat \ T : \A y \in Nat \ T : x <= y
  <2> DEFINE U == Nat \ T
  <2>1. U \in SUBSET Nat /\ U # {}
    OBVIOUS
  <2> HIDE DEF U
  <2>2. \E x \in U : \A y \in U : x <= y
    BY <2>1, SmallestOf
  <2> QED BY <2>2 DEF U
<1>2. x # 0
  BY <1>1
<1>3. x - 1 \in Nat /\ x - 1 \in T
  BY <1>1, <1>2
<1>4. (x - 1) + 1 \in T
  BY <1>3
<1> QED BY <1>1, <1>4

\* Induction over the subsets of a finite set, again with a set as property.
LEMMA Grow ==
  ASSUME NEW S, IsFiniteSet(S), NEW F, {} \in F,
         \A s \in SUBSET S : s # {} /\ (\A x \in s : s \ {x} \in F) => s \in F
  PROVE  S \in F
<1> DEFINE T == {n \in Nat : \A s \in SUBSET S : Cardinality(s) = n => s \in F}
<1>1. \A s \in SUBSET S : IsFiniteSet(s) /\ Cardinality(s) \in Nat /\ (Cardinality(s) = 0 <=> s = {})
  BY FS_Subset, FS_CardinalityType, FS_EmptySet
<1>2. 0 \in T
  BY <1>1
<1>3. ASSUME NEW n \in Nat, n \in T PROVE n + 1 \in T
  <2>1. ASSUME NEW s \in SUBSET S, Cardinality(s) = n + 1 PROVE s \in F
    <3>1. s # {}
      BY <1>1, <2>1
    <3>2. ASSUME NEW x \in s PROVE s \ {x} \in F
      <4>1. Cardinality(s \ {x}) = n
        BY <1>1, <2>1, FS_RemoveElement
      <4>2. s \ {x} \in SUBSET S
        OBVIOUS
      <4> QED BY <1>3, <4>1, <4>2
    <3> QED BY <3>1, <3>2
  <2>2. n + 1 \in Nat
    OBVIOUS
  <2> QED BY <2>1, <2>2
<1>4. Nat \subseteq T
  <2> HIDE DEF T
  <2> QED BY <1>2, <1>3, Climb
<1> QED BY <1>1, <1>4

SumOf(b, S) == MapThenSumSet(LAMBDA i : b[i], S)
First(s) == CHOOSE x \in s : TRUE
Adds(g, b, S) == [s \in SUBSET S |-> IF s = {} THEN 0 ELSE b[First(s)] + g[s \ {First(s)}]]

\* The subsets of at most n entries.
Upto(S, n) == {s \in SUBSET S : Cardinality(s) <= n}
AddsTo(g, b, S, n) ==
  \A s \in Upto(S, n) : g[s] = IF s = {} THEN 0 ELSE b[First(s)] + g[s \ {First(s)}]

\* The recursion of the sum has a solution on the subsets of at most n entries.
LEMMA AddsUpto ==
  ASSUME NEW S, IsFiniteSet(S), NEW b \in [S -> Nat]
  PROVE  \A n \in Nat : \E g \in [Upto(S, n) -> Nat] : AddsTo(g, b, S, n)
<1> DEFINE T == {n \in Nat : \E g \in [Upto(S, n) -> Nat] : AddsTo(g, b, S, n)}
<1>0. \A s \in SUBSET S : IsFiniteSet(s) /\ Cardinality(s) \in Nat /\ (Cardinality(s) = 0 <=> s = {})
  BY FS_Subset, FS_CardinalityType, FS_EmptySet
<1>1. 0 \in T
  <2> DEFINE g == [s \in Upto(S, 0) |-> 0]
  <2>1. \A s \in Upto(S, 0) : s = {}
    BY <1>0 DEF Upto
  <2>2. g \in [Upto(S, 0) -> Nat]
    OBVIOUS
  <2>3. AddsTo(g, b, S, 0)
    BY <2>1 DEF AddsTo
  <2> HIDE DEF g
  <2> QED BY <2>2, <2>3
<1>2. ASSUME NEW n \in Nat, n \in T PROVE n + 1 \in T
  <2>1. PICK g \in [Upto(S, n) -> Nat] : AddsTo(g, b, S, n)
    BY <1>2
  <2> DEFINE h == [s \in Upto(S, n + 1) |-> IF s = {} THEN 0 ELSE b[First(s)] + g[s \ {First(s)}]]
  <2>2. ASSUME NEW s \in Upto(S, n + 1), s # {}
        PROVE  First(s) \in S /\ s \ {First(s)} \in Upto(S, n) /\ s \ {First(s)} \in Upto(S, n + 1)
    <3>1. First(s) \in s
      BY <2>2 DEF First
    <3>2. Cardinality(s \ {First(s)}) = Cardinality(s) - 1
      BY <1>0, <3>1, FS_RemoveElement DEF Upto
    <3>3. Cardinality(s) \in Nat /\ Cardinality(s) <= n + 1
      BY <1>0 DEF Upto
    <3> QED BY <3>1, <3>2, <3>3 DEF Upto
  <2>3. h \in [Upto(S, n + 1) -> Nat]
    <3>1. ASSUME NEW s \in Upto(S, n + 1) PROVE h[s] \in Nat
      BY <2>1, <2>2
    <3> QED BY <3>1
  <2>4. \A s \in Upto(S, n) : s \in Upto(S, n + 1) /\ h[s] = g[s]
    <3>1. ASSUME NEW s \in Upto(S, n) PROVE s \in Upto(S, n + 1)
      BY <1>0 DEF Upto
    <3> QED BY <3>1, <2>1 DEF AddsTo
  <2>5. AddsTo(h, b, S, n + 1)
    <3>1. ASSUME NEW s \in Upto(S, n + 1)
          PROVE  h[s] = IF s = {} THEN 0 ELSE b[First(s)] + g[s \ {First(s)}]
      OBVIOUS
    <3> HIDE DEF h
    <3> QED BY <3>1, <2>2, <2>4 DEF AddsTo
  <2> HIDE DEF h
  <2> QED BY <2>3, <2>5
<1>3. Nat \subseteq T
  <2> HIDE DEF T
  <2> QED BY <1>1, <1>2, Climb
<1> QED BY <1>3

\* g gives the sum over each part of S.
Sums(g, b, S) ==
  /\ SumOf(b, S) = g[S] /\ g[{}] = 0
  /\ \A s \in SUBSET S : s # {} => \E x \in s : g[s] = b[x] + g[s \ {x}]

\* What MapThenSumSet computes.
LEMMA SumOfAdds ==
  ASSUME NEW S, IsFiniteSet(S), NEW b \in [S -> Nat]
  PROVE  \E g \in [SUBSET S -> Nat] : Sums(g, b, S)
<1> DEFINE N == Cardinality(S)
<1>1. N \in Nat /\ Upto(S, N) = SUBSET S
  BY FS_Subset, FS_CardinalityType DEF Upto
<1> HIDE DEF N
<1>2. PICK h \in [SUBSET S -> Nat] : AddsTo(h, b, S, N)
  BY <1>1, AddsUpto
<1>3. h = Adds(h, b, S)
  BY <1>1, <1>2 DEF AddsTo, Adds
<1> DEFINE g == CHOOSE g : g = Adds(g, b, S)
<1>4. g = Adds(g, b, S)
  BY <1>3
<1>5. SumOf(b, S) = g[S]
  BY Zenon DEF SumOf, MapThenSumSet, MapThenFoldSet, Adds, First
<1> HIDE DEF g
<1>6. \A s \in SUBSET S : g[s] = IF s = {} THEN 0 ELSE b[First(s)] + g[s \ {First(s)}]
  BY <1>4 DEF Adds
<1>7. \A s \in SUBSET S : s # {} => First(s) \in s
  BY DEF First
<1>8. \A s \in SUBSET S : h[s] = IF s = {} THEN 0 ELSE b[First(s)] + h[s \ {First(s)}]
  BY <1>1, <1>2 DEF AddsTo
<1> DEFINE F == {s \in SUBSET S : g[s] = h[s]}
<1>9. {} \in F
  BY <1>6, <1>8
<1>10. ASSUME NEW s \in SUBSET S, s # {}, \A x \in s : s \ {x} \in F PROVE s \in F
  <2>1. g[s \ {First(s)}] = h[s \ {First(s)}]
    BY <1>7, <1>10
  <2> QED BY <1>6, <1>8, <1>10, <2>1
<1>11. S \in F
  <2> HIDE DEF F
  <2> QED BY <1>9, <1>10, Grow
<1>12. SumOf(b, S) = h[S]
  BY <1>5, <1>11
<1>13. h[{}] = 0
  BY <1>8
<1>14. \A s \in SUBSET S : s # {} => \E x \in s : h[s] = b[x] + h[s \ {x}]
  BY <1>7, <1>8
<1> QED BY <1>2, <1>12, <1>13, <1>14 DEF Sums

\* A sum of n numbers up to m is at most n * m.
LEMMA SumOfBound ==
  ASSUME NEW S, IsFiniteSet(S), NEW m \in Nat, NEW b \in [S -> 0..m]
  PROVE  SumOf(b, S) \in Nat /\ SumOf(b, S) <= Cardinality(S) * m
<1>1. b \in [S -> Nat]
  OBVIOUS
<1>2. PICK g \in [SUBSET S -> Nat] : Sums(g, b, S)
  BY <1>1, SumOfAdds
<1> DEFINE F == {s \in SUBSET S : g[s] <= Cardinality(s) * m}
<1>3. {} \in F
  BY <1>2, FS_EmptySet DEF Sums
<1>4. ASSUME NEW s \in SUBSET S, s # {}, \A x \in s : s \ {x} \in F PROVE s \in F
  <2>1. PICK x \in s : g[s] = b[x] + g[s \ {x}]
    BY <1>2, <1>4 DEF Sums
  <2>2. IsFiniteSet(s) /\ Cardinality(s) \in Nat /\ Cardinality(s \ {x}) = Cardinality(s) - 1
    BY FS_Subset, FS_CardinalityType, FS_RemoveElement
  <2> DEFINE c == Cardinality(s) p == g[s \ {x}] q == b[x]
  <2>3. c \in Nat /\ p \in Nat /\ q \in 0..m /\ p <= (c - 1) * m /\ g[s] = q + p
    BY <1>4, <2>1, <2>2
  <2> HIDE DEF c, p, q
  <2>4. (c - 1) * m = c * m - m
    BY <2>3
  <2>5. c * m \in Nat
    BY <2>3
  <2>6. q + p <= c * m
    BY <2>3, <2>4, <2>5
  <2> QED BY <2>3, <2>6 DEF c
<1>5. S \in F
  <2> HIDE DEF F
  <2> QED BY <1>3, <1>4, Grow
<1> QED BY <1>2, <1>5 DEF Sums

\* Counting by a key: the sum over S of the numbers of elements of T with each
\* key is the number of elements of T whose key is in S.
LEMMA SumOfCounts ==
  ASSUME NEW S, IsFiniteSet(S), NEW T, IsFiniteSet(T), NEW k,
         NEW b \in [S -> Nat], \A i \in S : b[i] = Cardinality({t \in T : k[t] = i})
  PROVE  SumOf(b, S) = Cardinality({t \in T : k[t] \in S})
<1>1. PICK g \in [SUBSET S -> Nat] : Sums(g, b, S)
  BY SumOfAdds
<1> DEFINE Of(s) == {t \in T : k[t] \in s}
           F == {s \in SUBSET S : g[s] = Cardinality(Of(s))}
<1>2. {} \in F
  <2>1. Of({}) = {}
    OBVIOUS
  <2> QED BY <1>1, <2>1, FS_EmptySet DEF Sums
<1>3. ASSUME NEW s \in SUBSET S, s # {}, \A x \in s : s \ {x} \in F PROVE s \in F
  <2>1. PICK x \in s : g[s] = b[x] + g[s \ {x}]
    BY <1>1, <1>3 DEF Sums
  <2> DEFINE A == Of(s \ {x}) B == {t \in T : k[t] = x}
  <2>2. Of(s) = B \cup A /\ B \cap A = {}
    OBVIOUS
  <2>3. IsFiniteSet(A) /\ IsFiniteSet(B)
    BY FS_Subset
  <2>4. b[x] = Cardinality(B) /\ g[s \ {x}] = Cardinality(A)
    BY <1>3
  <2>5. Cardinality(Of(s)) = Cardinality(B \cup A)
    BY <2>2
  <2> HIDE DEF A, B, Of
  <2>6. Cardinality(B \cup A) = Cardinality(B) + Cardinality(A)
    <3>1. Cardinality(B \cup A) = Cardinality(B) + Cardinality(A) - Cardinality(B \cap A)
      BY <2>3, FS_Union
    <3>2. Cardinality(B \cap A) = 0 /\ Cardinality(A) \in Nat /\ Cardinality(B) \in Nat
      BY <2>2, <2>3, FS_EmptySet, FS_CardinalityType
    <3> QED BY <3>1, <3>2
  <2> QED BY <2>1, <2>4, <2>5, <2>6
<1>4. S \in F
  <2> HIDE DEF F
  <2> QED BY <1>2, <1>3, Grow
<1> QED BY <1>1, <1>4 DEF Sums

\* The quotient of a token dealt to n sequences of at most m tokens.
LEMMA Quotient ==
  ASSUME NEW n \in Nat \ {0}, NEW m \in Nat, NEW t \in Nat
  PROVE  /\ t = n * (t \div n) + (t % n)
         /\ t \div n \in Nat /\ t % n \in 0..(n - 1)
         /\ t < n * m => t \div n < m
<1> DEFINE d == t \div n r == t % n
<1>1. t = n * d + r /\ d \in Int /\ r \in 0..(n - 1)
  OBVIOUS
<1> HIDE DEF d, r
<1>2. d >= 0
  <2> SUFFICES ASSUME d <= -1 PROVE FALSE
    BY <1>1
  <2>1. n * d <= n * (-1)
    BY <1>1
  <2> QED BY <1>1, <2>1
<1>3. ASSUME t < n * m, d >= m PROVE FALSE
  <2>1. n * d >= n * m
    BY <1>1, <1>3
  <2>2. n * d \in Int /\ n * m \in Int
    BY <1>1
  <2> QED BY <1>1, <1>3, <2>1, <2>2
<1> QED BY <1>1, <1>2, <1>3 DEF d, r

\* The budget of warmup is the smaller of the two bounds.
LEMMA WarmupBudget ==
  ASSUME NEW l \in Limits
  PROVE  /\ l.batch \in Nat \ {0} /\ l.seq \in Nat /\ l.tokens \in Nat /\ l.batch * l.seq \in Nat
         /\ WarmupTokens(l) \in Nat
         /\ WarmupTokens(l) <= l.tokens /\ WarmupTokens(l) <= l.batch * l.seq
         /\ \A n \in Nat : n <= l.tokens /\ n <= l.batch * l.seq => n <= WarmupTokens(l)
<1>1. l.batch \in Nat \ {0} /\ l.seq \in Nat /\ l.tokens \in Nat
  BY StartUpAssumption
<1>2. l.batch * l.seq \in Nat
  BY <1>1
<1> DEFINE a == l.tokens c == l.batch * l.seq
<1>3. a \in Nat /\ c \in Nat /\ WarmupTokens(l) = Min({a, c})
  BY <1>1, <1>2 DEF WarmupTokens
<1> HIDE DEF a, c
<1>4. Min({a, c}) \in {a, c} /\ Min({a, c}) <= a /\ Min({a, c}) <= c
  BY <1>3 DEF Min
<1>5. /\ WarmupTokens(l) \in Nat /\ WarmupTokens(l) <= a /\ WarmupTokens(l) <= c
      /\ \A n \in Nat : n <= a /\ n <= c => n <= WarmupTokens(l)
  BY <1>3, <1>4
<1> QED BY <1>1, <1>2, <1>5 DEF a, c

\* Dealt in turn, no sequence gets more than max_seq_len tokens.
LEMMA WarmupLensFit ==
  ASSUME NEW l \in Limits
  PROVE  WarmupLens(l) \in [0..(l.batch - 1) -> 0..l.seq]
<1> DEFINE n == l.batch m == l.seq T == WarmupTokens(l)
<1>1. n \in Nat \ {0} /\ m \in Nat /\ T \in Nat /\ T <= n * m
  BY WarmupBudget
<1>2. WarmupLens(l) = [i \in 0..(n - 1) |-> Cardinality({t \in 0..(T - 1) : t % n = i})]
  BY DEF WarmupLens
<1> HIDE DEF n, m, T
<1>3. ASSUME NEW i \in 0..(n - 1)
      PROVE  Cardinality({t \in 0..(T - 1) : t % n = i}) \in 0..m
  <2> DEFINE A == {t \in 0..(T - 1) : t % n = i}
             f == [t \in A |-> t \div n]
  <2>0. n * m \in Nat
    BY <1>1
  <2>1. ASSUME NEW t \in A PROVE t \in Nat /\ t = n * (t \div n) + i /\ t \div n \in 0..(m - 1)
    <3>1. t \in Nat /\ t < n * m /\ t % n = i
      BY <1>1, <2>0
    <3>2. t = n * (t \div n) + (t % n) /\ t \div n \in Nat /\ (t < n * m => t \div n < m)
      BY <1>1, <3>1, Quotient
    <3>3. ASSUME NEW d \in Nat, d < m PROVE d \in 0..(m - 1)
      BY <1>1, <3>3
    <3> QED BY <3>1, <3>2, <3>3
  <2>2. f \in Injection(A, 0..(m - 1))
    <3>1. f \in [A -> 0..(m - 1)]
      BY <2>1
    <3>2. ASSUME NEW t \in A, NEW u \in A, f[t] = f[u] PROVE t = u
      BY <2>1, <3>2
    <3> QED BY <3>1, <3>2 DEF Injection, IsInjective
  <2>3. IsFiniteSet(0..(m - 1)) /\ Cardinality(0..(m - 1)) = m
    BY <1>1, FS_Interval
  <2> HIDE DEF f, A
  <2>4. IsFiniteSet(A) /\ Cardinality(A) <= m
    BY <2>2, <2>3, FS_Injection
  <2>5. Cardinality(A) \in Nat
    BY <2>4, FS_CardinalityType
  <2> QED BY <1>1, <2>4, <2>5 DEF A
<1>4. WarmupLens(l) \in [0..(n - 1) -> 0..m]
  BY <1>2, <1>3
<1> QED BY <1>4 DEF n, m

\* Every token of the budget is dealt, and to one sequence.
LEMMA WarmupLensSum ==
  ASSUME NEW l \in Limits
  PROVE  SumOf(WarmupLens(l), 0..(l.batch - 1)) = WarmupTokens(l)
<1> DEFINE n == l.batch m == l.seq T == WarmupTokens(l) b == WarmupLens(l)
           S == 0..(n - 1) U == 0..(T - 1) k == [t \in U |-> t % n]
<1>1. n \in Nat \ {0} /\ T \in Nat
  BY WarmupBudget
<1>2. b \in [S -> 0..m] /\ m \in Nat
  BY WarmupLensFit, WarmupBudget
<1>3. \A i \in S : b[i] = Cardinality({t \in U : k[t] = i})
  <2>1. ASSUME NEW i \in S PROVE {t \in U : k[t] = i} = {t \in U : t % n = i}
    OBVIOUS
  <2> QED BY <2>1 DEF WarmupLens
<1>4. {t \in U : k[t] \in S} = U
  <2> HIDE DEF n, T
  <2>1. ASSUME NEW t \in U PROVE t % n \in S
    BY <1>1
  <2> QED BY <2>1
<1> HIDE DEF n, m, T, b, k
<1>5. IsFiniteSet(S) /\ IsFiniteSet(U) /\ Cardinality(U) = T
  BY <1>1, FS_Interval
<1> HIDE DEF S, U
<1>6. b \in [S -> Nat]
  BY <1>2
<1>7. SumOf(b, S) = Cardinality({t \in U : k[t] \in S})
  BY <1>3, <1>5, <1>6, SumOfCounts
<1>8. SumOf(b, S) = T
  BY <1>4, <1>5, <1>7
<1> QED BY <1>8 DEF b, S, T, n

\* The batch that warmup measures is the largest that the limits allow.
LEMMA WarmupIsLargest ==
  ASSUME limits \in Limits
  PROVE  WarmupIsLargestBatch
<1> DEFINE S == 0..(limits.batch - 1) L == WarmupLens(limits)
<1>1. L \in [S -> 0..limits.seq] /\ SumOf(L, S) = WarmupTokens(limits)
  BY WarmupLensFit, WarmupLensSum
<1>2. WarmupTokens(limits) <= limits.tokens
  BY WarmupBudget
<1>3. ASSUME NEW b \in [S -> 0..limits.seq], SumOf(b, S) <= limits.tokens
      PROVE  SumOf(b, S) <= SumOf(L, S)
  <2>1. IsFiniteSet(S) /\ Cardinality(S) = limits.batch
    <3>1. limits.batch \in Nat \ {0}
      BY WarmupBudget
    <3> QED BY <3>1, FS_Interval
  <2> HIDE DEF S, L
  <2>2. limits.seq \in Nat
    BY WarmupBudget
  <2>3. SumOf(b, S) \in Nat /\ SumOf(b, S) <= limits.batch * limits.seq
    BY <2>1, <2>2, SumOfBound
  <2> QED BY <1>1, <1>3, <2>3, WarmupBudget
<1> QED BY <1>1, <1>2, <1>3, Zenon DEF WarmupIsLargestBatch, SumOf

\* The warm-up of ModelWorker.warmup measures the largest batch that dispatch
\* may send, for any limits, workers, failures and launches: the tokens dealt
\* in turn respect max_seq_len and max_num_batched_tokens, and no batch that
\* does has more of them.
THEOREM WarmupIsLargestAlways == Spec => []WarmupIsLargestBatch
<1>1. Init => limits \in Limits
  BY DEF Init
<1>2. limits \in Limits /\ [Next]_vars => (limits \in Limits)'
  BY MachineFixed
<1>3. limits \in Limits => WarmupIsLargestBatch
  BY WarmupIsLargest
<1> QED BY <1>1, <1>2, <1>3, PTL DEF Spec

=============================================================================
