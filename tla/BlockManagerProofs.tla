------------------------- MODULE BlockManagerProofs -------------------------
(***************************************************************************)
(* The safety properties of BlockManager, for every pool size, block size, *)
(* set of sequences and regions and every hash chain.  IInv is inductive;  *)
(* it adds to the invariants that a labelled block is full (LabelsFull in  *)
(* Sound), without which a block found by its label could be too short for *)
(* the sequence that takes it from the prefix cache.                       *)
(***************************************************************************)
EXTENDS BlockManager, BlockOpsProofs

Size == NumBlocks[device]

IInv ==
    /\ TypeOK
    /\ Sound(m, Size, tlen)
    /\ device = "gpu" => TableOK(m)

\* The invariants of the component are parts of IInv.
LEMMA IInvImplies ==
  IInv => TypeOK /\ RefCountExact /\ FreeListExact /\ HoldersSound /\ TableExact
<1> SUFFICES ASSUME IInv
             PROVE  TypeOK /\ RefCountExact /\ FreeListExact /\ HoldersSound /\ TableExact
  OBVIOUS
<1>1. TypeOK
  BY DEF IInv
<1>2. Blk = Blocks(Size)
  BY DEF Blk, Blocks, Size
<1>3. RefCountExact
  BY <1>2 DEF IInv, Sound, RefExact, RefCountExact, HeldBySeqs, HeldByRegions, Stranded,
              SeqHolders, RegionHolders, LostRef
<1>4. FreeListExact
  BY <1>2 DEF IInv, Sound, FreeExact, FreeListExact, NoDup
<1>5. HoldersSound
  <2>1. ASSUME NEW s \in Seqs PROVE MapSound(s)
    <3>1. MapOK(m, s, tlen[s])
      BY DEF IInv, Sound
    <3> QED BY <3>1 DEF MapOK, MapSound, BlockOK, NoDup
  <2>2. ASSUME NEW r \in Regions PROVE RegionSound(r)
    <3>1. RegionOK(m, r)
      BY DEF IInv, Sound
    <3> QED BY <3>1 DEF RegionOK, RegionSound, NoDup
  <2> QED BY <2>1, <2>2 DEF HoldersSound
<1>6. TableExact
  BY DEF IInv, TableOK, TableExact
<1> QED BY <1>1, <1>3, <1>4, <1>5, <1>6

\* A pool has a number of blocks.
LEMMA SizeType ==
  ASSUME device \in Devices
  PROVE  Size \in Nat
BY NumBlocksAssumption DEF Size

\* The manager starts sound.
LEMMA InitIInv ==
  Init => IInv
<1> SUFFICES ASSUME Init PROVE IInv
  OBVIOUS
<1>1. device \in Devices /\ m = NewManager(Size) /\ tlen \in [Seqs -> 0..MaxLen] /\ pinned = {}
  BY DEF Init, Size
<1>2. Size \in Nat
  BY <1>1, SizeType
<1>3. Sound(m, Size, tlen) /\ TableOK(m)
  BY <1>1, <1>2, NewSound
<1>4. m \in Manager(Size)
  BY <1>3 DEF Sound
<1> QED BY <1>1, <1>3, <1>4 DEF IInv, TypeOK, Size

\* What a call on the manager has to keep: the sizes stay what they were.
LEMMA CallKeeps ==
  ASSUME IInv, Sound(m', Size, tlen'), device = "gpu" => TableOK(m'),
         device' = device, tlen' \in [Seqs -> 0..MaxLen], pinned' \subseteq Regions
  PROVE  IInv'
<1>1. Size' = Size /\ m' \in Manager(Size)
  BY DEF Size, Sound
<1>2. TypeOK'
  BY <1>1 DEF IInv, TypeOK, Size
<1> QED BY <1>1, <1>2 DEF IInv

\* Every call keeps IInv.
LEMMA NextIInv ==
  IInv /\ [Next]_vars => IInv'
<1> SUFFICES ASSUME IInv, [Next]_vars PROVE IInv'
  OBVIOUS
<1> DEFINE n == Size
<1>1. /\ device \in Devices /\ tlen \in [Seqs -> 0..MaxLen] /\ pinned \subseteq Regions
      /\ Sound(m, n, tlen) /\ (device = "gpu" => TableOK(m)) /\ m \in Manager(n)
  BY DEF IInv, TypeOK, Sound
<1>2. n \in Nat
  BY <1>1, SizeType
<1>3. \A s \in Seqs : /\ m.map[s].filled \in Nat /\ m.map[s].slots \in Nat
                      /\ tlen[s] \in Nat /\ MapOK(m, s, tlen[s])
  <2>1. \A s \in Seqs : m.map[s].filled \in 0..MaxLen /\ m.map[s].slots \in 0..MaxLen
    BY <1>1, <1>2, MapFields
  <2> QED BY <1>1, <2>1, SizeAssumption DEF Sound
<1> HIDE DEF n
<1>4. ASSUME UNCHANGED <<device, tlen, pinned>>, Sound(m', n, tlen),
             device = "gpu" => TableOK(m')
      PROVE  IInv'
  <2>1. /\ device' = device /\ tlen' \in [Seqs -> 0..MaxLen] /\ pinned' \subseteq Regions
        /\ tlen' = tlen
    BY <1>1, <1>4
  <2> QED BY <1>4, <2>1, CallKeeps DEF n
<1>5. ASSUME NEW s \in Seqs, AllocTask(s) PROVE IInv'
  <2> DEFINE x == init_prefix_cache_blocks(m, s, tlen[s])
  <2>1. /\ can_alloc_seq(m, s, tlen[s], 97) /\ m' = alloc_blocks(x, s, tlen[s])
        /\ UNCHANGED <<device, tlen, pinned>>
    BY <1>5 DEF AllocTask, AdmitWatermark
  <2>2. /\ Sound(x, n, tlen) /\ (TableOK(m) => TableOK(x))
        /\ ~m.map[s].live => x.map[s].slots = Len(x.map[s].ids) * BlockSize
    BY <1>1, <1>2, InitSound
  <2>3. m.map[s].live => x = m
    BY DEF init_prefix_cache_blocks
  <2> HIDE DEF x
  <2>4. \/ x.map[s].live /\ can_alloc_seq(x, s, tlen[s], 97)
        \/ x.map[s].slots = Len(x.map[s].ids) * BlockSize
    BY <2>1, <2>2, <2>3
  <2>5. 97 \in {97, 100}
    OBVIOUS
  <2>6. Sound(m', n, tlen) /\ (TableOK(x) => TableOK(m'))
    BY ONLY <1>1, <1>2, <2>1, <2>2, <2>4, <2>5, s \in Seqs, AllocCall
  <2> QED BY <1>1, <1>4, <2>1, <2>2, <2>6
<1>6. ASSUME NEW s \in Seqs, Extend(s) PROVE IInv'
  <2>1. /\ can_alloc_seq(m, s, tlen[s], 100) /\ m' = alloc_blocks(m, s, tlen[s])
        /\ UNCHANGED <<device, tlen, pinned>>
    BY <1>6 DEF Extend, ExtendWatermark
  <2>2. \/ m.map[s].live /\ can_alloc_seq(m, s, tlen[s], 100)
        \/ m.map[s].slots = Len(m.map[s].ids) * BlockSize
    BY <1>3, <2>1, NoMapEmpty
  <2>3. 100 \in {97, 100}
    OBVIOUS
  <2>4. Sound(m', n, tlen) /\ (TableOK(m) => TableOK(m'))
    BY ONLY <1>1, <1>2, <2>1, <2>2, <2>3, s \in Seqs, AllocCall
  <2> QED BY <1>1, <1>4, <2>1, <2>4
<1>7. ASSUME NEW s \in Seqs, AppendOutput(s) PROVE IInv'
  <2>1. /\ tlen[s] < MaxLen /\ tlen' = [tlen EXCEPT ![s] = tlen[s] + 1]
        /\ device' = device /\ m' = m /\ pinned' = pinned
    BY <1>7 DEF AppendOutput
  <2>2. tlen' \in [Seqs -> 0..MaxLen] /\ \A t \in Seqs : tlen[t] <= tlen'[t]
    BY <1>1, <2>1, SizeAssumption
  <2>3. Sound(m, n, tlen')
    BY <1>1, <1>2, <2>2, GrowSound
  <2>4. /\ Sound(m', n, tlen') /\ (device = "gpu" => TableOK(m')) /\ pinned' \subseteq Regions
    BY <1>1, <2>1, <2>3
  <2> QED BY <2>1, <2>2, <2>4, CallKeeps DEF n
<1>8. ASSUME NEW s \in Seqs, SeqNext(s) PROVE IInv'
  <2>1. CASE UpdateFilledLen(s)
    <3>1. PICK f \in (m.map[s].filled + 1)..m.map[s].slots : m' = update_filled_len(m, s, f)
      BY <2>1 DEF UpdateFilledLen
    <3>2. f \in Nat /\ f <= m.map[s].slots
      BY <1>3
    <3>3. m.map[s].live /\ UNCHANGED <<device, tlen, pinned>>
      BY <2>1 DEF UpdateFilledLen
    <3>4. Sound(m', n, tlen) /\ (TableOK(m) => TableOK(m'))
      BY ONLY <1>1, <1>2, <3>1, <3>2, <3>3, s \in Seqs, FilledLenSound
    <3> QED BY <1>1, <1>4, <3>3, <3>4
  <2>2. CASE Free(s)
    <3>1. m' = free_dropping(m, s, m.map[s].filled) /\ UNCHANGED <<device, tlen, pinned>>
      BY <2>2 DEF Free, free
    <3>2. m.map[s].filled \in Nat
      BY <1>3
    <3>3. Sound(m', n, tlen) /\ (TableOK(m) => TableOK(m'))
      BY ONLY <1>1, <1>2, <3>1, <3>2, s \in Seqs, FreeSound
    <3> QED BY <1>1, <1>4, <3>1, <3>3
  <2>3. CASE FreeAndDropCache(s)
    <3>1. m' = free_dropping(m, s, 0) /\ UNCHANGED <<device, tlen, pinned>> /\ 0 \in Nat
      BY <2>3 DEF FreeAndDropCache, free_and_drop_cache
    <3>2. Sound(m', n, tlen) /\ (TableOK(m) => TableOK(m'))
      BY ONLY <1>1, <1>2, <3>1, s \in Seqs, FreeSound
    <3> QED BY <1>1, <1>4, <3>1, <3>2
  <2> QED BY <1>8, <2>1, <2>2, <2>3 DEF SeqNext
<1>9. ASSUME ClearCache PROVE IInv'
  <2>1. m' = clear_cache(m) /\ UNCHANGED <<device, tlen, pinned>>
    BY <1>9 DEF ClearCache
  <2>2. Sound(m', n, tlen) /\ TableOK(m')
    BY <1>1, <1>2, <2>1, ClearSound
  <2> QED BY <1>4, <2>1, <2>2
<1>10. ASSUME NEW s \in Seqs, InitPrefixCache(s) PROVE IInv'
  <2>1. m' = init_prefix_cache_blocks(m, s, tlen[s]) /\ UNCHANGED <<device, tlen, pinned>>
    BY <1>10 DEF InitPrefixCache
  <2>2. Sound(m', n, tlen) /\ (TableOK(m) => TableOK(m'))
    BY ONLY <1>1, <1>2, <2>1, s \in Seqs, InitSound
  <2> QED BY <1>1, <1>4, <2>1, <2>2
<1>11. ASSUME NEW s \in Seqs, UpdatePrefixCache(s) PROVE IInv'
  <2>1. /\ AllCached(m, s) /\ m' = update_prefix_cache_blocks(m, s, tlen[s])
        /\ UNCHANGED <<device, tlen, pinned>>
    BY <1>11 DEF UpdatePrefixCache, AllCached
  <2>2. Sound(m', n, tlen) /\ (TableOK(m) => TableOK(m'))
    BY ONLY <1>1, <1>2, <2>1, s \in Seqs, UpdateSound
  <2> QED BY <1>1, <1>4, <2>1, <2>2
<1>12. ASSUME NEW r \in Regions, RegionNext(r), device = "host" PROVE IInv'
  <2>0. ~(device = "gpu")
    BY <1>12
  <2>1. ASSUME NEW s \in Seqs, ReserveRequest(s, r) PROVE IInv'
    <3>1. /\ m.resv[r] = <<>> /\ m' = reserve_blocks(m, r, s, m.map[s].filled, tlen[s])
          /\ UNCHANGED <<device, tlen, pinned>>
      BY <2>1 DEF ReserveRequest
    <3>2. m.map[s].filled \in Nat /\ tlen[s] \in 0..MaxLen
      BY <1>1, <1>3
    <3>3. Sound(m', n, tlen)
      BY ONLY <1>1, <1>2, <3>1, <3>2, s \in Seqs, r \in Regions, ReserveSound
    <3> QED BY <1>4, <2>0, <3>1, <3>3
  <2>2. ASSUME NEW s \in Seqs, NEW k \in 0..MaxLen, ReserveCopy(s, r, k) PROVE IInv'
    <3>1. /\ m.resv[r] = <<>> /\ m' = reserve_blocks(m, r, s, m.map[s].filled, k)
          /\ UNCHANGED <<device, tlen, pinned>>
      BY <2>2 DEF ReserveCopy
    <3>2. m.map[s].filled \in Nat
      BY <1>3
    <3>3. Sound(m', n, tlen)
      BY ONLY <1>1, <1>2, <3>1, <3>2, s \in Seqs, r \in Regions, k \in 0..MaxLen, ReserveSound
    <3> QED BY <1>4, <2>0, <3>1, <3>3
  <2>3. ASSUME NEW hs, ActivateReserved(r, hs) PROVE IInv'
    <3>1. m' = activate_reserved_blocks(m, r, hs) /\ UNCHANGED <<device, tlen, pinned>>
      BY <2>3 DEF ActivateReserved
    <3>2. Sound(m', n, tlen)
      BY <1>1, <1>2, <3>1, ActivateSound
    <3> QED BY <1>4, <2>0, <3>1, <3>2
  <2>4. ASSUME NEW s \in Seqs, NEW j \in 0..NumFull, NEW q \in 0..NumFull, j < q,
               PinBlocks(s, r, j, q)
        PROVE  IInv'
    <3>1. /\ m.resv[r] = <<>> /\ m' = pin_blocks_by_hashes(m, r, s, j, q)
          /\ device' = device /\ tlen' = tlen /\ pinned' \subseteq pinned \union {r}
      BY <2>4 DEF PinBlocks
    <3>2. Sound(m', n, tlen)
      BY <1>1, <1>2, <2>4, <3>1, PinSound
    <3>3. /\ Sound(m', n, tlen') /\ tlen' \in [Seqs -> 0..MaxLen] /\ pinned' \subseteq Regions
      BY <1>1, <3>1, <3>2
    <3> QED BY <2>0, <3>1, <3>3, CallKeeps DEF n
  <2>5. CASE UnpinBlocks(r)
    <3>1. /\ m' = unpin_blocks(m, r)
          /\ device' = device /\ tlen' = tlen /\ pinned' = pinned \ {r}
      BY <2>5 DEF UnpinBlocks
    <3>2. Sound(m', n, tlen)
      BY <1>1, <1>2, <3>1, UnpinSound
    <3>3. /\ Sound(m', n, tlen') /\ tlen' \in [Seqs -> 0..MaxLen] /\ pinned' \subseteq Regions
      BY <1>1, <3>1, <3>2
    <3> QED BY <2>0, <3>1, <3>3, CallKeeps DEF n
  <2> QED BY <1>12, <2>1, <2>2, <2>3, <2>4, <2>5 DEF RegionNext
<1>13. CASE device = "gpu" /\ GpuNext
  BY <1>5, <1>6, <1>7, <1>8, <1>9, <1>13 DEF GpuNext
<1>14. CASE device = "host" /\ HostNext
  BY <1>6, <1>7, <1>8, <1>9, <1>10, <1>11, <1>12, <1>14 DEF HostNext
<1>15. CASE UNCHANGED vars
  <2>1. UNCHANGED <<device, tlen, pinned>> /\ m' = m
    BY <1>15 DEF vars
  <2> QED BY <1>1, <1>4, <2>1
<1> QED BY <1>13, <1>14, <1>15 DEF Next

\* IInv holds in every reachable state.
THEOREM Inductive == Spec => []IInv
BY InitIInv, NextIInv, PTL DEF Spec

\* The state of the manager has its type: free_block_ids, the counts, the
\* maps and the regions name blocks of the pool, whatever calls are made.
THEOREM TypeCorrect == Spec => []TypeOK
BY Inductive, IInvImplies, PTL

\* The ref_cnt of a block is the number of its holders (alloc_block,
\* alloc_block_by_id, free_block): no leak and no double free.
THEOREM CountsAreExact == Spec => []RefCountExact
BY Inductive, IInvImplies, PTL

\* free_block_ids holds every unreferenced block once, so the "already in
\* used", "Double free" and "BrokenAllocator" panics cannot fire.
THEOREM FreeListIsExact == Spec => []FreeListExact
BY Inductive, IInvImplies, PTL

\* Whatever was allocated, shared, preempted or evicted in between, a
\* sequence holds blocks with its own prefix, and only it holds a block that
\* is not full (alloc_blocks, init_ and update_prefix_cache_blocks, free).
THEOREM HoldersAreSound == Spec => []HoldersSound
BY Inductive, IInvImplies, PTL

\* On the GPU hash_block_table names only blocks that carry the label.
THEOREM TableIsExact == Spec => []TableExact
BY Inductive, IInvImplies, PTL

\* free keeps what the prefix cache can serve of the filled prefix.
THEOREM FreeKeepsThePrefix == Spec => FreeKeepsFilledPrefix
<1> DEFINE Keeps ==
      \A s \in Seqs :
          m' = free(m, s) =>
            \A i \in 1..(m.map[s].filled \div BlockSize) :
                lookup_block_id(m, BlockHash[s][i]) # NoBlock
                  => lookup_block_id(m', BlockHash[s][i]) # NoBlock
<1>1. IInv => Keeps
  <2> SUFFICES ASSUME IInv, NEW s \in Seqs, m' = free(m, s),
                      NEW i \in 1..(m.map[s].filled \div BlockSize),
                      lookup_block_id(m, BlockHash[s][i]) # NoBlock
               PROVE  lookup_block_id(m', BlockHash[s][i]) # NoBlock
    BY Zenon
  <2>1. /\ device \in Devices /\ tlen \in [Seqs -> 0..MaxLen] /\ Sound(m, Size, tlen)
    BY DEF IInv, TypeOK
  <2>2. Size \in Nat
    BY <2>1, SizeType
  <2> QED BY <2>1, <2>2, FreeKeeps
<1>2. IInv /\ [Next]_vars => [Keeps]_vars
  BY <1>1
<1> QED BY <1>2, Inductive, PTL DEF Spec, FreeKeepsFilledPrefix

=============================================================================
