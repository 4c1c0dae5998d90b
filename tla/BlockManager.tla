---------------------------- MODULE BlockManager ----------------------------
(***************************************************************************)
(* One block manager as a state machine: every public operation of         *)
(* block_manager.rs::BlockManager, called the way scheduler.rs calls it    *)
(* (the admission check included).  The scheduler mutex makes each call    *)
(* atomic; what is free is their order.  device says which of the managers *)
(* it is: GpuNext holds the calls the scheduler makes on the GPU manager   *)
(* for tasks of one sequence, HostNext those on the host manager (the disk *)
(* manager sees a subset of them; a task of several sequences may extend   *)
(* one that has no block map there).                                       *)
(***************************************************************************)
EXTENDS BlockOps

CONSTANT NumBlocks     \* num_blocks of each device

Devices == {"gpu", "host"}

ASSUME NumBlocksAssumption == NumBlocks \in [Devices -> Nat \ {0}]

VARIABLES
    device,  \* the device this manager is for
    m,       \* the manager
    tlen,    \* seq.token_ids.len() of each sequence
    pinned   \* the regions handed out by pin_blocks, not by reserve_blocks

vars == <<device, m, tlen, pinned>>

Blk == 0..(NumBlocks[device] - 1)

AdmitWatermark == 97    \* Scheduler.watermark_blocks = 0.97
ExtendWatermark == 100

\* A prompt has at least one token: an empty one is accepted by the code but
\* is never dispatched.
Init ==
    /\ device \in Devices
    /\ m = NewManager(NumBlocks[device])
    /\ tlen \in [Seqs -> {n \in 0..MaxLen : n > 0}]
    /\ pinned = {}

-----------------------------------------------------------------------------
(* Calls made on the GPU manager *)

\* Scheduler::try_alloc_infer_task, one sequence.
AllocTask(s) ==
    /\ can_alloc_seq(m, s, tlen[s], AdmitWatermark)
    /\ m' = alloc_blocks(init_prefix_cache_blocks(m, s, tlen[s]), s, tlen[s])
    /\ UNCHANGED <<device, tlen, pinned>>

\* Scheduler::try_extend_infer_task, one sequence.
Extend(s) ==
    /\ can_alloc_seq(m, s, tlen[s], ExtendWatermark)
    /\ m' = alloc_blocks(m, s, tlen[s])
    /\ UNCHANGED <<device, tlen, pinned>>

\* Sequence::append_output_id, of a sequence that is allocated.
AppendOutput(s) ==
    /\ m.map[s].live
    /\ tlen[s] < MaxLen
    /\ tlen' = [tlen EXCEPT ![s] = @ + 1]
    /\ UNCHANGED <<device, m, pinned>>

\* The filled length only grows, up to the allocated slots (asserted there).
UpdateFilledLen(s) ==
    /\ m.map[s].live
    /\ \E n \in (m.map[s].filled + 1)..m.map[s].slots : m' = update_filled_len(m, s, n)
    /\ UNCHANGED <<device, tlen, pinned>>

\* Scheduler::preempt_infer_task and remove_task.
Free(s) ==
    /\ m.map[s].live
    /\ m' = free(m, s)
    /\ UNCHANGED <<device, tlen, pinned>>

\* remove_task of a sequence with disable_cache.
FreeAndDropCache(s) ==
    /\ m.map[s].live
    /\ m' = free_and_drop_cache(m, s)
    /\ UNCHANGED <<device, tlen, pinned>>

ClearCache ==
    /\ m' = clear_cache(m)
    /\ UNCHANGED <<device, tlen, pinned>>

-----------------------------------------------------------------------------
(* Calls made on the host and disk managers *)

\* add_request and plan_stage.
InitPrefixCache(s) ==
    /\ ~m.map[s].live
    /\ m' = init_prefix_cache_blocks(m, s, tlen[s])
    /\ UNCHANGED <<device, tlen, pinned>>

\* trigger_pend_task, for a pending sequence: it holds cached blocks only.
UpdatePrefixCache(s) ==
    /\ m.map[s].slots = m.map[s].filled
    /\ m.map[s].slots = BlockSize * Len(m.map[s].ids)
    /\ m' = update_prefix_cache_blocks(m, s, tlen[s])
    /\ UNCHANGED <<device, tlen, pinned>>

\* Scheduler::reserve_blocks for reserve_request; nothing is checked first.
ReserveRequest(s, r) ==
    /\ m.resv[r] = <<>>
    /\ m' = reserve_blocks(m, r, s, m.map[s].filled, tlen[s])
    /\ UNCHANGED <<device, tlen, pinned>>

\* Scheduler::reserve_copy_blocks: the source device has n tokens of s.
ReserveCopy(s, r, n) ==
    LET required == (n \div BlockSize) - (m.map[s].filled \div BlockSize)
    IN  /\ m.resv[r] = <<>>
        /\ required > 0
        /\ can_alloc_blocks(m, required, ExtendWatermark)
        /\ m' = reserve_blocks(m, r, s, m.map[s].filled, n)
        /\ UNCHANGED <<device, tlen, pinned>>

\* commit_reserved_blocks and trigger_pend_task: hs are the blocks that
\* arrived.
ActivateReserved(r, hs) ==
    /\ m.resv[r] # <<>> /\ r \notin pinned
    /\ m' = activate_reserved_blocks(m, r, hs)
    /\ UNCHANGED <<device, tlen, pinned>>

\* Scheduler::pin_blocks for push_kv.
PinBlocks(s, r, j, q) ==
    /\ m.resv[r] = <<>>
    /\ m' = pin_blocks_by_hashes(m, r, s, j, q)
    /\ pinned' = IF m'.resv[r] = <<>> THEN pinned ELSE pinned \union {r}
    /\ UNCHANGED <<device, tlen>>

UnpinBlocks(r) ==
    /\ r \in pinned
    /\ m' = unpin_blocks(m, r)
    /\ pinned' = pinned \ {r}
    /\ UNCHANGED <<device, tlen>>

-----------------------------------------------------------------------------
SeqNext(s) ==
    \/ UpdateFilledLen(s)
    \/ Free(s)
    \/ FreeAndDropCache(s)

RegionNext(r) ==
    \/ \E s \in Seqs : ReserveRequest(s, r)
    \/ \E s \in Seqs, n \in 0..MaxLen : n <= tlen[s] /\ ReserveCopy(s, r, n)
    \/ \E hs \in SUBSET {m.hash[b] : b \in Elems(m.resv[r])} : ActivateReserved(r, hs)
    \/ \E s \in Seqs, j, q \in 0..NumFull : j < q /\ PinBlocks(s, r, j, q)
    \/ UnpinBlocks(r)

\* On the GPU a token is appended once all the tokens before it are filled
\* (Scheduler::update, an entry that is not chunked).
GpuNext ==
    \/ \E s \in Seqs :
          \/ SeqNext(s)
          \/ AllocTask(s)
          \/ m.map[s].live /\ Extend(s)
          \/ m.map[s].filled = tlen[s] /\ AppendOutput(s)
    \/ ClearCache

HostNext ==
    \/ \E s \in Seqs :
          \/ SeqNext(s)
          \/ AppendOutput(s)
          \/ Extend(s)
          \/ InitPrefixCache(s)
          \/ UpdatePrefixCache(s)
    \/ \E r \in Regions : RegionNext(r)
    \/ ClearCache

Next ==
    \/ device = "gpu" /\ GpuNext
    \/ device = "host" /\ HostNext

Spec == Init /\ [][Next]_vars

-----------------------------------------------------------------------------
(* Invariants *)

TypeOK ==
    /\ device \in Devices
    /\ m \in Manager(NumBlocks[device])
    /\ tlen \in [Seqs -> 0..MaxLen]
    /\ pinned \subseteq Regions

\* Who holds block b.
SeqHolders(b) == {s \in Seqs : b \in Elems(m.map[s].ids)}
RegionHolders(b) == {r \in Regions : b \in Elems(m.resv[r])}
LostRef(b) == IF b \in m.lost THEN 1 ELSE 0

\* A block's ref_cnt (alloc_block, alloc_block_by_id, free_block) is exactly
\* the number of sequences and regions that hold it, plus one if a panic in
\* alloc_block stranded it: no leak, no double free, over any call order.
RefCountExact ==
    \A b \in Blk :
        m.ref[b] = Cardinality(SeqHolders(b)) + Cardinality(RegionHolders(b)) + LostRef(b)

\* free_block_ids holds each unreferenced block exactly once, and the status
\* field agrees: the "already in used", "Double free" and "BrokenAllocator"
\* panics of BlockAllocator cannot fire.
FreeListExact ==
    /\ Elems(m.free) = {b \in Blk : m.ref[b] = 0}
    /\ \A i, j \in 1..Len(m.free) : m.free[i] = m.free[j] => i = j
    /\ \A b \in Blk : m.status[b] = "Free" <=> m.ref[b] = 0

\* The block map of s agrees with the pool, block by block: alloc_blocks,
\* the prefix cache and free never leave s holding a block with other tokens.
\* A partly filled block is held by s alone.
MapSound(s) ==
    LET bm == m.map[s]
    IN  /\ bm.filled <= bm.slots /\ bm.slots <= tlen[s]
        /\ Len(bm.ids) = CeilDiv(bm.slots, BlockSize)
        /\ \A i, j \in 1..Len(bm.ids) : bm.ids[i] = bm.ids[j] => i = j
        /\ \A i \in 1..Len(bm.ids) :
              IF i * BlockSize <= bm.slots
              THEN /\ m.len[bm.ids[i]] = BlockSize
                   /\ m.hash[bm.ids[i]] = BlockHash[s][i]
              ELSE /\ m.len[bm.ids[i]] = bm.slots - (i - 1) * BlockSize
                   /\ m.hash[bm.ids[i]] = NoHash
                   /\ m.ref[bm.ids[i]] = 1
        /\ ~bm.live => bm = NoMap

RegionSound(r) ==
    /\ \A i, j \in 1..Len(m.resv[r]) : m.resv[r][i] = m.resv[r][j] => i = j
    /\ \A i, j \in 1..Len(m.resv[r]) :
          m.hash[m.resv[r][i]] = m.hash[m.resv[r][j]] => i = j
    /\ \A i \in 1..Len(m.resv[r]) : m.hash[m.resv[r][i]] # NoHash

\* Every holder's view of its blocks is right: a sequence holds, at each
\* position, a block labelled with the hash of its own prefix and holding
\* the right number of tokens, whoever allocated, shared, preempted or
\* evicted in between; regions hold distinct labelled blocks.
HoldersSound ==
    /\ \A s \in Seqs : MapSound(s)
    /\ \A r \in Regions : RegionSound(r)

\* On the GPU the hash table names only blocks that still carry the label:
\* alloc_blocks evicts the old entry of every block it takes.
TableExact ==
    device = "gpu" =>
      \A h \in Hashes : m.table[h] # NoBlock => m.hash[m.table[h]] = h

-----------------------------------------------------------------------------
(* Action properties *)

\* free ("the blocks remain available for reuse") forgets no completely
\* filled block of the sequence: what the prefix cache could serve of its
\* filled prefix it can still serve afterwards.
FreeKeepsFilledPrefix ==
    [][\A s \in Seqs :
          m' = free(m, s) =>
            \A i \in 1..(m.map[s].filled \div BlockSize) :
                lookup_block_id(m, BlockHash[s][i]) # NoBlock
                  => lookup_block_id(m', BlockHash[s][i]) # NoBlock]_vars
=============================================================================
